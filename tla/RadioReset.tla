------------------------------ MODULE RadioReset ------------------------------
(***************************************************************************)
(* reset, wait_for_property and the property listeners of                  *)
(* zigpy_spinel/spinel.py.  reset writes the request without waiting for a *)
(* response and registers a listener for LAST_STATUS before it first gives *)
(* way to other tasks.  The listener is the queue of an asynchronous       *)
(* generator, which the event loop closes, and so removes the listener,    *)
(* some time after the caller has left the loop over it.                   *)
(*                                                                         *)
(* The radio reports each start as a LAST_STATUS, and other things too.    *)
(* Nothing repeats a lost request, and reset has no timeout.               *)
(***************************************************************************)
EXTENDS Integers, Sequences, FiniteSets, SequencesExt

CONSTANTS Calls,        \* the calls of reset
          MaxOwnStarts, \* bound: starts of the radio nobody asked for
          MaxStatuses,  \* bound: other LAST_STATUS notifications
          MaxLost       \* bound: requests and notifications lost

Nobody == "nobody"
Radio == "radio"

ASSUME CallsAssumption == Nobody \notin Calls /\ Radio \notin Calls

VARIABLES
    pc,         \* where each call stands
    listeners,  \* _property_listeners[LAST_STATUS], in the order of registration
    queue,      \* the queue of each listener
    requests,   \* the requests on the line to the radio
    line,       \* the notifications on the line from the radio: value and cause
    executed,   \* history: the calls whose request has started the radio
    delivered,  \* history: the calls whose RESET_POWER_ON has been delivered
    unlucky,    \* history: those whose request or notification was lost, or whose
                \* start was reported with another reason
    ownStarts, statuses, lost

radioVars == <<requests, executed, ownStarts, statuses>>
vars == <<pc, listeners, queue, line, delivered, unlucky, lost, radioVars>>

PowerOn(cause) == [value |-> "RESET_POWER_ON", cause |-> cause]
OtherReason(cause) == [value |-> "RESET_OTHER", cause |-> cause]
Status == [value |-> "OTHER", cause |-> Nobody]

Init == /\ pc = [c \in Calls |-> "idle"]
        /\ listeners = <<>>
        /\ queue = [c \in Calls |-> <<>>]
        /\ requests = <<>> /\ line = <<>>
        /\ executed = {} /\ delivered = {} /\ unlucky = {}
        /\ ownStarts = 0 /\ statuses = 0 /\ lost = 0
-------------------------------------------------------------------------------
\* Up to the first await that suspends: queue.get() of the generator.
Reset(c) ==
    /\ pc[c] = "idle"
    /\ pc' = [pc EXCEPT ![c] = "waiting"]
    /\ requests' = Append(requests, c)
    /\ listeners' = Append(listeners, c)
    /\ UNCHANGED <<queue, line, executed, delivered, unlucky, ownStarts, statuses, lost>>

\* frame_received hands the notification to each listener.
Deliver ==
    /\ line # <<>>
    /\ line' = Tail(line)
    /\ queue' = [c \in Calls |-> IF c \in ToSet(listeners) THEN Append(queue[c], Head(line))
                                                           ELSE queue[c]]
    /\ delivered' = IF Head(line).value = "RESET_POWER_ON" THEN delivered \cup {Head(line).cause}
                                                           ELSE delivered
    /\ UNCHANGED <<pc, listeners, unlucky, lost, radioVars>>

AnyValue(n) == TRUE                    \* mutant: the first notification will do
IsAwaited(n) == n.value = "RESET_POWER_ON"

\* The task takes from its queue until it finds what it waits for.
Wake(c) ==
    /\ pc[c] = "waiting"
    /\ queue[c] # <<>>
    /\ \/ /\ \E i \in DOMAIN queue[c] : IsAwaited(queue[c][i])
          /\ pc' = [pc EXCEPT ![c] = "returned"]
       \/ /\ ~\E i \in DOMAIN queue[c] : IsAwaited(queue[c][i])
          /\ UNCHANGED pc
    /\ queue' = [queue EXCEPT ![c] = <<>>]
    /\ UNCHANGED <<listeners, line, delivered, unlucky, lost, radioVars>>

RemoveAll(c) == listeners' = <<>>                   \* mutant: all that listen for the property
\* remove_property_listener: the first that is equal.
RemoveListener(c) ==
    \E i \in DOMAIN listeners :
        /\ listeners[i] = c /\ \A j \in 1 .. i - 1 : listeners[j] # c
        /\ listeners' = RemoveAt(listeners, i)

\* The event loop closes the generator of a call that has returned.
Close(c) ==
    /\ pc[c] = "returned"
    /\ c \in ToSet(listeners)
    /\ RemoveListener(c)
    /\ queue' = [queue EXCEPT ![c] = <<>>]
    /\ UNCHANGED <<pc, line, delivered, unlucky, lost, radioVars>>

\* The task is cancelled: the exception passes through the generator.
Cancel(c) ==
    /\ pc[c] = "waiting"
    /\ pc' = [pc EXCEPT ![c] = "cancelled"]
    /\ RemoveListener(c)
    /\ queue' = [queue EXCEPT ![c] = <<>>]
    /\ UNCHANGED <<line, delivered, unlucky, lost, radioVars>>
-------------------------------------------------------------------------------
(* The radio and the line *)

\* The radio takes a request, starts again and reports it, one way or another.
Start ==
    /\ requests # <<>>
    /\ requests' = Tail(requests)
    /\ executed' = executed \cup {Head(requests)}
    /\ \/ /\ line' = Append(line, PowerOn(Head(requests)))
          /\ UNCHANGED unlucky
       \/ /\ line' = Append(line, OtherReason(Head(requests)))
          /\ unlucky' = unlucky \cup {Head(requests)}
    /\ UNCHANGED <<pc, listeners, queue, delivered, ownStarts, statuses, lost>>

StartByItself ==
    /\ ownStarts < MaxOwnStarts
    /\ ownStarts' = ownStarts + 1
    /\ line' = Append(line, PowerOn(Radio))
    /\ UNCHANGED <<pc, listeners, queue, delivered, unlucky, requests, executed, statuses, lost>>

Report ==
    /\ statuses < MaxStatuses
    /\ statuses' = statuses + 1
    /\ line' = Append(line, Status)
    /\ UNCHANGED <<pc, listeners, queue, delivered, unlucky, requests, executed, ownStarts, lost>>

Lose ==
    /\ lost < MaxLost
    /\ lost' = lost + 1
    /\ \/ /\ requests # <<>>
          /\ requests' = Tail(requests)
          /\ unlucky' = unlucky \cup {Head(requests)}
          /\ UNCHANGED line
       \/ /\ line # <<>>
          /\ line' = Tail(line)
          /\ unlucky' = unlucky \cup ({Head(line).cause} \cap Calls)
          /\ UNCHANGED requests
    /\ UNCHANGED <<pc, listeners, queue, executed, delivered, ownStarts, statuses>>

Next == \/ \E c \in Calls : Reset(c) \/ Wake(c) \/ Close(c) \/ Cancel(c)
        \/ Deliver \/ Start \/ StartByItself \/ Report \/ Lose

Spec == Init /\ [][Next]_vars

\* The event loop runs tasks; the radio and the line go on.
FairSpec == /\ Spec
            /\ WF_vars(Deliver) /\ WF_vars(Start)
            /\ \A c \in Calls : WF_vars(Wake(c))
-------------------------------------------------------------------------------
(* Properties *)

\* The report of a call's own reset cannot slip by: whatever other calls return,
\* are cancelled or closed in between, it is in the queue of the waiting call
\* from the moment it is delivered (spinel.py:233-269).
OwnReportIsKept ==
    \A c \in Calls : (pc[c] = "waiting" /\ c \in delivered) =>
        \E i \in DOMAIN queue[c] : queue[c][i] = PowerOn(c)

\* reset returns before the radio has carried out its request only on the
\* report of a start it did not ask for: one of the radio's own or of another
\* call (spinel.py:247-250, 267-269).
EarlyOnlyOnOtherStart ==
    \A c \in Calls : (pc[c] = "returned" /\ c \notin executed) =>
        ownStarts > 0 \/ executed \ {c} # {}

\* reset ends, unless its request or the report of its start is lost or gives
\* another reason: then it may wait forever (spinel.py:252-269).
ResetEnds ==
    \A c \in Calls : (pc[c] = "waiting") ~> (pc[c] # "waiting" \/ c \in unlucky)
===============================================================================
