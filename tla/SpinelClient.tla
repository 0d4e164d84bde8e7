---------------------------- MODULE SpinelClient ----------------------------
(***************************************************************************)
(* The transaction layer of the Rust stack: SpinelClient::send_command     *)
(* (spinel_client.rs) and the map of pending requests of SpinelProtocol    *)
(* (spinel.rs).  Any number of tokio tasks run send_command at once,       *)
(* beside the reader task; they share the protocol behind a mutex.  A      *)
(* region of code that holds the mutex is one action.                      *)
(*                                                                         *)
(* pending_frames maps a TID to the sender of a one-shot channel whose     *)
(* receiver the call holds.  Whatever takes a sender out of the map        *)
(* without using it drops it, and dropping it closes the channel.          *)
(*                                                                         *)
(* The RCP answers a request at most once and keeps its TID.  An answer    *)
(* that gets lost (a noisy line, a partial write, a busy RCP) is one that  *)
(* Deliver never takes: nothing forces it to.                              *)
(***************************************************************************)
EXTENDS Integers, FiniteSets

CONSTANTS Calls,     \* the invocations of send_command
          NoCall,    \* not a call: a free entry of the map
          NumTids,   \* 7 in the code
          FirstTid   \* next_tid at the start: 1, or what the application set

ASSUME NoCallAssumption == NoCall \notin Calls
ASSUME NumTidsAssumption == NumTids \in Nat \ {0}
ASSUME FirstTidAssumption == FirstTid \in 1 .. NumTids

VARIABLES
    nextTid,    \* SpinelProtocol.next_tid
    pending,    \* SpinelProtocol.pending_frames, as TID -> call that owns the sender
    phase,      \* where each call stands in send_command
    tid,        \* the TID in the header of the call's frame; 0: none yet
    chan,       \* the one-shot channel, as long as the call holds its receiver
    got,        \* got[c]: the call whose answer was sent into c's channel
    inFlight,   \* the requests written whose answers have not been received
    readerUp,   \* the task of spawn_reader is running
    issued,     \* history: the number of calls that have prepared a request
    order       \* history: order[c] = n if c was the n-th of them; 0: not yet

protocolVars == <<nextTid, pending>>
callVars == <<phase, tid, chan, got>>
historyVars == <<issued, order>>
vars == <<protocolVars, callVars, inFlight, readerUp, historyVars>>

Tids == 1 .. NumTids
Finished == {"Ok", "IoError", "ChannelClosed", "Timeout"}
Phases == {"idle", "prepared", "waiting", "closed", "elapsed"} \cup Finished

TypeOK ==
    /\ nextTid \in Tids
    /\ pending \in [Tids -> Calls \cup {NoCall}]
    /\ phase \in [Calls -> Phases]
    /\ tid \in [Calls -> Tids \cup {0}]
    /\ chan \in [Calls -> {"none", "open", "closed", "sent"}]
    /\ got \in [Calls -> Calls \cup {NoCall}]
    /\ inFlight \subseteq Calls
    /\ readerUp \in BOOLEAN
    /\ issued \in Nat
    /\ order \in [Calls -> Nat]

Init ==
    /\ nextTid = FirstTid
    /\ pending = [t \in Tids |-> NoCall]
    /\ phase = [c \in Calls |-> "idle"]
    /\ tid = [c \in Calls |-> 0]
    /\ chan = [c \in Calls |-> "none"]
    /\ got = [c \in Calls |-> NoCall]
    /\ inFlight = {}
    /\ readerUp = TRUE
    /\ issued = 0
    /\ order = [c \in Calls |-> 0]

----------------------------------------------------------------------------
(* The map of pending requests. *)

NextTidShort(t) == 1 + (t % (NumTids - 1))   \* mutant: a shorter cycle
NextTid(t) == 1 + (t % NumTids)

\* c still holds the receiver of its channel.
Receiving(c) == phase[c] \in {"prepared", "waiting"}

\* The channels once the sender registered under t, if any, is dropped.
SenderDropped(t) ==
    [c \in Calls |-> IF c = pending[t] /\ chan[c] = "open" THEN "closed" ELSE chan[c]]

\* pending_frames.insert(t, tx): the sender that was there is dropped.
Insert(t, c) ==
    /\ pending' = [pending EXCEPT ![t] = c]
    /\ chan' = [SenderDropped(t) EXCEPT ![c] = "open"]

\* pending_frames.remove(&t) by cancel_request: nobody looks whose it is.
Remove(t) ==
    /\ pending' = [pending EXCEPT ![t] = NoCall]
    /\ chan' = SenderDropped(t)

----------------------------------------------------------------------------
(* A call of send_command. *)

\* Under the mutex, prepare_request takes the next TID and registers a sender.
Prepare(c) ==
    /\ phase[c] = "idle"
    /\ phase' = [phase EXCEPT ![c] = "prepared"]
    /\ tid' = [tid EXCEPT ![c] = nextTid]
    /\ nextTid' = NextTid(nextTid)
    /\ Insert(nextTid, c)
    /\ issued' = issued + 1
    /\ order' = [order EXCEPT ![c] = issued + 1]
    /\ UNCHANGED <<got, inFlight, readerUp>>

\* port.write succeeds (it may block for as long as it likes before it does).
Write(c) ==
    /\ phase[c] = "prepared"
    /\ phase' = [phase EXCEPT ![c] = "waiting"]
    /\ inFlight' = inFlight \cup {c}
    /\ UNCHANGED <<protocolVars, tid, chan, got, readerUp, historyVars>>

\* port.write fails: `?` returns at once and leaves the sender in the map.
WriteError(c) ==
    /\ phase[c] = "prepared"
    /\ phase' = [phase EXCEPT ![c] = "IoError"]
    /\ chan' = [chan EXCEPT ![c] = "none"]
    /\ UNCHANGED <<protocolVars, tid, got, inFlight, readerUp, historyVars>>

\* The wait ends with what was sent into the channel.
Received(c) ==
    /\ phase[c] = "waiting"
    /\ chan[c] = "sent"
    /\ phase' = [phase EXCEPT ![c] = "Ok"]
    /\ chan' = [chan EXCEPT ![c] = "none"]
    /\ UNCHANGED <<protocolVars, tid, got, inFlight, readerUp, historyVars>>

\* The wait ends because the sender was dropped; the call goes for the mutex.
Closed(c) ==
    /\ phase[c] = "waiting"
    /\ chan[c] = "closed"
    /\ phase' = [phase EXCEPT ![c] = "closed"]
    /\ chan' = [chan EXCEPT ![c] = "none"]
    /\ UNCHANGED <<protocolVars, tid, got, inFlight, readerUp, historyVars>>

\* Mutant: the timer is polled before the channel.
ElapsedFirst(c) ==
    /\ phase[c] = "waiting"
    /\ phase' = [phase EXCEPT ![c] = "elapsed"]
    /\ chan' = [chan EXCEPT ![c] = "none"]
    /\ UNCHANGED <<protocolVars, tid, got, inFlight, readerUp, historyVars>>

\* The 30 s are over.  timeout polls the channel before the timer, so only an
\* open channel elapses; the receiver is dropped, the call goes for the mutex.
Elapsed(c) ==
    /\ phase[c] = "waiting"
    /\ chan[c] = "open"
    /\ phase' = [phase EXCEPT ![c] = "elapsed"]
    /\ chan' = [chan EXCEPT ![c] = "none"]
    /\ UNCHANGED <<protocolVars, tid, got, inFlight, readerUp, historyVars>>

\* Mutant: the error is returned without cancel_request.
CancelNothing(c) ==
    /\ phase[c] \in {"closed", "elapsed"}
    /\ phase' = [phase EXCEPT ![c] = IF @ = "closed" THEN "ChannelClosed" ELSE "Timeout"]
    /\ UNCHANGED <<protocolVars, tid, chan, got, inFlight, readerUp, historyVars>>

\* Mutant: the call goes on only if the entry is still its own.
CancelOwn(c) == /\ phase[c] \in {"closed", "elapsed"}
                /\ pending[tid[c]] = c
                /\ Remove(tid[c])
                /\ phase' = [phase EXCEPT ![c] = "Timeout"]
                /\ UNCHANGED <<nextTid, tid, got, inFlight, readerUp, historyVars>>

\* Under the mutex again: cancel_request of the call's TID, and the error.
CancelRequest(c) ==
    /\ phase[c] \in {"closed", "elapsed"}
    /\ Remove(tid[c])
    /\ phase' = [phase EXCEPT ![c] = IF @ = "closed" THEN "ChannelClosed" ELSE "Timeout"]
    /\ UNCHANGED <<nextTid, tid, got, inFlight, readerUp, historyVars>>

----------------------------------------------------------------------------
(* The reader task. *)

\* The answer to r is read and handled.  Its sender leaves the map; it is lost
\* on a call that has dropped its receiver, and on a TID without an entry.
Deliver(r) ==
    LET owner == pending[tid[r]]
    IN  /\ readerUp
        /\ r \in inFlight
        /\ inFlight' = inFlight \ {r}
        /\ pending' = [pending EXCEPT ![tid[r]] = NoCall]
        /\ \/ /\ owner \in Calls /\ Receiving(owner)
              /\ chan' = [chan EXCEPT ![owner] = "sent"]
              /\ got' = [got EXCEPT ![owner] = r]
           \/ /\ ~(owner \in Calls /\ Receiving(owner))
              /\ UNCHANGED <<chan, got>>
        /\ UNCHANGED <<nextTid, phase, tid, readerUp, historyVars>>

\* A read of 0 bytes or an error ends the task; nobody tells the calls.
ReaderStop ==
    /\ readerUp
    /\ readerUp' = FALSE
    /\ UNCHANGED <<protocolVars, callVars, inFlight, historyVars>>

----------------------------------------------------------------------------
Call(c) == \/ Prepare(c)  \/ Write(c)   \/ WriteError(c)
           \/ Received(c) \/ Closed(c)  \/ Elapsed(c)
           \/ CancelRequest(c)

Next == \/ \E c \in Calls : Call(c)
        \/ \E r \in Calls : Deliver(r)
        \/ ReaderStop

Spec == Init /\ [][Next]_vars

(***************************************************************************)
(* tokio runs a task that is ready, its timer fires, and its mutex is      *)
(* handed over in order of arrival: a call that waits goes on.  Nothing is *)
(* assumed of the port (a write may block) or of the RCP.                  *)
(***************************************************************************)
Fairness == \A c \in Calls : /\ WF_vars(Received(c))
                             /\ WF_vars(Closed(c))
                             /\ WF_vars(Elapsed(c))
                             /\ WF_vars(CancelRequest(c))

FairSpec == Spec /\ Fairness

----------------------------------------------------------------------------
(* Properties. *)

Issued(c) == order[c] > 0

\* c and d were issued a whole cycle of TIDs, or more, from each other.
CycleApart(c, d) == \/ order[c] >= order[d] + NumTids
                    \/ order[d] >= order[c] + NumTids

(***************************************************************************)
(* A call returns its own answer, or that of a call issued at least a      *)
(* whole cycle of TIDs before it: never that of a younger call, never that *)
(* of a call it could still know to be outstanding (handle_inbound_frame,  *)
(* prepare_request).                                                       *)
(***************************************************************************)
AnswerIsOwnOrWrapped ==
    \A c \in Calls : phase[c] = "Ok" =>
        /\ got[c] \in Calls
        /\ Issued(got[c])
        /\ got[c] = c \/ order[c] >= order[got[c]] + NumTids

(***************************************************************************)
(* ChannelClosed, which the caller sees as an error of its own, is always  *)
(* the work of another call with the same TID, a cycle or more away: one   *)
(* that overwrote the entry, or one that cancelled it by number.           *)
(***************************************************************************)
ClosedOnlyIfOverrun ==
    \A c \in Calls : phase[c] \in {"closed", "ChannelClosed"} =>
        \E d \in Calls \ {c} : Issued(d) /\ tid[d] = tid[c] /\ CycleApart(c, d)

(***************************************************************************)
(* While a call holds its receiver, its channel is open exactly if the map *)
(* has its sender: no answer finds the way to a call the map has forgotten *)
(* and no forgotten call waits for the timer.                              *)
(***************************************************************************)
RegisteredIffOpen ==
    \A c \in Calls : Receiving(c) => (chan[c] = "open" <=> pending[tid[c]] = c)

(***************************************************************************)
(* The only entry that outlives its call is that of a failed write: every  *)
(* other way out of send_command leaves nothing of the call in the map.    *)
(***************************************************************************)
OnlyIoErrorLeaks ==
    \A t \in Tids : pending[t] # NoCall =>
        phase[pending[t]] \notin {"Ok", "ChannelClosed", "Timeout"}

(***************************************************************************)
(* The bookkeeping of prepare_request and cancel_request, which remove and *)
(* overwrite entries by number: an entry is there exactly as long as it is *)
(* wanted, but for a failed write, and one that is missing was taken by a  *)
(* namesake a cycle away.                                                  *)
(***************************************************************************)
EntriesAreRight == ClosedOnlyIfOverrun /\ RegisteredIffOpen /\ OnlyIoErrorLeaks

(***************************************************************************)
(* An answer that has reached a waiting call is what the call returns:     *)
(* neither the timer, nor a cancellation, nor a second user of the TID     *)
(* takes it back.                                                          *)
(***************************************************************************)
AnswerIsKept ==
    [][\A c \in Calls : (phase[c] = "waiting" /\ chan[c] = "sent") =>
            \/ phase'[c] = "waiting" /\ chan'[c] = "sent"
            \/ phase'[c] = "Ok" /\ got'[c] = got[c]]_vars

(***************************************************************************)
(* A call whose request is written ends, whatever the RCP, the reader task *)
(* and the other calls do.                                                 *)
(***************************************************************************)
CallsEnd == \A c \in Calls : phase[c] = "waiting" ~> phase[c] \in Finished

(***************************************************************************)
(* The layer implements the promise of SpinelCalls.                        *)
(***************************************************************************)
Outcome(p) == CASE p = "idle" -> "none"
                [] p = "Ok" -> "answered"
                [] p \in Finished \ {"Ok"} -> "unanswered"
                [] OTHER -> "open"

Answered(c) == IF phase[c] = "Ok" THEN got[c] ELSE NoCall

Promise == INSTANCE SpinelCalls
             WITH outcome <- [c \in Calls |-> Outcome(phase[c])],
                  answer <- [c \in Calls |-> Answered(c)]

ImplementsCalls == Promise!Spec
----------------------------------------------------------------------------
(* The inductive invariant behind the safety properties. *)

\* Orders are dense enough to tell calls apart; only idle calls have none.
OrderInv ==
    /\ \A c \in Calls : /\ order[c] <= issued
                        /\ Issued(c) <=> phase[c] # "idle"
                        /\ Issued(c) => tid[c] \in Tids
    /\ \A c, d \in Calls : Issued(c) /\ order[c] = order[d] => c = d

\* The TID handed out k requests before t is due.
Back(t, k) == IF t > k THEN t - k ELSE t - k + NumTids

\* The TIDs of the calls of the last cycle follow from next_tid ...
RecentTids ==
    \A c \in Calls : Issued(c) /\ issued - order[c] < NumTids =>
        tid[c] = Back(nextTid, issued - order[c] + 1)

\* ... so that two calls with one TID are a cycle apart.
SameTidApart ==
    \A c, d \in Calls : c # d /\ Issued(c) /\ Issued(d) /\ tid[c] = tid[d]
        => CycleApart(c, d)

\* The owner of an entry is the youngest call with its TID.
PendingInv ==
    \A t \in Tids : pending[t] \in Calls =>
        /\ Issued(pending[t])
        /\ tid[pending[t]] = t
        /\ phase[pending[t]] \in {"prepared", "waiting", "elapsed", "IoError"}
        /\ \A d \in Calls : Issued(d) /\ tid[d] = t => order[d] <= order[pending[t]]

ChanInv ==
    \A c \in Calls :
        /\ Receiving(c) => /\ chan[c] \in {"open", "closed", "sent"}
                           /\ chan[c] = "open" <=> pending[tid[c]] = c
        /\ ~Receiving(c) => chan[c] = "none"

\* What was sent to c answers a call with its TID, no younger than c.
GotInv ==
    \A c \in Calls :
        /\ phase[c] = "Ok" \/ chan[c] = "sent" => got[c] \in Calls
        /\ got[c] \in Calls => /\ Issued(c) /\ Issued(got[c])
                               /\ tid[got[c]] = tid[c]
                               /\ order[got[c]] <= order[c]

\* A channel is closed by another user of the TID.
ClosedInv ==
    \A c \in Calls :
        (chan[c] = "closed" \/ phase[c] \in {"closed", "ChannelClosed"}) =>
            \E d \in Calls \ {c} : Issued(d) /\ tid[d] = tid[c]

InFlightInv == \A r \in inFlight : Issued(r)

(***************************************************************************)
(* Every step of the layer preserves the conjunction, and it implies each  *)
(* of the invariants above: what the calls see rests on the bookkeeping of *)
(* prepare_request, handle_inbound_frame and cancel_request taken together.*)
(***************************************************************************)
IInv == /\ TypeOK   /\ OrderInv /\ RecentTids /\ SameTidApart
        /\ PendingInv /\ ChanInv /\ GotInv /\ ClosedInv /\ InFlightInv
=============================================================================
