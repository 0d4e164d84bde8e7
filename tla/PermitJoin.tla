------------------------------ MODULE PermitJoin ------------------------------
(***************************************************************************)
(* The joining window of the coordinator: permit_ncp and _reset_permit_ncp *)
(* of zigpy_spinel/zigbee/application.py.  permit_ncp(time_s) sets a flag  *)
(* and leaves a timer with the event loop that clears it time_s later;     *)
(* permit_ncp(0) clears it at once, by calling what the timer would call.  *)
(*                                                                         *)
(* What the timer calls forgets the handle of the timer, so a timer that   *)
(* is not the one behind the handle can no longer be cancelled.  Time is   *)
(* counted in seconds; a timer that is due fires before time goes on.      *)
(***************************************************************************)
EXTENDS Integers

CONSTANTS
    Durations,      \* the arguments permit_ncp is called with, zero aside
    MaxCalls        \* bound: calls of permit_ncp with such an argument

ASSUME DurationsAssumption == Durations \subseteq Nat \ {0}
ASSUME MaxCallsAssumption == MaxCalls \in Nat

Calls == 1 .. MaxCalls
NoTimer == 0

VARIABLES
    permitting,     \* self._permitting_joins
    handle,         \* self._permit_reset_task, as the call that made the timer
    timers,         \* the timers of the event loop, each as the call it is of
    left,           \* left[c]: the seconds before c's timer is due
    calls,          \* the calls of permit_ncp with a duration, so far
    window,         \* history: what is left of the window asked for last
    closedOpen      \* history: permit_ncp(0) has been called on an open window

permitVars == <<permitting, handle, timers, left, calls, window, closedOpen>>

PermitInit ==
    /\ permitting = FALSE
    /\ handle = NoTimer
    /\ timers = {}
    /\ left = [c \in Calls |-> 0]
    /\ calls = 0
    /\ window = 0
    /\ closedOpen = FALSE
-------------------------------------------------------------------------------
(* What the code does *)

\* Flag and handle, whoever calls it.
Reset == /\ permitting' = FALSE
         /\ handle' = NoTimer

\* Mutant: the timer in the handle is not cancelled.
CancelledNone == timers

\* The timers once permit_ncp has cancelled the one it has a handle of.
Cancelled == timers \ {handle}

\* permit_ncp(time_s): cancel, set the flag, start a timer.
Permit(time) ==
    LET c == calls + 1
    IN  /\ c \in Calls
        /\ calls' = c
        /\ permitting' = TRUE
        /\ handle' = c
        /\ timers' = Cancelled \cup {c}
        /\ left' = [left EXCEPT ![c] = time]
        /\ window' = time
        /\ UNCHANGED closedOpen

\* permit_ncp(0): the timer, if there is one, goes on running.
Forbid == /\ Reset
          /\ window' = 0
          /\ closedOpen' = (closedOpen \/ permitting)
          /\ UNCHANGED <<timers, left, calls>>

\* Mutant: a timer that only forgets the handle.
FireSilently(c) == /\ c \in timers
                   /\ left[c] = 0
                   /\ timers' = timers \ {c}
                   /\ handle' = NoTimer
                   /\ UNCHANGED <<permitting, left, calls, window, closedOpen>>

\* A timer is due: the loop calls _reset_permit_ncp.
Fire(c) == /\ c \in timers
           /\ left[c] = 0
           /\ timers' = timers \ {c}
           /\ Reset
           /\ UNCHANGED <<left, calls, window, closedOpen>>

\* A second goes by.
Tick == /\ timers # {}
        /\ \A c \in timers : left[c] > 0
        /\ left' = [c \in Calls |-> IF c \in timers THEN left[c] - 1 ELSE left[c]]
        /\ window' = IF window > 0 THEN window - 1 ELSE 0
        /\ UNCHANGED <<permitting, handle, timers, calls, closedOpen>>

PermitNext ==
    \/ \E time \in Durations : Permit(time)
    \/ Forbid
    \/ \E c \in Calls : Fire(c)
    \/ Tick

PermitSpec == PermitInit /\ [][PermitNext]_permitVars
-------------------------------------------------------------------------------
(* Properties *)

PermitTypeOK ==
    /\ permitting \in BOOLEAN
    /\ handle \in Calls \cup {NoTimer}
    /\ timers \subseteq Calls
    /\ left \in [Calls -> Nat]
    /\ calls \in 0 .. MaxCalls
    /\ window \in Nat
    /\ closedOpen \in BOOLEAN

\* While joins are permitted the window has a timer of its own that closes it
\* on the second: the handle is that timer's, and neither a timer left behind
\* nor a second call can make the network stay open longer than it was asked to
\* (application.py:537-544).
OpenHasItsTimer ==
    permitting => /\ handle \in timers
                  /\ left[handle] = window

\* A window is closed before its time only where permit_ncp(0) has closed an
\* open one before: its timer, which nobody cancelled and nobody has a handle
\* of any more, ends the next window that it finds open, and leaves that one's
\* timer behind in turn (application.py:533-535, 546-548).
CutShortOnlyByLeftover == (window > 0 /\ ~permitting) => closedOpen
-------------------------------------------------------------------------------
(* The invariant behind CutShortOnlyByLeftover *)

\* Unless an open window was closed by permit_ncp(0), there is no timer but the
\* one behind the handle, and its window is open.
PermitIInv ==
    /\ PermitTypeOK
    /\ OpenHasItsTimer
    /\ handle # NoTimer => permitting
    /\ \A c \in timers : c <= calls
    /\ ~closedOpen => /\ timers \subseteq {handle}
                      /\ window > 0 => permitting
===============================================================================
