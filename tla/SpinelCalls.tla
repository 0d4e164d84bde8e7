---------------------------- MODULE SpinelCalls ----------------------------
(***************************************************************************)
(* What a Spinel transaction layer promises to its callers.  A Spinel      *)
(* frame carries a transaction identifier (TID) of four bits and the       *)
(* answer of the radio co-processor (RCP) repeats it: this is all that     *)
(* ties an answer to a call.  Both layers of the repository, SpinelClient  *)
(* (Rust) and PySpinel (Python), take their TIDs from a cycle of NumTids   *)
(* values without asking whether one is still in use.  So the promise is:  *)
(* a call ends at most once, and with its own answer or with that of a     *)
(* call issued at least a whole cycle of TIDs before it.                   *)
(***************************************************************************)
EXTENDS Integers

CONSTANTS Calls,    \* the invocations of send_command / send_frame
          NoCall,   \* not a call
          NumTids   \* the length of the cycle of TIDs

VARIABLES order,    \* order[c] = n: c is the n-th call issued; 0: not yet
          issued,   \* the number of calls issued
          outcome,  \* of c: "none", "open", "answered" or "unanswered"
          answer    \* answer[c]: the call whose answer c returned with

vars == <<order, issued, outcome, answer>>

Init == /\ order = [c \in Calls |-> 0]
        /\ issued = 0
        /\ outcome = [c \in Calls |-> "none"]
        /\ answer = [c \in Calls |-> NoCall]

(***************************************************************************)
(* A caller issues c, which takes the next place in the order of issue.    *)
(***************************************************************************)
Issue(c) ==
    /\ outcome[c] = "none"
    /\ issued' = issued + 1
    /\ order' = [order EXCEPT ![c] = issued + 1]
    /\ outcome' = [outcome EXCEPT ![c] = "open"]
    /\ UNCHANGED answer

(***************************************************************************)
(* c returns with the answer of r: its own, or one old enough for the TID  *)
(* to have come round again.                                               *)
(***************************************************************************)
Answer(c, r) ==
    /\ outcome[c] = "open"
    /\ order[r] > 0
    /\ r = c \/ order[c] >= order[r] + NumTids
    /\ outcome' = [outcome EXCEPT ![c] = "answered"]
    /\ answer' = [answer EXCEPT ![c] = r]
    /\ UNCHANGED <<order, issued>>

(***************************************************************************)
(* c ends without an answer: a timeout, an error, a cancelled task.        *)
(***************************************************************************)
GiveUp(c) ==
    /\ outcome[c] = "open"
    /\ outcome' = [outcome EXCEPT ![c] = "unanswered"]
    /\ UNCHANGED <<order, issued, answer>>

Next == \E c \in Calls : \/ Issue(c)
                         \/ \E r \in Calls : Answer(c, r)
                         \/ GiveUp(c)

Spec == Init /\ [][Next]_vars
============================================================================
