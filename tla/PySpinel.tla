------------------------------ MODULE PySpinel ------------------------------
(***************************************************************************)
(* The transaction layer of the Python stack: SpinelProtocol.send_frame,   *)
(* data_received and frame_received (spinel.py).  Everything runs on one   *)
(* asyncio loop, so an action is what a task or a callback does between    *)
(* two awaits.  data_received handles its frames one after the other: while*)
(* it does (handling), nothing else runs.                                  *)
(*                                                                         *)
(* A request that is not answered in time is written again with the same   *)
(* TID, so the RCP may answer it more than once.  An answer that gets lost *)
(* is one that DataReceived never takes from inFlight.                     *)
(***************************************************************************)
EXTENDS Integers, Sequences

CONSTANTS Calls,      \* the invocations of send_frame
          NoCall,     \* not a call: a free entry of the map
          Notice,     \* a notification (TID 0) of a property the code knows
          Alien,      \* one of a property that PropertyID does not define
          MaxTid,     \* 0b1111 in the code
          Retries     \* the argument of send_frame, 3 by default

CONSTANT MaxNotices   \* bound: notifications received in a behaviour

ASSUME NoCallAssumption == NoCall \notin Calls
ASSUME NoticesAssumption == Notice \notin Calls /\ Alien \notin Calls /\ Notice # Alien
ASSUME MaxTidAssumption == MaxTid \in Nat /\ MaxTid > 1
ASSUME RetriesAssumption == Retries \in Nat /\ MaxNotices \in Nat

VARIABLES
    lastId,     \* _transaction_id
    pending,    \* _pending_frames, as TID -> call that owns the future
    phase,      \* where each call stands in send_frame
    tid,        \* the TID of the call's frame; 0: none yet
    attempt,    \* the loop variable of send_frame
    future,     \* the call's future
    got,        \* got[c]: the call whose answer is the future's result
    inFlight,   \* inFlight[c]: copies of c's request, answers not yet received
    notices,    \* notifications received so far
    buffer,     \* _buffer, as the sequence of its complete frames
    handling,   \* data_received is in its loop
    connected,  \* the transport is open
    issued,     \* history: the number of calls of send_frame
    order       \* history: order[c] = n if c was the n-th of them; 0: not yet

mapVars == <<lastId, pending>>
callVars == <<phase, tid, attempt>>
futureVars == <<future, got>>
lineVars == <<inFlight, notices, buffer, handling>>
historyVars == <<issued, order>>
vars == <<mapVars, callVars, futureVars, lineVars, connected, historyVars>>

NumTids == MaxTid - 1          \* `% (0b1111 - 1)`
Tids == 1 .. NumTids
Frames == Calls \cup {Notice, Alien}
Phases == {"idle", "awaiting", "sleeping", "Ok", "Timeout", "Cancelled", "Sent"}

TypeOK ==
    /\ lastId \in 0 .. NumTids
    /\ pending \in [Tids -> Calls \cup {NoCall}]
    /\ phase \in [Calls -> Phases]
    /\ tid \in [Calls -> Tids \cup {0}]
    /\ attempt \in [Calls -> 0 .. Retries]
    /\ future \in [Calls -> {"none", "pending", "done"}]
    /\ got \in [Calls -> Calls \cup {NoCall}]
    /\ inFlight \in [Calls -> 0 .. Retries + 1]
    /\ notices \in 0 .. MaxNotices
    /\ buffer \in Seq(Frames)
    /\ handling \in BOOLEAN
    /\ connected \in BOOLEAN
    /\ issued \in Nat
    /\ order \in [Calls -> Nat]

Init ==
    /\ lastId = 1
    /\ pending = [t \in Tids |-> NoCall]
    /\ phase = [c \in Calls |-> "idle"]
    /\ tid = [c \in Calls |-> 0]
    /\ attempt = [c \in Calls |-> 0]
    /\ future = [c \in Calls |-> "none"]
    /\ got = [c \in Calls |-> NoCall]
    /\ inFlight = [c \in Calls |-> 0]
    /\ notices = 0
    /\ buffer = <<>>
    /\ handling = FALSE
    /\ connected = TRUE
    /\ issued = 0
    /\ order = [c \in Calls |-> 0]

----------------------------------------------------------------------------
(* What send_frame is built from. *)

NextIdShort(x) == (x + 1) % (NumTids - 1)   \* mutant: a shorter cycle
NextId(x) == (x + 1) % NumTids

InLoop(c) == phase[c] \in {"awaiting", "sleeping"}

\* send_data: a transport that is closing ignores what is written.
SendData(c) ==
    inFlight' = IF connected THEN [inFlight EXCEPT ![c] = @ + 1] ELSE inFlight

\* Mutant: it is the TID given out last that is popped.
FinallyLast(c) == pending' = [pending EXCEPT ![1 + lastId] = NoCall]

\* The finally clause: pop(tid), whoever registered last under that TID.
Finally(c) == pending' = [pending EXCEPT ![tid[c]] = NoCall]

----------------------------------------------------------------------------
(* A call of send_frame. *)

\* From the start to the first await: the future replaces the one that was
\* under the TID.  Without wait_response the call is over, its future stays.
Send(c, wait) ==
    LET x == NextId(lastId)
    IN  /\ ~handling
        /\ phase[c] = "idle"
        /\ lastId' = x
        /\ tid' = [tid EXCEPT ![c] = 1 + x]
        /\ pending' = [pending EXCEPT ![1 + x] = c]
        /\ future' = [future EXCEPT ![c] = "pending"]
        /\ SendData(c)
        /\ phase' = [phase EXCEPT ![c] = IF wait THEN "awaiting" ELSE "Sent"]
        /\ issued' = issued + 1
        /\ order' = [order EXCEPT ![c] = issued + 1]
        /\ UNCHANGED <<attempt, got, notices, buffer, handling, connected>>

\* The task resumes with the result of its future.
Resume(c) ==
    /\ ~handling
    /\ phase[c] = "awaiting"
    /\ future[c] = "done"
    /\ phase' = [phase EXCEPT ![c] = "Ok"]
    /\ Finally(c)
    /\ UNCHANGED <<lastId, tid, attempt, futureVars, lineVars, connected, historyVars>>

\* Mutant: only a call that is still in the map times out.
TimerIfRegistered(c) ==
    /\ ~handling
    /\ phase[c] = "awaiting"
    /\ pending[tid[c]] = c
    /\ phase' = [phase EXCEPT ![c] = "Timeout"]
    /\ Finally(c)
    /\ UNCHANGED <<lastId, tid, attempt, futureVars, lineVars, connected, historyVars>>

\* The timer of async_timeout fires before the task has resumed, even if the
\* future is done by then.  shield keeps the future for the next attempt.
Timer(c) ==
    /\ ~handling
    /\ phase[c] = "awaiting"
    /\ \/ /\ attempt[c] >= Retries
          /\ phase' = [phase EXCEPT ![c] = "Timeout"]
          /\ Finally(c)
       \/ /\ attempt[c] < Retries
          /\ phase' = [phase EXCEPT ![c] = "sleeping"]
          /\ UNCHANGED pending
    /\ UNCHANGED <<lastId, tid, attempt, futureVars, lineVars, connected, historyVars>>

\* Mutant: each attempt has a future of its own.
WakeAnew(c) ==
    /\ ~handling
    /\ phase[c] = "sleeping"
    /\ attempt' = [attempt EXCEPT ![c] = @ + 1]
    /\ SendData(c)
    /\ phase' = [phase EXCEPT ![c] = "awaiting"]
    /\ future' = [future EXCEPT ![c] = "pending"]
    /\ UNCHANGED <<mapVars, tid, got, notices, buffer, handling, connected, historyVars>>

\* retry_delay is over: the next attempt writes the frame again, and then
\* waits, unless the future is done: awaiting a done future does not suspend.
Wake(c) ==
    /\ ~handling
    /\ phase[c] = "sleeping"
    /\ attempt' = [attempt EXCEPT ![c] = @ + 1]
    /\ SendData(c)
    /\ \/ /\ future[c] = "done"
          /\ phase' = [phase EXCEPT ![c] = "Ok"]
          /\ Finally(c)
       \/ /\ future[c] = "pending"
          /\ phase' = [phase EXCEPT ![c] = "awaiting"]
          /\ UNCHANGED pending
    /\ UNCHANGED <<lastId, tid, futureVars, notices, buffer, handling, connected, historyVars>>

\* The caller's task is cancelled while send_frame is suspended.
Cancel(c) ==
    /\ ~handling
    /\ InLoop(c)
    /\ phase' = [phase EXCEPT ![c] = "Cancelled"]
    /\ Finally(c)
    /\ UNCHANGED <<lastId, tid, attempt, futureVars, lineVars, connected, historyVars>>

----------------------------------------------------------------------------
(* The receiving side. *)

\* The bytes of f come in: data_received is called and starts its loop with what
\* an earlier call left in the buffer, or f is one more frame of the chunk it is
\* in the middle of (nothing else runs until the chunk is done, so that it makes
\* no difference when the later frames of a chunk are put behind the others).
DataReceived(f) ==
    /\ connected
    /\ \/ /\ f \in Calls
          /\ inFlight[f] > 0
          /\ inFlight' = [inFlight EXCEPT ![f] = @ - 1]
          /\ UNCHANGED notices
       \/ /\ f \in {Notice, Alien}
          /\ notices < MaxNotices
          /\ notices' = notices + 1
          /\ UNCHANGED inFlight
    /\ buffer' = Append(buffer, f)
    /\ handling' = TRUE
    /\ UNCHANGED <<mapVars, callVars, futureVars, connected, historyVars>>

\* set_result fails on a future that has its result.
Collides(f) == f \in Calls /\ pending[tid[f]] # NoCall /\ future[pending[tid[f]]] = "done"

\* frame_received raises: InvalidStateError for an answer too many, ValueError
\* for a property it does not know.
Raises(f) == Collides(f) \/ f = Alien

\* One turn of the loop.  The frame has left the buffer when frame_received
\* raises; the exception ends data_received and the rest stays for the next.
HandleFrame ==
    LET f == Head(buffer)
    IN  /\ handling
        /\ buffer' = Tail(buffer)
        /\ handling' = (~Raises(f) /\ Tail(buffer) # <<>>)
        /\ \/ /\ f \in Calls /\ ~Collides(f) /\ pending[tid[f]] # NoCall
              /\ future' = [future EXCEPT ![pending[tid[f]]] = "done"]
              /\ got' = [got EXCEPT ![pending[tid[f]]] = f]
           \/ /\ ~(f \in Calls /\ ~Collides(f) /\ pending[tid[f]] # NoCall)
              /\ UNCHANGED futureVars
        /\ UNCHANGED <<mapVars, callVars, inFlight, notices, connected, historyVars>>

\* disconnect closes the transport and clears the buffer; no call is told.
Disconnect ==
    /\ ~handling
    /\ connected
    /\ connected' = FALSE
    /\ buffer' = <<>>
    /\ UNCHANGED <<mapVars, callVars, futureVars, inFlight, notices, handling, historyVars>>

----------------------------------------------------------------------------
Next == \/ \E c \in Calls : \/ \E wait \in BOOLEAN : Send(c, wait)
                            \/ Resume(c) \/ Timer(c) \/ Wake(c) \/ Cancel(c)
        \/ \E f \in Frames : DataReceived(f)
        \/ HandleFrame
        \/ Disconnect

Spec == Init /\ [][Next]_vars

(***************************************************************************)
(* The loop runs what is ready and its timers fire.  Nothing is assumed of *)
(* the RCP, and nobody need cancel or disconnect.                          *)
(***************************************************************************)
Fairness == /\ WF_vars(HandleFrame)
            /\ \A c \in Calls : WF_vars(Resume(c)) /\ WF_vars(Timer(c)) /\ WF_vars(Wake(c))

FairSpec == Spec /\ Fairness
----------------------------------------------------------------------------
(* Properties. *)

Issued(c) == order[c] > 0

\* c and d were issued a whole cycle of TIDs, or more, from each other.
CycleApart(c, d) == \/ order[c] >= order[d] + NumTids
                    \/ order[d] >= order[c] + NumTids

Overrun(c) == \E d \in Calls \ {c} : Issued(d) /\ tid[d] = tid[c] /\ CycleApart(c, d)

(***************************************************************************)
(* A call returns its own answer, or that of a call issued at least a      *)
(* whole cycle of TIDs before it, also when both were written several      *)
(* times (send_frame, frame_received).                                     *)
(***************************************************************************)
AnswerIsOwnOrWrapped ==
    \A c \in Calls : phase[c] = "Ok" =>
        /\ got[c] \in Calls
        /\ Issued(got[c])
        /\ got[c] = c \/ order[c] >= order[got[c]] + NumTids

(***************************************************************************)
(* A call that waits for its answer can be reached by it, unless a call a  *)
(* cycle of TIDs away took its entry: by overwriting it, or by popping it  *)
(* in its own finally clause.                                              *)
(***************************************************************************)
DeafOnlyIfOverrun ==
    \A c \in Calls : (InLoop(c) /\ pending[tid[c]] # c) => Overrun(c)

(***************************************************************************)
(* InvalidStateError escapes from data_received only for a request that    *)
(* was written more than once, or where a TID was used again too early:    *)
(* one write and one answer never raise.                                   *)
(***************************************************************************)
CollisionNeedsRetryOrOverrun ==
    \A r \in Calls : (handling /\ Head(buffer) = r /\ Collides(r)) =>
        attempt[r] > 0 \/ Overrun(r)

(***************************************************************************)
(* The only entry that outlives its call is that of a call which did not   *)
(* ask for the answer: every way out of the loop of send_frame, also a     *)
(* cancellation, leaves nothing of the call in the map.                    *)
(***************************************************************************)
OnlyUnawaitedLeak ==
    \A t \in Tids : pending[t] # NoCall =>
        phase[pending[t]] \notin {"Ok", "Timeout", "Cancelled"}

(***************************************************************************)
(* The bookkeeping of send_frame, whose finally clause pops an entry by    *)
(* number: no entry is missing but for a namesake a cycle away, none is    *)
(* left but that of a call without wait_response.                          *)
(***************************************************************************)
EntriesAreRight == DeafOnlyIfOverrun /\ OnlyUnawaitedLeak

(***************************************************************************)
(* A call that waits for its answer ends, whatever the RCP, the other      *)
(* calls and the connection do.                                            *)
(***************************************************************************)
CallsEnd == \A c \in Calls : InLoop(c) ~> phase[c] \in {"Ok", "Timeout", "Cancelled"}

(***************************************************************************)
(* An answer that arrives before the last attempt is not lost, even if the *)
(* timer wins the race against the task: the next attempt finds the future *)
(* done.  Only on the last attempt can an answered call still time out.    *)
(***************************************************************************)
AnswerBeforeLastAttemptCounts ==
    \A c \in Calls : (InLoop(c) /\ future[c] = "done" /\ attempt[c] < Retries)
        ~> phase[c] \in {"Ok", "Cancelled"}

(***************************************************************************)
(* The layer implements the promise of SpinelCalls.  A call without        *)
(* wait_response stays open: nobody ever learns how it ended.              *)
(***************************************************************************)
Outcome(p) == CASE p = "idle" -> "none"
                [] p = "Ok" -> "answered"
                [] p \in {"Timeout", "Cancelled"} -> "unanswered"
                [] OTHER -> "open"

Answered(c) == IF phase[c] = "Ok" THEN got[c] ELSE NoCall

Promise == INSTANCE SpinelCalls
             WITH outcome <- [c \in Calls |-> Outcome(phase[c])],
                  answer <- [c \in Calls |-> Answered(c)]

ImplementsCalls == Promise!Spec
----------------------------------------------------------------------------
(* The inductive invariant behind the safety properties. *)

CallInv ==
    /\ issued > 0 => lastId < NumTids
    /\ \A c \in Calls : /\ order[c] <= issued
                        /\ Issued(c) <=> phase[c] # "idle"
                        /\ Issued(c) <=> future[c] # "none"
                        /\ Issued(c) => tid[c] \in Tids
                        /\ phase[c] = "sleeping" => attempt[c] < Retries
    /\ \A c, d \in Calls : Issued(c) /\ order[c] = order[d] => c = d

\* The TID handed out k requests before t was.
Back(t, k) == IF t > k THEN t - k ELSE t - k + NumTids

\* The TIDs of the calls of the last cycle follow from _transaction_id ...
RecentTids ==
    \A c \in Calls : Issued(c) /\ issued - order[c] < NumTids =>
        tid[c] = Back(1 + lastId, issued - order[c])

\* ... so that two calls with one TID are a cycle apart.
SameTidApart ==
    \A c, d \in Calls : c # d /\ Issued(c) /\ Issued(d) /\ tid[c] = tid[d]
        => CycleApart(c, d)

\* The owner of an entry is the youngest call with its TID.
PendingInv ==
    \A t \in Tids : pending[t] \in Calls =>
        /\ Issued(pending[t])
        /\ tid[pending[t]] = t
        /\ phase[pending[t]] \in {"awaiting", "sleeping", "Sent"}
        /\ \A d \in Calls : Issued(d) /\ tid[d] = t => order[d] <= order[pending[t]]

\* A call that waits without an entry has a namesake.
DeafInv ==
    \A c \in Calls : InLoop(c) /\ pending[tid[c]] # c =>
        \E d \in Calls \ {c} : Issued(d) /\ tid[d] = tid[c]

\* The result of c's future answers a call with c's TID, no younger than c.
GotInv ==
    \A c \in Calls :
        /\ phase[c] = "Ok" => future[c] = "done"
        /\ future[c] = "done" => /\ got[c] \in Calls /\ Issued(c) /\ Issued(got[c])
                                /\ tid[got[c]] = tid[c]
                                /\ order[got[c]] <= order[c]

\* Only what was written is answered, and once for each time it was written.
LineInv ==
    /\ \A c \in Calls : IF Issued(c) THEN inFlight[c] <= attempt[c] + 1
                                     ELSE inFlight[c] = 0
    /\ \A i \in DOMAIN buffer : buffer[i] \in Calls => Issued(buffer[i])
    /\ handling => buffer # <<>>

(***************************************************************************)
(* Every step preserves the conjunction, and it implies the invariants     *)
(* above; CollisionNeedsRetryOrOverrun needs OnceInv of PySpinel_proofs.   *)
(***************************************************************************)
IInv == /\ TypeOK     /\ CallInv /\ RecentTids /\ SameTidApart
        /\ PendingInv /\ DeafInv /\ GotInv     /\ LineInv
=============================================================================
