------------------------ MODULE SpinelClient_proofs ------------------------
(***************************************************************************)
(* The safety properties of SpinelClient and its refinement of SpinelCalls *)
(* for any number of calls and any cycle of TIDs.                          *)
(***************************************************************************)
EXTENDS SpinelClient, TLAPS

USE NoCallAssumption, NumTidsAssumption, FirstTidAssumption

(***************************************************************************)
(* `1 + tid % 7` in prepare_request walks 1 .. NumTids and wraps.          *)
(***************************************************************************)
LEMMA NextTidWraps ==
    ASSUME NEW t \in Tids
    PROVE  NextTid(t) = IF t = NumTids THEN 1 ELSE t + 1
<1>1. CASE t = NumTids
  <2>1. t % NumTids = 0  BY <1>1
  <2> QED BY <1>1, <2>1 DEF NextTid
<1>2. CASE t # NumTids
  <2>1. t % NumTids = t  BY <1>2 DEF Tids
  <2> QED BY <1>2, <2>1 DEF NextTid, Tids
<1> QED BY <1>1, <1>2

LEMMA InitInv == Init => IInv
BY DEF Init, IInv, TypeOK, OrderInv, RecentTids, SameTidApart, PendingInv,
       ChanInv, GotInv, ClosedInv, InFlightInv, Issued, Receiving, Tids, Phases

LEMMA PrepareInv ==
    ASSUME IInv, NEW c \in Calls, Prepare(c)
    PROVE  IInv'
<1> USE DEF IInv, protocolVars, callVars, historyVars
<1>1. nextTid \in Tids /\ nextTid' = IF nextTid = NumTids THEN 1 ELSE nextTid + 1
  BY NextTidWraps DEF TypeOK, Prepare
<1>2. /\ order' = [order EXCEPT ![c] = issued + 1]
      /\ issued' = issued + 1
      /\ tid' = [tid EXCEPT ![c] = nextTid]
      /\ phase' = [phase EXCEPT ![c] = "prepared"]
      /\ phase[c] = "idle"
      /\ pending' = [pending EXCEPT ![nextTid] = c]
      /\ chan' = [SenderDropped(nextTid) EXCEPT ![c] = "open"]
      /\ UNCHANGED <<got, inFlight, readerUp>>
  BY DEF Prepare, Insert
<1>3. order[c] = 0 /\ ~Issued(c)
  BY <1>2 DEF OrderInv, TypeOK, Issued
<1>4. TypeOK'
  BY <1>1, <1>2 DEF TypeOK, Phases, Tids, SenderDropped
<1>5. OrderInv'
  BY <1>1, <1>2, <1>3 DEF TypeOK, OrderInv, Issued, Phases
<1>6. ASSUME NEW d \in Calls, Issued(d), issued - order[d] < NumTids - 1
      PROVE  tid[d] # nextTid
  <2> DEFINE k == issued - order[d]
  <2>1. k \in Nat /\ k < NumTids - 1
    BY <1>6 DEF TypeOK, OrderInv
  <2>2. tid[d] = Back(nextTid, k + 1)
    BY <1>6, <2>1 DEF RecentTids
  <2> HIDE DEF k
  <2> QED BY <1>1, <2>1, <2>2 DEF Back, Tids
<1>7. RecentTids'
  <2> SUFFICES ASSUME NEW d \in Calls, Issued(d)', issued' - order'[d] < NumTids
               PROVE  tid'[d] = Back(nextTid', issued' - order'[d] + 1)
    BY DEF RecentTids
  <2>1. CASE d = c
    <3>1. issued' - order'[d] = 0 /\ tid'[d] = nextTid
      BY <1>2, <2>1 DEF TypeOK
    <3> QED BY <1>1, <3>1 DEF Back, Tids
  <2>2. CASE d # c
    <3> DEFINE k == issued - order[d]
    <3>1. Issued(d) /\ tid'[d] = tid[d] /\ order'[d] = order[d]
      BY <1>2, <2>2 DEF TypeOK, Issued
    <3>2. k \in Nat /\ k + 1 < NumTids /\ issued' - order'[d] = k + 1
      <4>1. order[d] \in Nat /\ issued \in Nat /\ order[d] <= issued
        BY DEF TypeOK, OrderInv
      <4>2. issued' = issued + 1 /\ order'[d] = order[d]
        BY <1>2, <3>1
      <4> QED BY <4>1, <4>2
    <3>3. tid[d] = Back(nextTid, k + 1)
      BY <3>1, <3>2 DEF RecentTids
    <3> HIDE DEF k
    <3> QED BY <1>1, <3>1, <3>2, <3>3 DEF Back, Tids
  <2> QED BY <2>1, <2>2
<1>8. SameTidApart'
  BY <1>1, <1>2, <1>3, <1>6 DEF TypeOK, OrderInv, SameTidApart, CycleApart, Tids, Issued
<1>9. PendingInv'
  BY <1>1, <1>2, <1>3 DEF TypeOK, OrderInv, PendingInv, Tids, Issued
<1>10. ChanInv'
  BY <1>1, <1>2, <1>3 DEF TypeOK, OrderInv, ChanInv, PendingInv, SenderDropped, Receiving, Tids, Issued
<1>11. GotInv'
  BY <1>1, <1>2, <1>3 DEF TypeOK, OrderInv, GotInv, SenderDropped, Receiving, Tids, Issued
<1>12. ClosedInv'
  <2> SUFFICES ASSUME NEW d \in Calls,
                      (chan[d] = "closed" \/ phase[d] \in {"closed", "ChannelClosed"})'
               PROVE  \E e \in Calls \ {d} : Issued(e)' /\ tid'[e] = tid'[d]
    BY DEF ClosedInv
  <2>1. d # c
    BY <1>2 DEF TypeOK, SenderDropped
  <2>2. \A e \in Calls : Issued(e) => e # c /\ Issued(e)' /\ tid'[e] = tid[e]
    BY <1>2, <1>3 DEF TypeOK, Issued
  <2>3. CASE chan[d] = "closed" \/ phase[d] \in {"closed", "ChannelClosed"}
    <3>1. PICK e \in Calls \ {d} : Issued(e) /\ tid[e] = tid[d]
      BY <2>3 DEF ClosedInv
    <3>2. tid'[d] = tid[d]
      BY <1>2, <2>1 DEF TypeOK
    <3> QED BY <2>2, <3>1, <3>2
  <2>4. CASE ~(chan[d] = "closed" \/ phase[d] \in {"closed", "ChannelClosed"})
    <3>1. d = pending[nextTid]
      BY <1>2, <2>1, <2>4 DEF TypeOK, SenderDropped
    <3>2. tid'[d] = nextTid
      BY <1>1, <2>2, <3>1 DEF PendingInv
    <3>3. Issued(c)' /\ tid'[c] = nextTid
      BY <1>2 DEF TypeOK, Issued
    <3> QED BY <2>1, <3>2, <3>3
  <2> QED BY <2>3, <2>4
<1>13. InFlightInv'
  BY <1>1, <1>2, <1>3 DEF TypeOK, InFlightInv, Issued
<1> QED BY <1>4, <1>5, <1>7, <1>8, <1>9, <1>10, <1>11, <1>12, <1>13

(***************************************************************************)
(* The steps that only move a call along or stop the reader.               *)
(***************************************************************************)
LEMMA CallInv ==
    ASSUME IInv, NEW c \in Calls,
           Write(c) \/ WriteError(c) \/ Received(c) \/ Closed(c) \/ Elapsed(c)
    PROVE  IInv'
<1> USE DEF IInv, Write, WriteError, Received, Closed, Elapsed,
            protocolVars, callVars, historyVars
<1>1. TypeOK'
  BY DEF TypeOK, Phases, Finished
<1>2. OrderInv'
  BY DEF TypeOK, OrderInv, Issued
<1>3. RecentTids' /\ SameTidApart'
  BY DEF TypeOK, RecentTids, SameTidApart, CycleApart, Back, Issued
<1>4. PendingInv'
  BY DEF TypeOK, OrderInv, PendingInv, ChanInv, Receiving, Issued, Tids
<1>5. ChanInv'
  BY DEF TypeOK, ChanInv, Receiving
<1>6. GotInv'
  BY DEF TypeOK, GotInv, Issued
<1>7. ClosedInv'
  BY DEF TypeOK, ClosedInv, Issued
<1>8. InFlightInv'
  BY DEF TypeOK, OrderInv, InFlightInv, Issued
<1> QED BY <1>1, <1>2, <1>3, <1>4, <1>5, <1>6, <1>7, <1>8

LEMMA CancelRequestInv ==
    ASSUME IInv, NEW c \in Calls, CancelRequest(c)
    PROVE  IInv'
<1> USE DEF IInv, CancelRequest, Remove, historyVars
<1>1. TypeOK'
  BY DEF TypeOK, Phases, Finished, SenderDropped
<1>2. OrderInv'
  BY DEF TypeOK, OrderInv, Issued
<1>3. RecentTids' /\ SameTidApart'
  BY DEF TypeOK, RecentTids, SameTidApart, CycleApart, Back, Issued
<1>4. Issued(c) /\ tid[c] \in Tids
  BY DEF OrderInv
<1>5. PendingInv'
  BY <1>4 DEF TypeOK, OrderInv, PendingInv, Issued
<1>6. ChanInv'
  BY <1>4 DEF TypeOK, OrderInv, ChanInv, PendingInv, SenderDropped, Receiving, Issued
<1>7. GotInv'
  BY DEF TypeOK, GotInv, Issued, SenderDropped
<1>8. ClosedInv'
  <2> SUFFICES ASSUME NEW d \in Calls,
                      (chan[d] = "closed" \/ phase[d] \in {"closed", "ChannelClosed"})'
               PROVE  \E e \in Calls \ {d} : Issued(e) /\ tid[e] = tid[d]
    BY DEF ClosedInv, Issued
  <2>1. CASE chan[d] = "closed" \/ phase[d] \in {"closed", "ChannelClosed"}
    BY <2>1 DEF ClosedInv
  <2>2. CASE ~(chan[d] = "closed" \/ phase[d] \in {"closed", "ChannelClosed"})
    <3>1. d # c
      <4>1. chan[c] = "none" /\ (phase[c] = "closed" \/ phase[c] = "elapsed")
        BY DEF ChanInv, Receiving
      <4>2. SenderDropped(tid[c])[c] = "none"
        BY <4>1 DEF SenderDropped
      <4>3. phase[c] = "elapsed" => phase'[c] = "Timeout"
        BY DEF TypeOK
      <4> QED BY <2>2, <4>1, <4>2, <4>3
    <3>2. d = pending[tid[c]]
      BY <2>2, <3>1 DEF TypeOK, SenderDropped
    <3>3. tid[d] = tid[c]
      BY <1>4, <3>2 DEF PendingInv
    <3> QED BY <1>4, <3>1, <3>3
  <2> QED BY <2>1, <2>2
<1>9. InFlightInv'
  BY DEF InFlightInv, Issued
<1> QED BY <1>1, <1>2, <1>3, <1>5, <1>6, <1>7, <1>8, <1>9

LEMMA DeliverInv ==
    ASSUME IInv, NEW r \in Calls, Deliver(r)
    PROVE  IInv'
<1> DEFINE owner == pending[tid[r]]
<1> USE DEF IInv, historyVars
<1>1. Issued(r) /\ tid[r] \in Tids
  BY DEF Deliver, InFlightInv, OrderInv
<1>2. /\ pending' = [pending EXCEPT ![tid[r]] = NoCall]
      /\ inFlight' = inFlight \ {r}
      /\ UNCHANGED <<nextTid, phase, tid, readerUp, issued, order>>
      /\ \/ /\ owner \in Calls /\ Receiving(owner)
            /\ chan' = [chan EXCEPT ![owner] = "sent"]
            /\ got' = [got EXCEPT ![owner] = r]
         \/ /\ ~(owner \in Calls /\ Receiving(owner))
            /\ UNCHANGED <<chan, got>>
  BY DEF Deliver
<1> HIDE DEF owner
<1>3. TypeOK'
  BY <1>1, <1>2 DEF TypeOK
<1>4. OrderInv' /\ RecentTids' /\ SameTidApart' /\ InFlightInv'
  BY <1>2 DEF OrderInv, RecentTids, SameTidApart, CycleApart, Back, InFlightInv, Issued
<1>5. PendingInv'
  BY <1>1, <1>2 DEF TypeOK, PendingInv, Issued
<1>6. ChanInv'
  BY <1>1, <1>2 DEF owner, TypeOK, OrderInv, ChanInv, PendingInv, Receiving
<1>7. GotInv'
  BY <1>1, <1>2 DEF owner, TypeOK, OrderInv, GotInv, PendingInv, Receiving, Issued
<1>8. ClosedInv'
  BY <1>2 DEF owner, TypeOK, ClosedInv, Receiving, Issued
<1> QED BY <1>3, <1>4, <1>5, <1>6, <1>7, <1>8

LEMMA UnchangedInv ==
    ASSUME IInv, UNCHANGED <<protocolVars, callVars, inFlight, historyVars>>,
           readerUp' \in BOOLEAN
    PROVE  IInv'
<1> USE DEF IInv, protocolVars, callVars, historyVars
<1>1. TypeOK'
  BY DEF TypeOK
<1>2. OrderInv' /\ RecentTids' /\ SameTidApart' /\ InFlightInv'
  BY DEF OrderInv, RecentTids, SameTidApart, CycleApart, Back, InFlightInv, Issued
<1>3. PendingInv' /\ ChanInv'
  BY DEF PendingInv, ChanInv, Receiving, Issued
<1>4. GotInv' /\ ClosedInv'
  BY DEF GotInv, ClosedInv, Issued
<1> QED BY <1>1, <1>2, <1>3, <1>4

(***************************************************************************)
(* The bookkeeping invariant holds at every step of every execution.       *)
(***************************************************************************)
THEOREM Bookkeeping == Spec => []IInv
<1>1. IInv /\ [Next]_vars => IInv'
  <2> SUFFICES ASSUME IInv, [Next]_vars PROVE IInv'
    OBVIOUS
  <2>1. CASE \E c \in Calls : Call(c)
    BY <2>1, PrepareInv, CallInv, CancelRequestInv DEF Call
  <2>2. CASE \E r \in Calls : Deliver(r)
    BY <2>2, DeliverInv
  <2>3. CASE ReaderStop \/ UNCHANGED vars
    BY <2>3, UnchangedInv DEF IInv, TypeOK, ReaderStop, vars
  <2> QED BY <2>1, <2>2, <2>3 DEF Next
<1> QED BY InitInv, <1>1, PTL DEF Spec
(***************************************************************************)
(* Every variable keeps its type: next_tid stays in 1 .. 7, never the 0 of *)
(* unsolicited frames (prepare_request).                                   *)
(***************************************************************************)
THEOREM TypeCorrect == Spec => []TypeOK
BY Bookkeeping, PTL DEF IInv

(***************************************************************************)
(* A call that returns Ok returns its own answer or one at least a whole   *)
(* cycle of TIDs old, whatever the interleaving of calls, timeouts and     *)
(* late answers.                                                           *)
(***************************************************************************)
THEOREM AnswersMatch == Spec => []AnswerIsOwnOrWrapped
<1>1. IInv => AnswerIsOwnOrWrapped
  <2> SUFFICES ASSUME IInv, NEW c \in Calls, phase[c] = "Ok"
               PROVE  /\ got[c] \in Calls
                      /\ Issued(got[c])
                      /\ got[c] = c \/ order[c] >= order[got[c]] + NumTids
    BY DEF AnswerIsOwnOrWrapped
  <2>1. /\ got[c] \in Calls /\ Issued(c) /\ Issued(got[c])
        /\ tid[got[c]] = tid[c] /\ order[got[c]] <= order[c]
    BY DEF IInv, GotInv
  <2>2. got[c] # c => CycleApart(c, got[c])
    BY <2>1 DEF IInv, SameTidApart
  <2> QED BY <2>1, <2>2 DEF IInv, TypeOK, CycleApart, Issued
<1> QED BY Bookkeeping, <1>1, PTL

(***************************************************************************)
(* ChannelClosed is always the work of another call with the same TID, a   *)
(* cycle or more away.                                                     *)
(***************************************************************************)
THEOREM ClosureNeedsOverrun == Spec => []ClosedOnlyIfOverrun
<1>1. IInv => ClosedOnlyIfOverrun
  <2> SUFFICES ASSUME IInv, NEW c \in Calls, phase[c] \in {"closed", "ChannelClosed"}
               PROVE  \E d \in Calls \ {c} :
                          Issued(d) /\ tid[d] = tid[c] /\ CycleApart(c, d)
    BY DEF ClosedOnlyIfOverrun
  <2>1. Issued(c)
    BY DEF IInv, OrderInv
  <2>2. PICK d \in Calls \ {c} : Issued(d) /\ tid[d] = tid[c]
    BY DEF IInv, ClosedInv
  <2> QED BY <2>1, <2>2 DEF IInv, SameTidApart
<1> QED BY Bookkeeping, <1>1, PTL

(***************************************************************************)
(* A call that holds its receiver is in the map exactly while its channel  *)
(* is open.                                                                *)
(***************************************************************************)
THEOREM NoCallForgotten == Spec => []RegisteredIffOpen
<1>1. IInv => RegisteredIffOpen
  BY DEF IInv, ChanInv, RegisteredIffOpen
<1> QED BY Bookkeeping, <1>1, PTL

(***************************************************************************)
(* Only a failed write leaves an entry behind in the map.                  *)
(***************************************************************************)
THEOREM NoOtherLeak == Spec => []OnlyIoErrorLeaks
<1>1. IInv => OnlyIoErrorLeaks
  BY DEF IInv, TypeOK, PendingInv, OnlyIoErrorLeaks
<1> QED BY Bookkeeping, <1>1, PTL

(***************************************************************************)
(* The three together: the map has the entries it should have, although    *)
(* calls overwrite and cancel by number.                                   *)
(***************************************************************************)
THEOREM EntriesMatch == Spec => []EntriesAreRight
<1>1. ClosedOnlyIfOverrun /\ RegisteredIffOpen /\ OnlyIoErrorLeaks => EntriesAreRight
  BY DEF EntriesAreRight
<1> QED BY <1>1, ClosureNeedsOverrun, NoCallForgotten, NoOtherLeak, PTL

(***************************************************************************)
(* An answer that has reached a waiting call is the one it returns: no     *)
(* step of this or of another call takes it back.                          *)
(***************************************************************************)
THEOREM AnswersAreKept == Spec => AnswerIsKept
<1> DEFINE Kept(c) == (phase[c] = "waiting" /\ chan[c] = "sent") =>
                          \/ phase'[c] = "waiting" /\ chan'[c] = "sent"
                          \/ phase'[c] = "Ok" /\ got'[c] = got[c]
<1>1. ASSUME IInv, [Next]_vars, NEW c \in Calls PROVE Kept(c)
  <2> SUFFICES ASSUME phase[c] = "waiting", chan[c] = "sent"
               PROVE  \/ phase'[c] = "waiting" /\ chan'[c] = "sent"
                      \/ phase'[c] = "Ok" /\ got'[c] = got[c]
    OBVIOUS
  <2> USE <1>1 DEF IInv, TypeOK, protocolVars, callVars, historyVars
  <2>1. ASSUME NEW d \in Calls, Prepare(d) PROVE Kept(c)
    BY <2>1 DEF Prepare, Insert, SenderDropped
  <2>2. ASSUME NEW d \in Calls,
               Write(d) \/ WriteError(d) \/ Received(d) \/ Closed(d) \/ Elapsed(d)
        PROVE  Kept(c)
    BY <2>2 DEF Write, WriteError, Received, Closed, Elapsed
  <2>3. ASSUME NEW d \in Calls, CancelRequest(d) PROVE Kept(c)
    BY <2>3 DEF CancelRequest, Remove, SenderDropped
  <2>4. ASSUME NEW r \in Calls, Deliver(r) PROVE Kept(c)
    <3>1. tid[r] \in Tids
      BY <2>4 DEF Deliver, InFlightInv, OrderInv
    <3>2. pending[tid[r]] # c
      BY <3>1 DEF ChanInv, PendingInv, Receiving
    <3> QED BY <2>4, <3>2 DEF Deliver
  <2>5. CASE ReaderStop \/ UNCHANGED vars
    BY <2>5 DEF ReaderStop, vars
  <2> QED BY <2>1, <2>2, <2>3, <2>4, <2>5 DEF Next, Call
<1>2. IInv /\ [Next]_vars => [\A c \in Calls : Kept(c)]_vars
  BY <1>1
<1> QED BY Bookkeeping, <1>2, PTL DEF Spec, AnswerIsKept

(***************************************************************************)
(* The layer implements SpinelCalls: each step of the code is a step of    *)
(* the promise or invisible to the callers.                                *)
(***************************************************************************)
THEOREM Refinement == Spec => ImplementsCalls
<1> USE DEF Outcome, Answered, Finished
<1>1. Init => Promise!Init
  BY DEF Init, Promise!Init
<1>2. ASSUME IInv, [Next]_vars PROVE [Promise!Next]_(Promise!vars)
  <2> USE <1>2 DEF IInv, TypeOK, protocolVars, callVars, historyVars, Promise!vars
  <2>1. ASSUME NEW c \in Calls, Prepare(c) PROVE Promise!Issue(c)
    BY <2>1 DEF Prepare, Promise!Issue
  <2>2. ASSUME NEW c \in Calls, Write(c) \/ Closed(c) \/ Elapsed(c)
        PROVE  UNCHANGED Promise!vars
    BY <2>2 DEF Write, Closed, Elapsed
  <2>3. ASSUME NEW c \in Calls, WriteError(c) PROVE Promise!GiveUp(c)
    BY <2>3 DEF WriteError, Promise!GiveUp
  <2>4. ASSUME NEW c \in Calls, CancelRequest(c) PROVE Promise!GiveUp(c)
    BY <2>4 DEF CancelRequest, Promise!GiveUp
  <2>5. ASSUME NEW c \in Calls, Received(c) PROVE Promise!Answer(c, got[c])
    <3>1. /\ got[c] \in Calls /\ Issued(c) /\ Issued(got[c])
          /\ tid[got[c]] = tid[c] /\ order[got[c]] <= order[c]
      BY <2>5 DEF Received, GotInv
    <3>2. got[c] = c \/ order[c] >= order[got[c]] + NumTids
      BY <3>1 DEF SameTidApart, CycleApart, Issued
    <3> QED BY <2>5, <3>1, <3>2 DEF Received, Promise!Answer, Issued
  <2>6. ASSUME NEW r \in Calls, Deliver(r) PROVE UNCHANGED Promise!vars
    <3>1. tid[r] \in Tids
      BY <2>6 DEF Deliver, InFlightInv, OrderInv
    <3>2. pending[tid[r]] \in Calls => phase[pending[tid[r]]] # "Ok"
      BY <3>1 DEF PendingInv
    <3> QED BY <2>6, <3>2 DEF Deliver, Receiving
  <2>7. CASE ReaderStop \/ UNCHANGED vars
    BY <2>7 DEF ReaderStop, vars
  <2>8. ASSUME NEW c \in Calls, Received(c) PROVE got[c] \in Calls
    BY <2>8 DEF Received, GotInv
  <2> HIDE DEF Outcome, Answered, Finished, IInv, TypeOK, Promise!vars
  <2>9. ASSUME NEW c \in Calls, Call(c) PROVE Promise!Next \/ UNCHANGED Promise!vars
    BY <2>9, <2>1, <2>2, <2>3, <2>4, <2>5, <2>8 DEF Call, Promise!Next
  <2> QED BY <1>2, <2>6, <2>7, <2>9 DEF Next
<1> QED BY Bookkeeping, <1>1, <1>2, PTL DEF Spec, Promise!Spec, ImplementsCalls
============================================================================
