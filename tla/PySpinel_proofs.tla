-------------------------- MODULE PySpinel_proofs --------------------------
(***************************************************************************)
(* The safety properties of PySpinel and its refinement of SpinelCalls for *)
(* any number of calls, retries and notifications and any cycle of TIDs.   *)
(***************************************************************************)
EXTENDS PySpinel, TLAPS

USE NoCallAssumption, NoticesAssumption, MaxTidAssumption, RetriesAssumption

(***************************************************************************)
(* `(_transaction_id + 1) % (0b1111 - 1)` steps through 0 .. NumTids - 1   *)
(* and wraps, and reaches that range from its first value, too.            *)
(***************************************************************************)
LEMMA NextIdWraps ==
    /\ \A x \in Nat : NextId(x) \in 0 .. NumTids - 1
    /\ \A x \in 0 .. NumTids - 1 : NextId(x) = IF x = NumTids - 1 THEN 0 ELSE x + 1
<1> DEFINE n == NumTids
<1>1. n \in Nat /\ n > 0
  BY DEF NumTids
<1> HIDE DEF n
<1>2. \A x \in Nat : (x + 1) % n \in 0 .. n - 1
  BY <1>1
<1>3. ASSUME NEW x \in 0 .. n - 1
      PROVE  (x + 1) % n = IF x = n - 1 THEN 0 ELSE x + 1
  <2>1. CASE x = n - 1
    <3>1. n % n = 0
      BY <1>1
    <3> QED BY <1>1, <2>1, <3>1
  <2>2. CASE x # n - 1
    BY <1>1, <2>2
  <2> QED BY <2>1, <2>2
<1> QED BY <1>2, <1>3 DEF n, NextId

LEMMA TidsAreNat == NumTids \in Nat /\ NumTids > 0 /\ NoCall \notin Calls
BY DEF NumTids

USE TidsAreNat

LEMMA InitInv == Init => IInv
<1> SUFFICES ASSUME Init PROVE IInv
  OBVIOUS
<1>0. /\ lastId \in 0 .. NumTids /\ buffer \in Seq(Frames)
      /\ notices \in 0 .. MaxNotices /\ attempt \in [Calls -> 0 .. Retries]
      /\ inFlight \in [Calls -> 0 .. Retries + 1]
  BY DEF Init
<1>1. TypeOK
  BY <1>0 DEF Init, TypeOK, Tids, Phases
<1>2. CallInv /\ RecentTids /\ SameTidApart
  BY DEF Init, CallInv, RecentTids, SameTidApart, Issued
<1>3. PendingInv /\ DeafInv /\ GotInv /\ LineInv
  BY DEF Init, PendingInv, DeafInv, GotInv, LineInv, Issued, InLoop
<1> QED BY <1>1, <1>2, <1>3 DEF IInv

LEMMA SendInv ==
    ASSUME IInv, NEW c \in Calls, NEW wait \in BOOLEAN, Send(c, wait)
    PROVE  IInv'
<1> DEFINE x == NextId(lastId)
<1> USE DEF IInv
<1>1. /\ phase[c] = "idle"
      /\ lastId' = x
      /\ tid' = [tid EXCEPT ![c] = 1 + x]
      /\ pending' = [pending EXCEPT ![1 + x] = c]
      /\ future' = [future EXCEPT ![c] = "pending"]
      /\ inFlight' = IF connected THEN [inFlight EXCEPT ![c] = @ + 1] ELSE inFlight
      /\ phase' = [phase EXCEPT ![c] = IF wait THEN "awaiting" ELSE "Sent"]
      /\ issued' = issued + 1
      /\ order' = [order EXCEPT ![c] = issued + 1]
      /\ UNCHANGED <<attempt, got, notices, buffer, handling, connected>>
  BY DEF Send, SendData
<1>2. /\ x \in 0 .. NumTids - 1
      /\ lastId < NumTids => x = IF lastId = NumTids - 1 THEN 0 ELSE lastId + 1
  <2>1. lastId \in Nat /\ (lastId < NumTids => lastId \in 0 .. NumTids - 1)
    BY DEF TypeOK
  <2> QED BY <2>1, NextIdWraps
<1> HIDE DEF x
<1>3. 1 + x \in Tids
  BY <1>2 DEF Tids
<1>4. order[c] = 0 /\ ~Issued(c)
  BY <1>1 DEF CallInv, TypeOK, Issued
<1>5. \A d \in Calls : Issued(d) => /\ d # c /\ Issued(d)' /\ tid'[d] = tid[d]
                                    /\ order'[d] = order[d] /\ issued > 0
  BY <1>1, <1>4 DEF TypeOK, CallInv, Issued
<1>6. TypeOK'
  BY <1>1, <1>2, <1>3, <1>4 DEF TypeOK, Phases, LineInv
<1>7. CallInv'
  <2>1. issued' > 0 => lastId' < NumTids
    BY <1>1, <1>2, MaxTidAssumption DEF NumTids
  <2>2. ASSUME NEW d \in Calls
        PROVE  /\ order'[d] <= issued'
               /\ Issued(d)' <=> phase'[d] # "idle"
               /\ Issued(d)' <=> future'[d] # "none"
               /\ Issued(d)' => tid'[d] \in Tids
               /\ phase'[d] = "sleeping" => attempt'[d] < Retries
    <3>1. CASE d = c
      BY <1>1, <1>3, <3>1 DEF TypeOK, Issued
    <3>2. CASE d # c
      BY <1>1, <3>2 DEF TypeOK, CallInv, Issued
    <3> QED BY <3>1, <3>2
  <2>3. ASSUME NEW a \in Calls, NEW b \in Calls, Issued(a)', order'[a] = order'[b]
        PROVE  a = b
    BY <1>1, <2>3 DEF TypeOK, CallInv, Issued
  <2> QED BY <2>1, <2>2, <2>3 DEF CallInv, Issued
<1>8. ASSUME NEW d \in Calls, Issued(d), issued - order[d] < NumTids - 1
      PROVE  tid[d] # 1 + x
  <2> DEFINE k == issued - order[d]
  <2>1. k \in Nat /\ k < NumTids - 1 /\ lastId \in 0 .. NumTids - 1
    BY <1>5, <1>8 DEF TypeOK, CallInv
  <2>2. tid[d] = Back(1 + lastId, k)
    BY <1>8, <2>1 DEF RecentTids
  <2> HIDE DEF k
  <2> QED BY <1>2, <2>1, <2>2 DEF Back
<1>9. RecentTids'
  <2> SUFFICES ASSUME NEW d \in Calls, Issued(d)', issued' - order'[d] < NumTids
               PROVE  tid'[d] = Back(1 + lastId', issued' - order'[d])
    BY DEF RecentTids
  <2>1. CASE d = c
    <3>1. issued' - order'[d] = 0 /\ tid'[d] = 1 + x
      BY <1>1, <2>1 DEF TypeOK
    <3> QED BY <1>1, <1>2, <3>1 DEF Back
  <2>2. CASE d # c
    <3> DEFINE k == issued - order[d]
    <3>1. Issued(d) /\ tid'[d] = tid[d] /\ order'[d] = order[d]
      BY <1>1, <2>2 DEF TypeOK, Issued
    <3>2. k \in Nat /\ k + 1 < NumTids /\ issued' - order'[d] = k + 1
      <4>1. order[d] \in Nat /\ issued \in Nat /\ order[d] <= issued /\ issued' = issued + 1
        BY <1>1 DEF TypeOK, CallInv
      <4> QED BY <3>1, <4>1
    <3>3. tid[d] = Back(1 + lastId, k) /\ lastId \in 0 .. NumTids - 1
      BY <1>5, <3>1, <3>2 DEF RecentTids, TypeOK, CallInv
    <3> HIDE DEF k
    <3> QED BY <1>1, <1>2, <3>1, <3>2, <3>3 DEF Back
  <2> QED BY <2>1, <2>2
<1>10. SameTidApart'
  <2> SUFFICES ASSUME NEW a \in Calls, NEW b \in Calls, a # b,
                      Issued(a)', Issued(b)', tid'[a] = tid'[b]
               PROVE  CycleApart(a, b)'
    BY DEF SameTidApart
  <2>1. \A d \in Calls : Issued(d)' /\ d # c =>
            Issued(d) /\ tid'[d] = tid[d] /\ order'[d] = order[d] /\ order[d] \in Nat
    BY <1>1 DEF TypeOK, Issued
  <2>2. tid'[c] = 1 + x /\ order'[c] = issued + 1 /\ issued \in Nat
    BY <1>1 DEF TypeOK
  <2>3. ASSUME NEW d \in Calls, d # c, Issued(d)', tid'[d] = 1 + x
        PROVE  order'[c] >= order'[d] + NumTids
    BY <1>8, <2>1, <2>2, <2>3
  <2>4. CASE a = c \/ b = c
    BY <2>2, <2>3, <2>4 DEF CycleApart
  <2>5. CASE a # c /\ b # c
    <3>1. CycleApart(a, b)
      BY <2>1, <2>5 DEF SameTidApart
    <3> QED BY <2>1, <2>5, <3>1 DEF CycleApart
  <2> QED BY <2>4, <2>5
<1>11. PendingInv'
  BY <1>1, <1>3, <1>4 DEF TypeOK, CallInv, PendingInv, Issued
<1>12. DeafInv'
  <2> SUFFICES ASSUME NEW d \in Calls, InLoop(d)', pending'[tid'[d]] # d
               PROVE  \E e \in Calls \ {d} : Issued(e)' /\ tid'[e] = tid'[d]
    BY DEF DeafInv
  <2>1. d # c
    BY <1>1, <1>3 DEF TypeOK
  <2>2. InLoop(d) /\ Issued(d)
    BY <1>1, <2>1 DEF TypeOK, CallInv, InLoop
  <2>3. CASE pending[tid[d]] # d
    <3>1. PICK e \in Calls \ {d} : Issued(e) /\ tid[e] = tid[d]
      BY <2>2, <2>3 DEF DeafInv
    <3> QED BY <1>5, <2>2, <3>1
  <2>4. CASE pending[tid[d]] = d
    <3>1. tid[d] \in Tids /\ tid'[d] = tid[d]
      BY <1>5, <2>2 DEF CallInv
    <3>2. tid[d] = 1 + x
      BY <1>1, <2>4, <3>1 DEF TypeOK
    <3>3. Issued(c)' /\ tid'[c] = 1 + x
      BY <1>1 DEF TypeOK, Issued
    <3> QED BY <2>1, <3>1, <3>2, <3>3
  <2> QED BY <2>3, <2>4
<1>13. GotInv'
  BY <1>1, <1>4, <1>5 DEF TypeOK, GotInv, Issued
<1>14. LineInv'
  BY <1>1, <1>4, <1>5 DEF TypeOK, LineInv, Issued
<1> QED BY <1>6, <1>7, <1>9, <1>10, <1>11, <1>12, <1>13, <1>14

(***************************************************************************)
(* The other steps of a call: they leave its TID and the history alone.    *)
(***************************************************************************)
LEMMA CallInvStep ==
    ASSUME IInv, NEW c \in Calls, Resume(c) \/ Timer(c) \/ Wake(c) \/ Cancel(c)
    PROVE  IInv'
<1> USE DEF IInv, historyVars, futureVars, lineVars
<1>1. /\ UNCHANGED <<lastId, tid, issued, order, future, got, notices, buffer, handling, connected>>
      /\ InLoop(c)
      /\ \/ pending' = [pending EXCEPT ![tid[c]] = NoCall]
            /\ \E p \in {"Ok", "Timeout", "Cancelled"} : phase' = [phase EXCEPT ![c] = p]
         \/ pending' = pending
            /\ \E p \in {"awaiting", "sleeping"} : phase' = [phase EXCEPT ![c] = p]
  BY DEF Resume, Timer, Wake, Cancel, Finally, InLoop
<1>2. /\ phase'[c] = "Ok" => future[c] = "done"
      /\ phase'[c] = "sleeping" => attempt'[c] < Retries
      /\ \/ UNCHANGED <<attempt, inFlight>>
         \/ /\ attempt[c] < Retries
            /\ attempt' = [attempt EXCEPT ![c] = @ + 1]
            /\ inFlight' = inFlight \/ inFlight' = [inFlight EXCEPT ![c] = @ + 1]
  BY DEF Resume, Timer, Wake, Cancel, Finally, SendData, TypeOK, CallInv, InLoop
<1>3. Issued(c) /\ tid[c] \in Tids
  BY <1>1 DEF CallInv, InLoop
<1>4. \A d \in Calls : Issued(d)' <=> Issued(d)
  BY <1>1 DEF Issued
<1>5. TypeOK'
  <2>1. phase' \in [Calls -> Phases] /\ pending' \in [Tids -> Calls \cup {NoCall}]
    BY <1>1 DEF TypeOK, Phases
  <2>2. attempt' \in [Calls -> 0 .. Retries] /\ inFlight' \in [Calls -> 0 .. Retries + 1]
    <3>1. /\ inFlight[c] \in Nat /\ attempt[c] \in Nat /\ inFlight[c] <= attempt[c] + 1
      BY <1>3 DEF TypeOK, LineInv
    <3>2. CASE UNCHANGED <<attempt, inFlight>>
      BY <3>2 DEF TypeOK
    <3>3. CASE attempt[c] < Retries /\ attempt' = [attempt EXCEPT ![c] = @ + 1]
               /\ (inFlight' = inFlight \/ inFlight' = [inFlight EXCEPT ![c] = @ + 1])
      <4>1. attempt[c] + 1 \in 0 .. Retries /\ inFlight[c] + 1 \in 0 .. Retries + 1
        BY <3>1, <3>3
      <4> QED BY <3>3, <4>1 DEF TypeOK
    <3> QED BY <1>2, <3>2, <3>3
  <2> QED BY <1>1, <2>1, <2>2 DEF TypeOK
<1>6. CallInv'
  BY <1>1, <1>2, <1>3, <1>4 DEF TypeOK, CallInv
<1>7. RecentTids' /\ SameTidApart'
  BY <1>1, <1>4 DEF RecentTids, SameTidApart, CycleApart, Back
<1>8. PendingInv'
  <2> SUFFICES ASSUME NEW t \in Tids, pending'[t] \in Calls
               PROVE  /\ Issued(pending'[t])
                      /\ tid[pending'[t]] = t
                      /\ phase'[pending'[t]] \in {"awaiting", "sleeping", "Sent"}
                      /\ \A d \in Calls : Issued(d) /\ tid[d] = t => order[d] <= order[pending'[t]]
    BY <1>1 DEF PendingInv, Issued
  <2>1. pending'[t] = pending[t] /\ (phase' = [phase EXCEPT ![c] = "awaiting"]
            \/ phase' = [phase EXCEPT ![c] = "sleeping"] \/ t # tid[c])
    BY <1>1, <1>3 DEF TypeOK
  <2>2. tid[pending[t]] = t /\ Issued(pending[t])
        /\ phase[pending[t]] \in {"awaiting", "sleeping", "Sent"}
        /\ \A d \in Calls : Issued(d) /\ tid[d] = t => order[d] <= order[pending[t]]
    BY <2>1 DEF PendingInv
  <2>3. phase'[pending[t]] \in {"awaiting", "sleeping", "Sent"}
    BY <1>1, <2>1, <2>2 DEF TypeOK
  <2> QED BY <2>1, <2>2, <2>3
<1>9. DeafInv'
  <2> SUFFICES ASSUME NEW d \in Calls, InLoop(d)', pending'[tid[d]] # d
               PROVE  \E e \in Calls \ {d} : Issued(e) /\ tid[e] = tid[d]
    BY <1>1, <1>4 DEF DeafInv
  <2>1. InLoop(d) /\ Issued(d)
    BY <1>1 DEF TypeOK, InLoop, CallInv
  <2>2. CASE d = c
    BY <1>1, <2>1, <2>2 DEF TypeOK, InLoop, DeafInv
  <2>3. CASE d # c
    <3>1. pending[tid[d]] # d \/ tid[d] = tid[c]
      BY <1>1, <2>1 DEF TypeOK, CallInv
    <3> QED BY <1>3, <2>1, <2>3, <3>1 DEF DeafInv
  <2> QED BY <2>2, <2>3
<1>10. GotInv'
  BY <1>1, <1>2, <1>4 DEF TypeOK, GotInv
<1>11. LineInv'
  <2>1. ASSUME NEW d \in Calls
        PROVE  IF Issued(d) THEN inFlight'[d] <= attempt'[d] + 1 ELSE inFlight'[d] = 0
    <3>1. /\ inFlight[d] \in Nat /\ attempt[d] \in Nat
          /\ IF Issued(d) THEN inFlight[d] <= attempt[d] + 1 ELSE inFlight[d] = 0
      BY DEF TypeOK, LineInv
    <3>2. CASE d = c
      BY <1>2, <1>3, <3>1, <3>2 DEF TypeOK
    <3>3. CASE d # c
      BY <1>2, <3>1, <3>3 DEF TypeOK
    <3> QED BY <3>2, <3>3
  <2> QED BY <1>1, <1>4, <2>1 DEF TypeOK, LineInv
<1> QED BY <1>5, <1>6, <1>7, <1>8, <1>9, <1>10, <1>11

LEMMA DataReceivedInv ==
    ASSUME IInv, NEW f \in Frames, DataReceived(f)
    PROVE  IInv'
<1> USE DEF IInv, DataReceived, mapVars, callVars, futureVars, historyVars
<1>1. f \in Calls => Issued(f)
  BY DEF LineInv, TypeOK
<1>0. buffer' \in Seq(Frames)
  BY DEF TypeOK
<1>2. TypeOK'
  BY <1>0 DEF TypeOK, Frames
<1>3. CallInv' /\ RecentTids' /\ SameTidApart' /\ PendingInv' /\ DeafInv' /\ GotInv'
  BY DEF CallInv, RecentTids, SameTidApart, CycleApart, Back, PendingInv, DeafInv, GotInv,
         Issued, InLoop
<1>4. LineInv'
  <2>1. \A c \in Calls : IF Issued(c)' THEN inFlight'[c] <= attempt'[c] + 1 ELSE inFlight'[c] = 0
    BY <1>1 DEF LineInv, TypeOK, Issued
  <2>2. buffer' = Append(buffer, f) /\ buffer \in Seq(Frames)
    BY DEF TypeOK
  <2>3. /\ buffer' # <<>>
        /\ \A i \in DOMAIN buffer' : buffer'[i] = f \/ (i \in DOMAIN buffer /\ buffer'[i] = buffer[i])
    BY <2>2
  <2> QED BY <1>1, <2>1, <2>3 DEF LineInv, Issued
<1> QED BY <1>2, <1>3, <1>4

LEMMA HandleFrameInv ==
    ASSUME IInv, HandleFrame
    PROVE  IInv'
<1> DEFINE f == Head(buffer)
           owner == pending[tid[f]]
           settles == f \in Calls /\ ~Collides(f) /\ pending[tid[f]] # NoCall
<1> USE DEF IInv, mapVars, callVars, futureVars, historyVars
<1>1. /\ handling /\ buffer # <<>> /\ buffer \in Seq(Frames)
      /\ UNCHANGED <<lastId, pending, phase, tid, attempt, inFlight, notices, connected, issued, order>>
      /\ buffer' = Tail(buffer)
      /\ handling' = (~Raises(f) /\ Tail(buffer) # <<>>)
      /\ \/ /\ settles
            /\ future' = [future EXCEPT ![owner] = "done"]
            /\ got' = [got EXCEPT ![owner] = f]
         \/ ~settles /\ UNCHANGED <<future, got>>
  BY DEF HandleFrame, LineInv, TypeOK
<1>2. /\ f \in Frames /\ buffer' \in Seq(Frames)
      /\ \A i \in DOMAIN buffer' : i + 1 \in DOMAIN buffer /\ buffer'[i] = buffer[i + 1]
  BY <1>1
<1>3. f \in Calls => Issued(f) /\ tid[f] \in Tids
  <2>1. 1 \in DOMAIN buffer /\ buffer[1] = f
    BY <1>1
  <2> QED BY <2>1 DEF LineInv, CallInv
<1>4. settles => /\ f \in Calls /\ owner \in Calls
                 /\ Issued(owner) /\ tid[owner] = tid[f] /\ order[f] <= order[owner]
                 /\ future[owner] # "none"
  BY <1>3 DEF PendingInv, TypeOK, CallInv
<1> HIDE DEF f, owner, settles
<1>5. TypeOK'
  <2>1. UNCHANGED <<future, got>> => future' \in [Calls -> {"none", "pending", "done"}]
                                     /\ got' \in [Calls -> Calls \cup {NoCall}]
    BY DEF TypeOK
  <2>2. settles => future' \in [Calls -> {"none", "pending", "done"}]
                   /\ got' \in [Calls -> Calls \cup {NoCall}]
    <3>1. future \in [Calls -> {"none", "pending", "done"}] /\ got \in [Calls -> Calls \cup {NoCall}]
      BY DEF TypeOK
    <3>2. settles => future' = [future EXCEPT ![owner] = "done"] /\ got' = [got EXCEPT ![owner] = f]
      BY <1>1
    <3> QED BY <1>4, <3>1, <3>2
  <2>3. handling' \in BOOLEAN /\ buffer' \in Seq(Frames)
    BY <1>1, <1>2
  <2> QED BY <1>1, <2>1, <2>2, <2>3 DEF TypeOK
<1>6. CallInv'
  BY <1>1, <1>4 DEF TypeOK, CallInv, Issued
<1>7. RecentTids' /\ SameTidApart' /\ PendingInv' /\ DeafInv'
  BY <1>1 DEF RecentTids, SameTidApart, CycleApart, Back, PendingInv, DeafInv, Issued, InLoop
<1>8. GotInv'
  BY <1>1, <1>3, <1>4 DEF TypeOK, GotInv, Issued
<1>9. LineInv'
  <2>1. \A c \in Calls : IF Issued(c)' THEN inFlight'[c] <= attempt'[c] + 1 ELSE inFlight'[c] = 0
    BY <1>1 DEF LineInv, Issued
  <2>2. \A i \in DOMAIN buffer' : buffer'[i] \in Calls => Issued(buffer'[i])
    BY <1>2 DEF LineInv
  <2>3. handling' => buffer' # <<>>
    BY <1>1
  <2> QED BY <1>1, <2>1, <2>2, <2>3 DEF LineInv, Issued
<1> QED BY <1>5, <1>6, <1>7, <1>8, <1>9

LEMMA QuietInv ==
    ASSUME IInv, Disconnect \/ UNCHANGED vars
    PROVE  IInv'
<1> USE DEF IInv, Disconnect, vars, mapVars, callVars, futureVars, lineVars, historyVars
<1>1. TypeOK'
  <2>1. CASE Disconnect
    <3>1. buffer' \in Seq(Frames)
      BY <2>1
    <3> QED BY <2>1, <3>1 DEF TypeOK
  <2>2. CASE UNCHANGED vars
    BY <2>2 DEF TypeOK
  <2> QED BY <2>1, <2>2
<1>2. CallInv' /\ RecentTids' /\ SameTidApart' /\ PendingInv' /\ DeafInv' /\ GotInv'
  BY DEF CallInv, RecentTids, SameTidApart, CycleApart, Back, PendingInv, DeafInv, GotInv,
         Issued, InLoop
<1>3. LineInv'
  BY DEF LineInv, Issued
<1> QED BY <1>1, <1>2, <1>3

(***************************************************************************)
(* The bookkeeping invariant holds at every step of every execution.       *)
(***************************************************************************)
THEOREM Bookkeeping == Spec => []IInv
<1>1. IInv /\ [Next]_vars => IInv'
  <2> SUFFICES ASSUME IInv, [Next]_vars PROVE IInv'
    OBVIOUS
  <2>1. ASSUME NEW c \in Calls, NEW wait \in BOOLEAN, Send(c, wait) PROVE IInv'
    BY <2>1, SendInv
  <2>2. ASSUME NEW c \in Calls, Resume(c) \/ Timer(c) \/ Wake(c) \/ Cancel(c) PROVE IInv'
    BY <2>2, CallInvStep
  <2>3. ASSUME NEW f \in Frames, DataReceived(f) PROVE IInv'
    BY <2>3, DataReceivedInv
  <2>4. CASE HandleFrame
    BY <2>4, HandleFrameInv
  <2>5. CASE Disconnect \/ UNCHANGED vars
    BY <2>5, QuietInv
  <2> QED BY <2>1, <2>2, <2>3, <2>4, <2>5 DEF Next
<1> QED BY InitInv, <1>1, PTL DEF Spec
(***************************************************************************)
(* Every variable keeps its type: a TID is never the 0 of notifications,   *)
(* and a request is on the line at most once for each of its attempts.     *)
(***************************************************************************)
THEOREM TypeCorrect == Spec => []TypeOK
BY Bookkeeping, PTL DEF IInv

(***************************************************************************)
(* A call that returns returns its own answer or one at least a whole      *)
(* cycle of TIDs old, whatever was retried, timed out or cancelled.        *)
(***************************************************************************)
THEOREM AnswersMatch == Spec => []AnswerIsOwnOrWrapped
<1>1. IInv => AnswerIsOwnOrWrapped
  <2> SUFFICES ASSUME IInv, NEW c \in Calls, phase[c] = "Ok"
               PROVE  /\ got[c] \in Calls
                      /\ Issued(got[c])
                      /\ got[c] = c \/ order[c] >= order[got[c]] + NumTids
    BY DEF AnswerIsOwnOrWrapped
  <2>1. /\ got[c] \in Calls /\ Issued(c) /\ Issued(got[c])
        /\ tid[got[c]] = tid[c] /\ order[got[c]] <= order[c]
    BY DEF IInv, GotInv
  <2>2. got[c] # c => CycleApart(c, got[c])
    BY <2>1 DEF IInv, SameTidApart
  <2> QED BY <2>1, <2>2 DEF IInv, TypeOK, CycleApart, Issued
<1> QED BY Bookkeeping, <1>1, PTL

(***************************************************************************)
(* A waiting call loses its entry only to a call a cycle of TIDs away.     *)
(***************************************************************************)
THEOREM DeafnessNeedsOverrun == Spec => []DeafOnlyIfOverrun
<1>1. IInv => DeafOnlyIfOverrun
  <2> SUFFICES ASSUME IInv, NEW c \in Calls, InLoop(c), pending[tid[c]] # c
               PROVE  Overrun(c)
    BY DEF DeafOnlyIfOverrun
  <2>1. Issued(c)
    BY DEF IInv, CallInv, InLoop
  <2>2. PICK d \in Calls \ {c} : Issued(d) /\ tid[d] = tid[c]
    BY DEF IInv, DeafInv
  <2> QED BY <2>1, <2>2 DEF IInv, SameTidApart, Overrun
<1> QED BY Bookkeeping, <1>1, PTL

(***************************************************************************)
(* A call that asked for its answer leaves nothing behind in the map.      *)
(***************************************************************************)
THEOREM NoOtherLeak == Spec => []OnlyUnawaitedLeak
<1>1. IInv => OnlyUnawaitedLeak
  <2> SUFFICES ASSUME IInv, NEW t \in Tids, pending[t] # NoCall
               PROVE  phase[pending[t]] \notin {"Ok", "Timeout", "Cancelled"}
    BY DEF OnlyUnawaitedLeak
  <2>1. pending[t] \in Calls
    BY DEF IInv, TypeOK
  <2> QED BY <2>1 DEF IInv, PendingInv
<1> QED BY Bookkeeping, <1>1, PTL

(***************************************************************************)
(* Both together: the map has the entries it should have, although every   *)
(* call pops by number.                                                    *)
(***************************************************************************)
THEOREM EntriesMatch == Spec => []EntriesAreRight
<1>1. DeafOnlyIfOverrun /\ OnlyUnawaitedLeak => EntriesAreRight
  BY DEF EntriesAreRight
<1> QED BY <1>1, DeafnessNeedsOverrun, NoOtherLeak, PTL

(***************************************************************************)
(* The layer implements SpinelCalls: each step of the code is a step of    *)
(* the promise or invisible to the callers.                                *)
(***************************************************************************)
THEOREM Refinement == Spec => ImplementsCalls
<1> USE DEF Outcome, Answered
<1>1. Init => Promise!Init
  BY DEF Init, Promise!Init
<1>2. ASSUME IInv, [Next]_vars PROVE [Promise!Next]_(Promise!vars)
  <2> USE <1>2 DEF IInv, TypeOK, mapVars, callVars, futureVars, lineVars, historyVars, Promise!vars
  <2>1. ASSUME NEW c \in Calls, NEW wait \in BOOLEAN, Send(c, wait) PROVE Promise!Issue(c)
    BY <2>1 DEF Send, Promise!Issue
  <2>2. ASSUME NEW c \in Calls, phase'[c] = "Ok", phase' = [phase EXCEPT ![c] = "Ok"],
               InLoop(c), future[c] = "done", UNCHANGED <<order, issued, got>>
        PROVE  got[c] \in Calls /\ Promise!Answer(c, got[c])
    <3>1. /\ got[c] \in Calls /\ Issued(c) /\ Issued(got[c])
          /\ tid[got[c]] = tid[c] /\ order[got[c]] <= order[c]
      BY <2>2 DEF GotInv
    <3>2. got[c] = c \/ order[c] >= order[got[c]] + NumTids
      BY <3>1 DEF SameTidApart, CycleApart, Issued
    <3> QED BY <2>2, <3>1, <3>2 DEF Promise!Answer, Issued, InLoop
  <2>3. ASSUME NEW c \in Calls, InLoop(c), UNCHANGED <<order, issued, got>>,
               phase' = [phase EXCEPT ![c] = "Timeout"] \/ phase' = [phase EXCEPT ![c] = "Cancelled"]
        PROVE  Promise!GiveUp(c)
    BY <2>3 DEF Promise!GiveUp, InLoop
  <2>4. ASSUME NEW c \in Calls, InLoop(c), UNCHANGED <<order, issued, got>>,
               phase' = [phase EXCEPT ![c] = "awaiting"] \/ phase' = [phase EXCEPT ![c] = "sleeping"]
        PROVE  UNCHANGED Promise!vars
    BY <2>4 DEF InLoop
  <2>5. ASSUME HandleFrame PROVE UNCHANGED Promise!vars
    <3>1. \A c \in Calls : phase[c] = "Ok" => \A t \in Tids : pending[t] # c
      BY DEF PendingInv
    <3>2. handling /\ buffer # <<>> /\ 1 \in DOMAIN buffer /\ Head(buffer) = buffer[1]
      BY <2>5 DEF HandleFrame, LineInv
    <3>3. Head(buffer) \in Calls => tid[Head(buffer)] \in Tids
      BY <3>2 DEF LineInv, CallInv
    <3>4. UNCHANGED <<phase, order, issued>>
      BY <2>5 DEF HandleFrame, mapVars, callVars, historyVars
    <3>5. \A c \in Calls : phase[c] = "Ok" => got'[c] = got[c]
      BY <2>5, <3>1, <3>3 DEF HandleFrame
    <3> QED BY <3>4, <3>5
  <2>6. ASSUME NEW f \in Frames, DataReceived(f) PROVE UNCHANGED Promise!vars
    BY <2>6 DEF DataReceived
  <2>7. CASE Disconnect \/ UNCHANGED vars
    BY <2>7 DEF Disconnect, vars
  <2>8. ASSUME NEW c \in Calls, Resume(c) \/ Timer(c) \/ Wake(c) \/ Cancel(c)
        PROVE  /\ InLoop(c) /\ UNCHANGED <<order, issued, got>>
               /\ \/ phase'[c] = "Ok" /\ phase' = [phase EXCEPT ![c] = "Ok"] /\ future[c] = "done"
                  \/ phase' = [phase EXCEPT ![c] = "Timeout"]
                  \/ phase' = [phase EXCEPT ![c] = "Cancelled"]
                  \/ phase' = [phase EXCEPT ![c] = "awaiting"]
                  \/ phase' = [phase EXCEPT ![c] = "sleeping"]
    BY <2>8 DEF Resume, Timer, Wake, Cancel, InLoop
  <2> HIDE DEF Outcome, Answered, IInv, TypeOK, Promise!vars
  <2>9. ASSUME NEW c \in Calls, Resume(c) \/ Timer(c) \/ Wake(c) \/ Cancel(c)
        PROVE  Promise!Next \/ UNCHANGED Promise!vars
    BY <2>9, <2>2, <2>3, <2>4, <2>8 DEF Promise!Next
  <2>10. ASSUME NEW c \in Calls, NEW wait \in BOOLEAN, Send(c, wait) PROVE Promise!Next
    BY <2>1, <2>10 DEF Promise!Next
  <2> QED BY <1>2, <2>5, <2>6, <2>7, <2>9, <2>10 DEF Next
<1> QED BY Bookkeeping, <1>1, <1>2, PTL DEF Spec, Promise!Spec, ImplementsCalls

(***************************************************************************)
(* The answer to a request that was written once is in one place: in       *)
(* flight, in the buffer, or the result of futures.                        *)
(***************************************************************************)
Taken(r) == \E c \in Calls : future[c] = "done" /\ got[c] = r

InBuffer(r) == \E i \in DOMAIN buffer : buffer[i] = r

OnceInv ==
    \A r \in Calls : Issued(r) /\ attempt[r] = 0 =>
        /\ inFlight[r] > 0 => ~InBuffer(r)
        /\ inFlight[r] > 0 \/ InBuffer(r) => ~Taken(r)
        /\ \A i, j \in DOMAIN buffer : buffer[i] = r /\ buffer[j] = r => i = j

LEMMA OnceStep == IInv /\ OnceInv /\ [Next]_vars => OnceInv'
<1> SUFFICES ASSUME IInv, OnceInv, [Next]_vars PROVE OnceInv'
  OBVIOUS
<1> USE DEF IInv
<1>1. ASSUME NEW c \in Calls, NEW wait \in BOOLEAN, Send(c, wait) PROVE OnceInv'
  <2>1. /\ phase[c] = "idle" /\ future' = [future EXCEPT ![c] = "pending"]
        /\ order' = [order EXCEPT ![c] = issued + 1]
        /\ UNCHANGED <<attempt, got, buffer>>
        /\ \A r \in Calls \ {c} : inFlight'[r] = inFlight[r]
    BY <1>1 DEF Send, SendData, TypeOK
  <2>2. ~Issued(c) /\ ~InBuffer(c) /\ ~Taken(c)
    BY <2>1 DEF CallInv, LineInv, GotInv, InBuffer, Taken
  <2>3. \A r \in Calls : (Taken(r)' => Taken(r)) /\ (InBuffer(r)' <=> InBuffer(r))
    BY <2>1 DEF TypeOK, Taken, InBuffer
  <2>4. \A r \in Calls \ {c} : Issued(r)' <=> Issued(r)
    BY <2>1 DEF TypeOK, Issued
  <2>5. \A i \in DOMAIN buffer : buffer[i] # c
    BY <2>2 DEF InBuffer
  <2> QED BY <2>1, <2>2, <2>3, <2>4, <2>5 DEF OnceInv
<1>2. ASSUME NEW c \in Calls, Resume(c) \/ Timer(c) \/ Wake(c) \/ Cancel(c) PROVE OnceInv'
  <2>1. /\ UNCHANGED <<future, got, buffer, order>>
        /\ \A r \in Calls : attempt'[r] = 0 => attempt[r] = 0 /\ inFlight'[r] = inFlight[r]
    <3>1. CASE Wake(c)
      <4>1. /\ UNCHANGED <<future, got, buffer, order>> /\ attempt' = [attempt EXCEPT ![c] = @ + 1]
            /\ inFlight' = [inFlight EXCEPT ![c] = @ + 1] \/ inFlight' = inFlight
        BY <3>1 DEF Wake, SendData, futureVars, historyVars
      <4>2. attempt'[c] # 0 /\ \A r \in Calls \ {c} : attempt'[r] = attempt[r] /\ inFlight'[r] = inFlight[r]
        BY <4>1 DEF TypeOK
      <4> QED BY <4>1, <4>2
    <3>2. CASE ~Wake(c)
      BY <1>2, <3>2 DEF Resume, Timer, Cancel, futureVars, historyVars, lineVars
    <3> QED BY <3>1, <3>2
  <2> QED BY <2>1 DEF OnceInv, Taken, InBuffer, Issued
<1>3. ASSUME NEW f \in Frames, DataReceived(f) PROVE OnceInv'
  <2>1. /\ UNCHANGED <<future, got, attempt, order>> /\ buffer' = Append(buffer, f)
        /\ \/ f \in Calls /\ inFlight[f] > 0 /\ inFlight' = [inFlight EXCEPT ![f] = @ - 1]
           \/ f \notin Calls /\ UNCHANGED inFlight
    BY <1>3 DEF DataReceived, futureVars, callVars, historyVars
  <2>2. /\ DOMAIN buffer = 1 .. Len(buffer) /\ DOMAIN buffer' = 1 .. Len(buffer) + 1 /\ Len(buffer) \in Nat
        /\ buffer'[Len(buffer) + 1] = f /\ \A i \in 1 .. Len(buffer) : buffer'[i] = buffer[i]
    BY <2>1 DEF TypeOK
  <2>3. ASSUME NEW r \in Calls, Issued(r), attempt[r] = 0
        PROVE  /\ inFlight'[r] > 0 => ~InBuffer(r)'
               /\ inFlight'[r] > 0 \/ InBuffer(r)' => ~Taken(r)
               /\ \A i, j \in DOMAIN buffer' : buffer'[i] = r /\ buffer'[j] = r => i = j
    <3>1. CASE r = f
      <4>1. inFlight[r] > 0 /\ inFlight'[r] = 0
        BY <2>1, <2>3, <3>1 DEF TypeOK, LineInv
      <4>2. ~InBuffer(r) /\ ~Taken(r)
        BY <2>3, <4>1 DEF OnceInv
      <4> QED BY <2>2, <4>1, <4>2 DEF InBuffer
    <3>2. CASE r # f
      <4>1. inFlight'[r] = inFlight[r] /\ (InBuffer(r)' => InBuffer(r))
        BY <2>1, <2>2, <3>2 DEF TypeOK, InBuffer
      <4>2. \A i \in DOMAIN buffer' : buffer'[i] = r => i \in DOMAIN buffer /\ buffer[i] = r
        BY <2>2, <3>2
      <4> QED BY <2>3, <4>1, <4>2 DEF OnceInv
    <3> QED BY <3>1, <3>2
  <2> QED BY <2>1, <2>3 DEF OnceInv, Taken, Issued
<1>4. CASE HandleFrame
  <2> DEFINE f == Head(buffer)
  <2>1. /\ buffer # <<>> /\ buffer' = Tail(buffer)
        /\ UNCHANGED <<attempt, inFlight, order>>
        /\ \/ \E d \in Calls : /\ f \in Calls /\ future' = [future EXCEPT ![d] = "done"]
                               /\ got' = [got EXCEPT ![d] = f]
           \/ UNCHANGED <<future, got>>
    <3>1. f \in Calls => pending[tid[f]] \in Calls \cup {NoCall}
      <4>1. f \in Calls => Issued(f)
        <5>1. handling /\ buffer # <<>> /\ buffer \in Seq(Frames)
          BY <1>4 DEF HandleFrame, LineInv, TypeOK
        <5>2. 1 \in DOMAIN buffer /\ buffer[1] = f
          BY <5>1
        <5> QED BY <5>2 DEF LineInv
      <4> QED BY <4>1 DEF CallInv, TypeOK
    <3> QED BY <1>4, <3>1 DEF HandleFrame, LineInv, futureVars, callVars, historyVars
  <2>2. /\ 1 \in DOMAIN buffer /\ f = buffer[1]
        /\ \A i \in DOMAIN buffer' : i \in Nat /\ i > 0 /\ i + 1 \in DOMAIN buffer /\ buffer'[i] = buffer[i + 1]
    BY <2>1 DEF TypeOK
  <2> HIDE DEF f
  <2>3. ASSUME NEW r \in Calls, Issued(r), attempt[r] = 0
        PROVE  /\ inFlight[r] > 0 => ~InBuffer(r)'
               /\ inFlight[r] > 0 \/ InBuffer(r)' => ~Taken(r)'
               /\ \A i, j \in DOMAIN buffer' : buffer'[i] = r /\ buffer'[j] = r => i = j
    <3>1. /\ inFlight[r] > 0 => ~InBuffer(r)
          /\ inFlight[r] > 0 \/ InBuffer(r) => ~Taken(r)
          /\ \A i, j \in DOMAIN buffer : buffer[i] = r /\ buffer[j] = r => i = j
      BY <2>3 DEF OnceInv
    <3>2. InBuffer(r)' => InBuffer(r)
      BY <2>2 DEF InBuffer
    <3>3. \A i, j \in DOMAIN buffer' : buffer'[i] = r /\ buffer'[j] = r => i = j
      BY <2>2, <3>1
    <3>4. CASE r = f
      <4>1. InBuffer(r) /\ ~(inFlight[r] > 0)
        BY <2>2, <3>1, <3>4 DEF InBuffer
      <4>2. ~InBuffer(r)'
        BY <2>2, <3>1, <3>4 DEF InBuffer
      <4> QED BY <3>3, <4>1, <4>2
    <3>5. CASE r # f
      <4>1. Taken(r)' => Taken(r)
        BY <2>1, <3>5 DEF Taken, TypeOK
      <4> QED BY <3>1, <3>2, <3>3, <4>1
    <3> QED BY <3>4, <3>5
  <2> QED BY <2>1, <2>3 DEF OnceInv, Issued
<1>5. CASE Disconnect
  <2>1. UNCHANGED <<future, got, attempt, inFlight, order>> /\ buffer' = <<>>
    BY <1>5 DEF Disconnect, futureVars, callVars, historyVars
  <2>2. DOMAIN buffer' = {}
    BY <2>1
  <2> QED BY <2>1, <2>2 DEF OnceInv, Taken, InBuffer, Issued
<1>6. CASE UNCHANGED vars
  BY <1>6 DEF vars, futureVars, callVars, lineVars, historyVars, OnceInv, Taken, InBuffer, Issued
<1> QED BY <1>1, <1>2, <1>3, <1>4, <1>5, <1>6 DEF Next

(***************************************************************************)
(* For any number of calls, retries and TIDs, InvalidStateError escapes    *)
(* only for a request that was written more than once or whose TID was     *)
(* used again within its lifetime (set_result in frame_received).          *)
(***************************************************************************)
THEOREM CollisionsExplained == Spec => []CollisionNeedsRetryOrOverrun
<1>1. Init => OnceInv
  BY DEF Init, OnceInv, Issued
<1>2. Spec => []OnceInv
  BY <1>1, Bookkeeping, OnceStep, PTL DEF Spec
<1>3. IInv /\ OnceInv => CollisionNeedsRetryOrOverrun
  <2> SUFFICES ASSUME IInv, OnceInv, NEW r \in Calls, handling, Head(buffer) = r,
                      Collides(r), attempt[r] = 0
               PROVE  Overrun(r)
    BY DEF CollisionNeedsRetryOrOverrun, IInv, TypeOK
  <2> DEFINE d == pending[tid[r]]
  <2>1. buffer # <<>> /\ buffer \in Seq(Frames) /\ 1 \in DOMAIN buffer /\ buffer[1] = r
    BY DEF IInv, LineInv, TypeOK
  <2>2. Issued(r) /\ tid[r] \in Tids /\ ~Taken(r)
    BY <2>1 DEF IInv, LineInv, CallInv, OnceInv, InBuffer
  <2>3. d \in Calls /\ future[d] = "done" /\ tid[d] = tid[r]
    BY <2>2 DEF Collides, IInv, TypeOK, PendingInv
  <2>4. got[d] \in Calls /\ Issued(got[d]) /\ tid[got[d]] = tid[r] /\ got[d] # r
    BY <2>2, <2>3 DEF IInv, GotInv, Taken
  <2>5. CycleApart(r, got[d])
    BY <2>2, <2>4 DEF IInv, SameTidApart
  <2> QED BY <2>4, <2>5 DEF Overrun
<1> QED BY <1>2, <1>3, Bookkeeping, PTL
=============================================================================
