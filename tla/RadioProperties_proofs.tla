------------------------ MODULE RadioProperties_proofs ------------------------
(*****************************************************************************)
(* Two properties of the radio: LAST_STATUS, which reports a reset, and      *)
(* STREAM_RAW, the frames it sends and receives.                             *)
(*                                                                           *)
(* Resets, for any number of calls of reset, starts of the radio, statuses   *)
(* and losses: the report of a call's own reset cannot slip by, and a call   *)
(* returns early only on that of another start.                              *)
(*                                                                           *)
(* Frames: packed numbers, and what stands behind the number STREAM_RAW.     *)
(* The configuration of the model checker tries the boundaries; the          *)
(* theorems cover all two million numbers, every tail, every 802.15.4 frame  *)
(* and all metadata.  The argument:                                          *)
(*   - the septets of a number add up to it, and only the last has its       *)
(*     high bit clear (SeptetsOf, ThreeSeptets), so both readers stop        *)
(*     behind it (ReadBack, RoundTrip);                                      *)
(*   - a value that is cut anywhere still agrees with the whole one as far   *)
(*     as it goes (PrefixRead), and what a reader looks at lies within       *)
(*     what it has checked (RustReceived, PyReceived);                       *)
(*   - what both languages write is a length, a frame and the same seven     *)
(*     settings (SentValue).                                                 *)
(*****************************************************************************)
EXTENDS RadioReset, StreamRaw, Sequences_proofs
-------------------------------------------------------------------------------
(* Resets. *)

Notifications == [value : {"RESET_POWER_ON", "RESET_OTHER", "OTHER"},
                  cause : Calls \cup {Nobody, Radio}]

TypeOK ==
    /\ pc \in [Calls -> {"idle", "waiting", "returned", "cancelled"}]
    /\ listeners \in Seq(Calls)
    /\ queue \in [Calls -> Seq(Notifications)]
    /\ requests \in Seq(Calls)
    /\ line \in Seq(Notifications)
    /\ ownStarts \in Nat

\* Whoever waits is listening.
ListensInv == \A c \in Calls : pc[c] = "waiting" => c \in ToSet(listeners)

\* Nothing is heard of a call before it is made.
IdleInv ==
    \A c \in Calls : pc[c] = "idle" =>
        /\ c \notin ToSet(requests)
        /\ \A i \in DOMAIN line : line[i].cause # c
        /\ c \notin delivered

\* The start a notification reports is one of those that took place.
HasHappened(n, done, starts) ==
    n.value = "RESET_POWER_ON" => IF n.cause = Radio THEN starts > 0 ELSE n.cause \in done

HappenedInv ==
    /\ \A i \in DOMAIN line : HasHappened(line[i], executed, ownStarts)
    /\ \A c \in Calls : \A i \in DOMAIN queue[c] : HasHappened(queue[c][i], executed, ownStarts)

IInv ==
    /\ TypeOK /\ ListensInv /\ IdleInv /\ HappenedInv
    /\ OwnReportIsKept /\ EarlyOnlyOnOtherStart
------------------------------------------------------------------------------
(* Sequences *)

LEMMA OneRemoved ==
    ASSUME NEW S, NEW s \in Seq(S), NEW i \in 1 .. Len(s)
    PROVE  /\ RemoveAt(s, i) \in Seq(S)
           /\ \A k \in 1 .. Len(s) : k # i => s[k] \in ToSet(RemoveAt(s, i))
<1> DEFINE front == SubSeq(s, 1, i - 1)
           back == SubSeq(s, i + 1, Len(s))
<1>1. /\ Len(s) \in Nat /\ i \in Nat /\ \A k \in 1 .. i - 1 : s[k] \in S
      /\ \A k \in i + 1 .. Len(s) : s[k] \in S
  OBVIOUS
<1>2. /\ front \in Seq(S) /\ Len(front) = i - 1
      /\ \A k \in 1 .. i - 1 : front[k] = s[k]
  <2>1. /\ front \in Seq(S) /\ Len(front) = IF 1 <= i - 1 THEN i - 1 - 1 + 1 ELSE 0
        /\ \A k \in 1 .. i - 1 - 1 + 1 : front[k] = s[1 + k - 1]
    BY <1>1, SubSeqProperties
  <2> HIDE DEF front
  <2> QED BY <1>1, <2>1
<1>3. /\ back \in Seq(S) /\ Len(back) = Len(s) - i
      /\ \A k \in 1 .. Len(s) - i : back[k] = s[i + k]
  <2>1. /\ back \in Seq(S) /\ Len(back) = IF i + 1 <= Len(s) THEN Len(s) - (i + 1) + 1 ELSE 0
        /\ \A k \in 1 .. Len(s) - (i + 1) + 1 : back[k] = s[i + 1 + k - 1]
    BY <1>1, SubSeqProperties
  <2> HIDE DEF back
  <2> QED BY <1>1, <2>1
<1> HIDE DEF front, back
<1>4. /\ front \o back \in Seq(S) /\ Len(front \o back) = Len(s) - 1
      /\ \A k \in 1 .. Len(s) - 1 :
            (front \o back)[k] = IF k <= i - 1 THEN front[k] ELSE back[k - (i - 1)]
  <2>1. /\ front \o back \in Seq(S) /\ Len(front \o back) = Len(front) + Len(back)
        /\ \A k \in 1 .. Len(front) + Len(back) :
              (front \o back)[k] = IF k <= Len(front) THEN front[k] ELSE back[k - Len(front)]
    BY <1>2, <1>3, ConcatProperties
  <2>2. Len(front) = i - 1 /\ Len(front) + Len(back) = Len(s) - 1
    BY <1>1, <1>2, <1>3
  <2> QED BY <2>1, <2>2
<1>5. RemoveAt(s, i) = front \o back
  BY DEF RemoveAt, front, back
<1>6. ASSUME NEW k \in 1 .. Len(s), k # i PROVE s[k] \in ToSet(front \o back)
  <2>1. CASE k < i
    <3>1. k \in 1 .. Len(s) - 1 /\ (front \o back)[k] = s[k]
      BY <1>1, <1>2, <1>4, <2>1
    <3>2. DOMAIN (front \o back) = 1 .. Len(s) - 1
      BY <1>4
    <3> QED BY <3>1, <3>2 DEF ToSet
  <2>2. CASE k > i
    <3>1. k - 1 \in 1 .. Len(s) - 1 /\ ~(k - 1 <= i - 1) /\ k - 1 - (i - 1) = k - i /\ k - i \in 1 .. Len(s) - i
      BY <1>1, <2>2
    <3>2. (front \o back)[k - 1] = back[k - i]
      BY <1>4, <3>1
    <3>3. (front \o back)[k - 1] = s[i + (k - i)] /\ i + (k - i) = k
      BY <1>1, <1>3, <3>1, <3>2
    <3>4. k - 1 \in DOMAIN (front \o back)
      BY <1>4, <3>1
    <3> QED BY <3>3, <3>4 DEF ToSet
  <2> QED BY <1>1, <1>6, <2>1, <2>2
<1> QED BY <1>4, <1>5, <1>6

LEMMA OneAppended ==
    ASSUME NEW S, NEW s \in Seq(S), NEW e \in S
    PROVE  /\ Append(s, e) \in Seq(S)
           /\ ToSet(Append(s, e)) = ToSet(s) \cup {e}
           /\ \A i \in DOMAIN s : i \in DOMAIN Append(s, e) /\ Append(s, e)[i] = s[i]
           /\ \A i \in DOMAIN Append(s, e) : Append(s, e)[i] = e \/ (i \in DOMAIN s /\ Append(s, e)[i] = s[i])
           /\ \E i \in DOMAIN Append(s, e) : Append(s, e)[i] = e
<1> DEFINE n == Len(s) + 1
           t == Append(s, e)
<1>1. /\ t \in Seq(S) /\ DOMAIN s = 1 .. Len(s) /\ DOMAIN t = 1 .. n /\ Len(s) \in Nat
      /\ t[n] = e /\ \A i \in 1 .. Len(s) : t[i] = s[i]
  BY AppendProperties
<1> HIDE DEF t
<1>2. DOMAIN t = DOMAIN s \cup {n} /\ n \in DOMAIN t
  BY <1>1
<1>3. ToSet(t) = ToSet(s) \cup {e}
  BY <1>1, <1>2 DEF ToSet
<1> QED BY <1>1, <1>2, <1>3 DEF t

LEMMA HeadRemoved ==
    ASSUME NEW S, NEW s \in Seq(S), s # <<>>
    PROVE  /\ Head(s) \in S /\ Tail(s) \in Seq(S)
           /\ Head(s) \in ToSet(s) /\ ToSet(Tail(s)) \subseteq ToSet(s)
           /\ 1 \in DOMAIN s /\ Head(s) = s[1]
           /\ \A i \in DOMAIN Tail(s) : i + 1 \in DOMAIN s /\ Tail(s)[i] = s[i + 1]
<1>1. /\ Tail(s) \in Seq(S) /\ Head(s) = s[1] /\ Len(s) \in Nat \ {0}
      /\ DOMAIN s = 1 .. Len(s) /\ DOMAIN Tail(s) = 1 .. Len(s) - 1
      /\ \A i \in 1 .. Len(s) - 1 : Tail(s)[i] = s[i + 1]
  OBVIOUS
<1>2. 1 \in DOMAIN s /\ \A i \in DOMAIN Tail(s) : i + 1 \in DOMAIN s
  BY <1>1
<1> QED BY <1>1, <1>2 DEF ToSet
------------------------------------------------------------------------------
(* Listeners and queues *)

LEMMA NotificationTypes ==
    /\ \A c \in Calls \cup {Radio} :
          PowerOn(c) \in Notifications /\ OtherReason(c) \in Notifications
    /\ Status \in Notifications
    /\ \A n \in Notifications, c \in Calls :
          n.value = "RESET_POWER_ON" /\ n.cause = c => n = PowerOn(c)
BY DEF Notifications, PowerOn, OtherReason, Status

\* No listener is removed but that of the call.
LEMMA ListenersStay ==
    ASSUME TypeOK, NEW c \in Calls, RemoveListener(c)
    PROVE  /\ listeners' \in Seq(Calls)
           /\ ToSet(listeners) \ {c} \subseteq ToSet(listeners')
<1>1. PICK i \in DOMAIN listeners : listeners[i] = c /\ listeners' = RemoveAt(listeners, i)
  BY DEF RemoveListener
<1>2. listeners \in Seq(Calls) /\ DOMAIN listeners = 1 .. Len(listeners)
  BY DEF TypeOK
<1>3. /\ listeners' \in Seq(Calls)
      /\ \A k \in 1 .. Len(listeners) : k # i => listeners[k] \in ToSet(listeners')
  BY <1>1, <1>2, OneRemoved
<1>4. \A d \in ToSet(listeners) \ {c} : \E k \in 1 .. Len(listeners) : k # i /\ listeners[k] = d
  BY <1>1, <1>2 DEF ToSet
<1> QED BY <1>3, <1>4

LEMMA InitInv == Init => IInv
<1> SUFFICES ASSUME Init PROVE IInv
  OBVIOUS
<1>1. TypeOK
  BY EmptySeq DEF Init, TypeOK
<1>2. ListensInv /\ IdleInv /\ HappenedInv
  BY DEF Init, ListensInv, IdleInv, HappenedInv, ToSet
<1>3. OwnReportIsKept /\ EarlyOnlyOnOtherStart
  BY DEF Init, OwnReportIsKept, EarlyOnlyOnOtherStart
<1> QED BY <1>1, <1>2, <1>3 DEF IInv

LEMMA ResetInv ==
    ASSUME IInv, NEW c \in Calls, Reset(c)
    PROVE  IInv'
<1> USE DEF IInv
<1>1. /\ pc[c] = "idle" /\ pc' = [pc EXCEPT ![c] = "waiting"]
      /\ requests' = Append(requests, c) /\ listeners' = Append(listeners, c)
      /\ UNCHANGED <<queue, line, executed, delivered, ownStarts>>
  BY DEF Reset
<1>2. /\ pc' \in [Calls -> {"idle", "waiting", "returned", "cancelled"}] /\ pc'[c] = "waiting"
      /\ \A d \in Calls \ {c} : pc'[d] = pc[d]
  BY <1>1 DEF TypeOK
<1>3. /\ requests' \in Seq(Calls) /\ ToSet(requests') = ToSet(requests) \cup {c}
      /\ listeners' \in Seq(Calls) /\ ToSet(listeners') = ToSet(listeners) \cup {c}
  BY <1>1, OneAppended DEF TypeOK
<1>4. TypeOK'
  BY <1>1, <1>2, <1>3 DEF TypeOK
<1>5. ListensInv'
  BY <1>1, <1>2, <1>3 DEF ListensInv
<1>6. IdleInv'
  BY <1>1, <1>2, <1>3 DEF IdleInv
<1>7. HappenedInv'
  BY <1>1 DEF HappenedInv, HasHappened
<1>8. OwnReportIsKept'
  BY <1>1, <1>2 DEF OwnReportIsKept, IdleInv
<1>9. EarlyOnlyOnOtherStart'
  BY <1>1, <1>2 DEF EarlyOnlyOnOtherStart
<1> QED BY <1>4, <1>5, <1>6, <1>7, <1>8, <1>9

LEMMA DeliverInv ==
    ASSUME IInv, Deliver
    PROVE  IInv'
<1> USE DEF IInv
<1> DEFINE n == Head(line)
<1>1. /\ line # <<>> /\ line' = Tail(line)
      /\ queue' = [c \in Calls |-> IF c \in ToSet(listeners) THEN Append(queue[c], n) ELSE queue[c]]
      /\ delivered' = IF n.value = "RESET_POWER_ON" THEN delivered \cup {n.cause} ELSE delivered
      /\ UNCHANGED <<pc, listeners, requests, executed, ownStarts>>
  BY DEF Deliver, radioVars
<1>2. /\ n \in Notifications /\ line' \in Seq(Notifications)
      /\ 1 \in DOMAIN line /\ n = line[1]
      /\ \A i \in DOMAIN line' : i + 1 \in DOMAIN line /\ line'[i] = line[i + 1]
  BY <1>1, HeadRemoved DEF TypeOK
<1> HIDE DEF n
<1>3. ASSUME NEW c \in Calls
      PROVE  /\ queue'[c] \in Seq(Notifications)
             /\ \A i \in DOMAIN queue[c] : i \in DOMAIN queue'[c] /\ queue'[c][i] = queue[c][i]
             /\ \A i \in DOMAIN queue'[c] : queue'[c][i] = n \/ (i \in DOMAIN queue[c] /\ queue'[c][i] = queue[c][i])
             /\ c \in ToSet(listeners) => \E i \in DOMAIN queue'[c] : queue'[c][i] = n
  <2>1. queue[c] \in Seq(Notifications)
    BY DEF TypeOK
  <2>2. queue'[c] = IF c \in ToSet(listeners) THEN Append(queue[c], n) ELSE queue[c]
    BY <1>1
  <2>3. CASE c \in ToSet(listeners)
    <3> DEFINE q == Append(queue[c], n)
    <3>1. /\ q \in Seq(Notifications)
          /\ \A i \in DOMAIN queue[c] : i \in DOMAIN q /\ q[i] = queue[c][i]
          /\ \A i \in DOMAIN q : q[i] = n \/ (i \in DOMAIN queue[c] /\ q[i] = queue[c][i])
          /\ \E i \in DOMAIN q : q[i] = n
      <4>1. n \in Notifications
        BY <1>2
      <4> QED BY <2>1, <4>1, OneAppended
    <3>2. queue'[c] = q
      BY <2>2, <2>3
    <3> HIDE DEF q
    <3> QED BY <3>1, <3>2
  <2>4. CASE c \notin ToSet(listeners)
    BY <2>1, <2>2, <2>4
  <2> QED BY <2>3, <2>4
<1>4. TypeOK'
  <2>1. queue' \in [Calls -> Seq(Notifications)]
    BY <1>1, <1>3
  <2> QED BY <1>1, <1>2, <2>1 DEF TypeOK
<1>5. ListensInv'
  BY <1>1 DEF ListensInv
<1>6. IdleInv'
  BY <1>1, <1>2 DEF IdleInv
<1>7. HappenedInv'
  <2>1. HasHappened(n, executed, ownStarts)
    BY <1>2 DEF HappenedInv
  <2>2. \A i \in DOMAIN line' : HasHappened(line'[i], executed, ownStarts)
    BY <1>2 DEF HappenedInv
  <2>3. \A c \in Calls : \A i \in DOMAIN queue'[c] : HasHappened(queue'[c][i], executed, ownStarts)
    BY <1>3, <2>1 DEF HappenedInv
  <2> QED BY <1>1, <2>2, <2>3 DEF HappenedInv, HasHappened
<1>8. OwnReportIsKept'
  <2> SUFFICES ASSUME NEW c \in Calls, pc[c] = "waiting", c \in delivered'
               PROVE  \E i \in DOMAIN queue'[c] : queue'[c][i] = PowerOn(c)
    BY <1>1 DEF OwnReportIsKept, PowerOn
  <2>1. CASE c \in delivered
    BY <1>3, <2>1 DEF OwnReportIsKept
  <2>2. CASE c \notin delivered
    <3>1. n = PowerOn(c)
      BY <1>1, <1>2, <2>2, NotificationTypes
    <3>2. c \in ToSet(listeners)
      BY DEF ListensInv
    <3> QED BY <1>3, <3>1, <3>2
  <2> QED BY <2>1, <2>2
<1>9. EarlyOnlyOnOtherStart'
  BY <1>1 DEF EarlyOnlyOnOtherStart
<1> QED BY <1>4, <1>5, <1>6, <1>7, <1>8, <1>9

LEMMA WakeInv ==
    ASSUME IInv, NEW c \in Calls, Wake(c)
    PROVE  IInv'
<1> USE DEF IInv
<1>1. /\ pc[c] = "waiting" /\ queue' = [queue EXCEPT ![c] = <<>>]
      /\ UNCHANGED <<listeners, line, delivered, requests, executed, ownStarts>>
  BY DEF Wake, radioVars
<1>2. /\ queue'[c] = <<>> /\ <<>> \in Seq(Notifications)
      /\ \A d \in Calls \ {c} : queue'[d] = queue[d]
  BY <1>1, EmptySeq DEF TypeOK
<1>3. /\ pc' \in [Calls -> {"idle", "waiting", "returned", "cancelled"}]
      /\ \A d \in Calls \ {c} : pc'[d] = pc[d]
      /\ \/ /\ pc'[c] = "returned"
            /\ \E i \in DOMAIN queue[c] : IsAwaited(queue[c][i])
         \/ /\ pc'[c] = "waiting"
            /\ ~\E i \in DOMAIN queue[c] : IsAwaited(queue[c][i])
  BY <1>1 DEF Wake, TypeOK
<1>4. TypeOK'
  BY <1>1, <1>2, <1>3 DEF TypeOK
<1>5. ListensInv'
  BY <1>1, <1>3 DEF ListensInv
<1>6. IdleInv'
  BY <1>1, <1>3 DEF IdleInv
<1>7. HappenedInv'
  BY <1>1, <1>2 DEF HappenedInv, HasHappened
<1>8. OwnReportIsKept'
  <2> SUFFICES ASSUME NEW d \in Calls, pc'[d] = "waiting", d \in delivered
               PROVE  \E i \in DOMAIN queue'[d] : queue'[d][i] = PowerOn(d)
    BY <1>1 DEF OwnReportIsKept, PowerOn
  <2>1. CASE d = c
    BY <1>1, <1>3, <2>1 DEF OwnReportIsKept, PowerOn, IsAwaited
  <2>2. CASE d # c
    BY <1>2, <1>3, <2>2 DEF OwnReportIsKept
  <2> QED BY <2>1, <2>2
<1>9. EarlyOnlyOnOtherStart'
  <2> SUFFICES ASSUME NEW d \in Calls, pc'[d] = "returned", d \notin executed
               PROVE  ownStarts > 0 \/ executed \ {d} # {}
    BY <1>1 DEF EarlyOnlyOnOtherStart
  <2>1. CASE d = c
    <3>1. PICK i \in DOMAIN queue[c] : queue[c][i].value = "RESET_POWER_ON"
      BY <1>3, <2>1 DEF IsAwaited
    <3>2. HasHappened(queue[c][i], executed, ownStarts)
      BY DEF HappenedInv
    <3> QED BY <2>1, <3>1, <3>2 DEF HasHappened
  <2>2. CASE d # c
    BY <1>3, <2>2 DEF EarlyOnlyOnOtherStart
  <2> QED BY <2>1, <2>2
<1> QED BY <1>4, <1>5, <1>6, <1>7, <1>8, <1>9

\* A listener goes, at the end of a call or after it.
LEMMA CloseOrCancelInv ==
    ASSUME IInv, NEW c \in Calls, Close(c) \/ Cancel(c)
    PROVE  IInv'
<1> USE DEF IInv
<1>1. /\ RemoveListener(c) /\ queue' = [queue EXCEPT ![c] = <<>>]
      /\ UNCHANGED <<line, delivered, requests, executed, ownStarts>>
  BY DEF Close, Cancel, radioVars
<1>2. /\ queue'[c] = <<>> /\ <<>> \in Seq(Notifications)
      /\ \A d \in Calls \ {c} : queue'[d] = queue[d]
  BY <1>1, EmptySeq DEF TypeOK
<1>3. /\ pc' \in [Calls -> {"idle", "waiting", "returned", "cancelled"}]
      /\ \A d \in Calls \ {c} : pc'[d] = pc[d]
      /\ pc'[c] \in {"returned", "cancelled"} /\ (pc'[c] = "returned" => pc[c] = "returned")
  BY DEF Close, Cancel, TypeOK
<1>4. listeners' \in Seq(Calls) /\ ToSet(listeners) \ {c} \subseteq ToSet(listeners')
  BY <1>1, ListenersStay
<1>5. TypeOK'
  BY <1>1, <1>2, <1>3, <1>4 DEF TypeOK
<1>6. ListensInv'
  BY <1>3, <1>4 DEF ListensInv
<1>7. IdleInv'
  BY <1>1, <1>3 DEF IdleInv
<1>8. HappenedInv'
  BY <1>1, <1>2 DEF HappenedInv, HasHappened
<1>9. OwnReportIsKept'
  BY <1>1, <1>2, <1>3 DEF OwnReportIsKept, PowerOn
<1>10. EarlyOnlyOnOtherStart'
  BY <1>1, <1>3 DEF EarlyOnlyOnOtherStart
<1> QED BY <1>5, <1>6, <1>7, <1>8, <1>9, <1>10
------------------------------------------------------------------------------
(* The radio and the line *)

\* Something is put on the line that has happened, and is no idle call's.
LEMMA ReportedInv ==
    ASSUME IInv, NEW n \in Notifications, line' = Append(line, n), HasHappened(n, executed', ownStarts'),
           n.cause \in Calls => pc[n.cause] # "idle",
           executed \subseteq executed', ownStarts' \in Nat, ownStarts' >= ownStarts,
           requests' \in Seq(Calls), ToSet(requests') \subseteq ToSet(requests),
           UNCHANGED <<pc, listeners, queue, delivered>>
    PROVE  IInv'
<1> USE DEF IInv
<1>1. /\ line' \in Seq(Notifications)
      /\ \A i \in DOMAIN line' : line'[i] = n \/ (i \in DOMAIN line /\ line'[i] = line[i])
  BY OneAppended DEF TypeOK
<1>2. TypeOK'
  BY <1>1 DEF TypeOK
<1>3. ListensInv'
  BY DEF ListensInv
<1>4. IdleInv'
  BY <1>1 DEF IdleInv
<1>5. ASSUME NEW m, HasHappened(m, executed, ownStarts) PROVE HasHappened(m, executed', ownStarts')
  BY <1>5 DEF HasHappened, TypeOK
<1>6. HappenedInv'
  <2>1. \A i \in DOMAIN line' : HasHappened(line'[i], executed', ownStarts')
    BY <1>1, <1>5 DEF HappenedInv
  <2>2. \A c \in Calls : \A i \in DOMAIN queue'[c] : HasHappened(queue'[c][i], executed', ownStarts')
    BY <1>5 DEF HappenedInv
  <2> QED BY <2>1, <2>2 DEF HappenedInv
<1>7. OwnReportIsKept'
  BY DEF OwnReportIsKept, PowerOn
<1>8. EarlyOnlyOnOtherStart'
  <2> SUFFICES ASSUME NEW c \in Calls, pc[c] = "returned", c \notin executed'
               PROVE  ownStarts' > 0 \/ executed' \ {c} # {}
    BY DEF EarlyOnlyOnOtherStart
  <2>1. CASE ownStarts > 0
    BY <2>1 DEF TypeOK
  <2>2. CASE executed \ {c} # {}
    BY <2>2
  <2> QED BY <2>1, <2>2 DEF EarlyOnlyOnOtherStart
<1> QED BY <1>2, <1>3, <1>4, <1>6, <1>7, <1>8

LEMMA RadioInv ==
    ASSUME IInv, Start \/ StartByItself \/ Report
    PROVE  IInv'
<1> USE DEF IInv
<1>1. CASE Start
  <2> DEFINE r == Head(requests)
  <2>1. /\ r \in Calls /\ r \in ToSet(requests) /\ requests' \in Seq(Calls)
        /\ ToSet(requests') \subseteq ToSet(requests)
    BY <1>1, HeadRemoved DEF Start, TypeOK
  <2>2. /\ line' = Append(line, PowerOn(r)) \/ line' = Append(line, OtherReason(r))
        /\ executed' = executed \cup {r}
        /\ UNCHANGED <<pc, listeners, queue, delivered, ownStarts>>
    BY <1>1 DEF Start
  <2> HIDE DEF r
  <2>3. pc[r] # "idle" /\ r # Radio
    BY <2>1, CallsAssumption DEF IdleInv
  <2>4. /\ HasHappened(PowerOn(r), executed', ownStarts') /\ PowerOn(r).cause = r
        /\ HasHappened(OtherReason(r), executed', ownStarts') /\ OtherReason(r).cause = r
    BY <2>2, <2>3 DEF HasHappened, PowerOn, OtherReason
  <2>5. executed \subseteq executed' /\ ownStarts' \in Nat /\ ownStarts' >= ownStarts
    BY <2>2 DEF TypeOK
  <2>6. CASE line' = Append(line, PowerOn(r))
    BY <2>1, <2>2, <2>3, <2>4, <2>5, <2>6, NotificationTypes, ReportedInv
  <2>7. CASE line' = Append(line, OtherReason(r))
    BY <2>1, <2>2, <2>3, <2>4, <2>5, <2>7, NotificationTypes, ReportedInv
  <2> QED BY <2>2, <2>6, <2>7
<1>2. CASE StartByItself
  <2>1. /\ line' = Append(line, PowerOn(Radio)) /\ ownStarts' = ownStarts + 1
        /\ UNCHANGED <<pc, listeners, queue, delivered, requests, executed>>
    BY <1>2 DEF StartByItself
  <2>2. ownStarts \in Nat /\ ownStarts' \in Nat /\ ownStarts' > 0 /\ ownStarts' >= ownStarts
    BY <2>1 DEF TypeOK
  <2>3. HasHappened(PowerOn(Radio), executed', ownStarts') /\ PowerOn(Radio).cause \notin Calls
    BY <2>2, CallsAssumption DEF HasHappened, PowerOn
  <2> QED BY <2>1, <2>2, <2>3, NotificationTypes, ReportedInv DEF TypeOK
<1>3. CASE Report
  <2>1. line' = Append(line, Status) /\ UNCHANGED <<pc, listeners, queue, delivered, requests, executed, ownStarts>>
    BY <1>3 DEF Report
  <2>2. HasHappened(Status, executed', ownStarts') /\ Status.cause \notin Calls
    BY CallsAssumption DEF HasHappened, Status
  <2> QED BY <2>1, <2>2, NotificationTypes, ReportedInv DEF TypeOK
<1> QED BY <1>1, <1>2, <1>3

LEMMA LoseInv ==
    ASSUME IInv, Lose
    PROVE  IInv'
<1> USE DEF IInv
<1>1. UNCHANGED <<pc, listeners, queue, executed, delivered, ownStarts>>
  BY DEF Lose
<1>2. /\ requests' \in Seq(Calls) /\ ToSet(requests') \subseteq ToSet(requests)
      /\ line' \in Seq(Notifications)
      /\ \A i \in DOMAIN line' : \E j \in DOMAIN line : line'[i] = line[j]
  <2>1. CASE requests # <<>> /\ requests' = Tail(requests) /\ UNCHANGED line
    BY <2>1, HeadRemoved DEF TypeOK
  <2>2. CASE line # <<>> /\ line' = Tail(line) /\ UNCHANGED requests
    BY <2>2, HeadRemoved DEF TypeOK
  <2> QED BY <2>1, <2>2 DEF Lose
<1>3. TypeOK' /\ ListensInv' /\ IdleInv'
  BY <1>1, <1>2 DEF TypeOK, ListensInv, IdleInv
<1>4. HappenedInv'
  BY <1>1, <1>2 DEF HappenedInv, HasHappened
<1>5. OwnReportIsKept' /\ EarlyOnlyOnOtherStart'
  BY <1>1 DEF OwnReportIsKept, EarlyOnlyOnOtherStart, PowerOn
<1> QED BY <1>3, <1>4, <1>5
------------------------------------------------------------------------------
LEMMA StepInv == IInv /\ [Next]_vars => IInv'
<1> SUFFICES ASSUME IInv, [Next]_vars PROVE IInv'
  OBVIOUS
<1>1. CASE \E c \in Calls : Reset(c) \/ Wake(c) \/ Close(c) \/ Cancel(c)
  BY <1>1, ResetInv, WakeInv, CloseOrCancelInv
<1>2. CASE Deliver
  BY <1>2, DeliverInv
<1>3. CASE Start \/ StartByItself \/ Report
  BY <1>3, RadioInv
<1>4. CASE Lose
  BY <1>4, LoseInv
<1>5. CASE UNCHANGED vars
  BY <1>5 DEF vars, radioVars, IInv, TypeOK, ListensInv, IdleInv, HappenedInv, HasHappened,
              OwnReportIsKept, EarlyOnlyOnOtherStart, PowerOn
<1> QED BY <1>1, <1>2, <1>3, <1>4, <1>5 DEF Next

\* The bookkeeping of resets: who waits listens, and what is reported has
\* happened (reset, iter_property_changes and frame_received).
THEOREM Bookkeeping == Spec => []IInv
<1>1. Init => IInv
  BY InitInv
<1>2. IInv /\ [Next]_vars => IInv'
  BY StepInv
<1> QED BY <1>1, <1>2, PTL DEF Spec

\* For any number of calls, starts and losses, the report of a call's own reset
\* is kept for it while it waits (iter_property_changes, remove_property_listener).
THEOREM ReportIsKept == Spec => []OwnReportIsKept
<1>1. Spec => []IInv
  BY Bookkeeping
<1>2. IInv => OwnReportIsKept
  BY DEF IInv
<1> QED BY <1>1, <1>2, PTL

\* Likewise, reset returns before its request was carried out only after a start
\* that it did not ask for (wait_for_property).
THEOREM EarlyReturns == Spec => []EarlyOnlyOnOtherStart
<1>1. Spec => []IInv
  BY Bookkeeping
<1>2. IInv => EarlyOnlyOnOtherStart
  BY DEF IInv
<1> QED BY <1>1, <1>2, PTL
-------------------------------------------------------------------------------
(* Packed numbers. *)

\* The arithmetic of the loops of packed_uint21_to_bytes and of serialize: the
\* octets are octets, only the last one has its high bit clear, and the septets
\* add up to the number.
LEMMA SeptetsOf ==
    ASSUME NEW n \in Nat \ {0}, n < U21_MAX
    PROVE  /\ SeptetCount(n) \in 1 .. 3
           /\ Septets(n) \in Seq(Octet)
           /\ Len(Septets(n)) = SeptetCount(n)
           /\ \A i \in 1 .. SeptetCount(n) :
                /\ Septets(n)[i] \in Octet
                /\ Septets(n)[i] % 128 = (n \div Weight(i - 1)) % 128
                /\ Septets(n)[i] < 128 <=> i = SeptetCount(n)
  <1> DEFINE k == SeptetCount(n)
  <1>1. k \in 1 .. 3
    <2>1. n # 0 /\ n < 128 * 128 * 128
      BY DEF U21_MAX
    <2> QED BY <2>1 DEF SeptetCount
  <1>2. \A i \in 1 .. 3 : Weight(i - 1) \in {1, 128, 128 * 128}
    BY DEF Weight
  <1>3. ASSUME NEW i \in 1 .. k
        PROVE  /\ Septets(n)[i] = ((n \div Weight(i - 1)) % 128)
                                  + (IF i < k THEN 128 ELSE 0)
               /\ (n \div Weight(i - 1)) % 128 \in 0 .. 127
    <2>1. Weight(i - 1) \in {1, 128, 128 * 128}
      BY <1>1, <1>2
    <2>2. n \div Weight(i - 1) \in Nat
      BY <2>1
    <2> QED BY <2>2 DEF Septets
  <1>4. \A i \in 1 .. k : /\ Septets(n)[i] \in Octet
                          /\ Septets(n)[i] % 128 = (n \div Weight(i - 1)) % 128
                          /\ Septets(n)[i] < 128 <=> i = k
    BY <1>1, <1>3 DEF Octet
  <1>5. /\ Septets(n) \in [1 .. k -> Octet]
        /\ Len(Septets(n)) = k
    <2>1. Septets(n) = [i \in 1 .. k |-> Septets(n)[i]]
      BY DEF Septets
    <2>2. Septets(n) \in [1 .. k -> Octet]
      BY <2>1, <1>4
    <2> QED BY <2>2, <1>1
  <1> QED BY <1>1, <1>4, <1>5

\* A number of at most 21 bits is the sum of its three septets.
LEMMA ThreeSeptets ==
    ASSUME NEW n \in Nat \ {0}, n < U21_MAX
    PROVE  n = ((n \div 1) % 128) + 128 * ((n \div 128) % 128)
               + 128 * 128 * ((n \div (128 * 128)) % 128)
  <1> DEFINE q == n \div 128
             r == q \div 128
  <1>1. q \in Nat /\ n = 128 * q + (n % 128) /\ n \div 1 = n
    OBVIOUS
  <1>2. n < 128 * 128 * 128
    BY DEF U21_MAX
  <1>3. n \div (128 * 128) = r
    OBVIOUS
  <1>4. q < 128 * 128
    BY <1>1, <1>2
  <1> HIDE DEF q
  <1>5. r \in Nat /\ q = 128 * r + (q % 128) /\ q % 128 \in 0 .. 127
    BY <1>1
  <1>6. r < 128
    BY <1>1, <1>4, <1>5
  <1> HIDE DEF r
  <1>7. r % 128 = r
    BY <1>5, <1>6
  <1> QED BY <1>1, <1>3, <1>5, <1>7 DEF q

\* The readers stop at the last octet the writers wrote and add up the number.
LEMMA ReadBack ==
    ASSUME NEW n \in Nat \ {0}, n < U21_MAX, NEW tail \in Seq(Octet)
    PROVE  LET wire_ == Septets(n) \o tail
           IN  /\ Ends(wire_) # {}
               /\ FirstEnd(wire_) = SeptetCount(n)
               /\ Value(wire_, SeptetCount(n)) = n
  <1> DEFINE k == SeptetCount(n)
             w == Septets(n) \o tail
  <1> HIDE DEF k, w
  <1>1. k \in 1 .. 3
    BY SeptetsOf DEF k
  <1>2. /\ Len(w) = k + Len(tail)
        /\ \A i \in 1 .. k : w[i] = Septets(n)[i]
    BY SeptetsOf DEF k, w
  <1>3. \A i \in 1 .. k : /\ w[i] \in Octet
                          /\ w[i] % 128 = (n \div Weight(i - 1)) % 128
                          /\ w[i] < 128 <=> i = k
    <2>1. \A i \in 1 .. k : /\ Septets(n)[i] \in Octet
                            /\ Septets(n)[i] % 128 = (n \div Weight(i - 1)) % 128
                            /\ Septets(n)[i] < 128 <=> i = k
      BY SeptetsOf DEF k
    <2> QED BY <1>2, <2>1
  <1>4. k \in Ends(w) /\ \A j \in Ends(w) : k <= j
    <2>1. Len(tail) \in Nat
      OBVIOUS
    <2>2. k \in Ends(w)
      BY <1>1, <1>2, <1>3, <2>1 DEF Ends
    <2>3. ASSUME NEW j \in Ends(w) PROVE k <= j
      BY <1>1, <1>3 DEF Ends
    <2> QED BY <2>2, <2>3
  <1>5. FirstEnd(w) = k
    <2>1. Ends(w) \subseteq Int
      BY DEF Ends
    <2> QED BY <1>1, <1>4, <2>1 DEF FirstEnd
  <1>6. Value(w, k) = n
    <2>1. CASE k = 1
      <3>1. n < 128
        BY <2>1 DEF k, SeptetCount
      <3>2. w[1] % 128 = (n \div 1) % 128
        BY <1>3, <2>1 DEF Weight
      <3> QED BY <2>1, <3>1, <3>2 DEF Value
    <2>2. CASE k = 2
      <3>1. n < 128 * 128
        BY <2>2 DEF k, SeptetCount
      <3>2. w[1] % 128 = (n \div 1) % 128 /\ w[2] % 128 = (n \div 128) % 128
        BY <1>3, <2>2 DEF Weight
      <3> QED BY <2>2, <3>1, <3>2 DEF Value
    <2>3. CASE k = 3
      <3>1. /\ w[1] % 128 = (n \div 1) % 128
            /\ w[2] % 128 = (n \div 128) % 128
            /\ w[3] % 128 = (n \div (128 * 128)) % 128
        BY <1>3, <2>3 DEF Weight
      <3>2. n = ((n \div 1) % 128) + 128 * ((n \div 128) % 128)
                + 128 * 128 * ((n \div (128 * 128)) % 128)
        BY ThreeSeptets
      <3> QED BY <2>3, <3>1, <3>2 DEF Value
    <2> QED BY <1>1, <2>1, <2>2, <2>3
  <1> QED BY <1>4, <1>5, <1>6 DEF k, w

\* The octet Rust writes for zero is read as zero.
LEMMA ZeroBack ==
    ASSUME NEW tail \in Seq(Octet)
    PROVE  LET w == <<0>> \o tail
           IN  /\ Ends(w) # {}
               /\ FirstEnd(w) = 1
               /\ Value(w, 1) = 0
               /\ <<0>> \in Seq(Octet)
               /\ Len(<<0>>) = 1
  <1> DEFINE w == <<0>> \o tail
  <1>1. <<0>> \in Seq(Octet)
    BY DEF Octet
  <1>2. Len(w) = 1 + Len(tail) /\ Len(tail) \in Nat /\ w[1] = 0
    BY <1>1, ConcatProperties
  <1> HIDE DEF w
  <1>3. 1 \in Ends(w) /\ Ends(w) \subseteq 1 .. 3
    BY <1>2 DEF Ends
  <1>4. FirstEnd(w) = 1
    BY <1>3 DEF FirstEnd
  <1>5. Value(w, 1) = 0
    BY <1>2 DEF Value
  <1> QED BY <1>1, <1>3, <1>4, <1>5 DEF w

\* What packed_uint21_to_bytes (spinel.rs:239-262) or PackedUInt21.serialize
\* (spinel_types.py:12-24) writes for any 21-bit number is read by
\* packed_uint21_deserialize (spinel.rs:221-237) and by PackedUInt21.deserialize
\* (spinel_types.py:26-46) as that number, and the rest of the frame is left.
THEOREM RoundTrip ==
    ASSUME NEW n \in Nat, n < U21_MAX, NEW tail \in Seq(Octet),
           NEW octets \in RustWrite(n) \cup PyWrite(n)
    PROVE  /\ RustRead(octets \o tail) = {[value |-> n, used |-> Len(octets)]}
           /\ PyRead(octets \o tail) = {[value |-> n, used |-> Len(octets)]}
           /\ octets \in Seq(Octet)
  <1>1. CASE n = 0
    <2>1. octets = <<0>>
      BY <1>1 DEF RustWrite, PyWrite, Refused
    <2> QED BY <1>1, <2>1, ZeroBack DEF RustRead, PyRead
  <1>2. CASE n # 0
    <2>1. octets = Septets(n)
      BY <1>2 DEF RustWrite, PyWrite, Refused, U21_MAX
    <2>2. n \in Nat \ {0}
      BY <1>2
    <2> QED BY <2>1, <2>2, ReadBack, SeptetsOf DEF RustRead, PyRead
  <1> QED BY <1>1, <1>2

\* Whoever wrote the number, what has been read so far is what was written.
Inv == /\ writer # "noise" =>
            /\ number \in Numbers
            /\ \E octets \in RustWrite(number) \cup PyWrite(number), tail \in Tails :
                  wire = octets \o tail
       /\ writer # "noise" /\ number < U21_MAX =>
            \A lang \in Languages \ unread :
                read[lang] = IF lang = "rust" THEN RustRead(wire) ELSE PyRead(wire)
       /\ unread \subseteq Languages
       /\ DOMAIN read = Languages
       /\ read = [lang \in Languages |-> read[lang]]

LEMMA InvHolds == PackedSpec => []Inv
  <1>1. PackedInit => Inv
    BY DEF PackedInit, Inv, Languages
  <1>2. Inv /\ [PackedNext]_packedVars => Inv'
    <2> SUFFICES ASSUME Inv, [PackedNext]_packedVars PROVE Inv'
      OBVIOUS
    <2>1. ASSUME NEW n \in Numbers, NEW tail \in Tails, RustWrites(n, tail)
          PROVE  Inv'
      BY <2>1 DEF RustWrites, Appear, Inv, Languages
    <2>2. ASSUME NEW n \in Numbers, NEW tail \in Tails, PyWrites(n, tail)
          PROVE  Inv'
      BY <2>2 DEF PyWrites, Appear, Inv, Languages
    <2>3. ASSUME NEW octets \in Noise, NoiseAppears(octets)
          PROVE  Inv'
      BY <2>3 DEF NoiseAppears, Appear, Inv, Languages
    <2>4. CASE RustReads
      BY <2>4 DEF RustReads, Reads, Inv, Languages
    <2>5. CASE PyReads
      BY <2>5 DEF PyReads, Reads, Inv, Languages
    <2>6. CASE UNCHANGED packedVars
      BY <2>6 DEF packedVars, Inv
    <2> QED BY <2>1, <2>2, <2>3, <2>4, <2>5, <2>6 DEF PackedNext
  <1> QED BY <1>1, <1>2, PTL DEF PackedSpec

\* In every behaviour, a 21-bit number put on the wire by either language is
\* read back by both with the rest of the frame intact.
THEOREM Survival == PackedSpec => []NumbersSurvive
  <1>1. Inv => NumbersSurvive
    <2> SUFFICES ASSUME Inv, writer # "noise", number < U21_MAX,
                        NEW lang \in Languages \ unread
                 PROVE  \E tail \in Tails :
                          /\ Len(tail) <= Len(wire)
                          /\ tail = SubSeq(wire, Len(wire) - Len(tail) + 1, Len(wire))
                          /\ read[lang] = {[value |-> number,
                                            used |-> Len(wire) - Len(tail)]}
      BY DEF NumbersSurvive
    <2>1. PICK octets \in RustWrite(number) \cup PyWrite(number), tail \in Tails :
              wire = octets \o tail
      BY DEF Inv
    <2>2. number \in Nat /\ number < U21_MAX
      BY NumbersAssumption DEF Inv
    <2>3. tail \in Seq(Octet)
      BY TailsAssumption
    <2>4. /\ RustRead(wire) = {[value |-> number, used |-> Len(octets)]}
          /\ PyRead(wire) = {[value |-> number, used |-> Len(octets)]}
          /\ octets \in Seq(Octet)
      BY <2>1, <2>2, <2>3, RoundTrip
    <2>5. Len(wire) = Len(octets) + Len(tail) /\ Len(octets) \in Nat /\ Len(tail) \in Nat
      BY <2>1, <2>3, <2>4
    <2>6. tail = SubSeq(wire, Len(wire) - Len(tail) + 1, Len(wire))
      BY <2>1, <2>3, <2>4, <2>5
    <2>7. read[lang] = {[value |-> number, used |-> Len(octets)]}
      BY <2>4 DEF Inv, Languages
    <2> QED BY <2>5, <2>6, <2>7
  <1> QED BY <1>1, InvHolds, PTL

\* What is written, be it accepted rightly or not, are octets.
LEMMA WrittenOctets ==
    ASSUME NEW n \in Nat
    PROVE  RustWrite(n) \cup PyWrite(n) \subseteq Seq(Octet)
  <1> DEFINE k == SeptetCount(n)
  <1>1. k \in 0 .. 4
    BY DEF SeptetCount
  <1>2. ASSUME NEW i \in 1 .. k PROVE Septets(n)[i] \in Octet
    <2>1. Weight(i - 1) \in {1, 128, 128 * 128, 128 * 128 * 128}
      BY <1>1 DEF Weight
    <2>2. n \div Weight(i - 1) \in Nat
      BY <2>1
    <2> QED BY <2>2 DEF Septets, Octet
  <1>3. Septets(n) \in [1 .. k -> Octet]
    <2>1. Septets(n) = [i \in 1 .. k |-> Septets(n)[i]]
      BY DEF Septets
    <2> QED BY <1>2, <2>1
  <1>4. Septets(n) \in Seq(Octet)
    <2> HIDE DEF k
    <2> QED BY <1>1, <1>3
  <1>5. <<0>> \in Seq(Octet)
    BY DEF Octet
  <1> QED BY <1>4, <1>5 DEF RustWrite, PyWrite, Refused

Reading(lang) == IF lang = "rust" THEN RustRead(wire) ELSE PyRead(wire)

\* Octet are on the wire, and who has read them has what its reader makes of
\* them: at the start nobody has.
ReadInv ==
    /\ wire \in Seq(Octet)
    /\ unread \subseteq Languages
    /\ read = [lang \in Languages |-> read[lang]]
    /\ \/ unread = {} /\ \A lang \in Languages : read[lang] = Refused
       \/ \A lang \in Languages \ unread : read[lang] = Reading(lang)

LEMMA ReadInvHolds == PackedSpec => []ReadInv
  <1>1. PackedInit => ReadInv
    BY EmptySeq DEF PackedInit, ReadInv, Languages
  <1>2. ReadInv /\ [PackedNext]_packedVars => ReadInv'
    <2> SUFFICES ASSUME ReadInv, [PackedNext]_packedVars PROVE ReadInv'
      OBVIOUS
    <2>1. ASSUME NEW who, NEW n, NEW octets \in Seq(Octet), Appear(who, n, octets)
          PROVE  ReadInv'
      BY <2>1 DEF Appear, ReadInv, Languages
    <2>2. CASE \E n \in Numbers, tail \in Tails : RustWrites(n, tail) \/ PyWrites(n, tail)
      <3>1. PICK n \in Numbers, tail \in Tails : RustWrites(n, tail) \/ PyWrites(n, tail)
        BY <2>2
      <3>2. n \in Nat /\ tail \in Seq(Octet)
        BY NumbersAssumption, TailsAssumption
      <3>3. PICK octets \in RustWrite(n) \cup PyWrite(n) :
                Appear("rust", n, octets \o tail) \/ Appear("python", n, octets \o tail)
        BY <3>1 DEF RustWrites, PyWrites
      <3>4. octets \in Seq(Octet)
        BY <3>2, WrittenOctets
      <3>5. octets \o tail \in Seq(Octet)
        BY <3>2, <3>4, ConcatProperties
      <3> QED BY <2>1, <3>3, <3>5
    <2>3. CASE \E octets \in Noise : NoiseAppears(octets)
      BY <2>1, <2>3, NoiseAssumption DEF NoiseAppears
    <2>4. CASE RustReads
      BY <2>4 DEF RustReads, Reads, ReadInv, Reading, Languages
    <2>5. CASE PyReads
      BY <2>5 DEF PyReads, Reads, ReadInv, Reading, Languages
    <2>6. CASE UNCHANGED packedVars
      BY <2>6 DEF packedVars, ReadInv, Reading
    <2> QED BY <2>2, <2>3, <2>4, <2>5, <2>6 DEF PackedNext
  <1> QED BY <1>1, <1>2, PTL DEF PackedSpec

\* Whatever octets are on the wire, both readers make the same of them, unless
\* they run out within three, each asking for another: that Rust refuses, and
\* Python takes (spinel.rs:221-237, spinel_types.py:26-46).
THEOREM Agreement == PackedSpec => []ReadersAgree
  <1>1. ReadInv => ReadersAgree
    <2> SUFFICES ASSUME ReadInv, unread = {}, read["rust"] # read["python"]
                 PROVE  /\ read["rust"] = Refused
                        /\ Len(wire) <= 3
                        /\ \A i \in 1 .. Len(wire) : wire[i] >= 128
      BY DEF ReadersAgree
    <2>1. read["rust"] = RustRead(wire) /\ read["python"] = PyRead(wire)
      BY DEF ReadInv, Reading, Languages
    <2>2. Ends(wire) = {}
      BY <2>1 DEF RustRead, PyRead
    <2>3. Len(wire) \in Nat /\ \A i \in 1 .. Len(wire) : wire[i] \in 0 .. 255
      <3>1. wire \in Seq(Octet)
        BY DEF ReadInv
      <3>2. \A i \in 1 .. Len(wire) : wire[i] \in Octet
        BY <3>1
      <3> QED BY <3>1, <3>2 DEF Octet
    <2>4. read["rust"] = Refused /\ Len(wire) <= 3
      BY <2>1, <2>2, <2>3 DEF RustRead, PyRead
    <2>5. ASSUME NEW i \in 1 .. Len(wire) PROVE wire[i] >= 128
      <3> DEFINE octet == wire[i]
      <3>1. i \in 1 .. 3 /\ i <= Len(wire) /\ octet \in 0 .. 255
        BY <2>3, <2>4
      <3>2. ~(octet < 128)
        BY <2>2, <3>1 DEF Ends
      <3> HIDE DEF octet
      <3>3. octet >= 128
        BY <3>1, <3>2
      <3> QED BY <3>3 DEF octet
    <2> QED BY <2>4, <2>5
  <1> QED BY <1>1, ReadInvHolds, PTL
-------------------------------------------------------------------------------
(* The values of STREAM_RAW, behind the number.                             *)

\* A value is the length of a frame, the frame, and what is behind it.
Valued(psdu, rest) == LowFirst(Len(psdu), 2) \o psdu \o rest

\* Where the elements of a concatenation are.
LEMMA CatParts ==
  ASSUME NEW s \in Seq(Octet), NEW t \in Seq(Octet)
  PROVE  /\ s \o t \in Seq(Octet) /\ Len(s \o t) = Len(s) + Len(t)
         /\ \A i \in 1 .. Len(s) : (s \o t)[i] = s[i]
         /\ \A i \in 1 .. Len(t) : (s \o t)[Len(s) + i] = t[i]
<1>1. s \o t \in Seq(Octet) /\ Len(s \o t) = Len(s) + Len(t)
  BY ConcatProperties
<1>2. Len(s) \in Nat /\ Len(t) \in Nat
  BY LenProperties
<1>3. ASSUME NEW i \in 1 .. Len(s) PROVE (s \o t)[i] = s[i]
  BY <1>2, <1>3
<1>4. ASSUME NEW i \in 1 .. Len(t) PROVE (s \o t)[Len(s) + i] = t[i]
  BY <1>2, <1>4
<1> QED BY <1>1, <1>3, <1>4

LEMMA ValueParts ==
  ASSUME NEW psdu \in Seq(Octet), Len(psdu) < 256 * 256, NEW rest \in Seq(Octet)
  PROVE  /\ Valued(psdu, rest) \in Seq(Octet)
         /\ Len(Valued(psdu, rest)) = 2 + Len(psdu) + Len(rest)
         /\ Len(psdu) = Valued(psdu, rest)[1] + 256 * Valued(psdu, rest)[2]
         /\ \A i \in 1 .. Len(psdu) : Valued(psdu, rest)[2 + i] = psdu[i]
         /\ \A i \in 1 .. Len(rest) : Valued(psdu, rest)[2 + Len(psdu) + i] = rest[i]
<1> DEFINE l == LowFirst(Len(psdu), 2)
           c == l \o psdu
           v == c \o rest
<1>1. Len(psdu) \in Nat /\ Len(rest) \in Nat
  BY LenProperties
<1>2. l \in Seq(Octet) /\ Len(l) = 2 /\ Len(psdu) = l[1] + 256 * l[2]
  BY <1>1, LowTwo
<1> HIDE DEF l
<1>a. /\ l \o psdu \in Seq(Octet) /\ Len(l \o psdu) = Len(l) + Len(psdu)
      /\ \A i \in 1 .. Len(l) : (l \o psdu)[i] = l[i]
      /\ \A i \in 1 .. Len(psdu) : (l \o psdu)[Len(l) + i] = psdu[i]
  BY <1>2, CatParts, Zenon
<1>b. /\ c \in Seq(Octet) /\ Len(c) = Len(l) + Len(psdu)
      /\ \A i \in 1 .. Len(l) : c[i] = l[i]
      /\ \A i \in 1 .. Len(psdu) : c[Len(l) + i] = psdu[i]
  BY <1>a, Zenon
<1> HIDE DEF c
<1>3. /\ c \in Seq(Octet) /\ Len(c) = 2 + Len(psdu)
      /\ \A i \in 1 .. 2 : c[i] = l[i]
      /\ \A i \in 1 .. Len(psdu) : c[2 + i] = psdu[i]
  BY <1>2, <1>b
<1>c. /\ c \o rest \in Seq(Octet) /\ Len(c \o rest) = Len(c) + Len(rest)
      /\ \A i \in 1 .. Len(c) : (c \o rest)[i] = c[i]
      /\ \A i \in 1 .. Len(rest) : (c \o rest)[Len(c) + i] = rest[i]
  BY <1>3, CatParts, Zenon
<1>4. /\ v \in Seq(Octet) /\ Len(v) = Len(c) + Len(rest)
      /\ \A i \in 1 .. Len(c) : v[i] = c[i]
      /\ \A i \in 1 .. Len(rest) : v[Len(c) + i] = rest[i]
  BY <1>c, Zenon
<1>5. Valued(psdu, rest) = v
  BY DEF Valued, l, c
<1> HIDE DEF v
<1>6. v[1] = l[1] /\ v[2] = l[2]
  BY <1>1, <1>3, <1>4
<1>7. \A i \in 1 .. Len(psdu) : v[2 + i] = psdu[i]
  <2> TAKE i \in 1 .. Len(psdu)
  <2>1. 2 + i \in 1 .. Len(c)
    BY <1>1, <1>3
  <2> QED BY <1>3, <1>4, <2>1
<1>8. \A i \in 1 .. Len(rest) : v[2 + Len(psdu) + i] = rest[i]
  BY <1>3, <1>4
<1> QED BY <1>2, <1>3, <1>4, <1>5, <1>6, <1>7, <1>8

\* Cut behind its length, it still gives the length; cut behind its frame, the frame.
LEMMA PrefixRead ==
  ASSUME NEW psdu \in Seq(Octet), Len(psdu) < 256 * 256, NEW rest \in Seq(Octet),
         NEW v \in Seq(Octet), IsPrefix(v, Valued(psdu, rest)), Len(v) >= 2
  PROVE  /\ Number(SubSeq(v, 1, 2)) = Len(psdu)
         /\ Len(v) >= 2 + Len(psdu) => SubSeq(v, 3, 2 + Len(psdu)) = psdu
         /\ \A i \in 1 .. Len(rest) : 2 + Len(psdu) + i <= Len(v) => v[2 + Len(psdu) + i] = rest[i]
<1>0. /\ Valued(psdu, rest) \in Seq(Octet)
      /\ Len(Valued(psdu, rest)) = 2 + Len(psdu) + Len(rest)
      /\ Len(psdu) = Valued(psdu, rest)[1] + 256 * Valued(psdu, rest)[2]
      /\ \A i \in 1 .. Len(psdu) : Valued(psdu, rest)[2 + i] = psdu[i]
      /\ \A i \in 1 .. Len(rest) : Valued(psdu, rest)[2 + Len(psdu) + i] = rest[i]
  BY ValueParts
<1> DEFINE w == Valued(psdu, rest)
<1>1. /\ w \in Seq(Octet) /\ Len(w) = 2 + Len(psdu) + Len(rest)
      /\ Len(psdu) = w[1] + 256 * w[2]
      /\ \A i \in 1 .. Len(psdu) : w[2 + i] = psdu[i]
      /\ \A i \in 1 .. Len(rest) : w[2 + Len(psdu) + i] = rest[i]
  BY <1>0
<1> HIDE DEF w
<1>2. Len(v) <= Len(w) /\ SubSeq(v, 1, Len(v)) = SubSeq(w, 1, Len(v))
  BY DEF IsPrefix, w
<1>3. Len(v) \in Nat /\ Len(psdu) \in Nat /\ Len(rest) \in Nat
  BY LenProperties
<1>4. \A i \in 1 .. Len(v) : v[i] = w[i]
  <2> TAKE i \in 1 .. Len(v)
  <2> DEFINE n == Len(v)
  <2>4. n \in Nat /\ n <= Len(w) /\ Len(w) \in Nat
    BY <1>1, <1>2, <1>3, LenProperties
  <2>5. \A k \in 1 .. n : v[k] \in Octet
    OBVIOUS
  <2>6. \A k \in 1 .. Len(w) : w[k] \in Octet
    BY <1>1
  <2>2. n \in Nat /\ i \in 1 .. n /\ n <= Len(w) /\ (\A k \in 1 .. n : v[k] \in Octet /\ w[k] \in Octet)
    <3> HIDE DEF n
    <3>1. \A k \in 1 .. n : k \in 1 .. Len(w)
      BY <2>4
    <3>2. i \in 1 .. n
      BY DEF n
    <3> QED BY <2>4, <2>5, <2>6, <3>1, <3>2
  <2> HIDE DEF n
  <2>3. SubSeq(v, 1, n)[i] = v[1 + i - 1] /\ SubSeq(w, 1, n)[i] = w[1 + i - 1]
    BY <2>2, SubSeqProperties
  <2>1. SubSeq(v, 1, Len(v))[i] = v[i] /\ SubSeq(w, 1, Len(v))[i] = w[i]
    BY <2>2, <2>3 DEF n
  <2> QED BY <1>2, <2>1
<1>5. v[1] \in Nat /\ v[2] \in Nat /\ v[1] = w[1] /\ v[2] = w[2]
  <2>1. \A i \in 1 .. Len(v) : v[i] \in Octet
    OBVIOUS
  <2>2. 1 \in 1 .. Len(v) /\ 2 \in 1 .. Len(v)
    BY <1>3
  <2>3. v[1] = w[1] /\ v[2] = w[2]
    BY <1>4, <2>2
  <2>4. v[1] \in Octet /\ v[2] \in Octet
    BY <2>1, <2>2
  <2>5. \A o \in Octet : o \in Nat
    BY DEF Octet
  <2> QED BY <2>3, <2>4, <2>5
<1>6. SubSeq(v, 1, 2) = <<v[1], v[2]>>
  <2> DEFINE t == SubSeq(v, 1, 2)
  <2>1. t \in Seq(Octet) /\ Len(t) = 2 /\ t[1] = v[1] /\ t[2] = v[2]
    BY <1>3
  <2> HIDE DEF t
  <2>2. t = <<t[1], t[2]>>
    BY <2>1
  <2> QED BY <2>1, <2>2 DEF t
<1>7. Number(SubSeq(v, 1, 2)) = Len(psdu)
  <2>1. Number(<<v[1], v[2]>>) = v[1] + 256 * v[2]
    BY <1>5, NumberOfTwo
  <2>2. Number(SubSeq(v, 1, 2)) = Number(<<v[1], v[2]>>)
    BY <1>6, Zenon
  <2>3. v[1] + 256 * v[2] = Len(psdu)
    BY <1>1, <1>5
  <2> QED BY <2>1, <2>2, <2>3, Zenon
<1>8. ASSUME Len(v) >= 2 + Len(psdu) PROVE SubSeq(v, 3, 2 + Len(psdu)) = psdu
  <2> DEFINE q == SubSeq(v, 3, 2 + Len(psdu))
  <2>1. q \in Seq(Octet) /\ Len(q) = Len(psdu) /\ \A i \in 1 .. Len(psdu) : q[i] = v[2 + i]
    BY <1>3, <1>8
  <2> HIDE DEF q
  <2>2. \A i \in 1 .. Len(psdu) : q[i] = psdu[i]
    <3> TAKE i \in 1 .. Len(psdu)
    <3>1. 2 + i \in 1 .. Len(v)
      BY <1>3, <1>8
    <3>2. w[2 + i] = psdu[i]
      BY <1>1
    <3> QED BY <1>4, <2>1, <3>1, <3>2
  <2>3. q = psdu
    BY <2>1, <2>2, SeqEqual
  <2> QED BY <2>3 DEF q
<1>9. ASSUME NEW i \in 1 .. Len(rest), 2 + Len(psdu) + i <= Len(v)
      PROVE  v[2 + Len(psdu) + i] = rest[i]
  <2>1. 2 + Len(psdu) + i \in 1 .. Len(v)
    BY <1>3, <1>9
  <2>2. v[2 + Len(psdu) + i] = w[2 + Len(psdu) + i]
    BY <1>4, <2>1
  <2> QED BY <1>1, <2>2
<1> QED BY <1>7, <1>8, <1>9

\* Where the fields of the metadata begin.
LEMMA Starts == /\ RxStarts[4] = 6 /\ RxStarts[5] = 7 /\ RxStarts[7] = 16 /\ RxStarts[8] = 17
                /\ RxLength = 17
  BY DEF RxStarts, RxLength

\* What either reader makes of a received value, whole or cut anywhere.
LEMMA ReceivedRead ==
  ASSUME NEW psdu \in Psdus, NEW m \in RxMetadata, NEW v \in Seq(Octet),
         IsPrefix(v, Received(psdu, m)), Len(v) >= 2
  PROVE  /\ Number(SubSeq(v, 1, 2)) = Len(psdu) /\ Len(psdu) \in Nat
         /\ Len(v) >= 2 + Len(psdu) => SubSeq(v, 3, 2 + Len(psdu)) = psdu
         /\ \A i \in 1 .. 17 : 2 + Len(psdu) + i <= Len(v) => v[2 + Len(psdu) + i] = m[i]
<1>1. /\ psdu \in Seq(Octet) /\ Len(psdu) < 256 * 256 /\ Len(psdu) \in Nat
      /\ m \in Seq(Octet) /\ Len(m) >= 17 /\ Len(m) \in Nat
  BY PsdusAssumption, RxMetadataAssumption, LenProperties, Starts
<1>2. Received(psdu, m) = Valued(psdu, m)
  BY DEF Received, Valued
<1>3. /\ Number(SubSeq(v, 1, 2)) = Len(psdu)
      /\ Len(v) >= 2 + Len(psdu) => SubSeq(v, 3, 2 + Len(psdu)) = psdu
      /\ \A i \in 1 .. Len(m) : 2 + Len(psdu) + i <= Len(v) => v[2 + Len(psdu) + i] = m[i]
  BY <1>1, <1>2, PrefixRead
<1>4. ASSUME NEW i \in 1 .. 17, 2 + Len(psdu) + i <= Len(v) PROVE v[2 + Len(psdu) + i] = m[i]
  <2>1. i \in 1 .. Len(m)
    BY <1>1
  <2> QED BY <1>3, <1>4, <2>1
<1> QED BY <1>1, <1>3, <1>4

\* The first octet of a field.
LEMMA FieldOctet ==
  ASSUME NEW v \in Seq(Octet), NEW b \in 1 .. Len(v), NEW a \in 1 .. b
  PROVE  SubSeq(v, a, b)[1] = v[a]
  OBVIOUS

LEMMA RustReceived ==
  ASSUME NEW psdu \in Psdus, NEW m \in RxMetadata, NEW v \in Seq(Octet),
         IsPrefix(v, Received(psdu, m)), Len(v) >= 2
  PROVE  /\ Len(v) < 2 + Len(psdu) + RxLength => RustRx(v).outcome = "error"
         /\ Len(v) >= 2 + Len(psdu) + RxLength =>
              /\ RustRx(v).outcome = "frame" /\ RustRx(v).psdu = psdu
              /\ RustRx(v).channel = m[7] /\ RustRx(v).receiveError = m[17]
              /\ RustRx(v).manufacturerSpecific = SubSeq(v, 3 + Len(psdu) + RxLength, Len(v))
<1> DEFINE n == Len(psdu)
<1>1. /\ Number(SubSeq(v, 1, 2)) = n /\ n \in Nat
      /\ Len(v) >= 2 + n => SubSeq(v, 3, 2 + n) = psdu
      /\ \A i \in 1 .. 17 : 2 + n + i <= Len(v) => v[2 + n + i] = m[i]
  BY ReceivedRead
<1>2. Len(v) \in Nat
  BY LenProperties
<1> HIDE DEF n
<1>3. Needs(v) = 2 + n + 17
  BY <1>1, Starts DEF Needs
<1>4. CASE Len(v) < 2 + n + 17
  <2>1. RustRx(v) = [outcome |-> "error"]
    BY <1>1, <1>2, <1>3, <1>4, Starts DEF RustRx
  <2> QED BY <1>1, <1>2, <1>4, <2>1, Starts DEF n
<1>5. CASE Len(v) >= 2 + n + 17
  <2> DEFINE F4 == SubSeq(v, 2 + n + 6 + 1, 2 + n + 7)
             F7 == SubSeq(v, 2 + n + 16 + 1, 2 + n + 17)
             P == SubSeq(v, 3, 2 + n)
             S == SubSeq(v, 2 + n + 17 + 1, Len(v))
  <2>1. F4[1] = m[7]
    <3>1. F4[1] = v[2 + n + 6 + 1]
      <4>1. 2 + n + 7 \in 1 .. Len(v) /\ 2 + n + 6 + 1 \in 1 .. 2 + n + 7
        BY <1>1, <1>2, <1>5
      <4> QED BY <4>1, FieldOctet
    <3>2. 2 + n + 6 + 1 = 2 + n + 7 /\ v[2 + n + 7] = m[7]
      BY <1>1, <1>2, <1>5
    <3> QED BY <3>1, <3>2
  <2>2. F7[1] = m[17]
    <3>1. F7[1] = v[2 + n + 16 + 1]
      <4>1. 2 + n + 17 \in 1 .. Len(v) /\ 2 + n + 16 + 1 \in 1 .. 2 + n + 17
        BY <1>1, <1>2, <1>5
      <4> QED BY <4>1, FieldOctet
    <3>2. 2 + n + 16 + 1 = 2 + n + 17 /\ v[2 + n + 17] = m[17]
      BY <1>1, <1>2, <1>5
    <3> QED BY <3>1, <3>2
  <2>3. P = psdu
    BY <1>1, <1>2, <1>5
  <2>4. S = SubSeq(v, 3 + n + 17, Len(v))
    BY <1>1, 2 + n + 17 + 1 = 3 + n + 17
  <2> HIDE DEF F4, F7, P, S
  <2>5. /\ RustRx(v).outcome = "frame" /\ RustRx(v).psdu = P
        /\ RustRx(v).channel = F4[1] /\ RustRx(v).receiveError = F7[1]
        /\ RustRx(v).manufacturerSpecific = S
    <3> DEFINE N == Number(SubSeq(v, 1, 2))
               Field(i) == SubSeq(v, 2 + N + RxStarts[i] + 1, 2 + N + RxStarts[i + 1])
               R == [outcome |-> "frame", psdu |-> SubSeq(v, 3, 2 + N), rssi |-> Signed(Field(1)[1]),
                     noiseFloor |-> Signed(Field(2)[1]), flags |-> Field(3), channel |-> Field(4)[1],
                     lqi |-> Field(5)[1], timestampUs |-> Field(6), receiveError |-> Field(7)[1],
                     manufacturerSpecific |-> SubSeq(v, 2 + N + RxStarts[8] + 1, Len(v))]
    <3>1. N = n /\ ~(Len(v) < 2) /\ ~(Needs(v) > Len(v)) /\ ~(2 + N + RxStarts[8] > Len(v))
      BY <1>1, <1>2, <1>3, <1>5, Starts, SMTT(30)
    <3>2. RustRx(v) = R
      BY <3>1 DEF RustRx
    <3>3. Field(4) = F4 /\ Field(7) = F7
      <4>1. 4 + 1 = 5 /\ 7 + 1 = 8
        OBVIOUS
      <4> QED BY <3>1, <4>1, Starts DEF F4, F7
    <3>4. SubSeq(v, 3, 2 + N) = P /\ SubSeq(v, 2 + N + RxStarts[8] + 1, Len(v)) = S
      BY <3>1, Starts DEF P, S
    <3> HIDE DEF N, Field
    <3> QED BY <3>2, <3>3, <3>4
  <2> QED BY <1>1, <1>2, <1>5, <2>1, <2>2, <2>3, <2>4, <2>5, Starts DEF n
<1> QED BY <1>1, <1>2, <1>4, <1>5

LEMMA PyReceived ==
  ASSUME NEW psdu \in Seq(Octet), NEW v \in Seq(Octet), Len(v) >= 2,
         Number(SubSeq(v, 1, 2)) = Len(psdu),
         Len(v) >= 2 + Len(psdu) => SubSeq(v, 3, 2 + Len(psdu)) = psdu
  PROVE  /\ PyRx(v).outcome = "frame"
         /\ Len(v) >= 2 + Len(psdu) => PyRx(v).psdu = psdu
<1>1. Len(v) \in Nat /\ Len(psdu) \in Nat
  BY LenProperties
<1> DEFINE Upto(n) == SubSeq(v, 3, Min({Len(v), 2 + n}))
<1>2. PyRx(v) = [outcome |-> "frame", psdu |-> Upto(Number(SubSeq(v, 1, 2)))]
  BY <1>1 DEF PyRx
<1>4. Upto(Number(SubSeq(v, 1, 2))) = Upto(Len(psdu))
  OBVIOUS
<1>3. ASSUME Len(v) >= 2 + Len(psdu) PROVE Min({Len(v), 2 + Len(psdu)}) = 2 + Len(psdu)
  BY <1>1, <1>3 DEF Min
<1>5. ASSUME Len(v) >= 2 + Len(psdu) PROVE Upto(Len(psdu)) = psdu
  BY <1>3, <1>5
<1> HIDE DEF Upto
<1> QED BY <1>2, <1>4, <1>5

LEMMA EveryReceived ==
  ASSUME NEW lang \in Languages, NEW v \in Seq(Octet) PROVE ReceivedSurvives(lang, v)
<1> SUFFICES ASSUME NEW psdu \in Psdus, NEW m \in RxMetadata, IsPrefix(v, Received(psdu, m))
             PROVE  LET n == Len(v)
                        r == Rx(lang, v)
                    IN  /\ r.outcome = "panic" <=> lang = "rust" /\ n < 2
                        /\ r.outcome = "frame" <=> n >= 2 + (IF lang = "rust" THEN Len(psdu) + RxLength ELSE 0)
                        /\ r.outcome = "frame" /\ n >= 2 + Len(psdu) => r.psdu = psdu
                        /\ r.outcome = "frame" /\ lang = "rust" =>
                             r.receiveError = m[RxLength] /\ r.channel = m[7] /\ r.manufacturerSpecific = SubSeq(v, 3 + Len(psdu) + RxLength, n)
  BY DEF ReceivedSurvives
<1>1. Len(v) \in Nat /\ Len(psdu) \in Nat /\ psdu \in Seq(Octet) /\ RxLength = 17
  BY PsdusAssumption, LenProperties, Starts
<1>2. CASE Len(v) < 2
  <2>1. CASE lang = "rust"
    <3>1. RustRx(v) = [outcome |-> "panic"]
      BY <1>1, <1>2 DEF RustRx
    <3> QED BY <1>1, <1>2, <2>1, <3>1 DEF Rx
  <2>2. CASE lang = "python"
    <3>1. PyRx(v) = [outcome |-> "error"]
      BY <1>1, <1>2 DEF PyRx
    <3> QED BY <1>1, <1>2, <2>2, <3>1 DEF Rx
  <2> QED BY <2>1, <2>2 DEF Languages
<1>3. CASE Len(v) >= 2 /\ lang = "rust"
  <2> DEFINE r == RustRx(v)
  <2>1. /\ Len(v) < 2 + Len(psdu) + 17 => r.outcome = "error"
        /\ Len(v) >= 2 + Len(psdu) + 17 =>
              /\ r.outcome = "frame" /\ r.psdu = psdu
              /\ r.channel = m[7] /\ r.receiveError = m[17]
              /\ r.manufacturerSpecific = SubSeq(v, 3 + Len(psdu) + 17, Len(v))
    BY <1>1, <1>3, RustReceived
  <2>2. Rx(lang, v) = r
    BY <1>3 DEF Rx
  <2> HIDE DEF r
  <2> QED BY <1>1, <1>3, <2>1, <2>2
<1>4. CASE Len(v) >= 2 /\ lang = "python"
  <2> DEFINE r == PyRx(v)
  <2>1. r.outcome = "frame" /\ (Len(v) >= 2 + Len(psdu) => r.psdu = psdu)
    BY <1>1, <1>4, ReceivedRead, PyReceived
  <2>2. Rx(lang, v) = r
    BY <1>4 DEF Rx
  <2> HIDE DEF r
  <2> QED BY <1>1, <1>4, <2>1, <2>2
<1> QED BY <1>1, <1>2, <1>3, <1>4 DEF Languages

\* What is sent: the frame behind its length, and seven settings behind the frame.
Settings(m) == <<m.channel, 1, 4, 1, 1, 0, 1>>

LEMMA SentValue ==
  ASSUME NEW psdu \in Seq(Octet), Len(psdu) < 256 * 256, NEW c \in Octet,
         NEW rest \in Seq(Octet), Len(rest) >= 7,
         \A i \in 1 .. 7 : rest[i] = <<c, 1, 4, 1, 1, 0, 1>>[i]
  PROVE  /\ PyRx(Valued(psdu, rest)).psdu = psdu
         /\ SubSeq(Valued(psdu, rest), 3 + Len(psdu), 9 + Len(psdu)) = <<c, 1, 4, 1, 1, 0, 1>>
<1> DEFINE v == Valued(psdu, rest)
           seven == <<c, 1, 4, 1, 1, 0, 1>>
<1>1. Len(psdu) \in Nat /\ Len(rest) \in Nat
  BY LenProperties
<1>2. v \in Seq(Octet) /\ Len(v) = 2 + Len(psdu) + Len(rest) /\ Len(v) \in Nat
  BY <1>1, ValueParts
<1>3. IsPrefix(v, v)
  <2> HIDE DEF v
  <2> QED BY <1>2 DEF IsPrefix
<1>4. /\ Number(SubSeq(v, 1, 2)) = Len(psdu)
      /\ Len(v) >= 2 + Len(psdu) => SubSeq(v, 3, 2 + Len(psdu)) = psdu
      /\ \A i \in 1 .. Len(rest) : 2 + Len(psdu) + i <= Len(v) => v[2 + Len(psdu) + i] = rest[i]
  <2>1. Len(v) >= 2
    BY <1>1, <1>2
  <2> QED BY <1>2, <1>3, <2>1, PrefixRead
<1>5. seven \in Seq(Octet) /\ Len(seven) = 7
  BY DEF Octet
<1>6. \A i \in 1 .. 7 : rest[i] = seven[i]
  OBVIOUS
<1> HIDE DEF v, seven
<1>7. PyRx(v).psdu = psdu
  <2>1. Len(v) >= 2 /\ Len(v) >= 2 + Len(psdu)
    BY <1>1, <1>2
  <2>2. SubSeq(v, 3, 2 + Len(psdu)) = psdu
    BY <1>4, <2>1
  <2> QED BY <1>2, <1>4, <2>1, <2>2, PyReceived, Zenon
<1> DEFINE q == SubSeq(v, 3 + Len(psdu), 9 + Len(psdu))
<1>8. q \in Seq(Octet) /\ Len(q) = 7 /\ \A i \in 1 .. 7 : q[i] = v[2 + Len(psdu) + i]
  BY <1>1, <1>2
<1> HIDE DEF q
<1>9. \A i \in 1 .. 7 : q[i] = seven[i]
  <2> TAKE i \in 1 .. 7
  <2>1. i \in 1 .. Len(rest) /\ 2 + Len(psdu) + i <= Len(v)
    BY <1>1, <1>2
  <2> QED BY <1>4, <1>6, <1>8, <2>1
<1>10. q = seven
  BY <1>5, <1>8, <1>9, SeqEqual
<1> QED BY <1>7, <1>10 DEF v, q, seven

LEMMA LowFour == ASSUME NEW n \in Nat PROVE LowFirst(n, 4) \in Seq(Octet)
<1> DEFINE F(i) == (n \div 256^(i - 1)) % 256
<1>1. \A k \in Nat \ {0} : (n \div k) % 256 \in Octet
  BY DEF Octet
<1>2. \A i \in 1 .. 4 : 256^(i - 1) \in Nat \ {0}
  <2>1. 256^(1 - 1) = 1 /\ 256^(2 - 1) = 256 /\ 256^(3 - 1) = 256 * 256 /\ 256^(4 - 1) = 256 * 256 * 256
    OBVIOUS
  <2> SUFFICES ASSUME NEW i \in 1 .. 4 PROVE 256^(i - 1) \in Nat \ {0}
    OBVIOUS
  <2>2. CASE i = 1
    BY <2>1, <2>2
  <2>3. CASE i = 2
    BY <2>1, <2>3
  <2>4. CASE i = 3
    BY <2>1, <2>4
  <2>5. CASE i = 4
    BY <2>1, <2>5
  <2> QED BY <2>2, <2>3, <2>4, <2>5
<1>3. \A i \in 1 .. 4 : F(i) \in Octet
  BY <1>1, <1>2
<1> HIDE DEF F
<1>4. [i \in 1 .. 4 |-> F(i)] \in Seq(Octet)
  BY <1>3
<1> QED BY <1>4 DEF LowFirst, F

LEMMA CatAssociative ==
  \A a, b, c \in Seq(Octet) : Cat(Cat(a, b), c) = Cat(a, Cat(b, c)) /\ Cat(a, b) \in Seq(Octet)
  BY ConcatProperties, ConcatAssociative DEF Cat

LEMMA CatFive ==
  ASSUME NEW r \in Seq(Octet), NEW s \in Seq(Octet), NEW t \in Seq(Octet), NEW u \in Seq(Octet),
         NEW w \in Seq(Octet)
  PROVE  /\ Cat(Cat(Cat(Cat(r, s), t), u), w) = Cat(r, Cat(s, Cat(Cat(t, u), w)))
         /\ Cat(Cat(t, u), w) \in Seq(Octet)
<1>1. Cat(r, s) \in Seq(Octet) /\ Cat(t, u) \in Seq(Octet) /\ Cat(Cat(t, u), w) \in Seq(Octet)
  BY CatAssociative
<1>2. Cat(Cat(Cat(r, s), t), u) = Cat(Cat(r, s), Cat(t, u))
  BY <1>1, CatAssociative
<1>3. Cat(Cat(Cat(r, s), Cat(t, u)), w) = Cat(Cat(r, s), Cat(Cat(t, u), w))
  BY <1>1, CatAssociative
<1>4. Cat(Cat(r, s), Cat(Cat(t, u), w)) = Cat(r, Cat(s, Cat(Cat(t, u), w)))
  BY <1>1, CatAssociative
<1> QED BY <1>1, <1>2, <1>3, <1>4

LEMMA EverySent == ASSUME NEW lang, NEW v PROVE SentSurvives(lang, v)
<1> SUFFICES ASSUME NEW psdu \in Psdus, NEW m \in TxMetadata, v \in {RustTx(psdu, m), PyTx(psdu, m)}
             PROVE  /\ PyRx(v).psdu = psdu
                    /\ SubSeq(v, 3 + Len(psdu), 9 + Len(psdu)) = <<m.channel, 1, 4, 1, 1, 0, 1>>
  BY DEF SentSurvives
<1> DEFINE c == m.channel
           seven == <<c, 1, 4, 1, 1, 0, 1>>
           l == LowFirst(Len(psdu), 2)
<1>1. psdu \in Seq(Octet) /\ Len(psdu) < 256 * 256 /\ Len(psdu) \in Nat
  BY PsdusAssumption, LenProperties
<1>2. /\ c \in Octet /\ m.rxChannelAfterTx \in Octet
      /\ m.maxCsmaBackoffs = 1 /\ m.maxFrameRetries = 4
      /\ m.enableCsmaCa /\ m.isHeaderUpdated /\ ~m.isARetransmit /\ m.isSecurityProcessed
      /\ m.txDelay \in Nat /\ m.txDelayBaseTime \in Nat /\ m.txPower \in Int
  BY TxMetadataAssumption
<1>3. seven \in Seq(Octet) /\ Len(seven) = 7
  BY <1>2 DEF Octet
<1>4. l \in Seq(Octet)
  BY <1>1, LowTwo
<1>5. ASSUME NEW t \in Seq(Octet), v = Valued(psdu, seven \o t)
      PROVE  PyRx(v).psdu = psdu /\ SubSeq(v, 3 + Len(psdu), 9 + Len(psdu)) = seven
  <2> DEFINE rest == seven \o t
  <2>1. /\ rest \in Seq(Octet) /\ Len(rest) = Len(seven) + Len(t)
        /\ \A i \in 1 .. Len(seven) : rest[i] = seven[i]
    <3> HIDE DEF seven
    <3> QED BY <1>3, CatParts
  <2>2. Len(t) \in Nat
    BY LenProperties
  <2> HIDE DEF rest
  <2>3. Len(rest) >= 7 /\ \A i \in 1 .. 7 : rest[i] = seven[i]
    <3> HIDE DEF seven
    <3> QED BY <1>3, <2>1, <2>2
  <2>4. v = Valued(psdu, rest)
    BY <1>5 DEF rest
  <2>5. \A i \in 1 .. 7 : rest[i] = <<m.channel, 1, 4, 1, 1, 0, 1>>[i]
    BY <2>3, Zenon
  <2>6. m.channel \in Octet /\ rest \in Seq(Octet) /\ Len(rest) >= 7
    BY <1>2, <2>1, <2>3
  <2>7. /\ PyRx(Valued(psdu, rest)).psdu = psdu
        /\ SubSeq(Valued(psdu, rest), 3 + Len(psdu), 9 + Len(psdu)) = <<m.channel, 1, 4, 1, 1, 0, 1>>
    BY <1>1, <2>5, <2>6, SentValue
  <2> QED BY <2>4, <2>7, Zenon
<1>6. CASE v = RustTx(psdu, m)
  <2> DEFINE B == LowFirst(m.txDelay, 4)
             C == LowFirst(m.txDelayBaseTime, 4)
             D == <<m.rxChannelAfterTx, m.txPower % 256>>
  <2>1. B \in Seq(Octet) /\ C \in Seq(Octet)
    BY <1>2, LowFour
  <2>2. D \in Seq(Octet)
    BY <1>2 DEF Octet
  <2>3. v = ((((l \o psdu) \o seven) \o B) \o C) \o D
    <3>1. Flag(m.enableCsmaCa) = 1 /\ Flag(m.isHeaderUpdated) = 1 /\ Flag(m.isARetransmit) = 0
          /\ Flag(m.isSecurityProcessed) = 1
      BY <1>2 DEF Flag
    <3>2. <<m.channel, m.maxCsmaBackoffs, m.maxFrameRetries, Flag(m.enableCsmaCa), Flag(m.isHeaderUpdated),
           Flag(m.isARetransmit), Flag(m.isSecurityProcessed)>> = seven
      BY <1>2, <3>1
    <3> QED BY <1>6, <3>2, Zenon DEF RustTx
  <2> HIDE DEF B, C, D, l, seven
  <2>4. l \o psdu \in Seq(Octet)
    BY <1>1, <1>4, ConcatProperties
  <2>5. v = (l \o psdu) \o (seven \o ((B \o C) \o D)) /\ (B \o C) \o D \in Seq(Octet)
    <3> DEFINE X == l \o psdu
    <3>1. X \in Seq(Octet)
      BY <2>4
    <3>2. v = (((X \o seven) \o B) \o C) \o D
      BY <2>3
    <3> HIDE DEF X
    <3>3. /\ Cat(Cat(Cat(Cat(X, seven), B), C), D) = Cat(X, Cat(seven, Cat(Cat(B, C), D)))
          /\ Cat(Cat(B, C), D) \in Seq(Octet)
      BY <1>3, <2>1, <2>2, <3>1, CatFive
    <3>4. v = X \o (seven \o ((B \o C) \o D)) /\ (B \o C) \o D \in Seq(Octet)
      BY <3>2, <3>3, Zenon DEF Cat
    <3> QED BY <3>4, Zenon DEF X
  <2>6. v = Valued(psdu, seven \o ((B \o C) \o D))
    BY <2>5, Zenon DEF Valued, l
  <2> QED BY <1>5, <2>5, <2>6, Zenon DEF seven
<1>7. CASE v = PyTx(psdu, m)
  <2> DEFINE t == <<0, 0, c>>
  <2>1. t \in Seq(Octet)
    BY <1>2 DEF Octet
  <2>2. <<c, 1, 4, 1, 1, 0, 1, 0, 0, c>> = seven \o t
    OBVIOUS
  <2>3. v = Valued(psdu, seven \o t)
    BY <1>7, <2>2, Zenon DEF PyTx, Valued
  <2> HIDE DEF t
  <2> QED BY <1>5, <2>1, <2>3, Zenon
<1> QED BY <1>6, <1>7

\* A request with octets behind its header and command is read as what it is.
LEMMA RequestRead ==
  ASSUME NEW tid \in 0 .. 15, NEW v \in Seq(Octet), Len(v) >= 1
  PROVE  ReadsFrame(Request(tid, PROP_VALUE_SET, v)) =
           {[tid |-> tid, link |-> 0, command |-> PROP_VALUE_SET, payload |-> v]}
<1> DEFINE h == <<128 + tid, 3>>
           o == h \o v
<1>1. Request(tid, PROP_VALUE_SET, v) = o
  BY DEF Request, PROP_VALUE_SET
<1>2. h \in Seq(Octet) /\ Len(h) = 2 /\ h[1] = 128 + tid /\ h[2] = 3
  BY DEF Octet
<1>3. Len(v) \in Nat
  BY LenProperties
<1> HIDE DEF h
<1>4. /\ o \in Seq(Octet) /\ Len(o) = Len(h) + Len(v)
      /\ \A i \in 1 .. Len(h) : o[i] = h[i]
      /\ \A i \in 1 .. Len(v) : o[Len(h) + i] = v[i]
  BY <1>2, CatParts
<1> HIDE DEF o
<1>5. Len(o) = 2 + Len(v) /\ o[1] = 128 + tid /\ o[2] = 3
  BY <1>2, <1>4
<1>6. SubSeq(o, 3, Len(o)) = v
  <2> DEFINE q == SubSeq(o, 3, Len(o))
  <2>1. q \in Seq(Octet) /\ Len(q) = Len(v) /\ \A i \in 1 .. Len(v) : q[i] = o[2 + i]
    BY <1>3, <1>4, <1>5
  <2> HIDE DEF q
  <2>2. \A i \in 1 .. Len(v) : q[i] = v[i]
    BY <1>2, <1>4, <2>1
  <2>3. q = v
    BY <2>1, <2>2, SeqEqual
  <2> QED BY <2>3 DEF q
<1>7. Bits(o[1], 6, 2) = 2 /\ Bits(o[1], 0, 4) = tid /\ Bits(o[1], 4, 2) = 0
  <2>1. 2^6 = 64 /\ 2^2 = 4 /\ 2^0 = 1 /\ 2^4 = 16
    OBVIOUS
  <2>2. (128 + tid) \div 64 = 2 /\ 2 % 4 = 2 /\ (128 + tid) \div 1 = 128 + tid
        /\ (128 + tid) % 16 = tid /\ (128 + tid) \div 16 = 8 /\ 8 % 4 = 0
    OBVIOUS
  <2> QED BY <1>5, <2>1, <2>2 DEF Bits
<1>8. ~(Len(o) < 3 \/ Bits(o[1], 6, 2) # 2)
  BY <1>3, <1>5, <1>7
<1>9. ReadsFrame(o) = {[tid |-> tid, link |-> 0, command |-> 3, payload |-> v]}
  BY <1>5, <1>6, <1>7, <1>8, Zenon DEF ReadsFrame
<1> QED BY <1>1, <1>9 DEF PROP_VALUE_SET

\* For every 802.15.4 frame, every metadata and every transaction: what stands
\* behind the number STREAM_RAW is read by both languages as it was written, cut
\* short as far as the octets go, and the request around it is parsed back.
THEOREM StreamSurvival == PackedSpec => []StreamRawSurvives
<1>1. Inv => StreamRawSurvives
  <2> SUFFICES ASSUME Inv, NEW lang \in Languages \ unread, writer # "noise", number = STREAM_RAW
               PROVE  /\ ReceivedSurvives(lang, Behind(lang))
                      /\ SentSurvives(lang, Behind(lang))
                      /\ \A tid \in 0 .. 15 :
                           ReadsFrame(Request(tid, PROP_VALUE_SET, wire)) =
                             {[tid |-> tid, link |-> 0, command |-> PROP_VALUE_SET, payload |-> wire]}
    BY DEF StreamRawSurvives
  <2>1. PICK octets \in RustWrite(number) \cup PyWrite(number), tail \in Tails : wire = octets \o tail
    BY DEF Inv
  <2>2. number \in Nat /\ number < U21_MAX /\ number # 0
    BY DEF STREAM_RAW, U21_MAX
  <2>3. tail \in Seq(Octet)
    BY TailsAssumption
  <2>4. /\ RustRead(wire) = {[value |-> number, used |-> Len(octets)]}
        /\ PyRead(wire) = {[value |-> number, used |-> Len(octets)]}
        /\ octets \in Seq(Octet)
    BY <2>1, <2>2, <2>3, RoundTrip
  <2>5. read[lang] = {[value |-> number, used |-> Len(octets)]}
    BY <2>2, <2>4 DEF Inv, Languages
  <2>6. Behind(lang) = tail
    <3>1. Behind(lang) = SubSeq(wire, Len(octets) + 1, Len(wire))
      <4> DEFINE x == [value |-> number, used |-> Len(octets)]
      <4>1. x.used = Len(octets)
        OBVIOUS
      <4>2. read[lang] = {x}
        BY <2>5
      <4> HIDE DEF x
      <4>3. (CHOOSE r \in read[lang] : TRUE) = x
        BY <4>2
      <4>4. Behind(lang) = SubSeq(wire, x.used + 1, Len(wire))
        BY <4>3, Zenon DEF Behind
      <4> QED BY <4>1, <4>4, Zenon
    <3>2. SubSeq(octets \o tail, Len(octets) + 1, Len(octets \o tail)) = tail
      <4> DEFINE w == octets \o tail
                 q == SubSeq(w, Len(octets) + 1, Len(w))
      <4>1. Len(octets) \in Nat /\ Len(tail) \in Nat
        BY <2>3, <2>4, LenProperties
      <4>2. /\ w \in Seq(Octet) /\ Len(w) = Len(octets) + Len(tail)
            /\ \A i \in 1 .. Len(tail) : w[Len(octets) + i] = tail[i]
        BY <2>3, <2>4, CatParts
      <4> HIDE DEF w
      <4>3. q \in Seq(Octet) /\ Len(q) = Len(tail) /\ \A i \in 1 .. Len(tail) : q[i] = w[Len(octets) + i]
        BY <4>1, <4>2
      <4> HIDE DEF q
      <4>4. q = tail
        BY <2>3, <4>2, <4>3, SeqEqual
      <4> QED BY <4>4 DEF q, w
    <3> QED BY <2>1, <3>1, <3>2
  <2>7. wire \in Seq(Octet) /\ Len(wire) >= 1
    <3>1. octets = Septets(number)
      BY <2>2 DEF RustWrite, PyWrite, Refused
    <3>2. Len(octets) \in 1 .. 3
      BY <2>2, <3>1, SeptetsOf
    <3>3. Len(wire) = Len(octets) + Len(tail) /\ wire \in Seq(Octet) /\ Len(tail) \in Nat
      BY <2>1, <2>3, <2>4, ConcatProperties, LenProperties
    <3> QED BY <3>2, <3>3
  <2> QED BY <2>3, <2>6, <2>7, EveryReceived, EverySent, RequestRead
<1> QED BY <1>1, InvHolds, PTL
===============================================================================
