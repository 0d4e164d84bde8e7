---------------------------- MODULE Tools_proofs ----------------------------
(*****************************************************************************)
(* The tools: receivers of property updates, one process of a tool after     *)
(* another, and the frames of captures.                                      *)
(*                                                                           *)
(* Receivers, for any consumers, capacity and number of updates, and any     *)
(* order in which consumers replace one another: a consumer gets the updates *)
(* that come while it holds the channel of its property, in order, but for   *)
(* those that find the channel full.  The argument is that the holder of a   *)
(* channel has not ended, so that a gap behind the last update it has seen   *)
(* is explained too and stays so when the next one comes.                    *)
(*                                                                           *)
(* Processes: answers to earlier processes run out, for any number of        *)
(* processes up to that of the TIDs, any start-up, and any number of         *)
(* requests.  The argument counts.  What is on its way to or from the radio  *)
(* is at most what earlier processes left, one request each, and what this   *)
(* one has open; each answer taken from the line uses one up.  The line      *)
(* keeps order, so an answer of this process arrives when nothing stale is   *)
(* left, and fewer than NumTids stale answers cannot make it late by a       *)
(* cycle.                                                                    *)
(*                                                                           *)
(* IEEE 802.15.4 frames and captures, for any frames, octets and noise:      *)
(*   - a step of compute_fcs is eight steps of the division                  *)
(*     (OctetDivides); its result tells the octet where the number before    *)
(*     is known, and that number where the octet is (OctetBack,              *)
(*     TwoOctets), so that two runs that were apart never meet over the      *)
(*     same octets (RunsMeet), and no burst of two octets is missed          *)
(*     (BurstsAreCaught);                                                    *)
(*   - what a codec lays down one field behind the other, a reader finds     *)
(*     whose lengths are the same (LaidRead), and what lies between the      *)
(*     lengths it reads, written again, is what was there (FieldsAgain);     *)
(*   - AirInv: the octets on the air are those of a packet but for at most   *)
(*     two neighbours, and readers hold what they make of them;              *)
(*     CaptureInv: the reader of captures has found out which file it has    *)
(*     unless the first packet misled it.                                    *)
(*****************************************************************************)
EXTENDS SpinelTools, DumpPcap, Sequences_proofs, FiniteSetTheorems
-------------------------------------------------------------------------------
(* The receivers. *)

\* The head of a queue goes to the end of what was taken: nothing moves.
LEMMA TakeHead ==
  ASSUME NEW s \in Seq(Nat), NEW t \in Seq(Nat), t # <<>>
  PROVE  Append(s, Head(t)) \o Tail(t) = s \o t
  <1> DEFINE a == Append(s, Head(t))
  <1>1. Head(t) \in Nat /\ Tail(t) \in Seq(Nat) /\ Len(Tail(t)) = Len(t) - 1
        /\ \A i \in 1 .. Len(Tail(t)) : Tail(t)[i] = t[i + 1]
    BY HeadTailProperties
  <1>2. a \in Seq(Nat) /\ Len(a) = Len(s) + 1 /\ a[Len(s) + 1] = t[1]
        /\ \A i \in 1 .. Len(s) : a[i] = s[i]
    BY <1>1, AppendProperties
  <1>3. Len(s) \in Nat /\ Len(t) \in Nat \ {0}
    BY EmptySeq
  <1>4. a \o Tail(t) \in Seq(Nat) /\ Len(a \o Tail(t)) = Len(a) + Len(Tail(t))
        /\ \A i \in 1 .. Len(a) + Len(Tail(t)) :
              (a \o Tail(t))[i] = IF i <= Len(a) THEN a[i] ELSE Tail(t)[i - Len(a)]
    BY <1>1, <1>2, ConcatProperties
  <1>5. s \o t \in Seq(Nat) /\ Len(s \o t) = Len(s) + Len(t)
        /\ \A i \in 1 .. Len(s) + Len(t) :
              (s \o t)[i] = IF i <= Len(s) THEN s[i] ELSE t[i - Len(s)]
    BY ConcatProperties
  <1>6. ASSUME NEW i \in 1 .. Len(s) + Len(t) PROVE (a \o Tail(t))[i] = (s \o t)[i]
    <2>1. CASE i <= Len(s)
      BY <2>1, <1>1, <1>2, <1>3, <1>4, <1>5
    <2>2. CASE i = Len(s) + 1
      BY <2>2, <1>1, <1>2, <1>3, <1>4, <1>5
    <2>3. CASE i > Len(s) + 1
      <3>1. i - Len(a) \in 1 .. Len(Tail(t)) /\ (i - Len(a)) + 1 = i - Len(s)
        BY <2>3, <1>1, <1>2, <1>3
      <3>2. (a \o Tail(t))[i] = Tail(t)[i - Len(a)]
        BY <2>3, <1>1, <1>2, <1>3, <1>4
      <3>3. Tail(t)[i - Len(a)] = t[i - Len(s)]
        BY <3>1, <1>1
      <3> QED BY <2>3, <3>2, <3>3, <1>3, <1>5
    <2> QED BY <2>1, <2>2, <2>3, <1>3
  <1>7. Len(a \o Tail(t)) = Len(s \o t)
    BY <1>1, <1>2, <1>3, <1>4, <1>5
  <1> HIDE DEF a
  <1>8. a \o Tail(t) = s \o t
    BY <1>4, <1>5, <1>6, <1>7, SeqEqual
  <1> QED BY <1>8 DEF a

\* An update that is put at the end of the queue is the last one seen.
LEMMA SeeOneMore ==
  ASSUME NEW s \in Seq(Nat), NEW t \in Seq(Nat), NEW u \in Nat
  PROVE  /\ Len(s \o Append(t, u)) = Len(s \o t) + 1
         /\ (s \o Append(t, u))[Len(s \o t) + 1] = u
         /\ \A i \in 1 .. Len(s \o t) : (s \o Append(t, u))[i] = (s \o t)[i]
  <1> DEFINE b == Append(t, u)
  <1>1. b \in Seq(Nat) /\ Len(b) = Len(t) + 1 /\ b[Len(t) + 1] = u
        /\ \A i \in 1 .. Len(t) : b[i] = t[i]
    BY AppendProperties
  <1>2. Len(s) \in Nat /\ Len(t) \in Nat
    BY LenProperties
  <1>3. Len(s \o b) = Len(s) + Len(b)
        /\ \A i \in 1 .. Len(s) + Len(b) :
              (s \o b)[i] = IF i <= Len(s) THEN s[i] ELSE b[i - Len(s)]
    BY <1>1, ConcatProperties
  <1>4. Len(s \o t) = Len(s) + Len(t)
        /\ \A i \in 1 .. Len(s) + Len(t) :
              (s \o t)[i] = IF i <= Len(s) THEN s[i] ELSE t[i - Len(s)]
    BY ConcatProperties
  <1> HIDE DEF b
  <1>5. \A i \in 1 .. Len(s \o t) : (s \o b)[i] = (s \o t)[i]
    <2> TAKE i \in 1 .. Len(s \o t)
    <2>1. CASE i <= Len(s)
      BY <2>1, <1>1, <1>2, <1>3, <1>4
    <2>2. CASE i > Len(s)
      <3>1. i - Len(s) \in 1 .. Len(t)
        BY <2>2, <1>2, <1>4
      <3>2. ~(i <= Len(s)) /\ i \in 1 .. Len(s) + Len(b)
        BY <2>2, <1>1, <1>2, <1>4
      <3>3. (s \o b)[i] = b[i - Len(s)] /\ (s \o t)[i] = t[i - Len(s)]
        BY <3>2, <1>1, <1>2, <1>3, <1>4
      <3> QED BY <3>1, <3>3, <1>1
    <2>3. i <= Len(s) \/ i > Len(s)
      BY <1>2, <1>4
    <2> QED BY <2>1, <2>2, <2>3
  <1>6. (s \o b)[Len(s \o t) + 1] = u
    <2>1. Len(s \o t) + 1 \in 1 .. Len(s) + Len(b) /\ (Len(s \o t) + 1) - Len(s) = Len(t) + 1
      BY <1>1, <1>2, <1>4
    <2>2. ~(Len(s \o t) + 1 <= Len(s))
      BY <1>2, <1>4
    <2> QED BY <2>1, <2>2, <1>1, <1>3
  <1>7. Len(s \o b) = Len(s \o t) + 1
    BY <1>1, <1>2, <1>3, <1>4
  <1> QED BY <1>5, <1>6, <1>7 DEF b

LEMMA SeenType == ASSUME TypeOK, NEW c \in Consumers
                  PROVE  Seen(c) \in Seq(Nat) /\ Len(Seen(c)) \in Nat
                         /\ \A i \in 1 .. Len(Seen(c)) : Seen(c)[i] \in Nat
  <1>1. taken[c] \in Seq(Nat) /\ channel[c] \in Seq(Nat)
    BY DEF TypeOK
  <1>2. Seen(c) \in Seq(Nat)
    BY <1>1, ConcatProperties DEF Seen
  <1> QED BY <1>2, LenProperties, ElementOfSeq

LEMMA InitInv == Init => IInv
  <1> SUFFICES ASSUME Init PROVE IInv
    OBVIOUS
  <1>0. <<>> \in Seq(Nat) /\ <<>> \in Seq(Properties) /\ <<>> \in Seq(Holdings) /\ Len(<<>>) = 0
    BY EmptySeq
  <1>1. TypeOK
    BY <1>0 DEF Init, TypeOK
  <1>2. \A c \in Consumers : Seen(c) = <<>> /\ Len(Seen(c)) = 0 /\ ~Holds(c)
    <2> TAKE c \in Consumers
    <2>1. taken[c] = <<>> /\ channel[c] = <<>>
      BY DEF Init
    <2>2. <<>> \o <<>> = <<>>
      BY ConcatEmptySeq, EmptySeq
    <2>3. registered[Watched[c]] = {}
      BY WatchedAssumption DEF Init
    <2> QED BY <1>0, <2>1, <2>2, <2>3 DEF Seen, Holds
  <1>3. Registrations
    BY <1>2 DEF Registrations, Init
  <1>4. Len(held) = 0
    BY <1>0 DEF Init
  <1>5. SeenCame /\ GapsOnlyWhenFull
    BY <1>2, <1>4 DEF SeenCame, GapsOnlyWhenFull
  <1> QED BY <1>1, <1>3, <1>5 DEF IInv

\* The steps that add no update: what is seen stays, and who has ended has ended.
LEMMA QuietInv ==
  ASSUME IInv, TypeOK', Registrations', sent' = sent, held' = held,
         \A c \in Consumers : Seen(c)' = Seen(c),
         \A c \in Consumers : pc[c] = "ended" => pc'[c] = "ended"
  PROVE  IInv'
  <1>1. SeenCame'
    BY DEF IInv, SeenCame
  <1>2. ASSUME NEW c \in Consumers, NEW i, NEW u, Between(c, i, u)' PROVE Between(c, i, u)
    BY <1>2 DEF Between
  <1>3. GapsOnlyWhenFull'
    BY <1>2 DEF IInv, GapsOnlyWhenFull
  <1> QED BY <1>1, <1>3 DEF IInv

LEMMA RegisterInv == ASSUME IInv, NEW c \in Consumers, Register(c) PROVE IInv'
  <1>1. /\ pc' = [pc EXCEPT ![c] = "receiving"]
        /\ registered' = [registered EXCEPT ![Watched[c]] = {c}]
        /\ channel' = channel /\ sent' = sent /\ taken' = taken /\ held' = held
    BY DEF Register
  <1>2. TypeOK'
    BY <1>1, WatchedAssumption DEF IInv, TypeOK
  <1>3. \A d \in Consumers : Seen(d)' = Seen(d)
    BY <1>1 DEF Seen
  <1>4. \A d \in Consumers : (Holds(d)' => Holds(d) \/ d = c)
                             /\ (pc'[d] # pc[d] => d = c) /\ pc'[c] = "receiving" /\ pc[c] = "starting"
    BY <1>1, WatchedAssumption DEF Register, IInv, TypeOK, Holds
  <1>5. Registrations'
    <2>1. \A p \in Properties : \A d \in registered'[p] : p = Watched[d]
      BY <1>1 DEF IInv, TypeOK, Registrations
    <2> QED BY <2>1, <1>3, <1>4 DEF IInv, Registrations
  <1> QED BY <1>1, <1>2, <1>3, <1>4, <1>5, QuietInv

LEMMA ReceiveInv == ASSUME IInv, NEW c \in Consumers, Receive(c) PROVE IInv'
  <1>1. /\ channel[c] # <<>> /\ pc[c] = "receiving"
        /\ taken' = [taken EXCEPT ![c] = Append(taken[c], Head(channel[c]))]
        /\ channel' = [channel EXCEPT ![c] = Tail(channel[c])]
        /\ registered' = registered /\ pc' = pc /\ sent' = sent /\ held' = held
    BY DEF Receive
  <1>2. taken[c] \in Seq(Nat) /\ channel[c] \in Seq(Nat)
    BY DEF IInv, TypeOK
  <1>3. Append(taken[c], Head(channel[c])) \in Seq(Nat) /\ Tail(channel[c]) \in Seq(Nat)
    BY <1>1, <1>2, HeadTailProperties, AppendProperties
  <1>4. TypeOK'
    BY <1>1, <1>3 DEF IInv, TypeOK
  <1>5. \A d \in Consumers : Seen(d)' = Seen(d)
    <2> TAKE d \in Consumers
    <2>1. CASE d = c
      BY <2>1, <1>1, <1>2, TakeHead DEF Seen, IInv, TypeOK
    <2>2. CASE d # c
      BY <2>2, <1>1 DEF Seen, IInv, TypeOK
    <2> QED BY <2>1, <2>2
  <1>6. \A d \in Consumers : Holds(d)' = Holds(d)
    BY <1>1 DEF Holds
  <1>7. Registrations'
    BY <1>1, <1>5, <1>6 DEF IInv, Registrations
  <1> QED BY <1>1, <1>4, <1>5, <1>7, QuietInv

LEMMA EndInv == ASSUME IInv, NEW c \in Consumers, End(c) PROVE IInv'
  <1>1. /\ pc' = [pc EXCEPT ![c] = "ended"] /\ ~Holds(c)
        /\ registered' = registered /\ channel' = channel /\ sent' = sent /\ taken' = taken
        /\ held' = held
    BY DEF End, Holds
  <1>2. TypeOK'
    BY <1>1 DEF IInv, TypeOK
  <1>3. \A d \in Consumers : Seen(d)' = Seen(d) /\ Holds(d)' = Holds(d)
    BY <1>1 DEF Seen, Holds
  <1>4. \A d \in Consumers : pc'[d] = IF d = c THEN "ended" ELSE pc[d]
    BY <1>1 DEF IInv, TypeOK
  <1>5. Registrations'
    BY <1>1, <1>3, <1>4 DEF IInv, Registrations
  <1> QED BY <1>1, <1>2, <1>3, <1>4, <1>5, QuietInv

\* An update reaches the holder of the channel of its property, if there is room.
LEMMA UpdateInv == ASSUME IInv, NEW p \in Properties, Update(p) PROVE IInv'
  <1> DEFINE u == Len(sent) + 1
             Gets(c) == c \in registered[p] /\ Len(channel[c]) < Capacity
  <1>1. /\ sent' = Append(sent, p)
        /\ channel' = [c \in Consumers |-> IF c \in registered[p] THEN Push(c, u) ELSE channel[c]]
        /\ held' = Append(held, [c \in registered[p] |-> Len(taken[c])])
        /\ registered' = registered /\ pc' = pc /\ taken' = taken
    BY DEF Update
  <1>2. sent \in Seq(Properties) /\ Len(sent) \in Nat /\ u \in Nat
        /\ held \in Seq(Holdings) /\ Len(held) = Len(sent)
    BY LenProperties DEF IInv, TypeOK
  <1>3. /\ sent' \in Seq(Properties) /\ Len(sent') = u /\ sent'[u] = p
        /\ \A i \in 1 .. Len(sent) : sent'[i] = sent[i]
    BY <1>1, <1>2, AppendProperties
  <1>4. /\ held' \in Seq(Holdings) /\ Len(held') = u
        /\ \A v \in 1 .. Len(held) : held'[v] = held[v]
        /\ DOMAIN held'[u] = registered[p]
        /\ \A c \in registered[p] : held'[u][c] = Len(taken[c])
    <2> DEFINE new == [c \in registered[p] |-> Len(taken[c])]
    <2>1. registered[p] \in SUBSET Consumers /\ \A c \in Consumers : Len(taken[c]) \in Nat
      BY LenProperties DEF IInv, TypeOK
    <2>2. new \in [registered[p] -> Nat]
      BY <2>1
    <2>3. new \in Holdings
      BY <2>1, <2>2 DEF Holdings
    <2>4. DOMAIN new = registered[p] /\ \A c \in registered[p] : new[c] = Len(taken[c])
      OBVIOUS
    <2> HIDE DEF new
    <2>5. /\ Append(held, new) \in Seq(Holdings) /\ Len(Append(held, new)) = u
          /\ Append(held, new)[u] = new
          /\ \A v \in 1 .. Len(held) : Append(held, new)[v] = held[v]
      BY <2>3, <1>2, AppendProperties
    <2>6. held' = Append(held, new)
      BY <1>1 DEF new
    <2> QED BY <2>4, <2>5, <2>6
  <1>5. \A c \in Consumers : /\ taken[c] \in Seq(Nat) /\ channel[c] \in Seq(Nat)
                             /\ channel'[c] = IF Gets(c) THEN Append(channel[c], u) ELSE channel[c]
    BY <1>1 DEF Push, IInv, TypeOK
  <1> HIDE DEF u
  <1>6. TypeOK'
    <2>1. \A c \in Consumers : channel'[c] \in Seq(Nat)
      <3> TAKE c \in Consumers
      <3>1. Append(channel[c], u) \in Seq(Nat)
        BY <1>2, <1>5, AppendProperties
      <3> QED BY <3>1, <1>5
    <2>2. channel' \in [Consumers -> Seq(Nat)]
      BY <1>1, <2>1
    <2> QED BY <1>1, <1>3, <1>4, <2>2 DEF IInv, TypeOK
  <1>7. \A c \in Consumers : Gets(c) => p = Watched[c] /\ Holds(c)
    BY DEF IInv, TypeOK, Registrations, Holds
  <1>8. \A c \in Consumers : ~Gets(c) => Seen(c)' = Seen(c)
    BY <1>1, <1>5 DEF Seen
  <1>9. \A c \in Consumers : Gets(c) =>
          /\ Len(Seen(c)') = Len(Seen(c)) + 1
          /\ Seen(c)'[Len(Seen(c)) + 1] = u
          /\ \A i \in 1 .. Len(Seen(c)) : Seen(c)'[i] = Seen(c)[i]
    <2> TAKE c \in Consumers
    <2> HAVE Gets(c)
    <2>1. Seen(c)' = taken[c] \o Append(channel[c], u)
      BY <1>1, <1>5 DEF Seen
    <2>2. taken[c] \in Seq(Nat) /\ channel[c] \in Seq(Nat)
      BY <1>5
    <2>3. /\ Len(taken[c] \o Append(channel[c], u)) = Len(taken[c] \o channel[c]) + 1
          /\ (taken[c] \o Append(channel[c], u))[Len(taken[c] \o channel[c]) + 1] = u
          /\ \A i \in 1 .. Len(taken[c] \o channel[c]) :
                (taken[c] \o Append(channel[c], u))[i] = (taken[c] \o channel[c])[i]
      BY <2>2, <1>2, SeeOneMore
    <2>4. Seen(c) = taken[c] \o channel[c]
      BY DEF Seen
    <2> QED BY <2>1, <2>3, <2>4
  <1>10. \A c \in Consumers : Holds(c)' = Holds(c)
    BY <1>1 DEF Holds
  <1>11. Registrations'
    <2>1. \A c \in Consumers : pc[c] # "receiving" => ~Gets(c)
      BY <1>7 DEF IInv, Registrations
    <2> QED BY <1>1, <1>8, <1>10, <2>1 DEF IInv, Registrations
  <1>12. \A c \in Consumers : /\ Len(Seen(c)) \in Nat
                              /\ \A i \in 1 .. Len(Seen(c)) : Seen(c)[i] \in Nat
    BY SeenType DEF IInv
  <1> HIDE DEF Gets
  <1>13. SeenCame' /\ \A c \in Consumers : \A i \in 1 .. Len(Seen(c)') : sent'[Seen(c)'[i]] = Watched[c]
    <2> SUFFICES ASSUME NEW c \in Consumers, NEW i \in 1 .. Len(Seen(c)')
                 PROVE  Seen(c)'[i] \in 1 .. Len(sent') /\ sent'[Seen(c)'[i]] = Watched[c]
      BY DEF SeenCame
    <2>1. \A j \in 1 .. Len(Seen(c)) :
             Seen(c)[j] \in 1 .. Len(sent) /\ sent[Seen(c)[j]] = Watched[c]
      BY DEF IInv, SeenCame, GapsOnlyWhenFull
    <2>2. \A j \in 1 .. Len(Seen(c)) :
             Seen(c)[j] \in 1 .. Len(sent') /\ sent'[Seen(c)[j]] = Watched[c]
      BY <2>1, <1>2, <1>3 DEF u
    <2>3. CASE ~Gets(c)
      BY <2>2, <2>3, <1>8
    <2>4. CASE Gets(c) /\ i = Len(Seen(c)) + 1
      BY <2>4, <1>2, <1>3, <1>7, <1>9 DEF u
    <2>5. CASE Gets(c) /\ i # Len(Seen(c)) + 1
      <3>1. i \in 1 .. Len(Seen(c))
        BY <2>5, <1>9, <1>12
      <3> QED BY <3>1, <2>2, <2>5, <1>9
    <2> QED BY <2>3, <2>4, <2>5
  <1>14. ASSUME NEW c \in Consumers, c \in registered[p], ~Gets(c)
         PROVE  Len(Seen(c)) >= held'[u][c] + Capacity
    <2> DEFINE l == Len(taken[c])
               m == Len(channel[c])
    <2>1. l \in Nat /\ m \in Nat /\ Len(Seen(c)) = l + m
      BY <1>5, LenProperties, ConcatProperties DEF Seen
    <2>2. ~(m < Capacity)
      BY <1>14 DEF Gets
    <2>3. held'[u][c] = l
      <3>1. c \in registered[p] /\ \A d \in registered[p] : held'[u][d] = Len(taken[d])
        BY <1>14, <1>4
      <3> QED BY <3>1
    <2> HIDE DEF l, m
    <2>4. l + m >= l + Capacity
      BY <2>1, <2>2, CapacityAssumption
    <2> QED BY <2>1, <2>3, <2>4
  <1>15. ASSUME NEW c \in Consumers, NEW i \in 1 .. Len(Seen(c)') - 1
         PROVE  Seen(c)'[i] < Seen(c)'[i + 1]
    <2>0. Len(Seen(c)') \in Nat /\ i \in 1 .. Len(Seen(c)') /\ i + 1 \in 1 .. Len(Seen(c)')
      <3>1. Len(Seen(c)') \in Nat
        BY <1>8, <1>9, <1>12
      <3> QED BY <3>1
    <2>1. CASE ~Gets(c)
      BY <2>1, <1>8 DEF IInv, GapsOnlyWhenFull
    <2>2. CASE Gets(c) /\ i + 1 # Len(Seen(c)')
      <3>1. i \in 1 .. Len(Seen(c)) - 1 /\ i \in 1 .. Len(Seen(c)) /\ i + 1 \in 1 .. Len(Seen(c))
        BY <2>0, <2>2, <1>9, <1>12
      <3>2. Seen(c)'[i] = Seen(c)[i] /\ Seen(c)'[i + 1] = Seen(c)[i + 1]
        BY <3>1, <2>2, <1>9
      <3> QED BY <3>1, <3>2 DEF IInv, GapsOnlyWhenFull
    <2>3. CASE Gets(c) /\ i + 1 = Len(Seen(c)')
      <3>1. i = Len(Seen(c)) /\ i \in 1 .. Len(Seen(c))
        BY <2>0, <2>3, <1>9, <1>12
      <3>2. Seen(c)'[i] = Seen(c)[i] /\ Seen(c)'[i + 1] = u
        BY <3>1, <2>3, <1>9
      <3>3. Seen(c)[i] \in 1 .. Len(sent)
        BY <3>1 DEF IInv, SeenCame
      <3> QED BY <3>2, <3>3, <1>2 DEF u
    <2> QED BY <2>1, <2>2, <2>3
  <1>16. ASSUME NEW c \in Consumers, NEW i \in 0 .. Len(Seen(c)'), NEW v \in 1 .. Len(held'),
                c \in DOMAIN held'[v], Between(c, i, v)'
         PROVE  i >= held'[v][c] + Capacity
    <2>0. Len(Seen(c)) \in Nat /\ i \in Nat /\ v \in Nat
      BY <1>12
    <2>1. CASE v # u /\ ~Gets(c)
      <3>1. v \in 1 .. Len(held) /\ held'[v] = held[v] /\ Seen(c)' = Seen(c)
        BY <2>1, <1>2, <1>8, <1>4 DEF u
      <3>2. Between(c, i, v)
        BY <3>1, <1>1, <1>16 DEF Between
      <3> QED BY <3>1, <3>2, <1>16 DEF IInv, GapsOnlyWhenFull
    <2>2. CASE v # u /\ Gets(c)
      <3>1. v \in 1 .. Len(held) /\ held'[v] = held[v] /\ v < u
        BY <2>2, <1>2, <1>4 DEF u
      <3>2. pc[c] # "ended"
        BY <2>2, <1>7 DEF IInv, Registrations
      <3>3. i # Len(Seen(c)) + 1
        <4> SUFFICES ASSUME i = Len(Seen(c)) + 1 PROVE FALSE
          OBVIOUS
        <4>1. Seen(c)'[i] = u /\ i > 0
          BY <2>0, <2>2, <1>9
        <4> QED BY <4>1, <3>1, <1>16, <1>2, <2>0 DEF Between
      <3>4. i \in 0 .. Len(Seen(c))
        BY <3>3, <2>0, <2>2, <1>9
      <3>5. Between(c, i, v)
        <4>1. i > 0 => Seen(c)[i] < v
          <5> SUFFICES ASSUME i > 0 PROVE Seen(c)[i] < v
            OBVIOUS
          <5>1. i \in 1 .. Len(Seen(c))
            BY <3>4, <2>0
          <5>2. Seen(c)'[i] = Seen(c)[i]
            BY <5>1, <2>2, <1>9
          <5> QED BY <5>2, <1>16 DEF Between
        <4>2. i < Len(Seen(c)) => v < Seen(c)[i + 1]
          <5> SUFFICES ASSUME i < Len(Seen(c)) PROVE v < Seen(c)[i + 1]
            OBVIOUS
          <5>1. i + 1 \in 1 .. Len(Seen(c))
            BY <2>0
          <5>2. Seen(c)'[i + 1] = Seen(c)[i + 1] /\ i < Len(Seen(c)')
            BY <5>1, <2>0, <2>2, <1>9
          <5> QED BY <5>2, <1>16 DEF Between
        <4> QED BY <4>1, <4>2, <3>2 DEF Between
      <3> QED BY <3>1, <3>4, <3>5, <1>16 DEF IInv, GapsOnlyWhenFull
    <2>3. CASE v = u /\ Gets(c)
      <3>1. CASE i = Len(Seen(c)) + 1
        <4>1. Seen(c)'[i] = u /\ i > 0
          BY <3>1, <2>0, <2>3, <1>9
        <4> QED BY <4>1, <2>3, <1>16, <1>2 DEF Between
      <3>2. CASE i = Len(Seen(c))
        <4>1. Seen(c)'[i + 1] = u /\ i < Len(Seen(c)')
          BY <3>2, <2>0, <2>3, <1>9
        <4> QED BY <4>1, <2>3, <1>16, <1>2 DEF Between
      <3>3. CASE i < Len(Seen(c))
        <4>1. i + 1 \in 1 .. Len(Seen(c)) /\ i < Len(Seen(c)')
          BY <3>3, <2>0, <2>3, <1>9
        <4>2. Seen(c)'[i + 1] = Seen(c)[i + 1] /\ Seen(c)[i + 1] \in 1 .. Len(sent)
          BY <4>1, <2>3, <1>9 DEF IInv, SeenCame
        <4> QED BY <4>1, <4>2, <2>3, <1>2, <1>16 DEF Between, u
      <3> QED BY <3>1, <3>2, <3>3, <2>0, <2>3, <1>9
    <2>4. CASE v = u /\ ~Gets(c)
      <3>0. c \in DOMAIN held'[u] /\ DOMAIN held'[u] = registered[p]
        BY <2>4, <1>16, <1>4
      <3>1. Seen(c)' = Seen(c) /\ c \in registered[p]
        BY <2>4, <3>0, <1>8
      <3>2. CASE i = Len(Seen(c))
        BY <3>1, <3>2, <2>4, <1>14
      <3>3. CASE i < Len(Seen(c))
        <4>1. i + 1 \in 1 .. Len(Seen(c))
          BY <3>3, <2>0
        <4>2. Seen(c)[i + 1] \in 1 .. Len(sent)
          BY <4>1 DEF IInv, SeenCame
        <4> QED BY <4>2, <3>1, <3>3, <2>4, <1>2, <1>16 DEF Between, u
      <3> QED BY <3>1, <3>2, <3>3, <2>0
    <2> QED BY <2>1, <2>2, <2>3, <2>4
  <1>17. GapsOnlyWhenFull'
    BY <1>13, <1>15, <1>16 DEF GapsOnlyWhenFull
  <1> QED BY <1>6, <1>11, <1>13, <1>17 DEF IInv

LEMMA StutterInv == ASSUME IInv, UNCHANGED vars PROVE IInv'
  <1>1. registered' = registered /\ channel' = channel /\ pc' = pc /\ sent' = sent /\ taken' = taken
        /\ held' = held
    BY DEF vars
  <1>2. TypeOK'
    BY <1>1 DEF IInv, TypeOK
  <1>3. \A c \in Consumers : Seen(c)' = Seen(c) /\ Holds(c)' = Holds(c)
    BY <1>1 DEF Seen, Holds
  <1>4. Registrations'
    BY <1>1, <1>3 DEF IInv, Registrations
  <1> QED BY <1>1, <1>2, <1>3, <1>4, QuietInv

\* The invariant of registrations and channels: who holds a channel receives from
\* it, what it has seen has come, and what it has not seen found the channel full
\* (set_property_update_receiver, try_send).
THEOREM Bookkeeping == Spec => []IInv
  <1>1. Init => IInv
    BY InitInv
  <1>2. IInv /\ [Next]_vars => IInv'
    <2> SUFFICES ASSUME IInv, [Next]_vars PROVE IInv'
      OBVIOUS
    <2>1. CASE \E c \in Consumers : Register(c) \/ Receive(c) \/ End(c)
      BY <2>1, RegisterInv, ReceiveInv, EndInv
    <2>2. CASE \E p \in Properties : Update(p)
      BY <2>2, UpdateInv
    <2>3. CASE UNCHANGED vars
      BY <2>3, StutterInv
    <2> QED BY <2>1, <2>2, <2>3 DEF Next
  <1> QED BY <1>1, <1>2, PTL DEF Spec

\* A consumer gets every update that comes while it holds the channel, but for those
\* that find Capacity updates given to it that it has not taken: for any capacity and
\* however receivers replace one another (spinel.rs:585).
THEOREM NoOtherGap == Spec => []GapsOnlyWhenFull
  <1>1. IInv => GapsOnlyWhenFull
    BY DEF IInv
  <1> QED BY <1>1, Bookkeeping, PTL

-------------------------------------------------------------------------------
(* The tools. *)

\* Who asked, and the how-manieth of its requests it was.
Mark == Nat \X Nat

Requests == [tid : 1 .. NumTids, from : Mark, enables : BOOLEAN]
UpdateFrames == [tid : {0}, property : Properties]

ToolsTypeOK ==
    /\ process \in Nat \ {0}
    /\ tool \in {"capture", "sender"}
    /\ state \in {"calling", "prepared", "waiting", "listening", "stopped"}
    /\ asked \in Nat
    /\ answers \in Seq(Mark)
    /\ nextTid \in 1 .. NumTids
    /\ pending \in 0 .. NumTids
    /\ requests \in Seq(Requests)
    /\ line \in Seq(Requests \cup UpdateFrames)

\* Answers and requests on their way, and whose they are.
AnswersOnLine == {i \in DOMAIN line : line[i].tid # 0}
Frames == {line[i] : i \in AnswersOnLine} \cup {requests[i] : i \in DOMAIN requests}
Marks == {f.from : f \in Frames}
Stale == {m \in Marks : m[1] < process}

Before(m, n) == m[1] < n[1] \/ (m[1] = n[1] /\ m[2] < n[2])

\* The line and the radio keep order.
InOrder ==
    /\ \A i, j \in AnswersOnLine : i < j => Before(line[i].from, line[j].from)
    /\ \A i \in AnswersOnLine, j \in DOMAIN requests : Before(line[i].from, requests[j].from)
    /\ \A i, j \in DOMAIN requests : i < j => Before(requests[i].from, requests[j].from)

\* The TID handed out k requests ago.
Back(k) == IF nextTid > k THEN nextTid - k ELSE nextTid - k + NumTids

\* The last request prepared is open, or all are answered.
OpenInv ==
    /\ asked \in {Len(answers), Len(answers) + 1}
    /\ state # "stopped" => (pending = IF Len(answers) = asked THEN 0 ELSE LastTid)
    /\ state \in {"calling", "listening"} => Len(answers) = asked
    /\ state = "prepared" => asked > 0

FramesInv ==
    \A f \in Frames :
        /\ f.from[1] <= process
        /\ f.from[1] = process =>
              /\ f.from[2] \in 1 .. asked
              /\ asked - f.from[2] < NumTids => f.tid = Back(asked - f.from[2] + 1)
              /\ state = "prepared" => f.from[2] < asked

Unwritten == IF state = "prepared" THEN 1 ELSE 0

CountInv ==
    /\ IsFiniteSet(Marks)
    /\ Cardinality(Marks) + Unwritten <= process - 1 + asked - Len(answers)

\* The first c answers were stale, and there are c fewer of those.
Deceived(c) ==
    /\ \A n \in 1 .. Len(answers) :
          IF n <= c THEN answers[n][1] < process ELSE answers[n] = <<process, n>>
    /\ Cardinality(Stale) + c <= process - 1
    /\ c < Len(answers) =>
          /\ \A f \in Frames : f.from[1] = process /\ f.from[2] > Len(answers)
          /\ state = "prepared" => asked > Len(answers)

DeceivedInv == process <= NumTids => \E c \in 0 .. Len(answers) : Deceived(c)

ToolsIInv ==
    /\ ToolsTypeOK /\ InOrder /\ OpenInv /\ FramesInv /\ CountInv /\ DeceivedInv
------------------------------------------------------------------------------
(* The line *)

USE TidsAssumption, ToolsAssumption

\* A radio frame that leaves the line was before all that remain on it.
LEMMA HeadLeaves ==
    ASSUME ToolsTypeOK, InOrder, line # <<>>, line' = Tail(line), requests' = requests
    PROVE  /\ InOrder'
           /\ Frames' \subseteq Frames
           /\ Head(line).tid # 0 => /\ Head(line) \in Frames
                                    /\ \A g \in Frames' : Before(Head(line).from, g.from)
<1>1. /\ line \in Seq(Requests \cup UpdateFrames)
      /\ Len(line) \in Nat \ {0} /\ Len(line') = Len(line) - 1 /\ Head(line) = line[1]
      /\ DOMAIN line = 1 .. Len(line) /\ DOMAIN line' = 1 .. Len(line')
      /\ \A i \in 1 .. Len(line') : line'[i] = line[i + 1]
  BY DEF ToolsTypeOK
<1>2. /\ AnswersOnLine' = {i \in DOMAIN line' : line'[i].tid # 0}
      /\ \A i \in AnswersOnLine' : i \in Nat /\ i + 1 \in AnswersOnLine /\ line'[i] = line[i + 1] /\ 1 < i + 1
  BY <1>1 DEF AnswersOnLine
<1>3. InOrder'
  <2>1. ASSUME NEW i \in AnswersOnLine', NEW j \in AnswersOnLine', i < j
        PROVE  Before(line'[i].from, line'[j].from)
    <3>1. i + 1 \in AnswersOnLine /\ j + 1 \in AnswersOnLine /\ i + 1 < j + 1
      BY <1>2, <2>1
    <3> QED BY <1>2, <3>1 DEF InOrder
  <2>2. ASSUME NEW i \in AnswersOnLine', NEW j \in DOMAIN requests'
        PROVE  Before(line'[i].from, requests'[j].from)
    BY <1>2 DEF InOrder
  <2> QED BY <2>1, <2>2 DEF InOrder
<1>4. Frames' \subseteq Frames
  BY <1>2 DEF Frames
<1>5. ASSUME Head(line).tid # 0
      PROVE  /\ Head(line) \in Frames
             /\ \A g \in Frames' : Before(Head(line).from, g.from)
  <2>1. 1 \in AnswersOnLine
    BY <1>1, <1>5 DEF AnswersOnLine
  <2>2. SUFFICES ASSUME NEW g \in Frames' PROVE Before(Head(line).from, g.from)
    BY <1>1, <2>1 DEF Frames
  <2>3. CASE \E i \in AnswersOnLine' : g = line'[i]
    BY <1>1, <1>2, <2>1, <2>3 DEF InOrder
  <2>4. CASE \E i \in DOMAIN requests : g = requests[i]
    BY <1>1, <2>1, <2>4 DEF InOrder
  <2> QED BY <2>2, <2>3, <2>4 DEF Frames
<1> QED BY <1>3, <1>4, <1>5

LEMMA RequestLost ==
    ASSUME ToolsTypeOK, InOrder, LoseRequest
    PROVE  InOrder' /\ Frames' \subseteq Frames
<1>1. /\ requests \in Seq(Requests) /\ line' = line
      /\ Len(requests) \in Nat \ {0} /\ Len(requests') = Len(requests) - 1
      /\ DOMAIN requests = 1 .. Len(requests) /\ DOMAIN requests' = 1 .. Len(requests')
      /\ \A i \in 1 .. Len(requests') : requests'[i] = requests[i + 1]
  BY DEF ToolsTypeOK, LoseRequest
<1>2. /\ AnswersOnLine' = AnswersOnLine
      /\ \A i \in DOMAIN requests' : i \in Nat /\ i + 1 \in DOMAIN requests /\ requests'[i] = requests[i + 1]
  BY <1>1 DEF AnswersOnLine
<1>3. Frames' \subseteq Frames
  BY <1>1, <1>2 DEF Frames
<1>4. ASSUME NEW i \in DOMAIN requests', NEW j \in DOMAIN requests', i < j
      PROVE  Before(requests'[i].from, requests'[j].from)
  BY <1>2, <1>4 DEF InOrder
<1>5. ASSUME NEW i \in AnswersOnLine', NEW j \in DOMAIN requests'
      PROVE  Before(line'[i].from, requests'[j].from)
  BY <1>1, <1>2 DEF InOrder
<1> QED BY <1>1, <1>2, <1>3, <1>4, <1>5 DEF InOrder

LEMMA RequestAnswered ==
    ASSUME ToolsTypeOK, InOrder, Answer
    PROVE  InOrder' /\ Frames' \subseteq Frames
<1> DEFINE n == Len(line) + 1
<1>1. /\ requests \in Seq(Requests)
      /\ Len(requests) \in Nat \ {0} /\ Len(requests') = Len(requests) - 1
      /\ DOMAIN requests = 1 .. Len(requests) /\ DOMAIN requests' = 1 .. Len(requests')
      /\ \A i \in 1 .. Len(requests') : requests'[i] = requests[i + 1]
      /\ Head(requests) = requests[1] /\ requests[1] \in Requests
  BY DEF ToolsTypeOK, Answer
<1>2. /\ line \in Seq(Requests \cup UpdateFrames) /\ Len(line) \in Nat
      /\ DOMAIN line = 1 .. Len(line) /\ DOMAIN line' = 1 .. n
      /\ line'[n] = requests[1] /\ \A i \in 1 .. Len(line) : line'[i] = line[i]
  BY <1>1 DEF ToolsTypeOK, Answer
<1>3. requests[1].tid # 0
  BY <1>1 DEF Requests
<1>4. /\ AnswersOnLine' = AnswersOnLine \cup {n}
      /\ \A i \in AnswersOnLine : i \in 1 .. Len(line) /\ i < n /\ line'[i] = line[i]
  BY <1>2, <1>3 DEF AnswersOnLine
<1>5. /\ 1 \in DOMAIN requests
      /\ \A i \in DOMAIN requests' : i \in Nat /\ i + 1 \in DOMAIN requests /\ 1 < i + 1 /\ requests'[i] = requests[i + 1]
  BY <1>1
<1>6. Frames' \subseteq Frames
  BY <1>2, <1>4, <1>5 DEF Frames
<1>7. ASSUME NEW i \in AnswersOnLine', NEW j \in AnswersOnLine', i < j
      PROVE  Before(line'[i].from, line'[j].from)
  <2>1. i \in AnswersOnLine
    BY <1>2, <1>4, <1>7
  <2> QED BY <1>2, <1>4, <1>5, <1>7, <2>1 DEF InOrder
<1>8. ASSUME NEW i \in AnswersOnLine', NEW j \in DOMAIN requests'
      PROVE  Before(line'[i].from, requests'[j].from)
  BY <1>2, <1>4, <1>5 DEF InOrder
<1>9. ASSUME NEW i \in DOMAIN requests', NEW j \in DOMAIN requests', i < j
      PROVE  Before(requests'[i].from, requests'[j].from)
  BY <1>5, <1>9 DEF InOrder
<1> QED BY <1>6, <1>7, <1>8, <1>9 DEF InOrder

LEMMA UpdateSent ==
    ASSUME ToolsTypeOK, InOrder, NEW p \in Properties, Emit(p)
    PROVE  InOrder' /\ Frames' \subseteq Frames
<1> DEFINE n == Len(line) + 1
<1>1. /\ line \in Seq(Requests \cup UpdateFrames) /\ Len(line) \in Nat
      /\ DOMAIN line = 1 .. Len(line) /\ DOMAIN line' = 1 .. n
      /\ line'[n].tid = 0 /\ \A i \in 1 .. Len(line) : line'[i] = line[i]
      /\ requests' = requests
  BY DEF ToolsTypeOK, Emit
<1>2. /\ AnswersOnLine' = AnswersOnLine
      /\ \A i \in AnswersOnLine : line'[i] = line[i]
  BY <1>1 DEF AnswersOnLine
<1> QED BY <1>1, <1>2 DEF InOrder, Frames

\* What is written comes after everything on its way.
LEMMA RequestWritten ==
    ASSUME ToolsTypeOK, InOrder, NEW r \in Requests,
           \A f \in Frames : Before(f.from, r.from),
           requests' = Append(requests, r), line' = line
    PROVE  InOrder' /\ Frames' = Frames \cup {r}
<1> DEFINE n == Len(requests) + 1
<1>1. /\ requests \in Seq(Requests) /\ Len(requests) \in Nat
      /\ DOMAIN requests = 1 .. Len(requests) /\ DOMAIN requests' = 1 .. n
      /\ requests'[n] = r /\ \A i \in 1 .. Len(requests) : requests'[i] = requests[i]
  BY DEF ToolsTypeOK
<1>2. /\ AnswersOnLine' = AnswersOnLine
      /\ DOMAIN requests' = DOMAIN requests \cup {n}
      /\ \A i \in DOMAIN requests : i < n /\ requests'[i] = requests[i]
  BY <1>1 DEF AnswersOnLine
<1>3. Frames' = Frames \cup {r}
  BY <1>1, <1>2 DEF Frames
<1>4. /\ \A i \in AnswersOnLine : Before(line[i].from, r.from)
      /\ \A i \in DOMAIN requests : Before(requests[i].from, r.from)
  BY DEF Frames
<1>5. ASSUME NEW i \in DOMAIN requests', NEW j \in DOMAIN requests', i < j
      PROVE  Before(requests'[i].from, requests'[j].from)
  <2>1. i \in DOMAIN requests
    BY <1>1, <1>2, <1>5
  <2> QED BY <1>1, <1>2, <1>4, <1>5, <2>1 DEF InOrder
<1>6. ASSUME NEW i \in AnswersOnLine', NEW j \in DOMAIN requests'
      PROVE  Before(line'[i].from, requests'[j].from)
  BY <1>1, <1>2, <1>4 DEF InOrder
<1> QED BY <1>2, <1>3, <1>5, <1>6 DEF InOrder

\* Every frame on its way bears a TID and a mark.
LEMMA FramesType ==
    ASSUME ToolsTypeOK
    PROVE  Frames \subseteq Requests /\ Marks \subseteq Mark /\ Stale \subseteq Marks
<1>1. ASSUME NEW i \in AnswersOnLine PROVE line[i] \in Requests
  BY DEF ToolsTypeOK, AnswersOnLine, UpdateFrames
<1>2. ASSUME NEW i \in DOMAIN requests PROVE requests[i] \in Requests
  BY DEF ToolsTypeOK
<1>3. Frames \subseteq Requests
  BY <1>1, <1>2 DEF Frames
<1> QED BY <1>3 DEF Marks, Stale, Requests
------------------------------------------------------------------------------
(* The client *)

\* What leaves the line or the radio leaves no more than there was.
LEMMA FewerMarks ==
    ASSUME IsFiniteSet(Marks), Frames' \subseteq Frames
    PROVE  /\ Marks' \subseteq Marks
           /\ IsFiniteSet(Marks')
           /\ Cardinality(Marks) \in Nat /\ Cardinality(Marks') \in Nat
           /\ Cardinality(Marks') <= Cardinality(Marks)
<1>1. Marks' \subseteq Marks
  BY DEF Marks
<1> QED BY <1>1, FS_Subset, FS_CardinalityType

LEMMA StaleIsFinite ==
    ASSUME IsFiniteSet(Marks)
    PROVE  IsFiniteSet(Stale) /\ Cardinality(Stale) \in Nat
<1>1. Stale \in SUBSET Marks
  BY DEF Stale
<1> QED BY <1>1, FS_Subset, FS_CardinalityType

\* Steps that neither prepare nor write a request, nor answer one.
LEMMA NothingNew ==
    ASSUME ToolsIInv, UNCHANGED <<process, asked, answers, nextTid>>,
           Frames' \subseteq Frames, state' = "prepared" => state = "prepared"
    PROVE  FramesInv' /\ CountInv' /\ DeceivedInv'
<1> USE DEF ToolsIInv
<1>1. FramesInv'
  BY DEF FramesInv, Back
<1>2. CountInv'
  <2>1. Unwritten' <= Unwritten /\ Unwritten \in Nat /\ Unwritten' \in Nat
    BY DEF Unwritten
  <2>2. process \in Nat /\ asked \in Nat /\ Len(answers) \in Nat
    BY DEF ToolsTypeOK
  <2> QED BY <2>1, <2>2, FewerMarks DEF CountInv
<1>3. DeceivedInv'
  <2> SUFFICES ASSUME process <= NumTids PROVE \E c \in 0 .. Len(answers) : Deceived(c)'
    BY DEF DeceivedInv
  <2>1. PICK c \in 0 .. Len(answers) : Deceived(c)
    BY DEF DeceivedInv
  <2>2. Stale' \in SUBSET Stale /\ IsFiniteSet(Stale)
    BY FewerMarks, StaleIsFinite DEF CountInv, Stale
  <2>3. Cardinality(Stale') <= Cardinality(Stale) /\ Cardinality(Stale') \in Nat /\ Cardinality(Stale) \in Nat
    BY <2>2, FS_Subset, FS_CardinalityType
  <2>4. process \in Nat /\ c \in Nat
    BY DEF ToolsTypeOK
  <2>5. Cardinality(Stale') + c <= process' - 1
    BY <2>1, <2>3, <2>4 DEF Deceived
  <2> QED BY <2>1, <2>5 DEF Deceived
<1> QED BY <1>1, <1>2, <1>3

\* `1 + nextTid % 7` in prepare_request walks 1 .. NumTids and wraps.
LEMMA NextTidWraps ==
    ASSUME NEW t \in 1 .. NumTids
    PROVE  1 + (t % NumTids) = IF t = NumTids THEN 1 ELSE t + 1
<1>1. CASE t = NumTids
  <2>1. t % NumTids = 0  BY <1>1
  <2> QED BY <1>1, <2>1
<1>2. CASE t # NumTids
  <2>1. t % NumTids = t  BY <1>2
  <2> QED BY <1>2, <2>1
<1> QED BY <1>1, <1>2

LEMMA TypesAndOpen ==
    ASSUME ToolsTypeOK, OpenInv, ToolsNext
    PROVE  ToolsTypeOK' /\ OpenInv'
<1> USE DEF ToolsTypeOK, clientVars, processVars, radioVars
<1>0. LastTid \in 1 .. NumTids /\ Len(answers) \in Nat
  BY DEF LastTid
<1>1. CASE Prepare
  <2>1. nextTid' = IF nextTid = NumTids THEN 1 ELSE nextTid + 1
    BY <1>1, NextTidWraps DEF Prepare
  <2>2. nextTid' \in 1 .. NumTids /\ LastTid' = nextTid
    BY <2>1 DEF LastTid
  <2> QED BY <1>1, <2>2 DEF Prepare, OpenInv
<1>2. CASE Write
  <2> DEFINE r == [tid |-> LastTid, from |-> <<process, asked>>,
                   enables |-> asked <= Len(Startup[tool]) /\ Startup[tool][asked] = "MacRawStreamEnabled"]
  <2>0. r \in Requests
    BY <1>0 DEF Requests, Mark
  <2>1. requests' \in Seq(Requests)
    <3>1. requests' \in {Append(requests, r), requests}
      BY <1>2 DEF Write
    <3> HIDE DEF r
    <3>2. Append(requests, r) \in Seq(Requests)
      BY <2>0, AppendProperties
    <3> QED BY <3>1, <3>2
  <2> QED BY <1>2, <2>1 DEF Write, OpenInv, LastTid
<1>3. CASE WriteFails
  BY <1>3 DEF WriteFails, OpenInv, LastTid
<1>4. CASE Return
  BY <1>4 DEF Return, OpenInv, LastTid, HasAnswer
<1>5. CASE Timeout
  BY <1>5 DEF Timeout, OpenInv
<1>6. CASE Deliver
  <2>1. /\ Head(line) \in Requests \cup UpdateFrames
        /\ line' \in Seq(Requests \cup UpdateFrames)
        /\ UNCHANGED <<state, process, tool, requests>> /\ state # "stopped"
    BY <1>6 DEF Deliver, IsUp
  <2>2. CASE UNCHANGED clientVars
    BY <2>1, <2>2 DEF OpenInv, LastTid
  <2>3. CASE /\ Head(line).tid = pending /\ pending # 0 /\ pending' = 0
             /\ answers' = Append(answers, Head(line).from) /\ UNCHANGED <<asked, nextTid>>
    <3>1. Head(line).from \in Mark
      BY <2>1, <2>3 DEF Requests, UpdateFrames
    <3>2. answers' \in Seq(Mark) /\ Len(answers') = Len(answers) + 1
      BY <2>3, <3>1
    <3>3. asked = Len(answers) + 1
      BY <2>1, <2>3 DEF OpenInv
    <3> QED BY <1>0, <2>1, <2>3, <3>2, <3>3 DEF OpenInv, LastTid
  <2> QED BY <1>6, <2>2, <2>3 DEF Deliver
<1>7. CASE ReaderStop
  BY <1>7 DEF ReaderStop, OpenInv, LastTid
<1>8. CASE Listen
  BY <1>8 DEF Listen, OpenInv, LastTid
<1>9. CASE Take
  BY <1>9 DEF Take, OpenInv, LastTid
<1>10. CASE Interrupt
  BY <1>10 DEF Interrupt, OpenInv, LastTid
<1>11. CASE Restart
  <2>1. tool' \in {"capture", "sender"} /\ nextTid' \in 1 .. NumTids
    BY <1>11 DEF Restart, Startup
  <2>2. line' \in Seq(Requests \cup UpdateFrames)
    <3>1. line' = line \/ line' = <<>>
      BY <1>11 DEF Restart
    <3>2. <<>> \in Seq(Requests \cup UpdateFrames)
      BY EmptySeq
    <3> QED BY <3>1, <3>2
  <2> QED BY <1>11, <2>1, <2>2 DEF Restart, OpenInv
<1>12. CASE Answer
  BY <1>12 DEF Answer, OpenInv, LastTid
<1>13. CASE \E p \in Properties : Emit(p)
  BY <1>13 DEF Emit, OpenInv, LastTid, UpdateFrames
<1>14. CASE LoseRequest
  BY <1>14 DEF LoseRequest, OpenInv, LastTid
<1>15. CASE LoseFrame
  BY <1>15 DEF LoseFrame, OpenInv, LastTid
<1> QED BY <1>1, <1>2, <1>3, <1>4, <1>5, <1>6, <1>7, <1>8, <1>9, <1>10, <1>11, <1>12, <1>13,
           <1>14, <1>15 DEF ToolsNext

LEMMA PrepareInv ==
    ASSUME ToolsIInv, Prepare
    PROVE  InOrder' /\ FramesInv' /\ CountInv' /\ DeceivedInv'
<1> USE DEF ToolsIInv
<1>1. /\ UNCHANGED <<process, answers, requests, line>> /\ asked' = asked + 1
      /\ state = "calling" /\ state' = "prepared"
      /\ nextTid' = IF nextTid = NumTids THEN 1 ELSE nextTid + 1
  BY NextTidWraps DEF ToolsTypeOK, Prepare, processVars, radioVars
<1>2. AnswersOnLine' = AnswersOnLine /\ Frames' = Frames /\ Marks' = Marks /\ Stale' = Stale
  BY <1>1 DEF AnswersOnLine, Frames, Marks, Stale
<1>3. InOrder'
  BY <1>1, <1>2 DEF InOrder
<1>4. process \in Nat /\ asked \in Nat /\ Len(answers) \in Nat /\ nextTid \in 1 .. NumTids
  BY DEF ToolsTypeOK
<1>5. FramesInv'
  <2> SUFFICES ASSUME NEW f \in Frames, f.from[1] = process
               PROVE  /\ f.from[2] \in 1 .. asked' /\ f.from[2] < asked'
                      /\ asked' - f.from[2] < NumTids => f.tid = Back(asked - f.from[2] + 1)'
    BY <1>1, <1>2 DEF FramesInv
  <2>1. f.from[2] \in 1 .. asked /\ (asked - f.from[2] < NumTids => f.tid = Back(asked - f.from[2] + 1))
    BY DEF FramesInv
  <2>2. ASSUME asked' - f.from[2] < NumTids
        PROVE  f.tid = Back(asked - f.from[2] + 1)'
    <3> DEFINE m == f.from[2]
               k == asked - m + 1
    <3>0. m \in 1 .. asked /\ asked' = asked + 1 /\ asked' - m < NumTids
          /\ (asked - m < NumTids => f.tid = Back(k))
      BY <1>1, <2>1, <2>2
    <3> HIDE DEF m
    <3>1. asked' - m = k /\ k \in 1 .. NumTids - 1
      BY <1>4, <3>0
    <3>2. f.tid = Back(k)
      BY <1>4, <3>0, <3>1
    <3>3. (asked - f.from[2] + 1)' = k + 1
      BY <3>1 DEF m
    <3> HIDE DEF k
    <3>4. (IF nextTid' > k + 1 THEN nextTid' - (k + 1) ELSE nextTid' - (k + 1) + NumTids) = Back(k)
      <4>1. CASE nextTid = NumTids
        BY <1>1, <1>4, <3>1, <4>1 DEF Back
      <4>2. CASE nextTid # NumTids
        BY <1>1, <1>4, <3>1, <4>2 DEF Back
      <4> QED BY <4>1, <4>2
    <3> QED BY <3>2, <3>3, <3>4 DEF Back
  <2> QED BY <1>1, <1>4, <2>1, <2>2
<1>6. CountInv'
  <2>1. Cardinality(Marks) \in Nat
    BY FS_CardinalityType DEF CountInv
  <2> QED BY <1>1, <1>2, <1>4, <2>1 DEF CountInv, Unwritten
<1>7. DeceivedInv'
  <2>1. asked' > Len(answers)
    BY <1>1, <1>4 DEF OpenInv
  <2> QED BY <1>1, <1>2, <2>1 DEF DeceivedInv, Deceived
<1> QED BY <1>3, <1>5, <1>6, <1>7

LEMMA WriteInv ==
    ASSUME ToolsIInv, Write
    PROVE  InOrder' /\ FramesInv' /\ CountInv' /\ DeceivedInv'
<1> USE DEF ToolsIInv
<1> DEFINE r == [tid |-> LastTid, from |-> <<process, asked>>,
                 enables |-> asked <= Len(Startup[tool]) /\ Startup[tool][asked] = "MacRawStreamEnabled"]
<1>1. /\ UNCHANGED <<process, asked, answers, nextTid, line>>
      /\ state = "prepared" /\ state' = "waiting"
      /\ requests' \in {Append(requests, r), requests}
  BY DEF Write, clientVars, processVars
<1>2. /\ process \in Nat \ {0} /\ asked \in Nat \ {0} /\ Len(answers) \in Nat
      /\ nextTid \in 1 .. NumTids /\ LastTid \in 1 .. NumTids
  BY <1>1 DEF ToolsTypeOK, OpenInv, LastTid
<1>3. CASE requests' = requests
  <2>1. InOrder' /\ Frames' = Frames
    BY <1>1, <1>3 DEF InOrder, Frames, AnswersOnLine
  <2> QED BY <1>1, <2>1, NothingNew
<1>4. CASE requests' = Append(requests, r)
  <2>1. r \in Requests /\ r.from = <<process, asked>> /\ r.tid = LastTid
    BY <1>2 DEF Requests, Mark
  <2> HIDE DEF r
  <2>2. ASSUME NEW f \in Frames PROVE Before(f.from, r.from) /\ f.from # <<process, asked>>
    <3>1. f.from \in Mark /\ f.from[1] <= process /\ (f.from[1] = process => f.from[2] < asked)
      BY <1>1, FramesType DEF FramesInv, Requests
    <3> QED BY <1>2, <2>1, <3>1 DEF Before, Mark
  <2>3. InOrder' /\ Frames' = Frames \cup {r}
    BY <1>1, <1>4, <2>1, <2>2, RequestWritten
  <2>4. Marks' = Marks \cup {<<process, asked>>} /\ Stale' = Stale
    <3>1. Marks' = Marks \cup {r.from}
      BY <2>3 DEF Marks
    <3>2. ~(r.from[1] < process)
      BY <1>2, <2>1
    <3>3. Stale' = Stale
      BY <1>1, <3>1, <3>2 DEF Stale
    <3> QED BY <2>1, <3>1, <3>3
  <2>5. FramesInv'
    <3>1. r.from[2] \in 1 .. asked /\ r.from[1] = process /\ r.tid = Back(asked - r.from[2] + 1)
      BY <1>2, <2>1 DEF LastTid, Back
    <3>2. ASSUME NEW f \in Frames'
          PROVE  /\ f.from[1] <= process
                 /\ f.from[1] = process =>
                       /\ f.from[2] \in 1 .. asked
                       /\ asked - f.from[2] < NumTids => f.tid = Back(asked - f.from[2] + 1)
      <4>1. CASE f = r
        BY <1>2, <2>1, <3>1, <4>1
      <4>2. CASE f \in Frames
        BY <4>2 DEF FramesInv
      <4> QED BY <2>3, <4>1, <4>2
    <3> QED BY <1>1, <3>2 DEF FramesInv, Back
  <2>6. CountInv'
    <3>1. /\ IsFiniteSet(Marks') /\ Cardinality(Marks) \in Nat
          /\ Cardinality(Marks') \in {Cardinality(Marks), Cardinality(Marks) + 1}
      BY <2>4, FS_AddElement, FS_CardinalityType DEF CountInv
    <3> QED BY <1>1, <1>2, <3>1 DEF CountInv, Unwritten
  <2>7. DeceivedInv'
    <3> SUFFICES ASSUME process <= NumTids PROVE \E c \in 0 .. Len(answers) : Deceived(c)'
      BY <1>1 DEF DeceivedInv
    <3>1. PICK c \in 0 .. Len(answers) : Deceived(c)
      BY DEF DeceivedInv
    <3>2. c < Len(answers) => r.from[1] = process /\ r.from[2] > Len(answers)
      BY <1>1, <2>1, <3>1 DEF Deceived
    <3> QED BY <1>1, <2>3, <2>4, <3>1, <3>2 DEF Deceived
  <2> QED BY <2>3, <2>5, <2>6, <2>7
<1> QED BY <1>1, <1>3, <1>4

LEMMA RestartInv ==
    ASSUME ToolsIInv, Restart
    PROVE  InOrder' /\ FramesInv' /\ CountInv' /\ DeceivedInv'
<1> USE DEF ToolsIInv
<1>1. /\ process' = process + 1 /\ asked' = 0 /\ answers' = <<>> /\ state' = "calling"
      /\ requests' = requests /\ (line' = line \/ line' = <<>>)
  BY DEF Restart
<1>2. process \in Nat \ {0} /\ asked \in Nat /\ Len(answers) \in Nat /\ Len(answers') = 0
  BY <1>1 DEF ToolsTypeOK
<1>3. InOrder' /\ Frames' \subseteq Frames
  <2>1. CASE line' = line
    BY <1>1, <2>1 DEF InOrder, Frames, AnswersOnLine
  <2>2. CASE line' = <<>>
    <3>1. AnswersOnLine' = {}
      BY <2>2 DEF AnswersOnLine
    <3> QED BY <1>1, <3>1 DEF InOrder, Frames
  <2> QED BY <1>1, <2>1, <2>2
<1>4. FramesInv'
  <2>1. ASSUME NEW f \in Frames PROVE f.from[1] <= process' /\ f.from[1] # process'
    <3>1. f.from[1] \in Nat /\ f.from[1] <= process
      BY FramesType DEF FramesInv, Requests, Mark
    <3> QED BY <1>1, <1>2, <3>1
  <2> QED BY <1>3, <2>1 DEF FramesInv
<1>5. /\ IsFiniteSet(Marks') /\ Cardinality(Marks') \in Nat
      /\ Cardinality(Marks') <= process
  <2>1. Cardinality(Marks) <= process
    <3>1. Cardinality(Marks) \in Nat /\ Unwritten \in Nat
      BY FS_CardinalityType DEF CountInv, Unwritten
    <3> QED BY <1>2, <3>1 DEF CountInv, OpenInv
  <2> QED BY <1>2, <1>3, <2>1, FewerMarks DEF CountInv
<1>6. CountInv'
  BY <1>1, <1>2, <1>5 DEF CountInv, Unwritten
<1>7. DeceivedInv'
  <2>1. Stale' \in SUBSET Marks'
    BY DEF Stale
  <2>2. IsFiniteSet(Stale') /\ Cardinality(Stale') <= Cardinality(Marks') /\ Cardinality(Stale') \in Nat
    BY <1>5, <2>1, FS_Subset, FS_CardinalityType
  <2>3. Cardinality(Stale') + 0 <= process' - 1
    BY <1>1, <1>2, <1>5, <2>2
  <2>4. Deceived(0)'
    BY <1>2, <2>3 DEF Deceived
  <2> QED BY <1>2, <2>4 DEF DeceivedInv
<1> QED BY <1>3, <1>4, <1>6, <1>7

\* An answer that is taken.
LEMMA TakenInv ==
    ASSUME ToolsIInv, ToolsTypeOK', UNCHANGED <<process, state, asked, nextTid, requests>>,
           state # "stopped", line # <<>>, line' = Tail(line),
           pending # 0, Head(line).tid = pending, answers' = Append(answers, Head(line).from)
    PROVE  InOrder' /\ FramesInv' /\ CountInv' /\ DeceivedInv'
<1> USE DEF ToolsIInv
<1> DEFINE f == Head(line)
<1>1. /\ InOrder' /\ Frames' \subseteq Frames /\ f \in Frames
      /\ \A g \in Frames' : Before(f.from, g.from)
  BY HeadLeaves DEF ToolsTypeOK
<1>2. /\ process \in Nat \ {0} /\ asked \in Nat /\ Len(answers) \in Nat /\ nextTid \in 1 .. NumTids
      /\ asked = Len(answers) + 1 /\ f.tid = LastTid
  BY DEF ToolsTypeOK, OpenInv
<1>3. f.from \in Mark /\ f.from[1] \in Nat /\ f.from[2] \in Nat
  BY <1>1, FramesType DEF Requests, Mark
<1>4. /\ answers \in Seq(Mark) /\ Len(answers') = Len(answers) + 1
      /\ answers'[Len(answers')] = f.from
      /\ \A n \in 1 .. Len(answers) : answers'[n] = answers[n]
  BY <1>3 DEF ToolsTypeOK
<1> HIDE DEF f
<1>5. FramesInv'
  BY <1>1 DEF FramesInv, Back
<1>6. f.from \notin Marks'
  <2>1. ASSUME NEW g \in Frames', g.from = f.from PROVE FALSE
    <3>1. Before(f.from, f.from)
      BY <1>1, <2>1
    <3> QED BY <1>3, <3>1 DEF Before
  <2> QED BY <2>1 DEF Marks
<1>7. /\ Marks' \subseteq Marks \ {f.from}
      /\ Stale' \subseteq Stale \ {f.from}
  BY <1>1, <1>6 DEF Marks, Stale
<1>8. CountInv'
  <2>0. IsFiniteSet(Marks) /\ f.from \in Marks
    BY <1>1 DEF CountInv, Marks
  <2>1. /\ IsFiniteSet(Marks \ {f.from}) /\ Cardinality(Marks) \in Nat
        /\ Cardinality(Marks \ {f.from}) = Cardinality(Marks) - 1
    BY <2>0, FS_RemoveElement, FS_CardinalityType
  <2>2. IsFiniteSet(Marks') /\ Cardinality(Marks') \in Nat /\ Cardinality(Marks') <= Cardinality(Marks) - 1
    BY <1>7, <2>1, FS_Subset, FS_CardinalityType
  <2> QED BY <1>2, <1>4, <2>1, <2>2 DEF CountInv, Unwritten
<1>9. DeceivedInv'
  <2> SUFFICES ASSUME process <= NumTids PROVE \E c \in 0 .. Len(answers') : Deceived(c)'
    BY DEF DeceivedInv
  <2>1. PICK c \in 0 .. Len(answers) : Deceived(c)
    BY DEF DeceivedInv
  <2>2. IsFiniteSet(Stale) /\ Cardinality(Stale) \in Nat
    BY StaleIsFinite DEF CountInv
  <2>3. CASE f.from[1] < process
    <3>1. c = Len(answers)
      BY <1>1, <1>2, <1>3, <2>1, <2>3 DEF Deceived
    <3>2. f.from \in Stale
      BY <1>1, <2>3 DEF Stale, Marks
    <3>3. /\ IsFiniteSet(Stale \ {f.from})
          /\ Cardinality(Stale \ {f.from}) = Cardinality(Stale) - 1
      BY <2>2, <3>2, FS_RemoveElement
    <3>4. Cardinality(Stale') \in Nat /\ Cardinality(Stale') <= Cardinality(Stale) - 1
      BY <1>7, <3>3, FS_Subset, FS_CardinalityType
    <3>5. Cardinality(Stale') + (c + 1) <= process' - 1
      BY <1>2, <2>1, <2>2, <3>4 DEF Deceived
    <3>6. ASSUME NEW n \in 1 .. Len(answers') PROVE n <= c + 1 /\ answers'[n][1] < process'
      BY <1>2, <1>4, <2>1, <2>3, <3>1 DEF Deceived
    <3>7. Deceived(c + 1)'
      BY <1>2, <1>4, <3>1, <3>5, <3>6 DEF Deceived
    <3> QED BY <1>2, <1>4, <3>1, <3>7
  <2>4. CASE f.from[1] = process
    <3>1. f.from[2] \in 1 .. asked
          /\ (asked - f.from[2] < NumTids => f.tid = Back(asked - f.from[2] + 1))
      BY <1>1, <2>4 DEF FramesInv
    <3>2. f.from[2] = asked
      <4>1. CASE c < Len(answers)
        BY <1>1, <1>2, <2>1, <3>1, <4>1 DEF Deceived
      <4>2. CASE c = Len(answers)
        <5>1. asked <= NumTids
          BY <1>2, <2>1, <2>2, <4>2 DEF Deceived
        <5> DEFINE m == f.from[2]
                   k == asked - m
        <5>2. m \in 1 .. asked /\ (k < NumTids => f.tid = Back(k + 1))
          BY <3>1
        <5> HIDE DEF m
        <5>3. k \in 0 .. NumTids - 1
          BY <1>2, <5>1, <5>2
        <5> HIDE DEF k
        <5>4. k \in 0 .. NumTids - 1 /\ LastTid = Back(k + 1)
          BY <1>2, <5>2, <5>3
        <5>5. k = 0
          BY <1>2, <5>4 DEF LastTid, Back
        <5> QED BY <1>2, <1>3, <5>5 DEF k, m
      <4> QED BY <1>2, <2>1, <4>1, <4>2
    <3>3. f.from = <<process, asked>>
      BY <1>3, <2>4, <3>2 DEF Mark
    <3>4. Frames' = {}
      <4>1. ASSUME NEW g \in Frames' PROVE FALSE
        <5>1. g.from[1] \in Nat /\ g.from[2] \in Nat /\ g.from[1] <= process
              /\ (g.from[1] = process => g.from[2] <= asked)
          BY <1>1, FramesType DEF FramesInv, Requests, Mark
        <5> QED BY <1>1, <1>2, <2>4, <3>2, <5>1 DEF Before
      <4> QED BY <4>1
    <3>5. Stale' = {} /\ Cardinality(Stale') = 0
      BY <3>4, FS_EmptySet DEF Stale, Marks
    <3>6. Cardinality(Stale') + c <= process' - 1
      BY <1>2, <2>1, <2>2, <3>5 DEF Deceived
    <3>7. state # "prepared"
      BY <1>1, <2>4, <3>2 DEF FramesInv
    <3>8. ASSUME NEW n \in 1 .. Len(answers')
          PROVE  IF n <= c THEN answers'[n][1] < process' ELSE answers'[n] = <<process', n>>
      <4>1. CASE n = Len(answers')
        BY <1>2, <1>4, <2>1, <3>3, <4>1
      <4>2. CASE n # Len(answers')
        BY <1>2, <1>4, <2>1, <4>2 DEF Deceived
      <4> QED BY <4>1, <4>2
    <3>9. Deceived(c)'
      BY <3>4, <3>6, <3>7, <3>8 DEF Deceived
    <3> QED BY <1>2, <1>4, <3>9
  <2> QED BY <1>1, <1>3, <1>2, <2>3, <2>4 DEF FramesInv
<1> QED BY <1>1, <1>5, <1>8, <1>9
------------------------------------------------------------------------------
LEMMA ToolsInitInv == ToolsInit => ToolsIInv
<1> SUFFICES ASSUME ToolsInit PROVE ToolsIInv
  OBVIOUS
<1>1. ToolsTypeOK
  <2>1. /\ tool \in {"capture", "sender"} /\ nextTid \in 1 .. NumTids
        /\ process = 1 /\ asked = 0 /\ state = "calling" /\ pending = 0
    BY DEF ToolsInit, Startup
  <2>2. answers \in Seq(Mark) /\ requests \in Seq(Requests) /\ line \in Seq(Requests \cup UpdateFrames)
    BY EmptySeq DEF ToolsInit
  <2> QED BY <2>1, <2>2 DEF ToolsTypeOK
<1>2. AnswersOnLine = {} /\ DOMAIN requests = {}
  BY DEF ToolsInit, AnswersOnLine
<1>3. Frames = {} /\ Marks = {} /\ Stale = {}
  BY <1>2 DEF Frames, Marks, Stale
<1>4. InOrder
  BY <1>2 DEF InOrder
<1>5. OpenInv /\ FramesInv
  BY <1>3 DEF ToolsInit, OpenInv, FramesInv
<1>6. CountInv
  BY <1>3, FS_EmptySet DEF ToolsInit, CountInv, Unwritten
<1>7. DeceivedInv
  <2>1. Deceived(0)
    BY <1>3, FS_EmptySet DEF ToolsInit, Deceived
  <2> QED BY <2>1 DEF ToolsInit, DeceivedInv
<1> QED BY <1>1, <1>4, <1>5, <1>6, <1>7 DEF ToolsIInv

LEMMA StepInv == ToolsIInv /\ [ToolsNext]_toolsVars => ToolsIInv'
<1> SUFFICES ASSUME ToolsIInv, [ToolsNext]_toolsVars PROVE ToolsIInv'
  OBVIOUS
<1>1. CASE UNCHANGED toolsVars
  <2>1. UNCHANGED <<process, tool, state, asked, answers, nextTid, pending, requests, line>>
    BY <1>1 DEF toolsVars, clientVars, processVars, radioVars
  <2>2. Frames' = Frames /\ InOrder' /\ ToolsTypeOK' /\ OpenInv'
    BY <2>1 DEF ToolsIInv, Frames, AnswersOnLine, InOrder, ToolsTypeOK, OpenInv, LastTid
  <2>3. FramesInv' /\ CountInv' /\ DeceivedInv'
    BY <2>1, <2>2, NothingNew
  <2> QED BY <2>2, <2>3 DEF ToolsIInv
<1>2. CASE ToolsNext
  <2>1. ToolsTypeOK' /\ OpenInv'
    BY <1>2, TypesAndOpen DEF ToolsIInv
  <2> SUFFICES InOrder' /\ FramesInv' /\ CountInv' /\ DeceivedInv'
    BY <2>1 DEF ToolsIInv
  <2>2. CASE Prepare
    BY <2>2, PrepareInv
  <2>3. CASE Write
    BY <2>3, WriteInv
  <2>4. CASE Restart
    BY <2>4, RestartInv
  <2>5. CASE WriteFails \/ Return \/ Timeout \/ ReaderStop \/ Listen \/ Take \/ Interrupt
    <3>1. /\ UNCHANGED <<process, asked, answers, nextTid, requests, line>>
          /\ state' = "prepared" => state = "prepared"
      BY <2>5 DEF WriteFails, Return, Timeout, ReaderStop, Listen, Take, Interrupt,
                  clientVars, processVars, radioVars
    <3>2. InOrder' /\ Frames' = Frames
      BY <3>1 DEF ToolsIInv, InOrder, Frames, AnswersOnLine
    <3> QED BY <3>1, <3>2, NothingNew
  <2>6. CASE Deliver
    <3>1. /\ UNCHANGED <<process, state, requests>> /\ state # "stopped"
          /\ line # <<>> /\ line' = Tail(line)
      BY <2>6 DEF Deliver, processVars, IsUp
    <3>2. CASE UNCHANGED clientVars
      <4>1. UNCHANGED <<asked, answers, nextTid>>
        BY <3>2 DEF clientVars
      <4>2. InOrder' /\ Frames' \subseteq Frames
        BY <3>1, HeadLeaves DEF ToolsIInv
      <4> QED BY <3>1, <4>1, <4>2, NothingNew
    <3>3. CASE /\ Head(line).tid = pending /\ pending # 0
               /\ answers' = Append(answers, Head(line).from) /\ UNCHANGED <<asked, nextTid>>
      BY <2>1, <3>1, <3>3, TakenInv
    <3> QED BY <2>6, <3>2, <3>3 DEF Deliver
  <2>7. CASE Answer \/ LoseRequest \/ LoseFrame \/ \E p \in Properties : Emit(p)
    <3>1. UNCHANGED <<process, state, asked, answers, nextTid>>
      BY <2>7 DEF Answer, LoseRequest, LoseFrame, Emit, clientVars, processVars
    <3>2. InOrder' /\ Frames' \subseteq Frames
      <4>1. CASE LoseFrame
        BY <4>1, HeadLeaves DEF ToolsIInv, LoseFrame
      <4> QED BY <2>7, <4>1, RequestAnswered, RequestLost, UpdateSent DEF ToolsIInv
    <3> QED BY <3>1, <3>2, NothingNew
  <2> QED BY <1>2, <2>2, <2>3, <2>4, <2>5, <2>6, <2>7 DEF ToolsNext
<1> QED BY <1>1, <1>2

\* The bookkeeping the argument rests on: order on the line, whose frames are
\* under way, and how many (prepare_request, handle_inbound_frame).
THEOREM ToolsBookkeeping == ToolsSpec => []ToolsIInv
<1>1. ToolsInit => ToolsIInv
  BY ToolsInitInv
<1>2. ToolsIInv /\ [ToolsNext]_toolsVars => ToolsIInv'
  BY StepInv
<1> QED BY <1>1, <1>2, PTL DEF ToolsSpec

LEMMA IInvImplies == ToolsIInv => StaleAnswersRunOut
<1> SUFFICES ASSUME ToolsIInv, process <= NumTids, NEW n \in DOMAIN answers
             PROVE  \/ answers[n] = <<process, n>>
                    \/ n < process /\ answers[n][1] < process
  BY DEF StaleAnswersRunOut
<1>1. PICK c \in 0 .. Len(answers) : Deceived(c)
  BY DEF ToolsIInv, DeceivedInv
<1>2. n \in 1 .. Len(answers) /\ process \in Nat
  BY DEF ToolsIInv, ToolsTypeOK
<1>3. Cardinality(Stale) \in Nat
  BY StaleIsFinite DEF ToolsIInv, CountInv
<1>4. c <= process - 1
  BY <1>1, <1>2, <1>3 DEF Deceived
<1>5. IF n <= c THEN answers[n][1] < process ELSE answers[n] = <<process, n>>
  BY <1>1, <1>2 DEF Deceived
<1> QED BY <1>2, <1>4, <1>5

\* The n-th process is deceived by answers to others about its first n - 1
\* requests at most, as long as there are no more processes than TIDs: for any
\* requests, losses and interruptions (SpinelClient, packet_capture and
\* packet_sender).
THEOREM StaleAnswers == ToolsSpec => []StaleAnswersRunOut
<1>1. ToolsSpec => []ToolsIInv
  BY ToolsBookkeeping
<1>2. ToolsIInv => StaleAnswersRunOut
  BY IInvImplies
<1> QED BY <1>1, <1>2, PTL

-------------------------------------------------------------------------------
(* The receivers under the tools. *)

LEMMA StartOfConcat ==
  ASSUME NEW s \in Seq(Nat), NEW t \in Seq(Nat)
  PROVE  /\ Len(s) \in Nat /\ Len(s \o t) \in Nat /\ Len(s) <= Len(s \o t)
         /\ \A i \in 1 .. Len(s) : (s \o t)[i] = s[i]
<1> DEFINE m == Len(s)
           n == Len(t)
<1>1. m \in Nat /\ n \in Nat
  BY LenProperties
<1>2. Len(s \o t) = m + n /\ \A i \in 1 .. m + n : (s \o t)[i] = IF i <= m THEN s[i] ELSE t[i - m]
  BY ConcatProperties
<1> HIDE DEF m, n
<1>3. m + n \in Nat /\ m <= m + n /\ \A i \in 1 .. m : i \in 1 .. m + n /\ i <= m
  BY <1>1
<1>4. m \in Nat /\ Len(s \o t) \in Nat /\ m <= Len(s \o t) /\ \A i \in 1 .. m : (s \o t)[i] = s[i]
  BY <1>1, <1>2, <1>3
<1> QED BY <1>4 DEF m

\* When a process ends, its registrations and its channel go with it: what it
\* has seen is what it has taken.
LEMMA RestartUpdates == ASSUME IInv, Restart PROVE IInv'
<1>1. /\ registered' = [p \in Properties |-> {}]
      /\ channel' = [channel EXCEPT ![process] = <<>>]
      /\ pc' = [pc EXCEPT ![process] = "ended"]
      /\ sent' = sent /\ taken' = taken /\ held' = held
  BY DEF Restart
<1>2. TypeOK'
  <2>1. <<>> \in Seq(Nat)
    BY EmptySeq
  <2> QED BY <1>1, <2>1 DEF IInv, TypeOK
<1>3. ASSUME NEW c \in Consumers
      PROVE  /\ Seen(c)' = Seen(c) \/ (Seen(c)' = taken[c] /\ pc'[c] = "ended")
             /\ pc'[c] # "ended" => pc'[c] = pc[c] /\ Seen(c)' = Seen(c)
             /\ ~Holds(c)'
  <2>1. taken[c] \in Seq(Nat) /\ taken[c] \o <<>> = taken[c]
    BY ConcatEmptySeq DEF IInv, TypeOK
  <2>2. CASE c = process
    <3>1. Seen(c)' = taken[c] /\ pc'[c] = "ended"
      BY <1>1, <2>1, <2>2 DEF Seen, IInv, TypeOK
    <3>2. ~Holds(c)'
      BY <1>1, WatchedAssumption DEF Holds
    <3> QED BY <3>1, <3>2
  <2>3. CASE c # process
    <3>1. Seen(c)' = Seen(c) /\ pc'[c] = pc[c]
      BY <1>1, <2>3 DEF Seen, IInv, TypeOK
    <3>2. ~Holds(c)'
      BY <1>1, WatchedAssumption DEF Holds
    <3> QED BY <3>1, <3>2
  <2> QED BY <2>2, <2>3
<1>4. ASSUME NEW c \in Consumers
      PROVE  /\ Len(Seen(c)') <= Len(Seen(c)) /\ Len(Seen(c)) \in Nat /\ Len(Seen(c)') \in Nat
             /\ \A i \in 1 .. Len(Seen(c)') : Seen(c)'[i] = Seen(c)[i]
  <2>1. taken[c] \in Seq(Nat) /\ channel[c] \in Seq(Nat)
    BY DEF IInv, TypeOK
  <2>2. /\ Len(taken[c]) \in Nat /\ Len(Seen(c)) \in Nat /\ Len(taken[c]) <= Len(Seen(c))
        /\ \A i \in 1 .. Len(taken[c]) : Seen(c)[i] = taken[c][i]
    BY <2>1, StartOfConcat DEF Seen
  <2> DEFINE old == Seen(c)
             new == Seen(c)'
  <2>3. new = old \/ new = taken[c]
    BY <1>3
  <2> HIDE DEF old, new
  <2>4. Len(new) <= Len(old) /\ Len(old) \in Nat /\ Len(new) \in Nat
        /\ \A i \in 1 .. Len(new) : new[i] = old[i]
    <3>1. CASE new = taken[c]
      BY <2>2, <3>1 DEF old
    <3>2. CASE new = old
      <4>1. Len(old) \in Nat
        BY <2>2 DEF old
      <4> QED BY <3>2, <4>1
    <3> QED BY <2>3, <3>1, <3>2
  <2> QED BY <2>4 DEF old, new
<1>5. Registrations'
  BY <1>1, <1>3 DEF IInv, Registrations
<1>6. SeenCame'
  BY <1>1, <1>4 DEF IInv, SeenCame
<1>7. GapsOnlyWhenFull'
  <2>1. ASSUME NEW c \in Consumers
        PROVE  /\ \A i \in 1 .. Len(Seen(c)') : sent'[Seen(c)'[i]] = Watched[c]
               /\ \A i \in 1 .. Len(Seen(c)') - 1 : Seen(c)'[i] < Seen(c)'[i + 1]
    <3>1. \A i \in 1 .. Len(Seen(c)') : sent'[Seen(c)'[i]] = Watched[c]
      BY <1>1, <1>4 DEF IInv, GapsOnlyWhenFull
    <3>2. ASSUME NEW i \in 1 .. Len(Seen(c)') - 1 PROVE Seen(c)'[i] < Seen(c)'[i + 1]
      <4>1. Seen(c)'[i] = Seen(c)[i] /\ Seen(c)'[i + 1] = Seen(c)[i + 1] /\ i \in 1 .. Len(Seen(c)) - 1
        BY <1>4
      <4> QED BY <4>1 DEF IInv, GapsOnlyWhenFull
    <3> QED BY <3>1, <3>2
  <2>2. ASSUME NEW c \in Consumers, NEW i \in 0 .. Len(Seen(c)'), NEW u \in 1 .. Len(held),
               Between(c, i, u)'
        PROVE  Between(c, i, u)
    <3>1. CASE Seen(c)' = Seen(c) /\ pc'[c] = pc[c]
      BY <3>1, <2>2 DEF Between
    <3>2. CASE pc'[c] = "ended"
      <4>1. i < Len(Seen(c)') /\ i < Len(Seen(c)) /\ i + 1 \in 1 .. Len(Seen(c)')
        BY <3>2, <2>2, <1>4 DEF Between
      <4>2. Seen(c)'[i + 1] = Seen(c)[i + 1] /\ (i > 0 => Seen(c)'[i] = Seen(c)[i])
        BY <4>1, <1>4
      <4> QED BY <4>1, <4>2, <2>2 DEF Between
    <3> QED BY <3>1, <3>2, <1>3
  <2>3. ASSUME NEW c \in Consumers, NEW i \in 0 .. Len(Seen(c)'), NEW u \in 1 .. Len(held'),
               c \in DOMAIN held'[u], Between(c, i, u)'
        PROVE  i >= held'[u][c] + Capacity
    <3>1. i \in 0 .. Len(Seen(c)) /\ Between(c, i, u)
      BY <2>2, <2>3, <1>1, <1>4
    <3> QED BY <3>1, <2>3, <1>1 DEF IInv, GapsOnlyWhenFull
  <2> QED BY <2>1, <2>3 DEF GapsOnlyWhenFull
<1> QED BY <1>2, <1>5, <1>6, <1>7 DEF IInv

\* What a consumer misses while it holds the channel, it misses because the channel
\* was full, for the receivers of the tools too: their processes end and restart, and
\* the radio streams on (packet_capture, packet_sender, set_property_update_receiver).
THEOREM ToolsNoOtherGap == ToolsSpec => []GapsOnlyWhenFull
<1> DEFINE Inv == IInv /\ process \in Consumers
<1>1. ToolsInit => Inv
  <2>1. 1 \in Consumers
    <3>1. Cardinality(Consumers) \in Nat
      BY ProcessesAssumption, FS_CardinalityType
    <3> QED BY <3>1, ProcessesAssumption
  <2> QED BY <2>1, InitInv DEF ToolsInit
<1>2. Inv /\ ToolsIInv /\ [ToolsNext]_toolsVars => Inv'
  <2> SUFFICES ASSUME IInv, process \in Consumers, ToolsIInv, [ToolsNext]_toolsVars PROVE Inv'
    OBVIOUS
  <2>1. CASE Restart
    <3>1. process' \in Consumers
      BY <2>1 DEF Restart
    <3> QED BY <2>1, <3>1, RestartUpdates
  <2>2. CASE Deliver
    <3>1. process' = process
      BY <2>2 DEF Deliver, processVars
    <3>2. CASE UNCHANGED vars
      BY <3>1, <3>2, StutterInv
    <3>3. CASE Head(line).tid = 0 /\ Update(Head(line).property)
      <4>1. Head(line) \in Requests \cup UpdateFrames
        BY <2>2, HeadTailProperties DEF Deliver, ToolsIInv, ToolsTypeOK
      <4>2. Head(line).property \in Properties
        BY <3>3, <4>1 DEF Requests, UpdateFrames
      <4> QED BY <3>1, <3>3, <4>2, UpdateInv
    <3> QED BY <2>2, <3>2, <3>3 DEF Deliver
  <2>3. CASE Listen \/ Take
    <3>1. process' = process /\ (Register(process) \/ Receive(process))
      BY <2>3 DEF Listen, Take, processVars
    <3> QED BY <3>1, RegisterInv, ReceiveInv
  <2>4. CASE \/ Prepare \/ Write \/ WriteFails \/ Return \/ Timeout \/ ReaderStop \/ Interrupt
             \/ Answer \/ (\E p \in Properties : Emit(p)) \/ LoseRequest \/ LoseFrame
             \/ UNCHANGED toolsVars
    <3>1. process' = process /\ UNCHANGED vars
      BY <2>4 DEF Prepare, Write, WriteFails, Return, Timeout, ReaderStop, Interrupt, Answer,
                  Emit, LoseRequest, LoseFrame, processVars, toolsVars
    <3> QED BY <3>1, StutterInv
  <2> QED BY <2>1, <2>2, <2>3, <2>4 DEF ToolsNext
<1>3. Inv => GapsOnlyWhenFull
  BY DEF IInv
<1> HIDE DEF Inv
<1> QED BY <1>1, <1>2, <1>3, ToolsBookkeeping, PTL DEF ToolsSpec
-------------------------------------------------------------------------------
(* Bits of IEEE 802.15.4 frames. *)

HIDE ToolsAssumption
HIDE TidsAssumption

Crcs == SUBSET (0 .. 15)
Nibbles == SUBSET (0 .. 3)

\* What a step adds in its three places.
Added(x, n) == SymDiff(Low(x, 4), n)

LEMMA PlacesType ==
  \A c \in Octet : Places(c, 4) \in Nibbles /\ Places(c \div 16, 4) \in Nibbles
  BY DEF Places, Nibbles

\* The two halves tell which octet it is.
LEMMA PlacesTell ==
  ASSUME NEW c \in Octet, NEW d \in Octet,
         Places(c, 4) = Places(d, 4), Places(c \div 16, 4) = Places(d \div 16, 4)
  PROVE  c = d
<1>1. ASSUME NEW o \in 0 .. 15
      PROVE  /\ 0 \in Places(o, 4) <=> o % 2 = 1
             /\ 1 \in Places(o, 4) <=> (o \div 2) % 2 = 1
             /\ 2 \in Places(o, 4) <=> (o \div 4) % 2 = 1
             /\ 3 \in Places(o, 4) <=> (o \div 8) % 2 = 1
  <2>1. 2^0 = 1 /\ 2^1 = 2 /\ 2^2 = 4 /\ 2^3 = 8
    OBVIOUS
  <2>2. 0 \in Places(o, 4) <=> (o \div 2^0) % 2 = 1
    BY DEF Places
  <2>3. 1 \in Places(o, 4) <=> (o \div 2^1) % 2 = 1
    BY DEF Places
  <2>4. 2 \in Places(o, 4) <=> (o \div 2^2) % 2 = 1
    BY DEF Places
  <2>5. 3 \in Places(o, 4) <=> (o \div 2^3) % 2 = 1
    BY DEF Places
  <2>6. o \div 1 = o
    OBVIOUS
  <2> QED BY <2>1, <2>2, <2>3, <2>4, <2>5, <2>6
<1>2. ASSUME NEW o \in 0 .. 15, NEW p \in 0 .. 15, Places(o, 4) = Places(p, 4)
      PROVE  o = p
  <2>1. /\ o % 2 = 1 <=> p % 2 = 1
        /\ (o \div 2) % 2 = 1 <=> (p \div 2) % 2 = 1
        /\ (o \div 4) % 2 = 1 <=> (p \div 4) % 2 = 1
        /\ (o \div 8) % 2 = 1 <=> (p \div 8) % 2 = 1
    BY <1>1, <1>2
  <2> QED BY <2>1
<1>3. ASSUME NEW o \in Octet
      PROVE  o % 16 \in 0 .. 15 /\ o \div 16 \in 0 .. 15 /\ Places(o % 16, 4) = Places(o, 4)
  <2>1. o % 16 \in 0 .. 15 /\ o \div 16 \in 0 .. 15
    BY DEF Octet
  <2>2. 2^0 = 1 /\ 2^1 = 2 /\ 2^2 = 4 /\ 2^3 = 8
    OBVIOUS
  <2>3. \A k \in {1, 2, 4, 8} : ((o % 16) \div k) % 2 = (o \div k) % 2
    BY DEF Octet
  <2>4. \A i \in 0 .. 3 : 2^i \in {1, 2, 4, 8}
    <3>1. \A i \in 0 .. 3 : i = 0 \/ i = 1 \/ i = 2 \/ i = 3
      OBVIOUS
    <3> QED BY <2>2, <3>1
  <2>5. \A i \in 0 .. 3 : ((o % 16) \div 2^i) % 2 = (o \div 2^i) % 2
    BY <2>3, <2>4
  <2>6. Places(o % 16, 4) = {i \in 0 .. 3 : ((o % 16) \div 2^i) % 2 = 1}
    BY DEF Places
  <2>7. Places(o, 4) = {i \in 0 .. 3 : (o \div 2^i) % 2 = 1}
    BY DEF Places
  <2> QED BY <2>1, <2>5, <2>6, <2>7
<1>4. c % 16 = d % 16
  BY <1>2, <1>3
<1>5. c \div 16 = d \div 16
  BY <1>2, <1>3
<1> QED BY <1>4, <1>5 DEF Octet

LEMMA NibbleMembers ==
  ASSUME NEW x \in Crcs, NEW n \in Nibbles
  PROVE  /\ Added(x, n) \in Nibbles
         /\ Nibble(x, n) \in Crcs
         /\ \A i \in 0 .. 15 :
              i \in Nibble(x, n) <=>
                ~((i + 4 \in x) <=> (i \in Added(x, n) \/ i - 7 \in Added(x, n) \/ i - 12 \in Added(x, n)))
<1> DEFINE q == Added(x, n)
           added == q \cup {i + 7 : i \in q} \cup {i + 12 : i \in q}
<1>1. q \in Nibbles
  <2>1. \A i \in Low(x, 4) : i \in 0 .. 3
    BY DEF Low, Crcs
  <2>2. n \subseteq 0 .. 3
    BY DEF Nibbles
  <2> QED BY <2>1, <2>2 DEF Added, SymDiff, Nibbles
<1>2. Nibble(x, n) = SymDiff(ShiftRight(x, 4), added)
  BY DEF Nibble, Added
<1>3. \A i \in Int : i \in ShiftRight(x, 4) <=> i \in 0 .. 11 /\ i + 4 \in x
  <2>1. \A i \in Int : i \in ShiftRight(x, 4) <=> \E k \in x \ (0 .. 3) : i = k - 4
    BY DEF ShiftRight
  <2>2. ASSUME NEW i \in Int, NEW k \in x \ (0 .. 3), i = k - 4 PROVE i \in 0 .. 11 /\ i + 4 \in x
    <3>1. k \in 4 .. 15
      BY DEF Crcs
    <3>2. i + 4 = k
      BY <2>2, <3>1
    <3> QED BY <2>2, <3>1, <3>2
  <2>3. ASSUME NEW i \in Int, i \in 0 .. 11 /\ i + 4 \in x PROVE \E k \in x \ (0 .. 3) : i = k - 4
    <3>1. i + 4 \in x \ (0 .. 3) /\ i = (i + 4) - 4
      BY <2>3
    <3> QED BY <3>1
  <2> QED BY <2>1, <2>2, <2>3
<1>4. \A i \in Int : i \in added <=> (i \in q \/ i - 7 \in q \/ i - 12 \in q)
  <2> SUFFICES ASSUME NEW i \in Int PROVE i \in added <=> (i \in q \/ i - 7 \in q \/ i - 12 \in q)
    OBVIOUS
  <2> HIDE DEF q
  <2>1. q \subseteq Int
    BY <1>1 DEF Nibbles
  <2>2. i \in {k + 7 : k \in q} <=> i - 7 \in q
    <3>1. \A k \in q : i = k + 7 <=> i - 7 = k
      BY <2>1
    <3> QED BY <3>1
  <2>3. i \in {k + 12 : k \in q} <=> i - 12 \in q
    <3>1. \A k \in q : i = k + 12 <=> i - 12 = k
      BY <2>1
    <3> QED BY <3>1
  <2> QED BY <2>2, <2>3
<1>5. added \subseteq 0 .. 15
  <2> HIDE DEF q
  <2>1. \A k \in q : k \in 0 .. 15 /\ k + 7 \in 0 .. 15 /\ k + 12 \in 0 .. 15
    <3>1. \A k \in q : k \in 0 .. 3
      BY <1>1 DEF Nibbles
    <3>2. \A k \in 0 .. 3 : k \in 0 .. 15 /\ k + 7 \in 0 .. 15 /\ k + 12 \in 0 .. 15
      OBVIOUS
    <3> QED BY <3>1, <3>2
  <2> QED BY <2>1
<1>6. ShiftRight(x, 4) \subseteq 0 .. 15
  <2>1. \A i \in ShiftRight(x, 4) : \E k \in x \ 0 .. 3 : i = k - 4
    BY DEF ShiftRight
  <2>2. \A k \in x \ 0 .. 3 : k - 4 \in 0 .. 15
    BY DEF Crcs
  <2> QED BY <2>1, <2>2
<1> HIDE DEF added, q
<1>7. Nibble(x, n) \in Crcs
  BY <1>2, <1>5, <1>6 DEF SymDiff, Crcs
<1>8. ASSUME NEW i \in 0 .. 15
      PROVE  i \in Nibble(x, n) <=> ~((i + 4 \in x) <=> (i \in q \/ i - 7 \in q \/ i - 12 \in q))
  <2>1. i \in Nibble(x, n) <=> ~(i \in ShiftRight(x, 4) <=> i \in added)
    BY <1>2 DEF SymDiff
  <2>2. i + 4 \in x => i \in 0 .. 11
    BY DEF Crcs
  <2>3. i \in ShiftRight(x, 4) <=> i + 4 \in x
    BY <1>3, <2>2
  <2>4. i \in added <=> (i \in q \/ i - 7 \in q \/ i - 12 \in q)
    BY <1>4
  <2> QED BY <2>1, <2>3, <2>4
<1> QED BY <1>1, <1>7, <1>8 DEF q

\* From a step's outcome, right of j, follow what was added and the number right of j + 4.
LEMMA NibbleBack ==
  ASSUME NEW x \in Crcs, NEW y \in Crcs, NEW m \in Nibbles, NEW n \in Nibbles, NEW j \in 0 .. 12,
         \A i \in j .. 15 : i \in Nibble(x, m) <=> i \in Nibble(y, n)
  PROVE  /\ \A i \in (j + 4) .. 15 : i \in x <=> i \in y
         /\ x = y => m = n
         /\ j = 0 /\ m = n => x = y
<1> DEFINE q == Added(x, m)
           r == Added(y, n)
<1>1. q \subseteq 0 .. 3 /\ r \subseteq 0 .. 3 /\ x \subseteq 0 .. 15 /\ y \subseteq 0 .. 15
  BY NibbleMembers DEF Nibbles, Crcs
<1>2. \A i \in 0 .. 15 :
        i \in Nibble(x, m) <=> ~((i + 4 \in x) <=> (i \in q \/ i - 7 \in q \/ i - 12 \in q))
  BY NibbleMembers
<1>3. \A i \in 0 .. 15 :
        i \in Nibble(y, n) <=> ~((i + 4 \in y) <=> (i \in r \/ i - 7 \in r \/ i - 12 \in r))
  BY NibbleMembers
<1>4. (x = y /\ q = r) => m = n
  BY DEF Added, SymDiff
<1>0. ASSUME m = n, q = r PROVE \A i \in 0 .. 3 : i \in x <=> i \in y
  <2> SUFFICES ASSUME NEW i \in 0 .. 3 PROVE i \in x <=> i \in y
    OBVIOUS
  <2>1. i \in Low(x, 4) <=> i \in x
    BY DEF Low
  <2>2. i \in Low(y, 4) <=> i \in y
    BY DEF Low
  <2>3. i \in q <=> ~(i \in Low(x, 4) <=> i \in m)
    BY DEF Added, SymDiff
  <2>4. i \in r <=> ~(i \in Low(y, 4) <=> i \in n)
    BY DEF Added, SymDiff
  <2> QED BY <1>0, <2>1, <2>2, <2>3, <2>4
<1> HIDE DEF q, r
<1>5. \A i \in 0 .. 3 : i \in q <=> i \in r
  <2> SUFFICES ASSUME NEW i \in 0 .. 3 PROVE i \in q <=> i \in r
    OBVIOUS
  <2>1. i + 12 \in 0 .. 15 /\ i + 12 \in j .. 15
    OBVIOUS
  <2>2. (i + 12) + 4 \notin x /\ (i + 12) + 4 \notin y /\ i + 12 \notin q /\ i + 12 \notin r
        /\ (i + 12) - 7 \notin q /\ (i + 12) - 7 \notin r /\ (i + 12) - 12 = i
    BY <1>1
  <2>3. i + 12 \in Nibble(x, m) <=> i \in q
    BY <1>2, <2>1, <2>2
  <2>4. i + 12 \in Nibble(y, n) <=> i \in r
    BY <1>3, <2>1, <2>2
  <2> QED BY <2>1, <2>3, <2>4
<1>6. q = r
  BY <1>1, <1>5
<1>7. ASSUME NEW i \in (j + 4) .. 15 PROVE i \in x <=> i \in y
  <2>1. i - 4 \in j .. 15 /\ i - 4 \in 0 .. 15 /\ (i - 4) + 4 = i
    OBVIOUS
  <2>2. i - 4 \in Nibble(x, m) <=> i - 4 \in Nibble(y, n)
    BY <2>1
  <2> QED BY <1>2, <1>3, <1>6, <2>1, <2>2
<1>8. ASSUME j = 0, m = n PROVE x = y
  <2>1. \A i \in 0 .. 15 : i \in 0 .. 3 \/ i \in (j + 4) .. 15
    BY <1>8
  <2>2. \A i \in 0 .. 15 : i \in x <=> i \in y
    BY <1>0, <1>6, <1>7, <1>8, <2>1
  <2> QED BY <1>1, <2>2
<1> QED BY <1>4, <1>6, <1>7, <1>8

LEMMA OctetBack ==
  ASSUME NEW x \in Crcs, NEW y \in Crcs, NEW c \in Octet, NEW d \in Octet, NEW j \in 0 .. 8,
         \A i \in j .. 15 : i \in LowFourFirst(x, c) <=> i \in LowFourFirst(y, d)
  PROVE  /\ \A i \in (j + 8) .. 15 : i \in x <=> i \in y
         /\ x = y => c = d
         /\ j = 0 /\ c = d => x = y
<1> DEFINE m == Places(c, 4)
           n == Places(d, 4)
           k == Places(c \div 16, 4)
           l == Places(d \div 16, 4)
           u == Nibble(x, m)
           v == Nibble(y, n)
<1>1. m \in Nibbles /\ n \in Nibbles /\ k \in Nibbles /\ l \in Nibbles
  BY PlacesType
<1>2. (m = n /\ k = l) => c = d
  BY PlacesTell
<1>10. c = d => m = n /\ k = l
  OBVIOUS
<1>3. LowFourFirst(x, c) = Nibble(u, k) /\ LowFourFirst(y, d) = Nibble(v, l)
  BY DEF LowFourFirst
<1> HIDE DEF m, n, k, l
<1>4. u \in Crcs /\ v \in Crcs
  BY <1>1, NibbleMembers
<1>5. x = y /\ m = n => u = v
  OBVIOUS
<1>6. \A i \in (j + 4) .. 15 : i \in Nibble(x, m) <=> i \in Nibble(y, n)
  <2> HIDE DEF u, v
  <2>1. j \in 0 .. 12
    OBVIOUS
  <2>2. \A i \in (j + 4) .. 15 : i \in u <=> i \in v
    BY <1>1, <1>3, <1>4, <2>1, NibbleBack
  <2> QED BY <2>2 DEF u, v
<1>7. (u = v) => k = l
  <2> HIDE DEF u, v
  <2>1. j \in 0 .. 12
    OBVIOUS
  <2> QED BY <1>1, <1>3, <1>4, <2>1, NibbleBack
<1> HIDE DEF u, v
<1>8. j + 4 \in 0 .. 12 /\ (j + 4) + 4 = j + 8
  OBVIOUS
<1>9. /\ \A i \in ((j + 4) + 4) .. 15 : i \in x <=> i \in y
      /\ x = y => m = n
  BY <1>1, <1>6, <1>8, NibbleBack
<1>11. ASSUME j = 0, c = d PROVE x = y
  <2> USE DEF u, v
  <2>1. 0 \in 0 .. 12 /\ \A i \in 0 .. 15 : i \in LowFourFirst(x, c) <=> i \in LowFourFirst(y, d)
    BY <1>11
  <2>2. u = v
    <3> HIDE DEF u, v
    <3> QED BY <1>1, <1>3, <1>4, <1>10, <1>11, <2>1, NibbleBack
  <2>3. \A i \in 0 .. 15 : i \in Nibble(x, m) <=> i \in Nibble(y, n)
    BY <2>2
  <2> QED BY <1>1, <1>10, <1>11, <2>1, <2>3, NibbleBack
<1> QED BY <1>2, <1>5, <1>7, <1>8, <1>9, <1>11

LEMMA OctetType ==
  \A x \in Crcs, c \in Octet : LowFourFirst(x, c) \in Crcs
  BY PlacesType, NibbleMembers DEF LowFourFirst

\* The number tells the octet if it tells the number before, and the other way round.
LEMMA OneOctet ==
  ASSUME NEW x \in Crcs, NEW y \in Crcs, NEW c \in Octet, NEW d \in Octet,
         LowFourFirst(x, c) = LowFourFirst(y, d)
  PROVE  x = y <=> c = d
<1>1. 0 \in 0 .. 8 /\ \A i \in 0 .. 15 : i \in LowFourFirst(x, c) <=> i \in LowFourFirst(y, d)
  OBVIOUS
<1> QED BY <1>1, OctetBack

\* The number tells two octets if it tells the number before them.
LEMMA TwoOctets ==
  ASSUME NEW x \in Crcs, NEW c \in Octet, NEW d \in Octet, NEW e \in Octet, NEW f \in Octet,
         LowFourFirst(LowFourFirst(x, c), e) = LowFourFirst(LowFourFirst(x, d), f)
  PROVE  c = d /\ e = f
<1> DEFINE u == LowFourFirst(x, c)
           v == LowFourFirst(x, d)
<1>1. u \in Crcs /\ v \in Crcs
  BY OctetType
<1>2. 0 \in 0 .. 8 /\ 8 \in 0 .. 8 /\ 0 + 8 = 8
  OBVIOUS
<1>3. \A i \in 8 .. 15 : i \in LowFourFirst(x, c) <=> i \in LowFourFirst(x, d)
  <2> HIDE DEF u, v
  <2>1. \A i \in 0 .. 15 : i \in LowFourFirst(u, e) <=> i \in LowFourFirst(v, f)
    BY DEF u, v
  <2>2. \A i \in (0 + 8) .. 15 : i \in u <=> i \in v
    BY <1>1, <1>2, <2>1, OctetBack
  <2> QED BY <1>2, <2>2 DEF u, v
<1>4. c = d
  BY <1>2, <1>3, OctetBack
<1>5. u = v
  BY <1>4
<1> HIDE DEF u, v
<1>6. LowFourFirst(u, e) = LowFourFirst(v, f)
  BY DEF u, v
<1> QED BY <1>1, <1>4, <1>5, <1>6, OneOctet

\* The number tells the last octet if it tells the number before, from its upper half.
LEMMA UpperHalf ==
  ASSUME NEW x \in Crcs, NEW c \in Octet, NEW d \in Octet,
         \A i \in 8 .. 15 : i \in LowFourFirst(x, c) <=> i \in LowFourFirst(x, d)
  PROVE  c = d
<1>1. 8 \in 0 .. 8
  OBVIOUS
<1> QED BY <1>1, OctetBack

-------------------------------------------------------------------------------
(* The step of compute_fcs is division by the polynomial.                  *)

LEMMA DivideBitMembers ==
  ASSUME NEW r \in Crcs, NEW b \in BOOLEAN
  PROVE  /\ DivideBit(r, b) \in Crcs
         /\ \A i \in 0 .. 15 :
              i \in DivideBit(r, b) <=> ~(i + 1 \in r <=> (i \in {3, 10, 15} /\ ~((0 \in r) <=> b)))
<1> DEFINE s == ShiftRight(r, 1)
           t == {15, 10, 3}
<1>1. \A i \in 0 .. 15 : i \in s <=> i + 1 \in r
  <2>1. \A i \in 0 .. 15 : i \in s <=> \E k \in r \ (0 .. 0) : i = k - 1
    BY DEF ShiftRight
  <2>2. ASSUME NEW i \in 0 .. 15, NEW k \in r \ (0 .. 0), i = k - 1 PROVE i + 1 \in r
    <3>1. k \in 0 .. 15
      BY DEF Crcs
    <3>2. i + 1 = k
      BY <2>2, <3>1
    <3> QED BY <3>2
  <2>3. ASSUME NEW i \in 0 .. 15, i + 1 \in r PROVE \E k \in r \ (0 .. 0) : i = k - 1
    <3>1. i + 1 \in r \ (0 .. 0) /\ i = (i + 1) - 1
      BY <2>3
    <3> QED BY <3>1
  <2> QED BY <2>1, <2>2, <2>3
<1>2. s \subseteq 0 .. 15
  BY DEF ShiftRight, Crcs
<1>3. DivideBit(r, b) = IF (0 \in r) <=> b THEN s ELSE SymDiff(s, t)
  BY DEF DivideBit
<1>4. \A i \in 0 .. 15 : i \in SymDiff(s, t) <=> ~(i \in s <=> i \in t)
  BY DEF SymDiff
<1>5. SymDiff(s, t) \subseteq 0 .. 15
  BY <1>2 DEF SymDiff
<1> HIDE DEF s
<1>6. DivideBit(r, b) \in Crcs
  BY <1>2, <1>3, <1>5 DEF Crcs
<1>7. CASE (0 \in r) <=> b
  BY <1>1, <1>3, <1>6, <1>7
<1>8. CASE ~((0 \in r) <=> b)
  <2>1. \A i \in 0 .. 15 : i \in DivideBit(r, b) <=> ~(i \in s <=> i \in t)
    BY <1>3, <1>4, <1>8
  <2> QED BY <1>1, <1>6, <1>8, <2>1
<1> QED BY <1>7, <1>8

LEMMA FourBits ==
  ASSUME NEW x \in Crcs, NEW n \in Nibbles
  PROVE  Nibble(x, n) = DivideFour(x, n)
<1> DEFINE u == DivideBit(x, 0 \in n)
           v == DivideBit(u, 1 \in n)
           w == DivideBit(v, 2 \in n)
           z == DivideBit(w, 3 \in n)
           q == Added(x, n)
           T(i) == i \in {3, 10, 15}
<1>1. z = DivideFour(x, n)
  BY DEF DivideFour
<1>2. (0 \in n) \in BOOLEAN /\ (1 \in n) \in BOOLEAN /\ (2 \in n) \in BOOLEAN /\ (3 \in n) \in BOOLEAN
  OBVIOUS
<1>3. u \in Crcs /\ \A i \in 0 .. 15 : i \in u <=> ~(i + 1 \in x <=> (T(i) /\ ~((0 \in x) <=> (0 \in n))))
  BY <1>2, DivideBitMembers
<1> HIDE DEF u
<1>4. v \in Crcs /\ \A i \in 0 .. 15 : i \in v <=> ~(i + 1 \in u <=> (T(i) /\ ~((0 \in u) <=> (1 \in n))))
  BY <1>2, <1>3, DivideBitMembers
<1> HIDE DEF v
<1>5. w \in Crcs /\ \A i \in 0 .. 15 : i \in w <=> ~(i + 1 \in v <=> (T(i) /\ ~((0 \in v) <=> (2 \in n))))
  BY <1>2, <1>4, DivideBitMembers
<1> HIDE DEF w
<1>6. z \in Crcs /\ \A i \in 0 .. 15 : i \in z <=> ~(i + 1 \in w <=> (T(i) /\ ~((0 \in w) <=> (3 \in n))))
  BY <1>2, <1>5, DivideBitMembers
<1> HIDE DEF z
<1>7. ASSUME NEW i \in 0 .. 3 PROVE i \in q <=> ~(i \in x <=> i \in n)
  <2>1. i \in Low(x, 4) <=> i \in x
    BY DEF Low
  <2> QED BY <2>1 DEF Added, SymDiff
<1>8. q \subseteq 0 .. 3
  BY NibbleMembers DEF Nibbles
<1> HIDE DEF q
\* The lowest bit, when its turn comes, is still the one of x.
<1>9. 0 \in u <=> 1 \in x
  BY <1>3
<1>10. 1 \in u <=> 2 \in x
  BY <1>3
<1>11. 2 \in u <=> 3 \in x
  BY <1>3
<1>12. 0 \in v <=> 2 \in x
  BY <1>4, <1>10
<1>13. 1 \in v <=> 3 \in x
  BY <1>4, <1>11
<1>14. 0 \in w <=> 3 \in x
  BY <1>5, <1>13
<1>15. \A i \in 0 .. 15 : i \in u <=> ~(i + 1 \in x <=> (T(i) /\ 0 \in q))
  BY <1>3, <1>7
<1>16. \A i \in 0 .. 15 : i \in v <=> ~(i + 1 \in u <=> (T(i) /\ 1 \in q))
  BY <1>4, <1>7, <1>9
<1>17. \A i \in 0 .. 15 : i \in w <=> ~(i + 1 \in v <=> (T(i) /\ 2 \in q))
  BY <1>5, <1>7, <1>12
<1>18. \A i \in 0 .. 15 : i \in z <=> ~(i + 1 \in w <=> (T(i) /\ 3 \in q))
  BY <1>6, <1>7, <1>14
<1>19. ASSUME NEW i \in 16 .. 20 PROVE i \notin x /\ i \notin u /\ i \notin v /\ i \notin w /\ ~T(i)
  BY <1>3, <1>4, <1>5 DEF Crcs
<1>20. ASSUME NEW i \in 0 .. 15
       PROVE  i \in z <=> ~(i + 4 \in x <=>
                             ~((T(i + 3) /\ 0 \in q) <=>
                               ~((T(i + 2) /\ 1 \in q) <=> ~((T(i + 1) /\ 2 \in q) <=> (T(i) /\ 3 \in q)))))
  <2>0. (i + 1) + 1 = i + 2 /\ (i + 2) + 1 = i + 3 /\ (i + 3) + 1 = i + 4
        /\ i + 1 \in 0 .. 20 /\ i + 2 \in 0 .. 20 /\ i + 3 \in 0 .. 20 /\ i + 4 \in 0 .. 20
    OBVIOUS
  <2>1. i + 1 \in w <=> ~(i + 2 \in v <=> (T(i + 1) /\ 2 \in q))
    <3>1. CASE i + 1 \in 0 .. 15
      BY <1>17, <2>0, <3>1
    <3>2. CASE i + 1 \in 16 .. 20
      <4>1. i + 2 \in 16 .. 20
        BY <3>2
      <4> QED BY <1>19, <3>2, <4>1
    <3> QED BY <2>0, <3>1, <3>2
  <2>2. i + 2 \in v <=> ~(i + 3 \in u <=> (T(i + 2) /\ 1 \in q))
    <3>1. CASE i + 2 \in 0 .. 15
      BY <1>16, <2>0, <3>1
    <3>2. CASE i + 2 \in 16 .. 20
      <4>1. i + 3 \in 16 .. 20
        BY <3>2
      <4> QED BY <1>19, <3>2, <4>1
    <3> QED BY <2>0, <3>1, <3>2
  <2>3. i + 3 \in u <=> ~(i + 4 \in x <=> (T(i + 3) /\ 0 \in q))
    <3>1. CASE i + 3 \in 0 .. 15
      BY <1>15, <2>0, <3>1
    <3>2. CASE i + 3 \in 16 .. 20
      <4>1. i + 4 \in 16 .. 20
        BY <3>2
      <4> QED BY <1>19, <3>2, <4>1
    <3> QED BY <2>0, <3>1, <3>2
  <2>4. i \in z <=> ~(i + 1 \in w <=> (T(i) /\ 3 \in q))
    BY <1>18
  <2> HIDE DEF T
  <2> QED BY <2>1, <2>2, <2>3, <2>4
<1>21. ASSUME NEW i \in 0 .. 15
       PROVE  (i \in q \/ i - 7 \in q \/ i - 12 \in q) <=>
                             ~((T(i + 3) /\ 0 \in q) <=>
                               ~((T(i + 2) /\ 1 \in q) <=> ~((T(i + 1) /\ 2 \in q) <=> (T(i) /\ 3 \in q))))
  BY <1>8
<1>22. \A i \in 0 .. 15 :
        i \in Nibble(x, n) <=> ~((i + 4 \in x) <=> (i \in q \/ i - 7 \in q \/ i - 12 \in q))
  BY NibbleMembers DEF q
<1>23. \A i \in 0 .. 15 : i \in Nibble(x, n) <=> i \in z
  <2> HIDE DEF T
  <2> QED BY <1>20, <1>21, <1>22
<1>24. Nibble(x, n) \in Crcs /\ z \in Crcs
  BY <1>6, NibbleMembers
<1>25. Nibble(x, n) = z
  BY <1>23, <1>24 DEF Crcs
<1> QED BY <1>1, <1>25

\* compute_fcs divides as the standard does, octet by octet.
LEMMA OctetDivides ==
  \A x \in Crcs, c \in Octet : LowFourFirst(x, c) = Divided(x, c)
<1> SUFFICES ASSUME NEW x \in Crcs, NEW c \in Octet PROVE LowFourFirst(x, c) = Divided(x, c)
  OBVIOUS
<1>1. Places(c, 4) \in Nibbles /\ Places(c \div 16, 4) \in Nibbles
  BY PlacesType
<1>2. Nibble(x, Places(c, 4)) = DivideFour(x, Places(c, 4)) /\ Nibble(x, Places(c, 4)) \in Crcs
  BY <1>1, FourBits, NibbleMembers
<1> QED BY <1>1, <1>2, FourBits DEF LowFourFirst, Divided

-------------------------------------------------------------------------------
(* The loop of compute_fcs.                                                *)

\* The numbers after each octet.
IsRun(r, s) ==
    /\ \A k \in 0 .. Len(s) : r[k] \in Crcs
    /\ \A k \in 1 .. Len(s) : r[k] = LowFourFirst(r[k - 1], s[k])

LEMMA FcsRun ==
  ASSUME NEW s \in Seq(Octet)
  PROVE  \E r : r[0] = {} /\ IsRun(r, s) /\ ComputeFcs(s) = r[Len(s)]
<1> DEFINE n == Len(s)
           step == [x \in Crcs \X (1 .. n) |-> LowFourFirst(x[1], s[x[2]])]
           Iterates(it) == it = [S \in SUBSET DOMAIN s |->
                                   IF S = {} THEN {} ELSE LowFourFirst(it[S \ {Max(S)}], s[Max(S)])]
           iter == CHOOSE it : Iterates(it)
           r == [k \in 0 .. n |-> iter[1 .. k]]
<1>1. n \in Nat /\ DOMAIN s = 1 .. n /\ \A k \in 1 .. n : s[k] \in Octet
  BY LenProperties, ElementOfSeq
<1> HIDE DEF n
<1>2. {} \in Crcs /\ step \in [Crcs \X (1 .. n) -> Crcs]
  BY <1>1, OctetType DEF Crcs
<1>3. PICK it : Iteration(it, Crcs, {}, n, step)
  <2>1. n \in Nat
    BY <1>1
  <2> HIDE DEF step
  <2> QED BY <2>1, <1>2, FoldExists
<1>4. ASSUME NEW S \in SUBSET (1 .. n), S # {}
      PROVE  it[S] = LowFourFirst(it[S \ {Max(S)}], s[Max(S)])
  <2>1. Max(S) \in 1 .. n /\ it[S \ {Max(S)}] \in Crcs
    BY <1>1, <1>3, <1>4, MaxProperties DEF Iteration
  <2>2. <<it[S \ {Max(S)}], Max(S)>> \in Crcs \X (1 .. n)
    BY <2>1
  <2> QED BY <1>3, <1>4, <2>2 DEF Iteration
<1>5. it = [S \in SUBSET DOMAIN s |-> it[S]] /\ it[{}] = {}
  BY <1>1, <1>3 DEF Iteration
<1>6. Iterates(it)
  BY <1>1, <1>4, <1>5
<1>7. Iterates(iter)
  BY <1>6
<1>8. ComputeFcs(s) = iter[DOMAIN s]
  BY DEF ComputeFcs, FoldLeft, MapThenFoldSet
<1> HIDE DEF iter
<1>9. ASSUME NEW k \in 1 .. n PROVE iter[1 .. k] = LowFourFirst(iter[1 .. (k - 1)], s[k])
  <2>1. 1 .. k \in SUBSET DOMAIN s /\ 1 .. k # {} /\ Max(1 .. k) = k
        /\ (1 .. k) \ {k} = 1 .. (k - 1)
    BY <1>1, FirstIndices
  <2> QED BY <1>7, <2>1
<1>10. 1 .. 0 = {} /\ 0 \in 0 .. n /\ n \in 0 .. n
  BY <1>1
<1>11. r[0] = {} /\ ComputeFcs(s) = r[n]
  BY <1>1, <1>7, <1>8, <1>10
<1>12. \A k \in 1 .. n : r[k] = LowFourFirst(r[k - 1], s[k])
  BY <1>1, <1>9
<1> HIDE DEF r
<1>13. \A k \in 0 .. n : r[k] \in Crcs
  <2> DEFINE P == {k \in Nat : k <= n => r[k] \in Crcs}
  <2>1. 0 \in P
    BY <1>2, <1>11
  <2>2. ASSUME NEW k \in Nat, k \in P PROVE k + 1 \in P
    <3> SUFFICES ASSUME k + 1 <= n PROVE r[k + 1] \in Crcs
      OBVIOUS
    <3>1. k + 1 \in 1 .. n /\ (k + 1) - 1 = k /\ k <= n
      BY <1>1
    <3>2. r[k] \in Crcs
      BY <2>2, <3>1
    <3>3. r[k + 1] = LowFourFirst(r[k], s[k + 1])
      BY <1>12, <3>1
    <3> QED BY <1>1, <3>1, <3>2, <3>3, OctetType
  <2> HIDE DEF P
  <2>3. \A k \in Nat : k \in P
    BY <2>1, <2>2, SetInduction
  <2> QED BY <1>1, <2>3 DEF P
<1>14. IsRun(r, s)
  BY <1>12, <1>13 DEF n, IsRun
<1> QED BY <1>11, <1>14 DEF n

LEMMA FcsStep ==
  /\ ComputeFcs(<<>>) = {}
  /\ \A s \in Seq(Octet) : ComputeFcs(s) \in Crcs
  /\ \A s \in Seq(Octet), o \in Octet : ComputeFcs(Append(s, o)) = LowFourFirst(ComputeFcs(s), o)
<1>1. ComputeFcs(<<>>) = {}
  <2>1. <<>> \in Seq(Octet) /\ Len(<<>>) = 0
    BY EmptySeq
  <2> QED BY <2>1, FcsRun
<1>2. ASSUME NEW s \in Seq(Octet), NEW o \in Octet
      PROVE  ComputeFcs(Append(s, o)) = LowFourFirst(ComputeFcs(s), o)
  <2> DEFINE n == Len(s)
             t == Append(s, o)
  <2>1. t \in Seq(Octet) /\ n \in Nat /\ Len(t) = n + 1 /\ t[n + 1] = o /\ \A k \in 1 .. n : t[k] = s[k]
    BY LenProperties, AppendProperties
  <2>2. PICK r : r[0] = {} /\ (\A k \in 1 .. n : r[k] = LowFourFirst(r[k - 1], s[k])) /\ ComputeFcs(s) = r[n]
    BY FcsRun DEF IsRun
  <2> HIDE DEF n, t
  <2>3. PICK q : r[0] = q[0] /\ (\A k \in 1 .. n + 1 : q[k] = LowFourFirst(q[k - 1], t[k])) /\ ComputeFcs(t) = q[n + 1]
    BY <2>1, <2>2, FcsRun DEF IsRun
  <2>4. \A k \in 1 .. n : r[k - 1] = q[k - 1] => r[k] = q[k]
    BY <2>1, <2>2, <2>3
  <2>5. r[n] = q[n]
    BY <2>1, <2>3, <2>4, RunsAgree
  <2>6. n + 1 \in 1 .. n + 1 /\ (n + 1) - 1 = n
    BY <2>1
  <2>7. ComputeFcs(t) = LowFourFirst(ComputeFcs(s), o)
    BY <2>1, <2>2, <2>3, <2>5, <2>6
  <2> QED BY <2>7 DEF t
<1>3. ASSUME NEW s \in Seq(Octet) PROVE ComputeFcs(s) \in Crcs
  <2>1. Len(s) \in 0 .. Len(s)
    BY LenProperties
  <2> QED BY <2>1, FcsRun DEF IsRun
<1> QED BY <1>1, <1>2, <1>3

\* The FCS of any octets is that of the standard.
THEOREM FcsIsDivision ==
  ASSUME NEW s \in Seq(Octet), NEW k \in 1 .. Len(s)
  PROVE  ComputeFcs(SubSeq(s, 1, k)) = Divided(ComputeFcs(SubSeq(s, 1, k - 1)), s[k])
<1> DEFINE t == SubSeq(s, 1, k - 1)
<1>1. k - 1 \in 0 .. Len(s) /\ (k - 1) + 1 = k /\ s[k] \in Octet /\ Len(s) \in Nat
  BY LenProperties, ElementOfSeq
<1>2. t \in Seq(Octet) /\ SubSeq(s, 1, k) = Append(t, s[k])
  <2>1. t \in Seq(Octet) /\ Len(t) = k - 1 /\ \A i \in 1 .. k - 1 : t[i] = s[i]
    BY <1>1, SubSeqProperties
  <2>2. SubSeq(s, 1, k) \in Seq(Octet) /\ Len(SubSeq(s, 1, k)) = k /\ \A i \in 1 .. k : SubSeq(s, 1, k)[i] = s[i]
    BY <1>1, SubSeqProperties
  <2> HIDE DEF t
  <2>3. Append(t, s[k]) \in Seq(Octet) /\ Len(Append(t, s[k])) = k
        /\ (\A i \in 1 .. k - 1 : Append(t, s[k])[i] = t[i]) /\ Append(t, s[k])[k] = s[k]
    BY <1>1, <2>1, AppendProperties
  <2>4. \A i \in 1 .. k : SubSeq(s, 1, k)[i] = Append(t, s[k])[i]
    <3>1. \A i \in 1 .. k : i = k \/ i \in 1 .. k - 1
      OBVIOUS
    <3> QED BY <2>1, <2>2, <2>3, <3>1
  <2> QED BY <2>1, <2>2, <2>3, <2>4, SeqEqual
<1> HIDE DEF t
<1>3. ComputeFcs(t) \in Crcs /\ ComputeFcs(SubSeq(s, 1, k)) = LowFourFirst(ComputeFcs(t), s[k])
  BY <1>1, <1>2, FcsStep
<1>4. ComputeFcs(SubSeq(s, 1, k)) = Divided(ComputeFcs(t), s[k])
  BY <1>1, <1>3, OctetDivides
<1> QED BY <1>4 DEF t

-------------------------------------------------------------------------------
(* Bursts.                                                                 *)

LEMMA OctetTells ==
  /\ \A u \in SUBSET (0 .. 7) : OctetOf(u) \in Octet
  /\ \A u, v \in SUBSET (0 .. 7) : OctetOf(u) = OctetOf(v) => u = v
<1> DEFINE Of(u, i) == IF i \in u THEN 2^i ELSE 0
<1>1. /\ 2^0 = 1 /\ 2^1 = 2 /\ 2^2 = 4 /\ 2^3 = 8 /\ 2^4 = 16 /\ 2^5 = 32 /\ 2^6 = 64 /\ 2^7 = 128
  OBVIOUS
<1>2. ASSUME NEW u
      PROVE  OctetOf(u) = Of(u, 0) + Of(u, 1) + Of(u, 2) + Of(u, 3) + Of(u, 4) + Of(u, 5) + Of(u, 6) + Of(u, 7)
  BY DEF OctetOf
<1>3. ASSUME NEW u
      PROVE  /\ Of(u, 0) = (IF 0 \in u THEN 1 ELSE 0) /\ Of(u, 1) = (IF 1 \in u THEN 2 ELSE 0)
             /\ Of(u, 2) = (IF 2 \in u THEN 4 ELSE 0) /\ Of(u, 3) = (IF 3 \in u THEN 8 ELSE 0)
             /\ Of(u, 4) = (IF 4 \in u THEN 16 ELSE 0) /\ Of(u, 5) = (IF 5 \in u THEN 32 ELSE 0)
             /\ Of(u, 6) = (IF 6 \in u THEN 64 ELSE 0) /\ Of(u, 7) = (IF 7 \in u THEN 128 ELSE 0)
  BY <1>1
<1> HIDE DEF Of
<1>4. ASSUME NEW u \in SUBSET (0 .. 7) PROVE OctetOf(u) \in Octet
  <2>1. OctetOf(u) \in Int /\ OctetOf(u) >= 0 /\ OctetOf(u) <= 255
    BY <1>2, <1>3
  <2> QED BY <2>1 DEF Octet
<1>5. ASSUME NEW u \in SUBSET (0 .. 7), NEW v \in SUBSET (0 .. 7), OctetOf(u) = OctetOf(v) PROVE u = v
  <2>1. /\ 0 \in u <=> 0 \in v
        /\ 1 \in u <=> 1 \in v
        /\ 2 \in u <=> 2 \in v
        /\ 3 \in u <=> 3 \in v
        /\ 4 \in u <=> 4 \in v
        /\ 5 \in u <=> 5 \in v
        /\ 6 \in u <=> 6 \in v
        /\ 7 \in u <=> 7 \in v
    BY <1>2, <1>3, <1>5
  <2>2. \A i \in 0 .. 7 : i \in {0, 1, 2, 3, 4, 5, 6, 7}
    OBVIOUS
  <2>3. \A i \in 0 .. 7 : i \in u <=> i \in v
    BY <2>1, <2>2
  <2> QED BY <2>3
<1> QED BY <1>4, <1>5

\* The octets of the FCS.
FcsLow(s) == OctetOf(Low(ComputeFcs(s), 8))
FcsHigh(s) == OctetOf(ShiftRight(ComputeFcs(s), 8))

LEMMA FcsOctets ==
  ASSUME NEW x \in Crcs
  PROVE  Low(x, 8) \in SUBSET (0 .. 7) /\ ShiftRight(x, 8) \in SUBSET (0 .. 7)
<1>1. \A i \in Low(x, 8) : i \in 0 .. 7
  BY DEF Low, Crcs
<1>2. \A i \in ShiftRight(x, 8) : i \in 0 .. 7
  <2>1. \A i \in ShiftRight(x, 8) : \E k \in x \ 0 .. 7 : i = k - 8
    BY DEF ShiftRight
  <2>2. \A k \in x \ 0 .. 7 : k \in 8 .. 15
    BY DEF Crcs
  <2> QED BY <2>1, <2>2
<1> QED BY <1>1, <1>2

\* The halves tell the number.
LEMMA SameUpper ==
  ASSUME NEW x \in Crcs, NEW y \in Crcs, ShiftRight(x, 8) = ShiftRight(y, 8)
  PROVE  \A j \in 8 .. 15 : j \in x <=> j \in y
<1>1. ASSUME NEW z \in Crcs, NEW j \in 8 .. 15 PROVE j \in z <=> j - 8 \in ShiftRight(z, 8)
  <2>1. j - 8 \in ShiftRight(z, 8) <=> \E k \in z \ 0 .. 7 : j - 8 = k - 8
    BY DEF ShiftRight
  <2>2. \A k \in z \ 0 .. 7 : j - 8 = k - 8 => j = k
    BY DEF Crcs
  <2>3. j \in z => j \in z \ 0 .. 7
    OBVIOUS
  <2> QED BY <2>1, <2>2, <2>3
<1> QED BY <1>1

LEMMA SameHalves ==
  ASSUME NEW x \in Crcs, NEW y \in Crcs, Low(x, 8) = Low(y, 8), ShiftRight(x, 8) = ShiftRight(y, 8)
  PROVE  x = y
<1>1. \A j \in 0 .. 7 : (j \in Low(x, 8) <=> j \in x) /\ (j \in Low(y, 8) <=> j \in y)
  BY DEF Low
<1>2. \A j \in 8 .. 15 : j \in x <=> j \in y
  BY SameUpper
<1>3. \A j \in 0 .. 15 : j \in 0 .. 7 \/ j \in 8 .. 15
  OBVIOUS
<1> QED BY <1>1, <1>2, <1>3 DEF Crcs

LEMMA WithFcsOctets ==
  ASSUME NEW s \in Seq(Octet)
  PROVE  /\ WithFcs(s) \in Seq(Octet)
         /\ Len(WithFcs(s)) = Len(s) + 2
         /\ \A k \in 1 .. Len(s) : WithFcs(s)[k] = s[k]
         /\ WithFcs(s)[Len(s) + 1] = FcsLow(s)
         /\ WithFcs(s)[Len(s) + 2] = FcsHigh(s)
<1> DEFINE t == <<FcsLow(s), FcsHigh(s)>>
           n == Len(s)
<1>1. FcsLow(s) \in Octet /\ FcsHigh(s) \in Octet
  BY FcsStep, FcsOctets, OctetTells DEF FcsLow, FcsHigh
<1>2. WithFcs(s) = s \o t
  BY DEF WithFcs, FcsLow, FcsHigh
<1>3. t \in Seq(Octet) /\ Len(t) = 2 /\ t[1] = FcsLow(s) /\ t[2] = FcsHigh(s)
  BY <1>1
<1>4. n \in Nat
  BY LenProperties
<1> HIDE DEF t
<1>5. s \o t \in Seq(Octet) /\ Len(s \o t) = n + 2
      /\ \A i \in 1 .. n + 2 : (s \o t)[i] = IF i <= n THEN s[i] ELSE t[i - n]
  <2>1. s \o t \in Seq(Octet) /\ Len(s \o t) = Len(s) + Len(t)
        /\ \A i \in 1 .. Len(s) + Len(t) : (s \o t)[i] = IF i <= Len(s) THEN s[i] ELSE t[i - Len(s)]
    BY <1>3, ConcatProperties
  <2> QED BY <1>3, <2>1
<1> HIDE DEF n
<1>6. n + 1 \in 1 .. n + 2 /\ n + 2 \in 1 .. n + 2 /\ ~(n + 1 <= n) /\ ~(n + 2 <= n)
      /\ (n + 1) - n = 1 /\ (n + 2) - n = 2 /\ \A k \in 1 .. n : k \in 1 .. n + 2 /\ k <= n
  BY <1>4
<1>7. WithFcs(s) \in Seq(Octet) /\ Len(WithFcs(s)) = n + 2
  BY <1>2, <1>5
<1>8. \A k \in 1 .. n : WithFcs(s)[k] = s[k]
  BY <1>2, <1>5, <1>6
<1>9. WithFcs(s)[n + 1] = FcsLow(s) /\ WithFcs(s)[n + 2] = FcsHigh(s)
  BY <1>2, <1>3, <1>5, <1>6
<1> QED BY <1>7, <1>8, <1>9 DEF n

\* Runs over the same octets never meet if they have been apart.
LEMMA RunsMeet ==
  ASSUME NEW a \in Seq(Octet), NEW b \in Seq(Octet), Len(a) = Len(b), NEW m \in 0 .. Len(a),
         NEW r, NEW q, IsRun(r, a), IsRun(q, b),
         \A k \in m + 1 .. Len(a) : a[k] = b[k],
         r[Len(a)] = q[Len(a)]
  PROVE  r[m] = q[m]
<1> DEFINE n == Len(a)
<1>0. n \in Nat /\ Len(b) = n
      /\ (\A k \in 0 .. n : r[k] \in Crcs /\ q[k] \in Crcs)
      /\ (\A k \in 1 .. n : r[k] = LowFourFirst(r[k - 1], a[k]) /\ q[k] = LowFourFirst(q[k - 1], b[k]))
      /\ m \in 0 .. n
      /\ (\A k \in m + 1 .. n : a[k] = b[k])
      /\ r[n] = q[n]
      /\ \A k \in 1 .. n : a[k] \in Octet /\ b[k] \in Octet
  BY LenProperties, ElementOfSeq DEF IsRun
<1> HIDE DEF n
<1> DEFINE P == {k \in Nat : n - k >= m => r[n - k] = q[n - k]}
<1>1. 0 \in P
  BY <1>0
<1>2. ASSUME NEW k \in Nat, k \in P PROVE k + 1 \in P
  <2> SUFFICES ASSUME n - (k + 1) >= m PROVE r[n - (k + 1)] = q[n - (k + 1)]
    OBVIOUS
  <2> DEFINE j == n - k
  <2>1. j \in 1 .. n /\ j - 1 = n - (k + 1) /\ j \in m + 1 .. n /\ j >= m /\ j - 1 \in 0 .. n
    BY <1>0
  <2>2. r[j] = q[j]
    BY <1>2, <2>1
  <2> HIDE DEF j
  <2>3. LowFourFirst(r[j - 1], a[j]) = LowFourFirst(q[j - 1], b[j])
    BY <1>0, <2>1, <2>2
  <2>4. a[j] \in Octet /\ b[j] \in Octet /\ a[j] = b[j] /\ r[j - 1] \in Crcs /\ q[j - 1] \in Crcs
    BY <1>0, <2>1
  <2>5. r[j - 1] = q[j - 1]
    BY <2>3, <2>4, OneOctet
  <2> QED BY <2>1, <2>5
<1> HIDE DEF P
<1>3. \A k \in Nat : k \in P
  BY <1>1, <1>2, SetInduction
<1>4. n - m \in Nat /\ n - (n - m) = m /\ m >= m
  BY <1>0
<1>5. n - (n - m) >= m => r[n - (n - m)] = q[n - (n - m)]
  BY <1>3, <1>4 DEF P
<1> QED BY <1>4, <1>5

\* Two frames with the right FCS do not differ in two neighbouring octets alone,
\* wherever these are in the data and the FCS.
THEOREM BurstsAreCaught ==
  ASSUME NEW a \in Seq(Octet), NEW b \in Seq(Octet), Len(a) = Len(b), NEW i \in Int,
         \A k \in 1 .. Len(a) + 2 : k \notin {i, i + 1} => WithFcs(a)[k] = WithFcs(b)[k]
  PROVE  a = b
<1> DEFINE n == Len(a)
<1>1. n \in Nat /\ Len(b) = n
  BY LenProperties
<1>20. PICK r : r[0] = {} /\ IsRun(r, a) /\ ComputeFcs(a) = r[n]
  BY FcsRun
<1>30. PICK q : q[0] = {} /\ IsRun(q, b) /\ ComputeFcs(b) = q[n]
  BY <1>1, FcsRun
<1>2. /\ r[0] = {}
      /\ \A k \in 0 .. n : r[k] \in Crcs
      /\ \A k \in 1 .. n : r[k] = LowFourFirst(r[k - 1], a[k])
      /\ ComputeFcs(a) = r[n]
  BY <1>20 DEF IsRun
<1>3. /\ q[0] = {}
      /\ \A k \in 0 .. n : q[k] \in Crcs
      /\ \A k \in 1 .. n : q[k] = LowFourFirst(q[k - 1], b[k])
      /\ ComputeFcs(b) = q[n]
  BY <1>1, <1>30 DEF IsRun
<1>4. \A k \in 1 .. n : a[k] \in Octet /\ b[k] \in Octet
  BY <1>1, ElementOfSeq
<1>5. (\A k \in 1 .. n : a[k] = b[k]) => a = b
  BY <1>1, SeqEqual
<1>6. \A k \in 1 .. n : k \notin {i, i + 1} => a[k] = b[k]
  <2>2. (\A k \in 1 .. Len(a) : WithFcs(a)[k] = a[k]) /\ (\A k \in 1 .. Len(b) : WithFcs(b)[k] = b[k])
    BY <1>1, WithFcsOctets
  <2>3. \A k \in 1 .. n : k \in 1 .. n + 2
    BY <1>1
  <2>1. \A k \in 1 .. n : WithFcs(a)[k] = a[k] /\ WithFcs(b)[k] = b[k] /\ k \in 1 .. n + 2
    BY <1>1, <2>2, <2>3
  <2> QED BY <2>1
<1>7. n + 1 \notin {i, i + 1} => Low(r[n], 8) = Low(q[n], 8)
  <2> SUFFICES ASSUME n + 1 \notin {i, i + 1} PROVE Low(r[n], 8) = Low(q[n], 8)
    OBVIOUS
  <2>1. n + 1 \in 1 .. n + 2
    BY <1>1
  <2>2. WithFcs(a)[n + 1] = FcsLow(a) /\ WithFcs(b)[n + 1] = FcsLow(b)
    BY <1>1, WithFcsOctets
  <2>3. FcsLow(a) = FcsLow(b)
    BY <2>1, <2>2
  <2>4. r[n] \in Crcs /\ q[n] \in Crcs
    BY <1>1, <1>2, <1>3
  <2>5. Low(r[n], 8) \in SUBSET (0 .. 7) /\ Low(q[n], 8) \in SUBSET (0 .. 7)
    BY <2>4, FcsOctets
  <2>6. OctetOf(Low(r[n], 8)) = OctetOf(Low(q[n], 8))
    BY <1>2, <1>3, <2>3 DEF FcsLow
  <2> QED BY <2>5, <2>6, OctetTells
<1>8. n + 2 \notin {i, i + 1} => ShiftRight(r[n], 8) = ShiftRight(q[n], 8)
  <2> SUFFICES ASSUME n + 2 \notin {i, i + 1} PROVE ShiftRight(r[n], 8) = ShiftRight(q[n], 8)
    OBVIOUS
  <2>1. n + 2 \in 1 .. n + 2
    BY <1>1
  <2>2. WithFcs(a)[n + 2] = FcsHigh(a) /\ WithFcs(b)[n + 2] = FcsHigh(b)
    BY <1>1, WithFcsOctets
  <2>3. FcsHigh(a) = FcsHigh(b)
    BY <2>1, <2>2
  <2>4. r[n] \in Crcs /\ q[n] \in Crcs
    BY <1>1, <1>2, <1>3
  <2>5. ShiftRight(r[n], 8) \in SUBSET (0 .. 7) /\ ShiftRight(q[n], 8) \in SUBSET (0 .. 7)
    BY <2>4, FcsOctets
  <2>6. OctetOf(ShiftRight(r[n], 8)) = OctetOf(ShiftRight(q[n], 8))
    BY <1>2, <1>3, <2>3 DEF FcsHigh
  <2> QED BY <2>5, <2>6, OctetTells
<1> HIDE DEF n
\* The octets ahead of the burst.
<1>9. ASSUME NEW m \in 0 .. n, m < i PROVE r[m] = q[m]
  <2>1. \A k \in 1 .. m : k \in 1 .. n /\ k \notin {i, i + 1}
    BY <1>1, <1>9
  <2>2. \A k \in 1 .. m : r[k - 1] = q[k - 1] => r[k] = q[k]
    BY <1>2, <1>3, <1>6, <2>1
  <2>3. r[0] = q[0] /\ m \in Nat
    BY <1>1, <1>2, <1>3
  <2> QED BY <2>2, <2>3, RunsAgree
\* The octets behind it, if all of it is in the data.
<1>10. ASSUME NEW m \in 0 .. n, i + 1 <= m, i + 1 <= n PROVE r[m] = q[m]
  <2>1. n + 1 \notin {i, i + 1} /\ n + 2 \notin {i, i + 1}
    BY <1>1, <1>10
  <2>2. r[n] = q[n]
    BY <1>1, <1>2, <1>3, <1>7, <1>8, <2>1, SameHalves
  <2>3. \A k \in m + 1 .. n : a[k] = b[k]
    BY <1>1, <1>6, <1>10
  <2> USE DEF n
  <2> QED BY <1>1, <1>20, <1>30, <2>2, <2>3, RunsMeet
<1>11. CASE i \in 1 .. n - 1
  <2>1. i - 1 \in 0 .. n /\ i + 1 \in 0 .. n /\ i \in 1 .. n /\ i + 1 \in 1 .. n /\ (i + 1) - 1 = i
    BY <1>1, <1>11
  <2>2. r[i - 1] = q[i - 1] /\ r[i + 1] = q[i + 1]
    BY <1>9, <1>10, <2>1
  <2>3. /\ r[i + 1] = LowFourFirst(LowFourFirst(r[i - 1], a[i]), a[i + 1])
        /\ q[i + 1] = LowFourFirst(LowFourFirst(q[i - 1], b[i]), b[i + 1])
        /\ r[i - 1] \in Crcs
    BY <1>2, <1>3, <2>1
  <2>4. LowFourFirst(LowFourFirst(r[i - 1], a[i]), a[i + 1]) = LowFourFirst(LowFourFirst(r[i - 1], b[i]), b[i + 1])
    BY <2>2, <2>3
  <2>5. a[i] \in Octet /\ b[i] \in Octet /\ a[i + 1] \in Octet /\ b[i + 1] \in Octet
    BY <1>4, <2>1
  <2>6. a[i] = b[i] /\ a[i + 1] = b[i + 1]
    BY <2>3, <2>4, <2>5, TwoOctets
  <2> QED BY <1>5, <1>6, <2>6
<1>12. CASE i = 0 /\ n > 0
  <2>1. 1 \in 1 .. n /\ 1 - 1 = 0 /\ 0 \in 0 .. n /\ 1 \in 0 .. n
    BY <1>1, <1>12
  <2>2. r[1] = q[1] /\ r[0] = q[0]
    BY <1>2, <1>3, <1>10, <1>12, <2>1
  <2>3. r[1] = LowFourFirst(r[0], a[1]) /\ q[1] = LowFourFirst(q[0], b[1]) /\ r[0] \in Crcs
    BY <1>2, <1>3, <2>1
  <2>4. LowFourFirst(r[0], a[1]) = LowFourFirst(r[0], b[1]) /\ a[1] \in Octet /\ b[1] \in Octet
    BY <1>4, <2>1, <2>2, <2>3
  <2>5. a[1] = b[1]
    BY <2>3, <2>4, OneOctet
  <2> QED BY <1>5, <1>6, <1>12, <2>5
<1>13. CASE i = n /\ n > 0
  <2>1. n - 1 \in 0 .. n /\ n \in 1 .. n /\ n \in 0 .. n /\ n - 1 < i /\ n + 2 \notin {i, i + 1}
    BY <1>1, <1>13
  <2>2. r[n - 1] = q[n - 1]
    BY <1>9, <2>1
  <2>3. ShiftRight(r[n], 8) = ShiftRight(q[n], 8)
    BY <1>8, <2>1
  <2>4. r[n] \in Crcs /\ q[n] \in Crcs /\ r[n - 1] \in Crcs
    BY <1>2, <1>3, <2>1
  <2>5. \A j \in 8 .. 15 : j \in r[n] <=> j \in q[n]
    BY <2>3, <2>4, SameUpper
  <2>6. r[n] = LowFourFirst(r[n - 1], a[n]) /\ q[n] = LowFourFirst(r[n - 1], b[n])
    BY <1>2, <1>3, <2>1, <2>2
  <2>7. a[n] \in Octet /\ b[n] \in Octet
    BY <1>4, <2>1
  <2>8. a[n] = b[n]
    BY <2>4, <2>5, <2>6, <2>7, UpperHalf
  <2> QED BY <1>1, <1>5, <1>6, <1>13, <2>8
<1>14. CASE i \notin 0 .. n \/ n = 0
  <2>1. \A k \in 1 .. n : k \notin {i, i + 1}
    BY <1>1, <1>14
  <2> QED BY <1>5, <1>6, <2>1
<1> QED BY <1>1, <1>11, <1>12, <1>13, <1>14

-------------------------------------------------------------------------------
(* What is on the air.                                                     *)

USE MacFrameAssumption

LEMMA ControlOctets ==
  \A c \in Controls : WriteControl(c) \in Seq(Octet) /\ Len(WriteControl(c)) = 2
<1> SUFFICES ASSUME NEW c \in Controls PROVE WriteControl(c) \in Seq(Octet) /\ Len(WriteControl(c)) = 2
  OBVIOUS
<1>1. /\ c.type \in 0 .. 7 /\ c.security \in 0 .. 1 /\ c.pending \in 0 .. 1 /\ c.ack \in 0 .. 1
      /\ c.compression \in 0 .. 1 /\ c.reserved \in 0 .. 1 /\ c.suppression \in 0 .. 1
      /\ c.elements \in 0 .. 1 /\ c.dest \in 0 .. 3 /\ c.version \in 0 .. 3 /\ c.src \in 0 .. 3
  BY DEF Controls
<1> DEFINE x == c.type + 8 * c.security + 16 * c.pending + 32 * c.ack + 64 * c.compression + 128 * c.reserved
           y == c.suppression + 2 * c.elements + 4 * c.dest + 16 * c.version + 64 * c.src
<1>2. x \in Octet /\ y \in Octet
  <2> DEFINE First(a, b, d, e, g, h) == a + 8 * b + 16 * d + 32 * e + 64 * g + 128 * h
             Second(a, b, d, e, g) == a + 2 * b + 4 * d + 16 * e + 64 * g
  <2>1. \A a \in 0 .. 7, b, d, e, g, h \in 0 .. 1 : First(a, b, d, e, g, h) \in 0 .. 255
    OBVIOUS
  <2>2. \A a, b \in 0 .. 1, d, e, g \in 0 .. 3 : Second(a, b, d, e, g) \in 0 .. 255
    OBVIOUS
  <2>5. /\ x = First(c.type, c.security, c.pending, c.ack, c.compression, c.reserved)
        /\ y = Second(c.suppression, c.elements, c.dest, c.version, c.src)
    OBVIOUS
  <2> HIDE DEF First, Second, x, y
  <2>3. x \in 0 .. 255
    BY <1>1, <2>1, <2>5
  <2>4. y \in 0 .. 255
    BY <1>1, <2>2, <2>5
  <2> QED BY <2>3, <2>4 DEF Octet
<1>3. WriteControl(c) = <<x, y>>
  BY DEF WriteControl
<1> HIDE DEF x, y
<1> QED BY <1>2, <1>3

LEMMA FrameOctets ==
  ASSUME NEW f, IsFrame(f), NEW l \in Languages
  PROVE  /\ SourcePan(l, f) \in Seq(Octet)
         /\ WriteControl(f.control) \o f.seq \o f.destPan \o f.dest \o SourcePan(l, f) \o f.src \o f.payload \in Seq(Octet)
<1>1. /\ f.control \in Controls /\ f.seq \in Seq(Octet) /\ f.destPan \in Seq(Octet) /\ f.dest \in Seq(Octet)
      /\ f.srcPan \in Seq(Octet) /\ f.src \in Seq(Octet) /\ f.payload \in Seq(Octet)
  BY DEF IsFrame
<1>2. <<>> \in Seq(Octet)
  BY EmptySeq
<1>3. SourcePan(l, f) \in Seq(Octet)
  <2>1. SourcePan(l, f) \in {<<>>, f.srcPan}
    <3>1. f.control.compression = 0 \/ f.control.compression = 1
      BY <1>1 DEF Controls
    <3>2. CASE f.control.compression = 1
      BY <3>2 DEF SourcePan
    <3>3. CASE f.control.compression = 0 /\ l = "rust"
      BY <3>3 DEF SourcePan
    <3>4. CASE f.control.compression = 0 /\ l # "rust"
      BY <3>4 DEF SourcePan
    <3> QED BY <3>1, <3>2, <3>3, <3>4
  <2> QED BY <1>1, <1>2, <2>1
<1>4. WriteControl(f.control) \in Seq(Octet)
  BY <1>1, ControlOctets
<1>5. \A s, u \in Seq(Octet) : s \o u \in Seq(Octet)
  BY ConcatProperties
<1> DEFINE w == WriteControl(f.control)
           pan == SourcePan(l, f)
           b == w \o f.seq
           c == b \o f.destPan
           d == c \o f.dest
           e == d \o pan
           g == e \o f.src
<1> HIDE DEF w, pan
<1>6. b \in Seq(Octet)
  BY <1>1, <1>4, <1>5 DEF w
<1> HIDE DEF b
<1>7. c \in Seq(Octet)
  BY <1>1, <1>5, <1>6
<1> HIDE DEF c
<1>8. d \in Seq(Octet)
  BY <1>1, <1>5, <1>7
<1> HIDE DEF d
<1>9. e \in Seq(Octet)
  BY <1>3, <1>5, <1>8 DEF pan
<1> HIDE DEF e
<1>10. g \in Seq(Octet)
  BY <1>1, <1>5, <1>9
<1> HIDE DEF g
<1>11. g \o f.payload \in Seq(Octet)
  BY <1>1, <1>5, <1>10
<1> QED BY <1>3, <1>11 DEF b, c, d, e, g, w, pan

LEMMA PacketsHaveFcs ==
  ASSUME NEW p \in Packets
  PROVE  \E data \in Seq(Octet) : p.air = WithFcs(data)
<1>1. CASE \E s \in {s \in Languages \X Built : CanWrite(s[1], s[2])} : p.air = Octets(s[1], s[2])
  <2>1. PICK l \in Languages, f \in Built : p.air = Octets(l, f)
    BY <1>1
  <2>2. IsFrame(f)
    BY DEF MacFrameAssumption
  <2> QED BY <2>1, <2>2, FrameOctets DEF Octets
<1>2. CASE \E data \in Foreign : p.air = WithFcs(data)
  BY <1>2 DEF MacFrameAssumption
<1>3. \/ \E s \in {s \in Languages \X Built : CanWrite(s[1], s[2])} : p.air = Octets(s[1], s[2])
      \/ \E data \in Foreign : p.air = WithFcs(data)
  BY DEF Packets
<1> QED BY <1>1, <1>2, <1>3

-------------------------------------------------------------------------------
(* The inductive invariant of the air and its readers.                     *)

\* The octets are those of a packet but where they were damaged, which is in no
\* octets but two neighbours, and the readers have read what is there.
AirInv ==
    /\ air \in Seq(Octet)
    /\ \E p \in Packets :
          /\ written = p.written /\ writer = p.writer /\ Len(air) = Len(p.air)
          /\ \A i \in 1 .. Len(air) : air[i] = p.air[i] <=> i \notin damaged
    /\ damaged \subseteq 1 .. Len(air)
    /\ \A i, j \in damaged : i - j \in -1 .. 1
    /\ DOMAIN outcome = Languages /\ DOMAIN frame = Languages
    /\ \A l \in Languages : outcome[l] # "unread" =>
          /\ outcome[l] = Outcome(l, air)
          /\ frame[l] = IF outcome[l] = "frame" THEN <<Fields(l, Body(l, air))>> ELSE <<>>

\* A packet that comes into being.
Fresh ==
    /\ \E p \in Packets : written = p.written /\ writer = p.writer /\ air = p.air
    /\ damaged = {}
    /\ outcome = [l \in Languages |-> "unread"]
    /\ frame = [l \in Languages |-> <<>>]

LEMMA FreshInv == Fresh => AirInv
<1> SUFFICES ASSUME Fresh PROVE AirInv
  OBVIOUS
<1>1. PICK p \in Packets : written = p.written /\ writer = p.writer /\ air = p.air
  BY DEF Fresh
<1>2. air \in Seq(Octet)
  BY <1>1, PacketsHaveFcs, WithFcsOctets
<1>3. damaged = {} /\ DOMAIN outcome = Languages /\ DOMAIN frame = Languages
      /\ \A l \in Languages : outcome[l] = "unread"
  BY DEF Fresh
<1>4. \A i \in 1 .. Len(air) : air[i] = p.air[i] <=> i \notin damaged
  BY <1>1, <1>3
<1> QED BY <1>1, <1>2, <1>3, <1>4 DEF AirInv

LEMMA DamageInv ==
  ASSUME AirInv, NEW i \in DOMAIN air, NEW n \in Noise, Damage(i, n)
  PROVE  AirInv'
<1>1. PICK p \in Packets :
          /\ written = p.written /\ writer = p.writer /\ Len(air) = Len(p.air)
          /\ \A k \in 1 .. Len(air) : air[k] = p.air[k] <=> k \notin damaged
  BY DEF AirInv
<1>2. /\ air \in Seq(Octet) /\ DOMAIN air = 1 .. Len(air) /\ i \in 1 .. Len(air) /\ air[i] \in Octet
      /\ Len(air) \in Nat
  BY LenProperties, ElementOfSeq DEF AirInv
<1>3. n \in 1 .. 255 /\ MaxDamaged \in 0 .. 2
  BY DEF MacFrameAssumption
<1>4. /\ \A l \in Languages : outcome[l] = "unread"
      /\ i \notin damaged
      /\ damaged \subseteq (i - MaxDamaged + 1) .. (i + MaxDamaged - 1)
      /\ damaged' = damaged \cup {i}
      /\ air' = [air EXCEPT ![i] = (air[i] + n) % 256]
      /\ UNCHANGED <<written, writer, outcome, frame>>
  BY DEF Damage
<1> DEFINE o == (air[i] + n) % 256
<1>5. o \in Octet /\ o # air[i]
  <2>1. \A v \in 0 .. 255, m \in 1 .. 255 : (v + m) % 256 \in 0 .. 255 /\ (v + m) % 256 # v
    <3> SUFFICES ASSUME NEW v \in 0 .. 255, NEW m \in 1 .. 255
                 PROVE  (v + m) % 256 \in 0 .. 255 /\ (v + m) % 256 # v
      OBVIOUS
    <3>1. (v + m) % 256 = IF v + m < 256 THEN v + m ELSE v + m - 256
      OBVIOUS
    <3> QED BY <3>1
  <2> QED BY <1>2, <1>3, <2>1 DEF Octet
<1> HIDE DEF o
<1>6. air' \in Seq(Octet) /\ Len(air') = Len(air) /\ air'[i] = o /\ \A k \in 1 .. Len(air) : k # i => air'[k] = air[k]
  <2>1. air' = [air EXCEPT ![i] = o]
    BY <1>4 DEF o
  <2> QED BY <1>2, <1>5, <2>1, ExceptSeq
<1>7. \A k \in 1 .. Len(air) : air'[k] = p.air[k] <=> k \notin damaged'
  BY <1>1, <1>2, <1>4, <1>5, <1>6
<1>8. damaged' \subseteq 1 .. Len(air')
  BY <1>2, <1>4, <1>6 DEF AirInv
<1>9. \A j, k \in damaged' : j - k \in -1 .. 1
  <2>1. \A j \in damaged : j \in i - 1 .. i + 1 /\ j \in Int
    <3>1. \A j \in damaged : j \in (i - MaxDamaged + 1) .. (i + MaxDamaged - 1)
      BY <1>4
    <3> QED BY <1>2, <1>3, <3>1
  <2>2. \A j \in damaged : i - j \in -1 .. 1 /\ j - i \in -1 .. 1
    BY <1>2, <2>1
  <2>3. i - i \in -1 .. 1
    BY <1>2
  <2>4. \A j, k \in damaged : j - k \in -1 .. 1
    BY DEF AirInv
  <2> QED BY <1>4, <2>2, <2>3, <2>4
<1>10. /\ DOMAIN outcome' = Languages /\ DOMAIN frame' = Languages
       /\ \A l \in Languages : outcome'[l] = "unread"
  BY <1>4 DEF AirInv
<1>11. /\ written' = p.written /\ writer' = p.writer /\ Len(air') = Len(p.air)
       /\ \A k \in 1 .. Len(air') : air'[k] = p.air[k] <=> k \notin damaged'
  BY <1>1, <1>4, <1>6, <1>7
<1>12. Packets' = Packets
  BY DEF Packets
<1> QED BY <1>6, <1>8, <1>9, <1>10, <1>11, <1>12 DEF AirInv

LEMMA ReadInv ==
  ASSUME AirInv, NEW l \in Languages, Read(l)
  PROVE  AirInv'
<1>1. /\ outcome' = [outcome EXCEPT ![l] = Outcome(l, air)]
      /\ frame' = [frame EXCEPT ![l] = IF Outcome(l, air) = "frame" THEN <<Fields(l, Body(l, air))>> ELSE <<>>]
      /\ UNCHANGED <<written, writer, air, damaged>>
  BY DEF Read
<1>2. /\ DOMAIN outcome' = Languages /\ DOMAIN frame' = Languages
      /\ outcome'[l] = Outcome(l, air)
      /\ frame'[l] = IF Outcome(l, air) = "frame" THEN <<Fields(l, Body(l, air))>> ELSE <<>>
      /\ \A m \in Languages \ {l} : outcome'[m] = outcome[m] /\ frame'[m] = frame[m]
  BY <1>1 DEF AirInv
<1>3. ASSUME NEW m \in Languages, outcome'[m] # "unread"
      PROVE  /\ outcome'[m] = Outcome(m, air')
             /\ frame'[m] = IF outcome'[m] = "frame" THEN <<Fields(m, Body(m, air'))>> ELSE <<>>
  <2>1. air' = air
    BY <1>1
  <2>2. CASE m = l
    BY <1>2, <2>1, <2>2
  <2>3. CASE m # l
    <3>1. outcome'[m] = outcome[m] /\ frame'[m] = frame[m]
      BY <1>2, <2>3
    <3>2. /\ outcome[m] = Outcome(m, air)
          /\ frame[m] = IF outcome[m] = "frame" THEN <<Fields(m, Body(m, air))>> ELSE <<>>
      BY <1>3, <3>1 DEF AirInv
    <3> QED BY <2>1, <3>1, <3>2
  <2> QED BY <2>2, <2>3
<1>4. /\ air' \in Seq(Octet)
      /\ \E p \in Packets :
          /\ written' = p.written /\ writer' = p.writer /\ Len(air') = Len(p.air)
          /\ \A i \in 1 .. Len(air') : air'[i] = p.air[i] <=> i \notin damaged'
      /\ damaged' \subseteq 1 .. Len(air')
      /\ \A i, j \in damaged' : i - j \in -1 .. 1
  BY <1>1 DEF AirInv
<1>5. Packets' = Packets
  BY DEF Packets
<1> QED BY <1>2, <1>3, <1>4, <1>5 DEF AirInv

LEMMA AirStutter ==
  ASSUME AirInv, UNCHANGED macVars
  PROVE  AirInv'
<1>1. /\ air' = air /\ written' = written /\ writer' = writer /\ damaged' = damaged
      /\ outcome' = outcome /\ frame' = frame
  BY DEF macVars
<1>2. Packets' = Packets
  BY DEF Packets
<1> QED BY <1>1, <1>2 DEF AirInv

\* Every step of the air and the readers; DumpPcap adds the packets that follow.
LEMMA AirStep ==
  ASSUME AirInv, [DumpNext]_<<macVars, dumpVars>>
  PROVE  AirInv'
<1>1. CASE MacNext
  <2>1. CASE \E i \in DOMAIN air, n \in Noise : Damage(i, n)
    BY <2>1, DamageInv
  <2>2. CASE \E l \in Languages : Read(l)
    BY <2>2, ReadInv
  <2> QED BY <1>1, <2>1, <2>2 DEF MacNext
<1>2. CASE Dump
  BY <1>2, AirStutter DEF Dump
<1>3. CASE NextPacket
  <2>1. Packets' = Packets /\ Languages' = Languages
    BY DEF Packets
  <2>2. Fresh'
    BY <1>3, <2>1 DEF NextPacket, Fresh
  <2>3. Fresh' => AirInv'
    BY FreshInv, PTL
  <2> QED BY <2>2, <2>3
<1>4. CASE UNCHANGED <<macVars, dumpVars>>
  BY <1>4, AirStutter
<1> QED BY <1>1, <1>2, <1>3, <1>4 DEF DumpNext

\* What the air has damaged does not have the FCS of its data.
LEMMA DamagedNotAccepted ==
  ASSUME AirInv, damaged # {}
  PROVE  ~Accepts("rust", air)
<1> SUFFICES ASSUME Accepts("rust", air) PROVE FALSE
  OBVIOUS
<1>1. PICK p \in Packets :
          /\ Len(air) = Len(p.air)
          /\ \A k \in 1 .. Len(air) : air[k] = p.air[k] <=> k \notin damaged
  BY DEF AirInv
<1>2. PICK data \in Seq(Octet) : p.air = WithFcs(data)
  BY PacketsHaveFcs
<1> DEFINE body == SubSeq(air, 1, Len(air) - 2)
<1>3. air \in Seq(Octet) /\ Len(air) \in Nat /\ Len(data) \in Nat
  BY LenProperties DEF AirInv
<1>4. air = WithFcs(body) /\ Len(air) >= 4
  BY DEF Accepts, Body
<1>5. body \in Seq(Octet) /\ Len(body) = Len(air) - 2
  <2> DEFINE m == Len(air) - 2
  <2>1. m \in 0 .. Len(air) /\ m \in 1 .. Len(air) /\ m - 1 + 1 = m
    BY <1>3, <1>4
  <2> HIDE DEF m
  <2>2. SubSeq(air, 1, m) \in Seq(Octet) /\ Len(SubSeq(air, 1, m)) = m
    BY <1>3, <2>1, SubSeqProperties
  <2> QED BY <2>2 DEF m
<1>6. Len(p.air) = Len(data) + 2
  BY <1>2, WithFcsOctets
<1> HIDE DEF body
<1>7. Len(data) = Len(body) /\ Len(body) + 2 = Len(air)
  BY <1>1, <1>3, <1>5, <1>6
<1>8. \E i \in Int : damaged \subseteq {i, i + 1}
  <2>1. PICK j \in damaged : TRUE
    OBVIOUS
  <2>2. damaged \subseteq Int
    BY <1>3 DEF AirInv
  <2>3. \A m, k \in damaged : m - k \in -1 .. 1
    BY DEF AirInv
  <2>4. CASE j + 1 \in damaged
    <3>1. \A m \in damaged : m \in {j, j + 1}
      BY <2>1, <2>2, <2>3, <2>4
    <3> QED BY <2>1, <2>2, <3>1
  <2>5. CASE j + 1 \notin damaged
    <3>1. \A m \in damaged : m \in {j - 1, (j - 1) + 1}
      BY <2>1, <2>2, <2>3, <2>5
    <3>2. j - 1 \in Int
      BY <2>1, <2>2
    <3> QED BY <3>1, <3>2
  <2> QED BY <2>4, <2>5
<1>9. PICK i \in Int : damaged \subseteq {i, i + 1}
  BY <1>8
<1>10. \A k \in 1 .. Len(data) + 2 : k \notin {i, i + 1} => WithFcs(data)[k] = WithFcs(body)[k]
  BY <1>1, <1>2, <1>4, <1>7, <1>9
<1>11. data = body
  BY <1>5, <1>7, <1>10, BurstsAreCaught
<1>12. air = p.air
  BY <1>2, <1>4, <1>11
<1>13. \A k \in 1 .. Len(air) : k \notin damaged
  BY <1>1, <1>12
<1> QED BY <1>13 DEF AirInv

LEMMA AirAlways == DumpSpec => []AirInv
<1>1. DumpInit => AirInv
  <2>1. MacInit => Fresh
    BY DEF MacInit, Fresh
  <2> QED BY <2>1, FreshInv DEF DumpInit
<1>2. AirInv /\ [DumpNext]_<<macVars, dumpVars>> => AirInv'
  BY AirStep
<1> QED BY <1>1, <1>2, PTL DEF DumpSpec

\* Rust takes no damaged frame.
THEOREM DamageIsAlwaysCaught == DumpSpec => []DamageIsCaught
<1>1. AirInv => DamageIsCaught
  <2> SUFFICES ASSUME AirInv, damaged # {}, outcome["rust"] # "unread" PROVE outcome["rust"] = "error"
    BY DEF DamageIsCaught
  <2>1. "rust" \in Languages
    BY DEF Languages
  <2>2. outcome["rust"] = Outcome("rust", air)
    BY <2>1 DEF AirInv
  <2>3. Outcome("rust", air) = "error"
    BY DamagedNotAccepted DEF Outcome
  <2> QED BY <2>2, <2>3
<1> QED BY <1>1, AirAlways, PTL

\* Both languages' FCS is the CRC of the standard.
THEOREM FcsIsAlwaysCrc16 == DumpSpec => []FcsIsCrc16
<1>1. AirInv => FcsIsCrc16
  BY FcsIsDivision DEF AirInv, FcsIsCrc16
<1> QED BY <1>1, AirAlways, PTL

-------------------------------------------------------------------------------
(* The capture.                                                            *)

LEMMA BodyOfPacket ==
  ASSUME NEW data \in Seq(Octet)
  PROVE  SubSeq(WithFcs(data), 1, Len(WithFcs(data)) - 2) = data
<1> DEFINE s == WithFcs(data)
           n == Len(data)
<1>1. n \in Nat /\ s \in Seq(Octet) /\ Len(s) = n + 2 /\ (n + 2) - 2 = n /\ \A k \in 1 .. n : s[k] = data[k]
  BY LenProperties, WithFcsOctets
<1>2. \A k \in 1 .. n : data[k] \in Octet
  BY ElementOfSeq
<1> HIDE DEF s
<1> DEFINE u == SubSeq(s, 1, n)
<1>3. u \in Seq(Octet) /\ Len(u) = n /\ \A k \in 1 .. n : u[k] = data[k]
  <2>1. n \in Int /\ (IF 1 <= n THEN n - 1 + 1 ELSE 0) = n /\ n - 1 + 1 = n /\ \A k \in 1 .. n : 1 + k - 1 = k
    BY <1>1
  <2>2. \A k \in 1 .. n : s[k] \in Octet
    BY <1>1, <1>2
  <2> HIDE DEF n
  <2>3. u \in Seq(Octet) /\ Len(u) = (IF 1 <= n THEN n - 1 + 1 ELSE 0) /\ \A k \in 1 .. n - 1 + 1 : u[k] = s[1 + k - 1]
    BY <2>1, <2>2, SubSeqProperties
  <2> QED BY <1>1, <2>1, <2>3
<1> HIDE DEF u
<1>4. u = data
  BY <1>3, SeqEqual
<1> QED BY <1>1, <1>4 DEF u, s

\* An undamaged packet is made again from its body.
LEMMA Remade ==
  ASSUME AirInv, damaged = {}
  PROVE  WithFcs(SubSeq(air, 1, Len(air) - 2)) = air
<1>1. PICK p \in Packets :
          /\ Len(air) = Len(p.air)
          /\ \A k \in 1 .. Len(air) : air[k] = p.air[k] <=> k \notin damaged
  BY DEF AirInv
<1>2. PICK data \in Seq(Octet) : p.air = WithFcs(data)
  BY PacketsHaveFcs
<1>3. p.air \in Seq(Octet) /\ air \in Seq(Octet)
  BY <1>2, WithFcsOctets DEF AirInv
<1>4. air = p.air
  BY <1>1, <1>3, SeqEqual
<1> QED BY <1>2, <1>4, BodyOfPacket

LEMMA NotAccepted ==
  \A s : Outcome("rust", s) # "error" => Accepts("rust", s)
  BY DEF Outcome

CaptureInv ==
    /\ inFile \in BOOLEAN
    /\ DumpedAsCaptured

LEMMA DumpInv ==
  ASSUME AirInv, CaptureInv, Dump
  PROVE  CaptureInv'
<1> DEFINE p == Found(Packet)
           ok == p # "unknown" /\ Reads(p, Packet) = "frame"
<1>1. /\ dumper = "waiting"
      /\ inFile \/ damaged = {}
      /\ present' = p
      /\ misleading' = IF present = "unknown" THEN Misleads ELSE misleading
      /\ dumper' = IF ok THEN "done" ELSE "dead"
      /\ dumped' = IF ok THEN <<Fields("rust", Body("rust", Candidate(p, Packet)))>> ELSE <<>>
      /\ inFile' = inFile /\ air' = air /\ damaged' = damaged
  BY DEF Dump, macVars
<1>2. inFile \in BOOLEAN
  BY DEF CaptureInv
<1>3. inFile => Packet = air
  BY DEF Packet
<1>4. ~inFile => WithFcs(Packet) = air
  BY <1>1, Remade DEF Packet
<1>5. (p # "unknown" /\ (p = "yes" <=> inFile)) => Candidate(p, Packet) = air
  BY <1>2, <1>3, <1>4 DEF Candidate
<1>6. present # "unknown" => p = present
  BY DEF Found
<1>7. present = "unknown" =>
        p = IF Reads("yes", Packet) = "frame" THEN "yes"
            ELSE IF Reads("yes", Packet) = "error" /\ Reads("no", Packet) = "frame" THEN "no" ELSE "unknown"
  BY DEF Found
<1> HIDE DEF p
<1>8. Reads("yes", Packet) = Outcome("rust", Packet) /\ Reads("no", Packet) = Outcome("rust", WithFcs(Packet))
  BY DEF Reads, Candidate
<1>9. (p # "unknown" /\ (p = "yes" <=> inFile)) => Reads(p, Packet) = Outcome("rust", air)
  BY <1>5 DEF Reads
<1>10. Misjudged' <=> (p # "unknown" /\ ~(p = "yes" <=> inFile))
  BY <1>1, <1>2 DEF Misjudged
<1>11. Misjudged' => misleading'
  <2> SUFFICES ASSUME Misjudged' PROVE misleading'
    OBVIOUS
  <2>1. CASE present # "unknown"
    <3>1. Misjudged
      BY <1>2, <1>6, <1>10, <2>1 DEF Misjudged
    <3> QED BY <1>1, <2>1, <3>1 DEF CaptureInv, DumpedAsCaptured
  <2>2. CASE present = "unknown" /\ inFile
    <3>1. p = "no"
      BY <1>7, <1>10, <2>2
    <3>2. Outcome("rust", air) # "frame"
      BY <1>3, <1>7, <1>8, <2>2, <3>1
    <3> QED BY <1>1, <2>2, <3>2 DEF Misleads, IsReadable
  <2>3. CASE present = "unknown" /\ ~inFile
    <3>1. Outcome("rust", Packet) = "frame"
      BY <1>7, <1>8, <1>10, <2>3
    <3>2. Accepts("rust", Packet)
      BY <3>1, NotAccepted
    <3> QED BY <1>1, <2>3, <3>2 DEF Misleads
  <2> QED BY <1>2, <2>1, <2>2, <2>3
<1>12. (dumper' = "done" /\ ~Misjudged') => damaged' = {} /\ dumped' = <<Fields("rust", Body("rust", air'))>>
  <2> SUFFICES ASSUME dumper' = "done", ~Misjudged'
               PROVE  damaged = {} /\ dumped' = <<Fields("rust", Body("rust", air))>>
    BY <1>1
  <2>1. ok
    BY <1>1
  <2>2. Candidate(p, Packet) = air /\ Outcome("rust", air) = "frame"
    BY <1>5, <1>9, <1>10, <2>1
  <2>3. damaged = {}
    BY <2>2, NotAccepted, DamagedNotAccepted
  <2> QED BY <1>1, <2>1, <2>2, <2>3
<1>13. (dumper' = "dead" /\ ~Misjudged') => ~IsReadable' \/ misleading'
  <2> SUFFICES ASSUME dumper' = "dead", ~Misjudged', ~misleading' PROVE Outcome("rust", air) # "frame"
    BY <1>1 DEF IsReadable
  <2>1. ~ok
    BY <1>1
  <2>2. CASE p # "unknown"
    BY <1>9, <1>10, <2>1, <2>2
  <2>3. CASE p = "unknown" /\ inFile
    BY <1>3, <1>6, <1>7, <1>8, <2>3
  <2>4. CASE p = "unknown" /\ ~inFile
    <3>1. present = "unknown"
      BY <1>6, <2>4
    <3>2. ~Misleads
      BY <1>1, <3>1
    <3>3. Outcome("rust", Packet) = "error"
      BY <2>4, <3>2, NotAccepted DEF Misleads
    <3> QED BY <1>4, <1>7, <1>8, <2>4, <3>1, <3>3
  <2> QED BY <1>2, <2>2, <2>3, <2>4
<1> QED BY <1>1, <1>2, <1>11, <1>12, <1>13 DEF CaptureInv, DumpedAsCaptured

LEMMA CaptureStep ==
  ASSUME AirInv, CaptureInv, [DumpNext]_<<macVars, dumpVars>>
  PROVE  CaptureInv'
<1>1. CASE MacNext /\ dumper = "waiting" /\ UNCHANGED dumpVars
  <2>1. /\ inFile' = inFile /\ present' = present /\ misleading' = misleading /\ dumper' = "waiting"
    BY <1>1 DEF dumpVars
  <2> QED BY <2>1 DEF CaptureInv, DumpedAsCaptured, Misjudged
<1>2. CASE Dump
  BY <1>2, DumpInv
<1>3. CASE NextPacket
  <2>1. /\ inFile' = inFile /\ present' = present /\ misleading' = misleading /\ dumper' = "waiting"
    BY <1>3 DEF NextPacket
  <2> QED BY <2>1 DEF CaptureInv, DumpedAsCaptured, Misjudged
<1>4. CASE UNCHANGED <<macVars, dumpVars>>
  <2>1. /\ inFile' = inFile /\ present' = present /\ misleading' = misleading /\ dumper' = dumper
        /\ dumped' = dumped /\ air' = air /\ damaged' = damaged
    BY <1>4 DEF macVars, dumpVars
  <2> QED BY <2>1 DEF CaptureInv, DumpedAsCaptured, Misjudged, IsReadable
<1> QED BY <1>1, <1>2, <1>3, <1>4 DEF DumpNext

\* Packets are dumped as they were captured, unless the first misled the reader.
THEOREM AlwaysDumpedAsCaptured == DumpSpec => []DumpedAsCaptured
<1>1. DumpInit => CaptureInv
  BY DEF DumpInit, CaptureInv, DumpedAsCaptured, Misjudged
<1>2. AirInv /\ CaptureInv /\ [DumpNext]_<<macVars, dumpVars>> => CaptureInv'
  BY CaptureStep
<1>3. DumpSpec => []CaptureInv
  BY <1>1, <1>2, AirAlways, PTL DEF DumpSpec
<1>4. CaptureInv => DumpedAsCaptured
  BY DEF CaptureInv
<1> QED BY <1>3, <1>4, PTL

-------------------------------------------------------------------------------
(* Fields and octets.                                                      *)

-------------------------------------------------------------------------------
(* Frame control.                                                          *)

LEMMA BitsOfOctet ==
  ASSUME NEW o \in Octet
  PROVE  /\ o % 8 \in 0 .. 7
         /\ \A i \in 0 .. 7 : Bit(o, i) \in 0 .. 1
         /\ Bit(o, 3) = (o \div 8) % 2 /\ Bit(o, 4) = (o \div 16) % 2 /\ Bit(o, 5) = (o \div 32) % 2
         /\ Bit(o, 6) = (o \div 64) % 2 /\ Bit(o, 7) = (o \div 128) % 2
         /\ Bit(o, 0) = o % 2 /\ Bit(o, 1) = (o \div 2) % 2
<1>1. 2^0 = 1 /\ 2^1 = 2 /\ 2^2 = 4 /\ 2^3 = 8 /\ 2^4 = 16 /\ 2^5 = 32 /\ 2^6 = 64 /\ 2^7 = 128
  OBVIOUS
<1>2. o % 8 \in 0 .. 7 /\ o \div 1 = o
  BY DEF Octet
<1>3. \A n \in {1, 2, 4, 8, 16, 32, 64, 128} : (o \div n) % 2 \in 0 .. 1
  BY DEF Octet
<1>4. ASSUME NEW i \in 0 .. 7 PROVE Bit(o, i) \in 0 .. 1
  <2>1. i \in {0, 1, 2, 3, 4, 5, 6, 7}
    OBVIOUS
  <2>2. 2^i \in {1, 2, 4, 8, 16, 32, 64, 128}
    <3>1. CASE i = 0
      BY <1>1, <3>1
    <3>2. CASE i = 1
      BY <1>1, <3>2
    <3>3. CASE i = 2
      BY <1>1, <3>3
    <3>4. CASE i = 3
      BY <1>1, <3>4
    <3>5. CASE i = 4
      BY <1>1, <3>5
    <3>6. CASE i = 5
      BY <1>1, <3>6
    <3>7. CASE i = 6
      BY <1>1, <3>7
    <3>8. CASE i = 7
      BY <1>1, <3>8
    <3> QED BY <2>1, <3>1, <3>2, <3>3, <3>4, <3>5, <3>6, <3>7, <3>8
  <2> QED BY <1>3, <2>2 DEF Bit
<1>5. /\ Bit(o, 3) = (o \div 8) % 2 /\ Bit(o, 4) = (o \div 16) % 2 /\ Bit(o, 5) = (o \div 32) % 2
      /\ Bit(o, 6) = (o \div 64) % 2 /\ Bit(o, 7) = (o \div 128) % 2
      /\ Bit(o, 0) = o % 2 /\ Bit(o, 1) = (o \div 2) % 2
  BY <1>1, <1>2 DEF Bit
<1> QED BY <1>2, <1>4, <1>5

LEMMA ControlRead ==
  ASSUME NEW s, s[1] \in Octet, s[2] \in Octet
  PROVE  ReadControl(s) \in Controls /\ WriteControl(ReadControl(s)) = <<s[1], s[2]>>
<1> DEFINE o == s[1]
           p == s[2]
           c == ReadControl(s)
<1>1. o \in Octet /\ p \in Octet
  OBVIOUS
<1>2. /\ c.type = o % 8 /\ c.security = Bit(o, 3) /\ c.pending = Bit(o, 4) /\ c.ack = Bit(o, 5)
      /\ c.compression = Bit(o, 6) /\ c.reserved = Bit(o, 7) /\ c.suppression = Bit(p, 0)
      /\ c.elements = Bit(p, 1) /\ c.dest = (p \div 4) % 4 /\ c.version = (p \div 16) % 4 /\ c.src = p \div 64
  BY DEF ReadControl
<1>3. (p \div 4) % 4 \in 0 .. 3 /\ (p \div 16) % 4 \in 0 .. 3 /\ p \div 64 \in 0 .. 3
  <2>1. \A x \in Octet : (x \div 4) % 4 \in 0 .. 3
    BY DEF Octet
  <2>2. \A x \in Octet : (x \div 16) % 4 \in 0 .. 3
    BY DEF Octet
  <2>3. \A x \in Octet : x \div 64 \in 0 .. 3
    BY DEF Octet
  <2> QED BY <1>1, <2>1, <2>2, <2>3
<1>4. c \in Controls
  BY <1>1, <1>3, BitsOfOctet DEF ReadControl, Controls
<1> HIDE DEF o, p, c
<1>5. o = (o % 8) + 8 * ((o \div 8) % 2) + 16 * ((o \div 16) % 2) + 32 * ((o \div 32) % 2)
            + 64 * ((o \div 64) % 2) + 128 * ((o \div 128) % 2)
  BY <1>1 DEF Octet
<1>6. p = (p % 2) + 2 * ((p \div 2) % 2) + 4 * ((p \div 4) % 4) + 16 * ((p \div 16) % 4) + 64 * (p \div 64)
  BY <1>1 DEF Octet
<1>7. WriteControl(c) = <<o, p>>
  BY <1>1, <1>2, <1>5, <1>6, BitsOfOctet DEF WriteControl
<1> QED BY <1>4, <1>7 DEF o, p, c

\* The octets of a frame control.
LowOctet(a, b, d, e, g, h) == a + 8 * b + 16 * d + 32 * e + 64 * g + 128 * h
HighOctet(a, b, d, e, g) == a + 2 * b + 4 * d + 16 * e + 64 * g

LEMMA LowControl ==
  ASSUME NEW a \in 0 .. 7, NEW b \in 0 .. 1, NEW d \in 0 .. 1, NEW e \in 0 .. 1, NEW g \in 0 .. 1, NEW h \in 0 .. 1,
         NEW o, o = LowOctet(a, b, d, e, g, h)
  PROVE  /\ o \in Octet /\ o % 8 = a /\ (o \div 8) % 2 = b /\ (o \div 16) % 2 = d /\ (o \div 32) % 2 = e
         /\ (o \div 64) % 2 = g /\ (o \div 128) % 2 = h
<1>1. o \in 0 .. 255
  BY DEF LowOctet
<1>2. o % 8 = a
  BY DEF LowOctet
<1>3. o \div 8 = b + 2 * d + 4 * e + 8 * g + 16 * h
  BY DEF LowOctet
<1>4. o \div 16 = d + 2 * e + 4 * g + 8 * h
  BY DEF LowOctet
<1>5. o \div 32 = e + 2 * g + 4 * h
  BY DEF LowOctet
<1>6. o \div 64 = g + 2 * h
  BY DEF LowOctet
<1>7. o \div 128 = h
  BY DEF LowOctet
<1>8. (o \div 8) % 2 = b
  BY <1>3
<1>9. (o \div 16) % 2 = d
  BY <1>4
<1>10. (o \div 32) % 2 = e
  BY <1>5
<1>11. (o \div 64) % 2 = g
  BY <1>6
<1>12. (o \div 128) % 2 = h
  BY <1>7
<1> QED BY <1>1, <1>2, <1>8, <1>9, <1>10, <1>11, <1>12 DEF Octet

LEMMA HighControl ==
  ASSUME NEW a \in 0 .. 1, NEW b \in 0 .. 1, NEW d \in 0 .. 3, NEW e \in 0 .. 3, NEW g \in 0 .. 3,
         NEW p, p = HighOctet(a, b, d, e, g)
  PROVE  /\ p \in Octet /\ p % 2 = a /\ (p \div 2) % 2 = b /\ (p \div 4) % 4 = d /\ (p \div 16) % 4 = e
         /\ p \div 64 = g
<1>1. p \in 0 .. 255
  BY DEF HighOctet
<1>2. p % 2 = a
  BY DEF HighOctet
<1>3. p \div 2 = b + 2 * d + 8 * e + 32 * g
  BY DEF HighOctet
<1>4. p \div 4 = d + 4 * e + 16 * g
  BY DEF HighOctet
<1>5. p \div 16 = e + 4 * g
  BY DEF HighOctet
<1>6. p \div 64 = g
  BY DEF HighOctet
<1>7. (p \div 2) % 2 = b
  BY <1>3
<1>8. (p \div 4) % 4 = d
  BY <1>4
<1>9. (p \div 16) % 4 = e
  BY <1>5
<1> QED BY <1>1, <1>2, <1>6, <1>7, <1>8, <1>9 DEF Octet

LEMMA ControlWritten ==
  ASSUME NEW c \in Controls, NEW s, s[1] = WriteControl(c)[1], s[2] = WriteControl(c)[2]
  PROVE  ReadControl(s) = c
<1>1. /\ c.type \in 0 .. 7 /\ c.security \in 0 .. 1 /\ c.pending \in 0 .. 1 /\ c.ack \in 0 .. 1
      /\ c.compression \in 0 .. 1 /\ c.reserved \in 0 .. 1 /\ c.suppression \in 0 .. 1
      /\ c.elements \in 0 .. 1 /\ c.dest \in 0 .. 3 /\ c.version \in 0 .. 3 /\ c.src \in 0 .. 3
  BY DEF Controls
<1> DEFINE o == s[1]
           p == s[2]
<1>2. o = LowOctet(c.type, c.security, c.pending, c.ack, c.compression, c.reserved)
  BY DEF WriteControl, LowOctet
<1>3. p = HighOctet(c.suppression, c.elements, c.dest, c.version, c.src)
  BY DEF WriteControl, HighOctet
<1>4. ReadControl(s) =
        [type |-> o % 8, security |-> Bit(o, 3), pending |-> Bit(o, 4),
         ack |-> Bit(o, 5), compression |-> Bit(o, 6), reserved |-> Bit(o, 7),
         suppression |-> Bit(p, 0), elements |-> Bit(p, 1),
         dest |-> (p \div 4) % 4, version |-> (p \div 16) % 4, src |-> p \div 64]
  BY DEF ReadControl
<1> HIDE DEF o, p
<1>5. /\ o \in Octet /\ o % 8 = c.type /\ (o \div 8) % 2 = c.security /\ (o \div 16) % 2 = c.pending
      /\ (o \div 32) % 2 = c.ack /\ (o \div 64) % 2 = c.compression /\ (o \div 128) % 2 = c.reserved
  BY <1>1, <1>2, LowControl
<1>6. /\ p \in Octet /\ p % 2 = c.suppression /\ (p \div 2) % 2 = c.elements /\ (p \div 4) % 4 = c.dest
      /\ (p \div 16) % 4 = c.version /\ p \div 64 = c.src
  BY <1>1, <1>3, HighControl
<1>7. ReadControl(s) =
        [type |-> c.type, security |-> c.security, pending |-> c.pending,
         ack |-> c.ack, compression |-> c.compression, reserved |-> c.reserved,
         suppression |-> c.suppression, elements |-> c.elements,
         dest |-> c.dest, version |-> c.version, src |-> c.src]
  BY <1>4, <1>5, <1>6, BitsOfOctet
<1>8. c = [type |-> c.type, security |-> c.security, pending |-> c.pending,
            ack |-> c.ack, compression |-> c.compression, reserved |-> c.reserved,
            suppression |-> c.suppression, elements |-> c.elements,
            dest |-> c.dest, version |-> c.version, src |-> c.src]
  BY DEF Controls
<1> QED BY <1>7, <1>8

-------------------------------------------------------------------------------
(* The layout.                                                             *)

\* Frame control and the fields after it, as the writers put them.
Laid(f, pan) ==
    Cat(Cat(Cat(Cat(Cat(Cat(WriteControl(f.control), f.seq), f.destPan), f.dest), pan), f.src), f.payload)

\* How long the fields are of which the reader learns from frame control.
PanWidth(c) == IF Width(c.dest) > 0 THEN 2 ELSE 0
SourcePanWidth(l, c) == IF c.compression = 0 /\ c.type \in WithSourcePan(l) THEN 2 ELSE 0

LEMMA Widths ==
  ASSUME NEW c \in Controls, NEW l \in Languages
  PROVE  /\ Width(c.dest) \in Nat /\ Width(c.src) \in Nat /\ 1 - c.suppression \in Nat
         /\ PanWidth(c) \in {0, 2} /\ SourcePanWidth(l, c) \in {0, 2}
<1>1. c.dest \in 0 .. 3 /\ c.src \in 0 .. 3 /\ c.suppression \in 0 .. 1
  BY DEF Controls
<1>2. \A mode \in 0 .. 3 : Width(mode) \in Nat
  BY DEF Width
<1> QED BY <1>1, <1>2 DEF PanWidth, SourcePanWidth

LEMMA LayoutEnds ==
  ASSUME NEW c \in Controls, NEW l \in Languages
  PROVE  /\ Layout(l, c)[1] = 2
         /\ Layout(l, c)[2] = Layout(l, c)[1] + (1 - c.suppression)
         /\ Layout(l, c)[3] = Layout(l, c)[2] + PanWidth(c)
         /\ Layout(l, c)[4] = Layout(l, c)[3] + Width(c.dest)
         /\ Layout(l, c)[5] = Layout(l, c)[4] + SourcePanWidth(l, c)
         /\ Layout(l, c)[6] = Layout(l, c)[5] + Width(c.src)
         /\ \A i \in 1 .. 6 : Layout(l, c)[i] \in Nat
         /\ Layout(l, c)[1] <= Layout(l, c)[2] /\ Layout(l, c)[2] <= Layout(l, c)[3]
         /\ Layout(l, c)[3] <= Layout(l, c)[4] /\ Layout(l, c)[4] <= Layout(l, c)[5]
         /\ Layout(l, c)[5] <= Layout(l, c)[6]
<1> DEFINE d == Width(c.dest)
           w == Width(c.src)
           v == PanWidth(c)
           u == SourcePanWidth(l, c)
           b == c.suppression
<1>1. /\ d \in Nat /\ w \in Nat /\ v \in {0, 2} /\ u \in {0, 2} /\ b \in 0 .. 1
  BY Widths DEF Controls
<1> DEFINE e == Layout(l, c)
<1>2. e = <<2, 3 - b, 3 - b + v, 3 - b + v + d, 3 - b + v + d + u, 3 - b + v + d + u + w>>
  BY DEF Layout, PanWidth, SourcePanWidth
<1> HIDE DEF d, w, v, u, b, e
<1>3. /\ e[1] = 2 /\ e[2] = 3 - b /\ e[3] = 3 - b + v /\ e[4] = 3 - b + v + d
      /\ e[5] = 3 - b + v + d + u /\ e[6] = 3 - b + v + d + u + w
  BY <1>2
<1>4. e[1] = 2 /\ e[2] = e[1] + (1 - b) /\ e[3] = e[2] + v /\ e[4] = e[3] + d /\ e[5] = e[4] + u /\ e[6] = e[5] + w
  BY <1>1, <1>3
<1>5. e[1] \in Nat /\ e[2] \in Nat /\ e[3] \in Nat /\ e[4] \in Nat /\ e[5] \in Nat /\ e[6] \in Nat
  BY <1>1, <1>3
<1>6. \A i \in 1 .. 6 : i \in {1, 2, 3, 4, 5, 6}
  OBVIOUS
<1>7. \A i \in 1 .. 6 : e[i] \in Nat
  BY <1>5, <1>6
<1>8. e[1] <= e[2] /\ e[2] <= e[3] /\ e[3] <= e[4] /\ e[4] <= e[5] /\ e[5] <= e[6]
  BY <1>1, <1>3
<1> QED BY <1>4, <1>7, <1>8 DEF e, d, w, v, u, b

\* Where frame control ends.
ControlEnd == 2

AreParts(f, pan) ==
    /\ f.control \in Controls /\ f.seq \in Seq(Octet) /\ f.destPan \in Seq(Octet) /\ f.dest \in Seq(Octet)
    /\ pan \in Seq(Octet) /\ f.src \in Seq(Octet) /\ f.payload \in Seq(Octet)

\* Where they end.
AreEnds(e1, e2, e3, e4, e5, e6, f, pan) ==
    /\ e1 = ControlEnd + Len(f.seq) /\ e2 = e1 + Len(f.destPan) /\ e3 = e2 + Len(f.dest)
    /\ e4 = e3 + Len(pan) /\ e5 = e4 + Len(f.src) /\ e6 = e5 + Len(f.payload)

LEMMA LaidOctets ==
  ASSUME NEW f, NEW pan, AreParts(f, pan)
  PROVE  /\ Laid(f, pan) \in Seq(Octet)
         /\ Len(Laid(f, pan)) =
              2 + Len(f.seq) + Len(f.destPan) + Len(f.dest) + Len(pan) + Len(f.src) + Len(f.payload)
<1> DEFINE c == f.control
           seq == f.seq
           destPan == f.destPan
           dest == f.dest
           src == f.src
           payload == f.payload
<1> /\ c \in Controls /\ seq \in Seq(Octet) /\ destPan \in Seq(Octet) /\ dest \in Seq(Octet)
    /\ pan \in Seq(Octet) /\ src \in Seq(Octet) /\ payload \in Seq(Octet)
  BY DEF AreParts
<1>20. Laid(f, pan) = Cat(Cat(Cat(Cat(Cat(Cat(WriteControl(c), seq), destPan), dest), pan), src), payload)
  BY Zenon DEF Laid
<1> HIDE DEF c, seq, destPan, dest, src, payload
<1>0. PICK w : w = WriteControl(c)
  OBVIOUS
<1> DEFINE w1 == Cat(w, seq)
           w2 == Cat(w1, destPan)
           w3 == Cat(w2, dest)
           w4 == Cat(w3, pan)
           w5 == Cat(w4, src)
           w6 == Cat(w5, payload)
<1>1. w \in Seq(Octet) /\ Len(w) = 2
  BY <1>0, ControlOctets
<1>2. w1 \in Seq(Octet) /\ Len(w1) = 2 + Len(seq)
  <2>1. w \in Seq(Octet)
    BY <1>1
  <2>2. w1 \in Seq(Octet) /\ Len(w1) = Len(w) + Len(seq)
    BY <2>1, CatOctets
  <2>3. Len(w1) = 2 + Len(seq)
    BY <1>1, <2>2
  <2> QED BY <2>2, <2>3
<1> HIDE DEF w1
<1>3. w2 \in Seq(Octet) /\ Len(w2) = 2 + Len(seq) + Len(destPan)
  BY <1>2, CatOctets
<1> HIDE DEF w2
<1>4. w3 \in Seq(Octet) /\ Len(w3) = 2 + Len(seq) + Len(destPan) + Len(dest)
  BY <1>3, CatOctets
<1> HIDE DEF w3
<1>5. w4 \in Seq(Octet) /\ Len(w4) = 2 + Len(seq) + Len(destPan) + Len(dest) + Len(pan)
  BY <1>4, CatOctets
<1> HIDE DEF w4
<1>6. w5 \in Seq(Octet) /\ Len(w5) = 2 + Len(seq) + Len(destPan) + Len(dest) + Len(pan) + Len(src)
  BY <1>5, CatOctets
<1> HIDE DEF w5
<1>7. w6 \in Seq(Octet) /\ Len(w6) = 2 + Len(seq) + Len(destPan) + Len(dest) + Len(pan) + Len(src) + Len(payload)
  BY <1>6, CatOctets
<1>8. Laid(f, pan) = w6
  BY <1>0, <1>20, Zenon DEF w1, w2, w3, w4, w5
<1> QED BY <1>7, <1>8 DEF seq, destPan, dest, src, payload

\* The parts of a field sequence are found by their lengths.
LEMMA LaidRead ==
  ASSUME NEW f, NEW pan, AreParts(f, pan), NEW s \in Seq(Octet), Begins(s, Laid(f, pan)),
         NEW e1, NEW e2, NEW e3, NEW e4, NEW e5, NEW e6, AreEnds(e1, e2, e3, e4, e5, e6, f, pan)
  PROVE  /\ ReadControl(s) = f.control
         /\ Slice(s, ControlEnd, e1) = f.seq /\ Slice(s, e1, e2) = f.destPan /\ Slice(s, e2, e3) = f.dest
         /\ Slice(s, e3, e4) = pan /\ Slice(s, e4, e5) = f.src /\ Slice(s, e5, e6) = f.payload
<1> DEFINE c == f.control
           seq == f.seq
           destPan == f.destPan
           dest == f.dest
           src == f.src
           payload == f.payload
<1> /\ c \in Controls /\ seq \in Seq(Octet) /\ destPan \in Seq(Octet) /\ dest \in Seq(Octet)
    /\ pan \in Seq(Octet) /\ src \in Seq(Octet) /\ payload \in Seq(Octet)
  BY DEF AreParts
<1> /\ e1 = ControlEnd + Len(seq) /\ e2 = e1 + Len(destPan) /\ e3 = e2 + Len(dest)
    /\ e4 = e3 + Len(pan) /\ e5 = e4 + Len(src) /\ e6 = e5 + Len(payload)
  BY DEF AreEnds
<1>20. Laid(f, pan) = Cat(Cat(Cat(Cat(Cat(Cat(WriteControl(c), seq), destPan), dest), pan), src), payload)
  BY Zenon DEF Laid
<1> HIDE DEF c, seq, destPan, dest, src, payload
<1>0. PICK w : w = WriteControl(c)
  OBVIOUS
<1> ControlEnd \in Nat
  BY DEF ControlEnd
<1> DEFINE w1 == Cat(w, seq)
           w2 == Cat(w1, destPan)
           w3 == Cat(w2, dest)
           w4 == Cat(w3, pan)
           w5 == Cat(w4, src)
           w6 == Cat(w5, payload)
<1>1. w \in Seq(Octet) /\ Len(w) = ControlEnd
  BY <1>0, ControlOctets DEF ControlEnd
<1>2. Begins(s, w6)
  BY <1>0, <1>20, Zenon
<1>3. w1 \in Seq(Octet) /\ Len(w1) = e1
  BY <1>1, CatOctets
<1> HIDE DEF w1
<1>4. w2 \in Seq(Octet) /\ Len(w2) = e2
  BY <1>3, CatOctets
<1> HIDE DEF w2
<1>5. w3 \in Seq(Octet) /\ Len(w3) = e3
  BY <1>4, CatOctets
<1> HIDE DEF w3
<1>6. w4 \in Seq(Octet) /\ Len(w4) = e4
  BY <1>5, CatOctets
<1> HIDE DEF w4
<1>7. w5 \in Seq(Octet) /\ Len(w5) = e5
  BY <1>6, CatOctets
<1> HIDE DEF w5
<1>8. Begins(s, w5) /\ Slice(s, e5, e6) = payload
  <2>1. w5 \in Seq(Octet) /\ Len(w5) = e5 /\ Begins(s, Cat(w5, payload))
    BY <1>2, <1>7 DEF w6
  <2>2. e6 = e5 + Len(payload)
    OBVIOUS
  <2> QED BY <2>1, <2>2, PartSlice, SMTT(30)
<1>9. Begins(s, w4) /\ Slice(s, e4, e5) = src
  <2>1. w4 \in Seq(Octet) /\ Len(w4) = e4 /\ Begins(s, Cat(w4, src))
    BY <1>6, <1>8 DEF w5
  <2>2. e5 = e4 + Len(src)
    OBVIOUS
  <2> QED BY <2>1, <2>2, PartSlice, SMTT(30)
<1>10. Begins(s, w3) /\ Slice(s, e3, e4) = pan
  <2>1. w3 \in Seq(Octet) /\ Len(w3) = e3 /\ Begins(s, Cat(w3, pan))
    BY <1>5, <1>9 DEF w4
  <2>2. e4 = e3 + Len(pan)
    OBVIOUS
  <2> QED BY <2>1, <2>2, PartSlice, SMTT(30)
<1>11. Begins(s, w2) /\ Slice(s, e2, e3) = dest
  <2>1. w2 \in Seq(Octet) /\ Len(w2) = e2 /\ Begins(s, Cat(w2, dest))
    BY <1>4, <1>10 DEF w3
  <2>2. e3 = e2 + Len(dest)
    OBVIOUS
  <2> QED BY <2>1, <2>2, PartSlice, SMTT(30)
<1>12. Begins(s, w1) /\ Slice(s, e1, e2) = destPan
  <2>1. w1 \in Seq(Octet) /\ Len(w1) = e1 /\ Begins(s, Cat(w1, destPan))
    BY <1>3, <1>11 DEF w2
  <2>2. e2 = e1 + Len(destPan)
    OBVIOUS
  <2> QED BY <2>1, <2>2, PartSlice, SMTT(30)
<1>13. Begins(s, w) /\ Slice(s, ControlEnd, e1) = seq
  <2>1. w \in Seq(Octet) /\ Begins(s, Cat(w, seq))
    BY <1>1, <1>12 DEF w1
  <2>2. Len(w) = ControlEnd
    BY <1>1
  <2>3. e1 = ControlEnd + Len(seq)
    OBVIOUS
  <2>4. Begins(s, w) /\ SubSeq(s, Len(w) + 1, Len(w) + Len(seq)) = seq
    BY <2>1, Part, Zenon
  <2> QED BY <2>2, <2>3, <2>4, Zenon DEF Slice
<1>14. s[1] = w[1] /\ s[2] = w[2]
  BY <1>1, <1>13 DEF Begins, ControlEnd
<1>15. ReadControl(s) = c
  BY <1>0, <1>14, ControlWritten
<1> QED BY <1>8, <1>9, <1>10, <1>11, <1>12, <1>13, <1>15 DEF c, seq, destPan, dest, src, payload

LEMMA LaidControl ==
  ASSUME NEW f, NEW pan, AreParts(f, pan), NEW s \in Seq(Octet), Begins(s, Laid(f, pan))
  PROVE  ReadControl(s) = f.control
<1>1. \E e1, e2, e3, e4, e5, e6 : AreEnds(e1, e2, e3, e4, e5, e6, f, pan)
  BY DEF AreEnds
<1> QED BY <1>1, LaidRead

Again(c, s, e1, e2, e3, e4, e5, n) ==
    Cat(Cat(Cat(Cat(Cat(Cat(WriteControl(c), Slice(s, ControlEnd, e1)), Slice(s, e1, e2)), Slice(s, e2, e3)),
                Slice(s, e3, e4)), Slice(s, e4, e5)), Slice(s, e5, n))

\* The parts read between the ends of the layout make up what they were read from.
LEMMA LaidAgain ==
  ASSUME NEW s \in Seq(Octet), NEW c \in Controls, c = ReadControl(s), NEW n \in ControlEnd .. Len(s),
         NEW e1, NEW e2, NEW e3, NEW e4, NEW e5,
         e1 \in ControlEnd .. n, e2 \in e1 .. n, e3 \in e2 .. n, e4 \in e3 .. n, e5 \in e4 .. n
  PROVE  Again(c, s, e1, e2, e3, e4, e5, n) \in Seq(Octet)
         /\ Len(Again(c, s, e1, e2, e3, e4, e5, n)) = n /\ Begins(s, Again(c, s, e1, e2, e3, e4, e5, n))
<1>0. PICK w : w = WriteControl(c)
  OBVIOUS
<1> ControlEnd \in Nat
  BY DEF ControlEnd
<1> DEFINE w1 == Cat(w, Slice(s, ControlEnd, e1))
           w2 == Cat(w1, Slice(s, e1, e2))
           w3 == Cat(w2, Slice(s, e2, e3))
           w4 == Cat(w3, Slice(s, e3, e4))
           w5 == Cat(w4, Slice(s, e4, e5))
           w6 == Cat(w5, Slice(s, e5, n))
<1>1. Len(s) \in Nat /\ \A k \in 1 .. Len(s) : s[k] \in Octet
  BY LenProperties, ElementOfSeq
<1>2. c \in Controls /\ w = <<s[1], s[2]>>
  BY <1>0, <1>1, ControlRead DEF ControlEnd
<1>3. w \in Seq(Octet) /\ Len(w) = ControlEnd
  BY <1>0, <1>2, ControlOctets DEF ControlEnd
<1>4. Begins(s, w)
  BY <1>1, <1>2, <1>3 DEF Begins, ControlEnd
<1>5. e1 \in ControlEnd .. Len(s) /\ e2 \in e1 .. Len(s) /\ e3 \in e2 .. Len(s) /\ e4 \in e3 .. Len(s) /\ e5 \in e4 .. Len(s)
      /\ n \in e5 .. Len(s)
  BY <1>1 DEF ControlEnd
<1>6. w1 \in Seq(Octet) /\ Len(w1) = e1 /\ Begins(s, w1)
  BY <1>3, <1>4, <1>5, GrowSlice
<1> HIDE DEF w1
<1>7. w2 \in Seq(Octet) /\ Len(w2) = e2 /\ Begins(s, w2)
  BY <1>5, <1>6, GrowSlice
<1> HIDE DEF w2
<1>8. w3 \in Seq(Octet) /\ Len(w3) = e3 /\ Begins(s, w3)
  BY <1>5, <1>7, GrowSlice
<1> HIDE DEF w3
<1>9. w4 \in Seq(Octet) /\ Len(w4) = e4 /\ Begins(s, w4)
  BY <1>5, <1>8, GrowSlice
<1> HIDE DEF w4
<1>10. w5 \in Seq(Octet) /\ Len(w5) = e5 /\ Begins(s, w5)
  BY <1>5, <1>9, GrowSlice
<1> HIDE DEF w5
<1>11. w6 \in Seq(Octet) /\ Len(w6) = n /\ Begins(s, w6)
  BY <1>5, <1>10, GrowSlice
<1> QED BY <1>0, <1>11 DEF w1, w2, w3, w4, w5, w6, Again

-------------------------------------------------------------------------------
(* Written again.                                                          *)

\* The source PAN the writer of l writes for what l has read is the one it read.
LEMMA SourcePanAgain ==
  ASSUME NEW c \in Controls, NEW l \in Languages, NEW f, NEW s,
         f.control = c, NEW pan, pan = Slice(s, Layout(l, c)[4], Layout(l, c)[5]),
         c.compression = 0 => f.srcPan = pan,
         s \in Seq(Octet),
         l = "rust" \/ c.compression = 1 \/ ~SkipsSourcePan(f)
  PROVE  SourcePan(l, f) = pan
<1>1. c.compression = 0 \/ c.compression = 1
  BY DEF Controls
<1>2. SourcePanWidth(l, c) = 0 => pan = <<>>
  <2> SUFFICES ASSUME SourcePanWidth(l, c) = 0 PROVE pan = <<>>
    OBVIOUS
  <2> DEFINE e == Layout(l, c)[4]
  <2>1. e \in Nat /\ Layout(l, c)[5] = e
    BY LayoutEnds
  <2> HIDE DEF e
  <2>2. pan = SubSeq(s, e + 1, e)
    BY <2>1 DEF e, Slice
  <2>3. e + 1 \in Int /\ e \in Int /\ ~(e + 1 <= e) /\ \A k \in e + 1 .. e : s[k] \in Octet
    BY <2>1
  <2>4. SubSeq(s, e + 1, e) \in Seq(Octet) /\ Len(SubSeq(s, e + 1, e)) = 0
    BY <2>3, SubSeqProperties
  <2> QED BY <2>2, <2>4, EmptySeq
<1>3. CASE c.compression = 1
  <2>1. SourcePanWidth(l, c) = 0
    BY <1>3 DEF SourcePanWidth
  <2> QED BY <1>2, <1>3, <2>1 DEF SourcePan
<1>4. CASE c.compression = 0 /\ l = "rust"
  BY <1>4 DEF SourcePan
<1>5. CASE c.compression = 0 /\ l # "rust"
  <2>1. SourcePan(l, f) = IF c.type \in WithSourcePan(l) /\ ~SkipsSourcePan(f) THEN f.srcPan ELSE <<>>
    BY <1>5 DEF SourcePan
  <2>2. CASE c.type \in WithSourcePan(l)
    BY <1>5, <2>1, <2>2
  <2>3. CASE c.type \notin WithSourcePan(l)
    BY <1>2, <2>1, <2>3 DEF SourcePanWidth
  <2> QED BY <2>2, <2>3
<1> QED BY <1>1, <1>3, <1>4, <1>5

\* The octets of a frame, by its parts.
LEMMA OctetsLaid ==
  ASSUME NEW l, NEW f
  PROVE  Octets(l, f) =
           WithFcs(Laid(f, SourcePan(l, f)))
BY Zenon DEF Octets, Laid, Cat

\* Python's payload.
LEMMA WithoutLastTwo ==
  ASSUME NEW s \in Seq(Octet), NEW h \in 0 .. Len(s), Len(s) >= 2
  PROVE  /\ Slice(s, h, Len(s)) \in Seq(Octet) /\ Len(Slice(s, h, Len(s))) = Len(s) - h
         /\ h <= Len(s) - 2 =>
              SubSeq(Slice(s, h, Len(s)), 1, Len(Slice(s, h, Len(s))) - 2) = Slice(s, h, Len(s) - 2)
<1> DEFINE n == Len(s)
           m == n - h
           rest == Slice(s, h, n)
<1>1. n \in Nat /\ h \in 0 .. n /\ n >= 2 /\ \A k \in 1 .. n : s[k] \in Octet
  BY LenProperties, ElementOfSeq
<1>2. rest = SubSeq(s, h + 1, n)
  BY DEF Slice
<1> HIDE DEF n, rest
<1>3. m \in Nat
  BY <1>1
<1>4. rest \in Seq(Octet) /\ Len(rest) = m /\ \A k \in 1 .. m : rest[k] = s[h + k]
  <2>1. /\ h + 1 \in Int /\ n \in Int /\ (IF h + 1 <= n THEN n - (h + 1) + 1 ELSE 0) = m
        /\ n - (h + 1) + 1 = m /\ \A k \in 1 .. m : h + 1 + k - 1 = h + k
    BY <1>1
  <2>2. \A k \in h + 1 .. n : s[k] \in Octet
    <3>1. \A k \in h + 1 .. n : k \in 1 .. n
      BY <1>1
    <3> QED BY <1>1, <3>1
  <2> HIDE DEF m
  <2>3. /\ SubSeq(s, h + 1, n) \in Seq(Octet)
        /\ Len(SubSeq(s, h + 1, n)) = (IF h + 1 <= n THEN n - (h + 1) + 1 ELSE 0)
        /\ \A k \in 1 .. n - (h + 1) + 1 : SubSeq(s, h + 1, n)[k] = s[h + 1 + k - 1]
    BY <2>1, <2>2, SubSeqProperties
  <2> QED BY <1>2, <2>1, <2>3
<1>5. ASSUME h <= n - 2
      PROVE  SubSeq(rest, 1, m - 2) = Slice(s, h, n - 2)
  <2> DEFINE r == m - 2
             x == SubSeq(rest, 1, r)
             y == SubSeq(s, h + 1, n - 2)
  <2>1. r \in Nat /\ r <= m
    BY <1>1, <1>5
  <2>2. x \in Seq(Octet) /\ Len(x) = r /\ \A k \in 1 .. r : x[k] = rest[k]
    <3>1. /\ r \in Int /\ (IF 1 <= r THEN r - 1 + 1 ELSE 0) = r
          /\ r - 1 + 1 = r /\ \A k \in 1 .. r : 1 + k - 1 = k
      BY <2>1
    <3>2. \A k \in 1 .. r : rest[k] \in Octet
      <4>1. \A k \in 1 .. r : k \in 1 .. m
        BY <1>3, <2>1
      <4> QED BY <1>4, <4>1, ElementOfSeq
    <3> HIDE DEF r, m
    <3>3. /\ x \in Seq(Octet) /\ Len(x) = (IF 1 <= r THEN r - 1 + 1 ELSE 0)
          /\ \A k \in 1 .. r - 1 + 1 : x[k] = rest[1 + k - 1]
      BY <3>1, <3>2, SubSeqProperties
    <3> QED BY <3>1, <3>3
  <2>3. y \in Seq(Octet) /\ Len(y) = r /\ \A k \in 1 .. r : y[k] = s[h + k]
    <3>1. /\ h + 1 \in Int /\ n - 2 \in Int /\ (IF h + 1 <= n - 2 THEN n - 2 - (h + 1) + 1 ELSE 0) = r
          /\ n - 2 - (h + 1) + 1 = r /\ \A k \in 1 .. r : h + 1 + k - 1 = h + k
      BY <1>1, <1>5
    <3>2. \A k \in h + 1 .. n - 2 : s[k] \in Octet
      <4>1. \A k \in h + 1 .. n - 2 : k \in 1 .. n
        BY <1>1
      <4> QED BY <1>1, <4>1
    <3> HIDE DEF r
    <3>3. /\ y \in Seq(Octet) /\ Len(y) = (IF h + 1 <= n - 2 THEN n - 2 - (h + 1) + 1 ELSE 0)
          /\ \A k \in 1 .. n - 2 - (h + 1) + 1 : y[k] = s[h + 1 + k - 1]
      BY <3>1, <3>2, SubSeqProperties
    <3> QED BY <3>1, <3>3
  <2>4. \A k \in 1 .. r : k \in 1 .. m
    BY <1>3, <2>1
  <2> HIDE DEF x, y, r, m
  <2>5. \A k \in 1 .. r : x[k] = y[k]
    BY <1>4, <2>2, <2>3, <2>4
  <2>6. x = y
    BY <2>2, <2>3, <2>5, SeqEqual
  <2> QED BY <2>6, Zenon DEF x, y, r, Slice
<1> QED BY <1>4, <1>5 DEF n, m, rest

\* What a reader makes of data.
LEMMA FieldsSlice ==
  ASSUME NEW l, NEW s
  PROVE  LET c == ReadControl(s)
             e == Layout(l, c)
         IN  Fields(l, s) =
               [control |-> c, seq |-> Slice(s, e[1], e[2]), destPan |-> Slice(s, e[2], e[3]),
                dest |-> Slice(s, e[3], e[4]),
                srcPan |-> IF c.compression = 1 THEN Slice(s, e[2], e[3]) ELSE Slice(s, e[4], e[5]),
                src |-> Slice(s, e[5], e[6]),
                payload |-> IF l = "rust" THEN Slice(s, e[6], Len(s))
                            ELSE SubSeq(Slice(s, e[6], Len(s)), 1, Len(Slice(s, e[6], Len(s))) - 2)]
<1>1. 1 + 1 = 2 /\ 2 + 1 = 3 /\ 3 + 1 = 4 /\ 4 + 1 = 5 /\ 5 + 1 = 6
  OBVIOUS
<1> QED BY <1>1, Zenon DEF Fields, Slice, HeaderLength

\* What a reader has of a packet.
LEMMA BodyOctets ==
  ASSUME NEW data \in Seq(Octet), NEW l \in Languages, NEW s, s = Body(l, WithFcs(data))
  PROVE  /\ s \in Seq(Octet) /\ Begins(s, data)
         /\ l = "rust" => s = data
         /\ l # "rust" => s = WithFcs(data) /\ Len(s) = Len(data) + 2
<1>1. CASE l = "rust"
  <2>1. s = data
    BY <1>1, BodyOfPacket DEF Body
  <2>2. Begins(data, data)
    BY LenProperties DEF Begins
  <2> QED BY <1>1, <2>1, <2>2
<1>2. CASE l # "rust"
  <2>1. s = WithFcs(data)
    BY <1>2 DEF Body
  <2>2. WithFcs(data) \in Seq(Octet) /\ Len(WithFcs(data)) = Len(data) + 2 /\ Begins(WithFcs(data), data)
    BY LenProperties, WithFcsOctets DEF Begins
  <2> QED BY <1>2, <2>1, <2>2
<1> QED BY <1>1, <1>2

LEMMA FieldsAgain ==
  ASSUME NEW data \in Seq(Octet), NEW l \in Languages, NEW s, s = Body(l, WithFcs(data)),
         Len(s) >= 2, HeaderLength(l, ReadControl(s)) <= Len(data),
         l = "rust" \/ ReadControl(s).compression = 1 \/ ~SkipsSourcePan(Fields(l, s))
  PROVE  Octets(l, Fields(l, s)) = WithFcs(data)
<1> DEFINE c == ReadControl(s)
           f == Fields(l, s)
           e == Layout(l, c)
           n == Len(data)
           seq == Slice(s, e[1], e[2])
           destPan == Slice(s, e[2], e[3])
           dest == Slice(s, e[3], e[4])
           pan == Slice(s, e[4], e[5])
           src == Slice(s, e[5], e[6])
           payload == Slice(s, e[6], n)
           again == Laid(f, pan)
<1>1. /\ s \in Seq(Octet) /\ Begins(s, data) /\ (l = "rust" => s = data)
      /\ (l # "rust" => Len(s) = n + 2) /\ n \in Nat /\ Len(s) \in Nat /\ Len(s) >= n
  <2>1. s \in Seq(Octet) /\ Begins(s, data) /\ (l = "rust" => s = data) /\ (l # "rust" => Len(s) = n + 2)
    BY BodyOctets
  <2>2. n \in Nat /\ Len(s) \in Nat
    BY <2>1, LenProperties
  <2>3. Len(s) >= n
    BY <2>1, <2>2 DEF Begins
  <2> QED BY <2>1, <2>2, <2>3
<1>2. s[1] \in Octet /\ s[2] \in Octet
  BY <1>1, ElementOfSeq
<1>3. c \in Controls
  BY <1>2, ControlRead
<1>4. f = [control |-> c, seq |-> seq, destPan |-> destPan, dest |-> dest,
           srcPan |-> IF c.compression = 1 THEN destPan ELSE pan, src |-> src,
           payload |-> IF l = "rust" THEN Slice(s, e[6], Len(s))
                       ELSE SubSeq(Slice(s, e[6], Len(s)), 1, Len(Slice(s, e[6], Len(s))) - 2)]
  BY FieldsSlice, Zenon
<1>12. e[6] <= n
  BY DEF HeaderLength
<1>13. c = ReadControl(s) /\ e = Layout(l, c) /\ pan = Slice(s, Layout(l, c)[4], Layout(l, c)[5])
  OBVIOUS
<1>14. l = "rust" \/ c.compression = 1 \/ ~SkipsSourcePan(f)
  OBVIOUS
<1> HIDE DEF c, f, e, n
<1>15. f.control = c /\ f.seq = seq /\ f.destPan = destPan /\ f.dest = dest /\ f.src = src
      /\ (c.compression = 0 => f.srcPan = pan)
      /\ f.payload = IF l = "rust" THEN Slice(s, e[6], Len(s))
                     ELSE SubSeq(Slice(s, e[6], Len(s)), 1, Len(Slice(s, e[6], Len(s))) - 2)
  BY <1>4
<1>5. /\ e[1] = ControlEnd /\ e[1] <= e[2] /\ e[2] <= e[3] /\ e[3] <= e[4] /\ e[4] <= e[5] /\ e[5] <= e[6] /\ e[6] <= n
      /\ e[1] \in Nat /\ e[2] \in Nat /\ e[3] \in Nat /\ e[4] \in Nat /\ e[5] \in Nat /\ e[6] \in Nat
  <2>1. /\ e[1] = 2 /\ \A i \in 1 .. 6 : e[i] \in Nat
        /\ e[1] <= e[2] /\ e[2] <= e[3] /\ e[3] <= e[4] /\ e[4] <= e[5] /\ e[5] <= e[6]
    BY <1>3, <1>13, LayoutEnds
  <2>2. e[1] \in Nat /\ e[2] \in Nat /\ e[3] \in Nat /\ e[4] \in Nat /\ e[5] \in Nat /\ e[6] \in Nat
    BY <2>1
  <2> QED BY <1>12, <2>1, <2>2 DEF ControlEnd
<1> HIDE DEF seq, destPan, dest, pan, src, payload, again
<1>6. f.payload = payload
  <2>1. CASE l = "rust"
    BY <1>1, <1>15, <2>1 DEF payload, n
  <2>2. CASE l # "rust"
    <3>1. Len(s) = n + 2 /\ Len(s) - 2 = n /\ e[6] \in 0 .. Len(s) /\ e[6] <= Len(s) - 2
      BY <1>1, <1>5, <2>2
    <3>2. SubSeq(Slice(s, e[6], Len(s)), 1, Len(Slice(s, e[6], Len(s))) - 2) = Slice(s, e[6], Len(s) - 2)
      BY <1>1, <3>1, WithoutLastTwo
    <3> QED BY <1>15, <2>2, <3>1, <3>2, Zenon DEF payload
  <2> QED BY <2>1, <2>2
<1>7. SourcePan(l, f) = pan
  BY <1>1, <1>3, <1>13, <1>14, <1>15, SourcePanAgain
<1>8. Octets(l, f) = WithFcs(again)
  BY <1>7, OctetsLaid, Zenon DEF again
<1>9. again \in Seq(Octet) /\ Len(again) = n /\ Begins(s, again)
  <2>0. ControlEnd \in Nat /\ e[1] = ControlEnd
    BY <1>5 DEF ControlEnd
  <2>1. n \in ControlEnd .. Len(s) /\ e[2] \in ControlEnd .. n /\ e[3] \in e[2] .. n /\ e[4] \in e[3] .. n
        /\ e[5] \in e[4] .. n /\ e[6] \in e[5] .. n
    <3>1. e[2] \in Nat /\ e[3] \in Nat /\ e[4] \in Nat /\ e[5] \in Nat /\ e[6] \in Nat /\ n \in Nat /\ Len(s) \in Nat
      BY <1>1, <1>5
    <3>2. ControlEnd <= e[2] /\ e[2] <= e[3] /\ e[3] <= e[4] /\ e[4] <= e[5] /\ e[5] <= e[6] /\ e[6] <= n /\ n <= Len(s)
      BY <1>1, <1>5, <2>0, Zenon
    <3> DEFINE e2 == e[2]
               e3 == e[3]
               e4 == e[4]
               e5 == e[5]
               e6 == e[6]
               m == Len(s)
    <3> HIDE DEF e2, e3, e4, e5, e6, m
    <3>3. /\ e2 \in Nat /\ e3 \in Nat /\ e4 \in Nat /\ e5 \in Nat /\ e6 \in Nat /\ n \in Nat /\ m \in Nat
          /\ ControlEnd <= e2 /\ e2 <= e3 /\ e3 <= e4 /\ e4 <= e5 /\ e5 <= e6 /\ e6 <= n /\ n <= m
      BY <3>1, <3>2 DEF e2, e3, e4, e5, e6, m
    <3>4. n \in ControlEnd .. m /\ e2 \in ControlEnd .. n /\ e3 \in e2 .. n /\ e4 \in e3 .. n
          /\ e5 \in e4 .. n /\ e6 \in e5 .. n
      BY <2>0, <3>3
    <3> QED BY <3>4 DEF e2, e3, e4, e5, e6, m
  <2>2. again = Again(c, s, e[2], e[3], e[4], e[5], e[6], n)
    BY <1>5, <1>6, <1>15, Zenon DEF again, seq, destPan, dest, pan, src, payload, Again, Laid
  <2>3. /\ Again(c, s, e[2], e[3], e[4], e[5], e[6], n) \in Seq(Octet)
        /\ Len(Again(c, s, e[2], e[3], e[4], e[5], e[6], n)) = n
        /\ Begins(s, Again(c, s, e[2], e[3], e[4], e[5], e[6], n))
    BY <1>1, <1>3, <1>13, <2>1, LaidAgain
  <2> QED BY <2>2, <2>3
<1>10. again = data
  <2>1. Len(data) = n
    BY DEF n
  <2> QED BY <1>1, <1>9, <2>1, BeginsAll
<1> QED BY <1>8, <1>10 DEF f

\* The ways to be a frame.
LEMMA FrameOutcome ==
  ASSUME NEW l, NEW octets, NEW s, s = Body(l, octets)
  PROVE  /\ Outcome(l, octets) = "frame" =>
              /\ Accepts(l, octets) /\ ~(Len(s) < 2) /\ KnownControl(l, ReadControl(s))
              /\ HeaderLength(l, ReadControl(s)) <= Len(s)
         /\ /\ Accepts(l, octets) /\ ~(Len(s) < 2) /\ KnownControl(l, ReadControl(s))
            /\ ~(l = "rust" /\ Len(s) = 2 /\ ReadControl(s).suppression = 0)
            /\ HeaderLength(l, ReadControl(s)) <= Len(s)
            => Outcome(l, octets) = "frame"
<1> DEFINE A == Accepts(l, octets)
           B == Len(s) < 2
           K == KnownControl(l, ReadControl(s))
           P == l = "rust" /\ Len(s) = 2 /\ ReadControl(s).suppression = 0
           H == HeaderLength(l, ReadControl(s)) <= Len(s)
<1>1. Outcome(l, octets) =
        CASE ~A \/ B -> "error"
          [] OTHER -> CASE ~K -> "error" [] K /\ P -> "panic" [] K /\ H -> "frame" [] OTHER -> "error"
  BY DEF Outcome
<1> HIDE DEF A, B, K, P, H
<1>3. Outcome(l, octets) = "frame" => A /\ ~B /\ K /\ H
  BY <1>1
<1>4. (A /\ ~B /\ K /\ ~P /\ H) => Outcome(l, octets) = "frame"
  BY <1>1
<1> QED BY <1>3, <1>4 DEF A, B, K, P, H

LEMMA Undamaged ==
  ASSUME AirInv, damaged = {}
  PROVE  \E p \in Packets : written = p.written /\ writer = p.writer /\ air = p.air
<1>1. PICK p \in Packets :
          /\ written = p.written /\ writer = p.writer /\ Len(air) = Len(p.air)
          /\ \A k \in 1 .. Len(air) : air[k] = p.air[k] <=> k \notin damaged
  BY DEF AirInv
<1>2. p.air \in Seq(Octet) /\ air \in Seq(Octet)
  BY PacketsHaveFcs, WithFcsOctets DEF AirInv
<1>3. air = p.air
  BY <1>1, <1>2, SeqEqual
<1> QED BY <1>1, <1>3

\* Where the header that Python sees runs into the FCS, and where it leaves out a
\* source PAN that it has read.
HeaderInFcs == HeaderLength("python", frame["python"][1].control) > Len(air) - 2
SourcePanLost == /\ SkipsSourcePan(frame["python"][1])
                 /\ frame["python"][1].control.compression = 0

LEMMA RewrittenTheSame ==
  ASSUME AirInv, damaged = {}, NEW l \in Languages, outcome[l] = "frame"
  PROVE  Octets(l, frame[l][1]) = air \/ (l = "python" /\ (HeaderInFcs \/ SourcePanLost))
<1> DEFINE s == Body(l, air)
           c == ReadControl(s)
           f == Fields(l, s)
<1>1. PICK data \in Seq(Octet) : air = WithFcs(data)
  BY Undamaged, PacketsHaveFcs
<1>2. Outcome(l, air) = "frame" /\ frame[l][1] = f
  BY DEF AirInv
<1>3. ~(Len(s) < 2) /\ HeaderLength(l, c) <= Len(s)
  BY <1>2, FrameOutcome
<1>4. /\ s \in Seq(Octet) /\ (l = "rust" => s = data) /\ (l # "rust" => Len(s) = Len(data) + 2)
      /\ Len(air) = Len(data) + 2 /\ Len(data) \in Nat /\ Len(s) \in Nat
  BY <1>1, BodyOctets, WithFcsOctets, LenProperties
<1>5. f.control = c
  BY DEF Fields
<1>6. HeaderLength(l, c) \in Nat
  <2>1. s[1] \in Octet /\ s[2] \in Octet
    BY <1>3, <1>4, ElementOfSeq
  <2>2. c \in Controls
    BY <2>1, ControlRead
  <2> QED BY <2>2, LayoutEnds DEF HeaderLength
<1>7. s = Body(l, WithFcs(data))
  BY <1>1
<1> HIDE DEF s, c, f
<1>8. CASE HeaderLength(l, c) > Len(data)
  <2>1. l = "python"
    BY <1>3, <1>4, <1>6, <1>8 DEF Languages
  <2>2. HeaderLength(l, c) > Len(air) - 2
    BY <1>4, <1>8
  <2> QED BY <1>2, <1>5, <2>1, <2>2 DEF HeaderInFcs
<1>9. CASE ~(HeaderLength(l, c) > Len(data)) /\ l = "python" /\ SkipsSourcePan(f) /\ c.compression = 0
  BY <1>2, <1>5, <1>9 DEF SourcePanLost
<1>10. CASE ~(HeaderLength(l, c) > Len(data)) /\ ~(l = "python" /\ SkipsSourcePan(f) /\ c.compression = 0)
  <2>1. HeaderLength(l, c) <= Len(data) /\ Len(s) >= 2
    BY <1>3, <1>4, <1>6, <1>10
  <2>2. c.compression = 0 \/ c.compression = 1
    <3>1. s[1] \in Octet /\ s[2] \in Octet
      BY <1>4, <2>1, ElementOfSeq
    <3> QED BY <3>1, ControlRead DEF c, Controls
  <2>3. l = "rust" \/ c.compression = 1 \/ ~SkipsSourcePan(f)
    BY <1>10, <2>2 DEF Languages
  <2>4. Octets(l, f) = WithFcs(data)
    BY <1>7, <2>1, <2>3, FieldsAgain DEF c, f
  <2> QED BY <1>1, <1>2, <2>4
<1> QED BY <1>8, <1>9, <1>10

-------------------------------------------------------------------------------
(* Read by the other language.                                             *)

\* What writer w makes of frame g, without the FCS; and how long it is but for the source
\* PAN and the payload.
Parts(w, g) == Laid(g, SourcePan(w, g))
HeadWidth(c) == 2 + (1 - c.suppression) + PanWidth(c) + Width(c.dest) + Width(c.src)

LEMMA PacketLengths ==
  ASSUME NEW w \in Languages, NEW l \in Languages, NEW g, IsFrame(g)
  PROVE  /\ Parts(w, g) \in Seq(Octet) /\ Octets(w, g) = WithFcs(Parts(w, g))
         /\ SourcePan(w, g) \in Seq(Octet) /\ Len(SourcePan(w, g)) \in Nat /\ Len(g.payload) \in Nat
         /\ Len(Parts(w, g)) = HeadWidth(g.control) + Len(SourcePan(w, g)) + Len(g.payload)
         /\ HeaderLength(l, g.control) = HeadWidth(g.control) + SourcePanWidth(l, g.control)
         /\ HeadWidth(g.control) \in Nat /\ HeadWidth(g.control) >= 2
         /\ g.control.suppression = 0 => HeadWidth(g.control) >= 3
         /\ SourcePanWidth(l, g.control) \in {0, 2}
<1> DEFINE c == g.control
           pan == SourcePan(w, g)
           e == Layout(l, c)
<1>1. /\ c \in Controls /\ g.seq \in Seq(Octet) /\ g.destPan \in Seq(Octet) /\ g.dest \in Seq(Octet)
      /\ g.srcPan \in Seq(Octet) /\ g.src \in Seq(Octet) /\ g.payload \in Seq(Octet)
  BY DEF IsFrame
<1>19. /\ Len(g.seq) = 1 - c.suppression /\ Len(g.destPan) = PanWidth(c) /\ Len(g.dest) = Width(c.dest)
       /\ Len(g.src) = Width(c.src)
  BY DEF IsFrame, PanWidth
<1>2. pan \in Seq(Octet)
  BY FrameOctets
<1>3. HeaderLength(l, c) = e[6]
  BY DEF HeaderLength
<1>4. Parts(w, g) = Laid(g, pan)
  BY DEF Parts
<1>5. Octets(w, g) = WithFcs(Parts(w, g))
  BY OctetsLaid DEF Parts
<1>6. /\ e[1] = 2 /\ e[2] = e[1] + (1 - c.suppression) /\ e[3] = e[2] + PanWidth(c)
      /\ e[4] = e[3] + Width(c.dest) /\ e[5] = e[4] + SourcePanWidth(l, c) /\ e[6] = e[5] + Width(c.src)
  BY <1>1, LayoutEnds
<1>7. /\ Width(c.dest) \in Nat /\ Width(c.src) \in Nat /\ 1 - c.suppression \in Nat
      /\ PanWidth(c) \in Nat /\ SourcePanWidth(l, c) \in {0, 2}
  <2>1. c \in Controls
    BY <1>1
  <2>2. /\ Width(c.dest) \in Nat /\ Width(c.src) \in Nat /\ 1 - c.suppression \in Nat
        /\ PanWidth(c) \in {0, 2} /\ SourcePanWidth(l, c) \in {0, 2}
    BY <2>1, Widths, Zenon
  <2> QED BY <2>2
<1>8. c.suppression \in 0 .. 1
  BY <1>1 DEF Controls
<1>9. Len(pan) \in Nat /\ Len(g.payload) \in Nat
  BY <1>1, <1>2, LenProperties
<1> HIDE DEF c, pan, e
<1>10. /\ Parts(w, g) \in Seq(Octet)
       /\ Len(Parts(w, g)) = 2 + Len(g.seq) + Len(g.destPan) + Len(g.dest) + Len(pan) + Len(g.src) + Len(g.payload)
  <2>1. AreParts(g, pan)
    BY <1>1, <1>2 DEF AreParts, c
  <2>2. /\ Laid(g, pan) \in Seq(Octet)
        /\ Len(Laid(g, pan)) =
             2 + Len(g.seq) + Len(g.destPan) + Len(g.dest) + Len(pan) + Len(g.src) + Len(g.payload)
    BY <2>1, LaidOctets, Zenon
  <2> QED BY <1>4, <2>2, Zenon
<1> DEFINE d1 == 1 - c.suppression
           d2 == PanWidth(c)
           d3 == Width(c.dest)
           d4 == SourcePanWidth(l, c)
           d5 == Width(c.src)
           k == Len(pan)
           m == Len(g.payload)
<1>11. d1 \in Nat /\ d2 \in Nat /\ d3 \in Nat /\ d4 \in {0, 2} /\ d5 \in Nat /\ k \in Nat /\ m \in Nat
  BY <1>7, <1>9
<1>12. Len(Parts(w, g)) = 2 + d1 + d2 + d3 + k + d5 + m
  BY <1>10, <1>19
<1>13. e[1] = 2 /\ e[2] = e[1] + d1 /\ e[3] = e[2] + d2 /\ e[4] = e[3] + d3 /\ e[5] = e[4] + d4 /\ e[6] = e[5] + d5
  BY <1>6
<1>14. HeadWidth(c) = 2 + d1 + d2 + d3 + d5
  BY DEF HeadWidth
<1>15. c.suppression = 0 => d1 = 1
  OBVIOUS
<1> HIDE DEF d1, d2, d3, d4, d5, k, m
<1>16. HeadWidth(c) \in Nat /\ HeadWidth(c) >= 2 /\ (c.suppression = 0 => HeadWidth(c) >= 3)
  BY <1>11, <1>14, <1>15
<1>17. Len(Parts(w, g)) = HeadWidth(c) + k + m
  BY <1>11, <1>12, <1>14
<1>18. e[6] = HeadWidth(c) + d4
  BY <1>11, <1>13, <1>14
<1> QED BY <1>2, <1>3, <1>5, <1>7, <1>9, <1>10, <1>16, <1>17, <1>18 DEF c, pan, d4, k, m

\* What reader l sees of the packet.
LEMMA PacketSeen ==
  ASSUME NEW w \in Languages, NEW l \in Languages, NEW g, IsFrame(g), NEW s, s = Body(l, Octets(w, g))
  PROVE  /\ s \in Seq(Octet) /\ Begins(s, Parts(w, g)) /\ ReadControl(s) = g.control
         /\ Len(s) = Len(Parts(w, g)) + (IF l = "rust" THEN 0 ELSE 2)
         /\ Outcome(l, Octets(w, g)) = "frame" <=>
              KnownControl(l, g.control) /\ HeaderLength(l, g.control) <= Len(s)
<1> DEFINE d == Parts(w, g)
           n == Len(d)
<1>1. d \in Seq(Octet) /\ Octets(w, g) = WithFcs(d)
  BY PacketLengths
<1>2. s = Body(l, WithFcs(d))
  BY <1>1
<1>3. s \in Seq(Octet) /\ Begins(s, d) /\ (l = "rust" => s = d) /\ (l # "rust" => Len(s) = n + 2)
  BY <1>1, <1>2, BodyOctets
<1>4. n \in Nat /\ n >= 2 /\ (g.control.suppression = 0 => n >= 3)
  <2>1. /\ n = HeadWidth(g.control) + Len(SourcePan(w, g)) + Len(g.payload)
        /\ HeadWidth(g.control) \in Nat /\ HeadWidth(g.control) >= 2
        /\ (g.control.suppression = 0 => HeadWidth(g.control) >= 3)
        /\ Len(SourcePan(w, g)) \in Nat /\ Len(g.payload) \in Nat
    BY PacketLengths
  <2> HIDE DEF n
  <2> QED BY <2>1
<1>5. Len(s) = n + (IF l = "rust" THEN 0 ELSE 2)
  BY <1>3, <1>4
<1>6. ReadControl(s) = g.control
  <2>1. AreParts(g, SourcePan(w, g))
    BY FrameOctets DEF IsFrame, AreParts
  <2>2. Begins(s, Laid(g, SourcePan(w, g)))
    BY <1>3 DEF Parts
  <2> QED BY <1>3, <2>1, <2>2, LaidControl
<1>7. Accepts(l, Octets(w, g))
  <2>1. CASE l = "rust"
    <3>1. Octets(w, g) = WithFcs(Body(l, Octets(w, g)))
      BY <1>1, <1>2, <1>3, <2>1
    <3>2. Len(Octets(w, g)) >= 4
      BY <1>1, <1>4, WithFcsOctets
    <3> QED BY <3>1, <3>2 DEF Accepts
  <2>2. CASE l # "rust"
    BY <2>2 DEF Accepts
  <2> QED BY <2>1, <2>2
<1>8. ~(Len(s) < 2) /\ ~(l = "rust" /\ Len(s) = 2 /\ g.control.suppression = 0)
  <2> HIDE DEF n
  <2> QED BY <1>4, <1>5
<1>9. Outcome(l, Octets(w, g)) = "frame" <=> KnownControl(l, g.control) /\ HeaderLength(l, g.control) <= Len(s)
  BY <1>6, <1>7, <1>8, FrameOutcome
<1> QED BY <1>3, <1>5, <1>6, <1>9

\* How long Python's payload is: shorter than what is left by two, if there are two.
LEMMA PayloadLength ==
  ASSUME NEW r \in Seq(Octet)
  PROVE  Len(SubSeq(r, 1, Len(r) - 2)) = IF Len(r) >= 2 THEN Len(r) - 2 ELSE 0
<1> DEFINE n == Len(r)
           m == n - 2
<1>1. n \in Nat /\ \A k \in 1 .. n : r[k] \in Octet
  BY LenProperties, ElementOfSeq
<1> HIDE DEF n
<1>2. m \in Int /\ (IF 1 <= m THEN m - 1 + 1 ELSE 0) = (IF n >= 2 THEN n - 2 ELSE 0) /\ \A k \in 1 .. m : k \in 1 .. n
  BY <1>1
<1> HIDE DEF m
<1>3. \A k \in 1 .. m : r[k] \in Octet
  BY <1>1, <1>2
<1>4. Len(SubSeq(r, 1, m)) = (IF 1 <= m THEN m - 1 + 1 ELSE 0)
  BY <1>2, <1>3, SubSeqProperties
<1> QED BY <1>2, <1>4 DEF m, n

\* Where both languages see the same source PAN, what was written is what is read.
LEMMA ReadAsLaid ==
  ASSUME NEW w \in Languages, NEW l \in Languages, NEW g, IsFrame(g), NEW s, s = Body(l, Octets(w, g)),
         Len(SourcePan(w, g)) = SourcePanWidth(l, g.control)
  PROVE  /\ HeaderLength(l, g.control) <= Len(s)
         /\ Fields(l, s) =
              [control |-> g.control, seq |-> g.seq, destPan |-> g.destPan, dest |-> g.dest,
               srcPan |-> IF g.control.compression = 1 THEN g.destPan ELSE SourcePan(w, g),
               src |-> g.src, payload |-> g.payload]
<1> DEFINE c == g.control
           pan == SourcePan(w, g)
           e == Layout(l, c)
           d == Parts(w, g)
           n == Len(d)
           h == e[6]
<1>1. /\ d \in Seq(Octet) /\ pan \in Seq(Octet) /\ Len(pan) \in Nat /\ Len(g.payload) \in Nat
      /\ n = HeadWidth(c) + Len(pan) + Len(g.payload) /\ h = HeadWidth(c) + SourcePanWidth(l, c)
      /\ HeadWidth(c) \in Nat
  BY PacketLengths DEF HeaderLength
<1>2. s \in Seq(Octet) /\ Begins(s, d) /\ ReadControl(s) = c /\ Len(s) = n + (IF l = "rust" THEN 0 ELSE 2)
  BY PacketSeen
<1>3. Len(pan) = SourcePanWidth(l, c)
  OBVIOUS
<1>4. /\ c \in Controls /\ Len(g.seq) = 1 - c.suppression /\ Len(g.destPan) = PanWidth(c)
      /\ Len(g.dest) = Width(c.dest) /\ Len(g.src) = Width(c.src)
  BY DEF IsFrame, PanWidth
<1>5. AreParts(g, pan)
  BY <1>1 DEF IsFrame, AreParts
<1>6. /\ e[1] = 2 /\ e[2] = e[1] + (1 - c.suppression) /\ e[3] = e[2] + PanWidth(c)
      /\ e[4] = e[3] + Width(c.dest) /\ e[5] = e[4] + SourcePanWidth(l, c) /\ e[6] = e[5] + Width(c.src)
  BY <1>4, LayoutEnds
<1>7. Fields(l, s) =
        [control |-> c, seq |-> Slice(s, e[1], e[2]), destPan |-> Slice(s, e[2], e[3]), dest |-> Slice(s, e[3], e[4]),
         srcPan |-> IF c.compression = 1 THEN Slice(s, e[2], e[3]) ELSE Slice(s, e[4], e[5]),
         src |-> Slice(s, e[5], e[6]),
         payload |-> IF l = "rust" THEN Slice(s, e[6], Len(s))
                     ELSE SubSeq(Slice(s, e[6], Len(s)), 1, Len(Slice(s, e[6], Len(s))) - 2)]
  BY <1>2, FieldsSlice, Zenon
<1>8. d = Laid(g, pan)
  BY DEF Parts
<1>9. HeaderLength(l, g.control) = h
  BY DEF HeaderLength
<1> HIDE DEF c, pan, e, d, n
<1>10. n = h + Len(g.payload) /\ n \in Nat /\ h \in Nat
  BY <1>1, <1>3
<1>11. h <= Len(s) /\ h \in 0 .. Len(s) /\ Len(s) \in Nat
  <2>1. Len(s) = n \/ Len(s) = n + 2
    BY <1>2, <1>10
  <2> HIDE DEF h
  <2> QED BY <1>10, <2>1
<1>12. AreEnds(e[2], e[3], e[4], e[5], e[6], n, g, pan)
  BY <1>3, <1>4, <1>6, <1>10 DEF AreEnds, ControlEnd
<1>13. /\ Slice(s, ControlEnd, e[2]) = g.seq /\ Slice(s, e[2], e[3]) = g.destPan /\ Slice(s, e[3], e[4]) = g.dest
       /\ Slice(s, e[4], e[5]) = pan /\ Slice(s, e[5], e[6]) = g.src /\ Slice(s, e[6], n) = g.payload
  BY <1>2, <1>5, <1>8, <1>12, LaidRead
<1>14. Slice(s, e[1], e[2]) = g.seq
  BY <1>6, <1>13, Zenon DEF ControlEnd
<1>15. (IF l = "rust" THEN Slice(s, e[6], Len(s))
        ELSE SubSeq(Slice(s, e[6], Len(s)), 1, Len(Slice(s, e[6], Len(s))) - 2)) = g.payload
  <2>1. CASE l = "rust"
    <3>1. Len(s) = n
      BY <1>2, <1>10, <2>1
    <3> QED BY <1>13, <2>1, <3>1
  <2>2. CASE l # "rust"
    <3>1. Len(s) = n + 2 /\ Len(s) - 2 = n /\ Len(s) >= 2 /\ h <= Len(s) - 2
      BY <1>2, <1>10, <2>2
    <3>2. SubSeq(Slice(s, h, Len(s)), 1, Len(Slice(s, h, Len(s))) - 2) = Slice(s, h, Len(s) - 2)
      <4> HIDE DEF h
      <4> QED BY <1>2, <1>11, <3>1, WithoutLastTwo
    <3> QED BY <1>13, <2>2, <3>1, <3>2, Zenon
  <2> QED BY <2>1, <2>2
<1> QED BY <1>7, <1>9, <1>11, <1>13, <1>14, <1>15, Zenon DEF c, pan

\* One side sees a source PAN where the other has none.
Mismatch(w, l, g) ==
    g.control.compression = 0 /\ ((SourcePan(w, g) = <<>>) <=> (g.control.type \in WithSourcePan(l)))

LEMMA ReadAsWritten ==
  ASSUME NEW w \in Languages, NEW l \in Languages, NEW g, IsFrame(g), NEW s, s = Body(l, Octets(w, g)),
         KnownControl(l, g.control), ~Mismatch(w, l, g),
         ToldSourcePan(w, g) = g.srcPan
  PROVE  Outcome(l, Octets(w, g)) = "frame" /\ Fields(l, s) = g
<1> DEFINE c == g.control
           pan == SourcePan(w, g)
<1>1. /\ g = [control |-> c, seq |-> g.seq, destPan |-> g.destPan, dest |-> g.dest,
              srcPan |-> g.srcPan, src |-> g.src, payload |-> g.payload]
      /\ c \in Controls /\ g.srcPan \in Seq(Octet) /\ Len(g.srcPan) \in {0, 2}
      /\ c.compression = 1 => g.srcPan = g.destPan
  BY DEF IsFrame, ToldSourcePan
<1>2. c.compression \in {0, 1}
  BY <1>1 DEF Controls
<1>3. Len(pan) = SourcePanWidth(l, c) /\ (c.compression = 0 => pan = g.srcPan)
  <2>1. CASE c.compression = 1
    <3>1. pan = <<>>
      BY <2>1 DEF SourcePan
    <3> QED BY <2>1, <3>1 DEF SourcePanWidth
  <2>2. CASE c.compression = 0
    <3>1. pan = g.srcPan /\ ((pan = <<>>) <=> (c.type \notin WithSourcePan(l)))
      BY <2>2 DEF Mismatch, ToldSourcePan
    <3>2. Len(g.srcPan) = 0 => g.srcPan = <<>>
      BY <1>1, EmptySeq
    <3>3. g.srcPan = <<>> => Len(g.srcPan) = 0
      OBVIOUS
    <3> HIDE DEF c, pan
    <3> QED BY <1>1, <2>2, <3>1, <3>2, <3>3 DEF SourcePanWidth
  <2> QED BY <1>2, <2>1, <2>2
<1>4. /\ HeaderLength(l, c) <= Len(s)
      /\ Fields(l, s) =
           [control |-> c, seq |-> g.seq, destPan |-> g.destPan, dest |-> g.dest,
            srcPan |-> IF c.compression = 1 THEN g.destPan ELSE pan, src |-> g.src, payload |-> g.payload]
  BY <1>3, ReadAsLaid
<1>5. Outcome(l, Octets(w, g)) = "frame"
  BY <1>4, PacketSeen
<1>6. (IF c.compression = 1 THEN g.destPan ELSE pan) = g.srcPan
  BY <1>1, <1>2, <1>3
<1> HIDE DEF c, pan
<1>7. Fields(l, s) = g
  BY <1>1, <1>4, <1>6, Zenon
<1> QED BY <1>5, <1>7

LEMMA WrittenAsRead ==
  ASSUME NEW w \in Languages, NEW l \in Languages, NEW g, IsFrame(g), NEW s, s = Body(l, Octets(w, g)),
         Outcome(l, Octets(w, g)) = "frame", Fields(l, s) = g
  PROVE  /\ KnownControl(l, g.control) /\ ~Mismatch(w, l, g)
         /\ ToldSourcePan(w, g) = g.srcPan
<1> DEFINE c == g.control
           pan == SourcePan(w, g)
           e == Layout(l, c)
           h == e[6]
           k == HeadWidth(c)
<1>1. c \in Controls /\ g.srcPan \in Seq(Octet) /\ g.payload \in Seq(Octet)
  BY DEF IsFrame
<1>2. c.compression \in {0, 1}
  BY <1>1 DEF Controls
<1>3. KnownControl(l, c) /\ HeaderLength(l, c) <= Len(s) /\ s \in Seq(Octet) /\ ReadControl(s) = c
      /\ Len(s) = Len(Parts(w, g)) + (IF l = "rust" THEN 0 ELSE 2)
  BY PacketSeen
<1>12. Len(s) = Len(Parts(w, g)) + (IF l = "rust" THEN 0 ELSE 2)
  BY <1>3
<1>4. /\ Len(Parts(w, g)) = k + Len(pan) + Len(g.payload) /\ k \in Nat /\ Len(pan) \in Nat /\ Len(g.payload) \in Nat
      /\ h = k + SourcePanWidth(l, c) /\ h <= Len(s)
  BY <1>3, PacketLengths DEF HeaderLength
<1>5. /\ \A i \in 1 .. 6 : e[i] \in Nat
      /\ e[4] <= e[5] /\ e[5] <= e[6] /\ e[5] = e[4] + SourcePanWidth(l, c)
  BY <1>1, LayoutEnds
<1>6. /\ c.compression = 0 => g.srcPan = Slice(s, e[4], e[5])
      /\ c.compression = 1 => g.srcPan = g.destPan
      /\ l # "rust" => g.payload = SubSeq(Slice(s, e[6], Len(s)), 1, Len(Slice(s, e[6], Len(s))) - 2)
  <2> DEFINE seq == Slice(s, e[1], e[2])
             destPan == Slice(s, e[2], e[3])
             dest == Slice(s, e[3], e[4])
             src == Slice(s, e[5], e[6])
             srcPan == Slice(s, e[4], e[5])
             rest == Slice(s, e[6], Len(s))
             short == SubSeq(rest, 1, Len(rest) - 2)
  <2>1. g = [control |-> c, seq |-> seq, destPan |-> destPan, dest |-> dest,
             srcPan |-> IF c.compression = 1 THEN destPan ELSE srcPan,
             src |-> src, payload |-> IF l = "rust" THEN rest ELSE short]
    BY <1>3, FieldsSlice, ZenonT(40)
  <2>2. c.compression = 0 => c.compression # 1
    OBVIOUS
  <2> HIDE DEF c, seq, destPan, dest, src, srcPan, rest, short
  <2>3. /\ c.compression = 0 => g.srcPan = srcPan
        /\ c.compression = 1 => g.srcPan = g.destPan
        /\ l # "rust" => g.payload = short
    BY <2>1, <2>2
  <2> QED BY <2>3 DEF srcPan, short, rest
<1>7. SourcePanWidth(l, c) \in {0, 2} /\ (SourcePanWidth(l, c) # 0 => c.type \in WithSourcePan(l))
      /\ (c.compression = 0 /\ c.type \in WithSourcePan(l) => SourcePanWidth(l, c) = 2)
  BY DEF SourcePanWidth
<1>8. ASSUME c.compression = 0 PROVE Len(g.srcPan) = SourcePanWidth(l, c)
  <2>2. e[4] \in Nat /\ e[5] \in e[4] .. Len(s)
    <3> HIDE DEF c, e
    <3>1. e[4] \in Nat /\ e[5] \in Nat /\ e[6] \in Nat /\ Len(s) \in Nat
      BY <1>3, <1>5, LenProperties
    <3> QED BY <1>4, <1>5, <3>1
  <2>3. Len(Slice(s, e[4], e[5])) = e[5] - e[4]
    BY <1>3, <2>2, SliceLength
  <2>4. e[5] - e[4] = SourcePanWidth(l, c)
    BY <1>5, <1>7, <2>2
  <2>5. g.srcPan = Slice(s, e[4], e[5])
    BY <1>6, <1>8
  <2> QED BY <2>3, <2>4, <2>5
<1>9. ASSUME c.compression = 0, pan # g.srcPan PROVE FALSE
  <2>1. w # "rust"
    BY <1>9 DEF SourcePan
  <2>2. w = "python"
    BY <2>1 DEF Languages
  <2>3. pan = <<>> /\ (c.type \notin WithSourcePan("python") \/ SkipsSourcePan(g))
    <3>1. pan = IF c.type \in WithSourcePan(w) /\ ~SkipsSourcePan(g) THEN g.srcPan ELSE <<>>
      BY <1>9, <2>1 DEF SourcePan
    <3> QED BY <1>9, <2>2, <3>1
  <2>4. SourcePanWidth(l, c) # 0
    <3>1. Len(g.srcPan) # 0
      BY <1>1, <1>9, <2>3, EmptySeq
    <3> QED BY <1>8, <1>9, <3>1
  <2>5. c.type \in WithSourcePan("python")
    BY <1>7, <2>4 DEF WithSourcePan
  <2>6. g.payload = <<7>>
    BY <2>3, <2>5 DEF SkipsSourcePan, BeaconRequest
  <2>7. Len(g.payload) = 1 /\ Len(pan) = 0
    BY <2>3, <2>6
  <2>8. Len(Parts(w, g)) = k + 1 /\ h = k + 2
    <3> HIDE DEF k, h, pan, c
    <3> QED BY <1>4, <1>7, <2>4, <2>7
  <2>9. CASE l = "rust"
    <3>1. Len(s) = k + 1
      <4>1. Len(s) = Len(Parts(w, g))
        BY <1>12, <2>8, <2>9, <1>4
      <4> QED BY <2>8, <4>1
    <3> HIDE DEF k, h
    <3> QED BY <1>4, <2>8, <3>1
  <2>10. CASE l # "rust"
    <3>1. Len(s) = k + 3 /\ h \in Nat /\ h <= Len(s) /\ Len(s) - h = 1
      <4> DEFINE n == Len(Parts(w, g))
      <4>1. Len(s) = n + 2 /\ n = k + 1 /\ h = k + 2 /\ h <= Len(s) /\ k \in Nat
        BY <1>4, <1>12, <2>8, <2>10
      <4> HIDE DEF k, h, n
      <4> QED BY <4>1
    <3>2. h \in Nat /\ Len(s) \in h .. Len(s)
      <4> HIDE DEF k, h
      <4> QED BY <1>4, <3>1
    <3>3. Slice(s, h, Len(s)) \in Seq(Octet) /\ Len(Slice(s, h, Len(s))) = 1
      <4> HIDE DEF k, h
      <4> QED BY <1>3, <3>1, <3>2, SliceLength
    <3>4. g.payload = SubSeq(Slice(s, h, Len(s)), 1, Len(Slice(s, h, Len(s))) - 2)
      <4> HIDE DEF e, c
      <4> QED BY <1>6, <2>10
    <3>5. Len(g.payload) = 0
      <4> HIDE DEF h
      <4>1. Len(SubSeq(Slice(s, h, Len(s)), 1, Len(Slice(s, h, Len(s))) - 2)) = 0
        <5> DEFINE r == Slice(s, h, Len(s))
        <5>1. r \in Seq(Octet) /\ Len(r) = 1
          BY <3>3
        <5> HIDE DEF r
        <5>2. Len(SubSeq(r, 1, Len(r) - 2)) = 0
          BY <5>1, PayloadLength
        <5> QED BY <5>2 DEF r
      <4> QED BY <3>4, <4>1, Zenon
    <3> QED BY <2>7, <3>5
  <2> QED BY <2>9, <2>10
<1>10. ASSUME c.compression = 0 PROVE ~Mismatch(w, l, g)
  <2>1. pan = g.srcPan /\ Len(g.srcPan) = SourcePanWidth(l, c)
    BY <1>8, <1>9, <1>10
  <2>2. CASE c.type \in WithSourcePan(l)
    <3>1. Len(pan) = 2
      BY <1>7, <1>10, <2>1, <2>2
    <3>2. pan # <<>>
      BY <3>1
    <3> QED BY <2>2, <3>2 DEF Mismatch
  <2>3. CASE c.type \notin WithSourcePan(l)
    <3>1. Len(pan) = 0
      BY <1>7, <2>1, <2>3
    <3>2. pan = <<>>
      BY <1>1, <2>1, <3>1, EmptySeq
    <3> QED BY <2>3, <3>2 DEF Mismatch
  <2> QED BY <2>2, <2>3
<1>11. c.compression = 1 => ~Mismatch(w, l, g)
  BY DEF Mismatch
<1>13. ToldSourcePan(w, g) = g.srcPan
  BY <1>2, <1>6, <1>9 DEF ToldSourcePan
<1> QED BY <1>2, <1>3, <1>10, <1>11, <1>13

\* Of an undamaged frame somebody wrote, l reads the fields as FieldsSurvive says.
LEMMA WrittenSurvives ==
  ASSUME AirInv, damaged = {}, NEW l \in Languages, outcome[l] # "unread", written # <<>>
  PROVE  (outcome[l] = "frame" /\ frame[l] = written) <=>
           /\ KnownControl(l, written[1].control)
           /\ ~SourcePanMismatch(l, written[1])
           /\ ToldSourcePan(writer, written[1]) = written[1].srcPan
<1>1. PICK p \in Packets : written = p.written /\ writer = p.writer /\ air = p.air
  BY Undamaged
<1>2. PICK w \in Languages, g \in Built : written = <<g>> /\ writer = w /\ air = Octets(w, g)
  <2>1. CASE \E x \in {x \in Languages \X Built : CanWrite(x[1], x[2])} :
               p = [written |-> <<x[2]>>, writer |-> x[1], air |-> Octets(x[1], x[2])]
    <3>1. PICK x \in Languages \X Built : p = [written |-> <<x[2]>>, writer |-> x[1], air |-> Octets(x[1], x[2])]
      BY <2>1
    <3>2. x[1] \in Languages /\ x[2] \in Built
      BY <3>1
    <3>3. p.written = <<x[2]>> /\ p.writer = x[1] /\ p.air = Octets(x[1], x[2])
      BY <3>1
    <3> QED BY <1>1, <3>2, <3>3
  <2>2. CASE \E data \in Foreign : p = [written |-> <<>>, writer |-> "foreign", air |-> WithFcs(data)]
    <3>1. p.written = <<>>
      BY <2>2
    <3> QED BY <1>1, <3>1
  <2> QED BY <1>1, <2>1, <2>2 DEF Packets
<1>3. IsFrame(g)
  BY MacFrameAssumption
<1>4. outcome[l] = Outcome(l, air) /\ (outcome[l] = "frame" => frame[l] = <<Fields(l, Body(l, air))>>)
  BY DEF AirInv
<1> DEFINE s == Body(l, Octets(w, g))
<1>5. written[1] = g
  BY <1>2
<1>6. SourcePanMismatch(l, g) <=> Mismatch(w, l, g)
  BY <1>2 DEF SourcePanMismatch, Mismatch
<1>7. (outcome[l] = "frame" /\ frame[l] = written) <=> (Outcome(l, Octets(w, g)) = "frame" /\ Fields(l, s) = g)
  <2>1. outcome[l] = "frame" => frame[l] = <<Fields(l, s)>>
    BY <1>2, <1>4
  <2>2. \A x : <<x>> = <<g>> <=> x = g
    OBVIOUS
  <2> HIDE DEF s
  <2> QED BY <1>2, <1>4, <2>1, <2>2
<1>8. (Outcome(l, Octets(w, g)) = "frame" /\ Fields(l, s) = g) <=>
        /\ KnownControl(l, g.control) /\ ~Mismatch(w, l, g)
        /\ ToldSourcePan(w, g) = g.srcPan
  <2> HIDE DEF s
  <2>1. s = Body(l, Octets(w, g))
    BY DEF s
  <2> QED BY <1>3, <2>1, ReadAsWritten, WrittenAsRead
<1> HIDE DEF s
<1> QED BY <1>2, <1>5, <1>6, <1>7, <1>8

\* What is read is what was written, in both languages and between them, but for the
\* cases FieldsSurvive names, and Rust writes what it has read as it was.
THEOREM FieldsAlwaysSurvive == DumpSpec => []FieldsSurvive
<1>1. AirInv => FieldsSurvive
  <2> SUFFICES ASSUME AirInv, NEW l \in Languages, damaged = {}, outcome[l] # "unread"
               PROVE  /\ l = "rust" => RewrittenAsRead(l)
                      /\ written # <<>> =>
                           ((outcome[l] = "frame" /\ frame[l] = written) <=>
                              /\ KnownControl(l, written[1].control)
                              /\ ~SourcePanMismatch(l, written[1])
                              /\ ToldSourcePan(writer, written[1]) = written[1].srcPan)
    BY Zenon DEF FieldsSurvive
  <2>1. ASSUME l = "rust" PROVE RewrittenAsRead(l)
    BY <2>1, RewrittenTheSame DEF RewrittenAsRead
  <2> QED BY <2>1, WrittenSurvives
<1> QED BY <1>1, AirAlways, PTL

\* The assertion of zigbee_types.py:659 fails on no undamaged frame, of whatever device,
\* but those whose header, as Python reads it, ends in the FCS, and commands with a
\* source PAN of their own and the payload of a beacon request.
THEOREM SerializesOthersAsCaptured ==
    DumpSpec => [](damaged = {} => RewrittenAsRead("python") \/ HeaderInFcs \/ SourcePanLost)
<1>1. AirInv => (damaged = {} => RewrittenAsRead("python") \/ HeaderInFcs \/ SourcePanLost)
  <2>1. "python" \in Languages
    BY DEF Languages
  <2> QED BY <2>1, RewrittenTheSame DEF RewrittenAsRead
<1> QED BY <1>1, AirAlways, PTL
===============================================================================
