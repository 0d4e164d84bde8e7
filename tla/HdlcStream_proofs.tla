-------------------------- MODULE HdlcStream_proofs --------------------------
(***************************************************************************)
(* Proofs about the byte stream.  The argument, in the order of the module: *)
(*   - what the folds of HdlcStream compute, one element after the other    *)
(*     (the ...Run and ...Step lemmas, from Sequences_proofs);                  *)
(*   - reading goes on from what is left of it, wherever that came from     *)
(*     (ReadOn); the loop over the buffer reads as Reference does (Looped,  *)
(*     DrainReads); unstuffing undoes stuffing (UnstuffStuffed, RoundTrip), *)
(*     so a frame on the line ends what was begun before it and comes out   *)
(*     (FrameReading);                                                      *)
(*   - a stream with k errors is the frames written with at most k of them  *)
(*     changed into anything (Worn), and yields all the others (WornReading);*)
(*   - the invariants IInv and WornStream, and the theorems.                *)
(***************************************************************************)
EXTENDS HdlcStream, Sequences_proofs

-------------------------------------------------------------------------------
(* Octets on the line, and frames. *)

Octets == Nat
Payload == Seq(Octets)

LEMMA FlipType == \A o \in Octets : Flip(o) \in Octets
  BY DEF Flip, Octets

LEMMA SumType == 1 \in Nat /\ \A n \in Nat, o \in Octets : Sum(n, o) \in Nat
  BY DEF Sum, Octets

LEMMA ChecksumRun ==
  ASSUME NEW s \in Payload
  PROVE  \E r : /\ r[0] = 1
                /\ \A k \in 1 .. Len(s) : r[k] = Sum(r[k - 1], s[k])
                /\ Checksum(s) = r[Len(s)]
<1> DEFINE n == Len(s)
           step == [x \in Nat \X (1 .. n) |-> Sum(x[1], s[x[2]])]
           Iterates(it) == it = [S \in SUBSET DOMAIN s |->
                                   IF S = {} THEN 1 ELSE Sum(it[S \ {Max(S)}], s[Max(S)])]
           iter == CHOOSE it : Iterates(it)
           r == [k \in 0 .. n |-> iter[1 .. k]]
<1>1. n \in Nat /\ DOMAIN s = 1 .. n /\ \A k \in 1 .. n : s[k] \in Octets
  BY LenProperties, ElementOfSeq DEF Payload
<1> HIDE DEF n
<1>2. 1 \in Nat /\ step \in [Nat \X (1 .. n) -> Nat]
  BY <1>1, SumType
<1>3. PICK it : Iteration(it, Nat, 1, n, step)
  <2>1. n \in Nat
    BY <1>1
  <2> HIDE DEF step
  <2> QED BY <2>1, <1>2, FoldExists
<1>4. ASSUME NEW S \in SUBSET (1 .. n), S # {}
      PROVE  it[S] = Sum(it[S \ {Max(S)}], s[Max(S)])
  <2>1. Max(S) \in 1 .. n /\ it[S \ {Max(S)}] \in Nat
    BY <1>1, <1>3, <1>4, MaxProperties DEF Iteration
  <2>2. <<it[S \ {Max(S)}], Max(S)>> \in Nat \X (1 .. n)
    BY <2>1
  <2> QED BY <1>3, <1>4, <2>2 DEF Iteration
<1>5. it = [S \in SUBSET DOMAIN s |-> it[S]] /\ it[{}] = 1
  BY <1>1, <1>3 DEF Iteration
<1>6. Iterates(it)
  BY <1>1, <1>4, <1>5
<1>7. Iterates(iter)
  BY <1>6
<1>8. Checksum(s) = iter[DOMAIN s]
  BY DEF Checksum, FoldLeft, MapThenFoldSet
<1> HIDE DEF iter
<1>9. ASSUME NEW k \in 1 .. n PROVE iter[1 .. k] = Sum(iter[1 .. (k - 1)], s[k])
  <2>1. 1 .. k \in SUBSET DOMAIN s /\ 1 .. k # {} /\ Max(1 .. k) = k
        /\ (1 .. k) \ {k} = 1 .. (k - 1)
    BY <1>1, FirstIndices
  <2> QED BY <1>7, <2>1
<1>10. 1 .. 0 = {} /\ 0 \in 0 .. n /\ n \in 0 .. n
  BY <1>1
<1>11. r[0] = 1 /\ Checksum(s) = r[n]
  BY <1>1, <1>7, <1>8, <1>10
<1>12. \A k \in 1 .. n : r[k] = Sum(r[k - 1], s[k])
  BY <1>1, <1>9
<1> HIDE DEF r
<1> QED BY <1>11, <1>12 DEF n

LEMMA ChecksumStep ==
  /\ Checksum(<<>>) = 1
  /\ \A s \in Payload, o \in Octets : Checksum(Append(s, o)) = Sum(Checksum(s), o)
<1>1. Checksum(<<>>) = 1
  <2>1. <<>> \in Payload /\ Len(<<>>) = 0
    BY EmptySeq DEF Payload
  <2> QED BY <2>1, ChecksumRun
<1>2. ASSUME NEW s \in Payload, NEW o \in Octets PROVE Checksum(Append(s, o)) = Sum(Checksum(s), o)
  <2> DEFINE n == Len(s)
             t == Append(s, o)
  <2>1. t \in Payload /\ n \in Nat /\ Len(t) = n + 1 /\ t[n + 1] = o /\ \A k \in 1 .. n : t[k] = s[k]
    BY LenProperties, AppendProperties DEF Payload
  <2>2. PICK r : r[0] = 1 /\ (\A k \in 1 .. n : r[k] = Sum(r[k - 1], s[k])) /\ Checksum(s) = r[n]
    BY ChecksumRun
  <2> HIDE DEF n, t
  <2>3. PICK q : r[0] = q[0] /\ (\A k \in 1 .. n + 1 : q[k] = Sum(q[k - 1], t[k])) /\ Checksum(t) = q[n + 1]
    BY <2>1, <2>2, ChecksumRun
  <2>4. \A k \in 1 .. n : r[k - 1] = q[k - 1] => r[k] = q[k]
    BY <2>1, <2>2, <2>3
  <2>5. r[n] = q[n]
    BY <2>1, <2>3, <2>4, RunsAgree
  <2>6. n + 1 \in 1 .. n + 1 /\ (n + 1) - 1 = n
    BY <2>1
  <2>7. Checksum(t) = Sum(Checksum(s), o)
    BY <2>1, <2>2, <2>3, <2>5, <2>6
  <2> QED BY <2>7 DEF t
<1> QED BY <1>1, <1>2

LEMMA ChecksumType == \A s \in Payload : Checksum(s) \in Nat
<1> DEFINE P == {s \in Payload : Checksum(s) \in Nat}
<1>1. <<>> \in P
  BY ChecksumStep, SumType, EmptySeq DEF Payload
<1>2. ASSUME NEW s \in Payload, NEW o \in Octets, s \in P PROVE Append(s, o) \in P
  BY <1>2, ChecksumStep, SumType, AppendProperties DEF Payload
<1> HIDE DEF P
<1>3. Seq(Octets) \subseteq P
  BY <1>1, <1>2, SeqInduction DEF Payload
<1> QED BY <1>3 DEF P, Payload

LEMMA PutType == <<>> \in Payload /\ \A out \in Payload, o \in Octets : Put(out, o) \in Payload
<1>1. \A o \in Octets : Stuff(o) \in Payload
  <2>1. Escape \in Octets
    BY DEF Escape, Octets
  <2> QED BY <2>1, FlipType DEF Stuff, Payload
<1> QED BY <1>1, EmptySeq, ConcatProperties DEF Put, Payload

LEMMA StuffedRun ==
  ASSUME NEW s \in Payload
  PROVE  \E r : /\ r[0] = <<>>
                /\ \A k \in 1 .. Len(s) : r[k] = Put(r[k - 1], s[k])
                /\ Stuffed(s) = r[Len(s)]
<1> DEFINE n == Len(s)
           step == [x \in Payload \X (1 .. n) |-> Put(x[1], s[x[2]])]
           Iterates(it) == it = [S \in SUBSET DOMAIN s |->
                                   IF S = {} THEN <<>> ELSE Put(it[S \ {Max(S)}], s[Max(S)])]
           iter == CHOOSE it : Iterates(it)
           r == [k \in 0 .. n |-> iter[1 .. k]]
<1>1. n \in Nat /\ DOMAIN s = 1 .. n /\ \A k \in 1 .. n : s[k] \in Octets
  BY LenProperties, ElementOfSeq DEF Payload
<1> HIDE DEF n
<1>2. <<>> \in Payload /\ step \in [Payload \X (1 .. n) -> Payload]
  BY <1>1, PutType
<1>3. PICK it : Iteration(it, Payload, <<>>, n, step)
  <2>1. n \in Nat
    BY <1>1
  <2> HIDE DEF step
  <2> QED BY <2>1, <1>2, FoldExists
<1>4. ASSUME NEW S \in SUBSET (1 .. n), S # {}
      PROVE  it[S] = Put(it[S \ {Max(S)}], s[Max(S)])
  <2>1. Max(S) \in 1 .. n /\ it[S \ {Max(S)}] \in Payload
    BY <1>1, <1>3, <1>4, MaxProperties DEF Iteration
  <2>2. <<it[S \ {Max(S)}], Max(S)>> \in Payload \X (1 .. n)
    BY <2>1
  <2> QED BY <1>3, <1>4, <2>2 DEF Iteration
<1>5. it = [S \in SUBSET DOMAIN s |-> it[S]] /\ it[{}] = <<>>
  BY <1>1, <1>3 DEF Iteration
<1>6. Iterates(it)
  BY <1>1, <1>4, <1>5
<1>7. Iterates(iter)
  BY <1>6
<1>8. Stuffed(s) = iter[DOMAIN s]
  BY DEF Stuffed, FoldLeft, MapThenFoldSet
<1> HIDE DEF iter
<1>9. ASSUME NEW k \in 1 .. n PROVE iter[1 .. k] = Put(iter[1 .. (k - 1)], s[k])
  <2>1. 1 .. k \in SUBSET DOMAIN s /\ 1 .. k # {} /\ Max(1 .. k) = k
        /\ (1 .. k) \ {k} = 1 .. (k - 1)
    BY <1>1, FirstIndices
  <2> QED BY <1>7, <2>1
<1>10. 1 .. 0 = {} /\ 0 \in 0 .. n /\ n \in 0 .. n
  BY <1>1
<1>11. r[0] = <<>> /\ Stuffed(s) = r[n]
  BY <1>1, <1>7, <1>8, <1>10
<1>12. \A k \in 1 .. n : r[k] = Put(r[k - 1], s[k])
  BY <1>1, <1>9
<1> HIDE DEF r
<1> QED BY <1>11, <1>12 DEF n

LEMMA StuffedStep ==
  /\ Stuffed(<<>>) = <<>>
  /\ \A s \in Payload, o \in Octets : Stuffed(Append(s, o)) = Put(Stuffed(s), o)
<1>1. Stuffed(<<>>) = <<>>
  <2>1. <<>> \in Payload /\ Len(<<>>) = 0
    BY EmptySeq DEF Payload
  <2> QED BY <2>1, StuffedRun
<1>2. ASSUME NEW s \in Payload, NEW o \in Octets PROVE Stuffed(Append(s, o)) = Put(Stuffed(s), o)
  <2> DEFINE n == Len(s)
             t == Append(s, o)
  <2>1. t \in Payload /\ n \in Nat /\ Len(t) = n + 1 /\ t[n + 1] = o /\ \A k \in 1 .. n : t[k] = s[k]
    BY LenProperties, AppendProperties DEF Payload
  <2>2. PICK r : r[0] = <<>> /\ (\A k \in 1 .. n : r[k] = Put(r[k - 1], s[k])) /\ Stuffed(s) = r[n]
    BY StuffedRun
  <2> HIDE DEF n, t
  <2>3. PICK q : r[0] = q[0] /\ (\A k \in 1 .. n + 1 : q[k] = Put(q[k - 1], t[k])) /\ Stuffed(t) = q[n + 1]
    BY <2>1, <2>2, StuffedRun
  <2>4. \A k \in 1 .. n : r[k - 1] = q[k - 1] => r[k] = q[k]
    BY <2>1, <2>2, <2>3
  <2>5. r[n] = q[n]
    BY <2>1, <2>3, <2>4, RunsAgree
  <2>6. n + 1 \in 1 .. n + 1 /\ (n + 1) - 1 = n
    BY <2>1
  <2>7. Stuffed(t) = Put(Stuffed(s), o)
    BY <2>1, <2>2, <2>3, <2>5, <2>6
  <2> QED BY <2>7 DEF t
<1> QED BY <1>1, <1>2

LEMMA StuffedType == \A s \in Payload : Stuffed(s) \in Payload
<1> DEFINE P == {s \in Payload : Stuffed(s) \in Payload}
<1>1. <<>> \in P
  BY StuffedStep, PutType, EmptySeq DEF Payload
<1>2. ASSUME NEW s \in Payload, NEW o \in Octets, s \in P PROVE Append(s, o) \in P
  BY <1>2, StuffedStep, PutType, AppendProperties DEF Payload
<1> HIDE DEF P
<1>3. Seq(Octets) \subseteq P
  BY <1>1, <1>2, SeqInduction DEF Payload
<1> QED BY <1>3 DEF P, Payload

Unstuffing == [data : Payload, mode : {"plain", "escaped", "bad"}]
Unread == [data |-> <<>>, mode |-> "plain"]

LEMMA TakeType ==
  Unread \in Unstuffing /\ \A acc \in Unstuffing, o \in Octets : Take(acc, o) \in Unstuffing
<1>1. Unread \in Unstuffing
  BY EmptySeq DEF Unread, Unstuffing, Payload
<1>2. ASSUME NEW acc \in Unstuffing, NEW o \in Octets PROVE Take(acc, o) \in Unstuffing
  <2>1. acc.data \in Payload /\ acc.mode \in {"plain", "escaped", "bad"}
    BY DEF Unstuffing
  <2>2. Append(acc.data, o) \in Payload /\ Append(acc.data, Flip(o)) \in Payload
    BY <2>1, FlipType, AppendProperties DEF Payload
  <2> QED BY <2>1, <2>2 DEF Take, Unstuffing
<1> QED BY <1>1, <1>2

LEMMA UnstuffRun ==
  ASSUME NEW s \in Payload
  PROVE  \E r : /\ r[0] = Unread
                /\ \A k \in 1 .. Len(s) : r[k] = Take(r[k - 1], s[k])
                /\ Unstuff(s) = r[Len(s)]
<1> DEFINE n == Len(s)
           step == [x \in Unstuffing \X (1 .. n) |-> Take(x[1], s[x[2]])]
           Iterates(it) == it = [S \in SUBSET DOMAIN s |->
                                   IF S = {} THEN Unread ELSE Take(it[S \ {Max(S)}], s[Max(S)])]
           iter == CHOOSE it : Iterates(it)
           r == [k \in 0 .. n |-> iter[1 .. k]]
<1>1. n \in Nat /\ DOMAIN s = 1 .. n /\ \A k \in 1 .. n : s[k] \in Octets
  BY LenProperties, ElementOfSeq DEF Payload
<1> HIDE DEF n
<1>2. Unread \in Unstuffing /\ step \in [Unstuffing \X (1 .. n) -> Unstuffing]
  BY <1>1, TakeType
<1>3. PICK it : Iteration(it, Unstuffing, Unread, n, step)
  <2>1. n \in Nat
    BY <1>1
  <2> HIDE DEF step
  <2> QED BY <2>1, <1>2, FoldExists
<1>4. ASSUME NEW S \in SUBSET (1 .. n), S # {}
      PROVE  it[S] = Take(it[S \ {Max(S)}], s[Max(S)])
  <2>1. Max(S) \in 1 .. n /\ it[S \ {Max(S)}] \in Unstuffing
    BY <1>1, <1>3, <1>4, MaxProperties DEF Iteration
  <2>2. <<it[S \ {Max(S)}], Max(S)>> \in Unstuffing \X (1 .. n)
    BY <2>1
  <2> QED BY <1>3, <1>4, <2>2 DEF Iteration
<1>5. it = [S \in SUBSET DOMAIN s |-> it[S]] /\ it[{}] = Unread
  BY <1>1, <1>3 DEF Iteration
<1>6. Iterates(it)
  BY <1>1, <1>4, <1>5
<1>7. Iterates(iter)
  BY <1>6
<1>8. Unstuff(s) = iter[DOMAIN s]
  BY DEF Unstuff, Unread, FoldLeft, MapThenFoldSet
<1> HIDE DEF iter
<1>9. ASSUME NEW k \in 1 .. n PROVE iter[1 .. k] = Take(iter[1 .. (k - 1)], s[k])
  <2>1. 1 .. k \in SUBSET DOMAIN s /\ 1 .. k # {} /\ Max(1 .. k) = k
        /\ (1 .. k) \ {k} = 1 .. (k - 1)
    BY <1>1, FirstIndices
  <2> QED BY <1>7, <2>1
<1>10. 1 .. 0 = {} /\ 0 \in 0 .. n /\ n \in 0 .. n
  BY <1>1
<1>11. r[0] = Unread /\ Unstuff(s) = r[n]
  BY <1>1, <1>7, <1>8, <1>10
<1>12. \A k \in 1 .. n : r[k] = Take(r[k - 1], s[k])
  BY <1>1, <1>9
<1> HIDE DEF r
<1> QED BY <1>11, <1>12 DEF n

LEMMA UnstuffStep ==
  /\ Unstuff(<<>>) = Unread
  /\ \A s \in Payload, o \in Octets : Unstuff(Append(s, o)) = Take(Unstuff(s), o)
<1>1. Unstuff(<<>>) = Unread
  <2>1. <<>> \in Payload /\ Len(<<>>) = 0
    BY EmptySeq DEF Payload
  <2> QED BY <2>1, UnstuffRun
<1>2. ASSUME NEW s \in Payload, NEW o \in Octets PROVE Unstuff(Append(s, o)) = Take(Unstuff(s), o)
  <2> DEFINE n == Len(s)
             t == Append(s, o)
  <2>1. t \in Payload /\ n \in Nat /\ Len(t) = n + 1 /\ t[n + 1] = o /\ \A k \in 1 .. n : t[k] = s[k]
    BY LenProperties, AppendProperties DEF Payload
  <2>2. PICK r : r[0] = Unread /\ (\A k \in 1 .. n : r[k] = Take(r[k - 1], s[k])) /\ Unstuff(s) = r[n]
    BY UnstuffRun
  <2> HIDE DEF n, t
  <2>3. PICK q : r[0] = q[0] /\ (\A k \in 1 .. n + 1 : q[k] = Take(q[k - 1], t[k])) /\ Unstuff(t) = q[n + 1]
    BY <2>1, <2>2, UnstuffRun
  <2>4. \A k \in 1 .. n : r[k - 1] = q[k - 1] => r[k] = q[k]
    BY <2>1, <2>2, <2>3
  <2>5. r[n] = q[n]
    BY <2>1, <2>3, <2>4, RunsAgree
  <2>6. n + 1 \in 1 .. n + 1 /\ (n + 1) - 1 = n
    BY <2>1
  <2>7. Unstuff(t) = Take(Unstuff(s), o)
    BY <2>1, <2>2, <2>3, <2>5, <2>6
  <2> QED BY <2>7 DEF t
<1> QED BY <1>1, <1>2

LEMMA UnstuffType == \A s \in Payload : Unstuff(s) \in Unstuffing
<1> DEFINE P == {s \in Payload : Unstuff(s) \in Unstuffing}
<1>1. <<>> \in P
  BY UnstuffStep, TakeType, EmptySeq DEF Payload
<1>2. ASSUME NEW s \in Payload, NEW o \in Octets, s \in P PROVE Append(s, o) \in P
  BY <1>2, UnstuffStep, TakeType, AppendProperties DEF Payload
<1> HIDE DEF P
<1>3. Seq(Octets) \subseteq P
  BY <1>1, <1>2, SeqInduction DEF Payload
<1> QED BY <1>3 DEF P, Payload

LEMMA DecodeType == \A c \in Payload : Decode(c) \in Seq(Payload)
<1> TAKE c \in Payload
<1> DEFINE u == Unstuff(c)
           data == SubSeq(u.data, 1, Len(u.data) - 2)
<1>1. u.data \in Payload
  BY UnstuffType DEF Unstuffing
<1> HIDE DEF u
<1>2. Len(u.data) \in Nat /\ \A i \in 1 .. Len(u.data) : u.data[i] \in Octets
  BY <1>1, LenProperties, ElementOfSeq DEF Payload
<1>3. data \in Payload
  BY <1>2, SubSeqProperties DEF Payload
<1>4. Decode(c) = <<data>> \/ Decode(c) = <<>>
  BY DEF Decode, u
<1> HIDE DEF data
<1>5. <<data>> \in Seq(Payload) /\ <<>> \in Seq(Payload)
  BY <1>3, EmptySeq
<1> QED BY <1>4, <1>5

LEMMA DecodesOne == ASSUME NEW c, Decode(c) # <<>> PROVE \E d : Decode(c) = <<d>>
  BY DEF Decode

-------------------------------------------------------------------------------
(* The reading of a stream. *)

Reading == [body : Payload, frames : Seq(Payload)]
Nothing == [body |-> <<>>, frames |-> <<>>]

LEMMA PassType ==
  Nothing \in Reading /\ \A acc \in Reading, o \in Octets : Pass(acc, o) \in Reading
<1>1. Nothing \in Reading
  BY EmptySeq DEF Nothing, Reading, Payload
<1>2. ASSUME NEW acc \in Reading, NEW o \in Octets PROVE Pass(acc, o) \in Reading
  <2>1. acc.body \in Payload /\ acc.frames \in Seq(Payload) /\ <<>> \in Payload
    BY EmptySeq DEF Reading, Payload
  <2>2. acc.frames \o Decode(acc.body) \in Seq(Payload)
    BY <2>1, DecodeType, ConcatProperties
  <2>3. Append(acc.body, o) \in Payload
    BY <2>1, AppendProperties DEF Payload
  <2> QED BY <2>1, <2>2, <2>3 DEF Pass, Reading
<1> QED BY <1>1, <1>2

LEMMA PassRecord ==
  ASSUME NEW b, NEW f, NEW o
  PROVE  Pass([body |-> b, frames |-> f], o) = IF o = Flag THEN [body |-> <<>>, frames |-> f \o Decode(b)]
                                              ELSE [body |-> Append(b, o), frames |-> f]
  BY DEF Pass

LEMMA ReferenceRun ==
  ASSUME NEW s \in Payload
  PROVE  \E r : /\ r[0] = Nothing
                /\ \A k \in 1 .. Len(s) : r[k] = Pass(r[k - 1], s[k])
                /\ Reference(s) = r[Len(s)]
<1> DEFINE n == Len(s)
           step == [x \in Reading \X (1 .. n) |-> Pass(x[1], s[x[2]])]
           Iterates(it) == it = [S \in SUBSET DOMAIN s |->
                                   IF S = {} THEN Nothing ELSE Pass(it[S \ {Max(S)}], s[Max(S)])]
           iter == CHOOSE it : Iterates(it)
           r == [k \in 0 .. n |-> iter[1 .. k]]
<1>1. n \in Nat /\ DOMAIN s = 1 .. n /\ \A k \in 1 .. n : s[k] \in Octets
  BY LenProperties, ElementOfSeq DEF Payload
<1> HIDE DEF n
<1>2. Nothing \in Reading /\ step \in [Reading \X (1 .. n) -> Reading]
  BY <1>1, PassType
<1>3. PICK it : Iteration(it, Reading, Nothing, n, step)
  <2>1. n \in Nat
    BY <1>1
  <2> HIDE DEF step
  <2> QED BY <2>1, <1>2, FoldExists
<1>4. ASSUME NEW S \in SUBSET (1 .. n), S # {}
      PROVE  it[S] = Pass(it[S \ {Max(S)}], s[Max(S)])
  <2>1. Max(S) \in 1 .. n /\ it[S \ {Max(S)}] \in Reading
    BY <1>1, <1>3, <1>4, MaxProperties DEF Iteration
  <2>2. <<it[S \ {Max(S)}], Max(S)>> \in Reading \X (1 .. n)
    BY <2>1
  <2> QED BY <1>3, <1>4, <2>2 DEF Iteration
<1>5. it = [S \in SUBSET DOMAIN s |-> it[S]] /\ it[{}] = Nothing
  BY <1>1, <1>3 DEF Iteration
<1>6. Iterates(it)
  BY <1>1, <1>4, <1>5
<1>7. Iterates(iter)
  BY <1>6
<1>8. Reference(s) = iter[DOMAIN s]
  BY DEF Reference, Nothing, FoldLeft, MapThenFoldSet
<1> HIDE DEF iter
<1>9. ASSUME NEW k \in 1 .. n PROVE iter[1 .. k] = Pass(iter[1 .. (k - 1)], s[k])
  <2>1. 1 .. k \in SUBSET DOMAIN s /\ 1 .. k # {} /\ Max(1 .. k) = k
        /\ (1 .. k) \ {k} = 1 .. (k - 1)
    BY <1>1, FirstIndices
  <2> QED BY <1>7, <2>1
<1>10. 1 .. 0 = {} /\ 0 \in 0 .. n /\ n \in 0 .. n
  BY <1>1
<1>11. r[0] = Nothing /\ Reference(s) = r[n]
  BY <1>1, <1>7, <1>8, <1>10
<1>12. \A k \in 1 .. n : r[k] = Pass(r[k - 1], s[k])
  BY <1>1, <1>9
<1> HIDE DEF r
<1> QED BY <1>11, <1>12 DEF n

LEMMA ReferenceStep ==
  /\ Reference(<<>>) = Nothing
  /\ \A s \in Payload, o \in Octets : Reference(Append(s, o)) = Pass(Reference(s), o)
<1>1. Reference(<<>>) = Nothing
  <2>1. <<>> \in Payload /\ Len(<<>>) = 0
    BY EmptySeq DEF Payload
  <2> QED BY <2>1, ReferenceRun
<1>2. ASSUME NEW s \in Payload, NEW o \in Octets PROVE Reference(Append(s, o)) = Pass(Reference(s), o)
  <2> DEFINE n == Len(s)
             t == Append(s, o)
  <2>1. t \in Payload /\ n \in Nat /\ Len(t) = n + 1 /\ t[n + 1] = o /\ \A k \in 1 .. n : t[k] = s[k]
    BY LenProperties, AppendProperties DEF Payload
  <2>2. PICK r : r[0] = Nothing /\ (\A k \in 1 .. n : r[k] = Pass(r[k - 1], s[k])) /\ Reference(s) = r[n]
    BY ReferenceRun
  <2> HIDE DEF n, t
  <2>3. PICK q : r[0] = q[0] /\ (\A k \in 1 .. n + 1 : q[k] = Pass(q[k - 1], t[k])) /\ Reference(t) = q[n + 1]
    BY <2>1, <2>2, ReferenceRun
  <2>4. \A k \in 1 .. n : r[k - 1] = q[k - 1] => r[k] = q[k]
    BY <2>1, <2>2, <2>3
  <2>5. r[n] = q[n]
    BY <2>1, <2>3, <2>4, RunsAgree
  <2>6. n + 1 \in 1 .. n + 1 /\ (n + 1) - 1 = n
    BY <2>1
  <2>7. Reference(t) = Pass(Reference(s), o)
    BY <2>1, <2>2, <2>3, <2>5, <2>6
  <2> QED BY <2>7 DEF t
<1> QED BY <1>1, <1>2

LEMMA ReferenceType == \A s \in Payload : Reference(s) \in Reading
<1> DEFINE P == {s \in Payload : Reference(s) \in Reading}
<1>1. <<>> \in P
  BY ReferenceStep, PassType, EmptySeq DEF Payload
<1>2. ASSUME NEW s \in Payload, NEW o \in Octets, s \in P PROVE Append(s, o) \in P
  BY <1>2, ReferenceStep, PassType, AppendProperties DEF Payload
<1> HIDE DEF P
<1>3. Seq(Octets) \subseteq P
  BY <1>1, <1>2, SeqInduction DEF Payload
<1> QED BY <1>3 DEF P, Payload

\* How a reading goes on depends on what is left of it, not on how it came about.
GoesOn(c, b, f) == Reference(c).body = Reference(b).body /\ Reference(c).frames = f \o Reference(b).frames

LEMMA ReadOn ==
  ASSUME NEW c \in Payload, NEW b \in Payload, NEW f \in Seq(Payload), GoesOn(c, b, f), NEW t \in Payload
  PROVE  GoesOn(c \o t, b \o t, f)
<1> DEFINE P == {u \in Payload : /\ Reference(c \o u).body = Reference(b \o u).body
                                 /\ Reference(c \o u).frames = f \o Reference(b \o u).frames}
<1>1. <<>> \in P
  BY EmptySeq, ConcatEmptySeq DEF Payload, GoesOn
<1>2. ASSUME NEW u \in Payload, NEW o \in Octets, u \in P PROVE Append(u, o) \in P
  <2> DEFINE x == Reference(c \o u)
             y == Reference(b \o u)
  <2>1. c \o u \in Payload /\ b \o u \in Payload /\ Append(u, o) \in Payload
    BY ConcatProperties, AppendProperties DEF Payload
  <2>2. c \o Append(u, o) = Append(c \o u, o) /\ b \o Append(u, o) = Append(b \o u, o)
    <3>1. c \o Append(u, o) = Append(c \o u, o)
      BY ConcatAppend DEF Payload
    <3>2. b \o Append(u, o) = Append(b \o u, o)
      BY ConcatAppend DEF Payload
    <3> QED BY <3>1, <3>2
  <2>3. Reference(c \o Append(u, o)) = Pass(x, o) /\ Reference(b \o Append(u, o)) = Pass(y, o)
    BY <2>1, <2>2, ReferenceStep
  <2>4. x \in Reading /\ y \in Reading /\ x.body = y.body /\ x.frames = f \o y.frames
    BY <1>2, <2>1, ReferenceType
  <2> HIDE DEF x, y
  <2>5. y.frames \in Seq(Payload) /\ Decode(y.body) \in Seq(Payload)
    BY <2>4, DecodeType DEF Reading
  <2>6. (f \o y.frames) \o Decode(y.body) = f \o (y.frames \o Decode(y.body))
    <3> DEFINE g == y.frames
               d == Decode(y.body)
    <3>1. g \in Seq(Payload) /\ d \in Seq(Payload)
      BY <2>5
    <3> HIDE DEF g, d
    <3>2. (f \o g) \o d = f \o (g \o d)
      BY <3>1, ConcatAssociative
    <3> QED BY <3>2 DEF g, d
  <2>7. Pass(x, o).body = Pass(y, o).body /\ Pass(x, o).frames = f \o Pass(y, o).frames
    BY <2>4, <2>6 DEF Pass, Reading
  <2> QED BY <2>1, <2>3, <2>7
<1> HIDE DEF P
<1>3. Payload \subseteq P
  BY <1>1, <1>2, SeqInduction DEF Payload
<1> QED BY <1>3 DEF P, GoesOn

\* Without a flag, nothing is handed up.
NoFlag(t) == \A i \in 1 .. Len(t) : t[i] # Flag

LEMMA NoFlagAppend ==
  ASSUME NEW t \in Payload, NEW o \in Octets
  PROVE  NoFlag(Append(t, o)) <=> NoFlag(t) /\ o # Flag
<1>1. Len(t) \in Nat /\ Len(Append(t, o)) = Len(t) + 1 /\ Append(t, o)[Len(t) + 1] = o
      /\ \A i \in 1 .. Len(t) : Append(t, o)[i] = t[i]
  BY LenProperties, AppendProperties DEF Payload
<1> DEFINE n == Len(t)
           a == Append(t, o)
<1>2. n \in Nat /\ Len(a) = n + 1 /\ a[n + 1] = o /\ \A i \in 1 .. n : a[i] = t[i]
  BY <1>1
<1> HIDE DEF n, a
<1>3. (\A i \in 1 .. n + 1 : a[i] # Flag) <=> (\A i \in 1 .. n : t[i] # Flag) /\ o # Flag
  <2>1. \A i \in 1 .. n + 1 : i \in 1 .. n \/ i = n + 1
    BY <1>2
  <2>2. (\A i \in 1 .. n : i \in 1 .. n + 1) /\ n + 1 \in 1 .. n + 1
    BY <1>2
  <2> QED BY <1>2, <2>1, <2>2
<1> QED BY <1>2, <1>3 DEF NoFlag, n, a

LEMMA FlaglessReading ==
  ASSUME NEW c \in Payload, NEW t \in Payload, NoFlag(t)
  PROVE  Reference(c \o t) = [body |-> Reference(c).body \o t, frames |-> Reference(c).frames]
<1> DEFINE P == {u \in Payload : NoFlag(u) =>
                    Reference(c \o u) = [body |-> Reference(c).body \o u, frames |-> Reference(c).frames]}
<1>0. /\ Reference(c).body \in Payload /\ Reference(c).frames \in Seq(Payload)
      /\ Reference(c) = [body |-> Reference(c).body, frames |-> Reference(c).frames]
  BY ReferenceType DEF Reading
<1>1. <<>> \in P
  BY <1>0, EmptySeq, ConcatEmptySeq DEF Payload
<1>2. ASSUME NEW u \in Payload, NEW o \in Octets, u \in P PROVE Append(u, o) \in P
  <2> SUFFICES ASSUME NoFlag(Append(u, o))
               PROVE  Reference(c \o Append(u, o)) =
                        [body |-> Reference(c).body \o Append(u, o), frames |-> Reference(c).frames]
    BY AppendProperties DEF Payload
  <2>1. Len(u) \in Nat /\ Len(Append(u, o)) = Len(u) + 1 /\ Append(u, o)[Len(u) + 1] = o
        /\ \A i \in 1 .. Len(u) : Append(u, o)[i] = u[i]
    BY LenProperties, AppendProperties DEF Payload
  <2>2. NoFlag(u) /\ o # Flag
    BY <2>1 DEF NoFlag
  <2>3. Reference(c \o u) = [body |-> Reference(c).body \o u, frames |-> Reference(c).frames]
    BY <1>2, <2>2
  <2>4. c \o u \in Payload /\ c \o Append(u, o) = Append(c \o u, o)
        /\ Reference(c).body \o Append(u, o) = Append(Reference(c).body \o u, o)
    BY <1>0, ConcatProperties, ConcatAppend DEF Payload
  <2>5. Reference(c \o Append(u, o)) = Pass(Reference(c \o u), o)
    BY <2>4, ReferenceStep
  <2>6. Pass(Reference(c \o u), o) =
          [body |-> Append(Reference(c).body \o u, o), frames |-> Reference(c).frames]
    <3> DEFINE b == Reference(c).body \o u
               f == Reference(c).frames
    <3>1. Reference(c \o u) = [body |-> b, frames |-> f]
      BY <2>3
    <3> HIDE DEF b, f
    <3>2. Pass([body |-> b, frames |-> f], o) = [body |-> Append(b, o), frames |-> f]
      BY <2>2, PassRecord
    <3> QED BY <3>1, <3>2 DEF b, f
  <2> QED BY <2>4, <2>5, <2>6
<1> HIDE DEF P
<1>3. Payload \subseteq P
  BY <1>1, <1>2, SeqInduction DEF Payload
<1> QED BY <1>3 DEF P

\* What follows a flag, up to the next, is one frame or none.
LEMMA FlagReading ==
  ASSUME NEW c \in Payload, NEW t \in Payload, NoFlag(t)
  PROVE  Reference(Append(c \o t, Flag)) =
           [body |-> <<>>, frames |-> Reference(c).frames \o Decode(Reference(c).body \o t)]
<1>1. c \o t \in Payload /\ Flag \in Octets
  BY ConcatProperties DEF Payload, Octets, Flag
<1>2. Reference(Append(c \o t, Flag)) = Pass(Reference(c \o t), Flag)
  BY <1>1, ReferenceStep
<1> QED BY <1>2, FlaglessReading, PassRecord

-------------------------------------------------------------------------------
(* The loop over the buffer reads as the reference does. *)

Loops == [frames : Seq(Payload), cut : Nat, raised : BOOLEAN]
LoopStart == [frames |-> <<>>, cut |-> 0, raised |-> FALSE]

\* What the loop has done once it has looked at the first k octets: it has cut
\* at the last flag, unless the handling of a frame has raised.
Looped(buf, loop, k) ==
    /\ loop \in Loops
    /\ loop.cut \in 0 .. k
    /\ Reference(SubSeq(buf, 1, loop.cut)) = [body |-> <<>>, frames |-> loop.frames]
    /\ ~loop.raised => \A i \in loop.cut + 1 .. k : buf[i] # Flag
    /\ loop.raised => parser = "python" /\ loop.frames # <<>> /\ Last(loop.frames) \in Poison

\* The first n octets of a buffer, around the last flag.
LEMMA AroundFlag ==
  ASSUME NEW buf \in Payload, NEW n \in 1 .. Len(buf), NEW k \in 0 .. n - 1
  PROVE  /\ SubSeq(buf, 1, k) \in Payload /\ SubSeq(buf, k + 1, n - 1) \in Payload
         /\ Len(SubSeq(buf, k + 1, n - 1)) = n - 1 - k
         /\ \A i \in 1 .. n - 1 - k : SubSeq(buf, k + 1, n - 1)[i] = buf[k + i]
         /\ SubSeq(buf, 1, n) = Append(SubSeq(buf, 1, k) \o SubSeq(buf, k + 1, n - 1), buf[n])
<1>1. Len(buf) \in Nat /\ \A i \in 1 .. Len(buf) : buf[i] \in Octets
  BY LenProperties, ElementOfSeq DEF Payload
<1>2. \A i \in 1 .. k : buf[i] \in Octets
  BY <1>1
<1>3. SubSeq(buf, 1, k) \in Payload
  BY <1>2, SubSeqProperties DEF Payload
<1>4. \A i \in k + 1 .. n - 1 : buf[i] \in Octets
  BY <1>1
<1>5. /\ SubSeq(buf, k + 1, n - 1) \in Payload
      /\ Len(SubSeq(buf, k + 1, n - 1)) = IF k + 1 <= n - 1 THEN (n - 1) - (k + 1) + 1 ELSE 0
      /\ \A i \in 1 .. (n - 1) - (k + 1) + 1 : SubSeq(buf, k + 1, n - 1)[i] = buf[(k + 1) + i - 1]
  BY <1>4, SubSeqProperties, k + 1 \in Int, n - 1 \in Int DEF Payload
<1>6. /\ Len(SubSeq(buf, k + 1, n - 1)) = n - 1 - k
      /\ \A i \in 1 .. n - 1 - k : SubSeq(buf, k + 1, n - 1)[i] = buf[k + i]
  BY <1>5
<1>7. SubSeq(buf, 1, k) \o SubSeq(buf, k + 1, n - 1) = SubSeq(buf, 1, n - 1)
  <2>1. 1 \in 1 .. Len(buf) + 1 /\ k \in 0 .. Len(buf) /\ n - 1 \in k .. Len(buf) /\ 1 - 1 = 0
    BY <1>1
  <2> QED BY <2>1, ConcatAdjacentSubSeq DEF Payload
<1>8. SubSeq(buf, 1, n) = SubSeq(buf, 1, n - 1) \o <<buf[n]>>
  <2>1. 1 \in 1 .. Len(buf) /\ n \in 1 .. Len(buf)
    BY <1>1
  <2> QED BY <2>1, SubSeqRecursiveSecond DEF Payload
<1>9. SubSeq(buf, 1, n - 1) \o <<buf[n]>> = Append(SubSeq(buf, 1, n - 1), buf[n])
  <2>1. SubSeq(buf, 1, n - 1) \in Payload /\ buf[n] \in Octets
    BY <1>1, <1>3, <1>5, <1>7, ConcatProperties DEF Payload
  <2> QED BY <2>1, AppendIsConcat DEF Payload
<1> QED BY <1>3, <1>5, <1>6, <1>7, <1>8, <1>9

LEMMA LoopBegins == ASSUME NEW buf \in Payload PROVE Looped(buf, LoopStart, 0)
<1>1. SubSeq(buf, 1, 0) = <<>>
  BY SubSeqEmpty
<1>2. Reference(<<>>) = [body |-> <<>>, frames |-> <<>>]
  BY ReferenceStep DEF Nothing
<1>3. LoopStart \in Loops
  BY EmptySeq DEF LoopStart, Loops
<1>4. LoopStart.cut = 0 /\ LoopStart.frames = <<>> /\ LoopStart.raised = FALSE
  BY DEF LoopStart
<1>5. LoopStart.cut \in 0 .. 0 /\ \A i \in LoopStart.cut + 1 .. 0 : FALSE
  BY <1>4
<1>6. Reference(SubSeq(buf, 1, LoopStart.cut)) = [body |-> <<>>, frames |-> LoopStart.frames]
  BY <1>1, <1>2, <1>4
<1> QED BY <1>3, <1>4, <1>5, <1>6 DEF Looped

LEMMA LoopGoesOn ==
  ASSUME NEW buf \in Payload, NEW n \in 1 .. Len(buf), NEW loop, Looped(buf, loop, n - 1)
  PROVE  Looped(buf, Cut(buf, loop, n), n)
<1>0. Len(buf) \in Nat /\ n \in Nat /\ buf[n] \in Octets
  BY LenProperties, ElementOfSeq DEF Payload
<1>1. /\ loop.cut \in 0 .. n - 1 /\ loop \in Loops /\ loop.frames \in Seq(Payload) /\ loop.raised \in BOOLEAN
  BY DEF Looped, Loops
<1>2. CASE loop.raised \/ buf[n] # Flag
  <2>1. Cut(buf, loop, n) = loop
    BY <1>2 DEF Cut
  <2>2. ~loop.raised => \A i \in loop.cut + 1 .. n : buf[i] # Flag
    BY <1>0, <1>1, <1>2 DEF Looped
  <2>3. loop.cut \in 0 .. n
    BY <1>0, <1>1
  <2> QED BY <2>1, <2>2, <2>3 DEF Looped
<1>3. CASE ~loop.raised /\ buf[n] = Flag
  <2> DEFINE c == SubSeq(buf, 1, loop.cut)
             t == SubSeq(buf, loop.cut + 1, n - 1)
             first == Decode(t)
             raised == parser = "python" /\ ToSet(first) \cap Poison # {}
  <2>1. Cut(buf, loop, n) = [frames |-> loop.frames \o first, cut |-> n, raised |-> raised]
    BY <1>3 DEF Cut
  <2>2. /\ c \in Payload /\ t \in Payload /\ Len(t) = n - 1 - loop.cut
        /\ \A i \in 1 .. n - 1 - loop.cut : t[i] = buf[loop.cut + i]
        /\ SubSeq(buf, 1, n) = Append(c \o t, Flag)
    BY <1>1, <1>3, AroundFlag
  <2>3. Reference(c) = [body |-> <<>>, frames |-> loop.frames]
    BY DEF Looped
  <2> HIDE DEF c, t
  <2>4. NoFlag(t)
    <3>1. \A i \in loop.cut + 1 .. n - 1 : buf[i] # Flag
      BY <1>3 DEF Looped
    <3>2. \A i \in 1 .. n - 1 - loop.cut : loop.cut + i \in loop.cut + 1 .. n - 1
      BY <1>0, <1>1
    <3> QED BY <2>2, <3>1, <3>2 DEF NoFlag
  <2>5. <<>> \o t = t
    BY <2>2, ConcatEmptySeq DEF Payload
  <2>6. Reference(Append(c \o t, Flag)) = [body |-> <<>>, frames |-> loop.frames \o first]
    <3>1. Reference(Append(c \o t, Flag)) =
            [body |-> <<>>, frames |-> Reference(c).frames \o Decode(Reference(c).body \o t)]
      BY <2>2, <2>4, FlagReading
    <3>2. Reference(c).body = <<>> /\ Reference(c).frames = loop.frames
      BY <2>3
    <3> QED BY <2>5, <3>1, <3>2
  <2>7. first \in Seq(Payload) /\ loop.frames \o first \in Seq(Payload)
    BY <1>1, <2>2, DecodeType, ConcatProperties
  <2>8. raised => loop.frames \o first # <<>> /\ Last(loop.frames \o first) \in Poison
    <3> SUFFICES ASSUME raised PROVE loop.frames \o first # <<>> /\ Last(loop.frames \o first) \in Poison
      OBVIOUS
    <3>0. first # <<>>
      BY DEF ToSet
    <3>1. PICK d : first = <<d>>
      BY <3>0, DecodesOne
    <3>2. d \in Poison
      BY <3>1 DEF ToSet
    <3>3. d \in Payload
      BY <2>7, <3>1
    <3>4. loop.frames \o first = Append(loop.frames, d)
      BY <1>1, <3>1, <3>3, AppendIsConcat
    <3>5. Len(loop.frames) \in Nat /\ Append(loop.frames, d) # <<>>
          /\ Len(Append(loop.frames, d)) = Len(loop.frames) + 1
          /\ Append(loop.frames, d)[Len(loop.frames) + 1] = d
      BY <1>1, <3>3, AppendProperties, LenProperties
    <3> QED BY <3>2, <3>4, <3>5 DEF Last
  <2>9. raised \in BOOLEAN
    OBVIOUS
  <2> HIDE DEF raised, first
  <2>10. [frames |-> loop.frames \o first, cut |-> n, raised |-> raised] \in Loops
    BY <1>0, <2>7, <2>9 DEF Loops
  <2>11. raised => parser = "python"
    BY DEF raised
  <2> DEFINE new == Cut(buf, loop, n)
  <2>12. new.frames = loop.frames \o first /\ new.cut = n /\ new.raised = raised /\ new \in Loops
    BY <2>1, <2>10
  <2> HIDE DEF new
  <2>13. new.cut \in 0 .. n /\ \A i \in new.cut + 1 .. n : FALSE
    BY <1>0, <2>12
  <2>14. Reference(SubSeq(buf, 1, new.cut)) = [body |-> <<>>, frames |-> new.frames]
    BY <2>2, <2>6, <2>12
  <2>15. new.raised => parser = "python" /\ new.frames # <<>> /\ Last(new.frames) \in Poison
    BY <2>8, <2>11, <2>12
  <2>16. Looped(buf, new, n)
    BY <2>12, <2>13, <2>14, <2>15 DEF Looped
  <2> QED BY <2>16 DEF new
<1> QED BY <1>1, <1>2, <1>3
LEMMA CutType ==
  ASSUME NEW buf \in Payload, NEW loop \in Loops, NEW n \in 1 .. Len(buf)
  PROVE  Cut(buf, loop, n) \in Loops
<1> DEFINE first == Decode(SubSeq(buf, loop.cut + 1, n - 1))
           raised == parser = "python" /\ ToSet(first) \cap Poison # {}
           new == [frames |-> loop.frames \o first, cut |-> n, raised |-> raised]
<1>1. Len(buf) \in Nat /\ (\A i \in 1 .. Len(buf) : buf[i] \in Octets) /\ n \in Nat
  BY LenProperties, ElementOfSeq DEF Payload
<1>2. loop.cut \in Nat /\ loop.frames \in Seq(Payload)
  BY DEF Loops
<1>3. \A i \in loop.cut + 1 .. n - 1 : buf[i] \in Octets
  BY <1>1, <1>2
<1>4. SubSeq(buf, loop.cut + 1, n - 1) \in Payload
  BY <1>1, <1>2, <1>3, SubSeqProperties, loop.cut + 1 \in Int, n - 1 \in Int DEF Payload
<1>5. loop.frames \o first \in Seq(Payload)
  BY <1>2, <1>4, DecodeType, ConcatProperties
<1>6. Cut(buf, loop, n) = loop \/ Cut(buf, loop, n) = new
  BY DEF Cut
<1>7. raised \in BOOLEAN
  OBVIOUS
<1> HIDE DEF first, raised
<1>8. new \in Loops
  BY <1>1, <1>5, <1>7 DEF Loops
<1> HIDE DEF new
<1> QED BY <1>6, <1>8

LEMMA LoopReads == ASSUME NEW buf \in Payload PROVE Looped(buf, Loop(buf), Len(buf))
<1> DEFINE n == Len(buf)
           places == [i \in DOMAIN buf |-> i]
           step == [x \in Loops \X (1 .. n) |-> Cut(buf, x[1], x[2])]
           Iterates(it) == it = [S \in SUBSET DOMAIN places |->
                                   IF S = {} THEN LoopStart ELSE Cut(buf, it[S \ {Max(S)}], places[Max(S)])]
           iter == CHOOSE it : Iterates(it)
<1>1. n \in Nat /\ DOMAIN buf = 1 .. n /\ DOMAIN places = 1 .. n /\ \A k \in 1 .. n : places[k] = k
  BY LenProperties DEF Payload
<1> HIDE DEF n, places
<1>2. LoopStart \in Loops /\ step \in [Loops \X (1 .. n) -> Loops]
  <2>1. LoopStart \in Loops
    BY LoopBegins DEF Looped
  <2>2. \A x \in Loops \X (1 .. n) : Cut(buf, x[1], x[2]) \in Loops
    BY CutType DEF n
  <2> QED BY <2>1, <2>2
<1>3. PICK it : Iteration(it, Loops, LoopStart, n, step)
  <2>1. n \in Nat
    BY <1>1
  <2> HIDE DEF step
  <2> QED BY <2>1, <1>2, FoldExists
<1>4. ASSUME NEW S \in SUBSET (1 .. n), S # {}
      PROVE  it[S] = Cut(buf, it[S \ {Max(S)}], places[Max(S)])
  <2>1. Max(S) \in 1 .. n /\ it[S \ {Max(S)}] \in Loops /\ places[Max(S)] = Max(S)
    BY <1>1, <1>3, <1>4, MaxProperties DEF Iteration
  <2>2. <<it[S \ {Max(S)}], Max(S)>> \in Loops \X (1 .. n)
    BY <2>1
  <2> QED BY <1>3, <1>4, <2>1, <2>2 DEF Iteration
<1>5. it = [S \in SUBSET DOMAIN places |-> it[S]] /\ it[{}] = LoopStart
  BY <1>1, <1>3 DEF Iteration
<1>6. Iterates(it)
  BY <1>1, <1>4, <1>5
<1>7. Iterates(iter)
  BY <1>6
<1>8. Loop(buf) = iter[DOMAIN places]
  BY DEF Loop, LoopStart, FoldLeftDomain, FoldLeft, MapThenFoldSet, places
<1> HIDE DEF iter
<1>9. ASSUME NEW k \in 1 .. n PROVE iter[1 .. k] = Cut(buf, iter[1 .. (k - 1)], k)
  <2>1. 1 .. k \in SUBSET DOMAIN places /\ 1 .. k # {} /\ Max(1 .. k) = k
        /\ (1 .. k) \ {k} = 1 .. (k - 1) /\ places[k] = k
    BY <1>1, FirstIndices
  <2> QED BY <1>7, <2>1
<1> DEFINE P == {k \in Nat : k <= n => Looped(buf, iter[1 .. k], k)}
<1>10. 0 \in P
  <2>1. 1 .. 0 = {} /\ {} \in SUBSET DOMAIN places
    OBVIOUS
  <2>2. iter[{}] = LoopStart
    BY <1>7, <2>1
  <2> QED BY <2>1, <2>2, LoopBegins
<1>11. ASSUME NEW k \in Nat, k \in P PROVE k + 1 \in P
  <2> SUFFICES ASSUME k + 1 <= n PROVE Looped(buf, iter[1 .. k + 1], k + 1)
    OBVIOUS
  <2>1. k + 1 \in 1 .. n /\ (k + 1) - 1 = k /\ k <= n
    BY <1>1
  <2>2. Looped(buf, iter[1 .. k], k)
    BY <1>11, <2>1
  <2>3. Looped(buf, Cut(buf, iter[1 .. k], k + 1), k + 1)
    BY <2>1, <2>2, LoopGoesOn DEF n
  <2> QED BY <1>9, <2>1, <2>3
<1> HIDE DEF P
<1>12. n \in P
  BY <1>1, <1>10, <1>11, SetInduction
<1>13. Looped(buf, iter[1 .. n], n)
  BY <1>1, <1>12 DEF P
<1> QED BY <1>1, <1>8, <1>13 DEF n

\* What is drained from the buffer and what is left of it read as the buffer.
LEMMA DrainReads ==
  ASSUME NEW buf \in Payload
  PROVE  LET drained == Drain(buf)
         IN  /\ drained.frames \in Seq(Payload) /\ drained.rest \in Payload
             /\ Reference(buf).body = Reference(drained.rest).body
             /\ Reference(buf).frames = drained.frames \o Reference(drained.rest).frames
             /\ ~NoFlag(drained.rest) => /\ parser = "python"
                                         /\ drained.frames # <<>> /\ Last(drained.frames) \in Poison
<1> DEFINE n == Len(buf)
           loop == Loop(buf)
           c == SubSeq(buf, 1, loop.cut)
           rest == SubSeq(buf, loop.cut + 1, n)
<1>1. Looped(buf, loop, n)
  BY LoopReads
<1>2. Drain(buf).frames = loop.frames /\ Drain(buf).rest = rest
  BY DEF Drain
<1>3. n \in Nat /\ \A i \in 1 .. n : buf[i] \in Octets
  BY LenProperties, ElementOfSeq DEF Payload
<1> HIDE DEF loop
<1>4. loop.cut \in 0 .. n /\ loop.frames \in Seq(Payload) /\ loop.raised \in BOOLEAN
  BY <1>1 DEF Looped, Loops
<1>5. /\ rest \in Payload
      /\ Len(rest) = IF loop.cut + 1 <= n THEN n - (loop.cut + 1) + 1 ELSE 0
      /\ \A i \in 1 .. n - (loop.cut + 1) + 1 : rest[i] = buf[(loop.cut + 1) + i - 1]
  <2>1. \A i \in loop.cut + 1 .. n : buf[i] \in Octets
    BY <1>3, <1>4
  <2>2. loop.cut + 1 \in Int /\ n \in Int
    BY <1>3, <1>4
  <2> QED BY <2>1, <2>2, SubSeqProperties DEF Payload
<1>6. c \in Payload
  <2>1. \A i \in 1 .. loop.cut : buf[i] \in Octets
    BY <1>3, <1>4
  <2> QED BY <1>4, <2>1, SubSeqProperties DEF Payload
<1>7. c \o rest = buf
  <2>1. 1 \in 1 .. n + 1 /\ loop.cut \in 1 - 1 .. n /\ n \in loop.cut .. n
    BY <1>3, <1>4
  <2>2. c \o rest = SubSeq(buf, 1, n)
    BY <2>1, ConcatAdjacentSubSeq DEF Payload
  <2> QED BY <2>2, SubSeqFull DEF Payload
<1>8. loop.raised \/ NoFlag(rest)
  <2> SUFFICES ASSUME ~loop.raised PROVE NoFlag(rest)
    BY <1>4
  <2>1. \A i \in loop.cut + 1 .. n : buf[i] # Flag
    BY <1>1 DEF Looped
  <2>2. \A i \in 1 .. Len(rest) : i \in 1 .. n - (loop.cut + 1) + 1
                                 /\ (loop.cut + 1) + i - 1 \in loop.cut + 1 .. n
    <3> DEFINE k == loop.cut
               l == Len(rest)
    <3>1. k \in 0 .. n /\ n \in Nat /\ l = IF k + 1 <= n THEN n - (k + 1) + 1 ELSE 0
      BY <1>3, <1>4, <1>5
    <3> HIDE DEF k, l, n
    <3>2. \A i \in 1 .. l : i \in 1 .. n - (k + 1) + 1 /\ (k + 1) + i - 1 \in k + 1 .. n
      BY <3>1
    <3> QED BY <3>2 DEF k, l
  <2> QED BY <1>5, <2>1, <2>2 DEF NoFlag
<1> HIDE DEF rest, c, n
<1>9. Reference(c) = [body |-> <<>>, frames |-> loop.frames]
  BY <1>1 DEF Looped, c
<1>10. /\ <<>> \in Payload /\ <<>> \o rest = rest
       /\ Reference(<<>>).body = <<>> /\ Reference(<<>>).frames = <<>>
       /\ loop.frames \o <<>> = loop.frames
  BY <1>4, <1>5, EmptySeq, ConcatEmptySeq, ReferenceStep DEF Payload, Nothing
<1>11. Reference(c).body = Reference(<<>>).body /\ Reference(c).frames = loop.frames \o Reference(<<>>).frames
  <2>1. Reference(c).body = <<>> /\ Reference(c).frames = loop.frames
    BY <1>9
  <2> QED BY <1>10, <2>1
<1>12. /\ Reference(c \o rest).body = Reference(<<>> \o rest).body
       /\ Reference(c \o rest).frames = loop.frames \o Reference(<<>> \o rest).frames
  <2>1. c \in Payload /\ rest \in Payload /\ <<>> \in Payload /\ loop.frames \in Seq(Payload)
    BY <1>4, <1>5, <1>6, <1>10
  <2>2. GoesOn(c, <<>>, loop.frames)
    BY <1>11 DEF GoesOn
  <2>3. GoesOn(c \o rest, <<>> \o rest, loop.frames)
    BY <2>1, <2>2, ReadOn
  <2> QED BY <2>3 DEF GoesOn
<1>13. loop.raised => parser = "python" /\ loop.frames # <<>> /\ Last(loop.frames) \in Poison
  BY <1>1 DEF Looped
<1> QED BY <1>2, <1>4, <1>5, <1>7, <1>8, <1>10, <1>12, <1>13
-------------------------------------------------------------------------------
(* What is framed comes out of the frame. *)

LEMMA TakeOctet ==
  ASSUME NEW data \in Payload, NEW o \in Octets, o \notin Special
  PROVE  Take([data |-> data, mode |-> "plain"], o) =
           [data |-> Append(data, o), mode |-> "plain"]
  BY DEF Take, Special, Flag, Escape

LEMMA TakeEscape ==
  ASSUME NEW data \in Payload
  PROVE  Take([data |-> data, mode |-> "plain"], Escape) =
           [data |-> data, mode |-> "escaped"]
  BY DEF Take

LEMMA FlipSpecial ==
  ASSUME NEW o \in Special
  PROVE  Flip(Flip(o)) = o /\ Flip(o) \in Octets /\ Flip(o) # Flag /\ o \in Octets
<1>1. /\ Flip(126) = 94 /\ Flip(94) = 126 /\ Flip(125) = 93 /\ Flip(93) = 125 /\ Flip(17) = 49 /\ Flip(49) = 17
      /\ Flip(19) = 51 /\ Flip(51) = 19 /\ Flip(248) = 216 /\ Flip(216) = 248
  BY DEF Flip
<1> QED BY <1>1 DEF Special, Flag, Escape, Octets

LEMMA TakeEscaped ==
  ASSUME NEW data \in Payload, NEW o \in Special
  PROVE  Take([data |-> data, mode |-> "escaped"], Flip(o)) =
           [data |-> Append(data, o), mode |-> "plain"]
  BY FlipSpecial DEF Take

\* Unstuffing what was stuffed gives it back, and no flag is in between.
LEMMA UnstuffStuffed ==
  ASSUME NEW s \in Payload
  PROVE  /\ Unstuff(Stuffed(s)) = [data |-> s, mode |-> "plain"]
         /\ NoFlag(Stuffed(s))
<1> DEFINE P == {u \in Payload : /\ Unstuff(Stuffed(u)) = [data |-> u, mode |-> "plain"]
                                 /\ NoFlag(Stuffed(u))}
<1>1. <<>> \in P
  <2>1. <<>> \in Payload /\ Len(<<>>) = 0
    BY EmptySeq DEF Payload
  <2>2. Stuffed(<<>>) = <<>> /\ Unstuff(<<>>) = Unread
    BY StuffedStep, UnstuffStep
  <2>3. NoFlag(<<>>)
    BY <2>1 DEF NoFlag
  <2> QED BY <2>1, <2>2, <2>3 DEF Unread
<1>2. ASSUME NEW u \in Payload, NEW o \in Octets, u \in P PROVE Append(u, o) \in P
  <2> DEFINE x == Stuffed(u)
  <2>1. x \in Payload /\ Append(u, o) \in Payload
    BY StuffedType, AppendProperties DEF Payload
  <2>2. Stuffed(Append(u, o)) = x \o Stuff(o)
    BY StuffedStep DEF Put
  <2>3. Unstuff(x) = [data |-> u, mode |-> "plain"] /\ NoFlag(x)
    BY <1>2
  <2> HIDE DEF x
  <2>4. CASE o \notin Special
    <3>1. x \o Stuff(o) = Append(x, o)
      BY <2>1, <2>4, AppendIsConcat DEF Stuff, Payload
    <3>2. Unstuff(Append(x, o)) = [data |-> Append(u, o), mode |-> "plain"]
      BY <2>1, <2>3, <2>4, UnstuffStep, TakeOctet
    <3>3. NoFlag(Append(x, o))
      BY <2>1, <2>3, <2>4, NoFlagAppend DEF Special
    <3> QED BY <2>1, <2>2, <3>1, <3>2, <3>3
  <2>5. CASE o \in Special
    <3> DEFINE y == Append(x, Escape)
    <3>1. Flip(o) \in Octets /\ Flip(o) # Flag /\ Escape \in Octets /\ Escape # Flag
      BY <2>5, FlipSpecial DEF Escape, Flag, Octets
    <3>2. y \in Payload /\ y = x \o <<Escape>>
      BY <2>1, <3>1, AppendProperties, AppendIsConcat DEF Payload
    <3>3. x \o Stuff(o) = Append(y, Flip(o))
      <4>1. Append(y, Flip(o)) = (x \o <<Escape>>) \o <<Flip(o)>>
        BY <3>1, <3>2, AppendIsConcat DEF Payload
      <4>2. <<Escape>> \in Payload /\ <<Flip(o)>> \in Payload /\ <<Escape>> \o <<Flip(o)>> = <<Escape, Flip(o)>>
        BY <3>1, Pair DEF Payload
      <4>3. (x \o <<Escape>>) \o <<Flip(o)>> = x \o (<<Escape>> \o <<Flip(o)>>)
        BY <2>1, <4>2, ConcatAssociative DEF Payload
      <4> QED BY <2>5, <4>1, <4>2, <4>3 DEF Stuff
    <3>4. Unstuff(y) = [data |-> u, mode |-> "escaped"]
      BY <2>1, <2>3, <3>1, UnstuffStep, TakeEscape
    <3>5. NoFlag(y)
      BY <2>1, <2>3, <3>1, NoFlagAppend
    <3> HIDE DEF y
    <3>6. Unstuff(Append(y, Flip(o))) = [data |-> Append(u, o), mode |-> "plain"]
      BY <2>5, <3>1, <3>2, <3>4, UnstuffStep, TakeEscaped
    <3>7. NoFlag(Append(y, Flip(o)))
      BY <3>1, <3>2, <3>5, NoFlagAppend
    <3> QED BY <2>1, <2>2, <3>3, <3>6, <3>7
  <2> QED BY <2>4, <2>5
<1> HIDE DEF P
<1>3. Payload \subseteq P
  BY <1>1, <1>2, SeqInduction DEF Payload
<1> QED BY <1>3 DEF P

Delivered(d) == IF IsSpinel(d) THEN <<d>> ELSE <<>>

\* Decoding gives back what was encoded, if it is a Spinel frame.
LEMMA RoundTrip ==
  ASSUME NEW d \in Payload
  PROVE  Body(d) \in Payload /\ NoFlag(Body(d)) /\ Decode(Body(d)) = Delivered(d)
<1> DEFINE s == d \o Crc(d)
           n == Len(d)
<1>1. Crc(d) \in Payload /\ Len(Crc(d)) = 2
  <2>1. 256 + Checksum(d) \in Octets /\ 32768 + Checksum(d) \in Octets
    BY ChecksumType DEF Octets
  <2> QED BY <2>1 DEF Crc, Payload
<1>2. n \in Nat /\ s \in Payload /\ Len(s) = n + 2 /\ \A i \in 1 .. n : s[i] = d[i] /\ d[i] \in Octets
  <2>1. n \in Nat /\ \A i \in 1 .. n : d[i] \in Octets
    BY LenProperties, ElementOfSeq DEF Payload
  <2>2. /\ s \in Payload /\ Len(s) = n + 2
        /\ \A i \in 1 .. n + 2 : s[i] = IF i <= n THEN d[i] ELSE Crc(d)[i - n]
    <3> DEFINE c == Crc(d)
    <3>1. c \in Payload /\ Len(c) = 2
      BY <1>1
    <3> HIDE DEF c
    <3>2. /\ d \o c \in Payload /\ Len(d \o c) = Len(d) + Len(c)
          /\ \A i \in 1 .. Len(d) + Len(c) : (d \o c)[i] = IF i <= Len(d) THEN d[i] ELSE c[i - Len(d)]
      BY <3>1, ConcatProperties DEF Payload
    <3> QED BY <3>1, <3>2 DEF c
  <2>3. \A i \in 1 .. n : i \in 1 .. n + 2 /\ i <= n
    BY <2>1
  <2> QED BY <2>1, <2>2, <2>3
<1>3. SubSeq(s, 1, n) = d
  <2> HIDE DEF s, n
  <2>1. /\ SubSeq(s, 1, n) \in Payload /\ Len(SubSeq(s, 1, n)) = IF 1 <= n THEN n - 1 + 1 ELSE 0
        /\ \A i \in 1 .. n - 1 + 1 : SubSeq(s, 1, n)[i] = s[1 + i - 1]
    BY <1>2, SubSeqProperties DEF Payload
  <2>2. Len(SubSeq(s, 1, n)) = n /\ \A i \in 1 .. n : SubSeq(s, 1, n)[i] = d[i]
    BY <1>2, <2>1
  <2> QED BY <2>1, <2>2, SeqEqual DEF n, Payload
<1>4. Body(d) = Stuffed(s)
  BY DEF Body
<1>5. Unstuff(Body(d)) = [data |-> s, mode |-> "plain"] /\ NoFlag(Body(d)) /\ Body(d) \in Payload
  BY <1>2, <1>4, UnstuffStuffed, StuffedType
<1>6. Unstuff(Body(d)).data = s /\ Unstuff(Body(d)).mode = "plain"
  BY <1>5
<1>7. Len(s) - 2 = n /\ Len(s) >= 2 /\ s = d \o Crc(d)
  BY <1>2
<1> HIDE DEF s, n
<1>8. Decode(Body(d)) = Delivered(d)
  BY <1>3, <1>6, <1>7 DEF Decode, Delivered
<1> QED BY <1>5, <1>8

LEMMA DecodeNothing == Decode(<<>>) = <<>>
<1> DEFINE u == Unstuff(<<>>)
<1>1. u.data = <<>>
  BY UnstuffStep DEF Unread
<1>2. ~ (Len(u.data) >= 2)
  BY <1>1, Len(<<>>) = 0
<1> HIDE DEF u
<1> QED BY <1>2 DEF Decode, u

\* A frame on the line ends what was begun before it and is handed up.
LEMMA FrameReading ==
  ASSUME NEW c \in Payload, NEW d \in Payload
  PROVE  /\ Encode(d) \in Payload
         /\ Reference(c \o Encode(d)) =
              [body |-> <<>>,
               frames |-> (Reference(c).frames \o Decode(Reference(c).body)) \o Delivered(d)]
<1> DEFINE b == Body(d)
           f == <<Flag>>
<1>1. b \in Payload /\ NoFlag(b) /\ Decode(b) = Delivered(d) /\ f \in Payload /\ Flag \in Octets
  BY RoundTrip DEF Payload, Octets, Flag
<1>2. Encode(d) = (f \o b) \o f
  BY DEF Encode
<1>3. Reference(Append(c, Flag)) = [body |-> <<>>, frames |-> Reference(c).frames \o Decode(Reference(c).body)]
  <2>1. Reference(Append(c, Flag)) = Pass(Reference(c), Flag)
    BY <1>1, ReferenceStep
  <2> QED BY <2>1 DEF Pass
<1>4. c \o Encode(d) = Append(Append(c, Flag) \o b, Flag) /\ Encode(d) \in Payload /\ Append(c, Flag) \in Payload
  <2> HIDE DEF b
  <2>1. f \o b \in Payload /\ (f \o b) \o f \in Payload /\ c \o f \in Payload /\ (c \o f) \o b \in Payload
    BY <1>1, ConcatProperties DEF Payload
  <2>2. c \o ((f \o b) \o f) = (c \o (f \o b)) \o f /\ c \o (f \o b) = (c \o f) \o b
    BY <1>1, <2>1, ConcatAssociative DEF Payload
  <2>3. Append(c, Flag) = c \o f /\ Append((c \o f) \o b, Flag) = ((c \o f) \o b) \o f
    BY <1>1, <2>1, AppendIsConcat DEF Payload
  <2> QED BY <1>2, <2>1, <2>2, <2>3
<1> HIDE DEF b, f
<1> DEFINE r == Reference(Append(c, Flag))
<1>5. Reference(Append(Append(c, Flag) \o b, Flag)) = [body |-> <<>>, frames |-> r.frames \o Decode(r.body \o b)]
  BY <1>1, <1>4, FlagReading
<1>6. r.body \o b = b
  <2>1. r.body = <<>>
    BY <1>3
  <2> QED BY <1>1, <2>1, ConcatEmptySeq DEF Payload
<1>7. r.frames = Reference(c).frames \o Decode(Reference(c).body)
  <2> DEFINE g == Reference(c).frames \o Decode(Reference(c).body)
  <2>1. r = [body |-> <<>>, frames |-> g]
    BY <1>3
  <2> HIDE DEF r, g
  <2>2. r.frames = g
    BY <2>1
  <2> QED BY <2>2 DEF g
<1> HIDE DEF r
<1> QED BY <1>1, <1>4, <1>5, <1>6, <1>7

Writes == Seq(Payload)

LEMMA KeepType ==
  <<>> \in Writes /\ \A kept \in Writes, d \in Payload : Keep(kept, d) \in Writes
<1>1. \A kept \in Writes, d \in Payload : Append(kept, d) \in Writes
  BY AppendProperties DEF Writes
<1> QED BY <1>1, EmptySeq DEF Keep, Writes

LEMMA KeptRun ==
  ASSUME NEW s \in Writes
  PROVE  \E r : /\ r[0] = <<>>
                /\ \A k \in 1 .. Len(s) : r[k] = Keep(r[k - 1], s[k])
                /\ Kept(s) = r[Len(s)]
<1> DEFINE n == Len(s)
           step == [x \in Writes \X (1 .. n) |-> Keep(x[1], s[x[2]])]
           Iterates(it) == it = [S \in SUBSET DOMAIN s |->
                                   IF S = {} THEN <<>> ELSE Keep(it[S \ {Max(S)}], s[Max(S)])]
           iter == CHOOSE it : Iterates(it)
           r == [k \in 0 .. n |-> iter[1 .. k]]
<1>1. n \in Nat /\ DOMAIN s = 1 .. n /\ \A k \in 1 .. n : s[k] \in Payload
  BY LenProperties, ElementOfSeq DEF Writes
<1> HIDE DEF n
<1>2. <<>> \in Writes /\ step \in [Writes \X (1 .. n) -> Writes]
  BY <1>1, KeepType
<1>3. PICK it : Iteration(it, Writes, <<>>, n, step)
  <2>1. n \in Nat
    BY <1>1
  <2> HIDE DEF step
  <2> QED BY <2>1, <1>2, FoldExists
<1>4. ASSUME NEW S \in SUBSET (1 .. n), S # {}
      PROVE  it[S] = Keep(it[S \ {Max(S)}], s[Max(S)])
  <2>1. Max(S) \in 1 .. n /\ it[S \ {Max(S)}] \in Writes
    BY <1>1, <1>3, <1>4, MaxProperties DEF Iteration
  <2>2. <<it[S \ {Max(S)}], Max(S)>> \in Writes \X (1 .. n)
    BY <2>1
  <2> QED BY <1>3, <1>4, <2>2 DEF Iteration
<1>5. it = [S \in SUBSET DOMAIN s |-> it[S]] /\ it[{}] = <<>>
  BY <1>1, <1>3 DEF Iteration
<1>6. Iterates(it)
  BY <1>1, <1>4, <1>5
<1>7. Iterates(iter)
  BY <1>6
<1>8. Kept(s) = iter[DOMAIN s]
  BY DEF Kept, FoldLeft, MapThenFoldSet
<1> HIDE DEF iter
<1>9. ASSUME NEW k \in 1 .. n PROVE iter[1 .. k] = Keep(iter[1 .. (k - 1)], s[k])
  <2>1. 1 .. k \in SUBSET DOMAIN s /\ 1 .. k # {} /\ Max(1 .. k) = k
        /\ (1 .. k) \ {k} = 1 .. (k - 1)
    BY <1>1, FirstIndices
  <2> QED BY <1>7, <2>1
<1>10. 1 .. 0 = {} /\ 0 \in 0 .. n /\ n \in 0 .. n
  BY <1>1
<1>11. r[0] = <<>> /\ Kept(s) = r[n]
  BY <1>1, <1>7, <1>8, <1>10
<1>12. \A k \in 1 .. n : r[k] = Keep(r[k - 1], s[k])
  BY <1>1, <1>9
<1> HIDE DEF r
<1> QED BY <1>11, <1>12 DEF n

LEMMA KeptStep ==
  /\ Kept(<<>>) = <<>>
  /\ \A s \in Writes, o \in Payload : Kept(Append(s, o)) = Keep(Kept(s), o)
<1>1. Kept(<<>>) = <<>>
  <2>1. <<>> \in Writes /\ Len(<<>>) = 0
    BY EmptySeq DEF Writes
  <2> QED BY <2>1, KeptRun
<1>2. ASSUME NEW s \in Writes, NEW o \in Payload PROVE Kept(Append(s, o)) = Keep(Kept(s), o)
  <2> DEFINE n == Len(s)
             t == Append(s, o)
  <2>1. t \in Writes /\ n \in Nat /\ Len(t) = n + 1 /\ t[n + 1] = o /\ \A k \in 1 .. n : t[k] = s[k]
    BY LenProperties, AppendProperties DEF Writes
  <2>2. PICK r : r[0] = <<>> /\ (\A k \in 1 .. n : r[k] = Keep(r[k - 1], s[k])) /\ Kept(s) = r[n]
    BY KeptRun
  <2> HIDE DEF n, t
  <2>3. PICK q : r[0] = q[0] /\ (\A k \in 1 .. n + 1 : q[k] = Keep(q[k - 1], t[k])) /\ Kept(t) = q[n + 1]
    BY <2>1, <2>2, KeptRun
  <2>4. \A k \in 1 .. n : r[k - 1] = q[k - 1] => r[k] = q[k]
    BY <2>1, <2>2, <2>3
  <2>5. r[n] = q[n]
    BY <2>1, <2>3, <2>4, RunsAgree
  <2>6. n + 1 \in 1 .. n + 1 /\ (n + 1) - 1 = n
    BY <2>1
  <2>7. Kept(t) = Keep(Kept(s), o)
    BY <2>1, <2>2, <2>3, <2>5, <2>6
  <2> QED BY <2>7 DEF t
<1> QED BY <1>1, <1>2

LEMMA KeptType == \A s \in Writes : Kept(s) \in Writes
<1> DEFINE P == {s \in Writes : Kept(s) \in Writes}
<1>1. <<>> \in P
  BY KeptStep, KeepType, EmptySeq DEF Writes
<1>2. ASSUME NEW s \in Writes, NEW o \in Payload, s \in P PROVE Append(s, o) \in P
  BY <1>2, KeptStep, KeepType, AppendProperties DEF Writes
<1> HIDE DEF P
<1>3. Seq(Payload) \subseteq P
  BY <1>1, <1>2, SeqInduction DEF Writes
<1> QED BY <1>3 DEF P, Writes
-------------------------------------------------------------------------------
(* What errors cost.                                                       *)

\* A stream s is worn by k when it is the writing w with at most k of its frames
\* changed into anything: the least set of the triples that Wears closes.
Triples == Payload \X Writes \X Nat

Wears(R) ==
    /\ <<<<>>, <<>>, 0>> \in R
    /\ \A s \in Payload, w \in Writes, k \in Nat, d \in Payload :
         <<s, w, k>> \in R => <<s \o Encode(d), Append(w, d), k>> \in R
    /\ \A s \in Payload, w \in Writes, k \in Nat, d \in Payload, x \in Payload :
         <<s, w, k>> \in R => <<s \o x, Append(w, d), k + 1>> \in R
    /\ \A s \in Payload, w \in Writes, k \in Nat :
         <<s, w, k>> \in R => <<s, w, k + 1>> \in R

Worn == {t \in Triples : \A R \in SUBSET Triples : Wears(R) => t \in R}

LEMMA EncodeType == \A d \in Payload : Encode(d) \in Payload
  BY FrameReading, EmptySeq DEF Payload

LEMMA TriplesWear == Wears(Triples)
<1>1. <<<<>>, <<>>, 0>> \in Triples
  BY EmptySeq DEF Triples, Payload, Writes
<1>2. ASSUME NEW s \in Payload, NEW x \in Payload PROVE s \o x \in Payload
  BY ConcatProperties DEF Payload
<1>3. ASSUME NEW w \in Writes, NEW d \in Payload PROVE Append(w, d) \in Writes
  BY AppendProperties DEF Writes
<1>4. /\ \A s, x \in Payload : s \o x \in Payload
      /\ \A w \in Writes, d \in Payload : Append(w, d) \in Writes
      /\ \A d \in Payload : Encode(d) \in Payload
      /\ \A k \in Nat : k + 1 \in Nat
  BY <1>2, <1>3, EncodeType
<1>5. ASSUME NEW s, NEW w, NEW k PROVE <<s, w, k>> \in Triples <=> s \in Payload /\ w \in Writes /\ k \in Nat
  BY DEF Triples
<1> QED BY <1>1, <1>4, <1>5 DEF Wears

LEMMA WornWears == Wears(Worn) /\ Worn \subseteq Triples
<1>1. <<<<>>, <<>>, 0>> \in Worn
  BY TriplesWear DEF Wears, Worn
<1>2. ASSUME NEW s \in Payload, NEW w \in Writes, NEW k \in Nat, NEW d \in Payload, <<s, w, k>> \in Worn
      PROVE  <<s \o Encode(d), Append(w, d), k>> \in Worn
  BY <1>2, TriplesWear DEF Wears, Worn
<1>3. ASSUME NEW s \in Payload, NEW w \in Writes, NEW k \in Nat, NEW d \in Payload, NEW x \in Payload,
             <<s, w, k>> \in Worn
      PROVE  <<s \o x, Append(w, d), k + 1>> \in Worn
  BY <1>3, TriplesWear DEF Wears, Worn
<1>4. ASSUME NEW s \in Payload, NEW w \in Writes, NEW k \in Nat, <<s, w, k>> \in Worn
      PROVE  <<s, w, k + 1>> \in Worn
  BY <1>4, TriplesWear DEF Wears, Worn
<1>5. Worn \subseteq Triples
  BY DEF Worn
<1> HIDE DEF Worn
<1> QED BY <1>1, <1>2, <1>3, <1>4, <1>5 DEF Wears

LEMMA WornLeast == ASSUME NEW R \in SUBSET Triples, Wears(R) PROVE Worn \subseteq R
  BY DEF Worn

\* Like Cat, a name behind which an appended octet stays a term.
Add(a, o) == Append(a, o)

LEMMA Cats ==
  /\ <<>> \in Payload
  /\ \A a \in Payload : Cat(a, <<>>) = a
  /\ \A a, b \in Payload : Cat(a, b) \in Payload
  /\ \A a, b, c \in Payload : Cat(Cat(a, b), c) = Cat(a, Cat(b, c))
  /\ \A a \in Payload, o \in Octets : Add(a, o) \in Payload
  /\ \A a, b \in Payload, o \in Octets : Cat(a, Add(b, o)) = Add(Cat(a, b), o)
  /\ \A a, b \in Payload, o, p \in Octets : Add(a, o) = Add(b, p) => a = b /\ o = p
  /\ \A b \in Payload : b # <<>> => \E a \in Payload, o \in Octets : b = Add(a, o)
  /\ \A a \in Payload, o \in Octets : Add(a, o) # <<>>
<1>1. <<>> \in Payload
  BY EmptySeq DEF Payload
<1>2. ASSUME NEW a \in Payload PROVE Cat(a, <<>>) = a
  BY ConcatEmptySeq DEF Payload, Cat
<1>3. ASSUME NEW a \in Payload, NEW b \in Payload PROVE Cat(a, b) \in Payload
  BY ConcatProperties DEF Payload, Cat
<1>4. ASSUME NEW a \in Payload, NEW b \in Payload, NEW c \in Payload PROVE Cat(Cat(a, b), c) = Cat(a, Cat(b, c))
  BY ConcatAssociative DEF Payload, Cat
<1>5. ASSUME NEW a \in Payload, NEW o \in Octets PROVE Add(a, o) \in Payload /\ Add(a, o) # <<>>
  BY AppendProperties DEF Payload, Add
<1>6. ASSUME NEW a \in Payload, NEW b \in Payload, NEW o \in Octets PROVE Cat(a, Add(b, o)) = Add(Cat(a, b), o)
  BY ConcatAppend DEF Payload, Cat, Add
<1>7. ASSUME NEW a \in Payload, NEW b \in Payload, NEW o \in Octets, NEW p \in Octets, Add(a, o) = Add(b, p)
      PROVE  a = b /\ o = p
  BY <1>7, AppendInjective DEF Payload, Add
<1>8. ASSUME NEW b \in Payload, b # <<>> PROVE \E a \in Payload, o \in Octets : b = Add(a, o)
  BY <1>8, SequenceEmptyOrAppend DEF Payload, Add
<1> QED BY <1>1, <1>2, <1>3, <1>4, <1>5, <1>6, <1>7, <1>8

LEMMA WornCats ==
  /\ <<<<>>, <<>>, 0>> \in Worn
  /\ \A s \in Payload, w \in Writes, k \in Nat, d \in Payload :
       <<s, w, k>> \in Worn => <<Cat(s, Encode(d)), Append(w, d), k>> \in Worn
  /\ \A s \in Payload, w \in Writes, k \in Nat, d \in Payload, x \in Payload :
       <<s, w, k>> \in Worn => <<Cat(s, x), Append(w, d), k + 1>> \in Worn
  /\ \A s \in Payload, w \in Writes, k \in Nat :
       <<s, w, k>> \in Worn => <<s, w, k + 1>> \in Worn
  BY WornWears DEF Wears, Cat

\* Where an octet lies in a stream of two parts.
Parted(a, o, b, s, x) ==
    \/ \E c \in Payload : s = Cat(Add(a, o), c) /\ b = Cat(c, x)
    \/ \E c \in Payload : a = Cat(s, c) /\ x = Cat(Add(c, o), b)

LEMMA InTwoParts ==
  ASSUME NEW a \in Payload, NEW o \in Octets, NEW s \in Payload, NEW x \in Payload
  PROVE  \A b \in Payload : Cat(s, x) = Cat(Add(a, o), b) => Parted(a, o, b, s, x)
<1> DEFINE P == {z \in Payload : \A b \in Payload : Cat(s, z) = Cat(Add(a, o), b) => Parted(a, o, b, s, z)}
<1>1. <<>> \in P
  BY Cats DEF Parted
<1>2. ASSUME NEW z \in Payload, NEW e \in Octets, z \in P PROVE Append(z, e) \in P
  <2>1. Add(z, e) \in Payload /\ Add(a, o) \in Payload
    BY Cats
  <2>2. ASSUME NEW b \in Payload, Cat(s, Add(z, e)) = Cat(Add(a, o), b) PROVE Parted(a, o, b, s, Add(z, e))
    <3>1. CASE b = <<>>
      <4>1. Add(Cat(s, z), e) = Add(a, o) /\ Cat(s, z) \in Payload
        BY <2>1, <2>2, <3>1, Cats
      <4>2. a = Cat(s, z) /\ o = e
        BY <4>1, Cats
      <4>3. Add(z, e) = Cat(Add(z, o), b)
        BY <2>1, <3>1, <4>2, Cats
      <4> QED BY <4>2, <4>3 DEF Parted
    <3>2. CASE b # <<>>
      <4>1. PICK g \in Payload, h \in Octets : b = Add(g, h)
        BY <3>2, Cats
      <4>2. Add(Cat(s, z), e) = Add(Cat(Add(a, o), g), h)
        BY <2>1, <2>2, <4>1, Cats
      <4>3. Cat(s, z) = Cat(Add(a, o), g) /\ e = h
        <5>1. Cat(s, z) \in Payload /\ Cat(Add(a, o), g) \in Payload
          BY <2>1, Cats
        <5> QED BY <4>2, <5>1, Cats
      <4>4. Parted(a, o, g, s, z)
        BY <1>2, <4>3
      <4>5. ASSUME NEW c \in Payload, s = Cat(Add(a, o), c), g = Cat(c, z) PROVE Parted(a, o, b, s, Add(z, e))
        <5>1. b = Cat(c, Add(z, e))
          BY <4>1, <4>3, <4>5, Cats
        <5> QED BY <4>5, <5>1 DEF Parted
      <4>6. ASSUME NEW c \in Payload, a = Cat(s, c), z = Cat(Add(c, o), g) PROVE Parted(a, o, b, s, Add(z, e))
        <5>1. Add(c, o) \in Payload
          BY Cats
        <5>2. Add(z, e) = Cat(Add(c, o), b)
          BY <4>1, <4>3, <4>6, <5>1, Cats
        <5> QED BY <4>6, <5>2 DEF Parted
      <4> QED BY <4>4, <4>5, <4>6 DEF Parted
    <3> QED BY <3>1, <3>2
  <2> QED BY <2>1, <2>2 DEF Add
<1> HIDE DEF P
<1>3. Payload \subseteq P
  BY <1>1, <1>2, SeqInduction DEF Payload
<1> QED BY <1>3 DEF P

\* An error in one octet, which may come out as anything, wears a stream by one
\* frame more.
Wear(s, w, k) ==
    \A a \in Payload, o \in Octets, b \in Payload, m \in Payload :
       s = Cat(Add(a, o), b) => <<Cat(Cat(a, m), b), w, k + 1>> \in Worn

\* Either the part before is worn more, or the last part is another.
Reworn(g, b, s, w, k, x) ==
    \/ \E u \in Payload : Cat(g, b) = Cat(u, x) /\ <<u, w, k + 1>> \in Worn
    \/ \E y \in Payload : Cat(g, b) = Cat(s, y)

LEMMA WearParts ==
  ASSUME NEW s \in Payload, NEW w \in Writes, NEW k \in Nat, NEW x \in Payload, Wear(s, w, k),
         NEW a \in Payload, NEW o \in Octets, NEW b \in Payload, NEW m \in Payload,
         Cat(s, x) = Cat(Add(a, o), b)
  PROVE  Reworn(Cat(a, m), b, s, w, k, x)
<1>1. ASSUME NEW c \in Payload, s = Cat(Add(a, o), c), b = Cat(c, x)
      PROVE  Reworn(Cat(a, m), b, s, w, k, x)
  <2>1. <<Cat(Cat(a, m), c), w, k + 1>> \in Worn
    BY <1>1 DEF Wear
  <2>2. Cat(a, m) \in Payload /\ Cat(Cat(a, m), c) \in Payload
    BY Cats
  <2>3. Cat(Cat(a, m), b) = Cat(Cat(Cat(a, m), c), x)
    BY <1>1, <2>2, Cats
  <2> QED BY <2>1, <2>2, <2>3 DEF Reworn
<1>2. ASSUME NEW c \in Payload, a = Cat(s, c), x = Cat(Add(c, o), b)
      PROVE  Reworn(Cat(a, m), b, s, w, k, x)
  <2>1. Cat(c, m) \in Payload /\ Cat(Cat(c, m), b) \in Payload
    BY Cats
  <2>2. Cat(a, m) = Cat(s, Cat(c, m))
    BY <1>2, Cats
  <2>3. Cat(Cat(a, m), b) = Cat(s, Cat(Cat(c, m), b))
    BY <2>1, <2>2, Cats
  <2> QED BY <2>1, <2>3 DEF Reworn
<1>3. Parted(a, o, b, s, x)
  BY InTwoParts
<1> QED BY <1>1, <1>2, <1>3 DEF Parted

LEMMA WornMore ==
  ASSUME NEW s \in Payload, NEW w \in Writes, NEW k \in Nat, <<s, w, k>> \in Worn
  PROVE  Wear(s, w, k)
<1> DEFINE R == {t \in Worn : Wear(t[1], t[2], t[3])}
<1>0. R \in SUBSET Triples
  BY WornWears
<1>1. <<<<>>, <<>>, 0>> \in R
  <2>1. ASSUME NEW a \in Payload, NEW o \in Octets, NEW b \in Payload PROVE Cat(Add(a, o), b) # <<>>
    <3>1. Add(a, o) \in Payload
      BY Cats
    <3>2. CASE b = <<>>
      BY <3>1, <3>2, Cats
    <3>3. CASE b # <<>>
      <4>1. PICK g \in Payload, h \in Octets : b = Add(g, h)
        BY <3>3, Cats
      <4>2. Cat(Add(a, o), b) = Add(Cat(Add(a, o), g), h) /\ Cat(Add(a, o), g) \in Payload
        BY <3>1, <4>1, Cats
      <4> QED BY <4>2, Cats
    <3> QED BY <3>2, <3>3
  <2> QED BY <2>1, WornCats DEF Wear
<1>2. ASSUME NEW t \in Payload, NEW v \in Writes, NEW n \in Nat, NEW d \in Payload, <<t, v, n>> \in R
      PROVE  <<Cat(t, Encode(d)), Append(v, d), n>> \in R
  <2>1. <<t, v, n>> \in Worn /\ Wear(t, v, n) /\ Encode(d) \in Payload /\ n + 1 \in Nat
    BY <1>2, EncodeType
  <2>2. <<Cat(t, Encode(d)), Append(v, d), n>> \in Worn
    BY <2>1, WornCats
  <2>3. ASSUME NEW a \in Payload, NEW o \in Octets, NEW b \in Payload, NEW m \in Payload,
               Cat(t, Encode(d)) = Cat(Add(a, o), b)
        PROVE  <<Cat(Cat(a, m), b), Append(v, d), n + 1>> \in Worn
    <3>1. Reworn(Cat(a, m), b, t, v, n, Encode(d))
      BY <2>1, <2>3, WearParts
    <3> QED BY <2>1, <3>1, WornCats DEF Reworn
  <2>4. Wear(Cat(t, Encode(d)), Append(v, d), n)
    BY <2>3 DEF Wear
  <2> QED BY <2>2, <2>4
<1>3. ASSUME NEW t \in Payload, NEW v \in Writes, NEW n \in Nat, NEW d \in Payload, NEW x \in Payload,
             <<t, v, n>> \in R
      PROVE  <<Cat(t, x), Append(v, d), n + 1>> \in R
  <2>1. <<t, v, n>> \in Worn /\ Wear(t, v, n) /\ n + 1 \in Nat
    BY <1>3
  <2>2. <<Cat(t, x), Append(v, d), n + 1>> \in Worn
    BY <2>1, WornCats
  <2>3. ASSUME NEW a \in Payload, NEW o \in Octets, NEW b \in Payload, NEW m \in Payload,
               Cat(t, x) = Cat(Add(a, o), b)
        PROVE  <<Cat(Cat(a, m), b), Append(v, d), (n + 1) + 1>> \in Worn
    <3>1. Reworn(Cat(a, m), b, t, v, n, x)
      BY <2>1, <2>3, WearParts
    <3>2. <<t, v, n + 1>> \in Worn
      BY <2>1, WornCats
    <3> QED BY <2>1, <3>1, <3>2, WornCats DEF Reworn
  <2>4. Wear(Cat(t, x), Append(v, d), n + 1)
    BY <2>3 DEF Wear
  <2> QED BY <2>2, <2>4
<1>4. ASSUME NEW t \in Payload, NEW v \in Writes, NEW n \in Nat, <<t, v, n>> \in R
      PROVE  <<t, v, n + 1>> \in R
  <2>1. <<t, v, n>> \in Worn /\ Wear(t, v, n) /\ n + 1 \in Nat
    BY <1>4
  <2>2. <<t, v, n + 1>> \in Worn
    BY <2>1, WornCats
  <2>3. ASSUME NEW a \in Payload, NEW o \in Octets, NEW b \in Payload, NEW m \in Payload, t = Cat(Add(a, o), b)
        PROVE  <<Cat(Cat(a, m), b), v, (n + 1) + 1>> \in Worn
    <3>1. <<Cat(Cat(a, m), b), v, n + 1>> \in Worn
      BY <2>1, <2>3 DEF Wear
    <3>2. Cat(Cat(a, m), b) \in Payload
      BY Cats
    <3> QED BY <2>1, <3>1, <3>2, WornCats
  <2>4. Wear(t, v, n + 1)
    BY <2>3 DEF Wear
  <2> QED BY <2>2, <2>4
<1> HIDE DEF R
<1>5. Wears(R)
  BY <1>1, <1>2, <1>3, <1>4 DEF Wears, Cat
<1>6. <<s, w, k>> \in R
  BY <1>0, <1>5, WornLeast
<1> QED BY <1>6 DEF R

\* What comes later takes nothing back.
LEMMA ReadsGrow ==
  ASSUME NEW c \in Payload, NEW x \in Payload
  PROVE  Len(Reference(c).frames) <= Len(Reference(c \o x).frames)
<1> DEFINE n == Len(Reference(c).frames)
           P == {u \in Payload : n <= Len(Reference(c \o u).frames)}
<1>0. n \in Nat
  BY ReferenceType, LenProperties DEF Reading
<1>1. <<>> \in P
  BY <1>0, EmptySeq, ConcatEmptySeq DEF Payload
<1> HIDE DEF n
<1>2. ASSUME NEW u \in Payload, NEW o \in Octets, u \in P PROVE Append(u, o) \in P
  <2> DEFINE r == Reference(c \o u)
  <2>1. c \o u \in Payload /\ c \o Append(u, o) = Append(c \o u, o) /\ Append(u, o) \in Payload
    BY ConcatProperties, ConcatAppend, AppendProperties DEF Payload
  <2>2. Reference(c \o Append(u, o)) = Pass(r, o) /\ r \in Reading
    BY <2>1, ReferenceStep, ReferenceType
  <2>3. n <= Len(r.frames)
    BY <1>2
  <2> HIDE DEF r
  <2> DEFINE f == r.frames
             g == Decode(r.body)
  <2>4. f \in Seq(Payload) /\ g \in Seq(Payload) /\ (Pass(r, o).frames = f \/ Pass(r, o).frames = f \o g)
    BY <2>2, DecodeType DEF Pass, Reading
  <2>5. n <= Len(f)
    BY <2>3
  <2> HIDE DEF f, g
  <2>6. Len(f) \in Nat /\ Len(g) \in Nat /\ Len(f \o g) = Len(f) + Len(g)
    BY <2>4, ConcatProperties, LenProperties
  <2>7. n <= Len(Pass(r, o).frames)
    BY <1>0, <2>4, <2>5, <2>6
  <2> QED BY <2>1, <2>2, <2>7
<1> HIDE DEF P
<1>3. Payload \subseteq P
  BY <1>1, <1>2, SeqInduction DEF Payload
<1> QED BY <1>3 DEF P, n

\* A stream worn by k yields all the frames but k.
LEMMA WornReading == \A t \in Worn : Len(Kept(t[2])) <= Len(Reference(t[1]).frames) + t[3]
<1> DEFINE R == {t \in Worn : Len(Kept(t[2])) <= Len(Reference(t[1]).frames) + t[3]}
<1>0. R \in SUBSET Triples
  BY WornWears
<1>1. <<<<>>, <<>>, 0>> \in R
  <2>1. Len(Kept(<<>>)) = 0 /\ Len(Reference(<<>>).frames) = 0
    BY KeptStep, ReferenceStep, Len(<<>>) = 0 DEF Nothing
  <2> QED BY <2>1, WornWears DEF Wears
<1>2. ASSUME NEW s \in Payload, NEW w \in Writes, NEW k \in Nat PROVE
        /\ Len(Kept(w)) \in Nat /\ Len(Reference(s).frames) \in Nat
        /\ Reference(s).frames \in Seq(Payload) /\ Decode(Reference(s).body) \in Seq(Payload)
        /\ \A d \in Payload : Len(Kept(Append(w, d))) = Len(Kept(w)) + (IF IsSpinel(d) THEN 1 ELSE 0)
  <2>1. Kept(w) \in Writes /\ Len(Kept(w)) \in Nat
    BY KeptType, LenProperties DEF Writes
  <2>2. Reference(s).frames \in Seq(Payload) /\ Len(Reference(s).frames) \in Nat
        /\ Decode(Reference(s).body) \in Seq(Payload)
    BY ReferenceType, DecodeType, LenProperties DEF Reading
  <2>3. ASSUME NEW d \in Payload PROVE Len(Kept(Append(w, d))) = Len(Kept(w)) + (IF IsSpinel(d) THEN 1 ELSE 0)
    <3>1. Kept(Append(w, d)) = Keep(Kept(w), d)
      BY KeptStep
    <3>2. Len(Append(Kept(w), d)) = Len(Kept(w)) + 1
      BY <2>1, AppendProperties DEF Writes
    <3> QED BY <2>1, <3>1, <3>2 DEF Keep
  <2> QED BY <2>1, <2>2, <2>3
<1>3. ASSUME NEW s \in Payload, NEW w \in Writes, NEW k \in Nat, NEW d \in Payload, <<s, w, k>> \in R
      PROVE  <<s \o Encode(d), Append(w, d), k>> \in R
  <2>1. <<s \o Encode(d), Append(w, d), k>> \in Worn
    BY <1>3, WornWears DEF Wears
  <2>2. Len(Kept(w)) <= Len(Reference(s).frames) + k
    BY <1>3
  <2> DEFINE f == Reference(s).frames
             g == Decode(Reference(s).body)
             h == Delivered(d)
             all == Reference(s \o Encode(d)).frames
  <2>3. f \in Seq(Payload) /\ g \in Seq(Payload) /\ all = (f \o g) \o h
    <3>1. Reference(s \o Encode(d)) = [body |-> <<>>, frames |-> (f \o g) \o h]
      BY FrameReading
    <3>2. f \in Seq(Payload) /\ g \in Seq(Payload)
      BY <1>2
    <3>3. all = [body |-> <<>>, frames |-> (f \o g) \o h].frames
      BY <3>1
    <3> HIDE DEF f, g, h, all
    <3> QED BY <3>2, <3>3
  <2>4. h \in Seq(Payload) /\ Len(h) = (IF IsSpinel(d) THEN 1 ELSE 0)
    BY EmptySeq DEF Delivered
  <2>5. Len(Kept(w)) <= Len(f) + k
    BY <2>2
  <2> HIDE DEF f, g, h, all
  <2>6. f \o g \in Seq(Payload) /\ Len(f \o g) = Len(f) + Len(g) /\ Len(f) \in Nat /\ Len(g) \in Nat
    BY <2>3, ConcatProperties, LenProperties
  <2> DEFINE e == f \o g
  <2>7. e \in Seq(Payload) /\ Len(e) = Len(f) + Len(g) /\ all = e \o h
    BY <2>3, <2>6
  <2> HIDE DEF e
  <2>8. Len(e \o h) = Len(e) + Len(h)
    BY <2>4, <2>7, ConcatProperties
  <2>9. Len(Kept(Append(w, d))) = Len(Kept(w)) + Len(h) /\ Len(Kept(w)) \in Nat
    BY <1>2, <2>4
  <2>10. Len(h) \in Nat
    BY <2>4
  <2>11. Len(Kept(Append(w, d))) <= Len(all) + k
    BY <2>5, <2>6, <2>7, <2>8, <2>9, <2>10
  <2> QED BY <2>1, <2>11 DEF all
<1>4. ASSUME NEW s \in Payload, NEW w \in Writes, NEW k \in Nat, NEW d \in Payload, NEW x \in Payload,
             <<s, w, k>> \in R
      PROVE  <<s \o x, Append(w, d), k + 1>> \in R
  <2>1. <<s \o x, Append(w, d), k + 1>> \in Worn /\ s \o x \in Payload
    BY <1>4, WornWears, ConcatProperties DEF Wears, Payload
  <2>2. Len(Kept(w)) <= Len(Reference(s).frames) + k
    BY <1>4
  <2>3. Len(Reference(s).frames) <= Len(Reference(s \o x).frames)
    BY ReadsGrow
  <2>4. /\ Len(Kept(w)) \in Nat /\ Len(Reference(s).frames) \in Nat
        /\ Len(Kept(Append(w, d))) = Len(Kept(w)) + (IF IsSpinel(d) THEN 1 ELSE 0)
    BY <1>2
  <2>5. Len(Reference(s \o x).frames) \in Nat
    BY <2>1, ReferenceType, LenProperties DEF Reading
  <2> DEFINE m == Len(Reference(s).frames)
             n == Len(Reference(s \o x).frames)
             p == Len(Kept(w))
             q == Len(Kept(Append(w, d)))
  <2>6. p <= m + k /\ m <= n /\ p \in Nat /\ m \in Nat /\ n \in Nat /\ (q = p \/ q = p + 1)
    BY <2>2, <2>3, <2>4, <2>5
  <2> HIDE DEF m, n, p, q
  <2>7. q <= n + (k + 1)
    BY <2>6
  <2> QED BY <2>1, <2>7 DEF n, q
<1>5. ASSUME NEW s \in Payload, NEW w \in Writes, NEW k \in Nat, <<s, w, k>> \in R
      PROVE  <<s, w, k + 1>> \in R
  <2>1. <<s, w, k + 1>> \in Worn
    BY <1>5, WornWears DEF Wears
  <2> QED BY <1>2, <1>5, <2>1
<1>6. Wears(R)
  <2> HIDE DEF R
  <2> QED BY <1>1, <1>3, <1>4, <1>5 DEF Wears
<1>7. Worn \subseteq R
  <2> HIDE DEF R
  <2> QED BY <1>0, <1>6, WornLeast
<1> QED BY <1>7

-------------------------------------------------------------------------------
(* The invariant. *)

\* Nothing changes the parser, so what octets are read as stays.
LEMMA SameReading ==
  ASSUME parser' = parser
  PROVE  /\ \A s : Reference(s)' = Reference(s)
         /\ \A s : Kept(s)' = Kept(s)
<1>1. ASSUME NEW s PROVE Reference(s)' = Reference(s)
  BY DEF Reference, FoldLeft, MapThenFoldSet, Pass, Decode, IsSpinel, MinOctets
<1>2. ASSUME NEW s PROVE Kept(s)' = Kept(s)
  BY DEF Kept, FoldLeft, MapThenFoldSet, Keep, IsSpinel, MinOctets
<1> QED BY <1>1, <1>2

LEMMA PayloadsType == \A d \in Payloads : d \in Payload
<1> TAKE d \in Payloads
<1>1. d \in Seq(0 .. 255) /\ 0 .. 255 \subseteq Nat
  BY OctetsAssumption
<1> QED BY <1>1, SeqMonotonic DEF Payload, Octets

LEMMA Types ==
  ASSUME TypeOK
  PROVE  /\ line \in Payload /\ consumed \in Payload /\ buffer \in Payload
         /\ frames \in Seq(Payload) /\ sent \in Writes
<1>1. Payloads \subseteq Payload
  BY PayloadsType
<1>2. sent \in Writes
  BY <1>1, SeqMonotonic DEF TypeOK, Writes
<1> QED BY <1>2 DEF TypeOK, Payload, Octets

\* What is said of the octets read stays while none are read.
LEMMA SameParse ==
  ASSUME IInv, UNCHANGED <<parser, consumed, buffer, frames>>
  PROVE  BufferHoldsRest' /\ ReadsAsOneStream' /\ HeldBackOnlyBehindPoison'
<1>1. parser' = parser
  OBVIOUS
<1>2. \A s : Reference(s)' = Reference(s)
  BY <1>1, SameReading
<1>3. BufferHoldsRest'
  BY <1>2 DEF IInv, BufferHoldsRest
<1>4. ReadsAsOneStream'
  BY <1>2 DEF IInv, ReadsAsOneStream
<1>5. HeldBackOnlyBehindPoison'
  BY DEF IInv, HeldBackOnlyBehindPoison
<1> QED BY <1>3, <1>4, <1>5

LEMMA InitInv == Init => IInv
<1> SUFFICES ASSUME Init PROVE IInv
  OBVIOUS
<1>1. consumed = <<>> /\ buffer = <<>> /\ frames = <<>> /\ errors = 0 /\ parser \in {"rust", "python"}
  BY DEF Init
<1>2. /\ sent \in Seq(Payloads) /\ line \in Payload /\ partial \in BOOLEAN
      /\ partial \/ (sent = <<>> /\ line = <<>>)
  <2>1. CASE sent = <<>> /\ line = <<>> /\ partial = FALSE
    BY <2>1, EmptySeq DEF Payload
  <2>2. CASE \E d \in Payloads : \E k \in 2 .. Len(Encode(d)) :
               sent = <<d>> /\ line = SubSeq(Encode(d), k, Len(Encode(d))) /\ partial = TRUE
    <3>1. PICK d \in Payloads : \E k \in 2 .. Len(Encode(d)) :
               sent = <<d>> /\ line = SubSeq(Encode(d), k, Len(Encode(d))) /\ partial = TRUE
      BY <2>2
    <3> DEFINE e == Encode(d)
    <3>2. d \in Payload
      BY PayloadsType
    <3>3. e \in Payload
      BY <3>2, FrameReading, EmptySeq DEF Payload
    <3> HIDE DEF e
    <3>4. PICK k \in 2 .. Len(e) : sent = <<d>> /\ line = SubSeq(e, k, Len(e)) /\ partial = TRUE
      BY <3>1 DEF e
    <3>5. Len(e) \in Nat /\ \A i \in 1 .. Len(e) : e[i] \in Octets
      BY <3>3, LenProperties, ElementOfSeq DEF Payload
    <3>6. SubSeq(e, k, Len(e)) \in Payload
      <4>1. k \in Int /\ Len(e) \in Int /\ \A i \in k .. Len(e) : e[i] \in Octets
        BY <3>5
      <4> QED BY <4>1, SubSeqProperties DEF Payload
    <3> QED BY <3>4, <3>6
  <2> QED BY <2>1, <2>2 DEF Init
<1>3. TypeOK
  BY <1>1, <1>2, EmptySeq DEF TypeOK, Payload, Octets
<1>4. Reference(<<>>) = [body |-> <<>>, frames |-> <<>>] /\ Kept(<<>>) = <<>>
  BY ReferenceStep, KeptStep DEF Nothing
<1>5. <<>> \o <<>> = <<>> /\ Len(<<>>) = 0
  BY EmptySeq, ConcatEmptySeq DEF Payload
<1>6. BufferHoldsRest /\ ReadsAsOneStream
  BY <1>1, <1>4, <1>5 DEF BufferHoldsRest, ReadsAsOneStream
<1>7. HeldBackOnlyBehindPoison
  BY <1>1 DEF HeldBackOnlyBehindPoison, ToSet
<1>8. StreamIsWhole
  BY <1>1, <1>2, <1>4, <1>5 DEF StreamIsWhole, Expected
<1> QED BY <1>3, <1>6, <1>7, <1>8 DEF IInv

\* A frame that is written is read behind all the others.
LEMMA WriteInv == ASSUME IInv, NEW d \in Payloads, Write(d) PROVE IInv'
<1>1. /\ sent' = Append(sent, d) /\ line' = line \o Encode(d)
      /\ UNCHANGED <<consumed, buffer, frames, errors, partial, parser>>
  BY DEF Write
<1>2. /\ d \in Payload /\ line \in Payload /\ consumed \in Payload /\ sent \in Writes
      /\ sent \in Seq(Payloads)
  BY Types, PayloadsType DEF IInv, TypeOK
<1> DEFINE c == consumed \o line
<1>3. c \in Payload /\ Encode(d) \in Payload /\ line' \in Payload
      /\ consumed \o (line \o Encode(d)) = c \o Encode(d)
  <2>1. Encode(d) \in Payload
    BY <1>2, FrameReading
  <2> DEFINE e == Encode(d)
  <2>2. e \in Payload
    BY <2>1
  <2> HIDE DEF e
  <2>3. c \in Payload /\ line \o e \in Payload
    BY <1>2, <2>2, ConcatProperties DEF Payload
  <2>4. consumed \o (line \o e) = c \o e
    <3>1. Cat(consumed, Cat(line, e)) = Cat(Cat(consumed, line), e)
      BY <1>2, <2>2, Cats
    <3> QED BY <3>1 DEF Cat
  <2> HIDE DEF c
  <2> QED BY <1>1, <2>2, <2>3, <2>4 DEF e
<1> HIDE DEF c
<1>4. TypeOK'
  <2>1. sent' \in Seq(Payloads)
    BY <1>1, <1>2, AppendProperties
  <2> QED BY <1>1, <1>3, <2>1 DEF IInv, TypeOK, Payload, Octets
<1>5. BufferHoldsRest' /\ ReadsAsOneStream' /\ HeldBackOnlyBehindPoison'
  BY <1>1, SameParse
<1>6. StreamIsWhole'
  <2> SUFFICES ASSUME errors = 0, ~partial
               PROVE  Reference(c \o Encode(d)) = [body |-> <<>>, frames |-> Kept(Append(sent, d))]
    BY <1>1, <1>3, SameReading DEF StreamIsWhole, Expected
  <2>1. Reference(c) = [body |-> <<>>, frames |-> Expected]
    BY DEF IInv, StreamIsWhole, c
  <2>2. Expected \in Seq(Payload) /\ Kept(Append(sent, d)) = Keep(Expected, d)
    BY <1>2, KeptType, KeptStep DEF Expected, Writes
  <2>3. Reference(c).body = <<>> /\ Reference(c).frames = Expected
    BY <2>1
  <2>4. Reference(c \o Encode(d)) = [body |-> <<>>, frames |-> (Expected \o Decode(<<>>)) \o Delivered(d)]
    <3>1. Reference(c \o Encode(d)) =
            [body |-> <<>>, frames |-> (Reference(c).frames \o Decode(Reference(c).body)) \o Delivered(d)]
      BY <1>2, <1>3, FrameReading
    <3> QED BY <2>3, <3>1
  <2>5. Expected \o Decode(<<>>) = Expected
    BY <2>2, DecodeNothing, ConcatEmptySeq
  <2>6. Expected \o Delivered(d) = Keep(Expected, d)
    <3>1. CASE IsSpinel(d)
      BY <1>2, <2>2, <3>1, AppendIsConcat DEF Delivered, Keep
    <3>2. CASE ~IsSpinel(d)
      BY <2>2, <3>2, ConcatEmptySeq DEF Delivered, Keep
    <3> QED BY <3>1, <3>2
  <2> QED BY <2>2, <2>4, <2>5, <2>6
<1> QED BY <1>4, <1>5, <1>6 DEF IInv

LEMMA DisturbInv == ASSUME IInv, NEW i \in DOMAIN line, Disturb(i) PROVE IInv'
<1>1. /\ errors' = errors + 1 /\ errors \in Nat
      /\ UNCHANGED <<parser, sent, consumed, buffer, frames, partial>>
  BY DEF Disturb, IInv, TypeOK
<1>2. line \in Payload /\ i \in 1 .. Len(line) /\ Len(line) \in Nat /\ \A k \in 1 .. Len(line) : line[k] \in Octets
  BY Types, LenProperties, ElementOfSeq DEF IInv, Payload
<1>3. line' \in Payload
  <2>1. CASE \E o \in Noise \ {line[i]} : line' = [line EXCEPT ![i] = o]
    <3>1. \A o \in Noise : o \in Octets
      BY OctetsAssumption DEF Octets
    <3> QED BY <1>2, <2>1, <3>1, ExceptSeq DEF Payload
  <2>2. CASE line' = RemoveAt(line, i)
    <3>1. SubSeq(line, 1, i - 1) \in Payload
      BY <1>2, SubSeqProperties, \A k \in 1 .. i - 1 : k \in 1 .. Len(line), i - 1 \in Int DEF Payload
    <3>2. SubSeq(line, i + 1, Len(line)) \in Payload
      BY <1>2, SubSeqProperties, \A k \in i + 1 .. Len(line) : k \in 1 .. Len(line), i + 1 \in Int DEF Payload
    <3> QED BY <2>2, <3>1, <3>2, ConcatProperties DEF RemoveAt, Payload
  <2> QED BY <2>1, <2>2 DEF Disturb
<1>4. TypeOK'
  BY <1>1, <1>3 DEF IInv, TypeOK, Payload, Octets
<1>5. BufferHoldsRest' /\ ReadsAsOneStream' /\ HeldBackOnlyBehindPoison'
  BY <1>1, SameParse
<1>6. StreamIsWhole'
  BY <1>1 DEF StreamIsWhole
<1> QED BY <1>4, <1>5, <1>6 DEF IInv

\* What is read is parsed together with what the buffer held.
LEMMA ReadInv == ASSUME IInv, NEW n \in DOMAIN line, Read(n) PROVE IInv'
<1> DEFINE got == SubSeq(line, 1, n)
           left == SubSeq(line, n + 1, Len(line))
           buf == buffer \o got
           up == Drain(buf).frames
           rest == Drain(buf).rest
<1>1. /\ line' = left /\ consumed' = consumed \o got /\ buffer' = rest
      /\ frames' = frames \o up /\ UNCHANGED <<parser, sent, errors, partial>>
  BY DEF Read
<1>2. /\ line \in Payload /\ consumed \in Payload /\ buffer \in Payload /\ frames \in Seq(Payload)
      /\ Len(line) \in Nat /\ n \in 1 .. Len(line) /\ \A k \in 1 .. Len(line) : line[k] \in Octets
  BY Types, LenProperties, ElementOfSeq DEF IInv, Payload
<1>3. got \in Payload /\ left \in Payload /\ got \o left = line
  <2>1. got \in Payload
    BY <1>2, SubSeqProperties, \A k \in 1 .. n : k \in 1 .. Len(line) DEF Payload
  <2>2. left \in Payload
    BY <1>2, SubSeqProperties, \A k \in n + 1 .. Len(line) : k \in 1 .. Len(line), n + 1 \in Int DEF Payload
  <2>3. got \o left = SubSeq(line, 1, Len(line))
    BY <1>2, ConcatAdjacentSubSeq, 1 \in 1 .. Len(line) + 1, n \in 1 - 1 .. Len(line), Len(line) \in n .. Len(line)
    DEF Payload
  <2> QED BY <1>2, <2>1, <2>2, <2>3, SubSeqFull DEF Payload
<1>4. buf \in Payload /\ consumed \o got \in Payload
  <2> HIDE DEF got
  <2> QED BY <1>2, <1>3, ConcatProperties DEF Payload
<1>5. /\ up \in Seq(Payload) /\ rest \in Payload
      /\ Reference(buf).body = Reference(rest).body
      /\ Reference(buf).frames = up \o Reference(rest).frames
      /\ ~NoFlag(rest) => parser = "python" /\ up # <<>> /\ Last(up) \in Poison
  <2> HIDE DEF buf
  <2> QED BY <1>4, DrainReads
<1> HIDE DEF got, left, up, rest
<1>6. /\ Reference(consumed \o got).body = Reference(buf).body
      /\ Reference(consumed \o got).frames = frames \o Reference(buf).frames
  <2>1. GoesOn(consumed, buffer, frames)
    BY DEF IInv, BufferHoldsRest, ReadsAsOneStream, GoesOn
  <2>2. consumed \in Payload /\ buffer \in Payload /\ frames \in Seq(Payload) /\ got \in Payload
    BY <1>2, <1>3
  <2>3. GoesOn(consumed \o got, buf, frames)
    BY <2>1, <2>2, ReadOn
  <2> QED BY <2>3 DEF GoesOn
<1> HIDE DEF buf
<1>7. TypeOK'
  <2>1. frames \o up \in Seq(Payload)
    BY <1>2, <1>5, ConcatProperties
  <2> QED BY <1>1, <1>3, <1>4, <1>5, <2>1 DEF IInv, TypeOK, Payload, Octets
<1>8. parser' = parser
  BY <1>1
<1>9. (\A s : Reference(s)' = Reference(s)) /\ (\A s : Kept(s)' = Kept(s))
  BY <1>8, SameReading
<1>10. BufferHoldsRest'
  BY <1>1, <1>5, <1>6, <1>9 DEF BufferHoldsRest
<1>11. ReadsAsOneStream'
  <2> DEFINE later == Reference(rest).frames
             all == Reference(consumed \o got).frames
  <2>1. later \in Seq(Payload)
    BY <1>5, ReferenceType DEF Reading
  <2>2. all = frames \o (up \o later)
    BY <1>5, <1>6
  <2>3. ReadsAsOneStream' <=> all = (frames \o up) \o later
    BY <1>1, <1>9 DEF ReadsAsOneStream
  <2> HIDE DEF later, all
  <2>4. frames \in Seq(Payload) /\ up \in Seq(Payload)
    BY <1>2, <1>5
  <2>5. frames \o (up \o later) = (frames \o up) \o later
    BY <2>1, <2>4, ConcatAssociative
  <2> QED BY <2>2, <2>3, <2>5
<1>12. HeldBackOnlyBehindPoison'
  <2> SUFFICES ASSUME Flag \in ToSet(rest)
               PROVE  parser = "python" /\ frames \o up # <<>> /\ Last(frames \o up) \in Poison
    BY <1>1 DEF HeldBackOnlyBehindPoison
  <2>1. ~NoFlag(rest)
    BY <1>5, LenProperties DEF ToSet, NoFlag, Payload
  <2>2. parser = "python" /\ up # <<>> /\ Last(up) \in Poison
    BY <1>5, <2>1
  <2> QED BY <1>2, <1>5, <2>2, LastOfConcat
<1>13. StreamIsWhole'
  <2>1. consumed \in Payload /\ got \in Payload /\ left \in Payload
    BY <1>2, <1>3
  <2>2. (consumed \o got) \o left = consumed \o (got \o left)
    BY <2>1, ConcatAssociative DEF Payload
  <2>3. (consumed \o got) \o left = consumed \o line
    BY <1>3, <2>2
  <2> QED BY <1>1, <1>9, <2>3 DEF IInv, StreamIsWhole, Expected
<1> QED BY <1>7, <1>10, <1>11, <1>12, <1>13 DEF IInv

LEMMA StutterInv == ASSUME IInv, UNCHANGED vars PROVE IInv'
<1>1. UNCHANGED <<parser, sent, line, consumed, buffer, frames, errors, partial>>
  BY DEF vars
<1>2. TypeOK'
  BY <1>1 DEF IInv, TypeOK
<1>3. BufferHoldsRest' /\ ReadsAsOneStream' /\ HeldBackOnlyBehindPoison'
  BY <1>1, SameParse
<1>5. StreamIsWhole'
  BY <1>1, SameReading DEF IInv, StreamIsWhole, Expected
<1> QED BY <1>2, <1>3, <1>5 DEF IInv

\* Three parts of a sequence: what is before an element, the element, what is behind.
LEMMA ThreeParts ==
  ASSUME NEW s \in Payload, NEW i \in 1 .. Len(s)
  PROVE  /\ SubSeq(s, 1, i - 1) \in Payload /\ SubSeq(s, i + 1, Len(s)) \in Payload
         /\ s = Cat(Add(SubSeq(s, 1, i - 1), s[i]), SubSeq(s, i + 1, Len(s)))
<1>1. Len(s) \in Nat /\ \A k \in 1 .. Len(s) : s[k] \in Octets
  BY LenProperties, ElementOfSeq DEF Payload
<1>2. SubSeq(s, 1, i - 1) \in Payload
  BY <1>1, SubSeqProperties, \A k \in 1 .. i - 1 : k \in 1 .. Len(s), i - 1 \in Int DEF Payload
<1>3. SubSeq(s, i + 1, Len(s)) \in Payload
  BY <1>1, SubSeqProperties, \A k \in i + 1 .. Len(s) : k \in 1 .. Len(s), i + 1 \in Int DEF Payload
<1>4. SubSeq(s, 1, i) = SubSeq(s, 1, i - 1) \o <<s[i]>>
  <2>1. 1 \in 1 .. Len(s) /\ i \in 1 .. Len(s)
    BY <1>1
  <2> QED BY <2>1, SubSeqRecursiveSecond DEF Payload
<1>5. SubSeq(s, 1, i) = Add(SubSeq(s, 1, i - 1), s[i])
  BY <1>1, <1>2, <1>4, AppendIsConcat DEF Payload, Add
<1>6. SubSeq(s, 1, i) \o SubSeq(s, i + 1, Len(s)) = SubSeq(s, 1, Len(s))
  <2>1. 1 \in 1 .. Len(s) + 1 /\ i \in 1 - 1 .. Len(s) /\ Len(s) \in i .. Len(s)
    BY <1>1
  <2> QED BY <2>1, ConcatAdjacentSubSeq DEF Payload
<1>7. SubSeq(s, 1, Len(s)) = s
  BY SubSeqFull DEF Payload
<1> QED BY <1>2, <1>3, <1>5, <1>6, <1>7 DEF Cat

LEMMA Replaced ==
  ASSUME NEW s \in Payload, NEW i \in 1 .. Len(s), NEW p \in Octets
  PROVE  [s EXCEPT ![i] = p] = Cat(Cat(SubSeq(s, 1, i - 1), <<p>>), SubSeq(s, i + 1, Len(s)))
<1> DEFINE t == [s EXCEPT ![i] = p]
           n == Len(s)
<1>1. n \in Nat /\ \A k \in 1 .. n : s[k] \in Octets
  BY LenProperties, ElementOfSeq DEF Payload
<1>2. t \in Payload /\ Len(t) = n /\ t[i] = p /\ \A k \in 1 .. n : k # i => t[k] = s[k]
  BY ExceptSeq, <1>1 DEF Payload
<1> HIDE DEF t, n
<1>3. i \in 1 .. n /\ n = Len(s) /\ \A k \in 1 .. n : t[k] \in Octets
  BY <1>2, ElementOfSeq DEF n, Payload
<1>4. SubSeq(t, 1, i - 1) = SubSeq(s, 1, i - 1)
  <2> DEFINE u == SubSeq(t, 1, i - 1)
             v == SubSeq(s, 1, i - 1)
  <2>1. (\A k \in 1 .. i - 1 : k \in 1 .. n /\ k # i) /\ i - 1 \in Int
    BY <1>1, <1>3
  <2>2. /\ u \in Seq(Octets) /\ Len(u) = IF 1 <= i - 1 THEN (i - 1) - 1 + 1 ELSE 0
        /\ \A k \in 1 .. (i - 1) - 1 + 1 : u[k] = t[1 + k - 1]
    BY <1>3, <2>1, SubSeqProperties
  <2>3. /\ v \in Seq(Octets) /\ Len(v) = IF 1 <= i - 1 THEN (i - 1) - 1 + 1 ELSE 0
        /\ \A k \in 1 .. (i - 1) - 1 + 1 : v[k] = s[1 + k - 1]
    BY <1>1, <2>1, SubSeqProperties
  <2> HIDE DEF u, v
  <2>4. Len(u) = Len(v) /\ \A k \in 1 .. Len(u) : u[k] = v[k]
    BY <1>1, <1>2, <1>3, <2>1, <2>2, <2>3
  <2>5. u = v
    BY <2>2, <2>3, <2>4, SeqEqual
  <2> QED BY <2>5 DEF u, v
<1>5. SubSeq(t, i + 1, Len(t)) = SubSeq(s, i + 1, Len(s))
  <2> DEFINE u == SubSeq(t, i + 1, n)
             v == SubSeq(s, i + 1, n)
  <2>1. (\A k \in i + 1 .. n : k \in 1 .. n /\ k # i) /\ i + 1 \in Int /\ n \in Int
    BY <1>1, <1>3
  <2>2. /\ u \in Seq(Octets) /\ Len(u) = IF i + 1 <= n THEN n - (i + 1) + 1 ELSE 0
        /\ \A k \in 1 .. n - (i + 1) + 1 : u[k] = t[(i + 1) + k - 1]
    BY <1>3, <2>1, SubSeqProperties
  <2>3. /\ v \in Seq(Octets) /\ Len(v) = IF i + 1 <= n THEN n - (i + 1) + 1 ELSE 0
        /\ \A k \in 1 .. n - (i + 1) + 1 : v[k] = s[(i + 1) + k - 1]
    BY <1>1, <2>1, SubSeqProperties
  <2> HIDE DEF u, v
  <2>4. Len(u) = Len(v) /\ \A k \in 1 .. Len(u) : u[k] = v[k]
    <3>1. Len(u) = Len(v) /\ \A k \in 1 .. Len(u) : k \in 1 .. n - (i + 1) + 1
      BY <1>1, <1>3, <2>2, <2>3
    <3>2. \A k \in 1 .. n - (i + 1) + 1 : (i + 1) + k - 1 \in i + 1 .. n
      BY <1>1, <1>3
    <3>3. \A k \in 1 .. n - (i + 1) + 1 : t[(i + 1) + k - 1] = s[(i + 1) + k - 1]
      BY <1>2, <2>1, <3>2
    <3>4. \A k \in 1 .. n - (i + 1) + 1 : u[k] = v[k]
      BY <2>2, <2>3, <3>3
    <3> QED BY <3>1, <3>4
  <2>5. u = v
    BY <2>2, <2>3, <2>4, SeqEqual
  <2> QED BY <1>2, <1>3, <2>5 DEF u, v
<1>6. t = Cat(Add(SubSeq(s, 1, i - 1), p), SubSeq(s, i + 1, Len(s)))
  <2>1. i \in 1 .. Len(t)
    BY <1>2, <1>3
  <2>2. t = Cat(Add(SubSeq(t, 1, i - 1), t[i]), SubSeq(t, i + 1, Len(t)))
    BY <1>2, <2>1, ThreeParts
  <2> DEFINE u == SubSeq(t, 1, i - 1)
             v == SubSeq(t, i + 1, Len(t))
  <2>3. t = Cat(Add(u, p), v) /\ u = SubSeq(s, 1, i - 1) /\ v = SubSeq(s, i + 1, Len(s))
    BY <1>2, <1>4, <1>5, <2>2
  <2> HIDE DEF u, v
  <2> QED BY <2>3
<1>7. Add(SubSeq(s, 1, i - 1), p) = Cat(SubSeq(s, 1, i - 1), <<p>>)
  BY ThreeParts, AppendIsConcat DEF Payload, Add, Cat
<1> QED BY <1>6, <1>7 DEF t

\* The stream, read and on its way, is what was written but for a frame for each
\* error and one for the late start.
WornStream == <<consumed \o line, sent, errors + Start>> \in Worn

LEMMA SameWear == Worn' = Worn
  BY DEF Worn

LEMMA WornInit == Init => WornStream
<1> SUFFICES ASSUME Init PROVE WornStream
  OBVIOUS
<1>1. IInv
  BY InitInv
<1>2. consumed = <<>> /\ errors = 0 /\ line \in Payload /\ consumed \o line = line
  BY <1>1, Types, ConcatEmptySeq DEF IInv, Init, Payload
<1>3. CASE sent = <<>> /\ line = <<>> /\ partial = FALSE
  BY <1>2, <1>3, WornWears DEF WornStream, Start, Wears
<1>4. CASE \E d \in Payloads : sent = <<d>> /\ partial = TRUE
  <2>1. PICK d \in Payloads : sent = <<d>> /\ partial = TRUE
    BY <1>4
  <2>2. d \in Payload /\ <<>> \in Payload /\ <<>> \in Writes /\ Append(<<>>, d) = <<d>>
    BY PayloadsType, EmptySeq DEF Payload, Writes
  <2>3. <<consumed \o line, Append(<<>>, d), 0 + 1>> \in Worn
    BY <1>2, <2>2, WornWears DEF Wears
  <2>4. errors + Start = 0 + 1
    BY <1>2, <2>1 DEF Start
  <2> QED BY <2>1, <2>2, <2>3, <2>4 DEF WornStream
<1> QED BY <1>3, <1>4 DEF Init

LEMMA WornWrite == ASSUME IInv, WornStream, NEW d \in Payloads, Write(d) PROVE WornStream'
<1>1. sent' = Append(sent, d) /\ line' = line \o Encode(d) /\ UNCHANGED <<consumed, errors, partial>>
  BY DEF Write
<1>2. d \in Payload /\ line \in Payload /\ consumed \in Payload /\ sent \in Writes /\ errors + Start \in Nat
  BY Types, PayloadsType DEF IInv, TypeOK, Start
<1>3. Encode(d) \in Payload
  BY <1>2, EncodeType
<1>4. Cat(consumed, line) \in Payload
      /\ Cat(consumed, Cat(line, Encode(d))) = Cat(Cat(consumed, line), Encode(d))
  BY <1>2, <1>3, Cats
<1>5. <<Cat(consumed, line), sent, errors + Start>> \in Worn
  BY DEF WornStream, Cat
<1>6. <<Cat(consumed, Cat(line, Encode(d))), Append(sent, d), errors + Start>> \in Worn
  BY <1>2, <1>4, <1>5, WornCats
<1> QED BY <1>1, <1>6, SameWear DEF WornStream, Cat, Start

LEMMA WornDisturb == ASSUME IInv, WornStream, NEW i \in DOMAIN line, Disturb(i) PROVE WornStream'
<1>1. errors' = errors + 1 /\ UNCHANGED <<sent, consumed, partial>>
  BY DEF Disturb
<1>2. line \in Payload /\ consumed \in Payload /\ sent \in Writes /\ errors \in Nat /\ Start \in Nat
  BY Types DEF IInv, TypeOK, Start
<1>3. i \in 1 .. Len(line) /\ line[i] \in Octets
  BY <1>2, LenProperties, ElementOfSeq DEF Payload
<1> DEFINE a == SubSeq(line, 1, i - 1)
           b == SubSeq(line, i + 1, Len(line))
           o == line[i]
<1>4. a \in Payload /\ b \in Payload /\ line = Cat(Add(a, o), b) /\ o \in Octets
  BY <1>2, <1>3, ThreeParts
<1>5. \E m \in Payload : line' = Cat(Cat(a, m), b)
  <2>1. CASE \E p \in Noise \ {line[i]} : line' = [line EXCEPT ![i] = p]
    <3>1. PICK p \in Noise : line' = [line EXCEPT ![i] = p]
      BY <2>1
    <3>2. p \in Octets
      BY OctetsAssumption DEF Octets
    <3>3. <<p>> \in Payload
      BY <3>2 DEF Payload
    <3> QED BY <1>2, <1>3, <3>1, <3>2, <3>3, Replaced
  <2>2. CASE line' = RemoveAt(line, i)
    <3>1. line' = Cat(Cat(a, <<>>), b)
      <4>1. line' = Cat(a, b)
        BY <2>2 DEF RemoveAt, Cat
      <4> HIDE DEF a, b
      <4> QED BY <1>4, <4>1, Cats
    <3> QED BY <3>1, Cats
  <2> QED BY <2>1, <2>2 DEF Disturb
<1> HIDE DEF a, b, o
<1>6. PICK m \in Payload : line' = Cat(Cat(a, m), b)
  BY <1>5
<1> DEFINE c == Cat(consumed, a)
<1>7. Cat(consumed, line) \in Payload /\ c \in Payload /\ Cat(consumed, line) = Cat(Add(c, o), b)
  <2>1. Add(a, o) \in Payload /\ c \in Payload /\ Cat(consumed, line) \in Payload
    BY <1>2, <1>4, Cats
  <2>2. Cat(consumed, Cat(Add(a, o), b)) = Cat(Cat(consumed, Add(a, o)), b)
    BY <1>2, <1>4, <2>1, Cats
  <2>3. Cat(consumed, Add(a, o)) = Add(c, o)
    BY <1>2, <1>4, Cats
  <2> QED BY <1>4, <2>1, <2>2, <2>3
<1>8. Cat(consumed, Cat(Cat(a, m), b)) = Cat(Cat(c, m), b)
  <2>1. Cat(a, m) \in Payload
    BY <1>4, Cats
  <2>2. Cat(consumed, Cat(Cat(a, m), b)) = Cat(Cat(consumed, Cat(a, m)), b)
    BY <1>2, <1>4, <2>1, Cats
  <2>3. Cat(consumed, Cat(a, m)) = Cat(c, m)
    BY <1>2, <1>4, Cats
  <2> QED BY <2>2, <2>3
<1> HIDE DEF c
<1>9. Wear(Cat(consumed, line), sent, errors + Start)
  <2>1. <<Cat(consumed, line), sent, errors + Start>> \in Worn
    BY DEF WornStream, Cat
  <2>2. errors + Start \in Nat
    BY <1>2
  <2> QED BY <1>2, <1>7, <2>1, <2>2, WornMore
<1>10. <<Cat(Cat(c, m), b), sent, (errors + Start) + 1>> \in Worn
  BY <1>4, <1>7, <1>9 DEF Wear
<1>11. (errors + Start) + 1 = (errors + 1) + Start /\ Start' = Start
  BY <1>1, <1>2 DEF Start
<1>12. (consumed \o line)' = Cat(Cat(c, m), b)
  BY <1>1, <1>6, <1>8 DEF Cat
<1> QED BY <1>1, <1>10, <1>11, <1>12, SameWear DEF WornStream

LEMMA WornRead == ASSUME IInv, WornStream, NEW n \in DOMAIN line, Read(n) PROVE WornStream'
<1> DEFINE got == SubSeq(line, 1, n)
           left == SubSeq(line, n + 1, Len(line))
<1>1. line' = left /\ consumed' = Cat(consumed, got) /\ UNCHANGED <<sent, errors, partial>>
  BY DEF Read, Cat
<1>2. line \in Payload /\ consumed \in Payload
  BY Types DEF IInv
<1>3. Len(line) \in Nat /\ n \in 1 .. Len(line) /\ \A k \in 1 .. Len(line) : line[k] \in Octets
  BY <1>2, LenProperties, ElementOfSeq DEF Payload
<1>4. got \in Payload
  BY <1>3, SubSeqProperties, \A k \in 1 .. n : k \in 1 .. Len(line) DEF Payload
<1>5. left \in Payload
  BY <1>3, SubSeqProperties, \A k \in n + 1 .. Len(line) : k \in 1 .. Len(line), n + 1 \in Int DEF Payload
<1>6. Cat(got, left) = line
  <2>1. got \o left = SubSeq(line, 1, Len(line))
    BY <1>2, <1>3, ConcatAdjacentSubSeq, 1 \in 1 .. Len(line) + 1, n \in 1 - 1 .. Len(line), Len(line) \in n .. Len(line)
    DEF Payload
  <2> QED BY <1>2, <2>1, SubSeqFull DEF Payload, Cat
<1> HIDE DEF got, left
<1>7. Cat(Cat(consumed, got), left) = Cat(consumed, line)
  BY <1>2, <1>4, <1>5, <1>6, Cats
<1>8. (consumed \o line)' = consumed \o line
  BY <1>1, <1>7 DEF Cat
<1> QED BY <1>1, <1>8, SameWear DEF WornStream, Start

LEMMA WornStutter == ASSUME WornStream, UNCHANGED vars PROVE WornStream'
  BY SameWear DEF WornStream, vars, Start

\* The bookkeeping: what was read reads as what was handed up and what the buffer
\* holds, and the whole stream as what was written, unless the line has changed it
\* (parse_frames_from_bytes_into, data_received).
THEOREM Bookkeeping == Spec => []IInv
<1>1. IInv /\ [Next]_vars => IInv'
  <2> SUFFICES ASSUME IInv, [Next]_vars PROVE IInv'
    OBVIOUS
  <2>1. CASE Next
    BY <2>1, WriteInv, DisturbInv, ReadInv DEF Next
  <2>2. CASE UNCHANGED vars
    BY <2>2, StutterInv
  <2> QED BY <2>1, <2>2
<1> QED BY <1>1, InitInv, PTL DEF Spec

\* However the reads cut the stream, the frames are those of the whole stream, for
\* any payloads, noise and number of errors, in both stacks (spinel.rs:176,
\* spinel.py:71).
THEOREM OneStream == Spec => []ReadsAsOneStream
<1>1. IInv => ReadsAsOneStream
  BY DEF IInv
<1> QED BY <1>1, Bookkeeping, PTL

\* No complete frame waits in the buffer, but in Python behind one whose handling
\* raised (spinel.py:71).
THEOREM OnlyPoisonHolds == Spec => []HeldBackOnlyBehindPoison
<1>1. IInv => HeldBackOnlyBehindPoison
  BY DEF IInv
<1> QED BY <1>1, Bookkeeping, PTL

\* Without errors every frame written comes out, once and in order, whatever its
\* octets (HdlcLiteFrame, HDLCLiteFrame).
THEOREM CleanLine == Spec => []CleanLineDelivers
<1>1. IInv => CleanLineDelivers
  <2> SUFFICES ASSUME IInv, errors = 0, ~partial
               PROVE  frames \o Reference(buffer \o line).frames = Expected
    BY DEF CleanLineDelivers
  <2>1. Reference(consumed \o line) = [body |-> <<>>, frames |-> Expected]
    BY DEF IInv, StreamIsWhole
  <2>2. Reference(consumed \o line).frames = Expected
    BY <2>1
  <2>3. Reference(consumed \o line).frames = frames \o Reference(buffer \o line).frames
    <3>1. GoesOn(consumed, buffer, frames)
      BY DEF IInv, BufferHoldsRest, ReadsAsOneStream, GoesOn
    <3>2. GoesOn(consumed \o line, buffer \o line, frames)
      BY <3>1, Types, ReadOn DEF IInv
    <3> QED BY <3>2 DEF GoesOn
  <2> QED BY <2>2, <2>3
<1> QED BY <1>1, Bookkeeping, PTL

LEMMA Wearing == Spec => []WornStream
<1>1. IInv /\ WornStream /\ [Next]_vars => WornStream'
  <2> SUFFICES ASSUME IInv, WornStream, [Next]_vars PROVE WornStream'
    OBVIOUS
  <2>1. CASE Next
    BY <2>1, WornWrite, WornDisturb, WornRead DEF Next
  <2>2. CASE UNCHANGED vars
    BY <2>2, WornStutter
  <2> QED BY <2>1, <2>2
<1> QED BY <1>1, WornInit, Bookkeeping, PTL DEF Spec

\* Each error, and a late start, costs one frame at most, however many there are and
\* wherever they fall: the flags on both sides of a frame keep an error from its
\* neighbours (HdlcLiteFrame, HDLCLiteFrame).
THEOREM Resynchronises == Spec => []OneFramePerError
<1>1. IInv /\ WornStream => OneFramePerError
  <2> SUFFICES ASSUME IInv, WornStream, line = <<>>, Flag \notin ToSet(buffer)
               PROVE  Len(frames) >= Len(Expected) - errors - Start
    BY DEF OneFramePerError
  <2>1. /\ consumed \in Payload /\ buffer \in Payload /\ frames \in Seq(Payload) /\ sent \in Writes
        /\ errors \in Nat /\ Start \in Nat
    BY Types DEF IInv, TypeOK, Start
  <2>2. consumed \o line = consumed
    BY <2>1, ConcatEmptySeq DEF Payload
  <2>3. Reference(buffer).frames = <<>>
    <3>1. NoFlag(buffer) /\ <<>> \in Payload /\ <<>> \o buffer = buffer
      BY <2>1, LenProperties, EmptySeq, ConcatEmptySeq DEF ToSet, NoFlag, Payload
    <3>2. Reference(<<>> \o buffer) = [body |-> Reference(<<>>).body \o buffer, frames |-> Reference(<<>>).frames]
      BY <2>1, <3>1, FlaglessReading
    <3>3. Reference(<<>> \o buffer).frames = Reference(<<>>).frames
      BY <3>2
    <3> QED BY <3>1, <3>3, ReferenceStep DEF Nothing
  <2>4. Reference(consumed).frames = frames
    BY <2>1, <2>3, ConcatEmptySeq DEF IInv, ReadsAsOneStream
  <2>5. Len(Kept(sent)) <= Len(frames) + (errors + Start)
    BY <2>2, <2>4, WornReading DEF WornStream
  <2>6. Len(frames) \in Nat /\ Len(Kept(sent)) \in Nat
    BY <2>1, KeptType, LenProperties DEF Writes
  <2> QED BY <2>1, <2>5, <2>6 DEF Expected
<1> QED BY <1>1, Bookkeeping, Wearing, PTL
===============================================================================
