---------------------------- MODULE Sequences_proofs ----------------------------
(*****************************************************************************)
(* Lemmas about sequences and the folds of the community modules, which the  *)
(* proofs about the codecs share: induction on a number and on a sequence,   *)
(* over sets, from the minimum of a well-founded order; the function that a  *)
(* fold applies to the set of indices; concatenation; numbers of two octets, *)
(* and what is written and read field after field.                           *)
(*****************************************************************************)
EXTENDS ZigbeeTypes, WellFoundedInduction, SequenceTheorems, TLAPS
-------------------------------------------------------------------------------
(* Induction, and what a fold computes.                                    *)

\* The set of the numbers that have a property is all of them if it has zero
\* and every successor.
LEMMA SetInduction ==
  ASSUME NEW S, 0 \in S, \A n \in Nat : n \in S => n + 1 \in S
  PROVE  Nat \subseteq S
<1> DEFINE R == OpToRel(<, Nat)
           T == Nat \ S
<1> SUFFICES ASSUME T # {} PROVE FALSE
  OBVIOUS
<1>1. PICK x \in T : \A y \in T : ~ (<<y, x>> \in R)
  <2>1. IsWellFoundedOn(R, Nat)
    BY NatLessThanWellFounded
  <2> HIDE DEF R
  <2>2. T \subseteq Nat
    OBVIOUS
  <2> QED BY <2>1, <2>2, WFMin
<1>2. x # 0 /\ x \in Nat /\ x - 1 \in Nat /\ (x - 1) + 1 = x
  OBVIOUS
<1>3. x - 1 \in T
  BY <1>2
<1>4. <<x - 1, x>> \in R
  BY <1>2 DEF OpToRel
<1> QED BY <1>1, <1>3, <1>4

LEMMA MaxProperties ==
  ASSUME NEW n \in Nat, NEW S \in SUBSET (1 .. n), S # {}
  PROVE  Max(S) \in S /\ \A y \in S : Max(S) >= y
<1> DEFINE P == {k \in Nat : \A T \in SUBSET (1 .. k) : T # {} => \E x \in T : \A y \in T : x >= y}
<1>1. 0 \in P
  <2>1. 1 .. 0 = {}
    OBVIOUS
  <2> QED BY <2>1
<1>2. ASSUME NEW k \in Nat, k \in P PROVE k + 1 \in P
  <2> SUFFICES ASSUME NEW T \in SUBSET (1 .. k + 1), T # {}
               PROVE  \E x \in T : \A y \in T : x >= y
    OBVIOUS
  <2>1. CASE k + 1 \in T
    BY <2>1
  <2>2. CASE k + 1 \notin T
    <3>1. T \in SUBSET (1 .. k)
      BY <2>2
    <3> QED BY <1>2, <3>1
  <2> QED BY <2>1, <2>2
<1> HIDE DEF P
<1>3. n \in P
  BY <1>1, <1>2, SetInduction
<1>4. \E x \in S : \A y \in S : x >= y
  BY <1>3 DEF P
<1> QED BY <1>4 DEF Max

\* A fold takes the elements out of the set of indices from the last to the
\* first: the function that it applies to the set exists.
Iteration(it, A, base, n, step) ==
    /\ it \in [SUBSET (1 .. n) -> A]
    /\ \A S \in SUBSET (1 .. n) :
          it[S] = IF S = {} THEN base ELSE step[<<it[S \ {Max(S)}], Max(S)>>]

LEMMA FoldExists ==
  ASSUME NEW A, NEW base \in A, NEW n \in Nat, NEW step \in [A \X (1 .. n) -> A]
  PROVE  \E it : Iteration(it, A, base, n, step)
<1> DEFINE Good(it, k) ==
             \A S \in SUBSET (1 .. k) :
               it[S] = IF S = {} THEN base ELSE step[<<it[S \ {Max(S)}], Max(S)>>]
           Maps(k) == [SUBSET (1 .. k) -> A]
           P == {k \in Nat : k <= n => \E it \in Maps(k) : Good(it, k)}
<1>1. 0 \in P
  <2> DEFINE it == [S \in SUBSET (1 .. 0) |-> base]
  <2>1. \A S \in SUBSET (1 .. 0) : S = {}
    OBVIOUS
  <2>2. it \in Maps(0) /\ Good(it, 0)
    BY <2>1
  <2> HIDE DEF Good, Maps, it
  <2>3. \E i \in Maps(0) : Good(i, 0)
    BY <2>2
  <2> QED BY <2>3
<1>2. ASSUME NEW k \in Nat, k \in P PROVE k + 1 \in P
  <2> HIDE DEF Good, Maps
  <2> SUFFICES ASSUME k + 1 <= n
               PROVE  \E it \in Maps(k + 1) : Good(it, k + 1)
    OBVIOUS
  <2>0. k <= n /\ k + 1 \in 1 .. n
    OBVIOUS
  <2>1. PICK i \in Maps(k) : Good(i, k)
    BY <1>2, <2>0
  <2> DEFINE it == [S \in SUBSET (1 .. k + 1) |->
                        IF S \in SUBSET (1 .. k) THEN i[S] ELSE step[<<i[S \ {k + 1}], k + 1>>]]
  <2>2. \A S \in SUBSET (1 .. k + 1) : S \ {k + 1} \in SUBSET (1 .. k)
    OBVIOUS
  <2>3. it \in Maps(k + 1)
    <3> SUFFICES ASSUME NEW S \in SUBSET (1 .. k + 1) PROVE it[S] \in A
      BY DEF Maps
    <3>1. i[S \ {k + 1}] \in A /\ (S \in SUBSET (1 .. k) => i[S] \in A)
      BY <2>1, <2>2 DEF Maps
    <3>2. step[<<i[S \ {k + 1}], k + 1>>] \in A
      BY <2>0, <3>1
    <3> QED BY <3>1, <3>2
  <2>4. ASSUME NEW S \in SUBSET (1 .. k + 1)
        PROVE  it[S] = IF S = {} THEN base ELSE step[<<it[S \ {Max(S)}], Max(S)>>]
    <3>1. CASE S \in SUBSET (1 .. k)
      <4>1. S \ {Max(S)} \in SUBSET (1 .. k) /\ S \ {Max(S)} \in SUBSET (1 .. k + 1)
        BY <3>1
      <4>2. it[S] = i[S] /\ it[S \ {Max(S)}] = i[S \ {Max(S)}]
        BY <3>1, <4>1
      <4>3. i[S] = IF S = {} THEN base ELSE step[<<i[S \ {Max(S)}], Max(S)>>]
        BY <2>1, <3>1 DEF Good
      <4> QED BY <4>2, <4>3
    <3>2. CASE S \notin SUBSET (1 .. k)
      <4>1. k + 1 \in S
        BY <3>2
      <4>2. Max(S) \in S /\ Max(S) >= k + 1 /\ Max(S) \in 1 .. k + 1
        BY <4>1, MaxProperties, k + 1 \in Nat
      <4>3. Max(S) = k + 1
        BY <4>2
      <4>4. it[S \ {k + 1}] = i[S \ {k + 1}]
        BY <2>2
      <4> QED BY <3>2, <4>1, <4>3, <4>4
    <3> QED BY <3>1, <3>2
  <2>5. Good(it, k + 1)
    BY <2>4 DEF Good
  <2> HIDE DEF it
  <2> QED BY <2>3, <2>5
<1> HIDE DEF P, Good, Maps
<1>3. n \in P
  BY <1>1, <1>2, SetInduction
<1>4. \E it \in Maps(n) : Good(it, n)
  BY <1>3 DEF P
<1> QED BY <1>4 DEF Good, Maps, Iteration

\* The steps of the fold, in the order of the sequence.
LEMMA FirstIndices ==
  ASSUME NEW n \in Nat, NEW k \in 1 .. n
  PROVE  /\ 1 .. k \in SUBSET (1 .. n) /\ 1 .. k # {}
         /\ Max(1 .. k) = k
         /\ (1 .. k) \ {k} = 1 .. (k - 1)
<1>1. k \in Nat /\ 1 .. k # {} /\ k \in 1 .. k /\ 1 .. k \in SUBSET (1 .. n)
  OBVIOUS
<1>2. Max(1 .. k) \in 1 .. k /\ Max(1 .. k) >= k
  BY <1>1, MaxProperties
<1>3. Max(1 .. k) = k
  BY <1>2
<1>4. (1 .. k) \ {k} = 1 .. (k - 1)
  OBVIOUS
<1> QED BY <1>1, <1>3, <1>4

\* Two runs of the same steps are the same run.
LEMMA RunsAgree ==
  ASSUME NEW n \in Nat, NEW r, NEW q, r[0] = q[0],
         \A k \in 1 .. n : r[k - 1] = q[k - 1] => r[k] = q[k]
  PROVE  r[n] = q[n]
<1> DEFINE P == {k \in Nat : k <= n => r[k] = q[k]}
<1>1. 0 \in P
  OBVIOUS
<1>2. ASSUME NEW k \in Nat, k \in P PROVE k + 1 \in P
  BY <1>2, (k + 1) - 1 = k
<1> HIDE DEF P
<1>3. n \in P
  BY <1>1, <1>2, SetInduction
<1> QED BY <1>3 DEF P

\* Induction on a sequence, by its last element.
LEMMA SeqInduction ==
  ASSUME NEW T, NEW P, <<>> \in P,
         \A s \in Seq(T), e \in T : s \in P => Append(s, e) \in P
  PROVE  Seq(T) \subseteq P
<1> DEFINE Q == {k \in Nat : \A s \in Seq(T) : Len(s) = k => s \in P}
<1>1. 0 \in Q
  BY EmptySeq
<1>2. ASSUME NEW k \in Nat, k \in Q PROVE k + 1 \in Q
  <2> SUFFICES ASSUME NEW s \in Seq(T), Len(s) = k + 1 PROVE s \in P
    OBVIOUS
  <2>1. s # <<>>
    BY EmptySeq
  <2>2. PICK t \in Seq(T), e \in T : s = Append(t, e)
    BY <2>1, SequenceEmptyOrAppend
  <2>3. Len(t) \in Nat /\ Len(s) = Len(t) + 1
    BY <2>2, AppendProperties, LenProperties
  <2>4. t \in P
    BY <1>2, <2>3
  <2> QED BY <2>2, <2>4
<1> HIDE DEF Q
<1>3. \A k \in Nat : k \in Q
  BY <1>1, <1>2, SetInduction
<1>4. ASSUME NEW s \in Seq(T) PROVE s \in P
  BY <1>3, LenProperties DEF Q
<1> QED BY <1>4

LEMMA Pair ==
  ASSUME NEW S, NEW a \in S, NEW b \in S
  PROVE  <<a>> \in Seq(S) /\ <<b>> \in Seq(S) /\ <<a>> \o <<b>> = <<a, b>>
<1>1. <<a>> \in Seq(S) /\ <<b>> \in Seq(S) /\ <<a, b>> \in Seq(S)
  OBVIOUS
<1>2. Len(<<a>>) = 1 /\ Len(<<b>>) = 1 /\ Len(<<a, b>>) = 2
  OBVIOUS
<1>3. <<a>>[1] = a /\ <<b>>[1] = b /\ <<a, b>>[1] = a /\ <<a, b>>[2] = b
  OBVIOUS
<1> DEFINE c == <<a>> \o <<b>>
<1>4. c \in Seq(S) /\ Len(c) = 1 + 1 /\ \A i \in 1 .. 1 + 1 : c[i] = IF i <= 1 THEN <<a>>[i] ELSE <<b>>[i - 1]
  BY <1>1, <1>2, ConcatProperties
<1> HIDE DEF c
<1>5. Len(c) = 2 /\ c[1] = a /\ c[2] = b
  BY <1>3, <1>4
<1>6. \A i \in 1 .. Len(c) : c[i] = <<a, b>>[i]
  <2>1. \A i \in 1 .. Len(c) : i = 1 \/ i = 2
    BY <1>5
  <2> QED BY <1>3, <1>5, <2>1
<1>7. c = <<a, b>>
  BY <1>1, <1>2, <1>4, <1>5, <1>6, SeqEqual
<1> QED BY <1>1, <1>7 DEF c

LEMMA LastOfConcat ==
  ASSUME NEW S, NEW s \in Seq(S), NEW t \in Seq(S), t # <<>>
  PROVE  s \o t # <<>> /\ Last(s \o t) = Last(t)
<1> DEFINE m == Len(s)
           n == Len(t)
           c == s \o t
<1>1. m \in Nat /\ n \in Nat \ {0}
  BY LenProperties, EmptySeq
<1>2. Len(c) = m + n /\ \A i \in 1 .. m + n : c[i] = IF i <= m THEN s[i] ELSE t[i - m]
  BY ConcatProperties
<1>3. Len(<<>>) = 0
  OBVIOUS
<1> HIDE DEF m, n, c
<1>4. m + n \in 1 .. m + n /\ ~ (m + n <= m) /\ (m + n) - m = n /\ m + n # 0
  BY <1>1
<1>5. c[Len(c)] = t[n] /\ Len(c) # 0
  BY <1>2, <1>4
<1>6. c # <<>>
  BY <1>3, <1>5
<1> QED BY <1>5, <1>6 DEF Last, n, c

LEMMA ConcatAppend ==
  ASSUME NEW S, NEW s \in Seq(S), NEW t \in Seq(S), NEW e \in S
  PROVE  s \o Append(t, e) = Append(s \o t, e)
<1>1. Append(t, e) = t \o <<e>> /\ <<e>> \in Seq(S)
  BY AppendIsConcat
<1>2. Append(s \o t, e) = (s \o t) \o <<e>>
  BY ConcatProperties, AppendIsConcat
<1> QED BY <1>1, <1>2, ConcatAssociative

-------------------------------------------------------------------------------
(* Octets: numbers of two octets, and the parts of a sequence.            *)

\* A number of two octets, the low one first.
LEMMA LowTwo ==
  ASSUME NEW n \in Nat, n < 256 * 256
  PROVE  /\ LowFirst(n, 2) \in Seq(Octet) /\ Len(LowFirst(n, 2)) = 2
         /\ n = LowFirst(n, 2)[1] + 256 * LowFirst(n, 2)[2]
<1> DEFINE F(i) == (n \div 256^(i - 1)) % 256
           t == <<n % 256, n \div 256>>
<1>1. F(1) = n % 256 /\ F(2) = n \div 256
  <2>1. 256^(1 - 1) = 1 /\ 256^(2 - 1) = 256
    OBVIOUS
  <2>2. n \div 1 = n /\ n \div 256 \in 0 .. 255
    OBVIOUS
  <2>3. (n \div 256) % 256 = n \div 256
    BY <2>2
  <2> QED BY <2>1, <2>2, <2>3
<1>2. n % 256 \in Octet /\ n \div 256 \in Octet /\ n = (n % 256) + 256 * (n \div 256)
  BY DEF Octet
<1>3. t \in Seq(Octet) /\ Len(t) = 2 /\ DOMAIN t = 1 .. 2 /\ t[1] = n % 256 /\ t[2] = n \div 256
  BY <1>2
<1>4. LowFirst(n, 2) = [i \in 1 .. 2 |-> F(i)]
  BY DEF LowFirst
<1>5. t = [i \in 1 .. 2 |-> F(i)]
  <2> HIDE DEF F
  <2>1. \A i \in 1 .. 2 : i = 1 \/ i = 2
    OBVIOUS
  <2>2. \A i \in 1 .. 2 : t[i] = F(i)
    BY <1>1, <1>3, <2>1
  <2>3. t = [i \in 1 .. 2 |-> t[i]]
    BY <1>3
  <2> HIDE DEF t
  <2> QED BY <2>2, <2>3
<1> HIDE DEF t, F
<1>6. LowFirst(n, 2) = t
  BY <1>4, <1>5
<1> QED BY <1>2, <1>3, <1>6

\* The fold of Number over two octets.
LEMMA NumberOfTwo ==
  ASSUME NEW a \in Nat, NEW b \in Nat
  PROVE  Number(<<a, b>>) = a + 256 * b
<1> DEFINE s == <<a, b>>
           Is(it) == it = [S \in SUBSET {1, 2} |->
                             IF S = {} THEN 0 ELSE s[Min(S)] + 256 * it[S \ {Min(S)}]]
           w == [S \in SUBSET {1, 2} |->
                   IF S = {} THEN 0 ELSE IF S = {1} THEN a ELSE IF S = {2} THEN b ELSE a + 256 * b]
<1>1. Min({1, 2}) = 1 /\ Min({1}) = 1 /\ Min({2}) = 2
  BY DEF Min
<1>2. DOMAIN s = {1, 2} /\ s[1] = a /\ s[2] = b
  OBVIOUS
<1>3. \A S \in SUBSET {1, 2} : S = {} \/ S = {1} \/ S = {2} \/ S = {1, 2}
  OBVIOUS
<1>4. ASSUME NEW S \in SUBSET {1, 2}
      PROVE  w[S] = IF S = {} THEN 0 ELSE s[Min(S)] + 256 * w[S \ {Min(S)}]
  <2>1. {1} \ {1} = {} /\ {2} \ {2} = {} /\ {1, 2} \ {1} = {2}
    OBVIOUS
  <2>2. /\ w[{}] = 0 /\ w[{1}] = a /\ w[{2}] = b /\ w[{1, 2}] = a + 256 * b
    OBVIOUS
  <2> HIDE DEF w, s
  <2>3. CASE S = {}
    BY <2>2, <2>3
  <2>4. CASE S = {1}
    BY <1>1, <1>2, <2>1, <2>2, <2>4
  <2>5. CASE S = {2}
    BY <1>1, <1>2, <2>1, <2>2, <2>5
  <2>6. CASE S = {1, 2}
    BY <1>1, <1>2, <2>1, <2>2, <2>6
  <2> QED BY <1>3, <2>3, <2>4, <2>5, <2>6
<1>5. Is(w)
  <2>1. w = [S \in SUBSET {1, 2} |-> w[S]]
    OBVIOUS
  <2> HIDE DEF s, w
  <2> QED BY <1>4, <2>1
<1> DEFINE iter == CHOOSE it : Is(it)
<1>6. Is(iter)
  <2> HIDE DEF Is, w
  <2> QED BY <1>5
<1>7. Number(s) = iter[{1, 2}]
  <2> HIDE DEF s
  <2> QED BY <1>2 DEF Number, FoldRight, MapThenFoldSet
<1>8. iter[{}] = 0 /\ iter[{2}] = b + 256 * iter[{}] /\ iter[{1, 2}] = a + 256 * iter[{2}]
  <2> HIDE DEF iter
  <2>1. {2} \ {2} = {} /\ {1, 2} \ {1} = {2} /\ {} # {2} /\ {} # {1, 2}
    OBVIOUS
  <2>2. ASSUME NEW S \in SUBSET {1, 2}
        PROVE  iter[S] = IF S = {} THEN 0 ELSE s[Min(S)] + 256 * iter[S \ {Min(S)}]
    <3> HIDE DEF s
    <3> QED BY <1>6
  <2> HIDE DEF Is, s
  <2>3. iter[{}] = 0
    BY <2>2
  <2> DEFINE A == {2}
             B == {1, 2}
  <2>4. /\ A \in SUBSET {1, 2} /\ A # {} /\ Min(A) = 2 /\ A \ {2} = {}
        /\ B \in SUBSET {1, 2} /\ B # {} /\ Min(B) = 1 /\ B \ {1} = A
    BY <1>1, <2>1
  <2> HIDE DEF A, B
  <2>5. iter[A] = b + 256 * iter[{}]
    <3>1. iter[A] = s[Min(A)] + 256 * iter[A \ {Min(A)}]
      BY <2>2, <2>4
    <3>2. s[Min(A)] = b /\ A \ {Min(A)} = {}
      BY <1>2, <2>4
    <3> QED BY <3>1, <3>2
  <2>6. iter[B] = a + 256 * iter[A]
    BY <1>2, <2>2, <2>4
  <2> QED BY <2>3, <2>5, <2>6 DEF A, B
<1> QED BY <1>7, <1>8

\* The provers take sequences for functions and look at every element; behind a
\* name of its own a concatenation stays a term.
Cat(u, v) == u \o v

Begins(s, u) == Len(u) <= Len(s) /\ \A k \in 1 .. Len(u) : s[k] = u[k]

LEMMA CatOctets ==
  ASSUME NEW u \in Seq(Octet), NEW v \in Seq(Octet)
  PROVE  /\ Cat(u, v) \in Seq(Octet)
         /\ Len(Cat(u, v)) = Len(u) + Len(v)
         /\ \A k \in 1 .. Len(u) : Cat(u, v)[k] = u[k]
         /\ \A k \in 1 .. Len(v) : Cat(u, v)[Len(u) + k] = v[k]
<1> DEFINE m == Len(u)
           n == Len(v)
           s == u \o v
<1>1. m \in Nat /\ n \in Nat
  BY LenProperties
<1>2. s \in Seq(Octet) /\ Len(s) = m + n /\ \A k \in 1 .. m + n : s[k] = IF k <= m THEN u[k] ELSE v[k - m]
  BY ConcatProperties
<1> HIDE DEF m, n, s
<1>3. \A k \in 1 .. m : s[k] = u[k]
  <2>1. \A k \in 1 .. m : k \in 1 .. m + n /\ k <= m
    BY <1>1
  <2> QED BY <1>2, <2>1
<1>4. \A k \in 1 .. n : s[m + k] = v[k]
  <2>1. \A k \in 1 .. n : m + k \in 1 .. m + n /\ ~(m + k <= m) /\ (m + k) - m = k
    BY <1>1
  <2> QED BY <1>2, <2>1
<1> QED BY <1>2, <1>3, <1>4 DEF m, n, s, Cat

\* What was written field after field is read again by the lengths.
LEMMA Part ==
  ASSUME NEW s \in Seq(Octet), NEW u \in Seq(Octet), NEW v \in Seq(Octet), Begins(s, Cat(u, v))
  PROVE  Begins(s, u) /\ SubSeq(s, Len(u) + 1, Len(u) + Len(v)) = v
<1> DEFINE m == Len(u)
           n == Len(v)
           w == Cat(u, v)
           x == SubSeq(s, m + 1, m + n)
<1>1. m \in Nat /\ n \in Nat /\ Len(s) \in Nat
  BY LenProperties
<1>2. w \in Seq(Octet) /\ Len(w) = m + n /\ (\A k \in 1 .. m : w[k] = u[k]) /\ (\A k \in 1 .. n : w[m + k] = v[k])
  BY CatOctets
<1>3. Len(w) <= Len(s) /\ \A k \in 1 .. Len(w) : s[k] = w[k]
  BY DEF Begins
<1>4. \A k \in 1 .. Len(s) : s[k] \in Octet
  BY ElementOfSeq
<1>5. \A k \in 1 .. n : v[k] \in Octet
  BY ElementOfSeq
<1> HIDE DEF m, n, w
<1>6. Begins(s, u)
  <2>1. m <= Len(s) /\ \A k \in 1 .. m : k \in 1 .. m + n
    BY <1>1, <1>2, <1>3
  <2>2. \A k \in 1 .. m : s[k] = u[k]
    BY <1>2, <1>3, <2>1
  <2> QED BY <2>1, <2>2 DEF Begins, m
<1>7. x \in Seq(Octet) /\ Len(x) = n /\ \A k \in 1 .. n : x[k] = s[m + k]
  <2>1. /\ m + 1 \in Int /\ m + n \in Int /\ (IF m + 1 <= m + n THEN (m + n) - (m + 1) + 1 ELSE 0) = n
        /\ (m + n) - (m + 1) + 1 = n /\ \A k \in 1 .. n : m + 1 + k - 1 = m + k
    BY <1>1
  <2>2. \A k \in m + 1 .. m + n : s[k] \in Octet
    <3>1. \A k \in m + 1 .. m + n : k \in 1 .. Len(s)
      BY <1>1, <1>2, <1>3
    <3> QED BY <1>4, <3>1
  <2>3. /\ x \in Seq(Octet)
        /\ Len(x) = (IF m + 1 <= m + n THEN (m + n) - (m + 1) + 1 ELSE 0)
        /\ \A k \in 1 .. (m + n) - (m + 1) + 1 : x[k] = s[m + 1 + k - 1]
    BY <2>1, <2>2, SubSeqProperties
  <2> HIDE DEF x
  <2> QED BY <2>1, <2>3
<1> HIDE DEF x
<1>8. \A k \in 1 .. n : x[k] = v[k]
  <2>1. \A k \in 1 .. n : m + k \in 1 .. m + n
    BY <1>1
  <2> QED BY <1>2, <1>3, <1>7, <2>1
<1>9. x = v
  <2>1. Len(v) = n
    BY DEF n
  <2> QED BY <1>7, <1>8, <2>1, SeqEqual
<1> QED BY <1>6, <1>9 DEF x, m, n

\* What was read field after field is written again.
LEMMA Grow ==
  ASSUME NEW s \in Seq(Octet), NEW u \in Seq(Octet), Begins(s, u), NEW b \in Len(u) .. Len(s)
  PROVE  /\ SubSeq(s, Len(u) + 1, b) \in Seq(Octet)
         /\ Cat(u, SubSeq(s, Len(u) + 1, b)) \in Seq(Octet)
         /\ Len(Cat(u, SubSeq(s, Len(u) + 1, b))) = b
         /\ Begins(s, Cat(u, SubSeq(s, Len(u) + 1, b)))
<1> DEFINE m == Len(u)
           x == SubSeq(s, m + 1, b)
           w == Cat(u, x)
<1>1. m \in Nat /\ Len(s) \in Nat /\ b \in m .. Len(s) /\ \A k \in 1 .. Len(s) : s[k] \in Octet
  BY LenProperties, ElementOfSeq
<1>2. \A k \in 1 .. m : s[k] = u[k]
  BY DEF Begins
<1> HIDE DEF m
<1>3. x \in Seq(Octet) /\ Len(x) = b - m /\ \A k \in 1 .. b - m : x[k] = s[m + k]
  <2>1. /\ m + 1 \in Int /\ b \in Int /\ (IF m + 1 <= b THEN b - (m + 1) + 1 ELSE 0) = b - m
        /\ b - (m + 1) + 1 = b - m /\ \A k \in 1 .. b - m : m + 1 + k - 1 = m + k
    BY <1>1
  <2>2. \A k \in m + 1 .. b : s[k] \in Octet
    <3>1. \A k \in m + 1 .. b : k \in 1 .. Len(s)
      BY <1>1
    <3> QED BY <1>1, <3>1
  <2>3. /\ x \in Seq(Octet)
        /\ Len(x) = (IF m + 1 <= b THEN b - (m + 1) + 1 ELSE 0)
        /\ \A k \in 1 .. b - (m + 1) + 1 : x[k] = s[m + 1 + k - 1]
    BY <2>1, <2>2, SubSeqProperties
  <2> HIDE DEF x
  <2> QED BY <2>1, <2>3
<1> HIDE DEF x
<1>4. /\ w \in Seq(Octet) /\ Len(w) = m + Len(x) /\ (\A k \in 1 .. m : w[k] = u[k])
      /\ \A k \in 1 .. Len(x) : w[m + k] = x[k]
  BY <1>3, CatOctets DEF m
<1> HIDE DEF w
<1>5. Len(w) = b
  BY <1>1, <1>3, <1>4
<1>6. ASSUME NEW k \in 1 .. b PROVE s[k] = w[k]
  <2>1. CASE k <= m
    BY <1>1, <1>2, <1>4, <2>1
  <2>2. CASE k > m
    <3>1. k - m \in 1 .. b - m /\ m + (k - m) = k
      BY <1>1, <2>2
    <3>2. w[m + (k - m)] = x[k - m] /\ x[k - m] = s[m + (k - m)]
      BY <1>3, <1>4, <3>1
    <3> QED BY <3>1, <3>2
  <2> QED BY <1>1, <2>1, <2>2
<1>7. Begins(s, w)
  BY <1>1, <1>5, <1>6 DEF Begins
<1> QED BY <1>3, <1>4, <1>5, <1>7 DEF w, x, m

LEMMA BeginsAll ==
  ASSUME NEW s \in Seq(Octet), NEW u \in Seq(Octet), NEW v \in Seq(Octet),
         Begins(s, u), Begins(s, v), Len(u) = Len(v)
  PROVE  u = v
<1>1. \A k \in 1 .. Len(u) : u[k] = v[k]
  BY DEF Begins
<1> QED BY <1>1, SeqEqual

LEMMA BeginsSame ==
  ASSUME NEW s \in Seq(Octet), NEW d \in Seq(Octet), NEW u \in Seq(Octet),
         Begins(s, d), Begins(s, u), Len(u) <= Len(d)
  PROVE  Begins(d, u)
<1>1. \A k \in 1 .. Len(u) : k \in 1 .. Len(d)
  BY LenProperties
<1> QED BY <1>1 DEF Begins

\* The octets after the first a, up to the b-th.
Slice(s, a, b) == SubSeq(s, a + 1, b)

LEMMA PartSlice ==
  ASSUME NEW s \in Seq(Octet), NEW u \in Seq(Octet), NEW v \in Seq(Octet), Begins(s, Cat(u, v)),
         NEW a, Len(u) = a, NEW b, b = a + Len(v)
  PROVE  Begins(s, u) /\ Slice(s, a, b) = v
<1>1. Begins(s, u) /\ SubSeq(s, Len(u) + 1, Len(u) + Len(v)) = v
  BY Part
<1>2. Slice(s, a, b) = SubSeq(s, Len(u) + 1, Len(u) + Len(v))
  BY Zenon DEF Slice
<1> QED BY <1>1, <1>2

LEMMA GrowSlice ==
  ASSUME NEW s \in Seq(Octet), NEW u \in Seq(Octet), Begins(s, u), NEW a, Len(u) = a, NEW b \in a .. Len(s)
  PROVE  /\ Slice(s, a, b) \in Seq(Octet) /\ Cat(u, Slice(s, a, b)) \in Seq(Octet)
         /\ Len(Cat(u, Slice(s, a, b))) = b /\ Begins(s, Cat(u, Slice(s, a, b)))
<1> DEFINE x == SubSeq(s, Len(u) + 1, b)
<1>1. b \in Len(u) .. Len(s)
  BY Zenon
<1>2. x \in Seq(Octet) /\ Cat(u, x) \in Seq(Octet) /\ Len(Cat(u, x)) = b /\ Begins(s, Cat(u, x))
  BY <1>1, Grow
<1>3. Slice(s, a, b) = x
  BY Zenon DEF Slice
<1> QED BY <1>2, <1>3, Zenon

LEMMA SliceLength ==
  ASSUME NEW s \in Seq(Octet), NEW a \in Nat, NEW b \in a .. Len(s)
  PROVE  Slice(s, a, b) \in Seq(Octet) /\ Len(Slice(s, a, b)) = b - a
<1>1. Len(s) \in Nat /\ \A k \in 1 .. Len(s) : s[k] \in Octet
  BY LenProperties, ElementOfSeq
<1>2. a + 1 \in Int /\ b \in Int /\ (IF a + 1 <= b THEN b - (a + 1) + 1 ELSE 0) = b - a
  BY <1>1
<1>3. \A k \in a + 1 .. b : s[k] \in Octet
  <2>1. \A k \in a + 1 .. b : k \in 1 .. Len(s)
    BY <1>1
  <2> QED BY <1>1, <2>1
<1>4. /\ SubSeq(s, a + 1, b) \in Seq(Octet)
      /\ Len(SubSeq(s, a + 1, b)) = (IF a + 1 <= b THEN b - (a + 1) + 1 ELSE 0)
  BY <1>2, <1>3, SubSeqProperties
<1> QED BY <1>2, <1>4 DEF Slice
===============================================================================
