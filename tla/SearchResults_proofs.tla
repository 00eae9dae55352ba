------------------------- MODULE SearchResults_proofs -------------------------
(* The operators of SearchResults, for every set of items and size of the     *)
(* buffers: the texts of the paths and their order, the sorting of a buffer,  *)
(* the split into buffers, the merge of their readers and the two reductions. *)
(* They are folds, so that what is proved of them is proved along the steps   *)
(* of the fold.                                                               *)
EXTENDS SearchResults, TLAPS, FiniteSetTheorems, SequenceTheorems, WellFoundedInduction, NaturalsInduction

(* A set of numbers that is not empty has a first one.                        *)
LEMMA FirstOf ==
    ASSUME NEW S, S \subseteq Nat, S # {}
    PROVE  \E x \in S : x = 0 \/ (x - 1 \in Nat \ S)
<1>1. PICK x \in S : \A y \in S : ~(<<y, x>> \in OpToRel(<, Nat))
  BY WFMin, NatLessThanWellFounded
<1>2. CASE x # 0
  <2>1. x - 1 \in Nat /\ x - 1 < x /\ x \in Nat
    BY <1>2
  <2>2. <<x - 1, x>> \in OpToRel(<, Nat)
    BY <2>1 DEF OpToRel
  <2> QED BY <1>1, <2>1, <2>2
<1> QED BY <1>2

-----------------------------------------------------------------------------
(* Folds of sequences *)

(* Induction, for a set of numbers: what holds of 0, and of k + 1 whenever it *)
(* holds of k, holds up to n.                                                 *)
LEMMA UpTo ==
    ASSUME NEW n \in Nat, NEW S, 0 \in S, \A k \in 0 .. n - 1 : k \in S => k + 1 \in S
    PROVE  \A k \in 0 .. n : k \in S
<1> DEFINE Bad == {k \in 0 .. n : k \notin S}
<1>1. CASE Bad = {}
  BY <1>1
<1>2. CASE Bad # {}
  <2>0. Bad \subseteq Nat
    OBVIOUS
  <2>1. PICK k \in Bad : k = 0 \/ k - 1 \in Nat \ Bad
    <3> HIDE DEF Bad
    <3> QED BY <1>2, <2>0, FirstOf
  <2>2. k # 0 /\ k \in 0 .. n /\ k - 1 \in 0 .. n - 1 /\ k - 1 \in 0 .. n
    BY <2>1
  <2>3. k - 1 \in S
    BY <2>1, <2>2
  <2>4. (k - 1) + 1 \in S
    BY <2>2, <2>3
  <2> QED BY <2>1, <2>2, <2>4
<1> QED BY <1>1, <1>2

LEMMA MaxIn ==
    ASSUME NEW n \in Nat, NEW s \in SUBSET (1 .. n), s # {}
    PROVE  Max(s) \in s
<1> DEFINE S == {k \in 0 .. n : \A t \in SUBSET (1 .. k) : t # {} => \E x \in t : \A y \in t : x >= y}
<1>1. 0 \in S
  <2>1. \A t \in SUBSET (1 .. 0) : t = {}
    OBVIOUS
  <2>2. 0 \in 0 .. n
    OBVIOUS
  <2> QED BY <2>1, <2>2
<1>2. ASSUME NEW k \in 0 .. n - 1, k \in S PROVE k + 1 \in S
  <2>1. ASSUME NEW t \in SUBSET (1 .. k + 1), t # {} PROVE \E x \in t : \A y \in t : x >= y
    <3>1. CASE k + 1 \in t
      <4>1. \A y \in t : k + 1 >= y
        OBVIOUS
      <4> QED BY <3>1, <4>1
    <3>2. CASE k + 1 \notin t
      <4>1. t \in SUBSET (1 .. k)
        BY <3>2
      <4> QED BY <1>2, <2>1, <4>1
    <3> QED BY <3>1, <3>2
  <2>2. k + 1 \in 0 .. n
    OBVIOUS
  <2> QED BY <2>1, <2>2
<1>3. n \in S
  <2> HIDE DEF S
  <2>1. \A k \in 0 .. n : k \in S
    BY <1>1, <1>2, UpTo
  <2> QED BY <2>1
<1>4. \E x \in s : \A y \in s : x >= y
  BY <1>3
<1> QED BY <1>4 DEF Max

\* What a fold over n elements has for a set of them.
Folds(n, base, step, f) ==
    f = [s \in SUBSET (1 .. n) |-> IF s = {} THEN base ELSE step[f[s \ {Max(s)}], Max(s)]]

LEMMA MaxOf ==
    ASSUME NEW k \in Nat, NEW s, s \subseteq 1 .. k + 1, k + 1 \in s
    PROVE  Max(s) = k + 1
<1>1. \A y \in s : y \in Nat /\ k + 1 >= y
  OBVIOUS
<1>2. Max(s) \in s /\ \A y \in s : Max(s) >= y
  BY <1>1 DEF Max
<1>3. Max(s) \in Nat /\ k + 1 >= Max(s) /\ Max(s) >= k + 1
  BY <1>1, <1>2
<1> QED BY <1>3

(* The steps are a function here, which can be given to the provers.          *)
LEMMA FoldExists ==
    ASSUME NEW A, NEW base \in A, NEW n \in Nat, NEW step \in [A \X (1 .. n) -> A]
    PROVE  \E f \in [SUBSET (1 .. n) -> A] : Folds(n, base, step, f)
<1> DEFINE Up(k) == SUBSET (1 .. k)
           Is(k, f) == \A s \in Up(k) : f[s] = IF s = {} THEN base ELSE step[f[s \ {Max(s)}], Max(s)]
           S == {k \in 0 .. n : \E f \in [Up(k) -> A] : Is(k, f)}
<1>1. 0 \in S
  <2> DEFINE f == [s \in Up(0) |-> base]
  <2>1. f \in [Up(0) -> A]
    OBVIOUS
  <2>2. ASSUME NEW s \in Up(0) PROVE s = {} /\ f[s] = base
    OBVIOUS
  <2> HIDE DEF f
  <2>3. Is(0, f)
    BY <2>2
  <2> HIDE DEF Is
  <2>4. 0 \in 0 .. n
    OBVIOUS
  <2> QED BY <2>1, <2>3, <2>4
<1>2. ASSUME NEW k \in 0 .. n - 1, k \in S PROVE k + 1 \in S
  <2>1. PICK g \in [Up(k) -> A] : Is(k, g)
    BY <1>2
  <2> DEFINE f == [s \in Up(k + 1) |-> IF k + 1 \in s THEN step[g[s \ {k + 1}], k + 1] ELSE g[s]]
  <2>2. k \in Nat /\ k + 1 \in 1 .. n /\ k + 1 \in 0 .. n
    OBVIOUS
  <2>3. ASSUME NEW s \in Up(k + 1), k + 1 \notin s PROVE s \in Up(k)
    BY <2>2, <2>3
  <2>4. ASSUME NEW s \in Up(k + 1)
        PROVE  s \ {k + 1} \in Up(k) /\ s \ {k + 1} \in Up(k + 1)
    BY <2>2
  <2>5. ASSUME NEW s \in Up(k) PROVE s \in Up(k + 1) /\ k + 1 \notin s /\ f[s] = g[s]
    <3>1. s \in Up(k + 1)
      BY <2>2
    <3>2. k + 1 \notin s
      BY <2>2
    <3> QED BY <3>1, <3>2
  <2>6. f \in [Up(k + 1) -> A]
    <3>1. ASSUME NEW s \in Up(k + 1)
          PROVE  (IF k + 1 \in s THEN step[g[s \ {k + 1}], k + 1] ELSE g[s]) \in A
      <4>1. g[s \ {k + 1}] \in A
        BY <2>1, <2>4
      <4>2. step[g[s \ {k + 1}], k + 1] \in A
        BY <4>1, <2>2
      <4>3. k + 1 \notin s => g[s] \in A
        BY <2>3
      <4> QED BY <4>2, <4>3
    <3> QED BY <3>1
  <2>7. ASSUME NEW s \in Up(k + 1)
        PROVE  f[s] = IF s = {} THEN base ELSE step[f[s \ {Max(s)}], Max(s)]
    <3>1. CASE k + 1 \in s
      <4>1. Max(s) = k + 1
        BY <2>2, <3>1, MaxOf
      <4>2. f[s] = step[g[s \ {k + 1}], k + 1]
        BY <3>1
      <4>3. f[s \ {k + 1}] = g[s \ {k + 1}]
        BY <2>4, <2>5
      <4> HIDE DEF f
      <4> QED BY <3>1, <4>1, <4>2, <4>3
    <3>2. CASE k + 1 \notin s
      <4>1. s \in Up(k) /\ f[s] = g[s] /\ s \ {Max(s)} \in Up(k)
        BY <2>3, <2>5, <3>2
      <4>2. f[s \ {Max(s)}] = g[s \ {Max(s)}]
        BY <2>5, <4>1
      <4> HIDE DEF f
      <4> QED BY <2>1, <4>1, <4>2
    <3> QED BY <3>1, <3>2
  <2> HIDE DEF f
  <2>8. Is(k + 1, f)
    BY <2>7
  <2> QED BY <2>2, <2>6, <2>8
<1> HIDE DEF S
<1>3. n \in S
  <2>1. \A k \in 0 .. n : k \in S
    BY <1>1, <1>2, UpTo
  <2> QED BY <2>1
<1>4. PICK f \in [SUBSET (1 .. n) -> A] : Is(n, f)
  BY <1>3 DEF S
<1>5. f = [s \in SUBSET (1 .. n) |-> f[s]]
  OBVIOUS
<1>6. f = [s \in SUBSET (1 .. n) |-> IF s = {} THEN base ELSE step[f[s \ {Max(s)}], Max(s)]]
  BY <1>4, <1>5
<1> QED BY <1>6 DEF Folds

(* What a fold takes its elements from.                                       *)
LEMMA Intervals ==
    ASSUME NEW n \in Nat
    PROVE  /\ 1 .. 0 = {} /\ {} \in SUBSET (1 .. n) /\ 1 .. n \in SUBSET (1 .. n)
           /\ \A k \in 1 .. n : /\ 1 .. k \in SUBSET (1 .. n) /\ 1 .. k # {}
                                /\ Max(1 .. k) = k /\ (1 .. k) \ {k} = 1 .. k - 1
<1>1. ASSUME NEW k \in 1 .. n PROVE Max(1 .. k) = k
  <2>1. k - 1 \in Nat /\ (k - 1) + 1 = k
    OBVIOUS
  <2>2. (k - 1) + 1 \in 1 .. k /\ 1 .. k \subseteq 1 .. (k - 1) + 1
    BY <2>1
  <2>3. Max(1 .. k) = (k - 1) + 1
    BY <2>1, <2>2, MaxOf
  <2> QED BY <2>1, <2>3
<1>2. ASSUME NEW k \in 1 .. n
      PROVE  1 .. k \in SUBSET (1 .. n) /\ 1 .. k # {} /\ (1 .. k) \ {k} = 1 .. k - 1
  <2>1. 1 .. k \in SUBSET (1 .. n)
    OBVIOUS
  <2>2. k \in 1 .. k
    OBVIOUS
  <2>3. (1 .. k) \ {k} = 1 .. k - 1
    OBVIOUS
  <2> QED BY <2>1, <2>2, <2>3
<1> QED BY <1>1, <1>2

-----------------------------------------------------------------------------
(* Prefixes, and the order of texts                                           *)

LEMMA PrefixIs ==
    ASSUME NEW S, NEW s \in Seq(S), NEW t \in Seq(S)
    PROVE  IsPrefix(s, t) <=> Len(s) <= Len(t) /\ \A i \in 1 .. Len(s) : s[i] = t[i]
<1>1. Len(s) \in Nat /\ Len(t) \in Nat
  OBVIOUS
<1>2. ASSUME Len(s) <= Len(t)
      PROVE  SubSeq(s, 1, Len(s)) = SubSeq(t, 1, Len(s)) <=> \A i \in 1 .. Len(s) : s[i] = t[i]
  <2>1. /\ SubSeq(s, 1, Len(s)) \in Seq(S) /\ Len(SubSeq(s, 1, Len(s))) = Len(s)
        /\ \A i \in 1 .. Len(s) : SubSeq(s, 1, Len(s))[i] = s[i]
    OBVIOUS
  <2>2. /\ SubSeq(t, 1, Len(s)) \in Seq(S) /\ Len(SubSeq(t, 1, Len(s))) = Len(s)
        /\ \A i \in 1 .. Len(s) : SubSeq(t, 1, Len(s))[i] = t[i]
    BY <1>1, <1>2
  <2>3. ASSUME \A i \in 1 .. Len(s) : s[i] = t[i]
        PROVE  SubSeq(s, 1, Len(s)) = SubSeq(t, 1, Len(s))
    BY <2>1, <2>2, <2>3, SeqEqual
  <2> QED BY <2>1, <2>2, <2>3
<1> QED BY <1>2 DEF IsPrefix

LEMMA PrefixItself == ASSUME NEW S, NEW s \in Seq(S) PROVE IsPrefix(s, s)
BY PrefixIs

LEMMA PrefixTransitive ==
    ASSUME NEW S, NEW s \in Seq(S), NEW t \in Seq(S), NEW u \in Seq(S), IsPrefix(s, t), IsPrefix(t, u)
    PROVE  IsPrefix(s, u)
<1>1. Len(s) \in Nat /\ Len(t) \in Nat /\ Len(u) \in Nat
  OBVIOUS
<1>2. Len(s) <= Len(t) /\ \A i \in 1 .. Len(s) : s[i] = t[i]
  BY PrefixIs
<1>3. Len(t) <= Len(u) /\ \A i \in 1 .. Len(t) : t[i] = u[i]
  BY PrefixIs
<1>4. Len(s) <= Len(u) /\ \A i \in 1 .. Len(s) : s[i] = u[i]
  BY <1>1, <1>2, <1>3
<1> QED BY <1>4, PrefixIs

LEMMA PrefixBothWays ==
    ASSUME NEW S, NEW s \in Seq(S), NEW t \in Seq(S), IsPrefix(s, t), IsPrefix(t, s)
    PROVE  s = t
<1>1. Len(s) \in Nat /\ Len(t) \in Nat
  OBVIOUS
<1>2. Len(s) <= Len(t) /\ \A i \in 1 .. Len(s) : s[i] = t[i]
  BY PrefixIs
<1>3. Len(t) <= Len(s)
  BY PrefixIs
<1> QED BY <1>1, <1>2, <1>3, SeqEqual

\* Of two prefixes of a sequence the shorter one is a prefix of the other.
LEMMA PrefixesOf ==
    ASSUME NEW S, NEW s \in Seq(S), NEW t \in Seq(S), NEW u \in Seq(S),
           IsPrefix(s, u), IsPrefix(t, u), Len(s) <= Len(t)
    PROVE  IsPrefix(s, t)
<1>1. Len(s) \in Nat /\ Len(t) \in Nat
  OBVIOUS
<1>2. \A i \in 1 .. Len(s) : s[i] = u[i]
  BY PrefixIs
<1>3. \A i \in 1 .. Len(t) : t[i] = u[i]
  BY PrefixIs
<1>4. \A i \in 1 .. Len(s) : s[i] = t[i]
  BY <1>1, <1>2, <1>3
<1> QED BY <1>4, PrefixIs

LEMMA PrefixOfConcat ==
    ASSUME NEW S, NEW s \in Seq(S), NEW t \in Seq(S)
    PROVE  IsPrefix(s, s \o t)
<1>1. s \o t \in Seq(S) /\ Len(s) <= Len(s \o t) /\ \A i \in 1 .. Len(s) : s[i] = (s \o t)[i]
  OBVIOUS
<1> QED BY <1>1, PrefixIs

Texts == Seq(Nat)

\* Where s comes before t.
LessAt(s, t, n) ==
    /\ n < Len(t) /\ n <= Len(s)
    /\ \A i \in 1 .. n : s[i] = t[i]
    /\ n < Len(s) => s[n + 1] < t[n + 1]

LEMMA LessIs ==
    ASSUME NEW s \in Texts, NEW t \in Texts
    PROVE  Less(s, t) <=> \E n \in Nat : LessAt(s, t, n)
<1>1. Len(s) \in Nat /\ Len(t) \in Nat
  BY DEF Texts
<1>2. ASSUME NEW n \in Nat, n <= Len(t), n <= Len(s)
      PROVE  SubSeq(s, 1, n) = SubSeq(t, 1, n) <=> \A i \in 1 .. n : s[i] = t[i]
  <2>1. /\ SubSeq(s, 1, n) \in Seq(Nat) /\ Len(SubSeq(s, 1, n)) = n
        /\ \A i \in 1 .. n : SubSeq(s, 1, n)[i] = s[i]
    BY <1>1, <1>2 DEF Texts
  <2>2. /\ SubSeq(t, 1, n) \in Seq(Nat) /\ Len(SubSeq(t, 1, n)) = n
        /\ \A i \in 1 .. n : SubSeq(t, 1, n)[i] = t[i]
    BY <1>1, <1>2 DEF Texts
  <2>3. ASSUME \A i \in 1 .. n : s[i] = t[i] PROVE SubSeq(s, 1, n) = SubSeq(t, 1, n)
    BY <2>1, <2>2, <2>3, SeqEqual
  <2> QED BY <2>1, <2>2, <2>3
<1>3. ASSUME NEW n \in Nat, n < Len(t) PROVE n \in 0 .. Len(t) - 1 /\ n <= Len(t)
  BY <1>1, <1>3
<1>4. ASSUME NEW n \in 0 .. Len(t) - 1 PROVE n \in Nat /\ n < Len(t) /\ n <= Len(t)
  BY <1>1, <1>4
<1> QED BY <1>2, <1>3, <1>4 DEF Less, LessAt

LEMMA LessIrreflexive == ASSUME NEW s \in Texts PROVE ~Less(s, s)
<1>1. ASSUME NEW n \in Nat PROVE ~LessAt(s, s, n)
  <2>1. n < Len(s) => s[n + 1] \in Nat
    BY DEF Texts
  <2> QED BY <2>1 DEF LessAt
<1> QED BY <1>1, LessIs

LEMMA LessTransitive ==
    ASSUME NEW s \in Texts, NEW t \in Texts, NEW u \in Texts, Less(s, t), Less(t, u)
    PROVE  Less(s, u)
<1>1. PICK m \in Nat : LessAt(s, t, m)
  BY LessIs
<1>2. PICK n \in Nat : LessAt(t, u, n)
  BY LessIs
<1>3. Len(s) \in Nat /\ Len(t) \in Nat /\ Len(u) \in Nat
  BY DEF Texts
<1>4. /\ \A i \in 1 .. Len(s) : s[i] \in Nat
      /\ \A i \in 1 .. Len(t) : t[i] \in Nat
      /\ \A i \in 1 .. Len(u) : u[i] \in Nat
  BY DEF Texts
<1>5. CASE m < n
  <2>1. m < Len(u) /\ m <= Len(s) /\ \A i \in 1 .. m : s[i] = u[i]
    BY <1>1, <1>2, <1>3, <1>5 DEF LessAt
  <2>2. t[m + 1] = u[m + 1]
    BY <1>2, <1>5 DEF LessAt
  <2>3. LessAt(s, u, m)
    BY <1>1, <2>1, <2>2 DEF LessAt
  <2> QED BY <2>3, LessIs
<1>6. CASE m = n
  <2>1. m < Len(u) /\ m <= Len(s) /\ \A i \in 1 .. m : s[i] = u[i]
    BY <1>1, <1>2, <1>3, <1>6 DEF LessAt
  <2>2. m < Len(s) => s[m + 1] < t[m + 1] /\ t[m + 1] < u[m + 1]
    BY <1>1, <1>2, <1>6 DEF LessAt
  <2>3. m < Len(s) => s[m + 1] < u[m + 1]
    <3>1. m < Len(s) => m + 1 \in 1 .. Len(s) /\ m + 1 \in 1 .. Len(t) /\ m + 1 \in 1 .. Len(u)
      BY <1>1, <1>3, <2>1 DEF LessAt
    <3> QED BY <1>4, <2>2, <3>1
  <2>4. LessAt(s, u, m)
    BY <2>1, <2>3 DEF LessAt
  <2> QED BY <2>4, LessIs
<1>7. CASE n < m
  <2>1. n < Len(u) /\ n < Len(s) /\ n < Len(t) /\ \A i \in 1 .. n : s[i] = u[i]
    BY <1>1, <1>2, <1>3, <1>7 DEF LessAt
  <2>2. s[n + 1] = t[n + 1] /\ t[n + 1] < u[n + 1]
    BY <1>1, <1>2, <1>7, <2>1 DEF LessAt
  <2>3. LessAt(s, u, n)
    BY <2>1, <2>2 DEF LessAt
  <2> QED BY <2>3, LessIs
<1> QED BY <1>5, <1>6, <1>7

LEMMA LessTotal ==
    ASSUME NEW s \in Texts, NEW t \in Texts, s # t
    PROVE  Less(s, t) \/ Less(t, s)
<1>1. Len(s) \in Nat /\ Len(t) \in Nat
  BY DEF Texts
<1> DEFINE S == {n \in Nat : n >= Len(s) \/ n >= Len(t) \/ s[n + 1] # t[n + 1]}
<1>2. S \subseteq Nat /\ S # {}
  <2>1. Len(s) \in S
    BY <1>1
  <2> QED BY <2>1
<1> DEFINE Same == {n \in Nat : \A i \in 1 .. n : i - 1 \notin S}
<1>3. PICK n \in S : \A i \in 1 .. n : i - 1 \notin S
  <2>1. CASE \A n \in Nat : n \in Same
    <3>1. Len(s) + 1 \in Same
      BY <1>1, <2>1
    <3>2. Len(s) \in S
      BY <1>1
    <3> HIDE DEF S
    <3>3. Len(s) + 1 \in 1 .. Len(s) + 1 /\ (Len(s) + 1) - 1 = Len(s)
      BY <1>1
    <3> QED BY <3>1, <3>2, <3>3
  <2>2. CASE \E n \in Nat : n \notin Same
    <3> DEFINE Not == {n \in Nat : n \notin Same}
    <3>1. Not \subseteq Nat /\ Not # {}
      BY <2>2
    <3>2. PICK m \in Not : m = 0 \/ m - 1 \in Nat \ Not
      <4> HIDE DEF Not
      <4> QED BY <3>1, FirstOf
    <3> HIDE DEF S
    <3>3. m # 0 /\ m \in Nat /\ m - 1 \in Nat
      BY <3>2
    <3>4. \A i \in 1 .. m - 1 : i - 1 \notin S
      BY <3>2, <3>3
    <3>5. PICK i \in 1 .. m : i - 1 \in S
      BY <3>2
    <3>6. i = m
      BY <3>3, <3>4, <3>5
    <3> QED BY <3>4, <3>5, <3>6
  <2> QED BY <2>1, <2>2
<1>4. n \in Nat /\ n <= Len(s) /\ n <= Len(t)
  <2>1. n \in Nat
    BY <1>2
  <2>2. ASSUME n > Len(s) PROVE FALSE
    <3>1. Len(s) + 1 \in 1 .. n /\ (Len(s) + 1) - 1 = Len(s)
      BY <1>1, <2>1, <2>2
    <3> QED BY <1>1, <1>3, <3>1
  <2>3. ASSUME n > Len(t) PROVE FALSE
    <3>1. Len(t) + 1 \in 1 .. n /\ (Len(t) + 1) - 1 = Len(t)
      BY <1>1, <2>1, <2>3
    <3> QED BY <1>1, <1>3, <3>1
  <2> QED BY <1>1, <2>1, <2>2, <2>3
<1>5. \A i \in 1 .. n : s[i] = t[i]
  <2>1. ASSUME NEW i \in 1 .. n PROVE s[i] = t[i]
    <3>1. i - 1 \in Nat /\ (i - 1) + 1 = i /\ i - 1 \notin S
      BY <1>3, <1>4
    <3> QED BY <3>1
  <2> QED BY <2>1
<1>6. n >= Len(s) \/ n >= Len(t) \/ s[n + 1] # t[n + 1]
  BY <1>3
<1> HIDE DEF S
<1>7. CASE n = Len(s) /\ n = Len(t)
  <2>1. s = t
    BY <1>5, <1>7, SeqEqual DEF Texts
  <2> QED BY <2>1
<1>8. CASE n = Len(s) /\ n < Len(t)
  <2>1. LessAt(s, t, n)
    BY <1>1, <1>4, <1>5, <1>8 DEF LessAt
  <2> QED BY <1>4, <2>1, LessIs
<1>9. CASE n = Len(t) /\ n < Len(s)
  <2>1. LessAt(t, s, n)
    BY <1>1, <1>4, <1>5, <1>9 DEF LessAt
  <2> QED BY <1>4, <2>1, LessIs
<1>10. CASE n < Len(s) /\ n < Len(t)
  <2>1. s[n + 1] \in Nat /\ t[n + 1] \in Nat /\ s[n + 1] # t[n + 1]
    <3>1. n + 1 \in 1 .. Len(s) /\ n + 1 \in 1 .. Len(t)
      BY <1>1, <1>4, <1>10
    <3>2. s[n + 1] # t[n + 1]
      BY <1>1, <1>4, <1>6, <1>10
    <3> QED BY <3>1, <3>2 DEF Texts
  <2>2. s[n + 1] < t[n + 1] \/ t[n + 1] < s[n + 1]
    BY <2>1
  <2>3. LessAt(s, t, n) \/ LessAt(t, s, n)
    BY <1>4, <1>5, <1>10, <2>2 DEF LessAt
  <2> QED BY <1>4, <2>3, LessIs
<1> QED BY <1>1, <1>4, <1>7, <1>8, <1>9, <1>10

\* A text does not come before its prefixes.
LEMMA LessThanPrefix ==
    ASSUME NEW s \in Texts, NEW t \in Texts, IsPrefix(s, t)
    PROVE  ~Less(t, s)
<1>1. Len(s) \in Nat /\ Len(t) \in Nat /\ \A i \in 1 .. Len(s) : s[i] \in Nat
  BY DEF Texts
<1>2. Len(s) <= Len(t) /\ \A i \in 1 .. Len(s) : s[i] = t[i]
  BY PrefixIs DEF Texts
<1>3. ASSUME NEW n \in Nat PROVE ~LessAt(t, s, n)
  <2> SUFFICES ASSUME LessAt(t, s, n) PROVE FALSE
    OBVIOUS
  <2>1. n + 1 \in 1 .. Len(s) /\ t[n + 1] < s[n + 1]
    BY <1>1, <1>2 DEF LessAt
  <2> QED BY <1>1, <1>2, <2>1
<1> QED BY <1>3, LessIs

\* What lies between a text and one that it is a prefix of has this prefix.
LEMMA Between ==
    ASSUME NEW s \in Texts, NEW t \in Texts, NEW u \in Texts,
           IsPrefix(s, u), ~Less(t, s), ~Less(u, t)
    PROVE  IsPrefix(s, t)
<1>1. CASE s = t
  BY <1>1, PrefixItself DEF Texts
<1>2. CASE s # t
  <2>1. PICK n \in Nat : LessAt(s, t, n)
    BY <1>2, LessTotal, LessIs
  <2>2. Len(s) \in Nat /\ Len(t) \in Nat /\ Len(u) \in Nat
    BY DEF Texts
  <2>3. Len(s) <= Len(u) /\ \A i \in 1 .. Len(s) : s[i] = u[i]
    BY PrefixIs DEF Texts
  <2>4. CASE n = Len(s)
    <3>1. Len(s) <= Len(t) /\ \A i \in 1 .. Len(s) : s[i] = t[i]
      BY <2>1, <2>2, <2>4 DEF LessAt
    <3> QED BY <3>1, PrefixIs DEF Texts
  <2>5. CASE n < Len(s)
    <3>1. n + 1 \in 1 .. Len(s) /\ s[n + 1] < t[n + 1] /\ u[n + 1] = s[n + 1]
      BY <2>1, <2>2, <2>3, <2>5 DEF LessAt
    <3>2. \A i \in 1 .. n : u[i] = t[i]
      BY <2>1, <2>2, <2>3, <2>5 DEF LessAt
    <3>3. LessAt(u, t, n)
      BY <2>1, <2>2, <2>3, <2>5, <3>1, <3>2 DEF LessAt
    <3> QED BY <3>3, LessIs
  <2> QED BY <2>1, <2>2, <2>4, <2>5 DEF LessAt
<1> QED BY <1>1, <1>2

\* Texts that differ where both go on keep their order whatever follows.
LEMMA Apart ==
    ASSUME NEW s \in Texts, NEW t \in Texts, NEW u \in Texts, NEW v \in Texts,
           Less(s, t), ~IsPrefix(s, t), IsPrefix(s, u), IsPrefix(t, v)
    PROVE  Less(u, v)
<1>1. PICK n \in Nat : LessAt(s, t, n)
  BY LessIs
<1>2. Len(s) \in Nat /\ Len(t) \in Nat /\ Len(u) \in Nat /\ Len(v) \in Nat
  BY DEF Texts
<1>3. Len(s) <= Len(u) /\ \A i \in 1 .. Len(s) : s[i] = u[i]
  BY PrefixIs DEF Texts
<1>4. Len(t) <= Len(v) /\ \A i \in 1 .. Len(t) : t[i] = v[i]
  BY PrefixIs DEF Texts
<1>5. n < Len(s)
  <2>1. ASSUME n = Len(s) PROVE FALSE
    <3>1. Len(s) <= Len(t) /\ \A i \in 1 .. Len(s) : s[i] = t[i]
      BY <1>1, <1>2, <2>1 DEF LessAt
    <3> QED BY <3>1, PrefixIs DEF Texts
  <2> QED BY <1>1, <1>2, <2>1 DEF LessAt
<1>6. n + 1 \in 1 .. Len(s) /\ n + 1 \in 1 .. Len(t) /\ s[n + 1] < t[n + 1]
  BY <1>1, <1>2, <1>5 DEF LessAt
<1>7. u[n + 1] = s[n + 1] /\ v[n + 1] = t[n + 1]
  BY <1>3, <1>4, <1>6
<1>8. \A i \in 1 .. n : u[i] = v[i]
  BY <1>1, <1>2, <1>3, <1>4, <1>5 DEF LessAt
<1>9. LessAt(u, v, n)
  BY <1>1, <1>2, <1>3, <1>4, <1>5, <1>6, <1>7, <1>8 DEF LessAt
<1> QED BY <1>9, LessIs

LEMMA SubSeqIs ==
    ASSUME NEW S, NEW s \in Seq(S), NEW n \in 0 .. Len(s)
    PROVE  /\ SubSeq(s, 1, n) \in Seq(S) /\ Len(SubSeq(s, 1, n)) = n
           /\ \A i \in 1 .. n : SubSeq(s, 1, n)[i] = s[i]
<1>1. n \in Nat /\ \A i \in 1 .. n : s[i] \in S
  OBVIOUS
<1>2. /\ SubSeq(s, 1, n) \in Seq(S) /\ Len(SubSeq(s, 1, n)) = (IF 1 <= n THEN n - 1 + 1 ELSE 0)
      /\ \A i \in 1 .. n - 1 + 1 : SubSeq(s, 1, n)[i] = s[1 + i - 1]
  BY <1>1, SubSeqProperties
<1>3. n - 1 + 1 = n /\ \A i \in 1 .. n : 1 + i - 1 = i
  BY <1>1
<1> QED BY <1>1, <1>2, <1>3

-----------------------------------------------------------------------------
(* The texts of paths, and the keys of items                                  *)

\* w has the texts of the paths that lead to path, each with its suffix.
Ways(path, w) ==
    /\ w \in [0 .. Len(path) -> Texts]
    /\ w[0] = <<>> /\ \A k \in 1 .. Len(path) : w[k] = (w[k - 1] \o path[k]) \o <<Slash>>

LEMMA NameIs == ASSUME NEW a \in Name
    PROVE a \in Texts /\ Len(a) \in Nat /\ Len(a) > 0 /\ a # <<>> /\ \A i \in 1 .. Len(a) : a[i] # Slash
<1>1. a \in Seq(Nat \ {Slash}) /\ a # <<>>
  BY DEF Name
<1>2. a \in Seq(Nat)
  BY <1>1, SeqMonotonic
<1> QED BY <1>1, <1>2 DEF Texts

LEMMA TextWays ==
    ASSUME NEW path \in Seq(Name)
    PROVE  \E w : /\ Ways(path, w) /\ WithSuffix(Text(path)) = w[Len(path)]
                  /\ Text(path) = IF path = <<>> THEN <<>> ELSE w[Len(path) - 1] \o path[Len(path)]
<1> DEFINE n == Len(path)
           Add(s, name) == IF s = <<>> THEN name ELSE (s \o <<Slash>>) \o name
           Def(f) == f = [s \in SUBSET DOMAIN path |-> IF s = {} THEN <<>> ELSE Add(f[s \ {Max(s)}], path[Max(s)])]
           fold == CHOOSE f : Def(f)
<1>1. n \in Nat /\ DOMAIN path = 1 .. n /\ (path = <<>> <=> n = 0) /\ \A k \in 1 .. n : path[k] \in Name
  OBVIOUS
<1>2. Text(path) = fold[1 .. n]
  <2>1. Text(path) = fold[DOMAIN path]
    BY DEF Text, FoldLeft, MapThenFoldSet
  <2> QED BY <1>1, <2>1
<1>3. \E f : Def(f)
  <2> DEFINE step == [p \in Texts \X (1 .. n) |-> Add(p[1], path[p[2]])]
  <2>1. ASSUME NEW s \in Texts, NEW k \in 1 .. n PROVE Add(s, path[k]) \in Texts
    <3>1. path[k] \in Texts /\ <<Slash>> \in Texts
      BY <1>1, NameIs, SlashAssumption DEF Texts
    <3> QED BY <3>1 DEF Texts
  <2>2. step \in [Texts \X (1 .. n) -> Texts]
    <3> HIDE DEF Add, n
    <3> QED BY <2>1
  <2>3. ASSUME NEW s \in Texts, NEW k \in 1 .. n PROVE step[s, k] = Add(s, path[k])
    <3> HIDE DEF Add, n
    <3> QED OBVIOUS
  <2> HIDE DEF step, Add
  <2>4. <<>> \in Texts
    BY DEF Texts
  <2>5. PICK f \in [SUBSET (1 .. n) -> Texts] : Folds(n, <<>>, step, f)
    BY <1>1, <2>2, <2>4, FoldExists
  <2>6. ASSUME NEW s \in SUBSET (1 .. n), s # {}
        PROVE  step[f[s \ {Max(s)}], Max(s)] = Add(f[s \ {Max(s)}], path[Max(s)])
    <3>1. Max(s) \in s
      BY <1>1, <2>6, MaxIn
    <3>2. s \ {Max(s)} \in SUBSET (1 .. n)
      OBVIOUS
    <3> QED BY <2>3, <3>1, <3>2
  <2>7. f = [s \in SUBSET (1 .. n) |-> IF s = {} THEN <<>> ELSE Add(f[s \ {Max(s)}], path[Max(s)])]
    BY <2>5, <2>6 DEF Folds
  <2> QED BY <1>1, <2>7
<1>4. Def(fold)
  BY <1>3
<1> HIDE DEF fold
<1>5. \A s \in SUBSET (1 .. n) : fold[s] = IF s = {} THEN <<>> ELSE Add(fold[s \ {Max(s)}], path[Max(s)])
  BY <1>1, <1>4
<1> HIDE DEF Def
<1> DEFINE v == [k \in 0 .. n |-> fold[1 .. k]]
           w == [k \in 0 .. n |-> WithSuffix(v[k])]
<1>6. v[0] = <<>> /\ \A k \in 1 .. n : v[k] = Add(v[k - 1], path[k])
  <2>1. fold[1 .. 0] = <<>>
    BY <1>1, <1>5, Intervals
  <2>2. ASSUME NEW k \in 1 .. n PROVE fold[1 .. k] = Add(fold[1 .. k - 1], path[k])
    <3>1. /\ 1 .. k \in SUBSET (1 .. n) /\ 1 .. k # {}
          /\ Max(1 .. k) = k /\ (1 .. k) \ {k} = 1 .. k - 1
      BY <1>1, Intervals
    <3> HIDE DEF Add
    <3>2. fold[1 .. k] = Add(fold[(1 .. k) \ {Max(1 .. k)}], path[Max(1 .. k)])
      BY <1>5, <3>1
    <3> QED BY <3>1, <3>2
  <2>3. \A k \in 1 .. n : k \in 0 .. n /\ k - 1 \in 0 .. n
    BY <1>1
  <2> HIDE DEF Add
  <2> QED BY <1>1, <2>1, <2>2, <2>3
<1>7. v[n] = Text(path)
  BY <1>1, <1>2
<1>8. \A k \in 0 .. n : w[k] = WithSuffix(v[k])
  OBVIOUS
<1>9. DOMAIN w = 0 .. n /\ w = [k \in 0 .. n |-> w[k]]
  OBVIOUS
<1> HIDE DEF v, w
<1> DEFINE Right(k) == v[k] = w[k - 1] \o path[k] /\ w[k] = (w[k - 1] \o path[k]) \o <<Slash>>
           S == {k \in 0 .. n : v[k] \in Texts /\ (k = 0 <=> v[k] = <<>>) /\ (k # 0 => Right(k))}
<1>10. 0 \in S
  <2>1. 0 \in 0 .. n /\ <<>> \in Texts
    BY <1>1 DEF Texts
  <2> HIDE DEF Right
  <2> QED BY <1>6, <2>1
<1>11. ASSUME NEW k \in 0 .. n - 1, k \in S PROVE k + 1 \in S
  <2>1. k + 1 \in 1 .. n /\ k + 1 \in 0 .. n /\ k \in 0 .. n /\ (k + 1) - 1 = k /\ k + 1 # 0
    BY <1>1
  <2>2. v[k + 1] = Add(v[k], path[k + 1])
    BY <1>6, <2>1
  <2>3. path[k + 1] \in Texts /\ path[k + 1] # <<>> /\ <<Slash>> \in Texts /\ v[k] \in Texts
    BY <1>1, <1>11, <2>1, NameIs, SlashAssumption DEF Texts
  <2>4. v[k + 1] = w[k] \o path[k + 1]
    <3>1. CASE v[k] = <<>>
      <4>1. w[k] = <<>>
        BY <1>8, <2>1, <3>1 DEF WithSuffix
      <4>2. <<>> \o path[k + 1] = path[k + 1]
        BY <2>3, ConcatEmptySeq DEF Texts
      <4> QED BY <2>2, <3>1, <4>1, <4>2
    <3>2. CASE v[k] # <<>>
      BY <1>8, <2>1, <2>2, <3>2 DEF WithSuffix
    <3> QED BY <3>1, <3>2
  <2>5. w[k] \in Texts
    <3>1. w[k] = WithSuffix(v[k])
      BY <1>8, <2>1
    <3> QED BY <2>3, <3>1 DEF WithSuffix, Texts
  <2>6. v[k + 1] \in Texts /\ v[k + 1] # <<>>
    <3>1. v[k + 1] \in Texts
      BY <2>3, <2>4, <2>5 DEF Texts
    <3> QED BY <2>3, <2>4, <2>5, <3>1, ConcatEqualIffEmpty DEF Texts
  <2>7. w[k + 1] = v[k + 1] \o <<Slash>>
    BY <1>8, <2>1, <2>6 DEF WithSuffix
  <2>8. w[k + 1] = (w[k] \o path[k + 1]) \o <<Slash>>
    BY <2>4, <2>7
  <2> QED BY <2>1, <2>4, <2>6, <2>8
<1>12. \A k \in 0 .. n : k \in S
  <2> HIDE DEF S
  <2> QED BY <1>1, <1>10, <1>11, UpTo
<1>13. \A k \in 0 .. n : w[k] \in Texts
  <2>1. ASSUME NEW k \in 0 .. n PROVE w[k] \in Texts
    <3>1. v[k] \in Texts /\ w[k] = WithSuffix(v[k])
      BY <1>8, <1>12 DEF S
    <3> QED BY <3>1, SlashAssumption DEF WithSuffix, Texts
  <2> QED BY <2>1
<1>14. w[0] = <<>> /\ \A k \in 1 .. n : w[k] = (w[k - 1] \o path[k]) \o <<Slash>> /\ v[k] = w[k - 1] \o path[k]
  <2>1. w[0] = <<>>
    BY <1>1, <1>6, <1>8 DEF WithSuffix
  <2>2. \A k \in 1 .. n : k \in 0 .. n /\ k # 0
    BY <1>1
  <2> QED BY <1>12, <2>1, <2>2
<1>15. Ways(path, w)
  BY <1>9, <1>13, <1>14 DEF Ways
<1>16. WithSuffix(Text(path)) = w[n]
  BY <1>1, <1>7, <1>8
<1>17. Text(path) = IF path = <<>> THEN <<>> ELSE w[n - 1] \o path[n]
  <2>1. n # 0 => n \in 1 .. n
    BY <1>1
  <2> HIDE DEF n, Add
  <2> QED BY <1>1, <1>6, <1>7, <1>14, <2>1
<1> QED BY <1>15, <1>16, <1>17

LEMMA PrefixElements ==
    ASSUME NEW s \in Texts, NEW t \in Texts, IsPrefix(s, t)
    PROVE  Len(s) <= Len(t) /\ \A i \in 1 .. Len(s) : s[i] = t[i]
BY PrefixIs DEF Texts

\* A name ends at the first slash.
LEMMA NameEnds ==
    ASSUME NEW s \in Texts, NEW r \in Texts, NEW a \in Name, NEW b \in Name,
           IsPrefix((s \o a) \o <<Slash>>, r), IsPrefix((s \o b) \o <<Slash>>, r)
    PROVE  a = b
<1>1. /\ a \in Texts /\ Len(a) \in Nat /\ (\A i \in 1 .. Len(a) : a[i] # Slash)
      /\ b \in Texts /\ Len(b) \in Nat /\ (\A i \in 1 .. Len(b) : b[i] # Slash)
      /\ Len(s) \in Nat
  BY NameIs DEF Texts
<1> DEFINE x == (s \o a) \o <<Slash>>
           y == (s \o b) \o <<Slash>>
<1>2. /\ x \in Texts /\ Len(x) = Len(s) + Len(a) + 1 /\ x[Len(s) + Len(a) + 1] = Slash
      /\ \A i \in 1 .. Len(a) : x[Len(s) + i] = a[i]
  BY <1>1, SlashAssumption DEF Texts
<1>3. /\ y \in Texts /\ Len(y) = Len(s) + Len(b) + 1 /\ y[Len(s) + Len(b) + 1] = Slash
      /\ \A i \in 1 .. Len(b) : y[Len(s) + i] = b[i]
  BY <1>1, SlashAssumption DEF Texts
<1>4. IsPrefix(x, r) /\ IsPrefix(y, r)
  OBVIOUS
<1> HIDE DEF x, y
<1>5. \A i \in 1 .. Len(x) : x[i] = r[i]
  BY <1>2, <1>4, PrefixElements
<1>6. \A i \in 1 .. Len(y) : y[i] = r[i]
  BY <1>3, <1>4, PrefixElements
<1>7. ASSUME Len(a) < Len(b) PROVE FALSE
  <2>1. Len(a) + 1 \in 1 .. Len(b) /\ Len(s) + Len(a) + 1 = Len(s) + (Len(a) + 1)
    BY <1>1, <1>7
  <2>2. Len(s) + Len(a) + 1 \in 1 .. Len(x) /\ Len(s) + Len(a) + 1 \in 1 .. Len(y)
    BY <1>1, <1>2, <1>3, <1>7
  <2>3. y[Len(s) + Len(a) + 1] = Slash
    BY <1>2, <1>5, <1>6, <2>2
  <2>4. y[Len(s) + Len(a) + 1] = b[Len(a) + 1]
    BY <1>3, <2>1
  <2> QED BY <1>1, <2>1, <2>3, <2>4
<1>8. ASSUME Len(b) < Len(a) PROVE FALSE
  <2>1. Len(b) + 1 \in 1 .. Len(a) /\ Len(s) + Len(b) + 1 = Len(s) + (Len(b) + 1)
    BY <1>1, <1>8
  <2>2. Len(s) + Len(b) + 1 \in 1 .. Len(x) /\ Len(s) + Len(b) + 1 \in 1 .. Len(y)
    BY <1>1, <1>2, <1>3, <1>8
  <2>3. x[Len(s) + Len(b) + 1] = Slash
    BY <1>3, <1>5, <1>6, <2>2
  <2>4. x[Len(s) + Len(b) + 1] = a[Len(b) + 1]
    BY <1>2, <2>1
  <2> QED BY <1>1, <2>1, <2>3, <2>4
<1>9. Len(a) = Len(b)
  BY <1>1, <1>7, <1>8
<1>10. ASSUME NEW i \in 1 .. Len(a) PROVE a[i] = b[i]
  <2>1. Len(s) + i \in 1 .. Len(x) /\ Len(s) + i \in 1 .. Len(y)
    BY <1>1, <1>2, <1>3, <1>9
  <2>2. x[Len(s) + i] = y[Len(s) + i]
    BY <1>5, <1>6, <2>1
  <2> QED BY <1>2, <1>3, <1>9, <2>2
<1> QED BY <1>1, <1>9, <1>10, SeqEqual DEF Texts

LEMMA WaysPrefix ==
    ASSUME NEW p \in Seq(Name), NEW w, Ways(p, w), NEW k \in 0 .. Len(p), NEW j \in 0 .. k
    PROVE  IsPrefix(w[j], w[k])
<1> DEFINE n == Len(p)
           S == {m \in 0 .. n : \A i \in 0 .. m : IsPrefix(w[i], w[m])}
<1>1. n \in Nat /\ \A m \in 1 .. n : p[m] \in Name
  OBVIOUS
<1>2. \A m \in 0 .. n : w[m] \in Texts
  BY DEF Ways
<1>3. 0 \in S
  <2>1. 0 \in 0 .. n /\ \A i \in 0 .. 0 : i = 0
    BY <1>1
  <2>2. IsPrefix(w[0], w[0])
    BY <1>2, <2>1, PrefixItself DEF Texts
  <2> QED BY <2>1, <2>2
<1>4. ASSUME NEW m \in 0 .. n - 1, m \in S PROVE m + 1 \in S
  <2>1. m + 1 \in 1 .. n /\ m + 1 \in 0 .. n /\ m \in 0 .. n /\ (m + 1) - 1 = m
    BY <1>1
  <2>2. w[m + 1] = (w[m] \o p[m + 1]) \o <<Slash>>
    BY <2>1 DEF Ways
  <2>3. p[m + 1] \in Texts /\ <<Slash>> \in Texts /\ w[m] \in Texts /\ w[m] \o p[m + 1] \in Texts
    BY <1>1, <1>2, <2>1, NameIs, SlashAssumption DEF Texts
  <2>4. IsPrefix(w[m], w[m] \o p[m + 1]) /\ IsPrefix(w[m] \o p[m + 1], w[m + 1])
    BY <2>2, <2>3, PrefixOfConcat DEF Texts
  <2>5. w[m + 1] \in Texts
    BY <1>2, <2>1
  <2>6. IsPrefix(w[m], w[m + 1])
    BY <2>3, <2>4, <2>5, PrefixTransitive DEF Texts
  <2>7. ASSUME NEW i \in 0 .. m + 1 PROVE IsPrefix(w[i], w[m + 1])
    <3>1. CASE i = m + 1
      BY <2>5, <3>1, PrefixItself DEF Texts
    <3>2. CASE i # m + 1
      <4>1. i \in 0 .. m /\ i \in 0 .. n
        BY <1>1, <3>2
      <4>2. IsPrefix(w[i], w[m]) /\ w[i] \in Texts
        BY <1>2, <1>4, <4>1
      <4> QED BY <2>3, <2>5, <2>6, <4>2, PrefixTransitive DEF Texts
    <3> QED BY <3>1, <3>2
  <2> QED BY <2>1, <2>7
<1>5. k \in S
  <2> HIDE DEF S
  <2> QED BY <1>1, <1>3, <1>4, UpTo
<1> QED BY <1>5

LEMMA WaysSame ==
    ASSUME NEW p \in Seq(Name), NEW w, Ways(p, w), NEW q \in Seq(Name), NEW u, Ways(q, u),
           NEW n \in Nat, n <= Len(p), n <= Len(q), \A i \in 1 .. n : p[i] = q[i]
    PROVE  \A k \in 0 .. n : w[k] = u[k]
<1> DEFINE S == {k \in 0 .. n : w[k] = u[k]}
<1>1. 0 \in S
  BY DEF Ways
<1>2. ASSUME NEW k \in 0 .. n - 1, k \in S PROVE k + 1 \in S
  <2>1. /\ k + 1 \in 1 .. n /\ k + 1 \in 0 .. n /\ (k + 1) - 1 = k
        /\ k + 1 \in 1 .. Len(p) /\ k + 1 \in 1 .. Len(q)
    OBVIOUS
  <2>2. w[k + 1] = (w[k] \o p[k + 1]) \o <<Slash>> /\ u[k + 1] = (u[k] \o q[k + 1]) \o <<Slash>>
    BY <2>1 DEF Ways
  <2> QED BY <1>2, <2>1, <2>2
<1> HIDE DEF S
<1>3. \A k \in 0 .. n : k \in S
  BY <1>1, <1>2, UpTo
<1> QED BY <1>3 DEF S

LEMMA WaysApart ==
    ASSUME NEW p \in Seq(Name), NEW w, Ways(p, w), NEW q \in Seq(Name), NEW u, Ways(q, u),
           IsPrefix(w[Len(p)], u[Len(q)])
    PROVE  IsPrefix(p, q)
<1> DEFINE m == Len(p)
           n == Len(q)
           S == {k \in 0 .. m : k <= n /\ \A i \in 1 .. k : p[i] = q[i]}
<1>1. m \in Nat /\ n \in Nat
  OBVIOUS
<1>2. 0 \in S
  BY <1>1
<1>3. ASSUME NEW k \in 0 .. m - 1, k \in S PROVE k + 1 \in S
  <2>1. k + 1 \in 1 .. m /\ k + 1 \in 0 .. m /\ (k + 1) - 1 = k /\ k \in Nat /\ k <= n /\ k <= m /\ k \in 0 .. k
    BY <1>1, <1>3
  <2>2. w[k] = u[k]
    <3>1. \A i \in 1 .. k : p[i] = q[i]
      BY <1>3
    <3>2. \A i \in 0 .. k : w[i] = u[i]
      <4> HIDE DEF S
      <4> QED BY <2>1, <3>1, WaysSame
    <3> QED BY <2>1, <3>2
  <2>3. w[k + 1] = (w[k] \o p[k + 1]) \o <<Slash>>
    BY <2>1 DEF Ways
  <2>4. w[k] \in Texts /\ w[k + 1] \in Texts /\ w[m] \in Texts /\ u[n] \in Texts
    <3>1. k \in 0 .. m /\ m \in 0 .. m /\ n \in 0 .. n
      BY <1>1, <2>1
    <3> QED BY <2>1, <3>1 DEF Ways
  <2>5. IsPrefix(w[k + 1], u[n])
    <3>1. m \in 0 .. m /\ k + 1 \in 0 .. m
      BY <1>1, <2>1
    <3>2. IsPrefix(w[k + 1], w[m])
      BY <3>1, WaysPrefix
    <3> QED BY <2>4, <3>2, PrefixTransitive DEF Texts
  <2>6. p[k + 1] \in Name
    BY <2>1
  <2>7. k # n
    <3> SUFFICES ASSUME k = n PROVE FALSE
      OBVIOUS
    <3> DEFINE a == Len(w[k])
               b == Len(p[k + 1])
               c == Len(w[k + 1])
    <3>1. c <= a
      BY <2>2, <2>5 DEF IsPrefix
    <3>2. p[k + 1] \in Texts /\ b \in Nat /\ a \in Nat
      <4>1. p[k + 1] \in Texts
        BY <2>6, NameIs
      <4>2. \A s \in Texts : Len(s) \in Nat
        BY DEF Texts
      <4> QED BY <2>4, <4>1, <4>2
    <3>3. c = a + b + 1
      BY <2>3, <2>4, <3>2, SlashAssumption DEF Texts
    <3> HIDE DEF a, b, c
    <3> QED BY <3>1, <3>2, <3>3
  <2>8. k + 1 \in 1 .. n /\ k + 1 \in 0 .. n
    BY <1>1, <2>1, <2>7
  <2>9. q[k + 1] \in Name /\ u[k + 1] = (w[k] \o q[k + 1]) \o <<Slash>>
    <3>1. q[k + 1] \in Name
      BY <2>8
    <3>2. u[k + 1] = (u[(k + 1) - 1] \o q[k + 1]) \o <<Slash>>
      BY <2>8 DEF Ways
    <3> QED BY <2>1, <2>2, <3>1, <3>2
  <2>10. IsPrefix(u[k + 1], u[n])
    <3>1. n \in 0 .. Len(q) /\ k + 1 \in 0 .. n
      BY <1>1, <2>8
    <3> QED BY <3>1, WaysPrefix
  <2>11. p[k + 1] = q[k + 1]
    BY <2>3, <2>4, <2>5, <2>6, <2>9, <2>10, NameEnds
  <2>12. \A i \in 1 .. k + 1 : p[i] = q[i]
    <3>1. \A i \in 1 .. k + 1 : i \in 1 .. k \/ i = k + 1
      BY <2>1
    <3> QED BY <1>3, <2>11, <3>1
  <2> QED BY <1>1, <2>1, <2>8, <2>12
<1>4. m \in S
  <2>1. m \in 0 .. m
    BY <1>1
  <2> HIDE DEF S
  <2>2. \A k \in 0 .. m : k \in S
    BY <1>1, <1>2, <1>3, UpTo
  <2> QED BY <2>1, <2>2
<1> QED BY <1>4, PrefixIs

\* The text of what leads into a folder.
Way(path) == WithSuffix(Text(path))

LEMMA WayIs ==
    ASSUME NEW p \in Seq(Name)
    PROVE  /\ Text(p) \in Texts /\ Way(p) \in Texts /\ IsPrefix(Text(p), Way(p))
           /\ p = <<>> => Text(p) = <<>> /\ Way(p) = <<>>
           /\ p # <<>> => /\ Text(p) # <<>> /\ Way(p) # <<>>
                          /\ Text(p)[Len(Text(p))] # Slash /\ Way(p)[Len(Way(p))] = Slash
<1>1. PICK w : /\ Ways(p, w) /\ Way(p) = w[Len(p)]
               /\ Text(p) = IF p = <<>> THEN <<>> ELSE w[Len(p) - 1] \o p[Len(p)]
  BY TextWays DEF Way
<1>2. CASE p = <<>>
  <2>1. Text(p) = <<>> /\ Way(p) = <<>>
    BY <1>1, <1>2 DEF Way, WithSuffix
  <2>2. <<>> \in Texts /\ IsPrefix(<<>>, <<>>)
    <3>1. <<>> \in Seq(Nat)
      OBVIOUS
    <3> QED BY <3>1, PrefixItself DEF Texts
  <2> QED BY <1>2, <2>1, <2>2
<1>3. CASE p # <<>>
  <2>1. Len(p) \in Nat /\ Len(p) \in 1 .. Len(p) /\ Len(p) - 1 \in 0 .. Len(p) /\ p[Len(p)] \in Name
    BY <1>3
  <2> DEFINE s == w[Len(p) - 1]
             a == p[Len(p)]
  <2>2. s \in Texts /\ a \in Texts /\ Len(a) \in Nat /\ Len(a) > 0 /\ a # <<>> /\ a[Len(a)] # Slash
    <3>1. s \in Texts
      BY <1>1, <2>1 DEF Ways
    <3>2. a \in Texts /\ Len(a) \in Nat /\ Len(a) > 0 /\ a # <<>> /\ \A i \in 1 .. Len(a) : a[i] # Slash
      BY <2>1, NameIs
    <3>3. Len(a) \in 1 .. Len(a)
      BY <3>2
    <3> QED BY <3>1, <3>2, <3>3
  <2>3. Text(p) = s \o a
    BY <1>1, <1>3
  <2> HIDE DEF s, a
  <2>4. Text(p) \in Texts /\ Len(Text(p)) = Len(s) + Len(a) /\ Len(s) \in Nat
    BY <2>2, <2>3 DEF Texts
  <2>5. Text(p) # <<>>
    BY <2>2, <2>3, ConcatEqualIffEmpty DEF Texts
  <2>6. Text(p)[Len(Text(p))] = a[Len(a)]
    <3>1. (s \o a)[Len(s) + Len(a)] = a[Len(a)]
      BY <2>2, <2>4 DEF Texts
    <3> QED BY <2>3, <2>4, <3>1
  <2>7. Way(p) = Text(p) \o <<Slash>>
    BY <2>5 DEF Way, WithSuffix
  <2>8. <<Slash>> \in Texts
    BY SlashAssumption DEF Texts
  <2>9. Way(p) \in Texts /\ IsPrefix(Text(p), Way(p))
    <3>1. Text(p) \o <<Slash>> \in Texts
      BY <2>4, <2>8 DEF Texts
    <3>2. IsPrefix(Text(p), Text(p) \o <<Slash>>)
      BY <2>4, <2>8, PrefixOfConcat DEF Texts
    <3> QED BY <2>7, <3>1, <3>2
  <2>10. Way(p) # <<>>
    BY <2>4, <2>5, <2>7, <2>8, ConcatEqualIffEmpty DEF Texts
  <2>11. Way(p)[Len(Way(p))] = Slash
    <3>1. Len(Text(p) \o <<Slash>>) = Len(Text(p)) + 1 /\ (Text(p) \o <<Slash>>)[Len(Text(p)) + 1] = Slash
      BY <2>4, <2>8, SlashAssumption DEF Texts
    <3> QED BY <2>7, <3>1
  <2> QED BY <1>3, <2>2, <2>4, <2>5, <2>6, <2>9, <2>10, <2>11
<1> QED BY <1>2, <1>3

\* A path leads to another one if and only if its text does.
LEMMA WayPrefix ==
    ASSUME NEW p \in Seq(Name), NEW q \in Seq(Name)
    PROVE  IsPrefix(p, q) <=> IsPrefix(Way(p), Way(q))
<1>1. PICK w : Ways(p, w) /\ Way(p) = w[Len(p)]
  BY TextWays DEF Way
<1>2. PICK u : Ways(q, u) /\ Way(q) = u[Len(q)]
  BY TextWays DEF Way
<1>3. ASSUME IsPrefix(p, q) PROVE IsPrefix(Way(p), Way(q))
  <2>1. Len(p) \in Nat /\ Len(q) \in Nat /\ Len(p) <= Len(p) /\ Len(p) <= Len(q) /\ \A i \in 1 .. Len(p) : p[i] = q[i]
    BY <1>3, PrefixIs
  <2>2. Len(p) \in 0 .. Len(p) /\ Len(p) \in 0 .. Len(q) /\ Len(q) \in 0 .. Len(q)
    BY <2>1
  <2>3. \A k \in 0 .. Len(p) : w[k] = u[k]
    BY <1>1, <1>2, <2>1, WaysSame
  <2>4. w[Len(p)] = u[Len(p)]
    BY <2>2, <2>3
  <2>5. IsPrefix(u[Len(p)], u[Len(q)])
    BY <1>2, <2>2, WaysPrefix
  <2> QED BY <1>1, <1>2, <2>4, <2>5
<1>4. ASSUME IsPrefix(Way(p), Way(q)) PROVE IsPrefix(p, q)
  BY <1>1, <1>2, <1>4, WaysApart
<1> QED BY <1>3, <1>4

LEMMA FrontIs ==
    ASSUME NEW q \in Seq(Name), q # <<>>
    PROVE  /\ Front(q) \in Seq(Name) /\ IsPrefix(Front(q), q) /\ IsPrefix(Way(Front(q)), Text(q))
           /\ \A p \in Seq(Name) : IsPrefix(p, q) /\ p # q => IsPrefix(p, Front(q))
<1> DEFINE n == Len(q)
           f == Front(q)
<1>1. n \in Nat /\ n - 1 \in Nat /\ n \in 1 .. n /\ q[n] \in Name
  OBVIOUS
<1>2. f \in Seq(Name) /\ Len(f) = n - 1 /\ \A i \in 1 .. n - 1 : f[i] = q[i]
  <2>1. SubSeq(q, 1, n - 1) \in Seq(Name) /\ Len(SubSeq(q, 1, n - 1)) = n - 1
        /\ \A i \in 1 .. n - 1 : SubSeq(q, 1, n - 1)[i] = q[i]
    <3>1. n - 1 \in 0 .. Len(q)
      BY <1>1
    <3> QED BY <3>1, SubSeqIs
  <2> QED BY <2>1 DEF Front
<1> HIDE DEF f
<1>3. IsPrefix(f, q)
  BY <1>1, <1>2, PrefixIs
<1>4. IsPrefix(Way(f), Text(q))
  <2>1. PICK w : Ways(f, w) /\ Way(f) = w[Len(f)]
    BY <1>2, TextWays DEF Way
  <2>2. PICK u : Ways(q, u) /\ Text(q) = IF q = <<>> THEN <<>> ELSE u[Len(q) - 1] \o q[Len(q)]
    BY TextWays
  <2>3. n - 1 <= Len(f) /\ n - 1 <= Len(q) /\ n - 1 \in 0 .. n - 1
    BY <1>1, <1>2
  <2>4. \A k \in 0 .. n - 1 : w[k] = u[k]
    <3> DEFINE m == n - 1
    <3>1. m \in Nat /\ m <= Len(f) /\ m <= Len(q) /\ \A i \in 1 .. m : f[i] = q[i]
      BY <1>1, <1>2, <2>3
    <3>3. f \in Seq(Name) /\ Ways(f, w) /\ Ways(q, u)
      BY <1>2, <2>1, <2>2
    <3> HIDE DEF m
    <3>2. \A k \in 0 .. m : w[k] = u[k]
      BY <3>1, <3>3, WaysSame
    <3> QED BY <3>2 DEF m
  <2>5. w[n - 1] = u[n - 1]
    BY <2>3, <2>4
  <2>6. Way(f) = u[n - 1]
    BY <1>2, <2>1, <2>5
  <2>7. Text(q) = Way(f) \o q[n]
    BY <2>2, <2>6
  <2>8. Way(f) \in Texts /\ q[n] \in Texts
    BY <1>1, <1>2, WayIs, NameIs
  <2>9. IsPrefix(Way(f), Way(f) \o q[n])
    BY <2>8, PrefixOfConcat DEF Texts
  <2> QED BY <2>7, <2>9
<1>5. ASSUME NEW p \in Seq(Name), IsPrefix(p, q), p # q PROVE IsPrefix(p, f)
  <2>1. Len(p) \in Nat /\ Len(p) <= n /\ \A i \in 1 .. Len(p) : p[i] = q[i]
    BY <1>5, PrefixIs
  <2>2. Len(p) # n
    BY <1>5, <2>1, SeqEqual
  <2>3. Len(p) <= Len(f) /\ \A i \in 1 .. Len(p) : p[i] = f[i]
    BY <1>1, <1>2, <2>1, <2>2
  <2> QED BY <1>2, <2>3, PrefixIs
<1> QED BY <1>2, <1>3, <1>4, <1>5 DEF f

IsItem(x) ==
    /\ x.path \in Seq(Name) /\ x.type \in {"file", "folder"}
    /\ x.type = "file" => x.path # <<>>

LEMMA KeyIs ==
    ASSUME NEW x, IsItem(x)
    PROVE  /\ GetSortKey(x) \in Texts /\ IsPrefix(GetSortKey(x), Way(x.path)) /\ Way(x.path) \in Texts
           /\ x.type = "folder" => GetSortKey(x) = Way(x.path)
           /\ x.type = "file" => GetSortKey(x) = Text(x.path)
           /\ ~IsRepoRoot(x) => GetSortKey(x) # <<>>
<1>1. x.path \in Seq(Name) /\ x.type \in {"file", "folder"} /\ (x.type = "file" => x.path # <<>>)
  BY DEF IsItem
<1>2. CASE x.type = "folder"
  <2>1. GetSortKey(x) = Way(x.path)
    BY <1>2 DEF GetSortKey, Way
  <2>2. IsPrefix(Way(x.path), Way(x.path))
    BY <1>1, WayIs, PrefixItself DEF Texts
  <2> QED BY <1>1, <1>2, <2>1, <2>2, WayIs DEF IsRepoRoot
<1>3. CASE x.type = "file"
  <2>1. GetSortKey(x) = Text(x.path) /\ x.type # "folder"
    BY <1>3 DEF GetSortKey
  <2> QED BY <1>1, <1>3, <2>1, WayIs DEF IsRepoRoot
<1> QED BY <1>1, <1>2, <1>3

\* The key of a folder is the beginning of the keys of what is below it, and of no others.
LEMMA KeyPrefix ==
    ASSUME NEW x, NEW y, IsItem(x), IsItem(y), x.type = "folder"
    PROVE  /\ IsPrefix(x.path, y.path) => \/ IsPrefix(GetSortKey(x), GetSortKey(y))
                                          \/ x.path = y.path
           /\ IsPrefix(GetSortKey(x), GetSortKey(y)) => IsPrefix(x.path, y.path)
<1>1. x.path \in Seq(Name) /\ y.path \in Seq(Name) /\ y.type \in {"file", "folder"} /\ (y.type = "file" => y.path # <<>>)
  BY DEF IsItem
<1>2. GetSortKey(x) = Way(x.path) /\ Way(x.path) \in Texts
  BY KeyIs
<1>3. GetSortKey(y) \in Texts /\ IsPrefix(GetSortKey(y), Way(y.path)) /\ Way(y.path) \in Texts
  BY KeyIs
<1>4. ASSUME IsPrefix(GetSortKey(x), GetSortKey(y)) PROVE IsPrefix(x.path, y.path)
  <2>1. IsPrefix(Way(x.path), Way(y.path))
    BY <1>2, <1>3, <1>4, PrefixTransitive DEF Texts
  <2> QED BY <1>1, <2>1, WayPrefix
<1>5. ASSUME IsPrefix(x.path, y.path), x.path # y.path PROVE IsPrefix(GetSortKey(x), GetSortKey(y))
  <2>1. CASE y.type = "folder"
    <3>1. IsPrefix(Way(x.path), Way(y.path))
      BY <1>1, <1>5, WayPrefix
    <3> QED BY <1>2, <2>1, <3>1, KeyIs
  <2>2. CASE y.type = "file"
    <3>1. y.path # <<>>
      BY <1>1, <2>2
    <3>2. /\ Front(y.path) \in Seq(Name) /\ IsPrefix(Way(Front(y.path)), Text(y.path))
          /\ IsPrefix(x.path, Front(y.path))
      BY <1>1, <1>5, <3>1, FrontIs
    <3>3. IsPrefix(Way(x.path), Way(Front(y.path)))
      BY <1>1, <3>2, WayPrefix
    <3>4. Way(Front(y.path)) \in Texts /\ Text(y.path) \in Texts
      BY <1>1, <3>2, WayIs
    <3>5. IsPrefix(Way(x.path), Text(y.path))
      BY <1>2, <3>2, <3>3, <3>4, PrefixTransitive DEF Texts
    <3>6. GetSortKey(y) = Text(y.path)
      BY <2>2, KeyIs
    <3> QED BY <1>2, <3>5, <3>6
  <2> QED BY <1>1, <2>1, <2>2
<1> QED BY <1>4, <1>5

\* Items with the same key are the same.
LEMMA KeyApart ==
    ASSUME NEW x, NEW y, IsItem(x), IsItem(y), GetSortKey(x) = GetSortKey(y)
    PROVE  x.path = y.path /\ x.type = y.type
<1>1. /\ x.path \in Seq(Name) /\ x.type \in {"file", "folder"} /\ (x.type = "file" => x.path # <<>>)
      /\ y.path \in Seq(Name) /\ y.type \in {"file", "folder"} /\ (y.type = "file" => y.path # <<>>)
  BY DEF IsItem
<1>2. ASSUME NEW p \in Seq(Name), NEW q \in Seq(Name), Way(p) = Way(q) PROVE p = q
  <2>1. IsPrefix(Way(p), Way(q)) /\ IsPrefix(Way(q), Way(p))
    BY <1>2, WayIs, PrefixItself DEF Texts
  <2>2. IsPrefix(p, q) /\ IsPrefix(q, p)
    BY <2>1, WayPrefix
  <2> QED BY <2>2, PrefixBothWays
<1>3. ASSUME NEW p \in Seq(Name), NEW q \in Seq(Name), q # <<>>, Way(p) = Text(q) PROVE FALSE
  <2>1. p # <<>>
    BY <1>3, WayIs
  <2>2. Way(p)[Len(Way(p))] = Slash /\ Text(q)[Len(Text(q))] # Slash
    BY <1>3, <2>1, WayIs
  <2> QED BY <1>3, <2>2
<1>4. CASE x.type = "folder" /\ y.type = "folder"
  <2>1. Way(x.path) = Way(y.path)
    BY <1>4, KeyIs
  <2> QED BY <1>1, <1>2, <1>4, <2>1
<1>5. CASE x.type = "file" /\ y.type = "file"
  <2>1. Text(x.path) = Text(y.path)
    BY <1>5, KeyIs
  <2>2. Way(x.path) = Way(y.path)
    BY <2>1 DEF Way
  <2> QED BY <1>1, <1>2, <1>5, <2>2
<1>6. CASE x.type = "folder" /\ y.type = "file"
  <2>1. Way(x.path) = Text(y.path) /\ y.path # <<>>
    BY <1>1, <1>6, KeyIs
  <2> QED BY <1>1, <1>3, <2>1
<1>7. CASE x.type = "file" /\ y.type = "folder"
  <2>1. Way(y.path) = Text(x.path) /\ x.path # <<>>
    BY <1>1, <1>7, KeyIs
  <2> QED BY <1>1, <1>3, <2>1
<1> QED BY <1>1, <1>4, <1>5, <1>6, <1>7

-----------------------------------------------------------------------------
(* Sorting by buffers                                                         *)

LEMMA BeforeOrder ==
    ASSUME NEW ascending \in BOOLEAN, NEW s \in Texts, NEW t \in Texts
    PROVE  /\ ~Before(s, s, ascending)
           /\ s # t => Before(s, t, ascending) \/ Before(t, s, ascending)
           /\ \A u \in Texts : Before(s, t, ascending) /\ Before(t, u, ascending) => Before(s, u, ascending)
<1>1. CASE ascending = TRUE
  BY <1>1, LessIrreflexive, LessTotal, LessTransitive DEF Before
<1>2. CASE ascending = FALSE
  BY <1>2, LessIrreflexive, LessTotal, LessTransitive DEF Before
<1> QED BY <1>1, <1>2

SortedBy(s, key, ascending) ==
    \A i, j \in DOMAIN s : i < j => Before(key[s[i]], key[s[j]], ascending)

OneKeyEach(S, key) == \A x, y \in S : key[x] = key[y] => x = y

LEMMA SortingExists ==
    ASSUME NEW S, IsFiniteSet(S), NEW key \in [S -> Texts], OneKeyEach(S, key), NEW ascending \in BOOLEAN
    PROVE  \E s \in [1 .. Cardinality(S) -> S] : SortedBy(s, key, ascending)
<1> DEFINE B(x, y) == Before(key[x], key[y], ascending)
           Sorts(T, n) == \E s \in [1 .. n -> T] : SortedBy(s, key, ascending) /\ \A x \in T : \E i \in 1 .. n : s[i] = x
           m == Cardinality(S)
           Q == {n \in 0 .. m : \A T \in SUBSET S : Cardinality(T) = n => Sorts(T, n)}
<1>1. m \in Nat /\ \A T \in SUBSET S : IsFiniteSet(T) /\ Cardinality(T) \in Nat
  BY FS_CardinalityType, FS_Subset
<1>2. \A x, y, z \in S : /\ ~B(x, x) /\ (x # y => B(x, y) \/ B(y, x))
                         /\ B(x, y) /\ B(y, z) => B(x, z)
  <2>1. \A x \in S : key[x] \in Texts
    OBVIOUS
  <2>2. \A x, y \in S : x # y => key[x] # key[y]
    BY DEF OneKeyEach
  <2> QED BY <2>1, <2>2, BeforeOrder
<1>3. 0 \in Q
  <2>1. ASSUME NEW T \in SUBSET S, Cardinality(T) = 0 PROVE Sorts(T, 0)
    <3>1. T = {}
      BY <1>1, <2>1, FS_EmptySet
    <3> DEFINE s == [i \in 1 .. 0 |-> i]
    <3>2. s \in [1 .. 0 -> T] /\ DOMAIN s = {}
      OBVIOUS
    <3> HIDE DEF s
    <3>3. SortedBy(s, key, ascending)
      BY <3>2 DEF SortedBy
    <3> QED BY <3>1, <3>2, <3>3
  <2>2. 0 \in 0 .. m
    BY <1>1
  <2> HIDE DEF Sorts
  <2> QED BY <2>1, <2>2
<1>4. ASSUME NEW n \in 0 .. m - 1, n \in Q PROVE n + 1 \in Q
  <2>1. n \in Nat /\ n + 1 \in 0 .. m
    BY <1>1
  <2>2. ASSUME NEW T \in SUBSET S, Cardinality(T) = n + 1 PROVE Sorts(T, n + 1)
    <3>1. ASSUME NEW z \in T PROVE T \ {z} \in SUBSET S /\ Sorts(T \ {z}, n)
      <4>1. Cardinality(T \ {z}) = n
        <5>1. IsFiniteSet(T)
          BY <1>1
        <5>2. Cardinality(T \ {z}) = Cardinality(T) - 1
          BY <3>1, <5>1, FS_RemoveElement
        <5> QED BY <2>1, <2>2, <5>2
      <4> HIDE DEF Sorts
      <4> QED BY <1>4, <4>1
    <3>2. PICK x \in T : TRUE
      BY <1>1, <2>1, <2>2, FS_EmptySet
    <3>3. \E z \in T : \A y \in T \ {z} : B(y, z)
      <4>1. PICK s \in [1 .. n -> T \ {x}] : SortedBy(s, key, ascending) /\ \A y \in T \ {x} : \E i \in 1 .. n : s[i] = y
        BY <3>1
      <4>2. CASE n = 0
        <5>1. \A y \in T : y = x
          BY <4>1, <4>2
        <5> QED BY <5>1
      <4>3. CASE n # 0
        <5>1. n \in 1 .. n /\ s[n] \in T \ {x} /\ s[n] \in S /\ x \in S
          BY <2>1, <4>3
        <5>2. ASSUME NEW y \in T \ {x}, y # s[n] PROVE B(y, s[n])
          <6>1. PICK i \in 1 .. n : s[i] = y
            BY <4>1
          <6>2. i < n /\ i \in DOMAIN s /\ n \in DOMAIN s
            BY <2>1, <5>1, <5>2, <6>1
          <6> QED BY <4>1, <6>1, <6>2 DEF SortedBy
        <5>3. CASE B(s[n], x)
          <6>1. \A y \in T \ {x} : B(y, x)
            <7> HIDE DEF B
            <7> QED BY <1>2, <5>1, <5>2, <5>3
          <6> QED BY <6>1
        <5>4. CASE ~B(s[n], x)
          <6>1. \A y \in T \ {s[n]} : B(y, s[n])
            <7> HIDE DEF B
            <7> QED BY <1>2, <5>1, <5>2, <5>4
          <6> QED BY <5>1, <6>1
        <5> QED BY <5>3, <5>4
      <4> QED BY <4>2, <4>3
    <3>4. PICK z \in T : \A y \in T \ {z} : B(y, z)
      BY <3>3
    <3>5. PICK s \in [1 .. n -> T \ {z}] : SortedBy(s, key, ascending) /\ \A y \in T \ {z} : \E i \in 1 .. n : s[i] = y
      BY <3>1
    <3> DEFINE r == [i \in 1 .. n + 1 |-> IF i = n + 1 THEN z ELSE s[i]]
    <3>6. r \in [1 .. n + 1 -> T] /\ r[n + 1] = z /\ \A i \in 1 .. n : r[i] = s[i] /\ s[i] \in T \ {z}
      <4>1. \A i \in 1 .. n + 1 : i = n + 1 \/ i \in 1 .. n
        BY <2>1
      <4>2. \A i \in 1 .. n : i \in 1 .. n + 1 /\ i # n + 1
        BY <2>1
      <4>3. n + 1 \in 1 .. n + 1
        BY <2>1
      <4> QED BY <4>1, <4>2, <4>3
    <3> HIDE DEF r
    <3>7. SortedBy(r, key, ascending)
      <4>1. ASSUME NEW i \in 1 .. n + 1, NEW j \in 1 .. n + 1, i < j PROVE B(r[i], r[j])
        <5>1. i \in 1 .. n
          BY <2>1, <4>1
        <5>2. CASE j = n + 1
          BY <3>4, <3>6, <5>1, <5>2
        <5>3. CASE j # n + 1
          <6>1. j \in 1 .. n
            BY <2>1, <5>3
          <6>2. B(s[i], s[j])
            BY <3>5, <4>1, <5>1, <6>1 DEF SortedBy
          <6> QED BY <3>6, <5>1, <6>1, <6>2
        <5> QED BY <5>2, <5>3
      <4> QED BY <3>6, <4>1 DEF SortedBy
    <3>8. \A y \in T : \E i \in 1 .. n + 1 : r[i] = y
      <4>1. n + 1 \in 1 .. n + 1 /\ \A i \in 1 .. n : i \in 1 .. n + 1
        BY <2>1
      <4>2. ASSUME NEW y \in T, y # z PROVE \E i \in 1 .. n + 1 : r[i] = y
        BY <3>5, <3>6, <4>1, <4>2
      <4> QED BY <3>6, <4>1, <4>2
    <3> QED BY <3>6, <3>7, <3>8
  <2> HIDE DEF Sorts
  <2> QED BY <2>1, <2>2
<1>5. m \in Q
  <2> HIDE DEF Q
  <2>1. \A n \in 0 .. m : n \in Q
    BY <1>1, <1>3, <1>4, UpTo
  <2>2. m \in 0 .. m
    BY <1>1
  <2> QED BY <2>1, <2>2
<1>6. Sorts(S, m)
  <2> HIDE DEF Sorts
  <2>1. S \in SUBSET S /\ Cardinality(S) = m
    OBVIOUS
  <2> QED BY <1>5, <2>1
<1> QED BY <1>6

\* A buffer whose items have different keys is sorted, and nothing is lost.
LEMMA SortIs ==
    ASSUME NEW buffer, IsFiniteSet(ToSet(buffer)), NEW key, \A x \in ToSet(buffer) : key[x] \in Texts,
           OneKeyEach(ToSet(buffer), key), NEW ascending \in BOOLEAN
    PROVE  LET s == SortAndSave(buffer, key, ascending)
           IN  /\ s \in Seq(ToSet(buffer)) /\ SortedBy(s, key, ascending)
               /\ Len(s) = Cardinality(ToSet(buffer)) /\ ToSet(s) = ToSet(buffer)
<1> DEFINE S == ToSet(buffer)
           n == Cardinality(S)
           r == SortAndSave(buffer, key, ascending)
           k == [x \in S |-> key[x]]
<1>1. n \in Nat
  BY FS_CardinalityType
<1>2. k \in [S -> Texts] /\ OneKeyEach(S, k) /\ \A x \in S : k[x] = key[x]
  BY DEF OneKeyEach
<1>3. PICK t \in [1 .. n -> S] : SortedBy(t, k, ascending)
  <2> HIDE DEF S, k
  <2>1. IsFiniteSet(S)
    BY DEF S
  <2> QED BY <1>2, <2>1, SortingExists
<1> HIDE DEF k, S
<1>4. \A i, j \in 1 .. n : i < j => Before(key[t[i]], key[t[j]], ascending)
  BY <1>2, <1>3 DEF SortedBy
<1>5. ASSUME NEW s \in [1 .. n -> S], \A i, j \in 1 .. n : i < j => Before(key[s[i]], key[s[j]], ascending)
      PROVE  \A i, j \in 1 .. n : i # j => s[i] # s[j]
  <2> SUFFICES ASSUME NEW i \in 1 .. n, NEW j \in 1 .. n, i # j, s[i] = s[j] PROVE FALSE
    OBVIOUS
  <2>1. i < j \/ j < i
    BY <1>1
  <2>2. Before(key[s[i]], key[s[i]], ascending)
    BY <1>5, <2>1
  <2>3. key[s[i]] \in Texts
    BY DEF S
  <2> QED BY <2>2, <2>3, BeforeOrder
<1>6. t \in SetToSeqs(S)
  BY <1>3, <1>4, <1>5 DEF SetToSeqs
<1>7. r \in SetToSeqs(S) /\ \A i, j \in DOMAIN r : i < j => Before(key[r[i]], key[r[j]], ascending)
  <2>1. \A i, j \in DOMAIN t : i < j => Before(key[t[i]], key[t[j]], ascending)
    BY <1>3, <1>4
  <2> QED BY <1>6, <2>1 DEF SortAndSave, S
<1> HIDE DEF r
<1>8. r \in [1 .. n -> S] /\ \A i, j \in 1 .. n : i # j => r[i] # r[j]
  BY <1>7 DEF SetToSeqs
<1>9. r \in Seq(S) /\ Len(r) = n
  BY <1>1, <1>8
<1>10. SortedBy(r, key, ascending)
  BY <1>7 DEF SortedBy
<1>11. ASSUME NEW x \in S PROVE x \in ToSet(r)
  <2> SUFFICES ASSUME x \notin ToSet(r) PROVE FALSE
    OBVIOUS
  <2>1. IsFiniteSet(S \ {x}) /\ Cardinality(S \ {x}) = n - 1
    BY <1>11, FS_RemoveElement DEF S
  <2>2. IsFiniteSet(1 .. n) /\ Cardinality(1 .. n) = n
    <3>1. Cardinality(1 .. n) = (IF 1 > n THEN 0 ELSE n - 1 + 1)
      BY <1>1, FS_Interval
    <3> QED BY <1>1, <3>1, FS_Interval
  <2>3. r \in [1 .. n -> S \ {x}]
    BY <1>8 DEF ToSet
  <2>4. Cardinality(S \ {x}) < Cardinality(1 .. n)
    BY <1>1, <2>1, <2>2
  <2>5. \E i, j \in 1 .. n : i # j /\ r[i] = r[j]
    BY <2>1, <2>2, <2>3, <2>4, FS_PigeonHole
  <2> QED BY <1>8, <2>5
<1>12. ToSet(r) = S
  <2>1. DOMAIN r = 1 .. n
    BY <1>8
  <2>2. ToSet(r) \subseteq S
    BY <1>8, <2>1 DEF ToSet
  <2> QED BY <1>11, <2>2
<1> QED BY <1>9, <1>10, <1>12 DEF r, S

\* What SplitAndSort does with an item.
Put(f, item, key, ascending) ==
    IF \E n \in DOMAIN f.buffer : key[f.buffer[n]] = key[item] THEN f
    ELSE LET buffer == Append(f.buffer, item)
         IN IF Len(buffer) = BufferSize
              THEN [buffer |-> <<>>, saved |-> Append(f.saved, SortAndSave(buffer, key, ascending))]
              ELSE [f EXCEPT !.buffer = buffer]

NoBuffers == [buffer |-> <<>>, saved |-> <<>>]

\* Every reader is sorted.
AllSorted(r, key, ascending) == \A i \in DOMAIN r : SortedBy(r[i], key, ascending)

\* No two items of a buffer have the same key.
Apiece(s, key) == \A i, j \in DOMAIN s : i # j => key[s[i]] # key[s[j]]

Buffers(S, key, ascending) ==
    {f \in [buffer : Seq(S), saved : Seq(Seq(S))] : Apiece(f.buffer, key) /\ AllSorted(f.saved, key, ascending)}

\* Some reader has an item with x's key.
InReaders(r, key, x) == \E i \in DOMAIN r : \E n \in DOMAIN r[i] : key[r[i][n]] = key[x]
InBuffers(f, key, x) == (\E n \in DOMAIN f.buffer : key[f.buffer[n]] = key[x]) \/ InReaders(f.saved, key, x)

\* A reader more.
LEMMA AppendReader ==
    ASSUME NEW S, NEW r \in Seq(Seq(S)), NEW s \in Seq(S), NEW key, NEW ascending \in BOOLEAN,
           AllSorted(r, key, ascending), SortedBy(s, key, ascending)
    PROVE  /\ Append(r, s) \in Seq(Seq(S)) /\ AllSorted(Append(r, s), key, ascending)
           /\ Len(Append(r, s)) = Len(r) + 1
           /\ \A x : InReaders(r, key, x) => InReaders(Append(r, s), key, x)
           /\ \A x \in ToSet(s) : InReaders(Append(r, s), key, x)
<1> DEFINE t == Append(r, s)
<1>1. /\ t \in Seq(Seq(S)) /\ Len(t) = Len(r) + 1 /\ Len(r) \in Nat
      /\ t[Len(r) + 1] = s /\ \A i \in 1 .. Len(r) : t[i] = r[i]
  BY AppendProperties
<1>2. DOMAIN r = 1 .. Len(r) /\ DOMAIN t = 1 .. Len(r) + 1
  BY <1>1
<1>3. /\ Len(r) + 1 \in DOMAIN t
      /\ \A i \in DOMAIN r : i \in DOMAIN t
      /\ \A i \in DOMAIN t : i \in DOMAIN r \/ i = Len(r) + 1
  BY <1>1, <1>2
<1> HIDE DEF t
<1>4. AllSorted(t, key, ascending)
  BY <1>1, <1>2, <1>3 DEF AllSorted
<1>5. \A x : InReaders(r, key, x) => InReaders(t, key, x)
  BY <1>1, <1>2, <1>3 DEF InReaders
<1>6. \A x \in ToSet(s) : InReaders(t, key, x)
  BY <1>1, <1>3 DEF InReaders, ToSet
<1> QED BY <1>1, <1>4, <1>5, <1>6 DEF t

\* An item more.
LEMMA AppendItem ==
    ASSUME NEW S, NEW s \in Seq(S), NEW item \in S
    PROVE  /\ Append(s, item) \in Seq(S) /\ Len(Append(s, item)) = Len(s) + 1
           /\ ToSet(Append(s, item)) = ToSet(s) \cup {item}
<1> DEFINE t == Append(s, item)
<1>1. /\ t \in Seq(S) /\ Len(t) = Len(s) + 1 /\ Len(s) \in Nat
      /\ t[Len(s) + 1] = item /\ \A i \in 1 .. Len(s) : t[i] = s[i]
  BY AppendProperties
<1>2. DOMAIN s = 1 .. Len(s) /\ DOMAIN t = 1 .. Len(s) + 1
  BY <1>1
<1>3. /\ Len(s) + 1 \in DOMAIN t
      /\ \A i \in DOMAIN s : i \in DOMAIN t
      /\ \A i \in DOMAIN t : i \in DOMAIN s \/ i = Len(s) + 1
  BY <1>1, <1>2
<1> HIDE DEF t
<1>4. ToSet(t) = ToSet(s) \cup {item}
  BY <1>1, <1>2, <1>3 DEF ToSet
<1> QED BY <1>1, <1>4 DEF t

LEMMA SavedIs ==
    ASSUME NEW S, IsFiniteSet(S), NEW key, \A x \in S : key[x] \in Texts, NEW ascending \in BOOLEAN,
           NEW buffer \in Seq(S), Apiece(buffer, key)
    PROVE  /\ SortAndSave(buffer, key, ascending) \in Seq(S)
           /\ SortedBy(SortAndSave(buffer, key, ascending), key, ascending)
           /\ ToSet(SortAndSave(buffer, key, ascending)) = ToSet(buffer)
<1> DEFINE s == SortAndSave(buffer, key, ascending)
<1>1. ToSet(buffer) \in SUBSET S
  BY DEF ToSet
<1>2. IsFiniteSet(ToSet(buffer))
  BY <1>1, FS_Subset
<1>3. OneKeyEach(ToSet(buffer), key)
  BY DEF OneKeyEach, ToSet, Apiece
<1>4. \A x \in ToSet(buffer) : key[x] \in Texts
  BY <1>1
<1>5. s \in Seq(ToSet(buffer)) /\ SortedBy(s, key, ascending) /\ ToSet(s) = ToSet(buffer)
  BY <1>2, <1>3, <1>4, SortIs
<1>6. s \in Seq(S)
  <2> HIDE DEF s
  <2> QED BY <1>1, <1>5, SeqMonotonic
<1> QED BY <1>5, <1>6

LEMMA PutIs ==
    ASSUME NEW S, IsFiniteSet(S), NEW key, \A x \in S : key[x] \in Texts, NEW ascending \in BOOLEAN,
           NEW f \in Buffers(S, key, ascending), NEW item \in S
    PROVE  LET g == Put(f, item, key, ascending)
           IN  /\ g \in Buffers(S, key, ascending) /\ InBuffers(g, key, item)
               /\ \A x \in S : InBuffers(f, key, x) => InBuffers(g, key, x)
               /\ \/ g = f
                  \/ g.saved = f.saved /\ Len(g.buffer) = Len(f.buffer) + 1
                  \/ g.buffer = <<>> /\ Len(g.saved) = Len(f.saved) + 1 /\ Len(f.buffer) + 1 = BufferSize
<1> DEFINE g == Put(f, item, key, ascending)
           b == Append(f.buffer, item)
           r == SortAndSave(b, key, ascending)
<1>1. /\ f \in [buffer : Seq(S), saved : Seq(Seq(S))] /\ f.buffer \in Seq(S) /\ f.saved \in Seq(Seq(S))
      /\ Apiece(f.buffer, key) /\ AllSorted(f.saved, key, ascending)
  BY DEF Buffers
<1>2. CASE \E n \in DOMAIN f.buffer : key[f.buffer[n]] = key[item]
  <2>1. g = f
    BY <1>2 DEF Put
  <2>2. InBuffers(f, key, item)
    BY <1>2 DEF InBuffers
  <2> HIDE DEF g
  <2>3. g \in Buffers(S, key, ascending) /\ InBuffers(g, key, item) /\ \A x \in S : InBuffers(f, key, x) => InBuffers(g, key, x)
    BY <2>1, <2>2
  <2> QED BY <2>1, <2>3 DEF g
<1>3. CASE ~\E n \in DOMAIN f.buffer : key[f.buffer[n]] = key[item]
  <2>1. /\ b \in Seq(S) /\ Len(b) = Len(f.buffer) + 1 /\ ToSet(b) = ToSet(f.buffer) \cup {item}
        /\ Len(f.buffer) \in Nat
        /\ b[Len(f.buffer) + 1] = item /\ \A i \in 1 .. Len(f.buffer) : b[i] = f.buffer[i]
    BY <1>1, AppendItem, AppendProperties
  <2>2. DOMAIN f.buffer = 1 .. Len(f.buffer) /\ DOMAIN b = 1 .. Len(f.buffer) + 1
    BY <1>1, <2>1
  <2>3. Apiece(b, key)
    <3>1. \A i \in DOMAIN b : i \in DOMAIN f.buffer \/ i = Len(f.buffer) + 1
      BY <2>1, <2>2
    <3> HIDE DEF b
    <3>2. \A i, j \in DOMAIN f.buffer : i # j => key[b[i]] # key[b[j]]
      BY <1>1, <2>1, <2>2 DEF Apiece
    <3>3. \A i \in DOMAIN f.buffer : key[b[i]] # key[item]
      BY <1>3, <2>1, <2>2
    <3> QED BY <2>1, <3>1, <3>2, <3>3 DEF Apiece
  <2>4. \A x \in S : (\E n \in DOMAIN f.buffer : key[f.buffer[n]] = key[x]) \/ x = item => \E n \in DOMAIN b : key[b[n]] = key[x]
    <3>1. Len(f.buffer) + 1 \in DOMAIN b /\ \A n \in DOMAIN f.buffer : n \in DOMAIN b
      BY <2>1, <2>2
    <3> HIDE DEF b
    <3> QED BY <2>1, <2>2, <3>1
  <2>5. CASE Len(b) = BufferSize
    <3>1. g = [buffer |-> <<>>, saved |-> Append(f.saved, r)]
      BY <1>3, <2>5 DEF Put
    <3>2. r \in Seq(S) /\ SortedBy(r, key, ascending) /\ ToSet(r) = ToSet(b)
      <4> HIDE DEF b
      <4> QED BY <2>1, <2>3, SavedIs
    <3> HIDE DEF r
    <3>3. /\ Append(f.saved, r) \in Seq(Seq(S)) /\ AllSorted(Append(f.saved, r), key, ascending)
          /\ Len(Append(f.saved, r)) = Len(f.saved) + 1
          /\ \A x : InReaders(f.saved, key, x) => InReaders(Append(f.saved, r), key, x)
          /\ \A x \in ToSet(r) : InReaders(Append(f.saved, r), key, x)
      BY <1>1, <3>2, AppendReader
    <3> DEFINE q == Append(f.saved, r)
    <3> HIDE DEF q, b
    <3>4. /\ g.buffer = <<>> /\ g.saved = q /\ g = [buffer |-> <<>>, saved |-> q]
      BY <3>1 DEF q
    <3> HIDE DEF g
    <3>5. Apiece(<<>>, key) /\ <<>> \in Seq(S)
      <4>1. DOMAIN <<>> = {} /\ <<>> \in Seq(S)
        OBVIOUS
      <4> QED BY <4>1 DEF Apiece
    <3>6. g \in Buffers(S, key, ascending)
      BY <3>3, <3>4, <3>5 DEF Buffers, q
    <3>7. ASSUME NEW x \in S, InBuffers(f, key, x) \/ x = item PROVE InBuffers(g, key, x)
      <4>1. CASE InReaders(f.saved, key, x)
        BY <3>3, <3>4, <4>1 DEF InBuffers, q
      <4>2. CASE (\E n \in DOMAIN f.buffer : key[f.buffer[n]] = key[x]) \/ x = item
        <5>1. PICK n \in DOMAIN b : key[b[n]] = key[x]
          BY <2>4, <4>2
        <5>2. InReaders(q, key, b[n])
          BY <3>2, <3>3 DEF ToSet, q
        <5>3. InReaders(q, key, x)
          BY <5>1, <5>2 DEF InReaders
        <5> QED BY <3>4, <5>3 DEF InBuffers
      <4> QED BY <3>7, <4>1, <4>2 DEF InBuffers
    <3>8. Len(g.saved) = Len(f.saved) + 1 /\ Len(f.buffer) + 1 = BufferSize
      BY <2>1, <2>5, <3>3, <3>4 DEF q
    <3>9. \A x \in S : InBuffers(f, key, x) => InBuffers(g, key, x)
      BY <3>7
    <3>10. InBuffers(g, key, item)
      BY <3>7
    <3> QED BY <3>4, <3>6, <3>8, <3>9, <3>10 DEF g
  <2>6. CASE Len(b) # BufferSize
    <3>1. g = [f EXCEPT !.buffer = b]
      BY <1>3, <2>6 DEF Put
    <3> HIDE DEF b
    <3>2. g.buffer = b /\ g.saved = f.saved /\ g \in [buffer : Seq(S), saved : Seq(Seq(S))]
      BY <1>1, <2>1, <3>1
    <3> HIDE DEF g
    <3>3. g \in Buffers(S, key, ascending)
      BY <1>1, <2>3, <3>2 DEF Buffers
    <3>4. ASSUME NEW x \in S, InBuffers(f, key, x) \/ x = item PROVE InBuffers(g, key, x)
      BY <2>4, <3>2, <3>4 DEF InBuffers
    <3>5. Len(g.buffer) = Len(f.buffer) + 1
      BY <2>1, <3>2
    <3>6. InBuffers(g, key, item) /\ \A x \in S : InBuffers(f, key, x) => InBuffers(g, key, x)
      BY <3>4
    <3> QED BY <3>2, <3>3, <3>5, <3>6 DEF g
  <2> QED BY <2>5, <2>6
<1> QED BY <1>2, <1>3

\* What SplitAndSort ends with.
Saved(f, key, ascending) ==
    IF f.buffer = <<>> THEN f.saved
    ELSE Append(f.saved, SortAndSave(f.buffer, key, ascending))

(* SplitAndSort, one item after the other.                                    *)
LEMMA PutRuns ==
    ASSUME NEW S, IsFiniteSet(S), NEW key, \A x \in S : key[x] \in Texts, NEW ascending \in BOOLEAN, NEW items \in Seq(S)
    PROVE  \E v \in [0 .. Len(items) -> Buffers(S, key, ascending)] :
               /\ v[0] = NoBuffers /\ \A k \in 1 .. Len(items) : v[k] = Put(v[k - 1], items[k], key, ascending)
               /\ SplitAndSort(items, key, ascending) = Saved(v[Len(items)], key, ascending)
<1> DEFINE n == Len(items)
           Def(f) == f = [s \in SUBSET DOMAIN items |-> IF s = {} THEN NoBuffers ELSE Put(f[s \ {Max(s)}], items[Max(s)], key, ascending)]
           fold == CHOOSE f : Def(f)
<1>1. n \in Nat /\ DOMAIN items = 1 .. n
  OBVIOUS
<1>2. SplitAndSort(items, key, ascending) = Saved(fold[1 .. n], key, ascending)
  <2>1. SplitAndSort(items, key, ascending) = Saved(fold[DOMAIN items], key, ascending)
    BY DEF Saved, SplitAndSort, Put, NoBuffers, FoldLeft, MapThenFoldSet
  <2> QED BY <1>1, <2>1
<1>3. ASSUME NEW f \in Buffers(S, key, ascending), NEW k \in 1 .. n PROVE Put(f, items[k], key, ascending) \in Buffers(S, key, ascending)
  BY PutIs
<1>4. NoBuffers \in Buffers(S, key, ascending)
  BY DEF NoBuffers, Buffers, Apiece, AllSorted
<1>5. \E f : Def(f)
  <2> DEFINE step == [p \in (Buffers(S, key, ascending)) \X (1 .. n) |-> Put(p[1], items[p[2]], key, ascending)]
  <2>1. step \in [(Buffers(S, key, ascending)) \X (1 .. n) -> Buffers(S, key, ascending)]
    <3> HIDE DEF n
    <3> QED BY <1>3
  <2>2. ASSUME NEW f \in Buffers(S, key, ascending), NEW k \in 1 .. n PROVE step[f, k] = Put(f, items[k], key, ascending)
    <3> HIDE DEF n
    <3> QED OBVIOUS
  <2> HIDE DEF step
  <2>3. PICK f \in [SUBSET (1 .. n) -> Buffers(S, key, ascending)] : Folds(n, NoBuffers, step, f)
    BY <1>1, <1>4, <2>1, FoldExists
  <2>4. ASSUME NEW s \in SUBSET (1 .. n), s # {}
        PROVE  step[f[s \ {Max(s)}], Max(s)] = Put(f[s \ {Max(s)}], items[Max(s)], key, ascending)
    <3>1. Max(s) \in s
      BY <1>1, <2>4, MaxIn
    <3>2. s \ {Max(s)} \in SUBSET (1 .. n)
      OBVIOUS
    <3> QED BY <2>2, <3>1, <3>2
  <2>5. f = [s \in SUBSET (1 .. n) |-> IF s = {} THEN NoBuffers ELSE Put(f[s \ {Max(s)}], items[Max(s)], key, ascending)]
    BY <2>3, <2>4 DEF Folds
  <2> QED BY <1>1, <2>5
<1>6. Def(fold)
  BY <1>5
<1> HIDE DEF fold
<1>7. \A s \in SUBSET (1 .. n) : fold[s] = IF s = {} THEN NoBuffers ELSE Put(fold[s \ {Max(s)}], items[Max(s)], key, ascending)
  BY <1>1, <1>6
<1> HIDE DEF Def
<1> DEFINE v == [k \in 0 .. n |-> fold[1 .. k]]
<1>8. v[0] = NoBuffers
  <2>1. fold[1 .. 0] = NoBuffers
    BY <1>1, <1>7, Intervals
  <2> QED BY <1>1, <2>1
<1>9. ASSUME NEW k \in 1 .. n PROVE v[k] = Put(v[k - 1], items[k], key, ascending)
  <2>1. /\ 1 .. k \in SUBSET (1 .. n) /\ 1 .. k # {}
        /\ Max(1 .. k) = k /\ (1 .. k) \ {k} = 1 .. k - 1
    BY <1>1, Intervals
  <2>2. fold[1 .. k] = Put(fold[(1 .. k) \ {Max(1 .. k)}], items[Max(1 .. k)], key, ascending)
    BY <1>7, <2>1
  <2>3. v[k] = fold[1 .. k] /\ v[k - 1] = fold[1 .. k - 1]
    BY <1>1
  <2> HIDE DEF v
  <2> QED BY <2>1, <2>2, <2>3
<1>10. v[n] = fold[1 .. n] /\ DOMAIN v = 0 .. n
  BY <1>1
<1>11. \A k \in 0 .. n : v[k] \in Buffers(S, key, ascending)
  <2> DEFINE K == {k \in 0 .. n : v[k] \in Buffers(S, key, ascending)}
  <2> HIDE DEF v
  <2>1. 0 \in K
    BY <1>1, <1>4, <1>8
  <2>2. ASSUME NEW k \in 0 .. n - 1, k \in K PROVE k + 1 \in K
    <3>1. k + 1 \in 1 .. n /\ k + 1 \in 0 .. n /\ (k + 1) - 1 = k
      BY <1>1
    <3>2. v[k + 1] = Put(v[k], items[k + 1], key, ascending)
      BY <1>9, <3>1
    <3> QED BY <1>3, <2>2, <3>1, <3>2
  <2> HIDE DEF K
  <2>3. \A k \in 0 .. n : k \in K
    BY <1>1, <2>1, <2>2, UpTo
  <2> QED BY <2>3 DEF K
<1>12. v \in [0 .. n -> Buffers(S, key, ascending)]
  BY <1>10, <1>11
<1> HIDE DEF v
<1> QED BY <1>2, <1>8, <1>9, <1>10, <1>12

LEMMA SeqOfElements ==
    ASSUME NEW S, NEW s \in Seq(S)
    PROVE  /\ s \in Seq(ToSet(s)) /\ ToSet(s) \subseteq S /\ IsFiniteSet(ToSet(s))
           /\ Cardinality(ToSet(s)) <= Len(s)
<1>1. s \in Seq(ToSet(s)) /\ ToSet(s) \subseteq S
  <2>1. Len(s) \in Nat /\ DOMAIN s = 1 .. Len(s)
    OBVIOUS
  <2>2. \A i \in 1 .. Len(s) : s[i] \in ToSet(s)
    BY <2>1 DEF ToSet
  <2>3. s = [i \in 1 .. Len(s) |-> s[i]]
    OBVIOUS
  <2> HIDE DEF ToSet
  <2>4. s \in [1 .. Len(s) -> ToSet(s)]
    BY <2>2, <2>3
  <2>5. s \in Seq(ToSet(s))
    BY <2>1, <2>4, SeqDef
  <2> QED BY <2>5 DEF ToSet
<1>2. IsFiniteSet(ToSet(s)) /\ Cardinality(ToSet(s)) <= Len(s)
  <2>1. Len(s) \in Nat /\ DOMAIN s = 1 .. Len(s)
    OBVIOUS
  <2>2. IsFiniteSet(1 .. Len(s))
    BY <2>1, FS_Interval
  <2>3. s \in Surjection(1 .. Len(s), ToSet(s))
    <3>1. s \in [1 .. Len(s) -> ToSet(s)] /\ \A x \in ToSet(s) : \E i \in 1 .. Len(s) : s[i] = x
      <4>1. \A i \in 1 .. Len(s) : s[i] \in ToSet(s)
        BY <2>1 DEF ToSet
      <4>2. \A x \in ToSet(s) : \E i \in 1 .. Len(s) : s[i] = x
        BY <2>1 DEF ToSet
      <4>3. s = [i \in 1 .. Len(s) |-> s[i]]
        OBVIOUS
      <4> HIDE DEF ToSet
      <4> QED BY <4>1, <4>2, <4>3
    <3> QED BY <3>1 DEF Surjection
  <2>4. Cardinality(1 .. Len(s)) = Len(s)
    BY <2>1, FS_Interval
  <2> QED BY <2>2, <2>3, <2>4, FS_Surjection
<1> QED BY <1>1, <1>2

LEMMA SavedLast ==
    ASSUME NEW S, IsFiniteSet(S), NEW key, \A x \in S : key[x] \in Texts, NEW ascending \in BOOLEAN,
           NEW f \in Buffers(S, key, ascending)
    PROVE  LET r == Saved(f, key, ascending)
           IN  /\ r \in Seq(Seq(S)) /\ AllSorted(r, key, ascending)
               /\ \A x \in S : InBuffers(f, key, x) => InReaders(r, key, x)
               /\ Len(r) = Len(f.saved) + (IF f.buffer = <<>> THEN 0 ELSE 1)
<1> DEFINE r == Saved(f, key, ascending)
           b == SortAndSave(f.buffer, key, ascending)
<1>1. /\ f.buffer \in Seq(S) /\ f.saved \in Seq(Seq(S))
      /\ Apiece(f.buffer, key) /\ AllSorted(f.saved, key, ascending)
  BY DEF Buffers
<1>2. CASE f.buffer = <<>>
  <2>1. r = f.saved
    BY <1>2 DEF Saved
  <2>2. Len(f.saved) \in Nat /\ DOMAIN f.buffer = {}
    BY <1>1, <1>2
  <2>3. \A x \in S : InBuffers(f, key, x) => InReaders(f.saved, key, x)
    BY <2>2 DEF InBuffers
  <2> HIDE DEF r
  <2>4. Len(r) = Len(f.saved) + 0
    BY <2>1, <2>2
  <2> QED BY <1>1, <1>2, <2>1, <2>3, <2>4 DEF r
<1>3. CASE f.buffer # <<>>
  <2>1. r = Append(f.saved, b)
    BY <1>3 DEF Saved
  <2>2. b \in Seq(S) /\ SortedBy(b, key, ascending) /\ ToSet(b) = ToSet(f.buffer)
    BY <1>1, SavedIs
  <2> HIDE DEF b, r
  <2>3. /\ Append(f.saved, b) \in Seq(Seq(S)) /\ AllSorted(Append(f.saved, b), key, ascending)
        /\ Len(Append(f.saved, b)) = Len(f.saved) + 1
        /\ \A x : InReaders(f.saved, key, x) => InReaders(Append(f.saved, b), key, x)
        /\ \A x \in ToSet(b) : InReaders(Append(f.saved, b), key, x)
    BY <1>1, <2>2, AppendReader
  <2>4. r \in Seq(Seq(S)) /\ AllSorted(r, key, ascending) /\ Len(r) = Len(f.saved) + 1
    BY <2>1, <2>3
  <2>5. ASSUME NEW x \in S, InBuffers(f, key, x) PROVE InReaders(r, key, x)
    <3>1. CASE InReaders(f.saved, key, x)
      BY <2>1, <2>3, <3>1
    <3>2. CASE \E n \in DOMAIN f.buffer : key[f.buffer[n]] = key[x]
      <4>1. PICK n \in DOMAIN f.buffer : key[f.buffer[n]] = key[x]
        BY <3>2
      <4>2. f.buffer[n] \in ToSet(b)
        BY <2>2 DEF ToSet
      <4>3. InReaders(r, key, f.buffer[n])
        BY <2>1, <2>3, <4>2
      <4> QED BY <4>1, <4>3 DEF InReaders
    <3> QED BY <2>5, <3>1, <3>2 DEF InBuffers
  <2> QED BY <1>3, <2>4, <2>5 DEF r
<1> QED BY <1>2, <1>3

(* What is split is there again, by its key, in sorted readers; one of them   *)
(* is enough for what one buffer holds.                                       *)
LEMMA SplitIs ==
    ASSUME NEW S, IsFiniteSet(S), NEW key, \A x \in S : key[x] \in Texts, NEW ascending \in BOOLEAN,
           NEW items \in Seq(S)
    PROVE  LET r == SplitAndSort(items, key, ascending)
           IN  /\ r \in Seq(Seq(S)) /\ AllSorted(r, key, ascending)
               /\ \A x \in ToSet(items) : InReaders(r, key, x)
               /\ Len(items) <= BufferSize => Len(r) <= 1
<1> DEFINE n == Len(items)
           r == SplitAndSort(items, key, ascending)
<1>1. PICK v \in [0 .. n -> Buffers(S, key, ascending)] :
          /\ v[0] = NoBuffers /\ \A k \in 1 .. n : v[k] = Put(v[k - 1], items[k], key, ascending)
          /\ r = Saved(v[n], key, ascending)
  BY PutRuns
<1>2. n \in Nat /\ \A k \in 1 .. n : items[k] \in S
  OBVIOUS
<1> HIDE DEF n, r
<1>3. ASSUME NEW k \in 0 .. n - 1
      PROVE  /\ k + 1 \in 1 .. n /\ k \in 0 .. n /\ k + 1 \in 0 .. n
             /\ v[k] \in Buffers(S, key, ascending) /\ v[k + 1] \in Buffers(S, key, ascending)
             /\ InBuffers(v[k + 1], key, items[k + 1])
             /\ \A x \in S : InBuffers(v[k], key, x) => InBuffers(v[k + 1], key, x)
             /\ \/ v[k + 1] = v[k]
                \/ v[k + 1].saved = v[k].saved /\ Len(v[k + 1].buffer) = Len(v[k].buffer) + 1
                \/ /\ v[k + 1].buffer = <<>> /\ Len(v[k + 1].saved) = Len(v[k].saved) + 1
                   /\ Len(v[k].buffer) + 1 = BufferSize
  <2>1. k + 1 \in 1 .. n /\ k \in 0 .. n /\ k + 1 \in 0 .. n /\ (k + 1) - 1 = k
    BY <1>2
  <2>2. v[k] \in Buffers(S, key, ascending) /\ items[k + 1] \in S /\ v[k + 1] = Put(v[k], items[k + 1], key, ascending)
        /\ v[k + 1] \in Buffers(S, key, ascending)
    BY <1>1, <1>2, <2>1
  <2> QED BY <2>1, <2>2, PutIs
<1>4. v[n] \in Buffers(S, key, ascending)
  BY <1>1, <1>2
<1>5. \A x \in ToSet(items) : x \in S /\ InBuffers(v[n], key, x)
  <2> DEFINE K == {k \in 0 .. n : \A i \in 1 .. k : i \in 1 .. n => InBuffers(v[k], key, items[i])}
  <2>1. 0 \in K
    BY <1>2
  <2>2. ASSUME NEW k \in 0 .. n - 1, k \in K PROVE k + 1 \in K
    <3>1. ASSUME NEW i \in 1 .. k + 1, i \in 1 .. n PROVE InBuffers(v[k + 1], key, items[i])
      <4>1. i \in 1 .. k \/ i = k + 1
        BY <1>2
      <4>2. items[i] \in S
        BY <1>2, <3>1
      <4> QED BY <1>3, <2>2, <3>1, <4>1, <4>2
    <3> QED BY <1>3, <3>1
  <2>3. \A k \in 0 .. n : k \in K
    <3> HIDE DEF K
    <3> QED BY <1>2, <2>1, <2>2, UpTo
  <2>4. n \in K
    <3> HIDE DEF K
    <3> QED BY <1>2, <2>3
  <2>5. DOMAIN items = 1 .. n
    BY DEF n
  <2> QED BY <1>2, <2>4, <2>5 DEF ToSet
<1>6. ASSUME n <= BufferSize PROVE Len(v[n].saved) + (IF v[n].buffer = <<>> THEN 0 ELSE 1) <= 1
  <2> DEFINE Early(k) == Len(v[k].saved) = 0 /\ Len(v[k].buffer) <= k
             Late(k) == k = BufferSize /\ Len(v[k].saved) = 1 /\ v[k].buffer = <<>>
             K == {k \in 0 .. n : Early(k) \/ Late(k)}
  <2>1. ASSUME NEW k \in 0 .. n PROVE Len(v[k].buffer) \in Nat /\ Len(v[k].saved) \in Nat
    BY <1>1 DEF Buffers
  <2>2. 0 \in K
    BY <1>1, <1>2 DEF NoBuffers
  <2>3. ASSUME NEW k \in 0 .. n - 1, k \in K PROVE k + 1 \in K
    <3>1. Early(k)
      BY <1>2, <1>6, <2>3, BufferAssumption
    <3> DEFINE a == Len(v[k].buffer)
               b == Len(v[k + 1].buffer)
               c == Len(v[k].saved)
               d == Len(v[k + 1].saved)
    <3>2. /\ k + 1 \in 1 .. n /\ k \in 0 .. n /\ k + 1 \in 0 .. n
          /\ \/ v[k + 1] = v[k]
             \/ v[k + 1].saved = v[k].saved /\ b = a + 1
             \/ v[k + 1].buffer = <<>> /\ d = c + 1 /\ a + 1 = BufferSize
      BY <1>3
    <3>3. a \in Nat /\ b \in Nat /\ c = 0 /\ d \in Nat /\ a <= k
      BY <2>1, <3>1, <3>2
    <3>4. CASE v[k + 1] = v[k]
      <4>1. Early(k + 1)
        BY <3>1, <3>3, <3>4
      <4> QED BY <3>2, <4>1
    <3>5. CASE v[k + 1].saved = v[k].saved /\ b = a + 1
      <4>1. d = 0
        BY <3>3, <3>5
      <4> HIDE DEF a, c
      <4>2. Early(k + 1)
        BY <3>3, <3>5, <4>1
      <4> QED BY <3>2, <4>2
    <3>6. CASE v[k + 1].buffer = <<>> /\ d = c + 1 /\ a + 1 = BufferSize
      <4>1. d = 1 /\ k + 1 = BufferSize
        <5> HIDE DEF a, b, c, d
        <5> QED BY <1>2, <1>6, <3>3, <3>6, BufferAssumption
      <4>2. Late(k + 1)
        BY <3>6, <4>1
      <4> QED BY <3>2, <4>2
    <3> QED BY <3>2, <3>4, <3>5, <3>6
  <2>4. n \in K
    <3> HIDE DEF K
    <3>1. \A k \in 0 .. n : k \in K
      BY <1>2, <2>2, <2>3, UpTo
    <3> QED BY <1>2, <3>1
  <2>5. Len(v[n].saved) \in Nat
    BY <1>2, <2>1
  <2> QED BY <2>4, <2>5
<1>7. /\ r \in Seq(Seq(S)) /\ AllSorted(r, key, ascending)
      /\ \A x \in S : InBuffers(v[n], key, x) => InReaders(r, key, x)
      /\ Len(r) = Len(v[n].saved) + (IF v[n].buffer = <<>> THEN 0 ELSE 1)
  BY <1>1, <1>4, SavedLast
<1>8. n <= BufferSize => Len(r) <= 1
  BY <1>6, <1>7
<1> QED BY <1>5, <1>7, <1>8 DEF n, r

-----------------------------------------------------------------------------
(* Merging                                                                    *)

Ready(m, rs) == {i \in DOMAIN rs : m.next[i] <= Len(rs[i])}
HeadKey(m, rs, i) == GetSortKey(rs[i][m.next[i]])

\* A step of Merge.
MergeStep(m, rs, ascending, once) ==
    LET ready == Ready(m, rs)
        head == [i \in ready |-> HeadKey(m, rs, i)]
        best == CHOOSE i \in ready : \A j \in ready \ {i} :
                    Before(head[i], head[j], ascending) \/ (head[i] = head[j] /\ i < j)
        taken == {best} \cup {i \in ready : once /\ head[i] = head[best]}
    IN IF ready = {} THEN m
       ELSE [out |-> Append(m.out, rs[best][m.next[best]]),
             next |-> [i \in DOMAIN rs |-> m.next[i] + (IF i \in taken THEN 1 ELSE 0)]]

MergeStates(S, rs) ==
    {m \in [out : Seq(S), next : [DOMAIN rs -> Nat]] :
        \A i \in DOMAIN rs : m.next[i] \in 1 .. Len(rs[i]) + 1}

Nothing(rs) == [out |-> <<>>, next |-> [i \in DOMAIN rs |-> 1]]

Places(rs) == UNION {{i} \X DOMAIN rs[i] : i \in DOMAIN rs}

Turns(rs) == [n \in 1 .. Cardinality(Places(rs)) |-> n]

LEMMA PlacesAre ==
    ASSUME NEW S, NEW rs \in Seq(Seq(S))
    PROVE  /\ IsFiniteSet(Places(rs))
           /\ \A i, j : <<i, j>> \in Places(rs) <=> i \in DOMAIN rs /\ j \in DOMAIN rs[i]
<1> DEFINE f == [i \in DOMAIN rs |-> {i} \X DOMAIN rs[i]]
           T == {{i} \X DOMAIN rs[i] : i \in DOMAIN rs}
<1>1. Len(rs) \in Nat /\ DOMAIN rs = 1 .. Len(rs) /\ \A i \in DOMAIN rs : Len(rs[i]) \in Nat /\ DOMAIN rs[i] = 1 .. Len(rs[i])
  OBVIOUS
<1>2. IsFiniteSet(DOMAIN rs)
  BY <1>1, FS_Interval
<1>3. f \in Surjection(DOMAIN rs, T)
  BY DEF Surjection
<1>4. IsFiniteSet(T)
  BY <1>2, <1>3, FS_Surjection
<1>5. ASSUME NEW i \in DOMAIN rs PROVE IsFiniteSet({i} \X DOMAIN rs[i])
  <2>1. IsFiniteSet(DOMAIN rs[i])
    BY <1>1, FS_Interval
  <2>2. IsFiniteSet({i})
    BY FS_Singleton
  <2> QED BY <2>1, <2>2, FS_Product
<1>6. IsFiniteSet(UNION T)
  BY <1>4, <1>5, FS_UNION
<1> QED BY <1>6 DEF Places

LEMMA TurnsAre ==
    ASSUME NEW S, NEW rs \in Seq(Seq(S))
    PROVE  /\ Cardinality(Places(rs)) \in Nat
           /\ Turns(rs) \in Seq(Nat) /\ Len(Turns(rs)) = Cardinality(Places(rs))
<1> DEFINE n == Cardinality(Places(rs))
<1>1. n \in Nat
  BY PlacesAre, FS_CardinalityType
<1>2. Turns(rs) = [k \in 1 .. n |-> k]
  BY DEF Turns
<1> HIDE DEF n
<1>3. Turns(rs) \in Seq(Nat) /\ Len(Turns(rs)) = n
  BY <1>1, <1>2
<1> QED BY <1>1, <1>3 DEF n

LEMMA BestExists ==
    ASSUME NEW n \in Nat, NEW ready, ready \subseteq 1 .. n, ready # {}, NEW ascending \in BOOLEAN,
           NEW head, \A i \in ready : head[i] \in Texts
    PROVE  \E i \in ready : \A j \in ready \ {i} :
               Before(head[i], head[j], ascending) \/ (head[i] = head[j] /\ i < j)
<1> DEFINE B(i, j) == Before(head[i], head[j], ascending)
           Best(i, k) == \A j \in (ready \cap 1 .. k) \ {i} : B(i, j) \/ (head[i] = head[j] /\ i < j)
           K == {k \in 0 .. n : ready \cap 1 .. k = {} \/ \E i \in ready \cap 1 .. k : Best(i, k)}
<1>1. \A i, j, k \in ready : /\ head[i] # head[j] => B(i, j) \/ B(j, i)
                             /\ B(i, j) /\ B(j, k) => B(i, k)
                             /\ B(i, j) /\ head[j] = head[k] => B(i, k)
  <2>1. \A i, j \in ready : head[i] # head[j] => B(i, j) \/ B(j, i)
    BY BeforeOrder
  <2>2. \A i, j, k \in ready : B(i, j) /\ B(j, k) => B(i, k)
    BY BeforeOrder
  <2>3. \A i, j, k \in ready : B(i, j) /\ head[j] = head[k] => B(i, k)
    OBVIOUS
  <2> HIDE DEF B
  <2> QED BY <2>1, <2>2, <2>3
<1> HIDE DEF B
<1>2. 0 \in K
  OBVIOUS
<1>3. ASSUME NEW k \in 0 .. n - 1, k \in K PROVE k + 1 \in K
  <2>1. k + 1 \in 0 .. n /\ k + 1 \in 1 .. n /\ k \in Nat
    OBVIOUS
  <2>2. 1 .. k + 1 = (1 .. k) \cup {k + 1} /\ k + 1 \notin 1 .. k
    OBVIOUS
  <2>3. CASE k + 1 \notin ready
    <3>1. ready \cap 1 .. k + 1 = ready \cap 1 .. k
      BY <2>2, <2>3
    <3> QED BY <1>3, <2>1, <3>1
  <2>4. CASE k + 1 \in ready /\ ready \cap 1 .. k = {}
    <3>1. ready \cap 1 .. k + 1 = {k + 1}
      BY <2>2, <2>4
    <3>2. Best(k + 1, k + 1)
      BY <3>1
    <3> HIDE DEF Best
    <3> QED BY <2>1, <3>1, <3>2
  <2>5. CASE k + 1 \in ready /\ ready \cap 1 .. k # {}
    <3>1. PICK i \in ready \cap 1 .. k : Best(i, k)
      BY <1>3, <2>5
    <3>2. i < k + 1 /\ i \in ready \cap 1 .. k + 1 /\ k + 1 \in ready \cap 1 .. k + 1 /\ i # k + 1
      BY <2>1, <2>2, <2>5, <3>1
    <3>3. \A j \in ready \cap 1 .. k + 1 : j = k + 1 \/ j = i \/ j \in (ready \cap 1 .. k) \ {i}
      BY <2>2
    <3>4. CASE head[i] = head[k + 1] \/ B(i, k + 1)
      <4>1. Best(i, k + 1)
        BY <3>1, <3>2, <3>3, <3>4
      <4> HIDE DEF Best
      <4> QED BY <2>1, <3>2, <4>1
    <3>5. CASE B(k + 1, i)
      <4>1. ASSUME NEW j \in (ready \cap 1 .. k) \ {i} PROVE B(k + 1, j)
        <5>1. B(i, j) \/ head[i] = head[j]
          BY <3>1
        <5>2. i \in ready /\ j \in ready /\ k + 1 \in ready
          BY <2>5
        <5> QED BY <1>1, <3>5, <5>1, <5>2
      <4>2. Best(k + 1, k + 1)
        BY <3>3, <3>5, <4>1
      <4> HIDE DEF Best
      <4> QED BY <2>1, <3>2, <4>2
    <3>6. i \in ready /\ k + 1 \in ready
      BY <2>5
    <3>7. head[i] = head[k + 1] \/ B(i, k + 1) \/ B(k + 1, i)
      BY <1>1, <3>6
    <3> QED BY <3>4, <3>5, <3>7
  <2> QED BY <2>3, <2>4, <2>5
<1>4. n \in K
  <2> HIDE DEF K
  <2>1. \A k \in 0 .. n : k \in K
    BY <1>2, <1>3, UpTo
  <2> QED BY <2>1
<1>5. ready \cap 1 .. n = ready
  OBVIOUS
<1> QED BY <1>4, <1>5 DEF B

AtMost(s, t, ascending) == s = t \/ Before(s, t, ascending)

\* What a step from m to g takes.
Takes(m, g, S, rs, ascending, once, best, taken) ==
    /\ best \in taken /\ rs[best][m.next[best]] \in S
    /\ \A i \in taken : HeadKey(m, rs, i) = HeadKey(m, rs, best)
    /\ ~once => taken = {best}
    /\ once => \A i \in Ready(m, rs) \ taken :
                  Before(HeadKey(m, rs, best), HeadKey(m, rs, i), ascending)
    /\ \A i \in Ready(m, rs) : AtMost(HeadKey(m, rs, best), HeadKey(m, rs, i), ascending)
    /\ g.out = Append(m.out, rs[best][m.next[best]])
    /\ g.next = [i \in DOMAIN rs |-> m.next[i] + (IF i \in taken THEN 1 ELSE 0)]

LEMMA MergeStepIs ==
    ASSUME NEW S, \A x \in S : IsItem(x), NEW rs \in Seq(Seq(S)),
           NEW ascending \in BOOLEAN, NEW once \in BOOLEAN, NEW m \in MergeStates(S, rs)
    PROVE  /\ MergeStep(m, rs, ascending, once) \in MergeStates(S, rs)
           /\ Ready(m, rs) = {} => MergeStep(m, rs, ascending, once) = m
           /\ Ready(m, rs) # {} =>
                \E best \in Ready(m, rs), taken \in SUBSET Ready(m, rs) :
                    Takes(m, MergeStep(m, rs, ascending, once), S, rs, ascending, once, best, taken)
<1> DEFINE ready == Ready(m, rs)
           head == [i \in ready |-> HeadKey(m, rs, i)]
           best == CHOOSE i \in ready : \A j \in ready \ {i} :
                    Before(head[i], head[j], ascending) \/ (head[i] = head[j] /\ i < j)
           taken == {best} \cup {i \in ready : once /\ head[i] = head[best]}
           g == MergeStep(m, rs, ascending, once)
<1>1. Len(rs) \in Nat /\ DOMAIN rs = 1 .. Len(rs) /\ \A i \in DOMAIN rs : rs[i] \in Seq(S)
  OBVIOUS
<1>2. /\ m.out \in Seq(S) /\ m.next \in [DOMAIN rs -> Nat] /\ m \in [out : Seq(S), next : [DOMAIN rs -> Nat]]
      /\ \A i \in DOMAIN rs : m.next[i] \in 1 .. Len(rs[i]) + 1
  BY DEF MergeStates
<1>3. CASE ready = {}
  <2>1. g = m
    BY <1>3 DEF MergeStep
  <2> HIDE DEF g
  <2> QED BY <1>3, <2>1 DEF g
<1>4. CASE ready # {}
  <2>1. ASSUME NEW i \in ready PROVE i \in DOMAIN rs /\ rs[i][m.next[i]] \in S /\ head[i] \in Texts
    <3>1. i \in DOMAIN rs /\ m.next[i] <= Len(rs[i])
      BY DEF Ready
    <3>2. m.next[i] \in 1 .. Len(rs[i])
      BY <1>1, <1>2, <3>1
    <3>3. rs[i][m.next[i]] \in S
      BY <1>1, <3>1, <3>2
    <3>4. HeadKey(m, rs, i) \in Texts
      BY <3>3, KeyIs DEF HeadKey
    <3> QED BY <3>1, <3>3, <3>4
  <2>2. ready \subseteq 1 .. Len(rs)
    BY <1>1 DEF Ready
  <2>3. \E i \in ready : \A j \in ready \ {i} : Before(head[i], head[j], ascending) \/ (head[i] = head[j] /\ i < j)
    <3>1. \A i \in ready : head[i] \in Texts
      BY <2>1
    <3>2. Len(rs) \in Nat
      BY <1>1
    <3> HIDE DEF ready, head
    <3> QED BY <1>4, <2>2, <3>1, <3>2, BestExists, ZenonT(120)
  <2>4. /\ best \in ready
        /\ \A j \in ready \ {best} : Before(head[best], head[j], ascending) \/ (head[best] = head[j] /\ best < j)
    <3> HIDE DEF ready, head
    <3> QED BY <2>3
  <2>5. g = [out |-> Append(m.out, rs[best][m.next[best]]),
             next |-> [i \in DOMAIN rs |-> m.next[i] + (IF i \in taken THEN 1 ELSE 0)]]
    BY <1>4 DEF MergeStep
  <2> HIDE DEF best, g
  <2>6. /\ taken \in SUBSET ready /\ best \in taken
        /\ \A i \in taken : HeadKey(m, rs, i) = HeadKey(m, rs, best)
        /\ ~once => taken = {best}
    BY <2>4
  <2>7. /\ once => \A i \in ready \ taken : Before(HeadKey(m, rs, best), HeadKey(m, rs, i), ascending)
        /\ \A i \in ready : AtMost(HeadKey(m, rs, best), HeadKey(m, rs, i), ascending)
    BY <2>4 DEF AtMost
  <2> HIDE DEF taken
  <2>8. rs[best][m.next[best]] \in S
    BY <2>1, <2>4
  <2>9. Append(m.out, rs[best][m.next[best]]) \in Seq(S)
    BY <1>2, <2>8
  <2>10. \A i \in DOMAIN rs : /\ m.next[i] + (IF i \in taken THEN 1 ELSE 0) \in Nat
                                   /\ m.next[i] + (IF i \in taken THEN 1 ELSE 0) \in 1 .. Len(rs[i]) + 1
    <3> SUFFICES ASSUME NEW i \in DOMAIN rs
                 PROVE  m.next[i] + (IF i \in taken THEN 1 ELSE 0) \in 1 .. Len(rs[i]) + 1
      OBVIOUS
    <3>1. Len(rs[i]) \in Nat /\ m.next[i] \in 1 .. Len(rs[i]) + 1
      BY <1>1, <1>2
    <3>2. i \in taken => m.next[i] <= Len(rs[i])
      BY <2>6 DEF Ready
    <3> QED BY <3>1, <3>2
  <2>11. g \in MergeStates(S, rs)
    <3> DEFINE z == [i \in DOMAIN rs |-> m.next[i] + (IF i \in taken THEN 1 ELSE 0)]
    <3>1. z \in [DOMAIN rs -> Nat] /\ \A i \in DOMAIN rs : z[i] \in 1 .. Len(rs[i]) + 1
      BY <2>10
    <3> HIDE DEF z
    <3>2. g = [out |-> Append(m.out, rs[best][m.next[best]]), next |-> z]
      BY <2>5 DEF z
    <3> QED BY <2>9, <3>1, <3>2 DEF MergeStates
  <2>12. /\ g.out = Append(m.out, rs[best][m.next[best]])
         /\ g.next = [i \in DOMAIN rs |-> m.next[i] + (IF i \in taken THEN 1 ELSE 0)]
    BY <2>5
  <2>13. Takes(m, g, S, rs, ascending, once, best, taken)
    BY <2>6, <2>7, <2>8, <2>12 DEF Takes
  <2> HIDE DEF ready
  <2> QED BY <1>4, <2>4, <2>6, <2>11, <2>13 DEF g, ready
<1> QED BY <1>3, <1>4

(* Merge, one item after the other.                                           *)
LEMMA MergeRuns ==
    ASSUME NEW S, \A x \in S : IsItem(x), NEW rs \in Seq(Seq(S)), NEW ascending \in BOOLEAN, NEW once \in BOOLEAN
    PROVE  \E v \in [0 .. Len(Turns(rs)) -> MergeStates(S, rs)] :
               /\ v[0] = Nothing(rs) /\ \A k \in 1 .. Len(Turns(rs)) : v[k] = MergeStep(v[k - 1], rs, ascending, once)
               /\ Merge(rs, ascending, once) = v[Len(Turns(rs))].out
<1> DEFINE n == Len(Turns(rs))
           Def(f) == f = [s \in SUBSET DOMAIN Turns(rs) |-> IF s = {} THEN Nothing(rs) ELSE MergeStep(f[s \ {Max(s)}], rs, ascending, once)]
           fold == CHOOSE f : Def(f)
<1>1. n \in Nat /\ DOMAIN Turns(rs) = 1 .. n
  BY TurnsAre
<1>2. Merge(rs, ascending, once) = fold[1 .. n].out
  <2>1. Merge(rs, ascending, once) = fold[DOMAIN Turns(rs)].out
    BY DEF Merge, MergeStep, Ready, HeadKey, Nothing, Places, Turns, FoldLeft, MapThenFoldSet
  <2> QED BY <1>1, <2>1
<1>3. ASSUME NEW f \in MergeStates(S, rs), NEW k \in 1 .. n PROVE MergeStep(f, rs, ascending, once) \in MergeStates(S, rs)
  BY MergeStepIs
<1>4. Nothing(rs) \in MergeStates(S, rs)
  <2>1. Len(rs) \in Nat /\ \A i \in DOMAIN rs : Len(rs[i]) \in Nat
    OBVIOUS
  <2> QED BY <2>1 DEF Nothing, MergeStates
<1>5. \E f : Def(f)
  <2> DEFINE step == [p \in (MergeStates(S, rs)) \X (1 .. n) |-> MergeStep(p[1], rs, ascending, once)]
  <2>1. step \in [(MergeStates(S, rs)) \X (1 .. n) -> MergeStates(S, rs)]
    <3> HIDE DEF n
    <3> QED BY <1>3
  <2>2. ASSUME NEW f \in MergeStates(S, rs), NEW k \in 1 .. n PROVE step[f, k] = MergeStep(f, rs, ascending, once)
    <3> HIDE DEF n
    <3> QED OBVIOUS
  <2> HIDE DEF step
  <2>3. PICK f \in [SUBSET (1 .. n) -> MergeStates(S, rs)] : Folds(n, Nothing(rs), step, f)
    BY <1>1, <1>4, <2>1, FoldExists
  <2>4. ASSUME NEW s \in SUBSET (1 .. n), s # {}
        PROVE  step[f[s \ {Max(s)}], Max(s)] = MergeStep(f[s \ {Max(s)}], rs, ascending, once)
    <3>1. Max(s) \in s
      BY <1>1, <2>4, MaxIn
    <3>2. s \ {Max(s)} \in SUBSET (1 .. n)
      OBVIOUS
    <3> QED BY <2>2, <3>1, <3>2
  <2>5. f = [s \in SUBSET (1 .. n) |-> IF s = {} THEN Nothing(rs) ELSE MergeStep(f[s \ {Max(s)}], rs, ascending, once)]
    BY <2>3, <2>4 DEF Folds
  <2> QED BY <1>1, <2>5
<1>6. Def(fold)
  BY <1>5
<1> HIDE DEF fold
<1>7. \A s \in SUBSET (1 .. n) : fold[s] = IF s = {} THEN Nothing(rs) ELSE MergeStep(fold[s \ {Max(s)}], rs, ascending, once)
  BY <1>1, <1>6
<1> HIDE DEF Def
<1> DEFINE v == [k \in 0 .. n |-> fold[1 .. k]]
<1>8. v[0] = Nothing(rs)
  <2>1. fold[1 .. 0] = Nothing(rs)
    BY <1>1, <1>7, Intervals
  <2> QED BY <1>1, <2>1
<1>9. ASSUME NEW k \in 1 .. n PROVE v[k] = MergeStep(v[k - 1], rs, ascending, once)
  <2>1. /\ 1 .. k \in SUBSET (1 .. n) /\ 1 .. k # {}
        /\ Max(1 .. k) = k /\ (1 .. k) \ {k} = 1 .. k - 1
    BY <1>1, Intervals
  <2>2. fold[1 .. k] = MergeStep(fold[(1 .. k) \ {Max(1 .. k)}], rs, ascending, once)
    BY <1>7, <2>1
  <2>3. v[k] = fold[1 .. k] /\ v[k - 1] = fold[1 .. k - 1]
    BY <1>1
  <2> HIDE DEF v
  <2> QED BY <2>1, <2>2, <2>3
<1>10. v[n] = fold[1 .. n] /\ DOMAIN v = 0 .. n
  BY <1>1
<1>11. \A k \in 0 .. n : v[k] \in MergeStates(S, rs)
  <2> DEFINE K == {k \in 0 .. n : v[k] \in MergeStates(S, rs)}
  <2> HIDE DEF v
  <2>1. 0 \in K
    BY <1>1, <1>4, <1>8
  <2>2. ASSUME NEW k \in 0 .. n - 1, k \in K PROVE k + 1 \in K
    <3>1. k + 1 \in 1 .. n /\ k + 1 \in 0 .. n /\ (k + 1) - 1 = k
      BY <1>1
    <3>2. v[k + 1] = MergeStep(v[k], rs, ascending, once)
      BY <1>9, <3>1
    <3> QED BY <1>3, <2>2, <3>1, <3>2
  <2> HIDE DEF K
  <2>3. \A k \in 0 .. n : k \in K
    BY <1>1, <2>1, <2>2, UpTo
  <2> QED BY <2>3 DEF K
<1>12. v \in [0 .. n -> MergeStates(S, rs)]
  BY <1>10, <1>11
<1> HIDE DEF v
<1> QED BY <1>2, <1>8, <1>9, <1>10, <1>12

ByKey(key, S) == \A x \in S : key[x] = GetSortKey(x)

\* What has been read.
Read(m, rs) == {p \in Places(rs) : p[2] < m.next[p[1]]}

\* Everything that was read was written.
Told(m, rs, once) ==
    \A i \in DOMAIN rs : \A j \in 1 .. m.next[i] - 1 : \E k \in DOMAIN m.out :
        /\ GetSortKey(m.out[k]) = GetSortKey(rs[i][j])
        /\ ~once => m.out[k] = rs[i][j]

\* What was written is sorted and comes before what is still to be read.
InTurn(m, rs, key, ascending) ==
    /\ SortedBy(m.out, key, ascending)
    /\ \A k \in DOMAIN m.out, i \in DOMAIN rs : \A j \in m.next[i] .. Len(rs[i]) :
          Before(key[m.out[k]], key[rs[i][j]], ascending)

\* One reader is written as it is.
AsRead(m, rs) == Len(m.out) = m.next[1] - 1 /\ \A k \in 1 .. Len(m.out) : m.out[k] = rs[1][k]

LEMMA MergeReads ==
    ASSUME NEW S, \A x \in S : IsItem(x), NEW rs \in Seq(Seq(S)),
           NEW ascending \in BOOLEAN, NEW once \in BOOLEAN, NEW m \in MergeStates(S, rs)
    PROVE  LET g == MergeStep(m, rs, ascending, once)
           IN  \/ Ready(m, rs) = {} /\ g = m
               \/ /\ IsFiniteSet(Read(m, rs)) /\ IsFiniteSet(Read(g, rs))
                  /\ Cardinality(Read(m, rs)) + 1 <= Cardinality(Read(g, rs))
<1> DEFINE g == MergeStep(m, rs, ascending, once)
<1>1. CASE Ready(m, rs) = {}
  BY <1>1, MergeStepIs
<1>2. CASE Ready(m, rs) # {}
  <2> PICK best \in Ready(m, rs), taken \in SUBSET Ready(m, rs) :
            Takes(m, g, S, rs, ascending, once, best, taken)
    BY <1>2, MergeStepIs
  <2>1. /\ best \in taken /\ g.next = [i \in DOMAIN rs |-> m.next[i] + (IF i \in taken THEN 1 ELSE 0)]
    BY DEF Takes
  <2> DEFINE p == <<best, m.next[best]>>
  <2>2. \A i \in DOMAIN rs : m.next[i] \in 1 .. Len(rs[i]) + 1
    BY DEF MergeStates
  <2>3. \A i \in DOMAIN rs : Len(rs[i]) \in Nat /\ DOMAIN rs[i] = 1 .. Len(rs[i])
    OBVIOUS
  <2>4. best \in DOMAIN rs /\ m.next[best] <= Len(rs[best])
    BY DEF Ready
  <2>5. m.next[best] \in DOMAIN rs[best] /\ g.next[best] = m.next[best] + 1
    BY <2>1, <2>2, <2>3, <2>4
  <2>6. p \in Places(rs)
    BY <2>4, <2>5, PlacesAre
  <2>7. p \notin Read(m, rs) /\ p \in Read(g, rs)
    <3>1. p[1] = best /\ p[2] = m.next[best] /\ m.next[best] \in Nat
      BY <2>2, <2>4
    <3> HIDE DEF p, g
    <3> QED BY <2>5, <2>6, <3>1 DEF Read
  <2>8. Read(m, rs) \subseteq Read(g, rs)
    <3>1. ASSUME NEW q \in Places(rs), q[2] < m.next[q[1]] PROVE q[2] < g.next[q[1]]
      <4> PICK i \in DOMAIN rs : q \in {i} \X DOMAIN rs[i]
        BY DEF Places
      <4>1. PICK j \in DOMAIN rs[i] : q = <<i, j>>
        OBVIOUS
      <4>2. g.next[i] = m.next[i] + (IF i \in taken THEN 1 ELSE 0)
        BY <2>1
      <4>3. j \in Nat /\ m.next[i] \in Nat /\ j < m.next[i]
        BY <2>2, <2>3, <3>1, <4>1
      <4> HIDE DEF g
      <4>4. j < g.next[i]
        BY <4>2, <4>3
      <4> QED BY <4>1, <4>4
    <3> HIDE DEF g
    <3> QED BY <3>1 DEF Read
  <2> HIDE DEF g, p
  <2>9. IsFiniteSet(Read(g, rs)) /\ IsFiniteSet(Read(m, rs))
    <3>1. Read(g, rs) \in SUBSET Places(rs) /\ Read(m, rs) \in SUBSET Places(rs)
      BY DEF Read
    <3> QED BY <3>1, PlacesAre, FS_Subset
  <2>10. /\ IsFiniteSet(Read(m, rs) \cup {p}) /\ Cardinality(Read(m, rs) \cup {p}) = Cardinality(Read(m, rs)) + 1
    BY <2>7, <2>9, FS_AddElement
  <2>11. Cardinality(Read(m, rs) \cup {p}) <= Cardinality(Read(g, rs))
    <3>1. Read(m, rs) \cup {p} \in SUBSET Read(g, rs)
      BY <2>7, <2>8
    <3> QED BY <2>9, <3>1, FS_Subset
  <2> QED BY <2>9, <2>10, <2>11 DEF g
<1> QED BY <1>1, <1>2

LEMMA ToldKept ==
    ASSUME NEW S, \A x \in S : IsItem(x), NEW rs \in Seq(Seq(S)),
           NEW ascending \in BOOLEAN, NEW once \in BOOLEAN, NEW m \in MergeStates(S, rs), Told(m, rs, once)
    PROVE  Told(MergeStep(m, rs, ascending, once), rs, once)
<1> DEFINE g == MergeStep(m, rs, ascending, once)
<1>1. CASE Ready(m, rs) = {}
  BY <1>1, MergeStepIs
<1>2. CASE Ready(m, rs) # {}
  <2> PICK best \in Ready(m, rs), taken \in SUBSET Ready(m, rs) :
            Takes(m, g, S, rs, ascending, once, best, taken)
    BY <1>2, MergeStepIs
  <2>1. /\ best \in taken /\ rs[best][m.next[best]] \in S
        /\ \A i \in taken : HeadKey(m, rs, i) = HeadKey(m, rs, best)
        /\ ~once => taken = {best}
        /\ g.out = Append(m.out, rs[best][m.next[best]])
        /\ g.next = [i \in DOMAIN rs |-> m.next[i] + (IF i \in taken THEN 1 ELSE 0)]
    BY DEF Takes
  <2> HIDE DEF g
  <2> DEFINE x == rs[best][m.next[best]]
             n == Len(m.out)
  <2>2. m.out \in Seq(S) /\ \A i \in DOMAIN rs : m.next[i] \in 1 .. Len(rs[i]) + 1
    BY DEF MergeStates
  <2>3. /\ n \in Nat /\ DOMAIN m.out = 1 .. n /\ DOMAIN g.out = 1 .. n + 1
        /\ g.out[n + 1] = x /\ \A k \in 1 .. n : g.out[k] = m.out[k]
    BY <2>1, <2>2, AppendProperties
  <2>4. n + 1 \in DOMAIN g.out /\ \A k \in DOMAIN m.out : k \in DOMAIN g.out /\ g.out[k] = m.out[k]
    BY <2>3
  <2>5. ASSUME NEW i \in DOMAIN rs, NEW j \in 1 .. g.next[i] - 1
        PROVE  \E k \in DOMAIN g.out :
                  /\ GetSortKey(g.out[k]) = GetSortKey(rs[i][j])
                  /\ ~once => g.out[k] = rs[i][j]
    <3>0. m.next[i] \in 1 .. Len(rs[i]) + 1
      BY <2>2
    <3>1. m.next[i] \in Nat /\ g.next[i] = m.next[i] + (IF i \in taken THEN 1 ELSE 0)
      BY <2>1, <3>0
    <3>2. j \in 1 .. m.next[i] - 1 \/ (i \in taken /\ j = m.next[i])
      BY <2>5, <3>1
    <3>3. CASE j \in 1 .. m.next[i] - 1
      BY <2>4, <3>3 DEF Told
    <3>4. CASE i \in taken /\ j = m.next[i]
      <4>1. GetSortKey(x) = GetSortKey(rs[i][j]) /\ (~once => x = rs[i][j])
        BY <2>1, <3>4 DEF HeadKey
      <4> HIDE DEF x
      <4> QED BY <2>3, <2>4, <4>1
    <3> QED BY <3>2, <3>3, <3>4
  <2>6. Told(g, rs, once)
    BY <2>5 DEF Told
  <2> QED BY <2>6 DEF g
<1> QED BY <1>1, <1>2

LEMMA InTurnKept ==
    ASSUME NEW S, \A x \in S : IsItem(x), NEW rs \in Seq(Seq(S)), NEW key, ByKey(key, S),
           NEW ascending \in BOOLEAN, AllSorted(rs, key, ascending), NEW once \in BOOLEAN,
           NEW m \in MergeStates(S, rs),
           InTurn(m, rs, key, ascending)
    PROVE  once => InTurn(MergeStep(m, rs, ascending, once), rs, key, ascending)
<1> DEFINE g == MergeStep(m, rs, ascending, once)
           B(x, y) == Before(key[x], key[y], ascending)
<1>1. CASE Ready(m, rs) = {}
  BY <1>1, MergeStepIs
<1>2. CASE Ready(m, rs) # {}
  <2> PICK best \in Ready(m, rs), taken \in SUBSET Ready(m, rs) :
            Takes(m, g, S, rs, ascending, once, best, taken)
    BY <1>2, MergeStepIs
  <2> SUFFICES ASSUME once PROVE InTurn(g, rs, key, ascending)
    BY DEF g
  <2>1. /\ best \in taken /\ rs[best][m.next[best]] \in S
        /\ \A i \in taken : HeadKey(m, rs, i) = HeadKey(m, rs, best)
        /\ \A i \in Ready(m, rs) \ taken : Before(HeadKey(m, rs, best), HeadKey(m, rs, i), ascending)
        /\ g.out = Append(m.out, rs[best][m.next[best]])
        /\ g.next = [i \in DOMAIN rs |-> m.next[i] + (IF i \in taken THEN 1 ELSE 0)]
    BY DEF Takes
  <2> HIDE DEF g
  <2> DEFINE x == rs[best][m.next[best]]
             n == Len(m.out)
  <2>2. m.out \in Seq(S) /\ \A i \in DOMAIN rs : m.next[i] \in 1 .. Len(rs[i]) + 1
    BY DEF MergeStates
  <2>3. /\ n \in Nat /\ DOMAIN m.out = 1 .. n /\ DOMAIN g.out = 1 .. n + 1
        /\ g.out[n + 1] = x /\ \A k \in 1 .. n : g.out[k] = m.out[k]
    BY <2>1, <2>2, AppendProperties
  <2>4. \A i \in DOMAIN rs : Len(rs[i]) \in Nat /\ DOMAIN rs[i] = 1 .. Len(rs[i]) /\ \A j \in 1 .. Len(rs[i]) : rs[i][j] \in S
    OBVIOUS
  <2>5. \A y \in S : key[y] = GetSortKey(y) /\ key[y] \in Texts
    BY KeyIs DEF ByKey
  <2>6. \A a, b, c \in S : B(a, b) /\ B(b, c) => B(a, c)
    BY <2>5, BeforeOrder
  <2>7. ASSUME NEW i \in DOMAIN rs, m.next[i] <= Len(rs[i])
        PROVE  /\ m.next[i] \in 1 .. Len(rs[i]) /\ rs[i][m.next[i]] \in S
               /\ i \in Ready(m, rs) /\ HeadKey(m, rs, i) = key[rs[i][m.next[i]]]
    <3>1. m.next[i] \in 1 .. Len(rs[i]) /\ rs[i][m.next[i]] \in S
      BY <2>2, <2>4, <2>7
    <3> QED BY <2>5, <2>7, <3>1 DEF Ready, HeadKey
  <2>8. best \in DOMAIN rs /\ m.next[best] <= Len(rs[best])
    BY DEF Ready
  <2>9. HeadKey(m, rs, best) = key[x] /\ x \in S
    BY <2>7, <2>8
  <2> HIDE DEF x, n
  <2>10. ASSUME NEW i \in DOMAIN rs, NEW j \in g.next[i] .. Len(rs[i])
         PROVE  B(x, rs[i][j]) /\ j \in m.next[i] .. Len(rs[i]) /\ rs[i][j] \in S
    <3>1. /\ m.next[i] \in Nat /\ m.next[i] \in 1 .. Len(rs[i]) + 1 /\ Len(rs[i]) \in Nat
          /\ g.next[i] = m.next[i] + (IF i \in taken THEN 1 ELSE 0)
      <4>1. g.next[i] = m.next[i] + (IF i \in taken THEN 1 ELSE 0)
        BY <2>1
      <4>2. m.next[i] \in 1 .. Len(rs[i]) + 1 /\ Len(rs[i]) \in Nat
        BY <2>2, <2>4
      <4>3. m.next[i] \in Nat
        BY <4>2
      <4> QED BY <4>1, <4>2, <4>3
    <3>2. m.next[i] <= j /\ j <= Len(rs[i]) /\ j \in 1 .. Len(rs[i]) /\ m.next[i] <= Len(rs[i]) /\ (i \in taken => m.next[i] < j)
      BY <2>10, <3>1
    <3>3. /\ m.next[i] \in 1 .. Len(rs[i]) /\ rs[i][m.next[i]] \in S /\ rs[i][j] \in S
          /\ i \in Ready(m, rs) /\ HeadKey(m, rs, i) = key[rs[i][m.next[i]]]
      BY <2>4, <2>7, <3>2
    <3>4. m.next[i] < j => B(rs[i][m.next[i]], rs[i][j])
      <4>1. SortedBy(rs[i], key, ascending)
        BY DEF AllSorted
      <4> QED BY <2>4, <3>2, <3>3, <4>1 DEF SortedBy
    <3>5. CASE i \in taken
      <4>1. key[rs[i][m.next[i]]] = key[x]
        BY <2>1, <2>9, <3>3, <3>5
      <4> QED BY <3>1, <3>2, <3>3, <3>4, <3>5, <4>1
    <3>6. CASE i \notin taken
      <4>1. B(x, rs[i][m.next[i]])
        BY <2>1, <2>9, <3>3, <3>6
      <4>2. m.next[i] < j \/ m.next[i] = j
        BY <3>1, <3>2
      <4>3. B(x, rs[i][j])
        <5> HIDE DEF B
        <5> QED BY <2>6, <2>9, <3>3, <3>4, <4>1, <4>2
      <4> QED BY <3>1, <3>2, <3>3, <4>3
    <3> QED BY <3>5, <3>6
  <2>11. \A k \in 1 .. n : B(m.out[k], x)
    <3>1. m.next[best] \in m.next[best] .. Len(rs[best])
      BY <2>2, <2>4, <2>8
    <3> QED BY <2>3, <2>8, <3>1 DEF InTurn, x
  <2>12. SortedBy(g.out, key, ascending)
    <3>1. \A i, j \in 1 .. n : i < j => B(m.out[i], m.out[j])
      BY <2>3 DEF InTurn, SortedBy
    <3>2. \A i, j \in 1 .. n + 1 : i < j => i \in 1 .. n /\ (j \in 1 .. n \/ j = n + 1)
      BY <2>3
    <3> HIDE DEF B
    <3>3. \A i, j \in 1 .. n + 1 : i < j => B(g.out[i], g.out[j])
      BY <2>3, <2>11, <3>1, <3>2
    <3> QED BY <2>3, <3>3 DEF SortedBy, B
  <2>13. ASSUME NEW k \in DOMAIN g.out, NEW i \in DOMAIN rs, NEW j \in g.next[i] .. Len(rs[i])
         PROVE  B(g.out[k], rs[i][j])
    <3>1. B(x, rs[i][j]) /\ j \in m.next[i] .. Len(rs[i])
      BY <2>10
    <3>2. k \in 1 .. n \/ k = n + 1
      BY <2>3
    <3>3. CASE k = n + 1
      BY <2>3, <3>1, <3>3
    <3>4. CASE k \in 1 .. n
      BY <2>3, <3>1, <3>4 DEF InTurn
    <3> QED BY <3>2, <3>3, <3>4
  <2>14. InTurn(g, rs, key, ascending)
    BY <2>12, <2>13 DEF InTurn
  <2> QED BY <2>14
<1> QED BY <1>1, <1>2

LEMMA AsReadKept ==
    ASSUME NEW S, \A x \in S : IsItem(x), NEW rs \in Seq(Seq(S)), Len(rs) = 1,
           NEW ascending \in BOOLEAN, NEW once \in BOOLEAN, ~once, NEW m \in MergeStates(S, rs), AsRead(m, rs)
    PROVE  AsRead(MergeStep(m, rs, ascending, once), rs)
<1> DEFINE g == MergeStep(m, rs, ascending, once)
<1>1. CASE Ready(m, rs) = {}
  BY <1>1, MergeStepIs
<1>2. CASE Ready(m, rs) # {}
  <2> PICK best \in Ready(m, rs), taken \in SUBSET Ready(m, rs) :
            Takes(m, g, S, rs, ascending, once, best, taken)
    BY <1>2, MergeStepIs
  <2>1. /\ taken = {best} /\ rs[best][m.next[best]] \in S
        /\ g.out = Append(m.out, rs[best][m.next[best]])
        /\ g.next = [i \in DOMAIN rs |-> m.next[i] + (IF i \in taken THEN 1 ELSE 0)]
    BY DEF Takes
  <2> HIDE DEF g
  <2>2. best = 1 /\ 1 \in DOMAIN rs
    BY DEF Ready
  <2>3. m.out \in Seq(S) /\ m.next[1] \in Nat
    BY <2>2 DEF MergeStates
  <2> DEFINE n == Len(m.out)
  <2>4. /\ n \in Nat /\ Len(g.out) = n + 1
        /\ g.out[n + 1] = rs[1][m.next[1]] /\ \A k \in 1 .. n : g.out[k] = m.out[k]
    BY <2>1, <2>2, <2>3, AppendProperties
  <2>5. g.next[1] = m.next[1] + 1 /\ m.next[1] = n + 1
    BY <2>1, <2>2, <2>3 DEF AsRead
  <2>6. \A k \in 1 .. n : m.out[k] = rs[1][k]
    BY DEF AsRead
  <2> HIDE DEF n
  <2>7. AsRead(g, rs)
    BY <2>4, <2>5, <2>6 DEF AsRead
  <2> QED BY <2>7 DEF g
<1> QED BY <1>1, <1>2

(* The merge writes what the readers hold and no more; each item is there, or *)
(* one with its key; sorted readers give a sorted result, one reader itself.  *)
LEMMA MergeIs ==
    ASSUME NEW S, \A x \in S : IsItem(x), NEW rs \in Seq(Seq(S)), NEW key, ByKey(key, S),
           NEW ascending \in BOOLEAN, NEW once \in BOOLEAN
    PROVE  LET r == Merge(rs, ascending, once)
           IN  /\ r \in Seq(S)
               /\ \A i \in DOMAIN rs : \A j \in DOMAIN rs[i] : \E k \in DOMAIN r :
                      /\ GetSortKey(r[k]) = GetSortKey(rs[i][j])
                      /\ ~once => r[k] = rs[i][j]
               /\ once /\ AllSorted(rs, key, ascending) => SortedBy(r, key, ascending)
               /\ ~once /\ Len(rs) = 1 => r = rs[1]
<1> DEFINE q == Turns(rs)
           n == Cardinality(Places(rs))
           r == Merge(rs, ascending, once)
<1>1. /\ Len(rs) \in Nat /\ DOMAIN rs = 1 .. Len(rs)
      /\ \A i \in DOMAIN rs : rs[i] \in Seq(S) /\ Len(rs[i]) \in Nat /\ DOMAIN rs[i] = 1 .. Len(rs[i])
  OBVIOUS
<1>2. n \in Nat
  BY PlacesAre, FS_CardinalityType
<1>3. Len(q) = n
  BY TurnsAre
<1>4. PICK v \in [0 .. n -> MergeStates(S, rs)] :
          /\ v[0] = Nothing(rs) /\ \A k \in 1 .. n : v[k] = MergeStep(v[k - 1], rs, ascending, once)
          /\ r = v[n].out
  <2> HIDE DEF n
  <2> QED BY <1>3, MergeRuns
<1> HIDE DEF n, r
<1>5. ASSUME NEW k \in 0 .. n - 1
      PROVE  /\ k \in 0 .. n /\ k + 1 \in 0 .. n /\ v[k] \in MergeStates(S, rs)
             /\ v[k + 1] = MergeStep(v[k], rs, ascending, once)
  <2>1. k \in 0 .. n /\ k + 1 \in 0 .. n /\ k + 1 \in 1 .. n /\ (k + 1) - 1 = k
    BY <1>2
  <2> QED BY <1>4, <2>1
<1>6. n \in 0 .. n
  BY <1>2
<1>7. v[n] \in MergeStates(S, rs)
  BY <1>4, <1>6
<1>8. 0 \in 0 .. n /\ v[0].out = <<>> /\ \A i \in DOMAIN rs : v[0].next[i] = 1
  BY <1>2, <1>4 DEF Nothing
<1>9. Ready(v[n], rs) = {}
  <2> DEFINE K == {k \in 0 .. n : Ready(v[k], rs) = {} \/ Cardinality(Read(v[k], rs)) >= k}
  <2>1. ASSUME NEW k \in 0 .. n PROVE IsFiniteSet(Read(v[k], rs)) /\ Cardinality(Read(v[k], rs)) \in Nat
    <3>1. Read(v[k], rs) \in SUBSET Places(rs)
      BY DEF Read
    <3>2. IsFiniteSet(Read(v[k], rs))
      BY <3>1, PlacesAre, FS_Subset
    <3> QED BY <3>2, FS_CardinalityType
  <2>2. 0 \in K
    BY <1>8, <2>1
  <2>3. ASSUME NEW k \in 0 .. n - 1, k \in K PROVE k + 1 \in K
    <3>1. k \in 0 .. n /\ k + 1 \in 0 .. n /\ v[k] \in MergeStates(S, rs) /\ v[k + 1] = MergeStep(v[k], rs, ascending, once)
      BY <1>5
    <3> DEFINE a == Cardinality(Read(v[k], rs))
               b == Cardinality(Read(v[k + 1], rs))
    <3>2. (Ready(v[k], rs) = {} /\ v[k + 1] = v[k]) \/ a + 1 <= b
      BY <3>1, MergeReads
    <3>3. a \in Nat /\ b \in Nat
      BY <2>1, <3>1
    <3>4. CASE Ready(v[k], rs) = {} /\ v[k + 1] = v[k]
      BY <3>1, <3>4
    <3>5. CASE Ready(v[k], rs) # {} /\ a + 1 <= b
      <4>1. a >= k
        BY <2>3, <3>5
      <4> HIDE DEF a
      <4>2. b >= k + 1
        <5> HIDE DEF b
        <5> QED BY <1>2, <3>3, <3>5, <4>1
      <4> QED BY <3>1, <4>2
    <3>6. CASE Ready(v[k], rs) = {} /\ a + 1 <= b
      <4>1. v[k + 1] = v[k]
        BY <3>1, <3>6, MergeStepIs
      <4> QED BY <3>1, <3>6, <4>1
    <3> QED BY <3>2, <3>4, <3>5, <3>6
  <2> HIDE DEF K
  <2>4. n \in K
    <3>1. \A k \in 0 .. n : k \in K
      BY <1>2, <2>2, <2>3, UpTo
    <3> QED BY <1>6, <3>1
  <2>5. ASSUME Cardinality(Read(v[n], rs)) >= n PROVE Ready(v[n], rs) = {}
    <3>1. Read(v[n], rs) \in SUBSET Places(rs)
      BY DEF Read
    <3>2. Cardinality(Read(v[n], rs)) <= n
      BY <3>1, PlacesAre, FS_Subset DEF n
    <3>3. Cardinality(Read(v[n], rs)) = Cardinality(Places(rs))
      <4>1. Cardinality(Read(v[n], rs)) \in Nat
        BY <1>6, <2>1
      <4>2. Cardinality(Read(v[n], rs)) = n
        BY <1>2, <2>5, <3>2, <4>1
      <4> QED BY <4>2 DEF n
    <3>4. Read(v[n], rs) = Places(rs)
      BY <3>1, <3>3, PlacesAre, FS_Subset
    <3>5. SUFFICES ASSUME NEW i \in Ready(v[n], rs) PROVE FALSE
      OBVIOUS
    <3> DEFINE j == v[n].next[i]
    <3>6. i \in DOMAIN rs /\ j <= Len(rs[i])
      BY DEF Ready
    <3>7. j \in 1 .. Len(rs[i]) + 1
      BY <1>7, <3>6 DEF MergeStates
    <3>8. j \in DOMAIN rs[i] /\ j \in Nat
      BY <1>1, <3>6, <3>7
    <3>9. <<i, j>> \in Read(v[n], rs)
      BY <3>4, <3>6, <3>8, PlacesAre
    <3>10. j < v[n].next[i]
      <4> HIDE DEF j
      <4> QED BY <3>9 DEF Read
    <3> QED BY <3>8, <3>10
  <2> QED BY <2>4, <2>5 DEF K
<1>10. \A i \in DOMAIN rs : v[n].next[i] = Len(rs[i]) + 1
  <2> SUFFICES ASSUME NEW i \in DOMAIN rs PROVE v[n].next[i] = Len(rs[i]) + 1
    OBVIOUS
  <2>1. v[n].next[i] \in 1 .. Len(rs[i]) + 1
    BY <1>7 DEF MergeStates
  <2>2. ~(v[n].next[i] <= Len(rs[i]))
    BY <1>9 DEF Ready
  <2> QED BY <1>1, <2>1, <2>2
<1>11. Told(v[n], rs, once)
  <2> DEFINE K == {k \in 0 .. n : Told(v[k], rs, once)}
  <2>1. 0 \in K
    BY <1>8 DEF Told
  <2>2. ASSUME NEW k \in 0 .. n - 1, k \in K PROVE k + 1 \in K
    <3>1. v[k] \in MergeStates(S, rs) /\ Told(v[k], rs, once)
      BY <1>5, <2>2
    <3>2. Told(MergeStep(v[k], rs, ascending, once), rs, once)
      BY <3>1, ToldKept
    <3> QED BY <1>5, <3>2
  <2> HIDE DEF K
  <2>3. \A k \in 0 .. n : k \in K
    BY <1>2, <2>1, <2>2, UpTo
  <2> QED BY <1>6, <2>3 DEF K
<1>12. ASSUME once, AllSorted(rs, key, ascending) PROVE SortedBy(r, key, ascending)
  <2> DEFINE K == {k \in 0 .. n : InTurn(v[k], rs, key, ascending)}
  <2>1. 0 \in K
    <3>1. DOMAIN v[0].out = {}
      BY <1>8
    <3> QED BY <1>8, <3>1 DEF InTurn, SortedBy
  <2>2. ASSUME NEW k \in 0 .. n - 1, k \in K PROVE k + 1 \in K
    <3>1. v[k] \in MergeStates(S, rs) /\ InTurn(v[k], rs, key, ascending)
      BY <1>5, <2>2
    <3>2. InTurn(MergeStep(v[k], rs, ascending, once), rs, key, ascending)
      BY <1>12, <3>1, InTurnKept
    <3> QED BY <1>5, <3>2
  <2> HIDE DEF K
  <2>3. \A k \in 0 .. n : k \in K
    BY <1>2, <2>1, <2>2, UpTo
  <2>4. InTurn(v[n], rs, key, ascending)
    BY <1>6, <2>3 DEF K
  <2> QED BY <1>4, <2>4 DEF InTurn
<1>13. ASSUME ~once, Len(rs) = 1 PROVE r = rs[1]
  <2> DEFINE K == {k \in 0 .. n : AsRead(v[k], rs)}
  <2>1. 0 \in K
    <3>1. 1 \in DOMAIN rs
      BY <1>1, <1>13
    <3>2. v[0].next[1] = 1 /\ Len(v[0].out) = 0
      BY <1>8, <3>1
    <3>3. AsRead(v[0], rs)
      BY <3>2 DEF AsRead
    <3> QED BY <1>8, <3>3
  <2>2. ASSUME NEW k \in 0 .. n - 1, k \in K PROVE k + 1 \in K
    <3>1. v[k] \in MergeStates(S, rs) /\ AsRead(v[k], rs)
      BY <1>5, <2>2
    <3>2. AsRead(MergeStep(v[k], rs, ascending, once), rs)
      BY <1>13, <3>1, AsReadKept
    <3> QED BY <1>5, <3>2
  <2> HIDE DEF K
  <2>3. \A k \in 0 .. n : k \in K
    BY <1>2, <2>1, <2>2, UpTo
  <2>4. AsRead(v[n], rs)
    BY <1>6, <2>3 DEF K
  <2>5. 1 \in DOMAIN rs /\ v[n].next[1] = Len(rs[1]) + 1 /\ Len(rs[1]) \in Nat /\ rs[1] \in Seq(S) /\ v[n].out \in Seq(S)
    BY <1>1, <1>7, <1>10, <1>13 DEF MergeStates
  <2>6. Len(r) = Len(rs[1]) /\ \A k \in 1 .. Len(r) : r[k] = rs[1][k]
    BY <1>4, <2>4, <2>5 DEF AsRead
  <2> QED BY <1>4, <2>5, <2>6, SeqEqual
<1>14. \A i \in DOMAIN rs : \A j \in DOMAIN rs[i] : \E k \in DOMAIN r :
           /\ GetSortKey(r[k]) = GetSortKey(rs[i][j])
           /\ ~once => r[k] = rs[i][j]
  <2>1. \A i \in DOMAIN rs : v[n].next[i] - 1 = Len(rs[i])
    BY <1>1, <1>10
  <2> QED BY <1>1, <1>4, <1>11, <2>1 DEF Told
<1>15. r \in Seq(S)
  BY <1>4, <1>7 DEF MergeStates
<1> QED BY <1>12, <1>13, <1>14, <1>15 DEF r

-----------------------------------------------------------------------------
(* A merge that is not reduced: sorted readers give a sorted result.          *)

Rises(s, ascending) ==
    \A i, j \in DOMAIN s : i < j => AtMost(GetSortKey(s[i]), GetSortKey(s[j]), ascending)

RisesSoFar(m, rs, ascending) ==
    /\ Rises(m.out, ascending)
    /\ \A k \in DOMAIN m.out, i \in DOMAIN rs : \A j \in m.next[i] .. Len(rs[i]) :
          AtMost(GetSortKey(m.out[k]), GetSortKey(rs[i][j]), ascending)

LEMMA RisesKept ==
    ASSUME NEW S, \A x \in S : IsItem(x), NEW rs \in Seq(Seq(S)), NEW ascending \in BOOLEAN,
           \A i \in DOMAIN rs : Rises(rs[i], ascending), NEW once \in BOOLEAN, ~once,
           NEW m \in MergeStates(S, rs), RisesSoFar(m, rs, ascending)
    PROVE  RisesSoFar(MergeStep(m, rs, ascending, once), rs, ascending)
<1> DEFINE g == MergeStep(m, rs, ascending, once)
           B(x, y) == AtMost(GetSortKey(x), GetSortKey(y), ascending)
<1>1. CASE Ready(m, rs) = {}
  BY <1>1, MergeStepIs
<1>2. CASE Ready(m, rs) # {}
  <2> PICK best \in Ready(m, rs), taken \in SUBSET Ready(m, rs) :
            Takes(m, g, S, rs, ascending, once, best, taken)
    BY <1>2, MergeStepIs
  <2>1. /\ taken = {best} /\ rs[best][m.next[best]] \in S
        /\ \A i \in Ready(m, rs) : AtMost(HeadKey(m, rs, best), HeadKey(m, rs, i), ascending)
        /\ g.out = Append(m.out, rs[best][m.next[best]])
        /\ g.next = [i \in DOMAIN rs |-> m.next[i] + (IF i \in taken THEN 1 ELSE 0)]
    BY DEF Takes
  <2> HIDE DEF g
  <2> DEFINE x == rs[best][m.next[best]]
             n == Len(m.out)
  <2>2. m.out \in Seq(S) /\ \A i \in DOMAIN rs : m.next[i] \in 1 .. Len(rs[i]) + 1
    BY DEF MergeStates
  <2>3. /\ n \in Nat /\ DOMAIN m.out = 1 .. n /\ DOMAIN g.out = 1 .. n + 1
        /\ g.out[n + 1] = x /\ \A k \in 1 .. n : g.out[k] = m.out[k]
    BY <2>1, <2>2, AppendProperties
  <2>4. \A i \in DOMAIN rs : Len(rs[i]) \in Nat /\ DOMAIN rs[i] = 1 .. Len(rs[i]) /\ \A j \in 1 .. Len(rs[i]) : rs[i][j] \in S
    OBVIOUS
  <2>5. \A a, b, c \in S : B(a, b) /\ B(b, c) => B(a, c)
    <3>1. \A y \in S : GetSortKey(y) \in Texts
      BY KeyIs
    <3> QED BY <3>1, BeforeOrder DEF AtMost
  <2>6. ASSUME NEW i \in DOMAIN rs, m.next[i] <= Len(rs[i])
        PROVE  /\ m.next[i] \in 1 .. Len(rs[i]) /\ rs[i][m.next[i]] \in S
               /\ B(x, rs[i][m.next[i]])
    <3>1. m.next[i] \in 1 .. Len(rs[i]) /\ rs[i][m.next[i]] \in S
      BY <2>2, <2>4, <2>6
    <3>2. i \in Ready(m, rs)
      BY <2>6 DEF Ready
    <3> QED BY <2>1, <3>1, <3>2 DEF HeadKey
  <2>7. best \in DOMAIN rs /\ m.next[best] <= Len(rs[best]) /\ x \in S
    BY <2>1 DEF Ready
  <2> HIDE DEF x, n
  <2>8. ASSUME NEW i \in DOMAIN rs, NEW j \in g.next[i] .. Len(rs[i])
        PROVE  B(x, rs[i][j]) /\ j \in m.next[i] .. Len(rs[i]) /\ rs[i][j] \in S
    <3>1. m.next[i] \in 1 .. Len(rs[i]) + 1 /\ Len(rs[i]) \in Nat /\ m.next[i] \in Nat
      <4>1. m.next[i] \in 1 .. Len(rs[i]) + 1 /\ Len(rs[i]) \in Nat
        BY <2>2, <2>4
      <4> QED BY <4>1
    <3>2. g.next[i] \in Nat /\ m.next[i] <= g.next[i]
      <4>1. g.next[i] = m.next[i] + (IF i \in taken THEN 1 ELSE 0)
        BY <2>1
      <4> QED BY <3>1, <4>1
    <3>3. m.next[i] <= j /\ j <= Len(rs[i]) /\ j \in 1 .. Len(rs[i]) /\ m.next[i] <= Len(rs[i])
      BY <2>8, <3>1, <3>2
    <3>4. /\ m.next[i] \in 1 .. Len(rs[i]) /\ rs[i][m.next[i]] \in S /\ rs[i][j] \in S
          /\ B(x, rs[i][m.next[i]])
      BY <2>4, <2>6, <3>3
    <3>5. m.next[i] < j => B(rs[i][m.next[i]], rs[i][j])
      <4>1. Rises(rs[i], ascending)
        OBVIOUS
      <4> QED BY <2>4, <3>3, <3>4, <4>1 DEF Rises
    <3>6. m.next[i] < j \/ m.next[i] = j
      BY <3>1, <3>3
    <3>7. B(x, rs[i][j])
      <4> HIDE DEF B
      <4> QED BY <2>5, <2>7, <3>4, <3>5, <3>6
    <3>8. j \in m.next[i] .. Len(rs[i])
      BY <3>1, <3>3
    <3> QED BY <3>4, <3>7, <3>8
  <2>9. \A k \in 1 .. n : B(m.out[k], x)
    <3>1. m.next[best] \in m.next[best] .. Len(rs[best])
      BY <2>2, <2>4, <2>7
    <3> QED BY <2>3, <2>7, <3>1 DEF RisesSoFar, x
  <2>10. Rises(g.out, ascending)
    <3>1. \A i, j \in 1 .. n : i < j => B(m.out[i], m.out[j])
      BY <2>3 DEF RisesSoFar, Rises
    <3>2. \A i, j \in 1 .. n + 1 : i < j => i \in 1 .. n /\ (j \in 1 .. n \/ j = n + 1)
      BY <2>3
    <3> HIDE DEF B
    <3>3. \A i, j \in 1 .. n + 1 : i < j => B(g.out[i], g.out[j])
      BY <2>3, <2>9, <3>1, <3>2
    <3> QED BY <2>3, <3>3 DEF Rises, B
  <2>11. ASSUME NEW k \in DOMAIN g.out, NEW i \in DOMAIN rs, NEW j \in g.next[i] .. Len(rs[i])
         PROVE  B(g.out[k], rs[i][j])
    <3>1. B(x, rs[i][j]) /\ j \in m.next[i] .. Len(rs[i])
      BY <2>8
    <3>2. k \in 1 .. n \/ k = n + 1
      BY <2>3
    <3>3. CASE k = n + 1
      BY <2>3, <3>1, <3>3
    <3>4. CASE k \in 1 .. n
      BY <2>3, <3>1, <3>4 DEF RisesSoFar
    <3> QED BY <3>2, <3>3, <3>4
  <2>12. RisesSoFar(g, rs, ascending)
    BY <2>10, <2>11 DEF RisesSoFar
  <2> QED BY <2>12 DEF g
<1> QED BY <1>1, <1>2

LEMMA MergeRises ==
    ASSUME NEW S, \A x \in S : IsItem(x), NEW rs \in Seq(Seq(S)), NEW ascending \in BOOLEAN,
           NEW once \in BOOLEAN, ~once, \A i \in DOMAIN rs : Rises(rs[i], ascending)
    PROVE  Rises(Merge(rs, ascending, once), ascending)
<1> DEFINE n == Len(Turns(rs))
<1>1. n \in Nat
  BY TurnsAre
<1>2. PICK v \in [0 .. n -> MergeStates(S, rs)] :
          /\ v[0] = Nothing(rs) /\ \A k \in 1 .. n : v[k] = MergeStep(v[k - 1], rs, ascending, once)
          /\ Merge(rs, ascending, once) = v[n].out
  BY MergeRuns
<1> HIDE DEF n
<1> DEFINE R == {k \in 0 .. n : RisesSoFar(v[k], rs, ascending)}
<1>3. 0 \in R
  <2>1. 0 \in 0 .. n /\ v[0].out = <<>>
    BY <1>1, <1>2 DEF Nothing
  <2>2. DOMAIN v[0].out = {}
    BY <2>1
  <2> QED BY <2>1, <2>2 DEF RisesSoFar, Rises
<1>4. ASSUME NEW k \in 0 .. n - 1, k \in R PROVE k + 1 \in R
  <2>1. k \in 0 .. n /\ k + 1 \in 0 .. n /\ k + 1 \in 1 .. n /\ (k + 1) - 1 = k
    BY <1>1
  <2>2. v[k] \in MergeStates(S, rs) /\ v[k + 1] = MergeStep(v[k], rs, ascending, once) /\ RisesSoFar(v[k], rs, ascending)
    BY <1>2, <1>4, <2>1
  <2> QED BY <2>1, <2>2, RisesKept
<1>5. n \in R
  <2> HIDE DEF R
  <2>1. \A k \in 0 .. n : k \in R
    BY <1>1, <1>3, <1>4, UpTo
  <2> QED BY <1>1, <2>1
<1> QED BY <1>2, <1>5 DEF RisesSoFar

-----------------------------------------------------------------------------
(* What a reader that ends early leaves, and what a filter leaves             *)

LEMMA ReadableIs ==
    ASSUME NEW S, NEW rs \in Seq(Seq(S)), NEW key, NEW ascending \in BOOLEAN, NEW mayLose,
           NEW seen \in Readable(rs, mayLose)
    PROVE  /\ seen \in Seq(Seq(S)) /\ Len(seen) = Len(rs)
           /\ AllSorted(rs, key, ascending) => AllSorted(seen, key, ascending)
           /\ ~mayLose => seen = rs
           /\ \A i \in DOMAIN seen : \E n \in 0 .. Len(rs[i]) : seen[i] = SubSeq(rs[i], 1, n)
<1>1. /\ Len(rs) \in Nat /\ DOMAIN rs = 1 .. Len(rs)
      /\ \A i \in DOMAIN rs : rs[i] \in Seq(S) /\ Len(rs[i]) \in Nat /\ DOMAIN rs[i] = 1 .. Len(rs[i])
  OBVIOUS
<1>2. CASE seen = rs
  <2>1. \A i \in DOMAIN rs : rs[i] = SubSeq(rs[i], 1, Len(rs[i])) /\ Len(rs[i]) \in 0 .. Len(rs[i])
    BY <1>1
  <2> QED BY <1>2, <2>1
<1>3. CASE mayLose /\ \E i \in DOMAIN rs : \E n \in 0 .. Len(rs[i]) : seen = [rs EXCEPT ![i] = SubSeq(@, 1, n)]
  <2>1. PICK i \in DOMAIN rs : \E n \in 0 .. Len(rs[i]) : seen = [rs EXCEPT ![i] = SubSeq(@, 1, n)]
    BY <1>3
  <2>2. PICK n \in 0 .. Len(rs[i]) : seen = [rs EXCEPT ![i] = SubSeq(@, 1, n)]
    BY <2>1
  <2> DEFINE s == SubSeq(rs[i], 1, n)
  <2>3. s \in Seq(S) /\ Len(s) = n /\ \A k \in 1 .. n : s[k] = rs[i][k]
    BY <1>1, <2>1, <2>2, SubSeqIs
  <2>4. seen = [rs EXCEPT ![i] = s]
    BY <2>2
  <2> HIDE DEF s
  <2>5. seen[i] = s /\ DOMAIN seen = DOMAIN rs /\ Len(seen) = Len(rs) /\ \A k \in DOMAIN rs : k # i => seen[k] = rs[k]
    BY <1>1, <2>1, <2>4
  <2>6. seen \in Seq(Seq(S))
    BY <1>1, <2>1, <2>3, <2>4
  <2>7. AllSorted(rs, key, ascending) => AllSorted(seen, key, ascending)
    <3> SUFFICES ASSUME AllSorted(rs, key, ascending), NEW k \in DOMAIN rs PROVE SortedBy(seen[k], key, ascending)
      BY <2>5 DEF AllSorted
    <3>1. SortedBy(rs[k], key, ascending)
      BY DEF AllSorted
    <3>2. CASE k # i
      BY <2>5, <3>1, <3>2
    <3>3. CASE k = i
      <4>1. DOMAIN s = 1 .. n /\ \A m \in 1 .. n : m \in DOMAIN rs[i]
        BY <1>1, <2>1, <2>2, <2>3
      <4> QED BY <2>3, <2>5, <3>1, <3>3, <4>1 DEF SortedBy
    <3> QED BY <3>2, <3>3
  <2>8. \A k \in DOMAIN seen : \E j \in 0 .. Len(rs[k]) : seen[k] = SubSeq(rs[k], 1, j)
    <3>1. \A k \in DOMAIN rs : rs[k] = SubSeq(rs[k], 1, Len(rs[k])) /\ Len(rs[k]) \in 0 .. Len(rs[k])
      BY <1>1
    <3> QED BY <2>2, <2>5, <3>1 DEF s
  <2> QED BY <1>3, <2>5, <2>6, <2>7, <2>8
<1> QED BY <1>2, <1>3 DEF Readable

OnlyStep(s, item, T) == IF item \in T THEN Append(s, item) ELSE s

(* Only, one item after the other.                                            *)
LEMMA OnlyRuns ==
    ASSUME NEW S, NEW items \in Seq(S), NEW T
    PROVE  \E v \in [0 .. Len(items) -> Seq(S)] :
               /\ v[0] = <<>> /\ \A k \in 1 .. Len(items) : v[k] = OnlyStep(v[k - 1], items[k], T)
               /\ Only(items, T) = v[Len(items)]
<1> DEFINE n == Len(items)
           Def(f) == f = [s \in SUBSET DOMAIN items |-> IF s = {} THEN <<>> ELSE OnlyStep(f[s \ {Max(s)}], items[Max(s)], T)]
           fold == CHOOSE f : Def(f)
<1>1. n \in Nat /\ DOMAIN items = 1 .. n
  OBVIOUS
<1>2. Only(items, T) = fold[1 .. n]
  <2>1. Only(items, T) = fold[DOMAIN items]
    BY DEF Only, OnlyStep, FoldLeft, MapThenFoldSet
  <2> QED BY <1>1, <2>1
<1>3. ASSUME NEW f \in Seq(S), NEW k \in 1 .. n PROVE OnlyStep(f, items[k], T) \in Seq(S)
  BY DEF OnlyStep
<1>4. <<>> \in Seq(S)
  OBVIOUS
<1>5. \E f : Def(f)
  <2> DEFINE step == [p \in (Seq(S)) \X (1 .. n) |-> OnlyStep(p[1], items[p[2]], T)]
  <2>1. step \in [(Seq(S)) \X (1 .. n) -> Seq(S)]
    <3> HIDE DEF n
    <3> QED BY <1>3
  <2>2. ASSUME NEW f \in Seq(S), NEW k \in 1 .. n PROVE step[f, k] = OnlyStep(f, items[k], T)
    <3> HIDE DEF n
    <3> QED OBVIOUS
  <2> HIDE DEF step
  <2>3. PICK f \in [SUBSET (1 .. n) -> Seq(S)] : Folds(n, <<>>, step, f)
    BY <1>1, <1>4, <2>1, FoldExists
  <2>4. ASSUME NEW s \in SUBSET (1 .. n), s # {}
        PROVE  step[f[s \ {Max(s)}], Max(s)] = OnlyStep(f[s \ {Max(s)}], items[Max(s)], T)
    <3>1. Max(s) \in s
      BY <1>1, <2>4, MaxIn
    <3>2. s \ {Max(s)} \in SUBSET (1 .. n)
      OBVIOUS
    <3> QED BY <2>2, <3>1, <3>2
  <2>5. f = [s \in SUBSET (1 .. n) |-> IF s = {} THEN <<>> ELSE OnlyStep(f[s \ {Max(s)}], items[Max(s)], T)]
    BY <2>3, <2>4 DEF Folds
  <2> QED BY <1>1, <2>5
<1>6. Def(fold)
  BY <1>5
<1> HIDE DEF fold
<1>7. \A s \in SUBSET (1 .. n) : fold[s] = IF s = {} THEN <<>> ELSE OnlyStep(fold[s \ {Max(s)}], items[Max(s)], T)
  BY <1>1, <1>6
<1> HIDE DEF Def
<1> DEFINE v == [k \in 0 .. n |-> fold[1 .. k]]
<1>8. v[0] = <<>>
  <2>1. fold[1 .. 0] = <<>>
    BY <1>1, <1>7, Intervals
  <2> QED BY <1>1, <2>1
<1>9. ASSUME NEW k \in 1 .. n PROVE v[k] = OnlyStep(v[k - 1], items[k], T)
  <2>1. /\ 1 .. k \in SUBSET (1 .. n) /\ 1 .. k # {}
        /\ Max(1 .. k) = k /\ (1 .. k) \ {k} = 1 .. k - 1
    BY <1>1, Intervals
  <2>2. fold[1 .. k] = OnlyStep(fold[(1 .. k) \ {Max(1 .. k)}], items[Max(1 .. k)], T)
    BY <1>7, <2>1
  <2>3. v[k] = fold[1 .. k] /\ v[k - 1] = fold[1 .. k - 1]
    BY <1>1
  <2> HIDE DEF v
  <2> QED BY <2>1, <2>2, <2>3
<1>10. v[n] = fold[1 .. n] /\ DOMAIN v = 0 .. n
  BY <1>1
<1>11. \A k \in 0 .. n : v[k] \in Seq(S)
  <2> DEFINE K == {k \in 0 .. n : v[k] \in Seq(S)}
  <2> HIDE DEF v
  <2>1. 0 \in K
    <3>1. 0 \in 0 .. n
      BY <1>1
    <3>2. v[0] \in Seq(S)
      BY <1>4, <1>8, Zenon
    <3> QED BY <3>1, <3>2
  <2>2. ASSUME NEW k \in 0 .. n - 1, k \in K PROVE k + 1 \in K
    <3>1. k + 1 \in 1 .. n /\ k + 1 \in 0 .. n /\ (k + 1) - 1 = k
      BY <1>1
    <3>2. v[k + 1] = OnlyStep(v[k], items[k + 1], T)
      BY <1>9, <3>1
    <3> QED BY <1>3, <2>2, <3>1, <3>2
  <2> HIDE DEF K
  <2>3. \A k \in 0 .. n : k \in K
    BY <1>1, <2>1, <2>2, UpTo
  <2> QED BY <2>3 DEF K
<1>12. v \in [0 .. n -> Seq(S)]
  BY <1>10, <1>11
<1> HIDE DEF v
<1> QED BY <1>2, <1>8, <1>9, <1>10, <1>12

LEMMA OnlyIs ==
    ASSUME NEW S, NEW items \in Seq(S), NEW T
    PROVE  /\ Only(items, T) \in Seq(S) /\ ToSet(Only(items, T)) = ToSet(items) \cap T
           /\ Len(Only(items, T)) <= Len(items)
<1> DEFINE n == Len(items)
           r == Only(items, T)
<1>1. PICK v \in [0 .. n -> Seq(S)] :
          v[0] = <<>> /\ (\A k \in 1 .. n : v[k] = OnlyStep(v[k - 1], items[k], T)) /\ r = v[n]
  BY OnlyRuns
<1>2. n \in Nat /\ DOMAIN items = 1 .. n /\ \A k \in 1 .. n : items[k] \in S
  OBVIOUS
<1> HIDE DEF n, r
<1> DEFINE Had(k) == {items[i] : i \in 1 .. k}
           K == {k \in 0 .. n : ToSet(v[k]) = Had(k) \cap T /\ Len(v[k]) <= k}
<1>3. 0 \in K
  <2>1. ToSet(<<>>) = {} /\ Had(0) = {}
    BY DEF ToSet
  <2> QED BY <1>1, <1>2, <2>1
<1>4. ASSUME NEW k \in 0 .. n - 1, k \in K PROVE k + 1 \in K
  <2>1. k + 1 \in 1 .. n /\ k + 1 \in 0 .. n /\ k \in 0 .. n /\ (k + 1) - 1 = k /\ k \in Nat
    BY <1>2
  <2>2. v[k + 1] = OnlyStep(v[k], items[k + 1], T) /\ v[k] \in Seq(S) /\ items[k + 1] \in S /\ Len(v[k]) \in Nat /\ Len(v[k]) <= k
    <3>1. v[k + 1] = OnlyStep(v[k], items[k + 1], T)
      BY <1>1, <2>1
    <3>2. v[k] \in Seq(S) /\ items[k + 1] \in S
      BY <1>1, <1>2, <2>1
    <3>3. Len(v[k]) \in Nat
      BY <3>2
    <3>4. Len(v[k]) <= k
      BY <1>4
    <3> QED BY <3>1, <3>2, <3>3, <3>4
  <2>3. Had(k + 1) = Had(k) \cup {items[k + 1]}
    <3>1. 1 .. k + 1 = (1 .. k) \cup {k + 1}
      BY <2>1
    <3> QED BY <3>1
  <2>4. ToSet(v[k]) = Had(k) \cap T
    BY <1>4
  <2> HIDE DEF Had
  <2>5. CASE items[k + 1] \in T
    <3>1. v[k + 1] = Append(v[k], items[k + 1])
      BY <2>2, <2>5 DEF OnlyStep
    <3>2. Len(v[k + 1]) = Len(v[k]) + 1 /\ ToSet(v[k + 1]) = ToSet(v[k]) \cup {items[k + 1]}
      BY <2>2, <3>1, AppendItem
    <3>3. Len(v[k + 1]) <= k + 1
      <4> DEFINE a == Len(v[k])
      <4>1. a \in Nat /\ a <= k /\ Len(v[k + 1]) = a + 1
        BY <2>2, <3>2
      <4> HIDE DEF a
      <4> QED BY <2>1, <4>1
    <3>4. ToSet(v[k + 1]) = Had(k + 1) \cap T
      BY <2>3, <2>4, <2>5, <3>2
    <3> QED BY <2>1, <3>3, <3>4
  <2>6. CASE items[k + 1] \notin T
    <3>1. v[k + 1] = v[k]
      BY <2>2, <2>6 DEF OnlyStep
    <3>2. ToSet(v[k + 1]) = Had(k + 1) \cap T
      BY <2>3, <2>4, <2>6, <3>1
    <3> QED BY <2>1, <2>2, <3>1, <3>2
  <2> QED BY <2>5, <2>6
<1>5. n \in K
  <2> HIDE DEF K
  <2>1. \A k \in 0 .. n : k \in K
    BY <1>2, <1>3, <1>4, UpTo
  <2>2. n \in 0 .. n
    BY <1>2
  <2> QED BY <2>1, <2>2
<1>6. ToSet(items) = Had(n)
  BY <1>2 DEF ToSet
<1>7. n \in 0 .. n
  BY <1>2
<1> QED BY <1>1, <1>5, <1>6, <1>7 DEF n, r

\* What FilterTopChainResults does with an item.
KeepTop(f, item) ==
    IF IsRepoRoot(item) \/ (f.prev # <<>> /\ IsPrefix(f.prev, GetSortKey(item))) THEN f
    ELSE [out |-> Append(f.out, item), prev |-> IF item.type = "folder" THEN GetSortKey(item) ELSE f.prev]

\* What FilterBottomChainResults does with an item.
KeepBottom(f, item) ==
    IF IsRepoRoot(item) \/ (f.prev # <<>> /\ IsPrefix(WithSuffix(Text(item.path)), f.prev)) THEN f
    ELSE [out |-> Append(f.out, item), prev |-> WithSuffix(Text(item.path))]

Chains(S) == [out : Seq(S), prev : Texts]
NoChain == [out |-> <<>>, prev |-> <<>>]

LEMMA KeepIn ==
    ASSUME NEW S, \A x \in S : IsItem(x), NEW f \in Chains(S), NEW item \in S
    PROVE  KeepTop(f, item) \in Chains(S) /\ KeepBottom(f, item) \in Chains(S)
<1>1. f.out \in Seq(S) /\ f.prev \in Texts
  BY DEF Chains
<1>2. GetSortKey(item) \in Texts /\ WithSuffix(Text(item.path)) \in Texts
  BY KeyIs DEF Way
<1>3. Append(f.out, item) \in Seq(S)
  BY <1>1
<1>4. \A q \in Texts : [out |-> Append(f.out, item), prev |-> q] \in Chains(S)
  BY <1>3 DEF Chains
<1>5. KeepTop(f, item) \in Chains(S)
  BY <1>1, <1>2, <1>4 DEF KeepTop
<1>6. KeepBottom(f, item) \in Chains(S)
  BY <1>2, <1>4 DEF KeepBottom
<1> QED BY <1>5, <1>6

(* FilterTopChainResults, one item after the other.                           *)
LEMMA TopRuns ==
    ASSUME NEW S, \A x \in S : IsItem(x), NEW items \in Seq(S)
    PROVE  \E v \in [0 .. Len(items) -> Chains(S)] :
               /\ v[0] = NoChain /\ \A k \in 1 .. Len(items) : v[k] = KeepTop(v[k - 1], items[k])
               /\ FilterTopChainResults(items) = v[Len(items)].out
<1> DEFINE n == Len(items)
           Def(f) == f = [s \in SUBSET DOMAIN items |-> IF s = {} THEN NoChain ELSE KeepTop(f[s \ {Max(s)}], items[Max(s)])]
           fold == CHOOSE f : Def(f)
<1>1. n \in Nat /\ DOMAIN items = 1 .. n
  OBVIOUS
<1>2. FilterTopChainResults(items) = fold[1 .. n].out
  <2>1. FilterTopChainResults(items) = fold[DOMAIN items].out
    BY DEF FilterTopChainResults, KeepTop, NoChain, FoldLeft, MapThenFoldSet
  <2> QED BY <1>1, <2>1
<1>3. ASSUME NEW f \in Chains(S), NEW k \in 1 .. n PROVE KeepTop(f, items[k]) \in Chains(S)
  BY KeepIn
<1>4. NoChain \in Chains(S)
  BY DEF NoChain, Chains, Texts
<1>5. \E f : Def(f)
  <2> DEFINE step == [p \in (Chains(S)) \X (1 .. n) |-> KeepTop(p[1], items[p[2]])]
  <2>1. step \in [(Chains(S)) \X (1 .. n) -> Chains(S)]
    <3> HIDE DEF n
    <3> QED BY <1>3
  <2>2. ASSUME NEW f \in Chains(S), NEW k \in 1 .. n PROVE step[f, k] = KeepTop(f, items[k])
    <3> HIDE DEF n
    <3> QED OBVIOUS
  <2> HIDE DEF step
  <2>3. PICK f \in [SUBSET (1 .. n) -> Chains(S)] : Folds(n, NoChain, step, f)
    BY <1>1, <1>4, <2>1, FoldExists
  <2>4. ASSUME NEW s \in SUBSET (1 .. n), s # {}
        PROVE  step[f[s \ {Max(s)}], Max(s)] = KeepTop(f[s \ {Max(s)}], items[Max(s)])
    <3>1. Max(s) \in s
      BY <1>1, <2>4, MaxIn
    <3>2. s \ {Max(s)} \in SUBSET (1 .. n)
      OBVIOUS
    <3> QED BY <2>2, <3>1, <3>2
  <2>5. f = [s \in SUBSET (1 .. n) |-> IF s = {} THEN NoChain ELSE KeepTop(f[s \ {Max(s)}], items[Max(s)])]
    BY <2>3, <2>4 DEF Folds
  <2> QED BY <1>1, <2>5
<1>6. Def(fold)
  BY <1>5
<1> HIDE DEF fold
<1>7. \A s \in SUBSET (1 .. n) : fold[s] = IF s = {} THEN NoChain ELSE KeepTop(fold[s \ {Max(s)}], items[Max(s)])
  BY <1>1, <1>6
<1> HIDE DEF Def
<1> DEFINE v == [k \in 0 .. n |-> fold[1 .. k]]
<1>8. v[0] = NoChain
  <2>1. fold[1 .. 0] = NoChain
    BY <1>1, <1>7, Intervals
  <2> QED BY <1>1, <2>1
<1>9. ASSUME NEW k \in 1 .. n PROVE v[k] = KeepTop(v[k - 1], items[k])
  <2>1. /\ 1 .. k \in SUBSET (1 .. n) /\ 1 .. k # {}
        /\ Max(1 .. k) = k /\ (1 .. k) \ {k} = 1 .. k - 1
    BY <1>1, Intervals
  <2>2. fold[1 .. k] = KeepTop(fold[(1 .. k) \ {Max(1 .. k)}], items[Max(1 .. k)])
    BY <1>7, <2>1
  <2>3. v[k] = fold[1 .. k] /\ v[k - 1] = fold[1 .. k - 1]
    BY <1>1
  <2> HIDE DEF v
  <2> QED BY <2>1, <2>2, <2>3
<1>10. v[n] = fold[1 .. n] /\ DOMAIN v = 0 .. n
  BY <1>1
<1>11. \A k \in 0 .. n : v[k] \in Chains(S)
  <2> DEFINE K == {k \in 0 .. n : v[k] \in Chains(S)}
  <2> HIDE DEF v
  <2>1. 0 \in K
    BY <1>1, <1>4, <1>8
  <2>2. ASSUME NEW k \in 0 .. n - 1, k \in K PROVE k + 1 \in K
    <3>1. k + 1 \in 1 .. n /\ k + 1 \in 0 .. n /\ (k + 1) - 1 = k
      BY <1>1
    <3>2. v[k + 1] = KeepTop(v[k], items[k + 1])
      BY <1>9, <3>1
    <3> QED BY <1>3, <2>2, <3>1, <3>2
  <2> HIDE DEF K
  <2>3. \A k \in 0 .. n : k \in K
    BY <1>1, <2>1, <2>2, UpTo
  <2> QED BY <2>3 DEF K
<1>12. v \in [0 .. n -> Chains(S)]
  BY <1>10, <1>11
<1> HIDE DEF v
<1> QED BY <1>2, <1>8, <1>9, <1>10, <1>12

(* FilterBottomChainResults, one item after the other.                        *)
LEMMA BottomRuns ==
    ASSUME NEW S, \A x \in S : IsItem(x), NEW items \in Seq(S)
    PROVE  \E v \in [0 .. Len(items) -> Chains(S)] :
               /\ v[0] = NoChain /\ \A k \in 1 .. Len(items) : v[k] = KeepBottom(v[k - 1], items[k])
               /\ FilterBottomChainResults(items) = v[Len(items)].out
<1> DEFINE n == Len(items)
           Def(f) == f = [s \in SUBSET DOMAIN items |-> IF s = {} THEN NoChain ELSE KeepBottom(f[s \ {Max(s)}], items[Max(s)])]
           fold == CHOOSE f : Def(f)
<1>1. n \in Nat /\ DOMAIN items = 1 .. n
  OBVIOUS
<1>2. FilterBottomChainResults(items) = fold[1 .. n].out
  <2>1. FilterBottomChainResults(items) = fold[DOMAIN items].out
    BY DEF FilterBottomChainResults, KeepBottom, NoChain, FoldLeft, MapThenFoldSet
  <2> QED BY <1>1, <2>1
<1>3. ASSUME NEW f \in Chains(S), NEW k \in 1 .. n PROVE KeepBottom(f, items[k]) \in Chains(S)
  BY KeepIn
<1>4. NoChain \in Chains(S)
  BY DEF NoChain, Chains, Texts
<1>5. \E f : Def(f)
  <2> DEFINE step == [p \in (Chains(S)) \X (1 .. n) |-> KeepBottom(p[1], items[p[2]])]
  <2>1. step \in [(Chains(S)) \X (1 .. n) -> Chains(S)]
    <3> HIDE DEF n
    <3> QED BY <1>3
  <2>2. ASSUME NEW f \in Chains(S), NEW k \in 1 .. n PROVE step[f, k] = KeepBottom(f, items[k])
    <3> HIDE DEF n
    <3> QED OBVIOUS
  <2> HIDE DEF step
  <2>3. PICK f \in [SUBSET (1 .. n) -> Chains(S)] : Folds(n, NoChain, step, f)
    BY <1>1, <1>4, <2>1, FoldExists
  <2>4. ASSUME NEW s \in SUBSET (1 .. n), s # {}
        PROVE  step[f[s \ {Max(s)}], Max(s)] = KeepBottom(f[s \ {Max(s)}], items[Max(s)])
    <3>1. Max(s) \in s
      BY <1>1, <2>4, MaxIn
    <3>2. s \ {Max(s)} \in SUBSET (1 .. n)
      OBVIOUS
    <3> QED BY <2>2, <3>1, <3>2
  <2>5. f = [s \in SUBSET (1 .. n) |-> IF s = {} THEN NoChain ELSE KeepBottom(f[s \ {Max(s)}], items[Max(s)])]
    BY <2>3, <2>4 DEF Folds
  <2> QED BY <1>1, <2>5
<1>6. Def(fold)
  BY <1>5
<1> HIDE DEF fold
<1>7. \A s \in SUBSET (1 .. n) : fold[s] = IF s = {} THEN NoChain ELSE KeepBottom(fold[s \ {Max(s)}], items[Max(s)])
  BY <1>1, <1>6
<1> HIDE DEF Def
<1> DEFINE v == [k \in 0 .. n |-> fold[1 .. k]]
<1>8. v[0] = NoChain
  <2>1. fold[1 .. 0] = NoChain
    BY <1>1, <1>7, Intervals
  <2> QED BY <1>1, <2>1
<1>9. ASSUME NEW k \in 1 .. n PROVE v[k] = KeepBottom(v[k - 1], items[k])
  <2>1. /\ 1 .. k \in SUBSET (1 .. n) /\ 1 .. k # {}
        /\ Max(1 .. k) = k /\ (1 .. k) \ {k} = 1 .. k - 1
    BY <1>1, Intervals
  <2>2. fold[1 .. k] = KeepBottom(fold[(1 .. k) \ {Max(1 .. k)}], items[Max(1 .. k)])
    BY <1>7, <2>1
  <2>3. v[k] = fold[1 .. k] /\ v[k - 1] = fold[1 .. k - 1]
    BY <1>1
  <2> HIDE DEF v
  <2> QED BY <2>1, <2>2, <2>3
<1>10. v[n] = fold[1 .. n] /\ DOMAIN v = 0 .. n
  BY <1>1
<1>11. \A k \in 0 .. n : v[k] \in Chains(S)
  <2> DEFINE K == {k \in 0 .. n : v[k] \in Chains(S)}
  <2> HIDE DEF v
  <2>1. 0 \in K
    BY <1>1, <1>4, <1>8
  <2>2. ASSUME NEW k \in 0 .. n - 1, k \in K PROVE k + 1 \in K
    <3>1. k + 1 \in 1 .. n /\ k + 1 \in 0 .. n /\ (k + 1) - 1 = k
      BY <1>1
    <3>2. v[k + 1] = KeepBottom(v[k], items[k + 1])
      BY <1>9, <3>1
    <3> QED BY <1>3, <2>2, <3>1, <3>2
  <2> HIDE DEF K
  <2>3. \A k \in 0 .. n : k \in K
    BY <1>1, <2>1, <2>2, UpTo
  <2> QED BY <2>3 DEF K
<1>12. v \in [0 .. n -> Chains(S)]
  BY <1>10, <1>11
<1> HIDE DEF v
<1> QED BY <1>2, <1>8, <1>9, <1>10, <1>12

\* What the list so far has of the first k items.
Covers(s, items, k) ==
    /\ \A n \in DOMAIN s : ~IsRepoRoot(s[n]) /\ \E i \in 1 .. k : s[n] = items[i]
    /\ \A i \in 1 .. k : ~IsRepoRoot(items[i]) =>
          \E n \in DOMAIN s : s[n] = items[i] \/ (s[n].type = "folder" /\ IsPrefix(s[n].path, items[i].path))

LastFolder(f) ==
    f.prev # <<>> => \E n \in DOMAIN f.out : f.out[n].type = "folder" /\ GetSortKey(f.out[n]) = f.prev

\* The list so far is sorted, and nothing is below a folder before it.
Climbs(s) ==
    \A i, j \in DOMAIN s : i < j =>
        /\ Less(GetSortKey(s[i]), GetSortKey(s[j]))
        /\ s[i].type = "folder" => ~IsPrefix(GetSortKey(s[i]), GetSortKey(s[j]))

FoldersBefore(f) ==
    \A n \in DOMAIN f.out : f.out[n].type = "folder" =>
        /\ f.prev # <<>>
        /\ \E p \in DOMAIN f.out : n <= p /\ f.out[p].type = "folder" /\ GetSortKey(f.out[p]) = f.prev

LEMMA TopCovers ==
    ASSUME NEW S, \A x \in S : IsItem(x), NEW items \in Seq(S), NEW k \in Nat, k + 1 \in DOMAIN items,
           NEW f \in Chains(S), Covers(f.out, items, k), LastFolder(f)
    PROVE  LET g == KeepTop(f, items[k + 1])
           IN  Covers(g.out, items, k + 1) /\ LastFolder(g)
<1> DEFINE item == items[k + 1]
           g == KeepTop(f, item)
<1>1. f.out \in Seq(S) /\ f.prev \in Texts /\ item \in S /\ IsItem(item) /\ \A x \in ToSet(f.out) : x \in S
  <2>1. item \in S /\ f.out \in Seq(S) /\ f.prev \in Texts
    BY DEF Chains
  <2> QED BY <2>1 DEF ToSet
<1>2. \A i \in 1 .. k + 1 : i \in 1 .. k \/ i = k + 1
  OBVIOUS
<1>3. k + 1 \in 1 .. k + 1 /\ \A i \in 1 .. k : i \in 1 .. k + 1
  OBVIOUS
<1> HIDE DEF item
<1>4. CASE IsRepoRoot(item)
  <2>1. g = f
    BY <1>4 DEF KeepTop
  <2> HIDE DEF g
  <2>2. Covers(f.out, items, k + 1)
    BY <1>2, <1>3, <1>4 DEF Covers, item
  <2> QED BY <2>1, <2>2 DEF g, item
<1>5. CASE ~IsRepoRoot(item) /\ f.prev # <<>> /\ IsPrefix(f.prev, GetSortKey(item))
  <2>1. g = f
    BY <1>5 DEF KeepTop
  <2> HIDE DEF g
  <2>2. PICK n \in DOMAIN f.out : f.out[n].type = "folder" /\ GetSortKey(f.out[n]) = f.prev
    BY <1>5 DEF LastFolder
  <2>3. IsItem(f.out[n])
    BY <1>1 DEF ToSet
  <2>4. IsPrefix(f.out[n].path, item.path)
    BY <1>1, <1>5, <2>2, <2>3, KeyPrefix
  <2>5. Covers(f.out, items, k + 1)
    BY <1>2, <1>3, <2>2, <2>4 DEF Covers, item
  <2> QED BY <2>1, <2>5 DEF g, item
<1>6. CASE ~IsRepoRoot(item) /\ ~(f.prev # <<>> /\ IsPrefix(f.prev, GetSortKey(item)))
  <2> DEFINE s == Append(f.out, item)
             m == Len(f.out)
  <2>1. g.out = s /\ g.prev = IF item.type = "folder" THEN GetSortKey(item) ELSE f.prev
    BY <1>6 DEF KeepTop
  <2>2. /\ m \in Nat /\ DOMAIN f.out = 1 .. m /\ DOMAIN s = 1 .. m + 1
        /\ s[m + 1] = item /\ \A n \in 1 .. m : s[n] = f.out[n]
    BY <1>1, AppendProperties
  <2>3. /\ m + 1 \in DOMAIN s /\ \A n \in DOMAIN f.out : n \in DOMAIN s /\ s[n] = f.out[n]
        /\ \A n \in DOMAIN s : n \in DOMAIN f.out \/ n = m + 1
    BY <2>2
  <2> HIDE DEF s, m
  <2>4. \A n \in DOMAIN s : ~IsRepoRoot(s[n]) /\ \E i \in 1 .. k + 1 : s[n] = items[i]
    BY <1>3, <1>6, <2>2, <2>3 DEF Covers, item
  <2>5. \A i \in 1 .. k + 1 : ~IsRepoRoot(items[i]) =>
          \E n \in DOMAIN s : s[n] = items[i] \/ (s[n].type = "folder" /\ IsPrefix(s[n].path, items[i].path))
    <3> SUFFICES ASSUME NEW i \in 1 .. k + 1, ~IsRepoRoot(items[i])
                 PROVE  \E n \in DOMAIN s : s[n] = items[i] \/ (s[n].type = "folder" /\ IsPrefix(s[n].path, items[i].path))
      OBVIOUS
    <3>1. CASE i \in 1 .. k
      <4>1. PICK n \in DOMAIN f.out : f.out[n] = items[i] \/ (f.out[n].type = "folder" /\ IsPrefix(f.out[n].path, items[i].path))
        BY <3>1 DEF Covers
      <4> QED BY <2>3, <4>1
    <3>2. CASE i = k + 1
      BY <2>2, <2>3, <3>2 DEF item
    <3> QED BY <1>2, <3>1, <3>2
  <2>6. Covers(s, items, k + 1)
    BY <2>4, <2>5 DEF Covers
  <2> HIDE DEF g
  <2>7. LastFolder(g)
    <3>1. CASE item.type = "folder"
      <4>1. s[m + 1].type = "folder" /\ GetSortKey(s[m + 1]) = g.prev
        BY <2>1, <2>2, <3>1
      <4> QED BY <2>1, <2>3, <4>1 DEF LastFolder
    <3>2. CASE item.type # "folder"
      BY <2>1, <2>3, <3>2 DEF LastFolder
    <3> QED BY <3>1, <3>2
  <2> QED BY <2>1, <2>6, <2>7 DEF g, item
<1> QED BY <1>4, <1>5, <1>6

LEMMA TopClimbs ==
    ASSUME NEW S, \A x \in S : IsItem(x), NEW item \in S, NEW f \in Chains(S), Climbs(f.out), FoldersBefore(f),
           \A n \in DOMAIN f.out : Less(GetSortKey(f.out[n]), GetSortKey(item))
    PROVE  LET g == KeepTop(f, item)
           IN  Climbs(g.out) /\ FoldersBefore(g)
<1> DEFINE g == KeepTop(f, item)
           key(x) == GetSortKey(x)
<1>1. f.out \in Seq(S) /\ f.prev \in Texts
  BY DEF Chains
<1>2. CASE IsRepoRoot(item) \/ (f.prev # <<>> /\ IsPrefix(f.prev, GetSortKey(item)))
  <2>1. g = f
    BY <1>2 DEF KeepTop
  <2> QED BY <2>1
<1>3. CASE ~(IsRepoRoot(item) \/ (f.prev # <<>> /\ IsPrefix(f.prev, GetSortKey(item))))
  <2> DEFINE s == Append(f.out, item)
             m == Len(f.out)
  <2>1. g.out = s /\ g.prev = IF item.type = "folder" THEN GetSortKey(item) ELSE f.prev
    BY <1>3 DEF KeepTop
  <2>2. /\ m \in Nat /\ DOMAIN f.out = 1 .. m /\ DOMAIN s = 1 .. m + 1
        /\ s[m + 1] = item /\ \A n \in 1 .. m : s[n] = f.out[n]
    BY <1>1, AppendProperties
  <2>3. /\ m + 1 \in DOMAIN s /\ \A n \in DOMAIN f.out : n \in DOMAIN s /\ s[n] = f.out[n] /\ n <= m + 1
        /\ \A i, j \in DOMAIN s : i < j => i \in DOMAIN f.out /\ (j \in DOMAIN f.out \/ j = m + 1)
        /\ \A n \in DOMAIN s : n \in DOMAIN f.out \/ n = m + 1
    BY <2>2
  <2>4. \A n \in DOMAIN f.out : key(f.out[n]) \in Texts /\ f.out[n] \in S
    <3>1. \A n \in DOMAIN f.out : f.out[n] \in S
      BY <1>1
    <3> QED BY <3>1, KeyIs
  <2>5. key(item) \in Texts /\ key(item) # <<>>
    BY <1>3, KeyIs
  <2> HIDE DEF s, m, key, g
  <2>6. ASSUME NEW n \in DOMAIN f.out, f.out[n].type = "folder"
        PROVE  ~IsPrefix(key(f.out[n]), key(item))
    <3>1. PICK p \in DOMAIN f.out : n <= p /\ f.out[p].type = "folder" /\ key(f.out[p]) = f.prev /\ f.prev # <<>>
      BY <2>6 DEF FoldersBefore, key
    <3>2. ~IsPrefix(f.prev, key(item))
      BY <1>3, <3>1 DEF key
    <3>3. CASE n = p
      BY <3>1, <3>2, <3>3
    <3>4. CASE n # p
      <4>1. n < p
        BY <2>2, <3>1, <3>4
      <4>2. Less(key(f.out[n]), f.prev) /\ ~IsPrefix(key(f.out[n]), f.prev)
        BY <2>6, <3>1, <4>1 DEF Climbs, key
      <4>3. Less(f.prev, key(item))
        BY <3>1 DEF key
      <4>4. ~Less(f.prev, key(f.out[n])) /\ ~Less(key(item), f.prev)
        BY <1>1, <2>4, <2>5, <4>2, <4>3, LessTransitive, LessIrreflexive
      <4> SUFFICES ASSUME IsPrefix(key(f.out[n]), key(item)) PROVE FALSE
        OBVIOUS
      <4> QED BY <1>1, <2>4, <2>5, <4>2, <4>4, Between
    <3> QED BY <3>3, <3>4
  <2>7. Climbs(s)
    <3> SUFFICES ASSUME NEW i \in DOMAIN s, NEW j \in DOMAIN s, i < j
                 PROVE  /\ Less(key(s[i]), key(s[j]))
                        /\ s[i].type = "folder" => ~IsPrefix(key(s[i]), key(s[j]))
      BY DEF Climbs, key
    <3>1. i \in DOMAIN f.out /\ (j \in DOMAIN f.out \/ j = m + 1)
      BY <2>3
    <3>2. CASE j \in DOMAIN f.out
      BY <2>3, <3>1, <3>2 DEF Climbs, key
    <3>3. CASE j = m + 1
      <4>1. s[j] = item /\ s[i] = f.out[i]
        BY <2>2, <2>3, <3>1, <3>3
      <4>2. Less(key(f.out[i]), key(item))
        BY <3>1 DEF key
      <4> QED BY <2>6, <3>1, <4>1, <4>2
    <3> QED BY <3>1, <3>2, <3>3
  <2>8. FoldersBefore(g)
    <3>1. CASE item.type = "folder"
      <4>1. g.prev = key(item) /\ s[m + 1].type = "folder" /\ key(s[m + 1]) = g.prev
        BY <2>1, <2>2, <3>1 DEF key
      <4>2. \A n \in DOMAIN s : n <= m + 1
        BY <2>2
      <4> QED BY <2>1, <2>3, <2>5, <4>1, <4>2 DEF FoldersBefore, key
    <3>2. CASE item.type # "folder"
      <4>1. g.prev = f.prev
        BY <2>1, <3>2
      <4> SUFFICES ASSUME NEW n \in DOMAIN s, s[n].type = "folder"
                   PROVE  f.prev # <<>> /\ \E p \in DOMAIN s : n <= p /\ s[p].type = "folder" /\ key(s[p]) = f.prev
        BY <2>1, <4>1 DEF FoldersBefore, key
      <4>2. n \in DOMAIN f.out /\ f.out[n].type = "folder"
        BY <2>2, <2>3, <3>2
      <4>3. PICK p \in DOMAIN f.out : n <= p /\ f.out[p].type = "folder" /\ key(f.out[p]) = f.prev /\ f.prev # <<>>
        BY <4>2 DEF FoldersBefore, key
      <4> QED BY <2>3, <4>3
    <3> QED BY <3>1, <3>2
  <2> QED BY <2>1, <2>7, <2>8 DEF g
<1> QED BY <1>2, <1>3

\* Only folders have something below them, whatever else items are told apart by.
FitPaths(S) ==
    \A x, y \in S : IsPrefix(x.path, y.path) => x.type = "folder" \/ (x.path = y.path /\ x.type = y.type)

\* No item of the list is at or below another one.
Clear(s) == \A i, j \in DOMAIN s : i # j => ~IsPrefix(s[i].path, s[j].path)

\* x is in the list, or a folder that it is below.
Under(s, x) == \E n \in DOMAIN s : s[n] = x \/ (s[n].type = "folder" /\ IsPrefix(s[n].path, x.path))

LEMMA FilterTopIs ==
    ASSUME NEW S, \A x \in S : IsItem(x), NEW items \in Seq(S), NEW key, ByKey(key, S)
    PROVE  LET r == FilterTopChainResults(items)
           IN  /\ r \in Seq(S) /\ Covers(r, items, Len(items))
               /\ SortedBy(items, key, TRUE) => Climbs(r)
<1> DEFINE n == Len(items)
           r == FilterTopChainResults(items)
<1>1. PICK v \in [0 .. n -> Chains(S)] :
          v[0] = NoChain /\ (\A k \in 1 .. n : v[k] = KeepTop(v[k - 1], items[k])) /\ r = v[n].out
  BY TopRuns
<1>2. n \in Nat /\ DOMAIN items = 1 .. n /\ \A k \in 1 .. n : items[k] \in S
  OBVIOUS
<1> HIDE DEF n, r
<1>3. n \in 0 .. n /\ v[n] \in Chains(S)
  BY <1>1, <1>2
<1>4. ASSUME NEW k \in 0 .. n - 1
      PROVE  /\ k \in Nat /\ k \in 0 .. n /\ k + 1 \in 0 .. n /\ k + 1 \in DOMAIN items /\ items[k + 1] \in S
             /\ v[k] \in Chains(S) /\ v[k + 1] = KeepTop(v[k], items[k + 1])
  <2>1. k + 1 \in 1 .. n /\ k + 1 \in 0 .. n /\ k \in 0 .. n /\ (k + 1) - 1 = k /\ k \in Nat
    BY <1>2
  <2> QED BY <1>1, <1>2, <2>1
<1>5. 0 \in 0 .. n /\ v[0].out = <<>> /\ v[0].prev = <<>> /\ DOMAIN v[0].out = {}
  BY <1>1, <1>2 DEF NoChain
<1>6. \A k \in 0 .. n : Covers(v[k].out, items, k) /\ LastFolder(v[k])
  <2> DEFINE K == {k \in 0 .. n : Covers(v[k].out, items, k) /\ LastFolder(v[k])}
  <2>1. 0 \in K
    BY <1>5 DEF Covers, LastFolder
  <2>2. ASSUME NEW k \in 0 .. n - 1, k \in K PROVE k + 1 \in K
    <3>1. Covers(v[k].out, items, k) /\ LastFolder(v[k])
      BY <2>2
    <3>2. Covers(v[k + 1].out, items, k + 1) /\ LastFolder(v[k + 1])
      BY <1>4, <3>1, TopCovers
    <3> QED BY <1>4, <3>2
  <2> HIDE DEF K
  <2>3. \A k \in 0 .. n : k \in K
    BY <1>2, <2>1, <2>2, UpTo
  <2> QED BY <2>3 DEF K
<1>7. ASSUME SortedBy(items, key, TRUE) PROVE Climbs(r)
  <2> DEFINE K == {k \in 0 .. n : Climbs(v[k].out) /\ FoldersBefore(v[k])}
  <2>1. 0 \in K
    BY <1>5 DEF Climbs, FoldersBefore
  <2>2. ASSUME NEW k \in 0 .. n - 1, k \in K PROVE k + 1 \in K
    <3>1. Climbs(v[k].out) /\ FoldersBefore(v[k])
      BY <2>2
    <3>2. ASSUME NEW m \in DOMAIN v[k].out PROVE Less(GetSortKey(v[k].out[m]), GetSortKey(items[k + 1]))
      <4>1. PICK i \in 1 .. k : v[k].out[m] = items[i]
        BY <1>4, <1>6 DEF Covers
      <4>2. i \in DOMAIN items /\ k + 1 \in DOMAIN items /\ i < k + 1 /\ items[i] \in S /\ items[k + 1] \in S
        BY <1>2, <1>4
      <4>3. Less(key[items[i]], key[items[k + 1]])
        BY <1>7, <4>2 DEF SortedBy, Before
      <4> QED BY <4>1, <4>2, <4>3 DEF ByKey
    <3>3. Climbs(v[k + 1].out) /\ FoldersBefore(v[k + 1])
      BY <1>4, <3>1, <3>2, TopClimbs
    <3> QED BY <1>4, <3>3
  <2> HIDE DEF K
  <2>3. \A k \in 0 .. n : k \in K
    BY <1>2, <2>1, <2>2, UpTo
  <2> QED BY <1>1, <1>3, <2>3 DEF K
<1>8. r \in Seq(S)
  BY <1>1, <1>3 DEF Chains
<1> QED BY <1>1, <1>3, <1>6, <1>7, <1>8 DEF n, r

\* Nothing that a sorted list keeps is below something else that it keeps.
LEMMA ClimbsClear ==
    ASSUME NEW S, \A x \in S : IsItem(x), FitPaths(S), NEW s \in Seq(S), Climbs(s)
    PROVE  Clear(s)
<1> SUFFICES ASSUME NEW i \in DOMAIN s, NEW j \in DOMAIN s, i # j, IsPrefix(s[i].path, s[j].path)
             PROVE  FALSE
  BY DEF Clear
<1> DEFINE x == s[i]
           y == s[j]
<1>1. x \in S /\ y \in S /\ IsItem(x) /\ IsItem(y) /\ i \in Int /\ j \in Int
  OBVIOUS
<1>2. GetSortKey(x) \in Texts /\ GetSortKey(y) \in Texts
  BY <1>1, KeyIs
<1>3. Less(GetSortKey(x), GetSortKey(y)) \/ Less(GetSortKey(y), GetSortKey(x))
  BY <1>1 DEF Climbs
<1>4. GetSortKey(x) # GetSortKey(y)
  BY <1>2, <1>3, LessIrreflexive
<1>5. x.type = "folder" \/ (x.path = y.path /\ x.type = y.type)
  BY <1>1 DEF FitPaths
<1> HIDE DEF x, y
<1>6. ~(x.path = y.path /\ x.type = y.type)
  <2> SUFFICES ASSUME x.path = y.path, x.type = y.type PROVE FALSE
    OBVIOUS
  <2> QED BY <1>4 DEF GetSortKey
<1>7. IsPrefix(x.path, y.path)
  BY DEF x, y
<1>8. x.path # y.path
  <2> SUFFICES ASSUME x.path = y.path PROVE FALSE
    OBVIOUS
  <2>1. x.type = "folder" /\ y.type = "file"
    BY <1>1, <1>5, <1>6 DEF IsItem
  <2>2. IsPrefix(y.path, x.path)
    BY <1>1, PrefixItself DEF IsItem
  <2> QED BY <1>1, <2>1, <2>2 DEF FitPaths
<1>9. IsPrefix(GetSortKey(x), GetSortKey(y))
  BY <1>1, <1>5, <1>6, <1>7, <1>8, KeyPrefix
<1>10. i < j \/ j < i
  BY <1>1
<1>11. CASE i < j
  BY <1>5, <1>6, <1>9, <1>11 DEF Climbs, x, y
<1>12. CASE j < i
  <2>1. Less(GetSortKey(y), GetSortKey(x))
    BY <1>12 DEF Climbs, x, y
  <2> QED BY <1>2, <1>9, <2>1, LessThanPrefix
<1> QED BY <1>10, <1>11, <1>12

\* What the list so far has at or below the first k items.
Reaches(s, items, k) ==
    /\ \A n \in DOMAIN s : \E i \in 1 .. k : s[n] = items[i]
    /\ \A i \in 1 .. k : ~IsRepoRoot(items[i]) => \E n \in DOMAIN s : IsPrefix(items[i].path, s[n].path)

LastOf(f) == f.prev # <<>> => \E n \in DOMAIN f.out : Way(f.out[n].path) = f.prev

LEMMA BottomReaches ==
    ASSUME NEW S, \A x \in S : IsItem(x), NEW items \in Seq(S), NEW k \in Nat, k + 1 \in DOMAIN items,
           NEW f \in Chains(S), Reaches(f.out, items, k), LastOf(f)
    PROVE  LET g == KeepBottom(f, items[k + 1])
           IN  Reaches(g.out, items, k + 1) /\ LastOf(g)
<1> DEFINE item == items[k + 1]
           g == KeepBottom(f, item)
<1>1. f.out \in Seq(S) /\ f.prev \in Texts /\ item \in S /\ IsItem(item) /\ \A x \in ToSet(f.out) : x \in S
  <2>1. item \in S /\ f.out \in Seq(S) /\ f.prev \in Texts
    BY DEF Chains
  <2> QED BY <2>1 DEF ToSet
<1>2. \A i \in 1 .. k + 1 : i \in 1 .. k \/ i = k + 1
  OBVIOUS
<1>3. k + 1 \in 1 .. k + 1 /\ \A i \in 1 .. k : i \in 1 .. k + 1
  OBVIOUS
<1> HIDE DEF item
<1>4. CASE IsRepoRoot(item)
  <2>1. g = f
    BY <1>4 DEF KeepBottom
  <2> HIDE DEF g
  <2>2. Reaches(f.out, items, k + 1)
    BY <1>2, <1>3, <1>4 DEF Reaches, item
  <2> QED BY <2>1, <2>2 DEF g, item
<1>5. CASE ~IsRepoRoot(item) /\ f.prev # <<>> /\ IsPrefix(Way(item.path), f.prev)
  <2>1. g = f
    BY <1>5 DEF KeepBottom, Way
  <2> HIDE DEF g
  <2>2. PICK n \in DOMAIN f.out : Way(f.out[n].path) = f.prev
    BY <1>5 DEF LastOf
  <2>3. IsItem(f.out[n])
    BY <1>1 DEF ToSet
  <2>4. IsPrefix(item.path, f.out[n].path)
    BY <1>1, <1>5, <2>2, <2>3, WayPrefix DEF IsItem
  <2>5. Reaches(f.out, items, k + 1)
    BY <1>2, <1>3, <2>4 DEF Reaches, item
  <2> QED BY <2>1, <2>5 DEF g, item
<1>6. CASE ~IsRepoRoot(item) /\ ~(f.prev # <<>> /\ IsPrefix(Way(item.path), f.prev))
  <2> DEFINE s == Append(f.out, item)
             m == Len(f.out)
  <2>1. g.out = s /\ g.prev = Way(item.path)
    BY <1>6 DEF KeepBottom, Way
  <2>2. /\ m \in Nat /\ DOMAIN f.out = 1 .. m /\ DOMAIN s = 1 .. m + 1
        /\ s[m + 1] = item /\ \A n \in 1 .. m : s[n] = f.out[n]
    BY <1>1, AppendProperties
  <2>3. /\ m + 1 \in DOMAIN s /\ \A n \in DOMAIN f.out : n \in DOMAIN s /\ s[n] = f.out[n]
        /\ \A n \in DOMAIN s : n \in DOMAIN f.out \/ n = m + 1
    BY <2>2
  <2> HIDE DEF s, m
  <2>4. \A n \in DOMAIN s : \E i \in 1 .. k + 1 : s[n] = items[i]
    BY <1>3, <2>2, <2>3 DEF Reaches, item
  <2>5. \A i \in 1 .. k + 1 : ~IsRepoRoot(items[i]) => \E n \in DOMAIN s : IsPrefix(items[i].path, s[n].path)
    <3> SUFFICES ASSUME NEW i \in 1 .. k + 1, ~IsRepoRoot(items[i])
                 PROVE  \E n \in DOMAIN s : IsPrefix(items[i].path, s[n].path)
      OBVIOUS
    <3>1. CASE i \in 1 .. k
      <4>1. PICK n \in DOMAIN f.out : IsPrefix(items[i].path, f.out[n].path)
        BY <3>1 DEF Reaches
      <4> QED BY <2>3, <4>1
    <3>2. CASE i = k + 1
      <4>1. IsPrefix(item.path, item.path)
        BY <1>1, PrefixItself DEF IsItem
      <4> QED BY <2>2, <2>3, <3>2, <4>1 DEF item
    <3> QED BY <1>2, <3>1, <3>2
  <2>6. Reaches(s, items, k + 1)
    BY <2>4, <2>5 DEF Reaches
  <2> HIDE DEF g
  <2>7. LastOf(g)
    BY <2>1, <2>2, <2>3 DEF LastOf
  <2> QED BY <2>1, <2>6, <2>7 DEF g, item
<1> QED BY <1>4, <1>5, <1>6

LEMMA FilterBottomIs ==
    ASSUME NEW S, \A x \in S : IsItem(x), NEW items \in Seq(S)
    PROVE  LET r == FilterBottomChainResults(items)
           IN  r \in Seq(S) /\ Reaches(r, items, Len(items))
<1> DEFINE n == Len(items)
           r == FilterBottomChainResults(items)
<1>1. PICK v \in [0 .. n -> Chains(S)] :
          v[0] = NoChain /\ (\A k \in 1 .. n : v[k] = KeepBottom(v[k - 1], items[k])) /\ r = v[n].out
  BY BottomRuns
<1>2. n \in Nat /\ DOMAIN items = 1 .. n
  OBVIOUS
<1> HIDE DEF n, r
<1>3. n \in 0 .. n /\ v[n] \in Chains(S)
  BY <1>1, <1>2
<1>4. \A k \in 0 .. n : Reaches(v[k].out, items, k) /\ LastOf(v[k])
  <2> DEFINE K == {k \in 0 .. n : Reaches(v[k].out, items, k) /\ LastOf(v[k])}
  <2>1. 0 \in K
    <3>1. 0 \in 0 .. n /\ v[0].out = <<>> /\ v[0].prev = <<>> /\ DOMAIN v[0].out = {}
      BY <1>1, <1>2 DEF NoChain
    <3> QED BY <3>1 DEF Reaches, LastOf
  <2>2. ASSUME NEW k \in 0 .. n - 1, k \in K PROVE k + 1 \in K
    <3>1. Reaches(v[k].out, items, k) /\ LastOf(v[k])
      BY <2>2
    <3>2. k + 1 \in 1 .. n /\ k + 1 \in 0 .. n /\ k \in 0 .. n /\ (k + 1) - 1 = k /\ k \in Nat /\ k + 1 \in DOMAIN items
      BY <1>2
    <3>3. v[k] \in Chains(S) /\ v[k + 1] = KeepBottom(v[k], items[k + 1])
      BY <1>1, <3>2
    <3>4. Reaches(v[k + 1].out, items, k + 1) /\ LastOf(v[k + 1])
      BY <3>1, <3>2, <3>3, BottomReaches
    <3> QED BY <3>2, <3>4
  <2> HIDE DEF K
  <2>3. \A k \in 0 .. n : k \in K
    BY <1>2, <2>1, <2>2, UpTo
  <2> QED BY <2>3 DEF K
<1>5. r \in Seq(S)
  BY <1>1, <1>3 DEF Chains
<1> QED BY <1>1, <1>3, <1>4, <1>5 DEF n, r
-----------------------------------------------------------------------------
(* The reduction of a list of items: none of them is lost unless a reader     *)
(* ended early, and a list reduced from above has no two items on one path.   *)

MergedOnce(rs, ascending) == Merge(rs, ascending, TRUE)

LEMMA ReductionSorts ==
    ASSUME NEW S, \A x \in S : IsItem(x), NEW items \in Seq(S), NEW ascending \in BOOLEAN, NEW mayLose,
           NEW seen \in Readable(SortedBuffers(items, ascending), mayLose)
    PROVE  LET T == ToSet(items)
               r == MergedOnce(seen, ascending)
           IN  /\ T \subseteq S /\ items \in Seq(T) /\ r \in Seq(T)
               /\ ByKey(SortKeys(items), T) /\ SortedBy(r, SortKeys(items), ascending)
               /\ seen = SortedBuffers(items, ascending) =>
                     \A x \in T : \E k \in DOMAIN r : r[k].path = x.path /\ r[k].type = x.type
<1> DEFINE T == ToSet(items)
           key == SortKeys(items)
           rs == SortedBuffers(items, ascending)
           r == MergedOnce(seen, ascending)
<1>1. T \subseteq S /\ items \in Seq(T) /\ IsFiniteSet(T)
  BY SeqOfElements
<1>2. \A x \in T : IsItem(x)
  BY <1>1
<1>3. ByKey(key, T)
  BY DEF SortKeys, ByKey
<1> HIDE DEF key, T
<1>4. \A x \in T : key[x] \in Texts
  BY <1>2, <1>3, KeyIs DEF ByKey
<1>5. rs \in Seq(Seq(T)) /\ AllSorted(rs, key, ascending) /\ \A x \in ToSet(items) : InReaders(rs, key, x)
  <2>1. rs = SplitAndSort(items, key, ascending)
    BY DEF SortedBuffers, key
  <2> QED BY <1>1, <1>4, <2>1, SplitIs
<1> HIDE DEF rs
<1>6. seen \in Seq(Seq(T)) /\ AllSorted(seen, key, ascending)
  BY <1>5, ReadableIs DEF rs
<1>7. r \in Seq(T) /\ SortedBy(r, key, ascending)
      /\ \A i \in DOMAIN seen : \A j \in DOMAIN seen[i] : \E k \in DOMAIN r : GetSortKey(r[k]) = GetSortKey(seen[i][j])
  <2>0. ASSUME NEW once \in BOOLEAN
        PROVE  /\ Merge(seen, ascending, once) \in Seq(T)
               /\ once => SortedBy(Merge(seen, ascending, once), key, ascending)
               /\ \A i \in DOMAIN seen : \A j \in DOMAIN seen[i] : \E k \in DOMAIN Merge(seen, ascending, once) :
                    GetSortKey(Merge(seen, ascending, once)[k]) = GetSortKey(seen[i][j])
    BY SMTT(20), <1>2, <1>3, <1>6, MergeIs
  <2>1. \A once \in BOOLEAN :
          /\ Merge(seen, ascending, once) \in Seq(T)
          /\ once => SortedBy(Merge(seen, ascending, once), key, ascending)
          /\ \A i \in DOMAIN seen : \A j \in DOMAIN seen[i] : \E k \in DOMAIN Merge(seen, ascending, once) :
                GetSortKey(Merge(seen, ascending, once)[k]) = GetSortKey(seen[i][j])
    BY <2>0
  <2>2. TRUE \in BOOLEAN
    OBVIOUS
  <2> QED BY <2>1, <2>2, Zenon DEF MergedOnce
<1> HIDE DEF r
<1>8. ASSUME seen = rs, NEW x \in T PROVE \E k \in DOMAIN r : r[k].path = x.path /\ r[k].type = x.type
  <2>1. PICK i \in DOMAIN seen : \E j \in DOMAIN seen[i] : key[seen[i][j]] = key[x]
    BY <1>5, <1>8 DEF InReaders, T
  <2>2. PICK j \in DOMAIN seen[i] : key[seen[i][j]] = key[x]
    BY <2>1
  <2>3. seen[i][j] \in T
    BY <1>6, <2>1, <2>2
  <2>4. PICK k \in DOMAIN r : GetSortKey(r[k]) = GetSortKey(seen[i][j])
    BY <1>7, <2>1, <2>2
  <2>5. r[k] \in T
    BY <1>7
  <2>6. GetSortKey(r[k]) = GetSortKey(x)
    BY <1>3, <2>2, <2>3, <2>4 DEF ByKey
  <2>7. IsItem(r[k]) /\ IsItem(x)
    BY <1>2, <2>5
  <2> QED BY <2>6, <2>7, KeyApart
<1> QED BY <1>1, <1>3, <1>7, <1>8 DEF T, key, rs, r

(* ReduceTopChainDirResult, which deletions and moves rest on: of what was    *)
(* split, sorted and merged, no item at or below another one is left, and,    *)
(* unless a reader's error was taken for its end, every item is in the list   *)
(* or below a folder of it.                                                   *)
THEOREM ReduceTopIs ==
    ASSUME NEW S, \A x \in S : IsItem(x), FitPaths(S), NEW items \in Seq(S), NEW mayLose,
           NEW seen \in Readable(SortedBuffers(items, TRUE), mayLose)
    PROVE  LET r == ReduceTopChain(seen)
           IN  /\ r \in Seq(ToSet(items)) /\ Clear(r) /\ \A n \in DOMAIN r : ~IsRepoRoot(r[n])
               /\ seen = SortedBuffers(items, TRUE) =>
                     \A x \in ToSet(items) : ~IsRepoRoot(x) =>
                        \E n \in DOMAIN r : \/ r[n].path = x.path /\ r[n].type = x.type
                                            \/ r[n].type = "folder" /\ IsPrefix(r[n].path, x.path)
<1> DEFINE T == ToSet(items)
           key == SortKeys(items)
           m == MergedOnce(seen, TRUE)
           r == ReduceTopChain(seen)
<1>1. /\ T \subseteq S /\ m \in Seq(T) /\ ByKey(key, T) /\ SortedBy(m, key, TRUE)
      /\ seen = SortedBuffers(items, TRUE) =>
            \A x \in T : \E k \in DOMAIN m : m[k].path = x.path /\ m[k].type = x.type
  <2>1. \A ascending \in BOOLEAN : seen \in Readable(SortedBuffers(items, ascending), mayLose) =>
          /\ T \subseteq S /\ MergedOnce(seen, ascending) \in Seq(T) /\ ByKey(key, T)
          /\ SortedBy(MergedOnce(seen, ascending), key, ascending)
          /\ seen = SortedBuffers(items, ascending) =>
                \A x \in T : \E k \in DOMAIN MergedOnce(seen, ascending) :
                    /\ MergedOnce(seen, ascending)[k].path = x.path
                    /\ MergedOnce(seen, ascending)[k].type = x.type
    BY ReductionSorts
  <2>2. TRUE \in BOOLEAN
    OBVIOUS
  <2> QED BY <2>1, <2>2, Zenon
<1>2. \A x \in T : IsItem(x)
  BY <1>1
<1>3. r = FilterTopChainResults(m)
  BY DEF ReduceTopChain, MergedOnce
<1> HIDE DEF T, key, m, r
<1>4. r \in Seq(T) /\ Covers(r, m, Len(m)) /\ Climbs(r)
  BY <1>1, <1>2, <1>3, FilterTopIs
<1>5. FitPaths(T)
  BY <1>1 DEF FitPaths
<1>6. Clear(r)
  BY <1>2, <1>4, <1>5, ClimbsClear
<1>7. ASSUME seen = SortedBuffers(items, TRUE), NEW x \in T, ~IsRepoRoot(x)
      PROVE  \E n \in DOMAIN r : \/ r[n].path = x.path /\ r[n].type = x.type
                                 \/ r[n].type = "folder" /\ IsPrefix(r[n].path, x.path)
  <2>1. PICK k \in DOMAIN m : m[k].path = x.path /\ m[k].type = x.type
    BY <1>1, <1>7
  <2>2. k \in 1 .. Len(m)
    BY <1>1
  <2>3. ~IsRepoRoot(m[k])
    BY <1>7, <2>1 DEF IsRepoRoot
  <2>4. PICK n \in DOMAIN r : r[n] = m[k] \/ (r[n].type = "folder" /\ IsPrefix(r[n].path, m[k].path))
    BY <1>4, <2>2, <2>3 DEF Covers
  <2> QED BY <2>1, <2>4
<1>8. \A n \in DOMAIN r : ~IsRepoRoot(r[n])
  BY <1>4 DEF Covers
<1> QED BY <1>4, <1>6, <1>7, <1>8 DEF T, r

(* ReduceBottomChainDirResult, which copies rest on: unless a reader's error  *)
(* was taken for its end, every item is in the list or leads to one that is.  *)
THEOREM ReduceBottomIs ==
    ASSUME NEW S, \A x \in S : IsItem(x), NEW items \in Seq(S), NEW mayLose,
           NEW seen \in Readable(SortedBuffers(items, FALSE), mayLose)
    PROVE  LET r == ReduceBottomChain(seen)
           IN  /\ r \in Seq(ToSet(items))
               /\ seen = SortedBuffers(items, FALSE) =>
                     \A x \in ToSet(items) : ~IsRepoRoot(x) => \E n \in DOMAIN r : IsPrefix(x.path, r[n].path)
<1> DEFINE T == ToSet(items)
           m == MergedOnce(seen, FALSE)
           r == ReduceBottomChain(seen)
<1>1. /\ T \subseteq S /\ m \in Seq(T)
      /\ seen = SortedBuffers(items, FALSE) =>
            \A x \in T : \E k \in DOMAIN m : m[k].path = x.path /\ m[k].type = x.type
  <2>1. \A ascending \in BOOLEAN : seen \in Readable(SortedBuffers(items, ascending), mayLose) =>
          /\ T \subseteq S /\ MergedOnce(seen, ascending) \in Seq(T)
          /\ seen = SortedBuffers(items, ascending) =>
                \A x \in T : \E k \in DOMAIN MergedOnce(seen, ascending) :
                    /\ MergedOnce(seen, ascending)[k].path = x.path
                    /\ MergedOnce(seen, ascending)[k].type = x.type
    BY ReductionSorts
  <2>2. FALSE \in BOOLEAN
    OBVIOUS
  <2> QED BY <2>1, <2>2, Zenon
<1>2. \A x \in T : IsItem(x)
  BY <1>1
<1>3. r = FilterBottomChainResults(m)
  BY DEF ReduceBottomChain, MergedOnce
<1> HIDE DEF T, m, r
<1>4. r \in Seq(T) /\ Reaches(r, m, Len(m))
  BY <1>1, <1>2, <1>3, FilterBottomIs
<1>5. ASSUME seen = SortedBuffers(items, FALSE), NEW x \in T, ~IsRepoRoot(x)
      PROVE  \E n \in DOMAIN r : IsPrefix(x.path, r[n].path)
  <2>1. PICK k \in DOMAIN m : m[k].path = x.path /\ m[k].type = x.type
    BY <1>1, <1>5
  <2>2. k \in 1 .. Len(m)
    BY <1>1
  <2>3. ~IsRepoRoot(m[k])
    BY <1>5, <2>1 DEF IsRepoRoot
  <2> QED BY <1>4, <2>1, <2>2, <2>3 DEF Reaches
<1> QED BY <1>4, <1>5 DEF T, r

-----------------------------------------------------------------------------
(* Items, their relative paths and their locations                            *)

LEMMA ItemIs == \A x \in Item : IsItem(x)
BY DEF Item, IsItem

LEMMA FitIs == ASSUME NEW S, S \subseteq Item, Fit(S) PROVE (\A x \in S : IsItem(x)) /\ FitPaths(S)
BY ItemIs DEF Fit, FitPaths

LEMMA SameItem ==
    ASSUME NEW x \in Item, NEW y \in Item, x.path = y.path, x.type = y.type
    PROVE  x = y
BY DEF Item

\* Folders that are not the repository have different relative paths.
LEMMA RelativePathIs ==
    ASSUME NEW x, IsItem(x), x.type = "folder", ~IsRepoRoot(x)
    PROVE  /\ GetItemRelativePath(x) \in Texts /\ IsPrefix(GetItemRelativePath(x), Way(x.path))
           /\ GetItemRelativePath(x) = IF Len(x.path) > 1 THEN Way(x.path) ELSE Text(x.path)
<1>1. x.path \in Seq(Name) /\ x.path # <<>>
  BY DEF IsItem, IsRepoRoot
<1>2. GetItemRelativePath(x) = IF Len(x.path) > 1 THEN Way(x.path) ELSE Text(x.path)
  BY DEF GetItemRelativePath, Way
<1>3. /\ Text(x.path) \in Texts /\ Way(x.path) \in Texts /\ IsPrefix(Text(x.path), Way(x.path))
      /\ IsPrefix(Way(x.path), Way(x.path))
  BY <1>1, WayIs, PrefixItself DEF Texts
<1> QED BY <1>2, <1>3

LEMMA WayApart ==
    ASSUME NEW p \in Seq(Name), NEW q \in Seq(Name), Way(p) = Way(q)
    PROVE  p = q
<1>1. IsPrefix(Way(p), Way(q)) /\ IsPrefix(Way(q), Way(p))
  BY WayIs, PrefixItself DEF Texts
<1>2. IsPrefix(p, q) /\ IsPrefix(q, p)
  BY <1>1, WayPrefix
<1> QED BY <1>2, PrefixBothWays

LEMMA RelativePathApart ==
    ASSUME NEW x, NEW y, IsItem(x), IsItem(y), x.type = "folder", y.type = "folder",
           ~IsRepoRoot(x), ~IsRepoRoot(y), GetItemRelativePath(x) = GetItemRelativePath(y)
    PROVE  x.path = y.path
<1>1. x.path \in Seq(Name) /\ x.path # <<>> /\ y.path \in Seq(Name) /\ y.path # <<>>
  BY DEF IsItem, IsRepoRoot
<1>2. /\ GetItemRelativePath(x) = IF Len(x.path) > 1 THEN Way(x.path) ELSE Text(x.path)
      /\ GetItemRelativePath(y) = IF Len(y.path) > 1 THEN Way(y.path) ELSE Text(y.path)
  BY RelativePathIs
<1>3. /\ Text(x.path)[Len(Text(x.path))] # Slash /\ Way(x.path)[Len(Way(x.path))] = Slash
      /\ Text(y.path)[Len(Text(y.path))] # Slash /\ Way(y.path)[Len(Way(y.path))] = Slash
      /\ Text(x.path) # <<>> /\ Text(y.path) # <<>>
  BY <1>1, WayIs
<1>4. Way(x.path) = Way(y.path)
  <2>1. \/ GetItemRelativePath(x) = Way(x.path) /\ GetItemRelativePath(y) = Way(y.path)
        \/ GetItemRelativePath(x) = Text(x.path) /\ GetItemRelativePath(y) = Text(y.path)
    BY <1>2, <1>3
  <2>2. Text(x.path) = Text(y.path) => Way(x.path) = Way(y.path)
    BY DEF Way
  <2> QED BY <2>1, <2>2
<1> QED BY <1>1, <1>4, WayApart

LEMMA LocationIs ==
    ASSUME NEW p, IsItem(p), p.type = "file"
    PROVE  /\ GetItemRelativeLocation(p) \in Texts /\ IsPrefix(GetItemRelativeLocation(p), GetSortKey(p))
           /\ GetItemRelativeLocation(p) = Way(Front(p.path))
           /\ GetItemRelativePath(p) = GetSortKey(p) /\ GetSortKey(p) \in Texts
<1>1. p.path \in Seq(Name) /\ p.path # <<>>
  BY DEF IsItem
<1>2. GetItemRelativeLocation(p) = Way(Front(p.path))
  BY DEF GetItemRelativeLocation, Way
<1>3. GetSortKey(p) = Text(p.path) /\ GetItemRelativePath(p) = Text(p.path)
  BY DEF GetSortKey, GetItemRelativePath
<1>4. Front(p.path) \in Seq(Name) /\ IsPrefix(Way(Front(p.path)), Text(p.path))
  BY <1>1, FrontIs
<1> QED BY <1>1, <1>2, <1>3, <1>4, WayIs

\* A directory above a file spares itself by the file's location.
LEMMA AboveIs ==
    ASSUME NEW d, IsItem(d), d.type = "folder", ~IsRepoRoot(d), NEW p, IsItem(p), p.type = "file",
           IsPrefix(d.path, p.path), d.path # p.path
    PROVE  IsPrefix(GetItemRelativePath(d), GetItemRelativeLocation(p))
<1>1. d.path \in Seq(Name) /\ p.path \in Seq(Name) /\ p.path # <<>>
  BY DEF IsItem
<1>2. Front(p.path) \in Seq(Name) /\ IsPrefix(d.path, Front(p.path))
  BY <1>1, FrontIs
<1>3. IsPrefix(Way(d.path), Way(Front(p.path)))
  BY <1>1, <1>2, WayPrefix
<1>4. GetItemRelativePath(d) \in Texts /\ IsPrefix(GetItemRelativePath(d), Way(d.path))
  BY RelativePathIs
<1>5. Way(d.path) \in Texts /\ Way(Front(p.path)) \in Texts
  BY <1>1, <1>2, WayIs
<1>6. IsPrefix(GetItemRelativePath(d), Way(Front(p.path)))
  BY <1>3, <1>4, <1>5, PrefixTransitive DEF Texts
<1> QED BY <1>6, LocationIs

-----------------------------------------------------------------------------
(* Lists: their heads, their parts, and who is in them once                   *)

LEMMA TailIs ==
    ASSUME NEW S, NEW s \in Seq(S), s # <<>>
    PROVE  /\ Head(s) \in S /\ Tail(s) \in Seq(S) /\ Head(s) = s[1] /\ Len(s) >= 1 /\ Len(Tail(s)) = Len(s) - 1
           /\ \A i \in DOMAIN Tail(s) : i + 1 \in DOMAIN s /\ Tail(s)[i] = s[i + 1]
           /\ ToSet(s) = {Head(s)} \cup ToSet(Tail(s))
<1>1. /\ Head(s) = s[1] /\ Tail(s) \in Seq(S) /\ Len(s) \in Nat /\ Len(s) >= 1 /\ Len(Tail(s)) = Len(s) - 1
      /\ \A i \in 1 .. Len(Tail(s)) : Tail(s)[i] = s[i + 1]
  OBVIOUS
<1>2. DOMAIN s = 1 .. Len(s) /\ DOMAIN Tail(s) = 1 .. Len(s) - 1 /\ 1 \in 1 .. Len(s)
  BY <1>1
<1>3. \A i \in DOMAIN Tail(s) : i + 1 \in DOMAIN s /\ Tail(s)[i] = s[i + 1]
  BY <1>1, <1>2
<1>4. \A i \in DOMAIN s : i = 1 \/ (i - 1 \in DOMAIN Tail(s) /\ Tail(s)[i - 1] = s[i])
  BY <1>1, <1>2
<1>5. ToSet(s) = {Head(s)} \cup ToSet(Tail(s))
  <2> DEFINE t == Tail(s)
             h == Head(s)
  <2>1. /\ 1 \in DOMAIN s /\ s[1] = h /\ \A i \in DOMAIN t : i + 1 \in DOMAIN s /\ t[i] = s[i + 1]
        /\ \A i \in DOMAIN s : i = 1 \/ (i - 1 \in DOMAIN t /\ t[i - 1] = s[i])
    BY <1>1, <1>2, <1>3, <1>4
  <2> HIDE DEF t, h
  <2>2. {s[i] : i \in DOMAIN s} = {h} \cup {t[i] : i \in DOMAIN t}
    BY <2>1
  <2> QED BY <2>2 DEF ToSet, t, h
<1> QED BY <1>1, <1>2, <1>3, <1>5

LEMMA ConcatIs ==
    ASSUME NEW S, NEW s \in Seq(S), NEW t \in Seq(S)
    PROVE  s \o t \in Seq(S) /\ ToSet(s \o t) = ToSet(s) \cup ToSet(t)
<1> DEFINE u == s \o t
<1>1. /\ u \in Seq(S) /\ Len(u) = Len(s) + Len(t) /\ Len(s) \in Nat /\ Len(t) \in Nat
      /\ \A i \in 1 .. Len(u) : u[i] = IF i <= Len(s) THEN s[i] ELSE t[i - Len(s)]
  OBVIOUS
<1>2. DOMAIN u = 1 .. Len(u) /\ DOMAIN s = 1 .. Len(s) /\ DOMAIN t = 1 .. Len(t)
  BY <1>1
<1> HIDE DEF u
<1>3. \A i \in DOMAIN s : i \in DOMAIN u /\ u[i] = s[i]
  BY <1>1, <1>2
<1>4. \A i \in DOMAIN t : i + Len(s) \in DOMAIN u /\ u[i + Len(s)] = t[i]
  BY <1>1, <1>2
<1>5. \A i \in DOMAIN u : (i \in DOMAIN s /\ u[i] = s[i]) \/ (i - Len(s) \in DOMAIN t /\ u[i] = t[i - Len(s)])
  BY <1>1, <1>2
<1>6. ToSet(u) = ToSet(s) \cup ToSet(t)
  BY <1>3, <1>4, <1>5 DEF ToSet
<1> QED BY <1>1, <1>6 DEF u

LEMMA OnceFits ==
    ASSUME NEW S, IsFiniteSet(S), NEW s \in Seq(S), \A i, j \in DOMAIN s : s[i] = s[j] => i = j
    PROVE  Len(s) <= Cardinality(S)
<1>1. Len(s) \in Nat /\ DOMAIN s = 1 .. Len(s)
  OBVIOUS
<1>2. s \in Injection(1 .. Len(s), S)
  BY <1>1 DEF Injection, IsInjective
<1>3. Cardinality(1 .. Len(s)) = Len(s)
  BY <1>1, FS_Interval
<1> QED BY <1>2, <1>3, FS_Injection

\* No item of T is in the list twice.
OnceIn(items, T) == \A i, j \in DOMAIN items : items[i] = items[j] /\ items[i] \in T => i = j

LEMMA OnlyOnce ==
    ASSUME NEW S, NEW items \in Seq(S), NEW T, OnceIn(items, T)
    PROVE  \A i, j \in DOMAIN Only(items, T) : Only(items, T)[i] = Only(items, T)[j] => i = j
<1>0. \E v \in [0 .. Len(items) -> Seq(S)] :
        v[0] = <<>> /\ (\A k \in 1 .. Len(items) : v[k] = OnlyStep(v[k - 1], items[k], T)) /\ Only(items, T) = v[Len(items)]
  BY OnlyRuns
<1> DEFINE n == Len(items)
           r == Only(items, T)
<1>1. PICK v \in [0 .. n -> Seq(S)] :
          v[0] = <<>> /\ (\A k \in 1 .. n : v[k] = OnlyStep(v[k - 1], items[k], T)) /\ r = v[n]
  BY <1>0
<1>2. /\ n \in Nat /\ DOMAIN items = 1 .. n /\ \A k \in 1 .. n : items[k] \in S
      /\ \A i, j \in 1 .. n : items[i] = items[j] /\ items[i] \in T => i = j
  BY DEF OnceIn
<1> HIDE DEF n, r
<1> DEFINE From(s, k) == \A a \in DOMAIN s : s[a] \in T /\ \E i \in 1 .. k : s[a] = items[i]
           Once(s) == \A a, b \in DOMAIN s : s[a] = s[b] => a = b
           K == {k \in 0 .. n : From(v[k], k) /\ Once(v[k])}
<1>3. 0 \in K
  <2>1. DOMAIN v[0] = {}
    BY <1>1
  <2> QED BY <1>2, <2>1
<1>4. ASSUME NEW k \in 0 .. n - 1, k \in K PROVE k + 1 \in K
  <2>1. k + 1 \in 1 .. n /\ k + 1 \in 0 .. n /\ k \in 0 .. n /\ (k + 1) - 1 = k /\ k \in Nat
    BY <1>2
  <2>2. v[k + 1] = OnlyStep(v[k], items[k + 1], T) /\ v[k] \in Seq(S) /\ items[k + 1] \in S
    BY <1>1, <1>2, <2>1
  <2>3. From(v[k], k) /\ Once(v[k])
    BY <1>4
  <2>4. \A i \in 1 .. k : i \in 1 .. k + 1 /\ i \in DOMAIN items /\ i # k + 1
    BY <1>2, <2>1
  <2>5. k + 1 \in 1 .. k + 1 /\ k + 1 \in DOMAIN items
    BY <1>2, <2>1
  <2>6. CASE items[k + 1] \notin T
    <3>1. v[k + 1] = v[k]
      BY <2>2, <2>6 DEF OnlyStep
    <3> QED BY <2>1, <2>3, <2>4, <3>1
  <2>7. CASE items[k + 1] \in T
    <3> DEFINE m == Len(v[k])
    <3>1. v[k + 1] = Append(v[k], items[k + 1])
      BY <2>2, <2>7 DEF OnlyStep
    <3>2. /\ m \in Nat /\ DOMAIN v[k] = 1 .. m /\ DOMAIN v[k + 1] = 1 .. m + 1
          /\ v[k + 1][m + 1] = items[k + 1] /\ \A a \in 1 .. m : v[k + 1][a] = v[k][a]
      BY <2>2, <3>1, AppendProperties
    <3> HIDE DEF m
    <3>3. \A a \in 1 .. m + 1 : a \in 1 .. m \/ a = m + 1
      BY <3>2
    <3>4. ASSUME NEW a \in DOMAIN v[k + 1]
          PROVE  v[k + 1][a] \in T /\ \E i \in 1 .. k + 1 : v[k + 1][a] = items[i]
      <4>1. CASE a = m + 1
        BY <2>5, <2>7, <3>2, <4>1
      <4>2. CASE a \in 1 .. m
        <5>1. v[k + 1][a] = v[k][a] /\ v[k][a] \in T /\ \E i \in 1 .. k : v[k][a] = items[i]
          BY <2>3, <3>2, <4>2
        <5> QED BY <2>4, <5>1
      <4> QED BY <3>2, <3>3, <4>1, <4>2
    <3>8. From(v[k + 1], k + 1)
      BY <3>4
    <3>5. ASSUME NEW a \in 1 .. m, v[k][a] = items[k + 1] PROVE FALSE
      <4>1. PICK i \in 1 .. k : v[k][a] = items[i]
        BY <2>3, <3>2
      <4>2. i \in DOMAIN items /\ i # k + 1 /\ items[i] = items[k + 1] /\ items[i] \in T
        BY <2>4, <2>7, <3>5, <4>1
      <4> QED BY <1>2, <2>5, <4>2
    <3>6. Once(v[k + 1])
      <4>1. \A a \in 1 .. m : v[k + 1][a] # v[k + 1][m + 1]
        BY <3>2, <3>5
      <4> QED BY <2>3, <3>2, <3>3, <4>1
    <3> QED BY <2>1, <3>8, <3>6
  <2> QED BY <2>6, <2>7
<1>5. n \in K
  <2> HIDE DEF K
  <2>1. \A k \in 0 .. n : k \in K
    BY <1>2, <1>3, <1>4, UpTo
  <2> QED BY <1>2, <2>1
<1>6. Once(r)
  BY <1>1, <1>5
<1> QED BY <1>6 DEF r

-----------------------------------------------------------------------------
(* What is sorted by the relative paths, and what is merged by the keys       *)

\* What is sorted by its relative paths.
Sorted(s) == SplitAndSort(s, RelativePaths(s), TRUE)

PathsRise(s) ==
    \A j, k \in DOMAIN s : j < k => Less(GetItemRelativePath(s[j]), GetItemRelativePath(s[k]))

\* Items of different relative paths are split without loss.
LEMMA SplitKeeps ==
    ASSUME NEW S, NEW s \in Seq(S), \A x \in ToSet(s) : GetItemRelativePath(x) \in Texts,
           \A x, y \in ToSet(s) : GetItemRelativePath(x) = GetItemRelativePath(y) => x = y
    PROVE  LET r == Sorted(s)
           IN  /\ r \in Seq(Seq(ToSet(s))) /\ \A i \in DOMAIN r : PathsRise(r[i])
               /\ \A x \in ToSet(s) : \E i \in DOMAIN r : \E j \in DOMAIN r[i] : r[i][j] = x
               /\ Len(s) <= BufferSize => Len(r) <= 1
<1> DEFINE U == ToSet(s)
           key == RelativePaths(s)
           Split(ascending) == SplitAndSort(s, key, ascending)
<1>1. IsFiniteSet(U) /\ s \in Seq(U)
  BY SeqOfElements
<1>2. \A x \in U : key[x] = GetItemRelativePath(x)
  BY DEF RelativePaths
<1> HIDE DEF U, key
<1>3. \A ascending \in BOOLEAN :
        /\ Split(ascending) \in Seq(Seq(U)) /\ AllSorted(Split(ascending), key, ascending)
        /\ \A x \in U : InReaders(Split(ascending), key, x)
        /\ Len(s) <= BufferSize => Len(Split(ascending)) <= 1
  <2>1. \A x \in U : key[x] \in Texts
    BY <1>2 DEF U
  <2>2. ASSUME NEW ascending \in BOOLEAN
        PROVE  /\ Split(ascending) \in Seq(Seq(U)) /\ AllSorted(Split(ascending), key, ascending)
               /\ \A x \in ToSet(s) : InReaders(Split(ascending), key, x)
               /\ Len(s) <= BufferSize => Len(Split(ascending)) <= 1
    BY <1>1, <2>1, SplitIs
  <2> QED BY <2>2 DEF U
<1> HIDE DEF Split
<1>4. TRUE \in BOOLEAN
  OBVIOUS
<1>5. /\ Split(TRUE) \in Seq(Seq(U)) /\ AllSorted(Split(TRUE), key, TRUE)
      /\ \A x \in U : InReaders(Split(TRUE), key, x)
      /\ Len(s) <= BufferSize => Len(Split(TRUE)) <= 1
  BY <1>3, <1>4, Zenon
<1> DEFINE r == Split(TRUE)
<1>6. r \in Seq(Seq(U)) /\ \A x \in U : InReaders(r, key, x)
  BY <1>5
<1> HIDE DEF r
<1>7. ASSUME NEW x \in U PROVE \E i \in DOMAIN r : \E j \in DOMAIN r[i] : r[i][j] = x
  <2>1. PICK i \in DOMAIN r : \E j \in DOMAIN r[i] : key[r[i][j]] = key[x]
    BY <1>6, <1>7 DEF InReaders
  <2>2. PICK j \in DOMAIN r[i] : key[r[i][j]] = key[x]
    BY <2>1
  <2>3. r[i][j] \in U
    <3>1. r[i] \in Seq(U)
      BY <1>6, <2>1
    <3> QED BY <2>2, <3>1
  <2>4. r[i][j] = x
    BY <1>2, <2>2, <2>3 DEF U
  <2> QED BY <2>1, <2>2, <2>4
<1>8. ASSUME NEW i \in DOMAIN r PROVE PathsRise(r[i])
  <2>1. AllSorted(r, key, TRUE)
    BY <1>5, Zenon DEF r
  <2>2. SortedBy(r[i], key, TRUE)
    BY <1>8, <2>1, Zenon DEF AllSorted
  <2>3. \A j, k \in DOMAIN r[i] : j < k => Less(key[r[i][j]], key[r[i][k]])
    BY <2>2, Zenon DEF SortedBy, Before
  <2>4. \A j \in DOMAIN r[i] : r[i][j] \in U
    BY <1>6, <1>8
  <2> QED BY <1>2, <2>3, <2>4 DEF PathsRise
<1> QED BY <1>5, <1>7, <1>8, Zenon DEF r, Split, U, key, Sorted

\* A merge that is not reduced has all that its readers have.
LEMMA MergedIs ==
    ASSUME NEW S, \A x \in S : IsItem(x), NEW rs \in Seq(Seq(S))
    PROVE  LET r == MergeSortedReaders(rs)
           IN  /\ r \in Seq(S)
               /\ \A i \in DOMAIN rs : \A j \in DOMAIN rs[i] : \E k \in DOMAIN r : r[k] = rs[i][j]
               /\ Len(rs) = 1 => r = rs[1]
<1> DEFINE key == [x \in S |-> GetSortKey(x)]
           Of(ascending, once) == Merge(rs, ascending, once)
<1>1. ByKey(key, S)
  BY DEF ByKey
<1> HIDE DEF key
<1>2. \A ascending \in BOOLEAN, once \in BOOLEAN :
        /\ Of(ascending, once) \in Seq(S)
        /\ \A i \in DOMAIN rs : \A j \in DOMAIN rs[i] : \E k \in DOMAIN Of(ascending, once) :
             ~once => Of(ascending, once)[k] = rs[i][j]
        /\ ~once /\ Len(rs) = 1 => Of(ascending, once) = rs[1]
  <2>1. ASSUME NEW ascending \in BOOLEAN, NEW once \in BOOLEAN
        PROVE  /\ Of(ascending, once) \in Seq(S)
               /\ \A i \in DOMAIN rs : \A j \in DOMAIN rs[i] : \E k \in DOMAIN Of(ascending, once) :
                    ~once => Of(ascending, once)[k] = rs[i][j]
               /\ ~once /\ Len(rs) = 1 => Of(ascending, once) = rs[1]
    <3>1. /\ Of(ascending, once) \in Seq(S)
          /\ \A i \in DOMAIN rs : \A j \in DOMAIN rs[i] : \E k \in DOMAIN Of(ascending, once) :
                /\ GetSortKey(Of(ascending, once)[k]) = GetSortKey(rs[i][j])
                /\ ~once => Of(ascending, once)[k] = rs[i][j]
          /\ ~once /\ Len(rs) = 1 => Of(ascending, once) = rs[1]
      BY <1>1, MergeIs
    <3> HIDE DEF Of
    <3> QED BY <3>1
  <2> QED BY <2>1
<1> HIDE DEF Of
<1>3. TRUE \in BOOLEAN /\ FALSE \in BOOLEAN
  OBVIOUS
<1>4. /\ Of(TRUE, FALSE) \in Seq(S)
      /\ \A i \in DOMAIN rs : \A j \in DOMAIN rs[i] : \E k \in DOMAIN Of(TRUE, FALSE) :
           ~FALSE => Of(TRUE, FALSE)[k] = rs[i][j]
      /\ ~FALSE /\ Len(rs) = 1 => Of(TRUE, FALSE) = rs[1]
  BY <1>2, <1>3, Zenon
<1> QED BY <1>4, Zenon DEF Of, MergeSortedReaders

\* The merge of readers that are sorted by the keys.
KeysRise(s) == Rises(s, TRUE)

LEMMA KeysRiseIs ==
    ASSUME NEW s
    PROVE  KeysRise(s) <=> \A i, j \in DOMAIN s : i < j => GetSortKey(s[i]) = GetSortKey(s[j]) \/ Less(GetSortKey(s[i]), GetSortKey(s[j]))
BY DEF KeysRise, Rises, AtMost, Before

LEMMA MergeKeysRise ==
    ASSUME NEW S, \A x \in S : IsItem(x), NEW rs \in Seq(Seq(S)), \A i \in DOMAIN rs : KeysRise(rs[i])
    PROVE  KeysRise(MergeSortedReaders(rs))
<1>1. \A ascending \in BOOLEAN, once \in BOOLEAN :
        ~once /\ (\A i \in DOMAIN rs : Rises(rs[i], ascending)) => Rises(Merge(rs, ascending, once), ascending)
  BY MergeRises
<1>2. TRUE \in BOOLEAN /\ FALSE \in BOOLEAN
  OBVIOUS
<1>3. \A i \in DOMAIN rs : Rises(rs[i], TRUE)
  BY Zenon DEF KeysRise
<1>4. ~FALSE /\ (\A i \in DOMAIN rs : Rises(rs[i], TRUE)) => Rises(Merge(rs, TRUE, FALSE), TRUE)
  BY <1>1, <1>2, Zenon
<1>5. Rises(Merge(rs, TRUE, FALSE), TRUE)
  BY <1>3, <1>4, Zenon
<1> QED BY <1>5, Zenon DEF KeysRise, MergeSortedReaders

-----------------------------------------------------------------------------
(* The recursion of InOrder                                                   *)

Some(s) == CHOOSE x \in s : TRUE

\* f is the list of every subset of S that has n elements at most.
Lists(S, n, f) ==
    /\ DOMAIN f = {s \in SUBSET S : Cardinality(s) <= n}
    /\ \A s \in DOMAIN f : f[s] = IF s = {} THEN <<>> ELSE Append(f[s \ {Some(s)}], Some(s))

LEMMA SubsetFacts ==
    ASSUME NEW S, IsFiniteSet(S), NEW s \in SUBSET S
    PROVE  /\ Cardinality(s) \in Nat /\ Cardinality(s) <= Cardinality(S)
           /\ s # {} => /\ Some(s) \in s /\ s \ {Some(s)} \in SUBSET S
                        /\ Cardinality(s \ {Some(s)}) = Cardinality(s) - 1
                        /\ Cardinality(s) # 0
<1>1. IsFiniteSet(s) /\ Cardinality(s) <= Cardinality(S)
  BY FS_Subset
<1>2. Cardinality(s) \in Nat
  BY <1>1, FS_CardinalityType
<1>3. ASSUME s # {}
      PROVE  /\ Some(s) \in s /\ s \ {Some(s)} \in SUBSET S
             /\ Cardinality(s \ {Some(s)}) = Cardinality(s) - 1
             /\ Cardinality(s) # 0
  <2>1. Some(s) \in s
    BY <1>3 DEF Some
  <2>2. Cardinality(s \ {Some(s)}) = Cardinality(s) - 1
    BY <1>1, <2>1, FS_RemoveElement
  <2>3. Cardinality(s) # 0
    BY <1>1, <1>3, FS_EmptySet
  <2> QED BY <2>1, <2>2, <2>3
<1> QED BY <1>1, <1>2, <1>3

LEMMA ListsExist ==
    ASSUME NEW S, IsFiniteSet(S), NEW n \in Nat
    PROVE  \E f : Lists(S, n, f)
<1> DEFINE None == {m \in Nat : ~\E f : Lists(S, m, f)}
<1>1. CASE None = {}
  BY <1>1
<1>2. CASE None # {}
  <2>1. PICK m \in None : m = 0 \/ m - 1 \in Nat \ None
    BY <1>2, FirstOf
  <2>2. CASE m = 0
    <3>1. ASSUME NEW s \in SUBSET S, Cardinality(s) <= 0 PROVE s = {}
      <4>1. Cardinality(s) \in Nat /\ (s # {} => Cardinality(s) # 0)
        BY SubsetFacts
      <4> QED BY <3>1, <4>1
    <3>2. {} \in SUBSET S /\ Cardinality({}) <= 0
      BY FS_EmptySet
    <3> DEFINE f == [s \in {s \in SUBSET S : Cardinality(s) <= 0} |-> <<>>]
    <3>3. Lists(S, 0, f)
      BY <3>1, <3>2 DEF Lists
    <3> QED BY <2>1, <2>2, <3>3
  <2>3. CASE m # 0
    <3>1. PICK g : Lists(S, m - 1, g)
      BY <2>1, <2>3
    <3> DEFINE Up == {s \in SUBSET S : Cardinality(s) <= m}
               Next0(s) == IF s = {} THEN <<>> ELSE Append(g[s \ {Some(s)}], Some(s))
               f == [s \in Up |-> Next0(s)]
    <3>2. m \in Nat /\ m - 1 \in Nat
      BY <2>1, <2>3
    <3>3. ASSUME NEW s \in Up, s # {}
          PROVE  s \ {Some(s)} \in DOMAIN g /\ s \ {Some(s)} \in Up
      BY <3>1, <3>2, <3>3, SubsetFacts DEF Lists
    <3>4. ASSUME NEW s \in DOMAIN g PROVE f[s] = g[s]
      <4>1. s \in Up
        <5>1. s \in SUBSET S /\ Cardinality(s) <= m - 1
          BY <3>1, <3>4 DEF Lists
        <5>2. Cardinality(s) \in Nat
          BY <5>1, SubsetFacts
        <5> QED BY <3>2, <5>1, <5>2
      <4>2. g[s] = Next0(s)
        BY <3>1, <3>4 DEF Lists
      <4> QED BY <4>1, <4>2
    <3>5. ASSUME NEW s \in Up
          PROVE  f[s] = IF s = {} THEN <<>> ELSE Append(f[s \ {Some(s)}], Some(s))
      <4>1. f[s] = Next0(s)
        OBVIOUS
      <4>2. s # {} => f[s \ {Some(s)}] = g[s \ {Some(s)}]
        BY <3>3, <3>4
      <4> HIDE DEF f
      <4> QED BY <4>1, <4>2
    <3>6. DOMAIN f = Up
      OBVIOUS
    <3> HIDE DEF f
    <3>7. Lists(S, m, f)
      BY <3>5, <3>6 DEF Lists
    <3> QED BY <2>1, <3>7
  <2> QED BY <2>2, <2>3
<1> QED BY <1>1, <1>2

(* InOrder gives the elements of a finite set.                                *)
LEMMA InOrderLists ==
    ASSUME NEW S, IsFiniteSet(S)
    PROVE  InOrder(S) \in Seq(S) /\ ToSet(InOrder(S)) = S
<1> DEFINE Def(f) == f = [s \in SUBSET S |-> IF s = {} THEN <<>> ELSE Append(f[s \ {Some(s)}], Some(s))]
           order == CHOOSE f : Def(f)
<1>1. InOrder(S) = order[S]
  BY DEF InOrder, FoldSet, MapThenFoldSet, Some
<1>2. \E f : Def(f)
  <2>1. Cardinality(S) \in Nat
    BY FS_CardinalityType
  <2>2. PICK f : Lists(S, Cardinality(S), f)
    BY <2>1, ListsExist
  <2>3. {s \in SUBSET S : Cardinality(s) <= Cardinality(S)} = SUBSET S
    BY SubsetFacts
  <2> DEFINE g == [s \in SUBSET S |-> f[s]]
  <2>4. \A s \in SUBSET S : g[s] = f[s] /\ (s # {} => g[s \ {Some(s)}] = f[s \ {Some(s)}])
    BY SubsetFacts
  <2>5. DOMAIN g = SUBSET S
    OBVIOUS
  <2>6. \A s \in SUBSET S : g[s] = IF s = {} THEN <<>> ELSE Append(g[s \ {Some(s)}], Some(s))
    <3> HIDE DEF g
    <3> QED BY <2>2, <2>3, <2>4 DEF Lists
  <2>7. g = [s \in SUBSET S |-> g[s]]
    OBVIOUS
  <2> HIDE DEF g
  <2>8. g = [s \in SUBSET S |-> IF s = {} THEN <<>> ELSE Append(g[s \ {Some(s)}], Some(s))]
    BY <2>6, <2>7
  <2> QED BY <2>8
<1>3. Def(order)
  BY <1>2
<1> HIDE DEF order
<1>4. \A s \in SUBSET S : order[s] = IF s = {} THEN <<>> ELSE Append(order[s \ {Some(s)}], Some(s))
  BY <1>3
<1> HIDE DEF Def
<1> DEFINE Good(s) == order[s] \in Seq(S) /\ ToSet(order[s]) = s
           Bad == {n \in Nat : \E s \in SUBSET S : Cardinality(s) = n /\ ~Good(s)}
<1>5. CASE Bad = {}
  <2>1. S \in SUBSET S /\ Cardinality(S) \in Nat
    BY FS_CardinalityType
  <2>2. Good(S)
    BY <1>5, <2>1
  <2> QED BY <1>1, <2>2
<1>6. CASE Bad # {}
  <2>1. PICK n \in Bad : n = 0 \/ n - 1 \in Nat \ Bad
    <3> HIDE DEF Good
    <3> QED BY <1>6, FirstOf
  <2>2. PICK s \in SUBSET S : Cardinality(s) = n /\ ~Good(s)
    BY <2>1
  <2>3. CASE s = {}
    <3>1. order[s] = <<>>
      BY <1>4, <2>3
    <3>2. <<>> \in Seq(S) /\ ToSet(<<>>) = {}
      BY DEF ToSet
    <3> QED BY <2>2, <2>3, <3>1, <3>2
  <2>4. CASE s # {}
    <3> DEFINE t == s \ {Some(s)}
    <3>1. /\ t \in SUBSET S /\ Cardinality(t) = n - 1 /\ n # 0 /\ Some(s) \in s /\ Some(s) \in S
      BY <2>2, <2>4, SubsetFacts
    <3>2. Good(t)
      <4> HIDE DEF Good
      <4> QED BY <2>1, <3>1
    <3>3. order[s] = Append(order[t], Some(s))
      BY <1>4, <2>4
    <3> HIDE DEF t
    <3> DEFINE u == order[t]
               v == order[s]
    <3>4. /\ v \in Seq(S) /\ Len(v) = Len(u) + 1 /\ v[Len(u) + 1] = Some(s)
          /\ \A i \in 1 .. Len(u) : v[i] = u[i]
      BY <3>1, <3>2, <3>3, AppendProperties
    <3>5. DOMAIN u = 1 .. Len(u) /\ DOMAIN v = 1 .. Len(u) + 1 /\ Len(u) \in Nat
      BY <3>2, <3>4, LenProperties
    <3>6. ToSet(v) = ToSet(u) \cup {Some(s)}
      <4> HIDE DEF u, v
      <4>1. \A i \in 1 .. Len(u) + 1 : i \in 1 .. Len(u) \/ i = Len(u) + 1
        BY <3>5
      <4>2. Len(u) + 1 \in 1 .. Len(u) + 1 /\ \A i \in 1 .. Len(u) : i \in 1 .. Len(u) + 1
        BY <3>5
      <4> QED BY <3>4, <3>5, <4>1, <4>2 DEF ToSet
    <3>7. ToSet(v) = s
      BY <3>1, <3>2, <3>6 DEF t
    <3> QED BY <2>2, <3>4, <3>7
  <2> QED BY <2>3, <2>4
<1> QED BY <1>5, <1>6

===============================================================================
