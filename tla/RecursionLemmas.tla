-------------------------- MODULE RecursionLemmas ---------------------------
(***************************************************************************)
(* Facts about numbers, recursive functions and sequences the proofs       *)
(* share.  They speak of sets and functions only, never of operators, so   *)
(* that a proof can use them by naming a function for what it folds with.  *)
(***************************************************************************)
EXTENDS Integers, Sequences, SequencesExt, SequenceTheorems, WellFoundedInduction, TLAPS

(***************************************************************************)
(* A non-empty set of natural numbers has a least element.                 *)
(***************************************************************************)
LEMMA LeastNatural ==
  ASSUME NEW S, S \subseteq Nat, S # {}
  PROVE  \E x \in S : \A y \in S : x <= y
<1> DEFINE Less == {p \in Nat \X Nat : p[1] < p[2]}
<1>1. OpToRel(<, Nat) = Less
  BY DEF OpToRel
<1>2. IsWellFoundedOn(Less, Nat)
  BY <1>1, NatLessThanWellFounded
<1>3. PICK x \in S : \A y \in S : ~(<<y, x>> \in Less)
  <2> HIDE DEF Less
  <2> QED
    BY <1>2, WFMin
<1>4. \A y \in S : x <= y
  <2> TAKE y \in S
  <2>1. x \in Nat /\ y \in Nat
    OBVIOUS
  <2>2. y < x => <<y, x>> \in Less
    BY <2>1
  <2>3. ~(y < x)
    BY <1>3, <2>2
  <2>4. QED
    BY <2>1, <2>3
<1>5. QED
  BY <1>4

(***************************************************************************)
(* Max is the greatest element of a set of naturals with an upper bound.   *)
(***************************************************************************)
LEMMA MaxOfBounded ==
  ASSUME NEW n \in Nat, NEW S, S \subseteq 0..n, S # {}
  PROVE  Max(S) \in S /\ \A y \in S : y <= Max(S)
<1> DEFINE T == {n - x : x \in S}
<1>1. T \subseteq Nat /\ T # {}
  <2>1. \A x \in S : n - x \in Nat
    OBVIOUS
  <2>2. QED
    BY <2>1
<1>2. PICK t \in T : \A u \in T : t <= u
  BY <1>1, LeastNatural
<1>3. PICK x \in S : t = n - x
  OBVIOUS
<1>4. \A y \in S : y <= x
  <2> TAKE y \in S
  <2>1. t <= n - y
    BY <1>2
  <2>2. QED
    BY <2>1, <1>3
<1>5. \A y \in S : x >= y
  BY <1>4
<1>6. Max(S) \in S /\ \A y \in S : Max(S) >= y
  BY <1>5 DEF Max
<1>7. QED
  BY <1>6

(***************************************************************************)
(* Min is the least element of a set of naturals.                          *)
(***************************************************************************)
LEMMA MinOfNaturals ==
  ASSUME NEW S, S \subseteq Nat, S # {}
  PROVE  Min(S) \in S /\ \A y \in S : Min(S) <= y
<1>1. \E x \in S : \A y \in S : x <= y
  BY LeastNatural
<1>2. QED
  BY <1>1 DEF Min

(***************************************************************************)
(* What holds at 0, and at a number's successor when it holds at the       *)
(* number, holds at every number.                                          *)
(***************************************************************************)
LEMMA InductionOnSet ==
  ASSUME NEW P, 0 \in P, \A n \in Nat : n \in P => n + 1 \in P
  PROVE  Nat \subseteq P
<1> SUFFICES ASSUME Nat \ P # {} PROVE FALSE
  OBVIOUS
<1>1. PICK m \in Nat \ P : \A y \in Nat \ P : m <= y
  <2>1. Nat \ P \subseteq Nat
    OBVIOUS
  <2>2. QED
    BY <2>1, LeastNatural
<1>2. m # 0 /\ m - 1 \in Nat
  BY <1>1
<1>3. m - 1 \in P
  BY <1>1, <1>2
<1>4. QED
  BY <1>1, <1>2, <1>3

-----------------------------------------------------------------------------
(***************************************************************************)
(* f starts with base, and a step leads from each value to the next.       *)
(***************************************************************************)
Iterates(f, base, step) ==
  f[0] = base /\ \A n \in Nat : f[n + 1] = step[<<n + 1, f[n]>>]

(***************************************************************************)
(* A function on the naturals can be defined by its value at 0 and a step  *)
(* from each number to the next.                                           *)
(***************************************************************************)
LEMMA RecursionOnNat ==
  ASSUME NEW A, NEW base \in A, NEW step \in [Nat \X A -> A]
  PROVE  \E f \in [Nat -> A] : Iterates(f, base, step)
<1> DEFINE Approx(n) ==
             {f \in [0..n -> A] :
                f[0] = base /\ \A i \in Nat : i < n => f[i + 1] = step[<<i + 1, f[i]>>]}
           Defined == {n \in Nat : Approx(n) # {}}
<1>1. Nat \subseteq Defined
  <2>1. 0 \in Defined
    <3>1. [i \in 0..0 |-> base] \in Approx(0)
      OBVIOUS
    <3>2. QED
      BY <3>1
  <2>2. ASSUME NEW n \in Nat, n \in Defined PROVE n + 1 \in Defined
    <3>1. PICK f \in Approx(n) : TRUE
      BY <2>2
    <3> DEFINE g == [i \in 0..(n + 1) |-> IF i = n + 1 THEN step[<<n + 1, f[n]>>] ELSE f[i]]
    <3>2. /\ f \in [0..n -> A] /\ f[0] = base
          /\ \A i \in Nat : i < n => f[i + 1] = step[<<i + 1, f[i]>>]
      OBVIOUS
    <3> HIDE DEF Approx
    <3>3. g \in [0..(n + 1) -> A]
      <4>1. step[<<n + 1, f[n]>>] \in A
        BY <3>2
      <4>2. \A i \in 0..(n + 1) : i # n + 1 => f[i] \in A
        BY <3>2
      <4>3. QED
        BY <4>1, <4>2
    <3>4. g[0] = base
      <4>1. 0 \in 0..(n + 1) /\ 0 # n + 1
        OBVIOUS
      <4>2. QED
        BY <3>2, <4>1
    <3>5. ASSUME NEW i \in Nat, i < n + 1 PROVE g[i + 1] = step[<<i + 1, g[i]>>]
      <4>1. i \in 0..(n + 1) /\ i + 1 \in 0..(n + 1) /\ i # n + 1
        BY <3>5
      <4>2. g[i] = f[i]
        BY <4>1
      <4>3. CASE i = n
        <5>1. g[n + 1] = step[<<n + 1, f[n]>>]
          OBVIOUS
        <5>2. QED
          BY <4>2, <4>3, <5>1
      <4>4. CASE i < n
        <5>1. g[i + 1] = f[i + 1]
          BY <4>1, <4>4
        <5>2. f[i + 1] = step[<<i + 1, f[i]>>]
          BY <3>2, <4>4
        <5>3. QED
          BY <4>2, <5>1, <5>2
      <4>5. QED
        BY <3>5, <4>3, <4>4
    <3> HIDE DEF g
    <3>6. g \in Approx(n + 1)
      BY <3>3, <3>4, <3>5 DEF Approx
    <3> HIDE DEF Approx
    <3>7. QED
      BY <3>6
  <2> HIDE DEF Defined
  <2>3. QED
    BY <2>1, <2>2, InductionOnSet
<1>2. ASSUME NEW m \in Nat, NEW n \in Nat, NEW f \in Approx(m), NEW g \in Approx(n)
      PROVE  \A i \in Nat : i <= m /\ i <= n => f[i] = g[i]
  <2> DEFINE Same == {i \in Nat : i <= m /\ i <= n => f[i] = g[i]}
  <2>1. 0 \in Same
    OBVIOUS
  <2>2. ASSUME NEW i \in Nat, i \in Same PROVE i + 1 \in Same
    <3> SUFFICES ASSUME i + 1 <= m, i + 1 <= n PROVE f[i + 1] = g[i + 1]
      OBVIOUS
    <3>1. f[i] = g[i]
      BY <2>2
    <3>2. f[i + 1] = step[<<i + 1, f[i]>>] /\ g[i + 1] = step[<<i + 1, g[i]>>]
      <4>1. i < m /\ i < n
        OBVIOUS
      <4>2. QED
        BY <4>1
    <3>3. QED
      BY <3>1, <3>2
  <2>3. Nat \subseteq Same
    <3> HIDE DEF Same
    <3> QED
      BY <2>1, <2>2, InductionOnSet
  <2>4. QED
    BY <2>3
<1> DEFINE G(n) == CHOOSE f : f \in Approx(n)
           F == [n \in Nat |-> G(n)[n]]
<1>3. ASSUME NEW n \in Nat PROVE G(n) \in Approx(n)
  BY <1>1
<1>4. ASSUME NEW n \in Nat PROVE F[n] \in A
  <2>1. G(n) \in [0..n -> A]
    BY <1>3
  <2> HIDE DEF G
  <2>2. QED
    BY <2>1
<1>5. F \in [Nat -> A]
  BY <1>4
<1>6. F[0] = base
  <2>1. G(0) \in Approx(0)
    BY <1>3
  <2> HIDE DEF G
  <2>2. QED
    BY <2>1
<1>7. ASSUME NEW n \in Nat PROVE F[n + 1] = step[<<n + 1, F[n]>>]
  <2>1. G(n + 1) \in Approx(n + 1) /\ G(n) \in Approx(n)
    <3>1. n + 1 \in Nat
      OBVIOUS
    <3> HIDE DEF G, Approx
    <3>2. QED
      BY <1>3, <3>1
  <2> HIDE DEF G
  <2>2. G(n + 1)[n] = G(n)[n]
    <3> HIDE DEF Approx
    <3> QED
      BY <1>2, <2>1
  <2>3. G(n + 1)[n + 1] = step[<<n + 1, G(n + 1)[n]>>]
    <3>1. n < n + 1
      OBVIOUS
    <3>2. QED
      BY <2>1, <3>1
  <2>4. QED
    BY <2>2, <2>3
<1>8. QED
  <2> HIDE DEF F
  <2> QED
    BY <1>5, <1>6, <1>7 DEF Iterates
-----------------------------------------------------------------------------
(***************************************************************************)
(* FlattenSeq appends the sequences one after the other.                   *)
(***************************************************************************)
LEMMA FlattenUnfolds ==
  ASSUME NEW X, NEW seqs \in Seq(Seq(X))
  PROVE  \E f \in [Nat -> Seq(X)] :
           /\ f[0] = <<>>
           /\ \A n \in Nat : n + 1 <= Len(seqs) => f[n + 1] = f[n] \o seqs[n + 1]
           /\ FlattenSeq(seqs) = f[Len(seqs)]
<1> DEFINE A == Seq(X)
           m == Len(seqs)
           step == [p \in Nat \X A |-> IF p[1] \in 1..m THEN p[2] \o seqs[p[1]] ELSE p[2]]
<1>1. m \in Nat /\ <<>> \in A /\ seqs \in [1..m -> A]
  BY LenProperties
<1>2. \A a, b \in A : a \o b \in A
  BY ConcatProperties
<1>3. \A a \in A : <<>> \o a = a
  BY ConcatEmptySeq
<1>4. FlattenSeq(seqs) =
        IF m = 0 THEN seqs
        ELSE (CHOOSE h : h = [i \in 1..m |-> IF i = 1 THEN seqs[i] ELSE h[i - 1] \o seqs[i]])[m]
  BY DEF FlattenSeq
<1>5. m = 0 => seqs = <<>>
  OBVIOUS
<1> HIDE DEF A, m
<1>6. step \in [Nat \X A -> A]
  <2>1. \A p \in Nat \X A : p[1] \in Nat /\ p[2] \in A
    OBVIOUS
  <2>2. \A p \in Nat \X A : p[1] \in 1..m => p[2] \o seqs[p[1]] \in A
    BY <1>1, <1>2, <2>1
  <2>3. QED
    BY <2>1, <2>2
<1>7. PICK f \in [Nat -> A] :
        f[0] = <<>> /\ \A n \in Nat : f[n + 1] = step[<<n + 1, f[n]>>]
  <2> DEFINE base == <<>>
  <2>1. base \in A
    BY <1>1
  <2> HIDE DEF base, step
  <2>2. \E f \in [Nat -> A] : Iterates(f, base, step)
    BY <1>6, <2>1, RecursionOnNat
  <2>3. QED
    BY <2>2 DEF base, Iterates
<1>8. ASSUME NEW n \in Nat, n + 1 <= m PROVE f[n + 1] = f[n] \o seqs[n + 1]
  <2>1. <<n + 1, f[n]>> \in Nat \X A /\ n + 1 \in 1..m
    BY <1>1, <1>8
  <2>2. QED
    BY <1>7, <2>1
<1>9. CASE m = 0
  BY <1>4, <1>5, <1>7, <1>8, <1>9 DEF A, m
<1>10. CASE m # 0
  <2> DEFINE Body(h) == [i \in 1..m |-> IF i = 1 THEN seqs[i] ELSE h[i - 1] \o seqs[i]]
             g == [i \in 1..m |-> f[i]]
             c == CHOOSE h : h = Body(h)
  <2>1. 1 \in 1..m /\ m - 1 \in Nat /\ (m - 1) + 1 = m
    BY <1>1, <1>10
  <2>2. f[1] = seqs[1]
    <3>1. f[0 + 1] = f[0] \o seqs[0 + 1]
      BY <1>1, <1>8, <1>10
    <3>2. seqs[1] \in A
      BY <1>1, <2>1
    <3>3. QED
      BY <1>3, <1>7, <3>1, <3>2
  <2>3. ASSUME NEW i \in 1..m, i # 1 PROVE f[i] = g[i - 1] \o seqs[i]
    <3>1. i - 1 \in Nat /\ (i - 1) + 1 = i /\ i - 1 \in 1..m /\ i <= m
      BY <1>1, <2>3
    <3>2. f[(i - 1) + 1] = f[i - 1] \o seqs[(i - 1) + 1]
      BY <1>8, <3>1
    <3>3. QED
      BY <3>1, <3>2
  <2>4. g = Body(g)
    BY <2>2, <2>3
  <2>5. c = Body(c)
    <3> HIDE DEF g, Body
    <3> QED
      BY <2>4
  <2> HIDE DEF c, g
  <2>6. ASSUME NEW i \in 1..m PROVE c[i] = IF i = 1 THEN seqs[i] ELSE c[i - 1] \o seqs[i]
    BY <2>5
  <2> DEFINE Same == {i \in Nat : i + 1 <= m => c[i + 1] = f[i + 1]}
  <2>7. 0 \in Same
    BY <2>1, <2>2, <2>6
  <2>8. ASSUME NEW i \in Nat, i \in Same PROVE i + 1 \in Same
    <3> SUFFICES ASSUME (i + 1) + 1 <= m PROVE c[(i + 1) + 1] = f[(i + 1) + 1]
      OBVIOUS
    <3>1. c[i + 1] = f[i + 1]
      BY <1>1, <2>8
    <3>2. (i + 1) + 1 \in 1..m /\ (i + 1) + 1 # 1 /\ ((i + 1) + 1) - 1 = i + 1
      BY <1>1
    <3>3. c[(i + 1) + 1] = c[i + 1] \o seqs[(i + 1) + 1]
      BY <2>6, <3>2
    <3>4. f[(i + 1) + 1] = f[i + 1] \o seqs[(i + 1) + 1]
      <4>1. i + 1 \in Nat
        OBVIOUS
      <4>2. QED
        BY <1>8, <4>1
    <3>5. QED
      BY <3>1, <3>3, <3>4
  <2>9. Nat \subseteq Same
    <3> HIDE DEF Same
    <3> QED
      BY <2>7, <2>8, InductionOnSet
  <2>10. c[m] = f[m]
    <3>1. m - 1 \in Same
      BY <2>1, <2>9
    <3>2. QED
      BY <1>1, <2>1, <3>1
  <2>11. FlattenSeq(seqs) = f[m]
    BY <1>4, <1>10, <2>10 DEF c
  <2>12. QED
    BY <1>7, <1>8, <2>11 DEF A, m
<1>11. QED
  BY <1>9, <1>10

(***************************************************************************)
(* The elements of a concatenation are those of its parts.                 *)
(***************************************************************************)
LEMMA ElementsOfConcat ==
  ASSUME NEW X, NEW a \in Seq(X), NEW b \in Seq(X)
  PROVE  ToSet(a \o b) = ToSet(a) \cup ToSet(b)
<1>1. /\ a \o b \in Seq(X) /\ Len(a \o b) = Len(a) + Len(b)
      /\ \A i \in 1..(Len(a) + Len(b)) :
           (a \o b)[i] = IF i <= Len(a) THEN a[i] ELSE b[i - Len(a)]
  BY ConcatProperties
<1>2. /\ DOMAIN (a \o b) = 1..(Len(a) + Len(b))
      /\ DOMAIN a = 1..Len(a) /\ DOMAIN b = 1..Len(b)
      /\ Len(a) \in Nat /\ Len(b) \in Nat
  BY <1>1
<1> DEFINE c == a \o b
           m == Len(a)
           n == Len(b)
<1> HIDE DEF c, m, n
<1>3. /\ \A i \in 1..(m + n) : c[i] = IF i <= m THEN a[i] ELSE b[i - m]
      /\ DOMAIN c = 1..(m + n) /\ DOMAIN a = 1..m /\ DOMAIN b = 1..n
      /\ m \in Nat /\ n \in Nat
  BY <1>1, <1>2 DEF c, m, n
<1>4. ASSUME NEW x \in ToSet(c) PROVE x \in ToSet(a) \cup ToSet(b)
  <2>1. PICK i \in 1..(m + n) : x = c[i]
    BY <1>3, <1>4 DEF ToSet
  <2>2. CASE i <= m
    BY <1>3, <2>1, <2>2 DEF ToSet
  <2>3. CASE ~(i <= m)
    <3>1. i - m \in 1..n
      BY <1>3, <2>3
    <3>2. QED
      BY <1>3, <2>1, <2>3, <3>1 DEF ToSet
  <2>4. QED
    BY <2>2, <2>3
<1>5. ASSUME NEW x \in ToSet(a) PROVE x \in ToSet(c)
  <2>1. PICK i \in 1..m : x = a[i]
    BY <1>3, <1>5 DEF ToSet
  <2>2. i \in 1..(m + n) /\ i <= m
    BY <1>3
  <2>3. QED
    BY <1>3, <2>1, <2>2 DEF ToSet
<1>6. ASSUME NEW x \in ToSet(b) PROVE x \in ToSet(c)
  <2>1. PICK i \in 1..n : x = b[i]
    BY <1>3, <1>6 DEF ToSet
  <2>2. i + m \in 1..(m + n) /\ ~(i + m <= m) /\ (i + m) - m = i
    BY <1>3
  <2>3. c[i + m] = b[i]
    BY <1>3, <2>2
  <2>4. QED
    BY <1>3, <2>1, <2>2, <2>3 DEF ToSet
<1>7. QED
  BY <1>4, <1>5, <1>6 DEF c

(***************************************************************************)
(* FlattenSeq has the elements of the sequences it flattens.               *)
(***************************************************************************)
LEMMA FlattenedElements ==
  ASSUME NEW X, NEW seqs \in Seq(Seq(X))
  PROVE  /\ FlattenSeq(seqs) \in Seq(X)
         /\ ToSet(FlattenSeq(seqs)) = UNION {ToSet(seqs[i]) : i \in 1..Len(seqs)}
<1> DEFINE m == Len(seqs)
           A == Seq(X)
<1>1. m \in Nat /\ seqs \in [1..m -> A]
  BY LenProperties
<1>2. PICK f \in [Nat -> A] :
        /\ f[0] = <<>>
        /\ \A n \in Nat : n + 1 <= m => f[n + 1] = f[n] \o seqs[n + 1]
        /\ FlattenSeq(seqs) = f[m]
  BY FlattenUnfolds
<1>3. \A a, b \in A : ToSet(a \o b) = ToSet(a) \cup ToSet(b)
  BY ElementsOfConcat
<1> HIDE DEF m, A
<1> DEFINE Whole == {n \in Nat : n <= m => ToSet(f[n]) = UNION {ToSet(seqs[i]) : i \in 1..n}}
<1>4. 0 \in Whole
  <2>1. ToSet(f[0]) = {}
    BY <1>2 DEF ToSet
  <2>2. 1..0 = {}
    OBVIOUS
  <2>3. UNION {ToSet(seqs[i]) : i \in 1..0} = {}
    BY <2>2
  <2>4. QED
    BY <2>1, <2>3
<1>5. ASSUME NEW n \in Nat, n \in Whole PROVE n + 1 \in Whole
  <2> SUFFICES ASSUME n + 1 <= m
               PROVE  ToSet(f[n + 1]) = UNION {ToSet(seqs[i]) : i \in 1..(n + 1)}
    OBVIOUS
  <2>1. ToSet(f[n]) = UNION {ToSet(seqs[i]) : i \in 1..n}
    BY <1>1, <1>5
  <2>2. n + 1 \in 1..m /\ seqs[n + 1] \in A /\ f[n] \in A
    BY <1>1
  <2>3. ToSet(f[n + 1]) = ToSet(f[n]) \cup ToSet(seqs[n + 1])
    BY <1>2, <1>3, <2>2
  <2>4. 1..(n + 1) = 1..n \cup {n + 1}
    OBVIOUS
  <2>5. QED
    BY <2>1, <2>3, <2>4
<1>6. Nat \subseteq Whole
  <2> HIDE DEF Whole
  <2> QED
    BY <1>4, <1>5, InductionOnSet
<1>7. m \in Whole /\ f[m] \in A
  BY <1>1, <1>6
<1>8. QED
  BY <1>1, <1>2, <1>7 DEF m, A

(***************************************************************************)
(* What is flattened from sequences of at most one element is no longer    *)
(* than their sequence.                                                    *)
(***************************************************************************)
LEMMA FlattenedLength ==
  ASSUME NEW X, NEW seqs \in Seq(Seq(X)), \A i \in 1..Len(seqs) : Len(seqs[i]) <= 1
  PROVE  Len(FlattenSeq(seqs)) <= Len(seqs)
<1> DEFINE m == Len(seqs)
           A == Seq(X)
<1>1. m \in Nat /\ seqs \in [1..m -> A]
  BY LenProperties
<1>2. PICK f \in [Nat -> A] :
        /\ f[0] = <<>>
        /\ \A n \in Nat : n + 1 <= m => f[n + 1] = f[n] \o seqs[n + 1]
        /\ FlattenSeq(seqs) = f[m]
  BY FlattenUnfolds
<1>3. \A a, b \in A : Len(a \o b) = Len(a) + Len(b) /\ Len(a) \in Nat /\ Len(b) \in Nat
  BY ConcatProperties
<1>4. \A i \in 1..m : Len(seqs[i]) <= 1
  OBVIOUS
<1>5. Len(f[0]) = 0
  BY <1>2
<1> HIDE DEF m, A
<1> DEFINE Short == {n \in Nat : n <= m => Len(f[n]) <= n}
<1>6. 0 \in Short
  BY <1>5
<1>7. ASSUME NEW n \in Nat, n \in Short PROVE n + 1 \in Short
  <2> SUFFICES ASSUME n + 1 <= m PROVE Len(f[n + 1]) <= n + 1
    OBVIOUS
  <2>1. Len(f[n]) <= n
    BY <1>1, <1>7
  <2>2. n + 1 \in 1..m /\ seqs[n + 1] \in A /\ f[n] \in A
    BY <1>1
  <2>3. Len(f[n + 1]) = Len(f[n]) + Len(seqs[n + 1])
    BY <1>2, <1>3, <2>2
  <2>4. Len(seqs[n + 1]) <= 1 /\ Len(f[n]) \in Nat /\ Len(seqs[n + 1]) \in Nat
    BY <1>3, <1>4, <2>2
  <2>5. QED
    BY <2>1, <2>3, <2>4
<1>8. Nat \subseteq Short
  <2> HIDE DEF Short
  <2> QED
    BY <1>6, <1>7, InductionOnSet
<1>9. m \in Short
  BY <1>1, <1>8
<1>10. QED
  BY <1>1, <1>2, <1>9 DEF m
=============================================================================
