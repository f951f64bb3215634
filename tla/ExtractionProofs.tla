-------------------------- MODULE ExtractionProofs --------------------------
(***************************************************************************)
(* Proofs about ExtractionService, for any scans, any answers of the       *)
(* vision API, any number of models and any document numbers: the check    *)
(* digits and the repair of misread numbers, where dates come from, the    *)
(* circuit breaker in front of the API, and the service's invariant.       *)
(***************************************************************************)
EXTENDS ExtractionService, FiniteSetTheorems, RecursionLemmas

-----------------------------------------------------------------------------
(***************************************************************************)
(* Check digits.                                                           *)
(***************************************************************************)
LEMMA AlphabetIsInjective ==
  \A i, j \in 1..36 : Alphabet[i] = Alphabet[j] => i = j
  BY DEF Alphabet

LEMMA ValueOfCharacter ==
  ASSUME NEW i \in 1..36
  PROVE  Alphabet[i] \in Characters /\ CharValue[Alphabet[i]] = i - 1
<1>1. DOMAIN Alphabet = 1..36
  BY DEF Alphabet
<1>2. Alphabet[i] # "<"
  BY DEF Alphabet
<1>3. Alphabet[i] \in Characters
  <2>1. i \in 1..10 \/ i \in 11..36
    OBVIOUS
  <2>2. QED
    BY <2>1 DEF Characters, Digits, Letters
<1>4. (CHOOSE k \in DOMAIN Alphabet : Alphabet[k] = Alphabet[i]) = i
  BY <1>1, AlphabetIsInjective
<1>5. QED
  BY <1>2, <1>3, <1>4 DEF CharValue

LEMMA CharacterIsOfAlphabet ==
  ASSUME NEW c \in Characters
  PROVE  c = "<" \/ \E i \in 1..36 : c = Alphabet[i]
<1>1. CASE c \in Digits
  BY <1>1 DEF Digits
<1>2. CASE c \in Letters
  BY <1>2 DEF Letters
<1>3. QED
  BY <1>1, <1>2 DEF Characters

LEMMA CharValueType ==
  ASSUME NEW c \in Characters
  PROVE  CharValue[c] \in Nat
<1>1. CASE c = "<"
  BY <1>1 DEF CharValue
<1>2. CASE c # "<"
  <2>1. PICK i \in 1..36 : c = Alphabet[i]
    BY <1>2, CharacterIsOfAlphabet
  <2>2. CharValue[c] = i - 1
    BY <2>1, ValueOfCharacter
  <2>3. QED
    BY <2>2
<1>3. QED
  BY <1>1, <1>2

LEMMA ProductOfNaturals ==
  ASSUME NEW x \in Nat, NEW y \in Nat
  PROVE  x * y \in Nat
  OBVIOUS

LEMMA LastDigit ==
  ASSUME NEW x \in Nat
  PROVE  x % 10 \in 0..9
  OBVIOUS

LEMMA SameRemainder ==
  ASSUME NEW x \in Nat, NEW y \in Nat, x % 10 = y % 10
  PROVE  (x - y) % 10 = 0
  OBVIOUS

\* What the character at i adds to the sum.
Term(field, i) == CharValue[field[i]] * Weight(i)

LEMMA TermType ==
  ASSUME NEW field \in Seq(Characters), NEW i \in 1..Len(field)
  PROVE  Term(field, i) \in Nat
<1>1. field[i] \in Characters /\ i \in Nat
  OBVIOUS
<1>2. CharValue[field[i]] \in Nat
  BY <1>1, CharValueType
<1>3. Weight(i) \in Nat
  BY <1>1 DEF Weight
<1>4. QED
  BY <1>2, <1>3, ProductOfNaturals DEF Term

(***************************************************************************)
(* The check digit is computed from the left.                              *)
(***************************************************************************)
Sums(field, total) ==
  /\ total[0] = 0
  /\ \A n \in Nat : n + 1 <= Len(field) =>
       total[n + 1] = total[n] + Term(field, n + 1)

LEMMA CheckDigitUnfolds ==
  ASSUME NEW field \in Seq(Characters)
  PROVE  \E total \in [Nat -> Nat] :
           Sums(field, total) /\ ComputeCheckDigit(field) = total[Len(field)] % 10
<1> DEFINE m == Len(field)
           A == Nat
           base == 0
           step == [p \in Nat \X A |-> IF p[1] \in 1..m THEN p[2] + Term(field, p[1]) ELSE 0]
           Body(g) == [n \in Nat |-> IF n \notin DOMAIN field THEN 0 ELSE g[n - 1] + Term(field, n)]
           c == CHOOSE g : g = Body(g)
<1>1. m \in Nat /\ DOMAIN field = 1..m
  OBVIOUS
<1>2. ComputeCheckDigit(field) = c[m] % 10
  BY DEF ComputeCheckDigit, Term
<1>3. \A n \in 1..m : Term(field, n) \in Nat
  BY TermType
<1> HIDE DEF m
<1>4. step \in [Nat \X A -> A] /\ base \in A
  <2>1. \A p \in Nat \X A : p[1] \in Nat /\ p[2] \in A
    OBVIOUS
  <2>2. \A p \in Nat \X A : p[1] \in 1..m => p[2] + Term(field, p[1]) \in A
    BY <1>3, <2>1
  <2>3. QED
    BY <2>1, <2>2
<1>5. PICK f \in [Nat -> A] : Iterates(f, base, step)
  <2> HIDE DEF A, base, step
  <2> QED
    BY <1>4, RecursionOnNat
<1>6. f[0] = 0 /\ \A n \in Nat : f[n + 1] = IF n + 1 \in 1..m THEN f[n] + Term(field, n + 1) ELSE 0
  <2>1. \A n \in Nat : <<n + 1, f[n]>> \in Nat \X A
    <3> TAKE n \in Nat
    <3>1. n + 1 \in Nat /\ f[n] \in A
      OBVIOUS
    <3> HIDE DEF A, step, base
    <3>2. QED
      BY <3>1
  <2>2. QED
    BY <1>5, <2>1 DEF Iterates
<1>7. f = Body(f)
  <2>1. \A n \in Nat : f[n] = IF n \notin 1..m THEN 0 ELSE f[n - 1] + Term(field, n)
    <3> TAKE n \in Nat
    <3>1. CASE n = 0
      BY <1>1, <1>6, <3>1
    <3>2. CASE n # 0
      <4>1. n - 1 \in Nat /\ (n - 1) + 1 = n
        BY <3>2
      <4>2. QED
        BY <1>6, <4>1
    <3>3. QED
      BY <3>1, <3>2
  <2>2. QED
    BY <1>1, <1>3, <2>1
<1>8. c = Body(c)
  <2> HIDE DEF Body
  <2> QED
    BY <1>7
<1> HIDE DEF c
<1>9. \A n \in Nat : c[n] = IF n \notin 1..m THEN 0 ELSE c[n - 1] + Term(field, n)
  <2>1. \A n \in Nat : Body(c)[n] = IF n \notin DOMAIN field THEN 0 ELSE c[n - 1] + Term(field, n)
    OBVIOUS
  <2> HIDE DEF Body
  <2>2. QED
    BY <1>1, <1>3, <1>8, <2>1
<1>10. c = [n \in Nat |-> c[n]]
  <2>1. \E g : g = [n \in Nat |-> IF n \notin DOMAIN field THEN 0 ELSE c[n - 1] + Term(field, n)] /\ c = g
    BY <1>8
  <2>2. QED
    BY <2>1
<1> DEFINE Typed == {n \in Nat : c[n] \in Nat}
<1>11. Nat \subseteq Typed
  <2>1. 0 \in Typed
    BY <1>1, <1>9
  <2>2. ASSUME NEW n \in Nat, n \in Typed PROVE n + 1 \in Typed
    <3>1. (n + 1) - 1 = n /\ n + 1 \in Nat /\ c[n] \in Nat
      BY <2>2
    <3>2. c[n + 1] = IF n + 1 \notin 1..m THEN 0 ELSE c[n] + Term(field, n + 1)
      BY <1>9, <3>1
    <3>3. n + 1 \in 1..m => Term(field, n + 1) \in Nat
      BY <1>3
    <3>4. CASE n + 1 \in 1..m
      <4> DEFINE j == c[n]
                 k == Term(field, n + 1)
      <4>1. c[n + 1] = j + k /\ j \in Nat /\ k \in Nat
        BY <3>1, <3>2, <3>3, <3>4
      <4> HIDE DEF j, k
      <4>2. j + k \in Nat
        BY <4>1
      <4>3. c[n + 1] \in Nat
        BY <4>1, <4>2, Zenon
      <4>4. QED
        BY <3>1, <4>3
    <3>5. CASE n + 1 \notin 1..m
      <4>1. c[n + 1] = 0
        BY <3>2, <3>5
      <4>2. QED
        BY <3>1, <4>1
    <3>6. QED
      BY <3>4, <3>5
  <2> HIDE DEF Typed
  <2>3. QED
    BY <2>1, <2>2, InductionOnSet
<1>12. c \in [Nat -> Nat]
  BY <1>10, <1>11
<1>13. Sums(field, c)
  <2>1. c[0] = 0
    BY <1>1, <1>9
  <2>2. ASSUME NEW n \in Nat, n + 1 <= m PROVE c[n + 1] = c[n] + Term(field, n + 1)
    <3>1. (n + 1) - 1 = n /\ n + 1 \in Nat /\ n + 1 \in 1..m
      BY <1>1, <2>2
    <3>2. QED
      BY <1>3, <1>9, <3>1
  <2>3. QED
    BY <2>1, <2>2 DEF Sums, m
<1>14. QED
  BY <1>2, <1>12, <1>13 DEF m

(***************************************************************************)
(* Two sums whose terms are the same but for one differ by the difference  *)
(* of that one from then on.                                               *)
(***************************************************************************)
Parallel(m, p, s, t, u, v) ==
  /\ m \in Nat /\ p \in 1..m /\ s \in [Nat -> Nat] /\ t \in [Nat -> Nat]
  /\ s[0] = 0 /\ t[0] = 0
  /\ \A n \in Nat : n + 1 <= m => s[n + 1] = s[n] + u[n + 1] /\ t[n + 1] = t[n] + v[n + 1]
  /\ \A i \in 1..m : u[i] \in Nat /\ v[i] \in Nat /\ (i # p => u[i] = v[i])

Apart(m, p, s, t, u, v) == s[m] - t[m] = u[p] - v[p]

LEMMA SumsStayApart ==
  ASSUME NEW m, NEW p, NEW s, NEW t, NEW u, NEW v, Parallel(m, p, s, t, u, v)
  PROVE  Apart(m, p, s, t, u, v)
<1> DEFINE x == u[p]
           y == v[p]
           Since == {n \in Nat : n <= m => s[n] - t[n] = IF n < p THEN 0 ELSE x - y}
<1>1. x \in Nat /\ y \in Nat /\ p \in Nat /\ p # 0
  BY DEF Parallel
<1>p. /\ m \in Nat /\ p \in 1..m /\ s \in [Nat -> Nat] /\ t \in [Nat -> Nat]
      /\ s[0] = 0 /\ t[0] = 0
      /\ \A n \in Nat : n + 1 <= m => s[n + 1] = s[n] + u[n + 1] /\ t[n + 1] = t[n] + v[n + 1]
      /\ \A i \in 1..m : u[i] \in Nat /\ v[i] \in Nat /\ (i # p => u[i] = v[i])
  BY DEF Parallel
<1>2. Nat \subseteq Since
  <2>1. 0 \in Since
    BY <1>p, <1>1
  <2>2. ASSUME NEW n \in Nat, n \in Since PROVE n + 1 \in Since
    <3> SUFFICES ASSUME n + 1 <= m PROVE s[n + 1] - t[n + 1] = IF n + 1 < p THEN 0 ELSE x - y
      OBVIOUS
    <3>1. s[n] - t[n] = IF n < p THEN 0 ELSE x - y
      BY <1>p, <2>2
    <3> DEFINE k == u[n + 1]
               l == v[n + 1]
               a == s[n]
               b == t[n]
               c == s[n + 1]
               d == t[n + 1]
    <3>2. a \in Nat /\ b \in Nat /\ c \in Nat /\ d \in Nat
      BY <1>p
    <3>3. n + 1 \in 1..m
      BY <1>p
    <3>4. c = a + k /\ d = b + l /\ k \in Nat /\ l \in Nat
      BY <1>p, <3>3
    <3>5. n + 1 # p => k = l
      BY <1>p, <3>3
    <3>6. n + 1 = p => k = x /\ l = y
      OBVIOUS
    <3>7. a - b = IF n < p THEN 0 ELSE x - y
      BY <3>1
    <3> HIDE DEF k, l, a, b, c, d, x, y
    <3>8. c - d = IF n + 1 < p THEN 0 ELSE x - y
      BY <1>1, <3>2, <3>4, <3>5, <3>6, <3>7
    <3>9. QED
      BY <3>8 DEF c, d
  <2> HIDE DEF Since
  <2>3. QED
    BY <2>1, <2>2, InductionOnSet
<1>3. m \in Since
  BY <1>p, <1>2
<1>4. s[m] - t[m] = u[p] - v[p]
  BY <1>p, <1>3
<1>5. QED
  BY <1>4 DEF Apart

(***************************************************************************)
(* A character that is misread anywhere in a field shows in the check      *)
(* digit, unless the difference of the two characters' weighted values is  *)
(* a multiple of ten (_compute_check_digit).                               *)
(***************************************************************************)
THEOREM CheckDigitShowsMisreading ==
  ASSUME NEW a \in Seq(Characters), NEW b \in Seq(Characters), Len(a) = Len(b),
         NEW p \in 1..Len(a), \A i \in 1..Len(a) : i # p => a[i] = b[i],
         (Term(a, p) - Term(b, p)) % 10 # 0
  PROVE  ComputeCheckDigit(a) # ComputeCheckDigit(b)
<1>m. PICK m : m = Len(a)
  OBVIOUS
<1>0. PICK u, v : u = [i \in 1..m |-> Term(a, i)] /\ v = [i \in 1..m |-> Term(b, i)]
  OBVIOUS
<1>1. PICK s \in [Nat -> Nat] : Sums(a, s) /\ ComputeCheckDigit(a) = s[m] % 10
  BY <1>m, CheckDigitUnfolds
<1>2. PICK t \in [Nat -> Nat] : Sums(b, t) /\ ComputeCheckDigit(b) = t[m] % 10
  BY <1>m, CheckDigitUnfolds
<1>3. m \in Nat /\ p \in 1..m
  BY <1>m
<1>4. \A i \in 1..m : u[i] \in Nat /\ v[i] \in Nat
  BY <1>m, <1>0, TermType
<1>5. (u[p] - v[p]) % 10 # 0
  BY <1>m, <1>0
<1>6. \A i \in 1..m : i # p => u[i] = v[i]
  BY <1>m, <1>0 DEF Term
<1>7. \A n \in Nat : n + 1 <= m => s[n + 1] = s[n] + u[n + 1] /\ t[n + 1] = t[n] + v[n + 1]
  <2> SUFFICES ASSUME NEW n \in Nat, n + 1 <= m
               PROVE  s[n + 1] = s[n] + u[n + 1] /\ t[n + 1] = t[n] + v[n + 1]
    OBVIOUS
  <2>1. s[n + 1] = s[n] + Term(a, n + 1) /\ t[n + 1] = t[n] + Term(b, n + 1)
    BY <1>m, <1>1, <1>2 DEF Sums
  <2>2. n + 1 \in 1..m
    BY <1>3
  <2>3. QED
    BY <1>m, <1>0, <2>1, <2>2
<1>8. s[0] = 0 /\ t[0] = 0
  BY <1>m, <1>1, <1>2 DEF Sums
<1>9. s[m] - t[m] = u[p] - v[p]
  <2>1. Parallel(m, p, s, t, u, v)
    BY <1>3, <1>4, <1>6, <1>7, <1>8, Zenon DEF Parallel
  <2>2. Apart(m, p, s, t, u, v)
    BY <2>1, SumsStayApart
  <2>3. QED
    BY <2>2 DEF Apart
<1>10. s[m] \in Nat /\ t[m] \in Nat
  BY <1>3
<1>11. s[m] % 10 # t[m] % 10
  <2> SUFFICES ASSUME s[m] % 10 = t[m] % 10 PROVE FALSE
    OBVIOUS
  <2>1. (s[m] - t[m]) % 10 = 0
    BY <1>10, SameRemainder
  <2>2. QED
    BY <1>5, <1>9, <2>1
<1>12. QED
  BY <1>1, <1>2, <1>11

-----------------------------------------------------------------------------
(***************************************************************************)
(* Misreadings of a number.                                                *)
(***************************************************************************)
LEMMA ConfusedCharacters ==
  ASSUME NEW c \in Characters
  PROVE  /\ Confused(c) \subseteq Characters
         /\ c \in Digits \cup {"<"} => \A d \in Confused(c) : Replace(d, DigitCorrections) = c
         /\ c \in Letters => Confused(c) = {c}
<1>1. /\ DOMAIN DigitCorrections = {"O", "I", "Z", "S", "B", "A", "Q", "D"}
      /\ \A d \in DOMAIN DigitCorrections : d \in Letters /\ DigitCorrections[d] \in Digits
  BY DEF DigitCorrections, Letters, Digits, Alphabet
<1>2. Letters \cap (Digits \cup {"<"}) = {}
  BY DEF Letters, Digits, Alphabet
<1>3. Confused(c) \subseteq Characters
  BY <1>1 DEF Confused, Characters
<1>4. ASSUME c \in Digits \cup {"<"}, NEW d \in Confused(c)
      PROVE  Replace(d, DigitCorrections) = c
  BY <1>1, <1>2, <1>4 DEF Confused, Replace
<1>5. ASSUME c \in Letters PROVE Confused(c) = {c}
  BY <1>1, <1>2, <1>5 DEF Confused
<1>6. QED
  BY <1>3, <1>4, <1>5

\* The misreadings of the first n characters, behind the first.
OneMore(number, reads, n) == {Append(r, c) : r \in reads, c \in Confused(number[n])}

ReadSoFar(number, read) ==
  \A n \in Nat : read[n] = IF n \notin 2..Len(number) THEN {<<number[1]>>}
                           ELSE OneMore(number, read[n - 1], n)

LEMMA MisreadingsUnfold ==
  ASSUME NEW number \in Seq(Characters), Len(number) >= 1
  PROVE  \E read :
           /\ ReadSoFar(number, read)
           /\ Misreadings(number) =
                read[Len(number)]
                  \cup {[number EXCEPT ![1] = d] :
                          d \in {e \in DOMAIN CharCorrections : CharCorrections[e] = number[1]}}
<1> DEFINE m == Len(number)
           A == SUBSET Seq(Characters)
           base == {<<number[1]>>}
           Longer(R, n) == OneMore(number, R, n)
           step == [p \in Nat \X A |-> IF p[1] \in 2..m THEN Longer(p[2], p[1]) ELSE base]
           Body(g) == [n \in Nat |-> IF n \notin 2..Len(number) THEN {<<number[1]>>}
                                     ELSE OneMore(number, g[n - 1], n)]
           read == CHOOSE g : g = Body(g)
<1>1. m \in Nat
  OBVIOUS
<1>2. Misreadings(number) =
        read[m] \cup {[number EXCEPT ![1] = d] :
                        d \in {e \in DOMAIN CharCorrections : CharCorrections[e] = number[1]}}
  BY DEF Misreadings, OneMore
<1>3. base \in A
  <2>1. number[1] \in Characters
    OBVIOUS
  <2>2. QED
    BY <2>1
<1>4. \A n \in 2..m : \A R \in A : Longer(R, n) \in A
  <2> TAKE n \in 2..m
  <2> TAKE R \in A
  <2>1. Confused(number[n]) \subseteq Characters
    BY ConfusedCharacters
  <2> DEFINE C == Confused(number[n])
  <2>2. Longer(R, n) = {Append(r, c) : r \in R, c \in C}
    BY DEF OneMore
  <2> HIDE DEF C, Longer
  <2>3. C \subseteq Characters
    BY <2>1 DEF C
  <2>4. ASSUME NEW r \in R, NEW c \in C PROVE Append(r, c) \in Seq(Characters)
    <3>1. r \in Seq(Characters) /\ c \in Characters
      BY <2>3
    <3>2. QED
      BY <3>1
  <2>5. ASSUME NEW x \in Longer(R, n) PROVE x \in Seq(Characters)
    <3>1. PICK r \in R, c \in C : x = Append(r, c)
      BY <2>2
    <3>2. QED
      BY <2>4, <3>1
  <2>6. QED
    BY <2>5
<1> HIDE DEF m
<1>5. step \in [Nat \X A -> A]
  <2> HIDE DEF A, Longer, base
  <2>1. \A p \in Nat \X A : p[1] \in Nat /\ p[2] \in A
    OBVIOUS
  <2>2. \A p \in Nat \X A : (IF p[1] \in 2..m THEN Longer(p[2], p[1]) ELSE base) \in A
    BY <1>3, <1>4, <2>1
  <2>3. QED
    BY <2>2
<1>6. PICK f \in [Nat -> A] : Iterates(f, base, step)
  <2> HIDE DEF A, base, step
  <2> QED
    BY <1>3, <1>5, RecursionOnNat
<1>7. f[0] = base /\ \A n \in Nat : f[n + 1] = IF n + 1 \in 2..m THEN Longer(f[n], n + 1) ELSE base
  <2> HIDE DEF A, base, Longer
  <2>1. \A n \in Nat : <<n + 1, f[n]>> \in Nat \X A
    OBVIOUS
  <2>2. QED
    BY <1>6, <2>1 DEF Iterates
<1>8. f = Body(f)
  <2>1. \A n \in Nat : f[n] = IF n \notin 2..m THEN base ELSE Longer(f[n - 1], n)
    <3> HIDE DEF A, base, Longer
    <3> TAKE n \in Nat
    <3>1. CASE n = 0
      BY <1>1, <1>7, <3>1
    <3>2. CASE n # 0
      <4>1. n - 1 \in Nat /\ (n - 1) + 1 = n
        BY <3>2
      <4>2. QED
        BY <1>7, <4>1
    <3>3. QED
      BY <3>1, <3>2
  <2>2. QED
    BY <2>1 DEF m
<1>9. read = Body(read)
  <2> HIDE DEF Body
  <2> QED
    BY <1>8
<1>10. ReadSoFar(number, read)
  <2>1. ReadSoFar(number, read) <=>
          \A n \in Nat : read[n] = IF n \notin 2..Len(number) THEN {<<number[1]>>}
                                   ELSE OneMore(number, read[n - 1], n)
    BY DEF ReadSoFar
  <2>2. \A n \in Nat : Body(read)[n] = IF n \notin 2..Len(number) THEN {<<number[1]>>}
                                       ELSE OneMore(number, read[n - 1], n)
    OBVIOUS
  <2> HIDE DEF Body, read
  <2>3. \A n \in Nat : read[n] = Body(read)[n]
    BY <1>9
  <2>4. QED
    BY <2>1, <2>2, <2>3
<1> HIDE DEF read
<1>11. QED
  BY <1>2, <1>10 DEF m

(***************************************************************************)
(* A misread number has as many characters, of which either the first      *)
(* alone was misread, or others.                                           *)
(***************************************************************************)
LEMMA MisreadingOf ==
  ASSUME NEW number \in Seq(Characters), Len(number) >= 1, NEW text \in Misreadings(number)
  PROVE  \/ /\ text \in Seq(Characters) /\ Len(text) = Len(number) /\ text[1] = number[1]
            /\ \A i \in 2..Len(number) : text[i] \in Confused(number[i])
         \/ \E d \in DOMAIN CharCorrections :
              CharCorrections[d] = number[1] /\ text = [number EXCEPT ![1] = d]
<1>1. PICK read :
        /\ ReadSoFar(number, read)
        /\ Misreadings(number) =
             read[Len(number)]
               \cup {[number EXCEPT ![1] = d] :
                       d \in {e \in DOMAIN CharCorrections : CharCorrections[e] = number[1]}}
  BY MisreadingsUnfold
<1> DEFINE m == Len(number)
           Reads(t, n) == /\ t \in Seq(Characters) /\ Len(t) = n /\ t[1] = number[1]
                          /\ \A i \in 2..n : t[i] \in Confused(number[i])
           Read == {n \in Nat : n + 1 <= m => \A t \in read[n + 1] : Reads(t, n + 1)}
<1>2. m \in Nat \ {0} /\ \A i \in 1..m : number[i] \in Characters
  OBVIOUS
<1>3. Nat \subseteq Read
  <2>1. 0 \in Read
    <3>1. read[1] = {<<number[1]>>}
      BY <1>1 DEF ReadSoFar
    <3>2. Reads(<<number[1]>>, 1)
      BY <1>2
    <3>3. \A r \in read[1] : Reads(r, 1)
      BY <3>1, <3>2
    <3> HIDE DEF Reads
    <3>4. QED
      BY <3>3
  <2>2. ASSUME NEW n \in Nat, n \in Read PROVE n + 1 \in Read
    <3> DEFINE k == n + 1
    <3> SUFFICES ASSUME k + 1 <= m, NEW t \in read[k + 1] PROVE Reads(t, k + 1)
      OBVIOUS
    <3>1. k + 1 \in 2..m /\ k + 1 \in 1..m /\ k \in Nat /\ (k + 1) - 1 = k /\ k + 1 \in Nat
      BY <1>2
    <3>2. PICK r \in read[k], c \in Confused(number[k + 1]) : t = Append(r, c)
      <4>1. read[k + 1] = OneMore(number, read[(k + 1) - 1], k + 1)
        BY <1>1, <3>1 DEF ReadSoFar
      <4>2. QED
        BY <3>1, <4>1 DEF OneMore
    <3>3. Reads(r, k)
      BY <2>2, <3>1, <1>2
    <3>4. c \in Characters
      BY <1>2, <3>1, ConfusedCharacters
    <3> HIDE DEF k, m
    <3>5. Len(t) = k + 1 /\ t \in Seq(Characters) /\ t[k + 1] = c /\ \A i \in 1..k : t[i] = r[i]
      BY <3>1, <3>2, <3>3, <3>4
    <3>6. 1 \in 1..k
      BY <3>1 DEF k
    <3>7. \A i \in 2..(k + 1) : t[i] \in Confused(number[i])
      <4> TAKE i \in 2..(k + 1)
      <4>1. CASE i = k + 1
        BY <3>5, <4>1
      <4>2. CASE i # k + 1
        <5>1. i \in 1..k /\ i \in 2..k
          BY <3>1, <4>2
        <5>2. QED
          BY <3>3, <3>5, <5>1
      <4>3. QED
        BY <4>1, <4>2
    <3>8. QED
      BY <3>3, <3>5, <3>6, <3>7
  <2> HIDE DEF Read
  <2>3. QED
    BY <2>1, <2>2, InductionOnSet
<1>4. \A t \in read[m] : Reads(t, m)
  <2>1. m - 1 \in Nat /\ (m - 1) + 1 = m
    BY <1>2
  <2>2. m - 1 \in Read
    BY <1>3, <2>1
  <2>3. QED
    BY <2>1, <2>2
<1>5. CASE text \in read[m]
  BY <1>4, <1>5
<1>6. CASE text \notin read[m]
  BY <1>1, <1>6
<1>7. QED
  BY <1>5, <1>6

(***************************************************************************)
(* A letter in the second place that is read as a digit shows in the check *)
(* digit.                                                                  *)
(***************************************************************************)
LEMMA LetterAsDigitShows ==
  ASSUME NEW c \in DOMAIN DigitCorrections
  PROVE  (CharValue[c] * 3 - CharValue[DigitCorrections[c]] * 3) % 10 # 0
<1>1. /\ CharValue["O"] = 24 /\ CharValue["I"] = 18 /\ CharValue["Z"] = 35 /\ CharValue["S"] = 28
      /\ CharValue["B"] = 11 /\ CharValue["A"] = 10 /\ CharValue["Q"] = 26 /\ CharValue["D"] = 13
  <2>1. /\ Alphabet[25] = "O" /\ Alphabet[19] = "I" /\ Alphabet[36] = "Z" /\ Alphabet[29] = "S"
        /\ Alphabet[12] = "B" /\ Alphabet[11] = "A" /\ Alphabet[27] = "Q" /\ Alphabet[14] = "D"
    BY DEF Alphabet
  <2>2. \A i \in 1..36 : CharValue[Alphabet[i]] = i - 1
    BY ValueOfCharacter
  <2>3. QED
    BY <2>1, <2>2
<1>2. /\ CharValue["0"] = 0 /\ CharValue["1"] = 1 /\ CharValue["2"] = 2 /\ CharValue["5"] = 5
      /\ CharValue["8"] = 8 /\ CharValue["4"] = 4
  <2>1. /\ Alphabet[1] = "0" /\ Alphabet[2] = "1" /\ Alphabet[3] = "2" /\ Alphabet[6] = "5"
        /\ Alphabet[9] = "8" /\ Alphabet[5] = "4"
    BY DEF Alphabet
  <2>2. \A i \in 1..36 : CharValue[Alphabet[i]] = i - 1
    BY ValueOfCharacter
  <2>3. QED
    BY <2>1, <2>2
<1>3. c \in {"O", "I", "Z", "S", "B", "A", "Q", "D"}
  BY DEF DigitCorrections
<1>4. /\ DigitCorrections["O"] = "0" /\ DigitCorrections["I"] = "1"
      /\ DigitCorrections["Z"] = "2" /\ DigitCorrections["S"] = "5"
      /\ DigitCorrections["B"] = "8" /\ DigitCorrections["A"] = "4"
      /\ DigitCorrections["Q"] = "0" /\ DigitCorrections["D"] = "0"
  BY DEF DigitCorrections
<1>5. CASE c \in {"O", "Q", "D"}
  BY <1>1, <1>2, <1>4, <1>5
<1>6. CASE c \in {"I", "Z", "S"}
  BY <1>1, <1>2, <1>4, <1>6
<1>7. CASE c \in {"B", "A"}
  BY <1>1, <1>2, <1>4, <1>7
<1>8. QED
  BY <1>3, <1>5, <1>6, <1>7

\* The text as it was read, and its candidates.
Tried(text) ==
  <<text, FirstAsLetter(text), DigitsFrom(text, 2), DigitsFrom(text, 3), DigitsFrom(text, 1)>>

LEMMA OneAndFour ==
  ASSUME NEW a, NEW b, NEW c, NEW d, NEW e
  PROVE  <<a>> \o <<b, c, d, e>> = <<a, b, c, d, e>>
<1> DEFINE S == {a, b, c, d, e}
           s == <<a>>
           t == <<b, c, d, e>>
           u == <<a, b, c, d, e>>
<1>1. s \in Seq(S) /\ t \in Seq(S) /\ u \in Seq(S) /\ Len(s) = 1 /\ Len(t) = 4 /\ Len(u) = 5
  <2>1. a \in S /\ b \in S /\ c \in S /\ d \in S /\ e \in S
    OBVIOUS
  <2> HIDE DEF S
  <2>2. s \in Seq(S) /\ Len(s) = 1
    BY <2>1
  <2>3. t \in Seq(S) /\ Len(t) = 4
    BY <2>1
  <2>4. u \in Seq(S) /\ Len(u) = 5
    BY <2>1
  <2>5. QED
    BY <2>2, <2>3, <2>4
<1>2. /\ s[1] = a /\ t[1] = b /\ t[2] = c /\ t[3] = d /\ t[4] = e
      /\ u[1] = a /\ u[2] = b /\ u[3] = c /\ u[4] = d /\ u[5] = e
  OBVIOUS
<1> HIDE DEF s, t, u, S
<1>3. /\ s \o t \in Seq(S) /\ Len(s \o t) = 5
      /\ \A i \in 1..5 : (s \o t)[i] = IF i <= 1 THEN s[i] ELSE t[i - 1]
  <2>1. /\ s \o t \in Seq(S) /\ Len(s \o t) = Len(s) + Len(t)
        /\ \A i \in 1..(Len(s) + Len(t)) :
             (s \o t)[i] = IF i <= Len(s) THEN s[i] ELSE t[i - Len(s)]
    BY <1>1, ConcatProperties, Zenon
  <2>2. QED
    BY <1>1, <2>1
<1>4. \A i \in 1..5 : (s \o t)[i] = u[i]
  <2>1. (s \o t)[1] = s[1]
    BY <1>3
  <2>2. (s \o t)[2] = t[1]
    BY <1>3
  <2>3. (s \o t)[3] = t[2]
    BY <1>3
  <2>4. (s \o t)[4] = t[3]
    BY <1>3
  <2>5. (s \o t)[5] = t[4]
    BY <1>3
  <2>6. \A i \in 1..5 : i = 1 \/ i = 2 \/ i = 3 \/ i = 4 \/ i = 5
    OBVIOUS
  <2>7. QED
    BY <1>2, <2>1, <2>2, <2>3, <2>4, <2>5, <2>6
<1>5. s \o t = u
  BY <1>1, <1>3, <1>4, SeqEqual
<1>6. QED
  BY <1>5 DEF s, t, u

LEMMA FirstThatFits ==
  ASSUME NEW text, NEW digit, NEW k \in 1..5, ValidateCheckDigit(Tried(text)[k], digit),
         \A i \in 1..(k - 1) : ~ValidateCheckDigit(Tried(text)[i], digit)
  PROVE  Repaired(text, digit, NumberCandidates(text)) = Tried(text)[k]
<1> DEFINE tried == <<text>> \o NumberCandidates(text)
           fitting == {i \in DOMAIN tried : ValidateCheckDigit(tried[i], digit)}
<1>1. tried = Tried(text)
  BY OneAndFour DEF NumberCandidates, Tried
<1>2. DOMAIN Tried(text) = 1..5
  BY DEF Tried
<1>3. fitting \subseteq 1..5 /\ k \in fitting /\ \A i \in 1..(k - 1) : i \notin fitting
  <2> HIDE DEF tried
  <2>1. QED
    BY <1>1, <1>2
<1>4. Repaired(text, digit, NumberCandidates(text)) = IF fitting = {} THEN text ELSE tried[Min(fitting)]
  BY DEF Repaired
<1> HIDE DEF fitting
<1>5. Min(fitting) \in fitting /\ \A i \in fitting : Min(fitting) <= i
  <2>1. fitting \subseteq Nat /\ fitting # {}
    BY <1>3
  <2>2. QED
    BY <2>1, MinOfNaturals
<1>6. Min(fitting) = k
  <2> DEFINE l == Min(fitting)
  <2>1. l \in 1..5 /\ l <= k /\ k \in 1..5 /\ l \notin 1..(k - 1)
    BY <1>3, <1>5
  <2> HIDE DEF l
  <2>2. l = k
    BY <2>1
  <2>3. QED
    BY <2>2 DEF l
<1> HIDE DEF tried
<1>7. QED
  BY <1>1, <1>3, <1>4, <1>6

(***************************************************************************)
(* The repair finds the printed number: in front, a digit is read as the   *)
(* letter it is; behind a prefix of one letter or two, letters are read as *)
(* the digits they are, and a second letter that should not be read so     *)
(* shows in the check digit (_try_correct_with_checksum).                  *)
(***************************************************************************)
THEOREM NumberIsRepaired ==
  ASSUME NEW number \in Numbers, NEW text \in Misreadings(number),
         ~ValidateCheckDigit(text, ComputeCheckDigit(number))
  PROVE  Repaired(text, ComputeCheckDigit(number), NumberCandidates(text)) = number
<1> DEFINE digit == ComputeCheckDigit(number)
           m == Len(number)
<1>1. /\ number \in Seq(Characters) /\ m \in Nat /\ m >= 1 /\ number[1] \in Letters
      /\ \A i \in 3..m : number[i] \in Digits \cup {"<"}
  BY NumbersAssumption
<1>2. /\ Letters \cap (Digits \cup {"<"}) = {}
      /\ DOMAIN CharCorrections \cap Letters = {}
      /\ DOMAIN DigitCorrections = {"O", "I", "Z", "S", "B", "A", "Q", "D"}
  BY DEF CharCorrections, DigitCorrections, Letters, Digits, Alphabet
<1>3. ValidateCheckDigit(number, digit)
  <2>1. PICK total \in [Nat -> Nat] : digit = total[m] % 10
    BY <1>1, CheckDigitUnfolds
  <2>2. total[m] \in Nat
    BY <1>1
  <2>3. digit \in 0..9
    BY <2>1, <2>2, LastDigit
  <2>4. QED
    BY <2>3, NoneAssumption DEF ValidateCheckDigit
<1>4. /\ Tried(text)[1] = text /\ Tried(text)[2] = FirstAsLetter(text)
      /\ Tried(text)[3] = DigitsFrom(text, 2) /\ Tried(text)[4] = DigitsFrom(text, 3)
  BY DEF Tried
<1> HIDE DEF digit
<1>5. \A k \in 1..5 :
        (/\ Tried(text)[k] = number
         /\ \A i \in 1..(k - 1) : ~ValidateCheckDigit(Tried(text)[i], digit))
        => Repaired(text, digit, NumberCandidates(text)) = number
  <2> TAKE k \in 1..5
  <2> HAVE Tried(text)[k] = number /\ \A i \in 1..(k - 1) : ~ValidateCheckDigit(Tried(text)[i], digit)
  <2>1. ValidateCheckDigit(Tried(text)[k], digit)
    BY <1>3
  <2>2. QED
    BY <2>1, FirstThatFits
<1>6. ~ValidateCheckDigit(text, digit)
  BY DEF digit
<1>7. ASSUME NEW d \in DOMAIN CharCorrections, CharCorrections[d] = number[1],
             text = [number EXCEPT ![1] = d]
      PROVE  Repaired(text, digit, NumberCandidates(text)) = number
  <2>1. FirstAsLetter(text) = number
    <3>1. text[1] = d /\ DOMAIN text = DOMAIN number /\ 1 \in DOMAIN number
      BY <1>1, <1>7
    <3>2. Replace(text[1], CharCorrections) = number[1]
      BY <1>7, <3>1 DEF Replace
    <3>3. FirstAsLetter(text) = [text EXCEPT ![1] = number[1]]
      BY <3>2 DEF FirstAsLetter
    <3>4. number = [i \in DOMAIN number |-> number[i]]
      BY <1>1
    <3>5. FirstAsLetter(text) = [i \in DOMAIN number |-> IF i = 1 THEN number[1] ELSE text[i]]
      BY <3>1, <3>3
    <3>6. \A i \in DOMAIN number : i # 1 => text[i] = number[i]
      BY <1>7
    <3>7. QED
      BY <3>4, <3>5, <3>6
  <2>2. QED
    BY <1>4, <1>5, <1>6, <2>1
<1>8. ASSUME text \in Seq(Characters), Len(text) = m, text[1] = number[1],
             \A i \in 2..m : text[i] \in Confused(number[i])
      PROVE  Repaired(text, digit, NumberCandidates(text)) = number
  <2>1. DOMAIN text = 1..m /\ DOMAIN number = 1..m
    BY <1>1, <1>8
  <2>2. FirstAsLetter(text) = text
    <3>1. Replace(text[1], CharCorrections) = text[1]
      BY <1>1, <1>2, <1>8 DEF Replace
    <3>2. QED
      BY <1>8, <3>1 DEF FirstAsLetter
  <2>3. \A i \in 2..m : number[i] \in Digits \cup {"<"} =>
                          Replace(text[i], DigitCorrections) = number[i]
    <3> TAKE i \in 2..m
    <3>1. number[i] \in Characters /\ text[i] \in Confused(number[i])
      BY <1>1, <1>8
    <3>2. QED
      BY <3>1, ConfusedCharacters
  <2>4. \A i \in 2..m : number[i] \in Letters => text[i] = number[i]
    <3> TAKE i \in 2..m
    <3>1. number[i] \in Characters /\ text[i] \in Confused(number[i])
      BY <1>1, <1>8
    <3>2. QED
      BY <3>1, ConfusedCharacters
  <2>5. \A i \in 2..m : number[i] \in Letters \/ number[i] \in Digits \cup {"<"}
    BY <1>1 DEF Characters
  <2> DEFINE D(k) == DigitsFrom(text, k)
  <2>6. \A k \in 1..3 : /\ DOMAIN D(k) = 1..m
                        /\ \A i \in 1..m : D(k)[i] = IF i < k THEN text[i]
                                                     ELSE Replace(text[i], DigitCorrections)
    BY <2>1 DEF DigitsFrom
  <2>7. \A k \in 2..3 : D(k)[1] = number[1] /\ \A i \in 3..m : D(k)[i] = number[i]
    BY <1>1, <1>8, <2>3, <2>6
  <2>8. \A k \in 2..3 : (m >= 2 => D(k)[2] = number[2]) => D(k) = number
    <3> SUFFICES ASSUME NEW k \in 2..3, m >= 2 => D(k)[2] = number[2] PROVE D(k) = number
      OBVIOUS
    <3>1. \A i \in 1..m : D(k)[i] = number[i]
      BY <1>1, <2>7
    <3>2. D(k) = [i \in 1..m |-> D(k)[i]]
      BY <2>1 DEF DigitsFrom
    <3>3. number = [i \in 1..m |-> number[i]]
      BY <1>1
    <3> HIDE DEF D
    <3>4. QED
      BY <3>1, <3>2, <3>3
  <2> HIDE DEF D
  <2>9. CASE D(2) = number
    <3>1. Tried(text)[3] = number
      BY <1>4, <2>9 DEF D
    <3>2. \A i \in 1..(3 - 1) : ~ValidateCheckDigit(Tried(text)[i], digit)
      BY <1>4, <1>6, <2>2
    <3>3. QED
      BY <1>5, <3>1, <3>2
  <2>10. CASE D(2) # number
    <3>1. m >= 2 /\ D(2)[2] # number[2]
      BY <2>8, <2>10
    <3>2. 2 \in 2..m /\ 2 \in 1..m
      BY <1>1, <3>1
    <3>3. D(2)[2] = Replace(text[2], DigitCorrections)
      BY <2>6, <3>2
    <3>4. number[2] \in Letters /\ text[2] = number[2]
      BY <2>3, <2>4, <2>5, <3>1, <3>2, <3>3
    <3>5. number[2] \in DOMAIN DigitCorrections /\ D(2)[2] = DigitCorrections[number[2]]
      BY <3>1, <3>3, <3>4 DEF Replace
    <3>6. D(2) \in Seq(Characters) /\ Len(D(2)) = m
      <4>1. \A c \in DOMAIN DigitCorrections : DigitCorrections[c] \in Characters
        BY DEF DigitCorrections, Characters, Digits, Alphabet
      <4>2. \A i \in 1..m : D(2)[i] \in Characters
        BY <1>8, <2>1, <2>6, <4>1 DEF Replace
      <4>3. D(2) = [i \in 1..m |-> D(2)[i]]
        BY <2>1 DEF DigitsFrom, D
      <4>4. QED
        BY <1>1, <4>2, <4>3
    <3>7. \A i \in 1..m : i # 2 => number[i] = D(2)[i]
      BY <1>1, <2>7
    <3>8. (Term(number, 2) - Term(D(2), 2)) % 10 # 0
      <4>1. Weight(2) = 3
        BY DEF Weight
      <4>2. Term(number, 2) = CharValue[number[2]] * 3
        BY <4>1 DEF Term
      <4>3. Term(D(2), 2) = CharValue[DigitCorrections[number[2]]] * 3
        BY <3>5, <4>1 DEF Term
      <4>4. QED
        BY <3>5, <4>2, <4>3, LetterAsDigitShows
    <3>9. ComputeCheckDigit(number) # ComputeCheckDigit(D(2))
      BY <1>1, <3>2, <3>6, <3>7, <3>8, CheckDigitShowsMisreading
    <3>10. ~ValidateCheckDigit(D(2), digit)
      BY <3>9 DEF ValidateCheckDigit, digit
    <3>11. D(3) = number
      <4>1. D(3)[2] = text[2]
        BY <2>6, <3>2
      <4>2. QED
        BY <2>8, <3>4, <4>1
    <3>12. Tried(text)[4] = number
      BY <1>4, <3>11 DEF D
    <3>13. \A i \in 1..(4 - 1) : ~ValidateCheckDigit(Tried(text)[i], digit)
      BY <1>4, <1>6, <2>2, <3>10 DEF D
    <3>14. QED
      BY <1>5, <3>12, <3>13
  <2>11. QED
    BY <2>9, <2>10
<1>9. Repaired(text, digit, NumberCandidates(text)) = number
  BY <1>1, <1>7, <1>8, MisreadingOf
<1>10. QED
  BY <1>9 DEF digit

-----------------------------------------------------------------------------
(***************************************************************************)
(* The machine readable zone of a passport.                                *)
(***************************************************************************)
Showing(lines, shape) ==
  {i \in DOMAIN lines : lines[i].mrz # None /\ shape \in lines[i].mrz.shape}

LEMMA LongZone ==
  ASSUME NEW n \in Nat, NEW lines, DOMAIN lines = 1..n,
         Showing(lines, "opens") # {},
         Showing(lines, "closes") \ {Min(Showing(lines, "opens"))} # {},
         Showing(lines, "short") = {}, ~(Cardinality(Showing(lines, "card")) >= 3)
  PROVE  \E i \in 1..n : \E j \in Showing(lines, "closes") :
           ParseMrzFromTextLines(lines) = ParseTD3(lines[i].mrz, lines[j].mrz)
<1> DEFINE opening == Min(Showing(lines, "opens"))
           closing == Max(Showing(lines, "closes") \ {opening})
<1>1. \A shape : Showing(lines, shape) \subseteq 1..n
  BY DEF Showing
<1>2. opening \in 1..n
  <2>1. Showing(lines, "opens") \subseteq Nat
    BY <1>1
  <2>2. QED
    BY <1>1, <2>1, MinOfNaturals
<1>3. closing \in Showing(lines, "closes")
  <2>1. Showing(lines, "closes") \ {opening} \subseteq 0..n
    BY <1>1
  <2> DEFINE S == Showing(lines, "closes") \ {opening}
  <2>2. S \subseteq 0..n /\ S # {}
    BY <2>1
  <2> HIDE DEF S
  <2>3. Max(S) \in S
    BY <2>2, MaxOfBounded
  <2>4. QED
    BY <2>3 DEF S
<1>4. opening # 0 /\ closing # 0
  BY <1>1, <1>2, <1>3
<1>5. ~(lines[opening].mrz # None /\ "short" \in lines[opening].mrz.shape)
  BY <1>2 DEF Showing
<1> HIDE DEF opening, closing
<1>6. ParseMrzFromTextLines(lines) = ParseTD3(lines[opening].mrz, lines[closing].mrz)
  BY <1>4, <1>5 DEF ParseMrzFromTextLines, Showing, opening, closing
<1>7. QED
  BY <1>2, <1>3, <1>6

HasNumber(result, number) ==
  /\ result.present = TRUE
  /\ "passport_number" \in DOMAIN result.fields
  /\ result.fields["passport_number"] = number

LEMMA LongZoneNumber ==
  ASSUME NEW first, NEW second, NEW text, NEW digit,
         second.number = [text |-> text, digit |-> digit]
  PROVE  HasNumber(ParseTD3(first, second), Repaired(text, digit, NumberCandidates(text)))
<1> DEFINE number == [second.number EXCEPT !.text =
                        Repaired(@, second.number.digit, NumberCandidates(@))]
<1>1. number.text = Repaired(text, digit, NumberCandidates(text))
  OBVIOUS
<1> HIDE DEF number
<1>2. \A dob, expiry, sex, holder, nationality :
        HasNumber(MrzResult({"doc_number", "passport_number"}, number, dob, expiry, sex, holder,
                            nationality), number.text)
  BY DEF MrzResult, HasNumber
<1>3. QED
  BY <1>1, <1>2 DEF ParseTD3, number

LEMMA PassportLines ==
  /\ Len(Passport.lines) \in Nat
  /\ DOMAIN Passport.lines = 1..Len(Passport.lines)
  /\ DOMAIN Passport = {"empty", "lines", "passport_eye", "hint", "elongated", "four_digits",
                        "foreign_script"}
  /\ \A i \in 1..Len(Passport.lines) : IsLine(Passport.lines[i])
<1>1. Passport \in Scans
  BY ScansAssumption
<1>2. /\ Passport.lines \in Seq(ToSet(Passport.lines))
      /\ \A line \in ToSet(Passport.lines) : IsLine(line)
      /\ DOMAIN Passport = {"empty", "lines", "passport_eye", "hint", "elongated", "four_digits",
                            "foreign_script"}
  BY <1>1, ScansAssumption
<1>3. \A i \in DOMAIN Passport.lines : Passport.lines[i] \in ToSet(Passport.lines)
  BY DEF ToSet
<1>4. QED
  BY <1>2, <1>3

\* What PassportAssumption says.
LEMMA PassportZone ==
  LET lines == Passport.lines
  IN  /\ Showing(lines, "opens") # {}
      /\ Showing(lines, "closes") \ {Min(Showing(lines, "opens"))} # {}
      /\ Showing(lines, "short") = {} /\ Cardinality(Showing(lines, "card")) < 3
      /\ \A i \in Showing(lines, "closes") : {"shape", "number"} \subseteq DOMAIN lines[i].mrz
  BY PassportAssumption DEF Showing

(***************************************************************************)
(* A zone in which the number was misread has the same lines, and the text *)
(* and the digit that were read.                                           *)
(***************************************************************************)
LEMMA ReadingKeepsZone ==
  ASSUME NEW number \in Numbers, NEW text \in Misreadings(number)
  PROVE  LET read == [text |-> text, digit |-> ComputeCheckDigit(number)]
             lines == Reading(Passport, read).lines
         IN  /\ DOMAIN lines = DOMAIN Passport.lines
             /\ \A shape : Showing(lines, shape) = Showing(Passport.lines, shape)
             /\ \A i \in Showing(lines, "closes") : lines[i].mrz.number = read
<1> DEFINE read == [text |-> text, digit |-> ComputeCheckDigit(number)]
           old == Passport.lines
           lines == Reading(Passport, read).lines
<1>1. lines = [i \in DOMAIN old |->
                 IF i \in Showing(old, "closes") THEN [old[i] EXCEPT !.mrz.number = read] ELSE old[i]]
  BY PassportLines DEF Reading, Showing
<1>2. \A i \in DOMAIN old : old[i].mrz # None => lines[i].mrz # None
  BY ReadingAssumption
<1> HIDE DEF read, lines
<1>3. \A i \in DOMAIN old : i \notin Showing(old, "closes") => lines[i] = old[i]
  BY <1>1
<1>4. ASSUME NEW i \in Showing(old, "closes")
      PROVE  lines[i].mrz.number = read /\ lines[i].mrz.shape = old[i].mrz.shape
  <2>1. i \in DOMAIN old
    BY DEF Showing
  <2>2. lines[i] = [old[i] EXCEPT !.mrz.number = read]
    BY <1>1, <2>1
  <2>3. "mrz" \in DOMAIN old[i]
    BY <2>1, PassportLines DEF IsLine
  <2>4. lines[i].mrz = [old[i].mrz EXCEPT !.number = read]
    BY <2>2, <2>3
  <2>5. {"shape", "number"} \subseteq DOMAIN old[i].mrz
    BY PassportZone
  <2>6. QED
    BY <2>4, <2>5
<1>5. ASSUME NEW shape PROVE Showing(lines, shape) = Showing(old, shape)
  <2>1. DOMAIN lines = DOMAIN old
    BY <1>1
  <2>2. ASSUME NEW i \in DOMAIN old
        PROVE  i \in Showing(lines, shape) <=> i \in Showing(old, shape)
    <3>1. CASE i \in Showing(old, "closes")
      BY <1>2, <1>4, <2>1, <3>1 DEF Showing
    <3>2. CASE i \notin Showing(old, "closes")
      BY <1>3, <2>1, <3>2 DEF Showing
    <3>3. QED
      BY <3>1, <3>2
  <2>3. Showing(lines, shape) \subseteq DOMAIN old /\ Showing(old, shape) \subseteq DOMAIN old
    BY <2>1 DEF Showing
  <2>4. QED
    BY <2>2, <2>3
<1>6. QED
  BY <1>1, <1>4, <1>5 DEF read, lines

(***************************************************************************)
(* The answer for a passport whose number was misread.                     *)
(***************************************************************************)
LEMMA MisreadPassportAnswer ==
  ASSUME NEW a \in MisreadPassports
  PROVE  \E number \in Numbers : \E text \in Misreadings(number) :
           LET read == [text |-> text, digit |-> ComputeCheckDigit(number)]
               scan == Reading(Passport, read)
           IN  /\ a = ExtractionOf(number, LocalEngine(scan, Passport.hint))
               /\ a.response.fields["passport_number"].value = number
<1>0. PICK number \in Numbers :
        \E text \in Misreadings(number) :
          /\ ~ValidateCheckDigit(text, ComputeCheckDigit(number))
          /\ a = ExtractionOf(number,
                   LocalEngine(Reading(Passport, [text |-> text, digit |-> ComputeCheckDigit(number)]),
                               Passport.hint))
  BY DEF MisreadPassports
<1>1. PICK text \in Misreadings(number) :
        /\ ~ValidateCheckDigit(text, ComputeCheckDigit(number))
        /\ a = ExtractionOf(number,
                 LocalEngine(Reading(Passport, [text |-> text, digit |-> ComputeCheckDigit(number)]),
                             Passport.hint))
  BY <1>0
<1> DEFINE read == [text |-> text, digit |-> ComputeCheckDigit(number)]
           scan == Reading(Passport, read)
           lines == scan.lines
           n == Len(Passport.lines)
<1>2. /\ DOMAIN lines = 1..n /\ n \in Nat
      /\ \A shape : Showing(lines, shape) = Showing(Passport.lines, shape)
      /\ \A i \in Showing(lines, "closes") : lines[i].mrz.number = read
  BY ReadingKeepsZone, PassportLines
<1>3. /\ Showing(lines, "opens") # {}
      /\ Showing(lines, "closes") \ {Min(Showing(lines, "opens"))} # {}
      /\ Showing(lines, "short") = {}
      /\ Cardinality(Showing(lines, "card")) < 3
  <2> HIDE DEF lines
  <2> QED
    BY <1>2, PassportZone
<1>4. ~(Cardinality(Showing(lines, "card")) >= 3)
  <2>1. Showing(lines, "card") \subseteq 1..n
    BY <1>2 DEF Showing
  <2> DEFINE card == Showing(lines, "card")
  <2>2. n \in Nat /\ card \in SUBSET (1..n)
    BY <1>2, <2>1
  <2> HIDE DEF card, n
  <2>3. IsFiniteSet(1..n)
    BY <2>2, FS_Interval
  <2>4. Cardinality(card) \in Nat
    BY <2>2, <2>3, FS_Subset, FS_CardinalityType
  <2>5. QED
    BY <1>3, <2>4 DEF card
<1>5. PICK i \in 1..n, j \in Showing(lines, "closes") :
        ParseMrzFromTextLines(lines) = ParseTD3(lines[i].mrz, lines[j].mrz)
  <2> HIDE DEF lines, n
  <2> QED
    BY <1>2, <1>3, <1>4, LongZone
<1> DEFINE mrz == ParseMrz(scan.lines, scan.passport_eye)
<1>6. /\ mrz.present = TRUE /\ "passport_number" \in DOMAIN mrz.fields
      /\ mrz.fields["passport_number"] = Repaired(text, ComputeCheckDigit(number), NumberCandidates(text))
  <2>1. lines[j].mrz.number = read
    BY <1>2
  <2> DEFINE result == ParseMrzFromTextLines(lines)
  <2> HIDE DEF lines
  <2>2. /\ result.present = TRUE /\ "passport_number" \in DOMAIN result.fields
        /\ result.fields["passport_number"] =
             Repaired(text, ComputeCheckDigit(number), NumberCandidates(text))
    <3> DEFINE first == lines[i].mrz
               second == lines[j].mrz
               digit == ComputeCheckDigit(number)
    <3>1. second.number = [text |-> text, digit |-> digit] /\ result = ParseTD3(first, second)
      BY <1>5, <2>1
    <3> HIDE DEF first, second, digit, result
    <3>2. HasNumber(ParseTD3(first, second), Repaired(text, digit, NumberCandidates(text)))
      BY <3>1, LongZoneNumber
    <3>3. QED
      BY <3>1, <3>2 DEF digit, HasNumber
  <2>3. mrz = result
    <3>1. result.present
      BY <2>2
    <3> HIDE DEF result
    <3>2. QED
      BY <3>1 DEF ParseMrz, lines, result
  <2>4. QED
    BY <2>2, <2>3
<1>7. mrz.fields["passport_number"] = number
  BY <1>1, <1>6, NumberIsRepaired
<1> HIDE DEF mrz
<1>8. \A type : LocalFields(scan, type)["passport_number"] = Field(mrz.fields["passport_number"], Mrz)
  BY <1>6 DEF LocalFields, Over, mrz
<1> HIDE DEF scan
<1>9. LocalEngine(scan, Passport.hint).fields["passport_number"].value = number
  BY <1>7, <1>8 DEF LocalEngine, Response, Field
<1>10. a = ExtractionOf(number, LocalEngine(scan, Passport.hint))
  BY <1>1 DEF scan
<1>11. a.response.fields["passport_number"].value = number
  BY <1>9, <1>10 DEF ExtractionOf
<1>12. QED
  BY <1>10, <1>11 DEF scan

-----------------------------------------------------------------------------
(***************************************************************************)
(* Dates.                                                                  *)
(***************************************************************************)
IsText(lines) ==
  /\ Len(lines) \in Nat /\ DOMAIN lines = 1..Len(lines)
  /\ \A i \in DOMAIN lines : IsLine(lines[i])

Labels == ToSet(DateLabels)
Targets(lines) == {TargetDate(lines, i) : i \in DOMAIN lines}

\* What can have been found in a text.
FoundDates(lines) ==
  [labelled : UNION {[S -> Targets(lines)] : S \in SUBSET Labels},
   unlabelled : SUBSET Targets(lines), skip : Nat]

\* After n lines, no two of the dates found are from the same line.
ApartUpTo(found, n) ==
  /\ \A l \in DOMAIN found.labelled :
       /\ found.labelled[l].source \in 1..(n + 1)
       /\ found.labelled[l].source = n + 1 => found.skip = n + 1
       /\ \A k \in DOMAIN found.labelled :
            k # l => found.labelled[k].source # found.labelled[l].source
       /\ \A d \in found.unlabelled : d.source # found.labelled[l].source
  /\ \A d \in found.unlabelled :
       /\ d.source \in 1..n /\ IsYear(d.value.year)
       /\ \A e \in found.unlabelled : d.source = e.source => d = e

LEMMA LabelType ==
  ASSUME NEW line
  PROVE  DateLabel(line) = None \/ DateLabel(line) \in Labels
<1> DEFINE present == {k \in DOMAIN DateLabels : DateLabels[k] \in line.labels}
<1>1. DOMAIN DateLabels = 1..5
  BY DEF DateLabels
<1>2. present # {} => Min(present) \in DOMAIN DateLabels
  <2>1. present \subseteq Nat
    BY <1>1
  <2> HIDE DEF present
  <2>2. present # {} => Min(present) \in present
    BY <2>1, MinOfNaturals
  <2>3. QED
    BY <2>2 DEF present
<1>3. DateLabel(line) = IF present = {} THEN None ELSE DateLabels[Min(present)]
  BY DEF DateLabel
<1> HIDE DEF present
<1>4. QED
  BY <1>2, <1>3 DEF Labels, ToSet

\* A date is from its line or the next.
LEMMA TargetIsNear ==
  ASSUME NEW lines, IsText(lines), NEW i \in DOMAIN lines, TargetDate(lines, i) # None
  PROVE  /\ TargetDate(lines, i).source \in {i, i + 1}
         /\ IsYear(TargetDate(lines, i).value.year)
<1>1. \A j \in DOMAIN lines : lines[j].dates # <<>> => IsYear(lines[j].dates[1].year)
  <2> TAKE j \in DOMAIN lines
  <2> HAVE lines[j].dates # <<>>
  <2> DEFINE dates == lines[j].dates
  <2>1. dates \in Seq(ToSet(dates)) /\ \A d \in ToSet(dates) : IsYear(d.year)
    <3>1. IsLine(lines[j])
      BY DEF IsText
    <3>2. QED
      BY <3>1 DEF IsLine
  <2> HIDE DEF dates
  <2>2. dates # <<>>
    BY DEF dates
  <2>3. 1 \in DOMAIN dates
    BY <2>1, <2>2
  <2>4. dates[1] \in ToSet(dates)
    BY <2>3 DEF ToSet
  <2>5. QED
    BY <2>1, <2>4 DEF dates
<1>2. CASE lines[i].dates # <<>>
  BY <1>1, <1>2 DEF TargetDate, Field
<1>3. CASE lines[i].dates = <<>>
  <2>1. i < Len(lines) /\ lines[i + 1].dates # <<>>
    BY <1>3 DEF TargetDate
  <2>2. i + 1 \in DOMAIN lines
    BY <2>1 DEF IsText
  <2>3. TargetDate(lines, i) = Field(lines[i + 1].dates[1], i + 1)
    BY <1>3, <2>1 DEF TargetDate
  <2>4. QED
    BY <1>1, <2>1, <2>2, <2>3 DEF Field
<1>4. QED
  BY <1>2, <1>3

LEMMA DateStepType ==
  ASSUME NEW lines, IsText(lines), NEW i \in DOMAIN lines, NEW found \in FoundDates(lines)
  PROVE  DateStep(lines, found, i) \in FoundDates(lines)
<1> DEFINE target == TargetDate(lines, i)
           label == DateLabel(lines[i])
           labelled == Over([l \in {label} |-> target], found.labelled)
           skip == IF target.source = i THEN found.skip ELSE i + 1
           after == DateStep(lines, found, i)
<1>1. /\ found = [labelled |-> found.labelled, unlabelled |-> found.unlabelled, skip |-> found.skip]
      /\ found.unlabelled \subseteq Targets(lines) /\ found.skip \in Nat
  BY DEF FoundDates
<1>2. PICK S \in SUBSET Labels : found.labelled \in [S -> Targets(lines)]
  BY DEF FoundDates
<1>3. target \in Targets(lines) /\ i + 1 \in Nat
  BY DEF Targets, IsText
<1>4. \/ after = found
      \/ after = [found EXCEPT !.unlabelled = @ \cup {target}]
      \/ /\ label # None
         /\ after = [found EXCEPT !.labelled = Over([l \in {label} |-> target], @),
                                  !.skip = IF target.source = i THEN @ ELSE i + 1]
  BY DEF DateStep
<1>5. label = None \/ label \in Labels
  BY LabelType
<1> HIDE DEF target, label, after
<1>6. CASE after = found
  BY <1>6 DEF after
<1>7. CASE after = [found EXCEPT !.unlabelled = @ \cup {target}]
  <2>1. after = [labelled |-> found.labelled, unlabelled |-> found.unlabelled \cup {target},
                 skip |-> found.skip]
    BY <1>1, <1>7
  <2>2. QED
    BY <1>1, <1>3, <2>1 DEF after, FoundDates
<1>8. CASE /\ label # None
           /\ after = [found EXCEPT !.labelled = Over([l \in {label} |-> target], @),
                                    !.skip = IF target.source = i THEN @ ELSE i + 1]
  <2>1. after = [labelled |-> labelled, unlabelled |-> found.unlabelled, skip |-> skip]
    BY <1>1, <1>8
  <2>2. labelled \in [S \cup {label} -> Targets(lines)]
    BY <1>2, <1>3 DEF Over
  <2>3. S \cup {label} \in SUBSET Labels
    BY <1>5, <1>8
  <2>4. skip \in Nat
    BY <1>1, <1>3
  <2> HIDE DEF labelled, skip
  <2>5. labelled \in UNION {[T -> Targets(lines)] : T \in SUBSET Labels}
    BY <2>2, <2>3
  <2>6. QED
    BY <1>1, <2>1, <2>4, <2>5 DEF after, FoundDates
<1>9. QED
  BY <1>4, <1>6, <1>7, <1>8

(***************************************************************************)
(* A line adds a date of its own, or that of the next line, which then is  *)
(* skipped.                                                                *)
(***************************************************************************)
LEMMA DateStepKeepsApart ==
  ASSUME NEW lines, IsText(lines), NEW n \in Nat, n + 1 \in DOMAIN lines,
         NEW found \in FoundDates(lines), ApartUpTo(found, n)
  PROVE  ApartUpTo(DateStep(lines, found, n + 1), n + 1)
<1> DEFINE i == n + 1
           target == TargetDate(lines, i)
           label == DateLabel(lines[i])
           labelled == Over([l \in {label} |-> target], found.labelled)
           after == DateStep(lines, found, i)
<1>1. /\ found = [labelled |-> found.labelled, unlabelled |-> found.unlabelled, skip |-> found.skip]
      /\ found.unlabelled \subseteq Targets(lines) /\ found.skip \in Nat
  BY DEF FoundDates
<1>2. PICK S \in SUBSET Labels : found.labelled \in [S -> Targets(lines)]
  BY DEF FoundDates
<1>3. target \in Targets(lines) /\ i \in Nat \ {0} /\ i + 1 \in Nat
  BY DEF Targets
<1>4. target # None => target.source \in {i, i + 1} /\ IsYear(target.value.year)
  BY TargetIsNear
<1> HIDE DEF target, label
<1>5. /\ labelled \in [S \cup {label} -> Targets(lines)]
      /\ DOMAIN labelled = S \cup {label}
      /\ \A l \in S \cup {label} : labelled[l] = IF l = label THEN target ELSE found.labelled[l]
  BY <1>2, <1>3 DEF Over
<1>6. CASE target = None \/ i = found.skip
  <2>1. after = found
    BY <1>6 DEF DateStep, target
  <2>2. ApartUpTo(found, i)
    BY <1>3 DEF ApartUpTo
  <2>3. QED
    BY <2>1, <2>2
<1>7. CASE target # None /\ i # found.skip /\ label # None
  <2> DEFINE skip == IF target.source = i THEN found.skip ELSE i + 1
  <2>1. after = [labelled |-> labelled, unlabelled |-> found.unlabelled, skip |-> skip]
    <3>1. after = [found EXCEPT !.labelled = Over([l \in {label} |-> target], @),
                                !.skip = IF target.source = i THEN @ ELSE i + 1]
      BY <1>7 DEF DateStep, target, label
    <3>2. QED
      BY <1>1, <3>1
  <2> HIDE DEF labelled
  <2>3. \A l \in S : found.labelled[l].source \in 1..n
    BY <1>2, <1>7 DEF ApartUpTo
  <2>4. \A d \in found.unlabelled : d.source \in 1..n
    BY DEF ApartUpTo
  <2>5. target.source \notin 1..n /\ target.source \in 1..(i + 1)
        /\ (target.source = i + 1 => skip = i + 1)
    BY <1>3, <1>4, <1>7
  <2> HIDE DEF skip
  <2>6. \A l \in DOMAIN labelled :
          /\ labelled[l].source \in 1..(i + 1)
          /\ labelled[l].source = i + 1 => skip = i + 1
          /\ \A k \in DOMAIN labelled : k # l => labelled[k].source # labelled[l].source
          /\ \A d \in found.unlabelled : d.source # labelled[l].source
    <3> TAKE l \in DOMAIN labelled
    <3>1. CASE l = label
      BY <1>5, <2>3, <2>4, <2>5, <3>1
    <3>2. CASE l # label
      <4>1. l \in S /\ labelled[l] = found.labelled[l]
        BY <1>5, <3>2
      <4>2. \A k \in DOMAIN labelled : k # l => labelled[k].source # labelled[l].source
        BY <1>2, <1>5, <2>3, <2>5, <4>1 DEF ApartUpTo
      <4>3. \A d \in found.unlabelled : d.source # labelled[l].source
        BY <1>2, <4>1 DEF ApartUpTo
      <4>4. QED
        BY <2>3, <4>1, <4>2, <4>3
    <3>3. QED
      BY <3>1, <3>2
  <2>7. \A d \in found.unlabelled :
          /\ d.source \in 1..i /\ IsYear(d.value.year)
          /\ \A e \in found.unlabelled : d.source = e.source => d = e
    BY <2>4 DEF ApartUpTo
  <2> HIDE DEF after
  <2>8. ApartUpTo(after, i)
    BY <2>1, <2>6, <2>7 DEF ApartUpTo
  <2>9. QED
    BY <2>8 DEF after
<1>8. CASE target # None /\ i # found.skip /\ label = None /\ target.source = i
  <2> DEFINE unlabelled == found.unlabelled \cup {target}
  <2>1. after = [labelled |-> found.labelled, unlabelled |-> unlabelled, skip |-> found.skip]
    <3>1. after = [found EXCEPT !.unlabelled = @ \cup {target}]
      BY <1>8 DEF DateStep, target, label
    <3>2. QED
      BY <1>1, <3>1
  <2>3. \A l \in DOMAIN found.labelled : found.labelled[l].source \in 1..n
    BY <1>8 DEF ApartUpTo
  <2>4. \A d \in found.unlabelled : d.source \in 1..n
    BY DEF ApartUpTo
  <2>5. \A d \in unlabelled :
          /\ d.source \in 1..i /\ IsYear(d.value.year)
          /\ \A e \in unlabelled : d.source = e.source => d = e
    BY <1>3, <1>4, <1>8, <2>4 DEF ApartUpTo
  <2>6. \A l \in DOMAIN found.labelled :
          /\ found.labelled[l].source \in 1..(i + 1) /\ found.labelled[l].source # i + 1
          /\ \A k \in DOMAIN found.labelled :
               k # l => found.labelled[k].source # found.labelled[l].source
          /\ \A d \in unlabelled : d.source # found.labelled[l].source
    BY <1>3, <1>8, <2>3 DEF ApartUpTo
  <2> HIDE DEF after, unlabelled
  <2>7. ApartUpTo(after, i)
    BY <2>1, <2>5, <2>6 DEF ApartUpTo
  <2>8. QED
    BY <2>7 DEF after
<1>9. CASE target # None /\ i # found.skip /\ label = None /\ target.source # i
  <2>1. after = found
    BY <1>9 DEF DateStep, target, label
  <2>2. ApartUpTo(found, i)
    BY <1>3 DEF ApartUpTo
  <2>3. QED
    BY <2>1, <2>2
<1>10. QED
  BY <1>6, <1>7, <1>8, <1>9

NothingFound == [labelled |-> [l \in {} |-> None], unlabelled |-> {}, skip |-> 0]

FoundSoFar(lines, found) ==
  \A n \in Nat : found[n] = IF n \notin DOMAIN lines THEN NothingFound
                            ELSE DateStep(lines, found[n - 1], n)

LEMMA DatesUnfold ==
  ASSUME NEW lines, IsText(lines)
  PROVE  /\ NothingFound \in FoundDates(lines)
         /\ \E found : FoundSoFar(lines, found) /\ DatesFound(lines) = found[Len(lines)]
<1> DEFINE m == Len(lines)
           A == FoundDates(lines)
           base == NothingFound
           Step(g, n) == DateStep(lines, g, n)
           step == [p \in Nat \X A |-> IF p[1] \in 1..m THEN Step(p[2], p[1]) ELSE base]
           Body(g) == [n \in Nat |-> IF n \notin DOMAIN lines THEN NothingFound
                                     ELSE DateStep(lines, g[n - 1], n)]
           found == CHOOSE g : g = Body(g)
<1>1. m \in Nat /\ DOMAIN lines = 1..m
  BY DEF IsText
<1>2. DatesFound(lines) = found[m]
  BY DEF DatesFound, NothingFound
<1>3. base \in A
  <2>1. [l \in {} |-> None] \in [{} -> Targets(lines)]
    OBVIOUS
  <2>2. {} \in SUBSET Labels
    OBVIOUS
  <2>3. [l \in {} |-> None] \in UNION {[S -> Targets(lines)] : S \in SUBSET Labels}
    BY <2>1, <2>2
  <2>4. QED
    BY <2>3 DEF FoundDates, NothingFound
<1>4. \A n \in 1..m : \A g \in A : Step(g, n) \in A
  BY <1>1, DateStepType
<1> HIDE DEF m
<1>5. step \in [Nat \X A -> A]
  <2> HIDE DEF A, Step, base
  <2>1. \A p \in Nat \X A : p[1] \in Nat /\ p[2] \in A
    OBVIOUS
  <2>2. \A p \in Nat \X A : (IF p[1] \in 1..m THEN Step(p[2], p[1]) ELSE base) \in A
    BY <1>3, <1>4, <2>1
  <2>3. QED
    BY <2>2
<1>6. PICK f \in [Nat -> A] : Iterates(f, base, step)
  <2> HIDE DEF A, base, step
  <2> QED
    BY <1>3, <1>5, RecursionOnNat
<1>7. f[0] = base /\ \A n \in Nat : f[n + 1] = IF n + 1 \in 1..m THEN Step(f[n], n + 1) ELSE base
  <2> HIDE DEF A, base, Step
  <2>1. \A n \in Nat : <<n + 1, f[n]>> \in Nat \X A
    OBVIOUS
  <2>2. QED
    BY <1>6, <2>1 DEF Iterates
<1>8. f = Body(f)
  <2>1. \A n \in Nat : f[n] = IF n \notin 1..m THEN base ELSE Step(f[n - 1], n)
    <3> HIDE DEF A, base, Step
    <3> TAKE n \in Nat
    <3>1. CASE n = 0
      BY <1>1, <1>7, <3>1
    <3>2. CASE n # 0
      <4>1. n - 1 \in Nat /\ (n - 1) + 1 = n
        BY <3>2
      <4>2. QED
        BY <1>7, <4>1
    <3>3. QED
      BY <3>1, <3>2
  <2>2. QED
    BY <1>1, <2>1
<1>9. found = Body(found)
  <2> HIDE DEF Body
  <2> QED
    BY <1>8
<1>10. FoundSoFar(lines, found)
  <2>1. \A n \in Nat : Body(found)[n] = IF n \notin DOMAIN lines THEN NothingFound
                                        ELSE DateStep(lines, found[n - 1], n)
    OBVIOUS
  <2> HIDE DEF Body, found
  <2>2. \A n \in Nat : found[n] = Body(found)[n]
    BY <1>9
  <2>3. QED
    BY <2>1, <2>2 DEF FoundSoFar
<1> HIDE DEF found
<1>11. QED
  BY <1>2, <1>3, <1>10 DEF m

(***************************************************************************)
(* The dates of a text are from different lines.                           *)
(***************************************************************************)
LEMMA DatesAreApart ==
  ASSUME NEW lines, IsText(lines)
  PROVE  DatesFound(lines) \in FoundDates(lines) /\ ApartUpTo(DatesFound(lines), Len(lines))
<1>1. PICK found : FoundSoFar(lines, found) /\ DatesFound(lines) = found[Len(lines)]
  BY DatesUnfold
<1> DEFINE m == Len(lines)
           Good == {n \in Nat : n <= m => found[n] \in FoundDates(lines) /\ ApartUpTo(found[n], n)}
<1>2. m \in Nat /\ DOMAIN lines = 1..m
  BY DEF IsText
<1> HIDE DEF m
<1>3. Nat \subseteq Good
  <2>1. 0 \in Good
    <3>1. found[0] = NothingFound
      BY <1>1, <1>2 DEF FoundSoFar
    <3>2. ApartUpTo(NothingFound, 0)
      BY DEF ApartUpTo, NothingFound
    <3>3. QED
      BY <3>1, <3>2, DatesUnfold
  <2>2. ASSUME NEW n \in Nat, n \in Good PROVE n + 1 \in Good
    <3> SUFFICES ASSUME n + 1 <= m
                 PROVE  found[n + 1] \in FoundDates(lines) /\ ApartUpTo(found[n + 1], n + 1)
      OBVIOUS
    <3>1. found[n] \in FoundDates(lines) /\ ApartUpTo(found[n], n)
      BY <1>2, <2>2
    <3>2. n + 1 \in DOMAIN lines /\ n + 1 \in Nat /\ (n + 1) - 1 = n
      BY <1>2
    <3>3. found[n + 1] = DateStep(lines, found[n], n + 1)
      BY <1>1, <3>2 DEF FoundSoFar
    <3>4. QED
      BY <3>1, <3>2, <3>3, DateStepKeepsApart, DateStepType
  <2> HIDE DEF Good
  <2>3. QED
    BY <2>1, <2>2, InductionOnSet
<1>4. m \in Good
  BY <1>2, <1>3
<1>5. QED
  BY <1>1, <1>2, <1>4 DEF m

(***************************************************************************)
(* Of dates that are all from different lines, there are a first and a     *)
(* last, and they differ when there are two dates.                         *)
(***************************************************************************)
Earliest(dates) == CHOOSE d \in dates : \A e \in dates : ~Earlier(e, d)
Latest(dates) == CHOOSE d \in dates : \A e \in dates : ~Earlier(d, e)

LEMMA FirstAndLast ==
  ASSUME NEW n \in Nat, NEW m \in Nat, NEW dates, dates # {},
         \A d \in dates : d.value.year \in 0..m /\ d.source \in 1..n,
         \A d, e \in dates : d.source = e.source => d = e
  PROVE  /\ Earliest(dates) \in dates /\ Latest(dates) \in dates
         /\ Cardinality(dates) > 1 => Earliest(dates).source # Latest(dates).source
<1> DEFINE Years == {d.value.year : d \in dates}
<1>1. Years \subseteq 0..m /\ Years \subseteq Nat /\ Years # {}
  OBVIOUS
<1>2. /\ \A d \in dates : d.value.year \in Years
      /\ \A y \in Years : \E d \in dates : d.value.year = y
  OBVIOUS
<1> HIDE DEF Years
<1>3. \E d \in dates : \A e \in dates : ~Earlier(e, d)
  <2>1. PICK y \in Years : \A z \in Years : y <= z
    <3>1. \E y \in Years : \A z \in Years : y <= z
      BY <1>1, LeastNatural
    <3>2. QED
      BY <3>1
  <2> DEFINE S == {d.source : d \in {e \in dates : e.value.year = y}}
  <2>2. S \subseteq Nat /\ S \subseteq 0..n /\ S # {}
    BY <1>2
  <2>3. \A e \in dates : e.value.year = y => e.source \in S
    OBVIOUS
  <2>4. \A s \in S : \E d \in dates : d.value.year = y /\ d.source = s
    OBVIOUS
  <2> HIDE DEF S
  <2>5. PICK s \in S : \A t \in S : s <= t
    <3>1. \E s \in S : \A t \in S : s <= t
      BY <2>2, LeastNatural
    <3>2. QED
      BY <3>1
  <2>6. PICK d \in dates : d.value.year = y /\ d.source = s
    BY <2>4
  <2>7. ASSUME NEW e \in dates, Earlier(e, d) PROVE FALSE
    <3>1. y <= e.value.year /\ e.value.year \in 0..m /\ y \in 0..m
      BY <1>1, <1>2, <2>1
    <3>2. e.value.year = y /\ e.source < d.source
      BY <2>6, <2>7, <3>1 DEF Earlier
    <3>3. d.source <= e.source /\ d.source \in 1..n /\ e.source \in 1..n
      BY <2>3, <2>5, <2>6, <3>2
    <3>4. QED
      BY <3>2, <3>3
  <2>8. QED
    BY <2>7
<1>4. \E d \in dates : \A e \in dates : ~Earlier(d, e)
  <2>1. PICK y \in Years : \A z \in Years : z <= y
    <3>1. Max(Years) \in Years /\ \A z \in Years : z <= Max(Years)
      BY <1>1, MaxOfBounded
    <3>2. QED
      BY <3>1
  <2> DEFINE S == {d.source : d \in {e \in dates : e.value.year = y}}
  <2>2. S \subseteq Nat /\ S \subseteq 0..n /\ S # {}
    BY <1>2
  <2>3. \A e \in dates : e.value.year = y => e.source \in S
    OBVIOUS
  <2>4. \A s \in S : \E d \in dates : d.value.year = y /\ d.source = s
    OBVIOUS
  <2> HIDE DEF S
  <2>5. PICK s \in S : \A t \in S : t <= s
    <3>1. Max(S) \in S /\ \A t \in S : t <= Max(S)
      BY <2>2, MaxOfBounded
    <3>2. QED
      BY <3>1
  <2>6. PICK d \in dates : d.value.year = y /\ d.source = s
    BY <2>4
  <2>7. ASSUME NEW e \in dates, Earlier(d, e) PROVE FALSE
    <3>1. e.value.year <= y /\ e.value.year \in 0..m /\ y \in 0..m
      BY <1>1, <1>2, <2>1
    <3>2. e.value.year = y /\ d.source < e.source
      BY <2>6, <2>7, <3>1 DEF Earlier
    <3>3. e.source <= d.source /\ d.source \in 1..n /\ e.source \in 1..n
      BY <2>3, <2>5, <2>6, <3>2
    <3>4. QED
      BY <3>2, <3>3
  <2>8. QED
    BY <2>7
<1>5. Earliest(dates) \in dates /\ \A e \in dates : ~Earlier(e, Earliest(dates))
  BY <1>3 DEF Earliest
<1>6. Latest(dates) \in dates /\ \A e \in dates : ~Earlier(Latest(dates), e)
  BY <1>4 DEF Latest
<1>7. ASSUME Earliest(dates).source = Latest(dates).source PROVE ~(Cardinality(dates) > 1)
  <2> DEFINE d == Earliest(dates)
  <2>1. d \in dates /\ d = Latest(dates)
    BY <1>5, <1>6, <1>7
  <2> HIDE DEF d
  <2>2. ASSUME NEW e \in dates PROVE e = d
    <3>1. ~Earlier(e, d) /\ ~Earlier(d, e)
      BY <1>5, <1>6, <2>1, <2>2 DEF d
    <3>2. /\ e.value.year \in 0..m /\ d.value.year \in 0..m
          /\ e.source \in 1..n /\ d.source \in 1..n
      BY <2>1, <2>2
    <3>3. e.source = d.source
      BY <3>1, <3>2 DEF Earlier
    <3>4. QED
      BY <2>1, <2>2, <3>3
  <2>3. dates = {d}
    BY <2>1, <2>2
  <2>4. Cardinality(dates) = 1
    BY <2>3, FS_Singleton
  <2>5. QED
    BY <2>4
<1>8. QED
  BY <1>5, <1>6, <1>7

(***************************************************************************)
(* The four dates of a document, and what the labels leave open of them.   *)
(***************************************************************************)
HolderDates == {"date_of_birth", "date_of_expiry", "travel_date", "entry_validity"}

LEMMA DateFieldsAreApart ==
  ASSUME NEW lines, IsText(lines), NEW type,
         NEW f \in DOMAIN DateFields(lines, type) \cap HolderDates,
         NEW g \in DOMAIN DateFields(lines, type) \cap HolderDates, f # g
  PROVE  DateFields(lines, type)[f].source # DateFields(lines, type)[g].source
<1> DEFINE found == DatesFound(lines)
           n == Len(lines)
           labelled ==
             [k \in {l \in {"date_of_birth", "date_of_expiry", "travel_date", "entry_validity",
                            "valid_until"} :
                       (IF l = "valid_until" THEN "date_of_expiry" ELSE l) \in DOMAIN found.labelled} |->
                found.labelled[IF k = "valid_until" THEN "date_of_expiry" ELSE k]]
           taken == {found.labelled[l].value.text : l \in DOMAIN found.labelled}
           others == {d \in found.unlabelled : d.value.text \notin taken /\ d.value.year # None}
           open(k) == k \notin DOMAIN labelled
           guessed ==
             {k \in {"date_of_birth", "date_of_expiry", "travel_date"} :
                /\ others # {}
                /\ open("date_of_birth") \/ open("date_of_expiry")
                /\ CASE k = "date_of_birth" -> type # "ferry_ticket"
                     [] k = "date_of_expiry" ->
                          Cardinality(others) > 1 /\ type \in {"passport", "driving_license", "permit"}
                     [] OTHER -> type = "ferry_ticket"}
           guess == [k \in guessed |-> IF k = "date_of_expiry" THEN Latest(others) ELSE Earliest(others)]
<1>1. n \in Nat /\ ApartUpTo(found, n)
  BY DatesAreApart DEF IsText
<1>2. DateFields(lines, type) = Over(labelled, guess)
  BY DEF DateFields, Earliest, Latest
<1> HIDE DEF found
<1>3. \A k \in DOMAIN labelled \cap HolderDates :
        k \in DOMAIN found.labelled /\ labelled[k] = found.labelled[k]
  BY DEF HolderDates
<1>4. others \subseteq found.unlabelled
  OBVIOUS
<1>m. PICK m \in Nat : \A year : IsYear(year) => year = None \/ year \in 0..m
  <2> DEFINE last == 9999
  <2>1. \A year : IsYear(year) => year = None \/ year \in 0..last
    BY DEF IsYear
  <2>2. last \in Nat
    OBVIOUS
  <2> HIDE DEF last
  <2>3. QED
    BY <2>1, <2>2
<1>5. /\ \A d \in others : d.value.year \in 0..m /\ d.source \in 1..n
      /\ \A d, e \in others : d.source = e.source => d = e
  BY <1>1, <1>m DEF ApartUpTo
<1> HIDE DEF others, labelled
<1>6. ASSUME NEW k \in guessed
      PROVE  /\ guess[k] \in others
             /\ k = "date_of_expiry" => Cardinality(others) > 1
             /\ k = "travel_date" <=> type = "ferry_ticket"
             /\ k = "date_of_expiry" => guess[k] = Latest(others)
             /\ k # "date_of_expiry" => guess[k] = Earliest(others)
  <2>1. others # {}
    BY <1>6
  <2>2. Earliest(others) \in others /\ Latest(others) \in others
    BY <1>1, <1>m, <1>5, <2>1, FirstAndLast
  <2>3. QED
    BY <1>6, <2>2
<1>7. guessed \subseteq {"date_of_birth", "date_of_expiry", "travel_date"} /\ DOMAIN guess = guessed
  OBVIOUS
<1>8. others # {} /\ Cardinality(others) > 1 => Earliest(others).source # Latest(others).source
  BY <1>1, <1>m, <1>5, FirstAndLast
<1>9. guessed # {} => others # {}
  OBVIOUS
<1> HIDE DEF guess, guessed
<1>10. ASSUME NEW k \in DOMAIN labelled \cap HolderDates, NEW l \in guessed
       PROVE  labelled[k].source # guess[l].source
  <2>1. guess[l] \in found.unlabelled
    BY <1>4, <1>6
  <2>2. QED
    BY <1>1, <1>3, <2>1 DEF ApartUpTo
<1>11. \A k \in DOMAIN labelled \cap HolderDates : Over(labelled, guess)[k] = labelled[k]
  BY DEF Over
<1>12. \A k \in guessed : k \notin DOMAIN labelled => Over(labelled, guess)[k] = guess[k]
  BY <1>7 DEF Over
<1>13. \A k \in DOMAIN Over(labelled, guess) : k \in DOMAIN labelled \/ k \in guessed
  BY <1>7 DEF Over
<1>14. CASE f \in DOMAIN labelled /\ g \in DOMAIN labelled
  <2>1. found.labelled[f].source # found.labelled[g].source
    BY <1>1, <1>3, <1>14 DEF ApartUpTo
  <2>2. QED
    BY <1>2, <1>3, <1>11, <1>14, <2>1
<1>15. CASE f \in DOMAIN labelled /\ g \notin DOMAIN labelled
  BY <1>2, <1>10, <1>11, <1>12, <1>13, <1>15
<1>16. CASE f \notin DOMAIN labelled /\ g \in DOMAIN labelled
  BY <1>2, <1>10, <1>11, <1>12, <1>13, <1>16
<1>17. CASE f \notin DOMAIN labelled /\ g \notin DOMAIN labelled
  <2>1. f \in guessed /\ g \in guessed
    BY <1>2, <1>13, <1>17
  <2>2. Over(labelled, guess)[f] = guess[f] /\ Over(labelled, guess)[g] = guess[g]
    BY <1>12, <1>17, <2>1
  <2>3. f = "date_of_expiry" \/ g = "date_of_expiry"
    BY <1>6, <1>7, <2>1
  <2>4. Earliest(others).source # Latest(others).source
    BY <1>6, <1>8, <1>9, <2>1, <2>3
  <2>5. guess[f].source # guess[g].source
    BY <1>6, <2>1, <2>3, <2>4
  <2>6. QED
    BY <1>2, <2>2, <2>5
<1>18. QED
  BY <1>14, <1>15, <1>16, <1>17

-----------------------------------------------------------------------------
(***************************************************************************)
(* Where the fields of an answer come from.                                *)
(***************************************************************************)
OneSource(response) ==
  LET fields == response.fields
      dates == DOMAIN fields \cap HolderDates
  IN  /\ response.extraction_method = "mrz" =>
           \A f \in DOMAIN response.mrz.fields : fields[f].source = Mrz
      /\ \A f, g \in dates : f # g /\ fields[f].source > 0 => fields[f].source # fields[g].source

LEMMA ExtractedDates ==
  ASSUME NEW lines, NEW type, NEW f \in DOMAIN ExtractFields(lines, type) \cap HolderDates
  PROVE  /\ f \in DOMAIN DateFields(lines, type)
         /\ ExtractFields(lines, type)[f] = DateFields(lines, type)[f]
<1> DEFINE dates == DateFields(lines, type)
           numbers == NumberFields(lines, type)
           others == FirstFound(lines, {"gender", "nationality"})
           names == NameFields(lines, type)
<1>1. \A fields : DOMAIN FirstFound(lines, fields) \subseteq fields
  BY DEF FirstFound
<1>2. DOMAIN numbers \cap HolderDates = {}
  <2>1. DocumentFields(type) \cap HolderDates = {}
    BY DEF DocumentFields, HolderDates
  <2>2. DOMAIN numbers \subseteq DocumentFields(type) \cup {"issuing_authority"}
    BY <1>1 DEF NumberFields, Over
  <2>3. QED
    BY <2>1, <2>2 DEF HolderDates
<1>3. DOMAIN others \cap HolderDates = {}
  BY <1>1 DEF HolderDates
<1>4. DOMAIN names \cap HolderDates = {}
  <2>1. DOMAIN names \subseteq {"name", "father_name"}
    BY <1>1 DEF NameFields, Over
  <2>2. QED
    BY <2>1 DEF HolderDates
<1>5. ExtractFields(lines, type) = Over(dates, Over(numbers, Over(others, names)))
  BY DEF ExtractFields
<1> HIDE DEF dates, numbers, others, names
<1>6. f \in DOMAIN dates
  BY <1>2, <1>3, <1>4, <1>5 DEF Over
<1>7. ExtractFields(lines, type)[f] = dates[f]
  BY <1>5, <1>6 DEF Over
<1>8. QED
  BY <1>6, <1>7 DEF dates

LEMMA LocalFieldsAreApart ==
  ASSUME NEW scan, IsText(scan.lines), NEW hint
  PROVE  OneSource(LocalEngine(scan, hint))
<1> DEFINE response == LocalEngine(scan, hint)
           mrz == ParseMrz(scan.lines, scan.passport_eye)
           type == TypeOf(scan, hint)
           zone == [f \in DOMAIN mrz.fields |-> Field(mrz.fields[f], Mrz)]
           visual == ExtractFields(scan.lines, type)
           fields == Over(zone, visual)
<1>1. response.fields = fields /\ response.mrz = mrz
  BY DEF LocalEngine, LocalFields, Response
<1>2. /\ \A f \in DOMAIN mrz.fields : fields[f].source = Mrz
      /\ \A f \in DOMAIN fields : f \notin DOMAIN mrz.fields =>
           f \in DOMAIN visual /\ fields[f] = visual[f]
  BY DEF Over, Field
<1> HIDE DEF mrz, visual, fields, response
<1>3. ASSUME NEW f \in DOMAIN fields \cap HolderDates, NEW g \in DOMAIN fields \cap HolderDates,
             f # g, fields[f].source > 0
      PROVE  fields[f].source # fields[g].source
  <2>1. f \notin DOMAIN mrz.fields
    BY <1>2, <1>3 DEF Mrz
  <2>2. CASE g \in DOMAIN mrz.fields
    BY <1>2, <1>3, <2>2 DEF Mrz
  <2>3. CASE g \notin DOMAIN mrz.fields
    <3>1. /\ f \in DOMAIN visual \cap HolderDates /\ g \in DOMAIN visual \cap HolderDates
          /\ fields[f] = visual[f] /\ fields[g] = visual[g]
      BY <1>2, <2>1, <2>3
    <3> DEFINE lines == scan.lines
               dates == DateFields(lines, type)
    <3> HIDE DEF lines, type
    <3>2. /\ f \in DOMAIN dates \cap HolderDates /\ g \in DOMAIN dates \cap HolderDates
          /\ visual[f] = dates[f] /\ visual[g] = dates[g]
      BY <3>1, ExtractedDates DEF visual, lines
    <3>3. dates[f].source # dates[g].source
      BY <1>3, <3>2, DateFieldsAreApart DEF lines
    <3>4. QED
      BY <3>1, <3>2, <3>3
  <2>4. QED
    BY <2>2, <2>3
<1>4. QED
  BY <1>1, <1>2, <1>3 DEF OneSource, response

(***************************************************************************)
(* The fields of the vision API replace others, and are from no line.      *)
(***************************************************************************)
IsResponse(response) ==
  /\ response = Response(response.document_type, response.extraction_method, response.fields,
                         response.mrz)
  /\ OneSource(response)

LEMMA LlmFieldsHaveNoLine ==
  ASSUME NEW llm \in LlmResults
  PROVE  \A f \in DOMAIN llm.fields : llm.fields[f].source = Llm
  BY DEF LlmResults, NoFields, Field

LEMMA WithLlmHasOneSource ==
  ASSUME NEW response, IsResponse(response), NEW llm \in LlmResults
  PROVE  IsResponse(WithLlm(response, llm))
<1> DEFINE fields == Over(llm.fields, response.fields)
           after == WithLlm(response, llm)
<1>1. CASE llm.fields = NoFields
  BY <1>1 DEF WithLlm
<1>2. CASE llm.fields # NoFields
  <2>1. after = [response EXCEPT !.extraction_method = "llm_fallback",
                                 !.fields = Over(llm.fields, @)]
    BY <1>2 DEF WithLlm
  <2>2. response = [document_type |-> response.document_type,
                    extraction_method |-> response.extraction_method,
                    fields |-> response.fields, mrz |-> response.mrz]
    BY DEF IsResponse, Response
  <2>3. after = Response(response.document_type, "llm_fallback", fields, response.mrz)
    BY <2>1, <2>2 DEF Response
  <2>4. \A f \in DOMAIN fields :
          \/ fields[f].source = Llm
          \/ f \in DOMAIN response.fields /\ fields[f] = response.fields[f]
    BY LlmFieldsHaveNoLine DEF Over
  <2> HIDE DEF fields, after
  <2>5. after.fields = fields /\ after.extraction_method = "llm_fallback"
    BY <2>3 DEF Response
  <2>6. ASSUME NEW f \in DOMAIN fields \cap HolderDates, NEW g \in DOMAIN fields \cap HolderDates,
               f # g, fields[f].source > 0
        PROVE  fields[f].source # fields[g].source
    <3>1. f \in DOMAIN response.fields /\ fields[f] = response.fields[f]
      BY <2>4, <2>6 DEF Llm
    <3>2. CASE fields[g].source = Llm
      BY <2>6, <3>2 DEF Llm
    <3>3. CASE g \in DOMAIN response.fields /\ fields[g] = response.fields[g]
      BY <2>6, <3>1, <3>3 DEF IsResponse, OneSource
    <3>4. QED
      BY <2>4, <3>2, <3>3
  <2>7. OneSource(after)
    BY <2>5, <2>6 DEF OneSource
  <2>8. QED
    BY <2>3, <2>7 DEF IsResponse, Response, after
<1>3. QED
  BY <1>1, <1>2

-----------------------------------------------------------------------------
(***************************************************************************)
(* The clock and the end of the pause are numbers.                         *)
(***************************************************************************)
ClockInv == now \in Nat /\ cooldown_until \in Nat

(***************************************************************************)
(* The answers of one call are a sequence of which only the last can be a  *)
(* refusal or a success.                                                   *)
(***************************************************************************)
LEMMA AttemptsEndOnRefusal ==
  ASSUME NEW s \in Attempts
  PROVE  /\ Len(s) \in Nat \ {0} /\ Len(s) <= Models /\ DOMAIN s = 1..Len(s)
         /\ \A i \in 1..(Len(s) - 1) : s[i] = "error"
<1>1. PICK k \in 1..Models : s \in [1..k -> {"ok", "error"} \cup Refusal]
  BY DEF Attempts
<1>2. k \in Nat \ {0} /\ k <= Models
  BY ModelsAssumption
<1>3. Len(s) = k /\ DOMAIN s = 1..k
  BY <1>1, <1>2
<1>4. \A i \in 1..(Len(s) - 1) : s[i] = "error"
  BY DEF Attempts
<1>5. QED
  BY <1>2, <1>3, <1>4

(***************************************************************************)
(* One step's part of the breaker.                                         *)
(***************************************************************************)
BreakerKept ==
  asked' # <<>> =>
    /\ now >= cooldown_until
    /\ \A i \in 1..(Len(asked') - 1) : asked'[i] \notin Refusal
    /\ asked'[Len(asked')] = "auth" => cooldown_until' >= now + AuthCooldown

(***************************************************************************)
(* Whatever the API answers, a call keeps to the pause, and sets one when  *)
(* it is refused.                                                          *)
(***************************************************************************)
LEMMA CallKeepsBreaker ==
  ASSUME ClockInv, NEW llm, ExtractFieldsWithLlm(llm), now' = now
  PROVE  ClockInv' /\ BreakerKept
<1>1. CASE now < cooldown_until \/ ~LlmKey
  BY <1>1 DEF ExtractFieldsWithLlm, ClockInv, BreakerKept
<1>2. CASE ~(now < cooldown_until \/ ~LlmKey)
  <2>1. /\ asked' \in Attempts
        /\ cooldown_until' = IF \E i \in DOMAIN asked' : asked'[i] \in Refusal
                             THEN Cooldown(asked'[Len(asked')]) ELSE cooldown_until
    BY <1>2 DEF ExtractFieldsWithLlm
  <2>2. /\ Len(asked') \in Nat \ {0} /\ DOMAIN asked' = 1..Len(asked')
        /\ \A i \in 1..(Len(asked') - 1) : asked'[i] = "error"
    BY <2>1, AttemptsEndOnRefusal
  <2>3. now >= cooldown_until
    BY <1>2 DEF ClockInv
  <2>4. \A i \in 1..(Len(asked') - 1) : asked'[i] \notin Refusal
    BY <2>2 DEF Refusal
  <2>5. Len(asked') \in DOMAIN asked'
    BY <2>2
  <2>6. ASSUME asked'[Len(asked')] = "auth" PROVE cooldown_until' >= now + AuthCooldown
    <3>1. cooldown_until' = now + AuthCooldown
      BY <2>1, <2>5, <2>6 DEF Refusal, Cooldown
    <3>2. QED
      BY <3>1 DEF ClockInv, AuthCooldown
  <2>7. cooldown_until' \in Nat
    BY <2>1 DEF ClockInv, Cooldown, AuthCooldown, QuotaCooldown
  <2>8. QED
    BY <2>3, <2>4, <2>6, <2>7 DEF BreakerKept, ClockInv
<1>3. QED
  BY <1>1, <1>2

(***************************************************************************)
(* Every handler asks through the breaker, or nobody.                      *)
(***************************************************************************)
LEMMA StepKeepsBreaker ==
  ASSUME ClockInv, Next
  PROVE  ClockInv' /\ BreakerKept
<1>1. ASSUME AskNobody, now' = now \/ now' = now + 1 PROVE ClockInv' /\ BreakerKept
  BY <1>1 DEF AskNobody, ClockInv, BreakerKept
<1>2. ASSUME NEW scan \in Scans, NEW hint, ExtractDocumentByApi(scan, hint)
      PROVE  ClockInv' /\ BreakerKept
  BY <1>2, CallKeepsBreaker DEF ExtractDocumentByApi
<1>3. ASSUME NEW scan \in reading, OcrServiceReturns(scan) PROVE ClockInv' /\ BreakerKept
  BY <1>1, <1>3, CallKeepsBreaker DEF OcrServiceReturns
<1>4. CASE LlmVisionFallbackNode
  BY <1>4, CallKeepsBreaker DEF LlmVisionFallbackNode
<1>5. CASE \/ Tick \/ Return
           \/ \E scan \in Scans : \E hint \in {None, scan.hint} : ExtractDocument(scan, hint)
           \/ ExtractPassport
           \/ \E scan \in Scans : CallOcrService(scan)
           \/ \E items \in Batches : ExtractBatch(items)
           \/ ProcessSingleItem \/ BatchReturns
  BY <1>1, <1>5 DEF Tick, Return, ExtractDocument, ExtractPassport, CallOcrService, ExtractBatch,
                    ProcessSingleItem, BatchReturns
<1>6. QED
  BY <1>2, <1>3, <1>4, <1>5 DEF Next

(***************************************************************************)
(* The vision API is asked nothing while an earlier refusal counts, no     *)
(* request follows a refusal, and the pause after an authentication        *)
(* failure is never cut short: whichever handlers and pipelines of the     *)
(* process ask, in whatever order (llm_fallback.py).                       *)
(***************************************************************************)
THEOREM BreakerHolds == Spec => ProviderIsLeftAlone
<1>1. Init => ClockInv
  BY DEF Init, ClockInv
<1>2. ClockInv /\ [Next]_vars => ClockInv'
  BY StepKeepsBreaker DEF vars, ClockInv
<1>3. ClockInv /\ [Next]_vars =>
        [asked' # <<>> =>
          /\ now >= cooldown_until
          /\ \A i \in 1..(Len(asked') - 1) : asked'[i] \notin Refusal
          /\ asked'[Len(asked')] = "auth" => cooldown_until' >= now + AuthCooldown]_vars
  BY StepKeepsBreaker DEF BreakerKept
<1>4. QED
  BY <1>1, <1>2, <1>3, PTL DEF Spec, ProviderIsLeftAlone

-----------------------------------------------------------------------------
(***************************************************************************)
(* The inductive invariant of the service: what the pause, the calls in    *)
(* progress, the batch and the answer can be.                              *)
(***************************************************************************)
BreakerInv ==
  /\ now \in 0..MaxNow /\ cooldown_until \in 0..(MaxNow + AuthCooldown)
  /\ Len(asked) <= Models

CallsInv ==
  /\ process \in {"ocr_service", "orchestrator"}
  /\ reading \subseteq Scans /\ IsFiniteSet(reading) /\ Cardinality(reading) <= MaxReading

IsResults(results) ==
  /\ results \in Seq([index : Nat, success : BOOLEAN])
  /\ \A i \in 1..Len(results) : results[i].index = i

IsBatchRun(run) ==
  /\ run = BatchRun(run.items, run.next, run.results)
  /\ run.items \in Seq(Scans) /\ IsResults(run.results)
  /\ run.next = Len(run.results) + 1 /\ Len(run.results) <= Len(run.items)

\* An extraction is of a document whose number is not known, or of that number.
IsAnswer(a) ==
  /\ a.kind \in {"error", "extraction", "batch"}
  /\ a.kind = "extraction" =>
       /\ a = ExtractionOf(a.printed, a.response)
       /\ IsResponse(a.response)
       /\ a.printed # None => a.response.fields["passport_number"].value = a.printed
  /\ a.kind = "batch" =>
       /\ IsResults(a.results)
       /\ Len(a.results) = Len(a.items)
       /\ a.successful_count + a.failed_count = Len(a.items)

AnswersInv ==
  /\ batch # None => IsBatchRun(batch)
  /\ answer # None => IsAnswer(answer)
  /\ process = "orchestrator" => batch = None /\ (answer # None => answer.kind = "extraction")

ExtractionInv == BreakerInv /\ CallsInv /\ AnswersInv

LEMMA ExtractionIsAnswer ==
  ASSUME NEW response, IsResponse(response)
  PROVE  IsAnswer(Extraction(response)) /\ Extraction(response).kind = "extraction"
<1>1. Extraction(response) = [kind |-> "extraction", printed |-> None, response |-> response]
  BY DEF Extraction, ExtractionOf
<1>2. QED
  BY <1>1 DEF IsAnswer, ExtractionOf

LEMMA ScansAreTexts ==
  ASSUME NEW scan \in Scans
  PROVE  IsText(scan.lines)
<1>1. scan.lines \in Seq(ToSet(scan.lines)) /\ \A line \in ToSet(scan.lines) : IsLine(line)
  BY ScansAssumption
<1>2. \A i \in DOMAIN scan.lines : scan.lines[i] \in ToSet(scan.lines)
  BY DEF ToSet
<1>3. QED
  BY <1>1, <1>2 DEF IsText

LEMMA LocalResponseIsResponse ==
  ASSUME NEW scan \in Scans, NEW hint \in {None, scan.hint}
  PROVE  IsResponse(LocalResponse(scan, hint))
<1>1. LocalResponse(scan, hint) = LocalEngine(scan, hint)
  BY DEF LocalResponse, LocalResponses
<1>2. OneSource(LocalEngine(scan, hint))
  BY ScansAreTexts, LocalFieldsAreApart
<1>3. QED
  BY <1>1, <1>2 DEF IsResponse, LocalEngine, Response

LEMMA LocalAnswerIsAnswer ==
  ASSUME NEW scan \in Scans, NEW hint \in {None, scan.hint}, AnswerLocally(scan, hint)
  PROVE  IsAnswer(answer')
<1>1. CASE answer' = Unprocessable
  BY <1>1 DEF IsAnswer, Unprocessable
<1>2. CASE answer' = Extraction(LocalResponse(scan, hint))
  BY <1>2, LocalResponseIsResponse, ExtractionIsAnswer
<1>3. QED
  BY <1>1, <1>2 DEF AnswerLocally

\* Only the zone of a line changes when its number is misread.
LEMMA ReadingIsText ==
  ASSUME NEW number
  PROVE  IsText(Reading(Passport, number).lines)
<1> DEFINE old == Passport.lines
           lines == Reading(Passport, number).lines
<1>1. lines = [i \in DOMAIN old |->
                 IF i \in Showing(old, "closes") THEN [old[i] EXCEPT !.mrz.number = number] ELSE old[i]]
  BY PassportLines DEF Reading, Showing
<1>2. DOMAIN lines = DOMAIN old
  BY <1>1
<1>3. Len(lines) = Len(old)
  BY <1>1, PassportLines
<1>4. ASSUME NEW i \in DOMAIN old PROVE IsLine(lines[i])
  <2>1. IsLine(old[i])
    BY PassportLines
  <2>2. lines[i] = old[i] \/ lines[i] = [old[i] EXCEPT !.mrz.number = number]
    BY <1>1
  <2> HIDE DEF lines
  <2>3. DOMAIN lines[i] = DOMAIN old[i] /\ lines[i].dates = old[i].dates
    BY <2>1, <2>2 DEF IsLine
  <2>4. QED
    BY <2>1, <2>3 DEF IsLine
<1> HIDE DEF lines
<1>5. IsText(lines)
  BY <1>2, <1>3, <1>4, PassportLines DEF IsText
<1>6. QED
  BY <1>5 DEF lines

LEMMA MisreadPassportIsAnswer ==
  ASSUME NEW a \in MisreadPassports
  PROVE  IsAnswer(a)
<1>1. PICK number \in Numbers :
        \E text \in Misreadings(number) :
          LET read == [text |-> text, digit |-> ComputeCheckDigit(number)]
              scan == Reading(Passport, read)
          IN  /\ a = ExtractionOf(number, LocalEngine(scan, Passport.hint))
              /\ a.response.fields["passport_number"].value = number
  BY MisreadPassportAnswer
<1>2. PICK read :
        /\ a = ExtractionOf(number, LocalEngine(Reading(Passport, read), Passport.hint))
        /\ a.response.fields["passport_number"].value = number
  BY <1>1
<1> DEFINE response == LocalEngine(Reading(Passport, read), Passport.hint)
<1>3. OneSource(response)
  BY ReadingIsText, LocalFieldsAreApart
<1>4. IsResponse(response)
  BY <1>3 DEF IsResponse, LocalEngine, Response
<1> HIDE DEF response
<1>5. a = [kind |-> "extraction", printed |-> number, response |-> response]
  BY <1>2 DEF ExtractionOf, response
<1>6. QED
  BY <1>2, <1>4, <1>5 DEF IsAnswer, ExtractionOf

(***************************************************************************)
(* The pause and the number of requests stay within their bounds.          *)
(***************************************************************************)
LEMMA CallKeepsBounds ==
  ASSUME ExtractionInv, NEW llm, ExtractFieldsWithLlm(llm), now' = now
  PROVE  BreakerInv'
<1>1. now \in 0..MaxNow /\ cooldown_until \in 0..(MaxNow + AuthCooldown) /\ MaxNow \in Nat
  BY BoundsAssumption DEF ExtractionInv, BreakerInv
<1>2. \A status : Cooldown(status) \in 0..(MaxNow + AuthCooldown)
  BY <1>1 DEF Cooldown, AuthCooldown, QuotaCooldown
<1>3. CASE asked' = <<>> /\ UNCHANGED cooldown_until
  <2>1. Len(asked') = 0
    BY <1>3
  <2>2. QED
    BY <1>1, <1>3, <2>1, ModelsAssumption DEF BreakerInv
<1>4. CASE /\ asked' \in Attempts
           /\ \/ UNCHANGED cooldown_until
              \/ cooldown_until' = Cooldown(asked'[Len(asked')])
  <2>1. Len(asked') <= Models
    BY <1>4, AttemptsEndOnRefusal
  <2>2. cooldown_until' \in 0..(MaxNow + AuthCooldown)
    BY <1>1, <1>2, <1>4
  <2>3. QED
    BY <1>1, <2>1, <2>2 DEF BreakerInv
<1>5. QED
  BY <1>3, <1>4 DEF ExtractFieldsWithLlm

LEMMA StepKeepsBounds ==
  ASSUME ExtractionInv, Next
  PROVE  BreakerInv'
<1>1. ASSUME AskNobody, now' = now \/ (now < MaxNow /\ now' = now + 1) PROVE BreakerInv'
  <2>1. Len(asked') = 0 /\ cooldown_until' = cooldown_until
    BY <1>1 DEF AskNobody
  <2>2. now' \in 0..MaxNow
    BY <1>1, BoundsAssumption DEF ExtractionInv, BreakerInv
  <2>3. QED
    BY <2>1, <2>2, ModelsAssumption DEF ExtractionInv, BreakerInv
<1>2. ASSUME NEW scan \in Scans, NEW hint, ExtractDocumentByApi(scan, hint) PROVE BreakerInv'
  BY <1>2, CallKeepsBounds DEF ExtractDocumentByApi
<1>3. ASSUME NEW scan \in reading, OcrServiceReturns(scan) PROVE BreakerInv'
  BY <1>1, <1>3, CallKeepsBounds DEF OcrServiceReturns
<1>4. CASE LlmVisionFallbackNode
  BY <1>4, CallKeepsBounds DEF LlmVisionFallbackNode
<1>5. CASE \/ Tick \/ Return
           \/ \E scan \in Scans : \E hint \in {None, scan.hint} : ExtractDocument(scan, hint)
           \/ ExtractPassport
           \/ \E scan \in Scans : CallOcrService(scan)
           \/ \E items \in Batches : ExtractBatch(items)
           \/ ProcessSingleItem \/ BatchReturns
  BY <1>1, <1>5 DEF Tick, Return, ExtractDocument, ExtractPassport, CallOcrService, ExtractBatch,
                    ProcessSingleItem, BatchReturns
<1>6. QED
  BY <1>2, <1>3, <1>4, <1>5 DEF Next

(***************************************************************************)
(* A call is begun only below the bound, and ends at most once.            *)
(***************************************************************************)
LEMMA StepKeepsCalls ==
  ASSUME ExtractionInv, Next
  PROVE  CallsInv'
<1>1. ASSUME UNCHANGED <<process, reading>> PROVE CallsInv'
  BY <1>1 DEF ExtractionInv, CallsInv
<1>2. ASSUME NEW scan \in Scans, CallOcrService(scan) PROVE CallsInv'
  <2>1. /\ reading \subseteq Scans /\ IsFiniteSet(reading) /\ Cardinality(reading) < MaxReading
        /\ reading' = reading \cup {scan} /\ process' = process
    BY <1>2 DEF ExtractionInv, CallsInv, CallOcrService
  <2>2. /\ IsFiniteSet(reading')
        /\ \/ Cardinality(reading') = Cardinality(reading)
           \/ Cardinality(reading') = Cardinality(reading) + 1
    BY <2>1, FS_AddElement
  <2>3. Cardinality(reading) \in Nat
    BY <2>1, FS_CardinalityType
  <2>4. Cardinality(reading') <= MaxReading
    BY <2>1, <2>2, <2>3, BoundsAssumption
  <2>5. QED
    BY <2>1, <2>2, <2>4 DEF ExtractionInv, CallsInv
<1>3. ASSUME NEW scan \in reading, OcrServiceReturns(scan) PROVE CallsInv'
  <2>1. /\ reading \subseteq Scans /\ IsFiniteSet(reading) /\ Cardinality(reading) <= MaxReading
        /\ reading' = reading \ {scan} /\ process' = process
    BY <1>3 DEF ExtractionInv, CallsInv, OcrServiceReturns
  <2>2. /\ IsFiniteSet(reading') /\ Cardinality(reading') <= Cardinality(reading)
        /\ Cardinality(reading) \in Nat /\ Cardinality(reading') \in Nat
    BY <2>1, FS_Subset, FS_CardinalityType
  <2>3. QED
    BY <2>1, <2>2, BoundsAssumption DEF ExtractionInv, CallsInv
<1>4. CASE \/ Tick \/ Return
           \/ \E scan \in Scans : \E hint \in {None, scan.hint} :
                ExtractDocument(scan, hint) \/ ExtractDocumentByApi(scan, hint)
           \/ ExtractPassport \/ LlmVisionFallbackNode
           \/ \E items \in Batches : ExtractBatch(items)
           \/ ProcessSingleItem \/ BatchReturns
  BY <1>1, <1>4 DEF Tick, Return, ExtractDocument, ExtractDocumentByApi, ExtractPassport,
                    LlmVisionFallbackNode, ExtractBatch, ProcessSingleItem, BatchReturns
<1>5. QED
  BY <1>2, <1>3, <1>4 DEF Next

(***************************************************************************)
(* What a handler answers, and what the batch adds to its results.         *)
(***************************************************************************)
LEMMA ApiAnswerIsAnswer ==
  ASSUME NEW scan \in Scans, NEW hint \in {None, scan.hint}, ExtractDocumentByApi(scan, hint)
  PROVE  IsAnswer(answer')
<1>1. PICK llm \in LlmResults :
        IF llm.fields = NoFields THEN AnswerLocally(scan, hint)
        ELSE LET detected == IF llm.type # None THEN llm.type
                             ELSE IF hint # None THEN hint ELSE "national_id"
             IN  answer' = Extraction(Response(detected, "llm_fallback", llm.fields, Absent))
  BY DEF ExtractDocumentByApi
<1>2. CASE llm.fields = NoFields
  BY <1>1, <1>2, LocalAnswerIsAnswer
<1>3. CASE llm.fields # NoFields
  <2>1. PICK detected :
          answer' = Extraction(Response(detected, "llm_fallback", llm.fields, Absent))
    BY <1>1, <1>3
  <2> DEFINE response == Response(detected, "llm_fallback", llm.fields, Absent)
  <2>2. /\ response.extraction_method = "llm_fallback" /\ response.fields = llm.fields
        /\ response = Response(response.document_type, response.extraction_method,
                               response.fields, response.mrz)
    BY DEF Response
  <2> HIDE DEF response
  <2>3. \A f \in DOMAIN response.fields : ~(response.fields[f].source > 0)
    BY <2>2, LlmFieldsHaveNoLine DEF Llm
  <2>4. IsResponse(response)
    BY <2>2, <2>3 DEF IsResponse, OneSource
  <2>5. QED
    BY <2>1, <2>4, ExtractionIsAnswer DEF response
<1>4. QED
  BY <1>2, <1>3

LEMMA ItemKeepsBatch ==
  ASSUME IsBatchRun(batch), ProcessSingleItem
  PROVE  IsBatchRun(batch')
<1> DEFINE result == ItemResult(batch.next, batch.items[batch.next])
           results == Append(batch.results, result)
           run == BatchRun(batch.items, batch.next + 1, results)
<1>1. /\ batch.results \in Seq([index : Nat, success : BOOLEAN])
      /\ \A i \in 1..Len(batch.results) : batch.results[i].index = i
      /\ batch.items \in Seq(Scans)
      /\ batch.next = Len(batch.results) + 1 /\ batch.next <= Len(batch.items)
  BY DEF IsBatchRun, IsResults, ProcessSingleItem
<1>2. result \in [index : Nat, success : BOOLEAN] /\ result.index = batch.next
  BY <1>1 DEF ItemResult
<1>3. batch' = run
  BY DEF ProcessSingleItem
<1> HIDE DEF result
<1>4. /\ results \in Seq([index : Nat, success : BOOLEAN])
      /\ Len(results) = Len(batch.results) + 1
  BY <1>1, <1>2
<1>5. \A i \in 1..Len(results) : results[i].index = i
  BY <1>1, <1>2, <1>4
<1> HIDE DEF results
<1>6. run.items = batch.items /\ run.next = batch.next + 1 /\ run.results = results
  BY DEF BatchRun
<1>7. run = BatchRun(run.items, run.next, run.results)
  BY <1>6
<1> HIDE DEF run
<1>8. IsResults(run.results) /\ run.items \in Seq(Scans)
  BY <1>1, <1>4, <1>5, <1>6 DEF IsResults
<1>9. run.next = Len(run.results) + 1 /\ Len(run.results) <= Len(run.items)
  BY <1>1, <1>4, <1>6
<1>10. QED
  BY <1>3, <1>7, <1>8, <1>9 DEF IsBatchRun

LEMMA BatchIsAnswered ==
  ASSUME IsBatchRun(batch), BatchReturns
  PROVE  IsAnswer(answer')
<1> DEFINE results == batch.results
           succeeded == {i \in DOMAIN results : results[i].success}
<1>1. /\ results \in Seq([index : Nat, success : BOOLEAN])
      /\ IsResults(results) /\ batch.items \in Seq(Scans)
      /\ Len(results) <= Len(batch.items) /\ Len(results) + 1 > Len(batch.items)
  BY DEF IsBatchRun, IsResults, BatchReturns
<1>2. Len(batch.items) \in Nat /\ Len(results) \in Nat
  BY <1>1
<1>3. Len(results) = Len(batch.items) /\ succeeded \subseteq 1..Len(results)
  BY <1>1, <1>2
<1> HIDE DEF succeeded
<1>4. IsFiniteSet(succeeded)
  <2>1. IsFiniteSet(1..Len(results))
    BY <1>2, FS_Interval
  <2>2. QED
    BY <1>3, <2>1, FS_Subset
<1> DEFINE successful == Cardinality(succeeded)
<1>5. successful \in Nat
  BY <1>4, FS_CardinalityType
<1>6. answer' = [kind |-> "batch", items |-> batch.items, results |-> results,
                 successful_count |-> successful, failed_count |-> Len(results) - successful]
  BY DEF BatchReturns, succeeded
<1> HIDE DEF successful, results
<1>7. successful + (Len(results) - successful) = Len(batch.items)
  BY <1>2, <1>3, <1>5
<1>8. QED
  BY <1>1, <1>3, <1>6, <1>7 DEF IsAnswer

LEMMA StepKeepsAnswers ==
  ASSUME ExtractionInv, Next
  PROVE  AnswersInv'
<1>1. ASSUME UNCHANGED <<process, batch>>, IsAnswer(answer'),
             answer'.kind = "extraction" \/ process # "orchestrator"
      PROVE  AnswersInv'
  BY <1>1 DEF ExtractionInv, AnswersInv
<1>2. ASSUME UNCHANGED <<process, answer>>,
             batch' # None => IsBatchRun(batch') /\ process # "orchestrator"
      PROVE  AnswersInv'
  BY <1>2 DEF ExtractionInv, AnswersInv
<1>3. CASE Tick \/ \E scan \in Scans : CallOcrService(scan)
  BY <1>3 DEF Tick, CallOcrService, ExtractionInv, AnswersInv
<1>4. CASE Return
  BY <1>4 DEF Return, ExtractionInv, AnswersInv
<1>5. ASSUME NEW scan \in Scans, NEW hint \in {None, scan.hint},
             ExtractDocument(scan, hint) \/ ExtractDocumentByApi(scan, hint)
      PROVE  AnswersInv'
  <2>1. IsAnswer(answer')
    BY <1>5, LocalAnswerIsAnswer, ApiAnswerIsAnswer DEF ExtractDocument
  <2>2. UNCHANGED <<process, batch>> /\ process # "orchestrator"
    BY <1>5 DEF ExtractDocument, ExtractDocumentByApi
  <2>3. QED
    BY <1>1, <2>1, <2>2
<1>6. CASE ExtractPassport
  <2>1. IsAnswer(answer')
    BY <1>6, MisreadPassportIsAnswer DEF ExtractPassport
  <2>2. QED
    BY <1>1, <1>6, <2>1 DEF ExtractPassport
<1>7. ASSUME NEW scan \in reading, OcrServiceReturns(scan) PROVE AnswersInv'
  <2>1. scan \in Scans
    BY DEF ExtractionInv, CallsInv
  <2>2. IsResponse(LocalResponse(scan, scan.hint))
    BY <2>1, LocalResponseIsResponse
  <2>3. PICK response : IsResponse(response) /\ answer' = Extraction(response)
    BY <1>7, <2>2, WithLlmHasOneSource DEF OcrServiceReturns
  <2>4. QED
    BY <1>1, <1>7, <2>3, ExtractionIsAnswer DEF OcrServiceReturns
<1>8. CASE LlmVisionFallbackNode
  <2>1. IsResponse(answer.response)
    BY <1>8 DEF LlmVisionFallbackNode, ExtractionInv, AnswersInv, IsAnswer
  <2>2. PICK response : IsResponse(response) /\ answer' = Extraction(response)
    BY <1>8, <2>1, WithLlmHasOneSource DEF LlmVisionFallbackNode
  <2>3. QED
    BY <1>1, <1>8, <2>2, ExtractionIsAnswer DEF LlmVisionFallbackNode
<1>9. ASSUME NEW items \in Batches, ExtractBatch(items) PROVE AnswersInv'
  <2>1. items \in Seq(Scans)
    BY BatchesAssumption
  <2>2. IsBatchRun(BatchRun(items, 1, <<>>))
    BY <2>1 DEF IsBatchRun, IsResults, BatchRun
  <2>3. QED
    BY <1>2, <1>9, <2>2 DEF ExtractBatch
<1>10. CASE ProcessSingleItem
  <2>1. IsBatchRun(batch) /\ process # "orchestrator"
    BY <1>10 DEF ProcessSingleItem, ExtractionInv, AnswersInv
  <2>2. QED
    BY <1>2, <1>10, <2>1, ItemKeepsBatch DEF ProcessSingleItem
<1>11. CASE BatchReturns
  <2>1. IsBatchRun(batch) /\ process # "orchestrator"
    BY <1>11 DEF BatchReturns, ExtractionInv, AnswersInv
  <2>2. IsAnswer(answer')
    BY <1>11, <2>1, BatchIsAnswered
  <2>3. UNCHANGED process /\ batch' = None
    BY <1>11 DEF BatchReturns
  <2>4. QED
    BY <2>1, <2>2, <2>3 DEF AnswersInv
<1>12. QED
  BY <1>3, <1>4, <1>5, <1>6, <1>7, <1>8, <1>9, <1>10, <1>11 DEF Next

-----------------------------------------------------------------------------
(***************************************************************************)
(* In every reachable state the pause, the calls in progress, the batch    *)
(* and the answer are what ExtractionInv says, whatever scans are read in  *)
(* whatever order and whatever the vision API answers.                     *)
(***************************************************************************)
THEOREM ExtractionInvHolds == Spec => []ExtractionInv
<1>1. Init => ExtractionInv
  <2> SUFFICES ASSUME Init PROVE ExtractionInv
    OBVIOUS
  <2>1. BreakerInv
    <3>1. now = 0 /\ cooldown_until = 0 /\ Len(asked) = 0
      BY DEF Init
    <3>2. QED
      BY <3>1, BoundsAssumption, ModelsAssumption DEF BreakerInv, AuthCooldown
  <2>2. CallsInv
    <3>1. IsFiniteSet(reading) /\ Cardinality(reading) = 0
      BY FS_EmptySet DEF Init
    <3>2. QED
      BY <3>1, BoundsAssumption DEF Init, CallsInv
  <2>3. AnswersInv
    BY DEF Init, AnswersInv
  <2>4. QED
    BY <2>1, <2>2, <2>3 DEF ExtractionInv
<1>2. ExtractionInv /\ [Next]_vars => ExtractionInv'
  <2>1. ExtractionInv /\ Next => ExtractionInv'
    BY StepKeepsBounds, StepKeepsCalls, StepKeepsAnswers DEF ExtractionInv
  <2>2. ExtractionInv /\ UNCHANGED vars => ExtractionInv'
    BY DEF vars, ExtractionInv, BreakerInv, CallsInv, AnswersInv
  <2>3. QED
    BY <2>1, <2>2
<1>3. QED
  BY <1>1, <1>2, PTL DEF Spec

(***************************************************************************)
(* Type correctness, with what makes a batch one: a result for each item   *)
(* so far, in their order, and counts that add up (batch_processor.py).    *)
(***************************************************************************)
THEOREM ExtractionTypeOK == Spec => []TypeOK
<1>1. ExtractionInv => TypeOK
  <2> SUFFICES ASSUME ExtractionInv PROVE TypeOK
    OBVIOUS
  <2>1. ASSUME batch # None
        PROVE  /\ Len(batch.results) = batch.next - 1
               /\ batch.next \in 1..(Len(batch.items) + 1)
    <3>1. /\ batch.items \in Seq(Scans)
          /\ batch.results \in Seq([index : Nat, success : BOOLEAN])
          /\ batch.next = Len(batch.results) + 1 /\ Len(batch.results) <= Len(batch.items)
      BY <2>1 DEF ExtractionInv, AnswersInv, IsBatchRun, IsResults
    <3>2. Len(batch.items) \in Nat /\ Len(batch.results) \in Nat
      BY <3>1
    <3>3. QED
      BY <3>1, <3>2
  <2>2. ASSUME answer # None, answer.kind = "batch"
        PROVE  /\ Len(answer.results) = Len(answer.items)
               /\ answer.successful_count + answer.failed_count = Len(answer.items)
               /\ \A i \in DOMAIN answer.results : answer.results[i].index = i
    <3>1. /\ IsResults(answer.results)
          /\ Len(answer.results) = Len(answer.items)
          /\ answer.successful_count + answer.failed_count = Len(answer.items)
      BY <2>2 DEF ExtractionInv, AnswersInv, IsAnswer
    <3>2. DOMAIN answer.results = 1..Len(answer.results)
      BY <3>1 DEF IsResults
    <3>3. QED
      BY <3>1, <3>2 DEF IsResults
  <2>3. QED
    BY <2>1, <2>2 DEF ExtractionInv, BreakerInv, CallsInv, TypeOK
<1>2. QED
  BY <1>1, ExtractionInvHolds, PTL

(***************************************************************************)
(* A field that is reported has one source: the MRZ's stay the MRZ's       *)
(* unless the vision API was asked, and no line's date stands for two of   *)
(* the holder's dates (field_extractor.py, llm_fallback.py).               *)
(***************************************************************************)
THEOREM FieldsHaveOneSourceHolds == Spec => []FieldsHaveOneSource
<1>1. ExtractionInv => FieldsHaveOneSource
  <2> SUFFICES ASSUME ExtractionInv, Answered PROVE FieldsHaveOneSource
    BY DEF FieldsHaveOneSource
  <2>1. OneSource(answer.response)
    BY DEF ExtractionInv, AnswersInv, Answered, IsAnswer, IsResponse
  <2>2. QED
    BY <2>1 DEF OneSource, FieldsHaveOneSource, HolderDates
<1>2. QED
  BY <1>1, ExtractionInvHolds, PTL

(***************************************************************************)
(* Of a passport number of one or two letters and digits, every misreading *)
(* of the characters behind the first, or of the first alone, that the     *)
(* check digit shows is answered as the number that was printed            *)
(* (mrz_parser.py).                                                        *)
(***************************************************************************)
THEOREM MisreadingIsRepairedHolds == Spec => []MisreadingIsRepaired
<1>1. ExtractionInv => MisreadingIsRepaired
  BY DEF ExtractionInv, AnswersInv, Answered, IsAnswer, MisreadingIsRepaired
<1>2. QED
  BY <1>1, ExtractionInvHolds, PTL
=============================================================================
