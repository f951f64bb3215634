-------------------------- MODULE ValidationProofs --------------------------
(***************************************************************************)
(* Proofs about ValidationService, for any rule files, any countries and   *)
(* any documents: what a response says, which rules have a result, and how *)
(* the two interpreters and a missing field compare.                       *)
(***************************************************************************)
EXTENDS ValidationService, RecursionLemmas

-----------------------------------------------------------------------------
(***************************************************************************)
(* Selections and responses.                                               *)
(***************************************************************************)
RuleResult == [rule_name : RuleNames, passed : BOOLEAN]

(***************************************************************************)
(* At has the elements at the indices, and is no longer than the sequence. *)
(***************************************************************************)
LEMMA AtElements ==
  ASSUME NEW X, NEW s \in Seq(X), NEW T
  PROVE  /\ At(s, T) \in Seq(X)
         /\ ToSet(At(s, T)) = {s[i] : i \in {j \in DOMAIN s : j \in T}}
         /\ Len(At(s, T)) <= Len(s)
<1> DEFINE m == Len(s)
           seqs == [i \in 1..m |-> IF i \in T THEN <<s[i]>> ELSE <<>>]
<1>1. m \in Nat /\ DOMAIN s = 1..m /\ \A i \in 1..m : s[i] \in X
  BY LenProperties
<1>2. At(s, T) = FlattenSeq(seqs)
  BY <1>1 DEF At
<1> HIDE DEF m
<1>3. \A i \in 1..m : seqs[i] \in Seq(X) /\ Len(seqs[i]) <= 1
  <2> TAKE i \in 1..m
  <2>1. <<s[i]>> \in Seq(X) /\ Len(<<s[i]>>) = 1 /\ <<>> \in Seq(X) /\ Len(<<>>) = 0
    BY <1>1
  <2>2. seqs[i] = IF i \in T THEN <<s[i]>> ELSE <<>>
    OBVIOUS
  <2> HIDE DEF seqs
  <2>3. QED
    BY <2>1, <2>2
<1>4. seqs \in Seq(Seq(X)) /\ Len(seqs) = m
  BY <1>1, <1>3
<1>5. \A i \in 1..m : ToSet(seqs[i]) = IF i \in T THEN {s[i]} ELSE {}
  <2> TAKE i \in 1..m
  <2>1. seqs[i] = IF i \in T THEN <<s[i]>> ELSE <<>>
    OBVIOUS
  <2>2. ToSet(<<s[i]>>) = {s[i]} /\ ToSet(<<>>) = {}
    BY DEF ToSet
  <2> HIDE DEF seqs
  <2>3. QED
    BY <2>1, <2>2
<1> HIDE DEF seqs
<1>6. /\ FlattenSeq(seqs) \in Seq(X)
      /\ ToSet(FlattenSeq(seqs)) = UNION {ToSet(seqs[i]) : i \in 1..m}
  BY <1>4, FlattenedElements
<1>7. Len(FlattenSeq(seqs)) <= m
  BY <1>3, <1>4, FlattenedLength
<1>8. UNION {ToSet(seqs[i]) : i \in 1..m} = {s[i] : i \in {j \in 1..m : j \in T}}
  BY <1>5
<1>9. QED
  BY <1>1, <1>2, <1>6, <1>7, <1>8 DEF m

(***************************************************************************)
(* A response fails when a result of it does, and lists the names of the   *)
(* results that do.                                                        *)
(***************************************************************************)
LEMMA ResponseSays ==
  ASSUME NEW rs \in Seq(RuleResult)
  PROVE  /\ Response(rs).rule_results = rs
         /\ Response(rs).passed <=> \A r \in ToSet(rs) : r.passed
         /\ Response(rs).passed <=> (Response(rs).failed_rules = <<>>)
         /\ Response(rs).passed \in BOOLEAN
         /\ Len(Response(rs).failed_rules) <= Len(rs)
         /\ {Response(rs).failed_rules[k] : k \in DOMAIN Response(rs).failed_rules} =
              {r.rule_name : r \in {q \in ToSet(rs) : ~q.passed}}
<1> DEFINE F == FailedRules(rs)
           names == [i \in DOMAIN F |-> F[i].rule_name]
<1>1. /\ F \in Seq(RuleResult)
      /\ ToSet(F) = {rs[i] : i \in {j \in DOMAIN rs : j \in {i \in DOMAIN rs : ~rs[i].passed}}}
      /\ Len(F) <= Len(rs)
  BY AtElements DEF FailedRules
<1>2. ToSet(F) = {q \in ToSet(rs) : ~q.passed}
  BY <1>1 DEF ToSet
<1>3. /\ Response(rs).rule_results = rs
      /\ Response(rs).passed = (F = <<>>)
      /\ Response(rs).failed_rules = names
  BY DEF Response
<1> HIDE DEF F
<1>4. DOMAIN F = 1..Len(F) /\ Len(F) \in Nat
  BY <1>1
<1>5. F = <<>> <=> ToSet(F) = {}
  <2>1. F = <<>> => ToSet(F) = {}
    BY DEF ToSet
  <2>2. F # <<>> => Len(F) # 0
    BY <1>1, EmptySeq
  <2>3. Len(F) # 0 => F[1] \in ToSet(F)
    BY <1>4 DEF ToSet
  <2>4. QED
    BY <2>1, <2>2, <2>3
<1>6. names \in Seq({F[i].rule_name : i \in DOMAIN F}) /\ Len(names) = Len(F) /\ DOMAIN names = DOMAIN F
  BY <1>4
<1>7. names = <<>> <=> F = <<>>
  BY <1>1, <1>6, EmptySeq
<1>8. {names[k] : k \in DOMAIN names} = {r.rule_name : r \in ToSet(F)}
  BY <1>6, Zenon DEF ToSet
<1>9. F = <<>> <=> \A r \in ToSet(rs) : r.passed
  BY <1>2, <1>5
<1> HIDE DEF names
<1>10. {Response(rs).failed_rules[k] : k \in DOMAIN Response(rs).failed_rules} =
         {r.rule_name : r \in {q \in ToSet(rs) : ~q.passed}}
  BY <1>2, <1>3, <1>8
<1>11. QED
  BY <1>1, <1>3, <1>6, <1>7, <1>9, <1>10

-----------------------------------------------------------------------------
(***************************************************************************)
(* The results of a rule.                                                  *)
(***************************************************************************)
IsResultOf(rule, s) == s = <<>> \/ \E p \in BOOLEAN : s = <<Result(rule, p)>>

LEMMA OneResult ==
  ASSUME NEW rule \in Rule, NEW s, IsResultOf(rule, s)
  PROVE  /\ s \in Seq(RuleResult)
         /\ \A r \in ToSet(s) : r.rule_name = rule.rule_name
<1>1. rule.rule_name \in RuleNames
  BY DEF Rule
<1>2. CASE s = <<>>
  BY <1>2 DEF ToSet
<1>3. CASE s # <<>>
  <2>1. PICK p \in BOOLEAN : s = <<Result(rule, p)>>
    BY <1>3 DEF IsResultOf
  <2>2. Result(rule, p) \in RuleResult /\ Result(rule, p).rule_name = rule.rule_name
    BY <1>1 DEF Result, RuleResult
  <2>3. ToSet(s) = {Result(rule, p)} /\ s \in Seq(RuleResult)
    BY <2>1, <2>2 DEF ToSet
  <2>4. QED
    BY <2>2, <2>3
<1>4. QED
  BY <1>2, <1>3

(***************************************************************************)
(* A rule of any type has at most one result, under its name.              *)
(***************************************************************************)
LEMMA ResultsAreOfTheRule ==
  ASSUME NEW rule \in Rule, NEW map
  PROVE  /\ IsResultOf(rule, BaseResult(rule, map))
         /\ IsResultOf(rule, RegionalResult(rule, map))
         /\ IsResultOf(rule, EndpointResult(rule, map))
<1>1. \A value, condition : EvaluateDateCondition(value, condition) \in BOOLEAN
  BY DEF EvaluateDateCondition
<1>2. \A value, reference : EvaluateCrossDocumentDates(value, reference) \in BOOLEAN
  BY DEF EvaluateCrossDocumentDates
<1>3. \A value : /\ (value # None /\ RegexMatch(value, rule.pattern)) \in BOOLEAN
                 /\ (value # None /\ rule.pattern \in value.exact) \in BOOLEAN
  BY DEF RegexMatch
<1>4. IsResultOf(rule, BaseResult(rule, map))
  BY <1>1, <1>2, <1>3 DEF BaseResult, IsResultOf
<1>5. IsResultOf(rule, RegionalResult(rule, map))
  BY <1>1, <1>3 DEF RegionalResult, IsResultOf
<1>6. IsResultOf(rule, EndpointResult(rule, map))
  BY <1>1, <1>3 DEF EndpointResult, IsResultOf
<1>7. QED
  BY <1>4, <1>5, <1>6

(***************************************************************************)
(* The results of the rules, one after the other, are the rules' results.  *)
(***************************************************************************)
LEMMA ResultsOfRules ==
  ASSUME NEW rules \in Seq(Rule), NEW f,
         f = [i \in DOMAIN rules |-> f[i]],
         \A i \in DOMAIN rules : IsResultOf(rules[i], f[i])
  PROVE  /\ FlattenSeq(f) \in Seq(RuleResult)
         /\ \A r : r \in ToSet(FlattenSeq(f)) <=> \E i \in DOMAIN rules : r \in ToSet(f[i])
<1>1. DOMAIN rules = 1..Len(rules) /\ Len(rules) \in Nat
      /\ \A i \in DOMAIN rules : rules[i] \in Rule
  OBVIOUS
<1>2. \A i \in DOMAIN rules : f[i] \in Seq(RuleResult)
  BY <1>1, OneResult
<1>3. f \in Seq(Seq(RuleResult)) /\ Len(f) = Len(rules)
  BY <1>1, <1>2
<1>4. /\ FlattenSeq(f) \in Seq(RuleResult)
      /\ ToSet(FlattenSeq(f)) = UNION {ToSet(f[i]) : i \in 1..Len(f)}
  BY <1>3, FlattenedElements
<1>5. QED
  BY <1>1, <1>3, <1>4

LEMMA ResultsOfBaseRules ==
  ASSUME NEW rules \in Seq(Rule), NEW map
  PROVE  /\ BaseResults(rules, map) \in Seq(RuleResult)
         /\ \A r : r \in ToSet(BaseResults(rules, map)) <=>
                     \E i \in DOMAIN rules : r \in ToSet(BaseResult(rules[i], map))
<1> DEFINE f == [i \in DOMAIN rules |-> BaseResult(rules[i], map)]
<1>1. \A i \in DOMAIN rules : rules[i] \in Rule /\ f[i] = BaseResult(rules[i], map)
  OBVIOUS
<1>2. \A i \in DOMAIN rules : IsResultOf(rules[i], f[i])
  BY <1>1, ResultsAreOfTheRule
<1>3. f = [i \in DOMAIN rules |-> f[i]]
  OBVIOUS
<1>4. BaseResults(rules, map) = FlattenSeq(f)
  BY DEF BaseResults
<1> HIDE DEF f
<1>5. /\ FlattenSeq(f) \in Seq(RuleResult)
      /\ \A r : r \in ToSet(FlattenSeq(f)) <=> \E i \in DOMAIN rules : r \in ToSet(f[i])
  BY <1>2, <1>3, ResultsOfRules
<1>6. QED
  BY <1>1, <1>4, <1>5

(***************************************************************************)
(* The rules that are executed are some of the country's, and all of them  *)
(* whose name has no result when nothing raises.                           *)
(***************************************************************************)
Executed(rs, rules, map) == UntilRaised(ToExecute(rules, <<>>, rs), map)

LEMMA ExecutedRules ==
  ASSUME NEW rules \in Seq(Rule), NEW map, NEW rs
  PROVE  /\ Executed(rs, rules, map) \in Seq(Rule)
         /\ \A rule \in ToSet(Executed(rs, rules, map)) :
              \E i \in DOMAIN rules : rule = rules[i] /\ rules[i].rule_name \notin Names(rs)
         /\ (\A i \in DOMAIN rules : ~Raises(rules[i], map)) =>
              \A i \in DOMAIN rules :
                rules[i].rule_name \notin Names(rs) => rules[i] \in ToSet(Executed(rs, rules, map))
<1> DEFINE S == ToExecute(rules, <<>>, rs)
           T == {k \in DOMAIN rules : rules[k].rule_name \notin Names(rs)}
           raising == {i \in DOMAIN S : Raises(S[i], map)}
<1>1. S \in Seq(Rule) /\ ToSet(S) = {rules[i] : i \in T}
  <2>1. S = At(rules, T)
    BY DEF ToExecute
  <2>2. {j \in DOMAIN rules : j \in T} = T
    OBVIOUS
  <2> HIDE DEF S, T
  <2>3. QED
    BY <2>1, <2>2, AtElements
<1>2. Executed(rs, rules, map) = IF raising = {} THEN S ELSE SubSeq(S, 1, Min(raising) - 1)
  BY DEF Executed, UntilRaised
<1>3. DOMAIN S = 1..Len(S) /\ Len(S) \in Nat
  BY <1>1
<1> HIDE DEF S
<1>4. \A i \in DOMAIN S : S[i] \in {rules[j] : j \in T}
  BY <1>1 DEF ToSet
<1>5. CASE raising = {}
  <2>1. Executed(rs, rules, map) = S
    BY <1>2, <1>5
  <2>2. QED
    BY <1>1, <2>1
<1>6. CASE raising # {}
  <2>1. raising \subseteq Nat
    BY <1>3
  <2>2. Min(raising) \in raising
    BY <1>6, <2>1, MinOfNaturals
  <2>3. Min(raising) \in 1..Len(S)
    BY <1>3, <2>2
  <2> DEFINE k == Min(raising) - 1
             E == SubSeq(S, 1, k)
  <2>4. k \in Nat /\ k <= Len(S)
    BY <1>3, <2>3
  <2>5. Executed(rs, rules, map) = E
    BY <1>2, <1>6
  <2> HIDE DEF k, raising
  <2>6. E \in Seq(Rule) /\ DOMAIN E = 1..k /\ \A i \in 1..k : E[i] = S[i]
    BY <1>1, <1>3, <2>4
  <2>7. ToSet(E) \subseteq ToSet(S)
    BY <1>3, <2>4, <2>6 DEF ToSet
  <2>8. \E j \in DOMAIN rules : Raises(rules[j], map)
    BY <1>4, <2>2 DEF raising
  <2>9. QED
    BY <1>1, <2>5, <2>6, <2>7, <2>8
<1>7. QED
  BY <1>5, <1>6

-----------------------------------------------------------------------------
(***************************************************************************)
(* The field map.                                                          *)
(***************************************************************************)
CopiesKeep(map, map2) == \A n \in DOMAIN map2 : \E k \in DOMAIN map : map2[n] = map[k]

\* The names of the set are all among the hidden ones, or none of them is.
Together(names, hidden) == names \subseteq hidden \/ names \cap hidden = {}

LEMMA CopiedValues ==
  ASSUME NEW map, NEW names, NEW from
  PROVE  CopiesKeep(map, Copied(map, names, from))
  BY DEF CopiesKeep, Copied

LEMMA CopiesCompose ==
  ASSUME NEW m1, NEW m2, NEW m3, CopiesKeep(m1, m2), CopiesKeep(m2, m3)
  PROVE  CopiesKeep(m1, m3)
  BY DEF CopiesKeep

LEMMA PairedValues ==
  ASSUME NEW map, NEW a, NEW b
  PROVE  CopiesKeep(map, Paired(map, a, b))
  BY CopiedValues, CopiesCompose DEF Paired

(***************************************************************************)
(* Copying a field and hiding fields commute, if the names are hidden      *)
(* together.                                                               *)
(***************************************************************************)
LEMMA CopiedWithout ==
  ASSUME NEW map, NEW names, NEW from, NEW hidden, Together(names \cup {from}, hidden)
  PROVE  Copied(Without(map, hidden), names, from) = Without(Copied(map, names, from), hidden)
<1> DEFINE left == Copied(Without(map, hidden), names, from)
           copy == Copied(map, names, from)
<1>1. CASE from \notin DOMAIN map
  BY <1>1 DEF Copied, Without
<1>2. CASE from \in DOMAIN map /\ from \in hidden
  <2>1. names \subseteq hidden
    BY <1>2 DEF Together
  <2>2. copy = [n \in DOMAIN map \cup names |-> IF n \in DOMAIN map THEN map[n] ELSE map[from]]
    BY <1>2 DEF Copied
  <2>3. (DOMAIN map \cup names) \ hidden = DOMAIN map \ hidden
    BY <2>1
  <2>4. Without(copy, hidden) = [n \in DOMAIN map \ hidden |-> map[n]]
    BY <2>2, <2>3 DEF Without
  <2>5. left = Without(map, hidden)
    BY <1>2 DEF Copied, Without
  <2>6. QED
    BY <2>4, <2>5 DEF Without
<1>3. CASE from \in DOMAIN map /\ from \notin hidden
  <2>1. names \cap hidden = {}
    BY <1>3 DEF Together
  <2>2. copy = [n \in DOMAIN map \cup names |-> IF n \in DOMAIN map THEN map[n] ELSE map[from]]
    BY <1>3 DEF Copied
  <2>3. (DOMAIN map \cup names) \ hidden = (DOMAIN map \ hidden) \cup names
    BY <2>1
  <2>4. Without(copy, hidden) =
          [n \in (DOMAIN map \ hidden) \cup names |-> IF n \in DOMAIN map THEN map[n] ELSE map[from]]
    BY <2>2, <2>3 DEF Without
  <2> DEFINE rest == Without(map, hidden)
  <2>5. rest = [n \in DOMAIN map \ hidden |-> map[n]]
    BY DEF Without
  <2>6. from \in DOMAIN rest /\ DOMAIN rest = DOMAIN map \ hidden /\ rest[from] = map[from]
    BY <1>3, <2>5
  <2>7. left = [n \in DOMAIN rest \cup names |-> IF n \in DOMAIN rest THEN rest[n] ELSE rest[from]]
    BY <2>6 DEF Copied
  <2>8. \A n \in (DOMAIN map \ hidden) \cup names :
          (IF n \in DOMAIN rest THEN rest[n] ELSE rest[from]) =
            (IF n \in DOMAIN map THEN map[n] ELSE map[from])
    BY <2>1, <2>5, <2>6
  <2> HIDE DEF rest
  <2>9. QED
    BY <2>4, <2>6, <2>7, <2>8
<1>4. QED
  BY <1>1, <1>2, <1>3

LEMMA PairedWithout ==
  ASSUME NEW map, NEW a, NEW b, NEW hidden, Together({a, b}, hidden)
  PROVE  Paired(Without(map, hidden), a, b) = Without(Paired(map, a, b), hidden)
<1>1. Together({b} \cup {a}, hidden) /\ Together({a} \cup {b}, hidden)
  BY DEF Together
<1>2. Copied(Without(map, hidden), {b}, a) = Without(Copied(map, {b}, a), hidden)
  BY <1>1, CopiedWithout
<1>3. Copied(Without(Copied(map, {b}, a), hidden), {a}, b) =
        Without(Copied(Copied(map, {b}, a), {a}, b), hidden)
  BY <1>1, CopiedWithout
<1>4. QED
  BY <1>2, <1>3 DEF Paired

LEMMA VoterNumbersWithout ==
  ASSUME NEW map, NEW hidden,
         {"epic_number", "voter_id", "epic_no", "voter_number", "elector_id", "voter_id_number"}
           \cap hidden = {}
  PROVE  PairedVoterNumbers(Without(map, hidden)) = Without(PairedVoterNumbers(map), hidden)
<1> DEFINE With(m, name) == Paired(m, name, "voter_id_number")
<1>1. ASSUME NEW m,
             NEW name \in {"epic_number", "voter_id", "epic_no", "voter_number", "elector_id"}
      PROVE  With(Without(m, hidden), name) = Without(With(m, name), hidden)
  <2>1. Together({name, "voter_id_number"}, hidden)
    BY DEF Together
  <2>2. QED
    BY <2>1, PairedWithout
<1>2. \A m : PairedVoterNumbers(m) =
        With(With(With(With(With(m, "epic_number"), "voter_id"), "epic_no"), "voter_number"),
             "elector_id")
  BY DEF PairedVoterNumbers
<1> HIDE DEF With
<1>3. QED
  BY <1>1, <1>2

LEMMA VoterNumbersValues ==
  ASSUME NEW map
  PROVE  CopiesKeep(map, PairedVoterNumbers(map))
<1> DEFINE With(m, name) == Paired(m, name, "voter_id_number")
<1>1. \A m, name : CopiesKeep(m, With(m, name))
  BY PairedValues
<1>2. PairedVoterNumbers(map) =
        With(With(With(With(With(map, "epic_number"), "voter_id"), "epic_no"), "voter_number"),
             "elector_id")
  BY DEF PairedVoterNumbers
<1> HIDE DEF With
<1>3. \A m, m2, name : CopiesKeep(m, m2) => CopiesKeep(m, With(m2, name))
  BY <1>1, CopiesCompose
<1>4. QED
  BY <1>1, <1>2, <1>3

LEMMA ExpiryWithout ==
  ASSUME NEW map, NEW hidden, Together(ToSet(ExpiryKeys), hidden)
  PROVE  CopiedExpiry(Without(map, hidden)) = Without(CopiedExpiry(map), hidden)
<1> DEFINE Dated(m) == {i \in DOMAIN ExpiryKeys :
                          ExpiryKeys[i] \in DOMAIN m /\ m[ExpiryKeys[i]] # None}
           rest == Without(map, hidden)
           keys == ToSet(ExpiryKeys)
<1>1. \A m : CopiedExpiry(m) = IF Dated(m) = {} THEN m
                               ELSE Copied(m, keys, ExpiryKeys[Min(Dated(m))])
  BY DEF CopiedExpiry
<1>2. DOMAIN ExpiryKeys = 1..3 /\ \A i \in 1..3 : ExpiryKeys[i] \in keys
  BY DEF ExpiryKeys, ToSet
<1>3. DOMAIN rest = DOMAIN map \ hidden /\ \A n \in DOMAIN rest : rest[n] = map[n]
  BY DEF Without
<1>4. ASSUME Dated(map) # {} PROVE ExpiryKeys[Min(Dated(map))] \in keys
  <2>1. Dated(map) \subseteq Nat
    BY <1>2
  <2>2. Min(Dated(map)) \in Dated(map)
    <3> HIDE DEF Dated
    <3> QED
      BY <1>4, <2>1, MinOfNaturals
  <2>3. QED
    BY <1>2, <2>2
<1>5. CASE keys \subseteq hidden
  <2>1. Dated(rest) = {}
    BY <1>2, <1>3, <1>5
  <2>2. CASE Dated(map) = {}
    <3> HIDE DEF Dated
    <3> QED
      BY <1>1, <2>1, <2>2
  <2>3. CASE Dated(map) # {}
    <3> DEFINE from == ExpiryKeys[Min(Dated(map))]
    <3>1. from \in keys
      BY <1>4, <2>3
    <3>2. from \notin DOMAIN rest
      BY <1>3, <1>5, <3>1
    <3> HIDE DEF Dated
    <3>3. CopiedExpiry(rest) = rest
      BY <1>1, <2>1
    <3>4. CopiedExpiry(map) = Copied(map, keys, from)
      BY <1>1, <2>3
    <3> HIDE DEF from
    <3>5. Copied(rest, keys, from) = rest
      BY <3>2 DEF Copied
    <3>6. Together(keys \cup {from}, hidden)
      BY <1>5, <3>1 DEF Together
    <3>7. Copied(rest, keys, from) = Without(Copied(map, keys, from), hidden)
      BY <3>6, CopiedWithout
    <3>8. QED
      BY <3>3, <3>4, <3>5, <3>7
  <2>4. QED
    BY <2>2, <2>3
<1>6. CASE keys \cap hidden = {}
  <2>1. Dated(rest) = Dated(map)
    BY <1>2, <1>3, <1>6
  <2>2. CASE Dated(map) = {}
    <3> HIDE DEF Dated
    <3> QED
      BY <1>1, <2>1, <2>2
  <2>3. CASE Dated(map) # {}
    <3> DEFINE from == ExpiryKeys[Min(Dated(map))]
    <3>1. from \in keys
      BY <1>4, <2>3
    <3> HIDE DEF Dated
    <3>2. CopiedExpiry(rest) = Copied(rest, keys, from) /\ CopiedExpiry(map) = Copied(map, keys, from)
      BY <1>1, <2>1, <2>3
    <3> HIDE DEF from
    <3>3. Together(keys \cup {from}, hidden)
      BY <1>6, <3>1 DEF Together
    <3>4. Copied(rest, keys, from) = Without(Copied(map, keys, from), hidden)
      BY <3>3, CopiedWithout
    <3>5. QED
      BY <3>2, <3>4
  <2>4. QED
    BY <2>2, <2>3
<1>7. QED
  BY <1>5, <1>6 DEF Together

(***************************************************************************)
(* The field map of a document without a field, under any of its names, is *)
(* the document's field map without it.                                    *)
(***************************************************************************)
LEMMA FieldMapWithout ==
  ASSUME NEW fields, NEW hidden \in Aliases
  PROVE  BuildFieldMap(Without(fields, hidden)) = Without(BuildFieldMap(fields), hidden)
<1> DEFINE Numbered(m) == Paired(Paired(PairedVoterNumbers(m), "aadhaar_number", "id_number"),
                                 "driving_license_number", "license_number")
           paired == Paired(fields, "doc_number", "passport_number")
<1>1. /\ Together({"doc_number", "passport_number"}, hidden)
      /\ Together({"aadhaar_number", "id_number"}, hidden)
      /\ Together({"driving_license_number", "license_number"}, hidden)
      /\ {"epic_number", "voter_id", "epic_no", "voter_number", "elector_id", "voter_id_number"}
           \cap hidden = {}
  BY DEF Aliases, Together
<1>2. Together(ToSet(ExpiryKeys), hidden)
  <2>1. ToSet(ExpiryKeys) = {"date_of_expiry", "expiry_date", "valid_until"}
    BY DEF ToSet, ExpiryKeys
  <2>2. QED
    BY <2>1 DEF Aliases, Together
<1>3. Paired(Without(fields, hidden), "doc_number", "passport_number") = Without(paired, hidden)
  BY <1>1, PairedWithout
<1>4. CopiedExpiry(Without(paired, hidden)) = Without(CopiedExpiry(paired), hidden)
  BY <1>2, ExpiryWithout
<1>5. \A m : PairedVoterNumbers(Without(m, hidden)) = Without(PairedVoterNumbers(m), hidden)
  BY <1>1, VoterNumbersWithout
<1>6. \A m : /\ Paired(Without(m, hidden), "aadhaar_number", "id_number") =
                Without(Paired(m, "aadhaar_number", "id_number"), hidden)
             /\ Paired(Without(m, hidden), "driving_license_number", "license_number") =
                Without(Paired(m, "driving_license_number", "license_number"), hidden)
  BY <1>1, PairedWithout
<1>7. \A m : Numbered(Without(m, hidden)) = Without(Numbered(m), hidden)
  BY <1>5, <1>6
<1>8. \A f : BuildFieldMap(f) = Numbered(CopiedExpiry(Paired(f, "doc_number", "passport_number")))
  BY DEF BuildFieldMap
<1> HIDE DEF Numbered
<1>9. QED
  BY <1>3, <1>4, <1>7, <1>8

(***************************************************************************)
(* The field map has no value the document has not.                        *)
(***************************************************************************)
LEMMA FieldMapValues ==
  ASSUME NEW fields
  PROVE  CopiesKeep(fields, BuildFieldMap(fields))
<1> DEFINE m1 == Paired(fields, "doc_number", "passport_number")
           m2 == CopiedExpiry(m1)
           m3 == PairedVoterNumbers(m2)
           m4 == Paired(m3, "aadhaar_number", "id_number")
           m5 == Paired(m4, "driving_license_number", "license_number")
<1>1. BuildFieldMap(fields) = m5
  BY DEF BuildFieldMap
<1>2. CopiesKeep(fields, m1) /\ CopiesKeep(m3, m4) /\ CopiesKeep(m4, m5)
  BY PairedValues
<1>3. CopiesKeep(m1, m2)
  <2>1. \A m : CopiesKeep(m, m)
    BY DEF CopiesKeep
  <2>2. QED
    BY <2>1, CopiedValues DEF CopiedExpiry
<1>4. CopiesKeep(m2, m3)
  BY VoterNumbersValues
<1> HIDE DEF m1, m2, m3, m4, m5
<1>5. QED
  BY <1>1, <1>2, <1>3, <1>4, CopiesCompose

\* What is read from the field map of a document without some names.
LEMMA GetWithout ==
  ASSUME NEW map, NEW hidden
  PROVE  \A n : Get(Without(map, hidden), n) = IF n \in hidden THEN None ELSE Get(map, n)
  BY DEF Get, Without

-----------------------------------------------------------------------------
(***************************************************************************)
(* The results of a document.                                              *)
(***************************************************************************)
LEMMA NamesOfResults ==
  ASSUME NEW rs
  PROVE  Names(rs) = {r.rule_name : r \in ToSet(rs)}
  BY DEF Names, ToSet

LEMMA AddedResults ==
  ASSUME NEW rs \in Seq(RuleResult), NEW own, NEW rules \in Seq(Rule), NEW map
  PROVE  /\ AddRegional(rs, own, rules, map) \in Seq(RuleResult)
         /\ \A r : r \in ToSet(AddRegional(rs, own, rules, map)) <=>
              \/ r \in ToSet(rs)
              \/ \E rule \in ToSet(Executed(rs, rules, map)) : r \in ToSet(RegionalResult(rule, map))
<1> DEFINE E == Executed(rs, rules, map)
           f == [i \in DOMAIN E |-> RegionalResult(E[i], map)]
<1>1. AddRegional(rs, own, rules, map) = rs \o FlattenSeq(f)
  BY DEF AddRegional, Executed, ToExecute
<1>2. E \in Seq(Rule)
  BY ExecutedRules
<1> HIDE DEF E
<1>3. \A i \in DOMAIN E : E[i] \in Rule /\ f[i] = RegionalResult(E[i], map)
  BY <1>2
<1>4. \A i \in DOMAIN E : IsResultOf(E[i], f[i])
  BY <1>3, ResultsAreOfTheRule
<1>5. f = [i \in DOMAIN E |-> f[i]]
  OBVIOUS
<1> HIDE DEF f
<1>6. /\ FlattenSeq(f) \in Seq(RuleResult)
      /\ \A r : r \in ToSet(FlattenSeq(f)) <=> \E i \in DOMAIN E : r \in ToSet(f[i])
  BY <1>2, <1>4, <1>5, ResultsOfRules
<1>7. \A r : r \in ToSet(FlattenSeq(f)) <=> \E rule \in ToSet(E) : r \in ToSet(RegionalResult(rule, map))
  <2>1. ToSet(E) = {E[i] : i \in DOMAIN E}
    BY DEF ToSet
  <2>2. QED
    BY <1>3, <1>6, <2>1
<1>8. /\ rs \o FlattenSeq(f) \in Seq(RuleResult)
      /\ ToSet(rs \o FlattenSeq(f)) = ToSet(rs) \cup ToSet(FlattenSeq(f))
  BY <1>6, ConcatProperties, ElementsOfConcat
<1>9. QED
  BY <1>1, <1>7, <1>8 DEF E

(***************************************************************************)
(* A rule of a document type that fails also fails without some fields,    *)
(* and only a failure makes a result more.                                 *)
(***************************************************************************)
Fails(s) == \E r \in ToSet(s) : ~r.passed

LEMMA BaseResultWithout ==
  ASSUME NEW rule \in Rule, NEW map, NEW hidden
  PROVE  /\ Fails(BaseResult(rule, map)) => Fails(BaseResult(rule, Without(map, hidden)))
         /\ \/ Fails(BaseResult(rule, Without(map, hidden)))
            \/ Names(BaseResult(rule, Without(map, hidden))) = Names(BaseResult(rule, map))
         /\ (rule.field \in hidden /\ rule.rule_type \in {"date_check", "regex_format"})
              => Fails(BaseResult(rule, Without(map, hidden)))
<1> DEFINE rest == Without(map, hidden)
           v == Get(map, rule.field)
           w == Get(rest, rule.field)
           v2 == Get(map, rule.reference_field)
           w2 == Get(rest, rule.reference_field)
<1>1. /\ w = (IF rule.field \in hidden THEN None ELSE v)
      /\ w2 = (IF rule.reference_field \in hidden THEN None ELSE v2)
  BY GetWithout
<1>2. \A p : /\ Fails(<<Result(rule, p)>>) <=> ~p
             /\ Names(<<Result(rule, p)>>) = {rule.rule_name}
  <2> TAKE p
  <2>1. ToSet(<<Result(rule, p)>>) = {Result(rule, p)}
    BY DEF ToSet
  <2>2. QED
    BY <2>1, NamesOfResults DEF Fails, Result
<1>3. ~Fails(<<>>) /\ Names(<<>>) = {}
  BY DEF Fails, ToSet, Names
<1>4. /\ \A c : ~EvaluateDateCondition(None, c)
      /\ \A x : ~EvaluateCrossDocumentDates(None, x) /\ ~EvaluateCrossDocumentDates(x, None)
  BY DEF EvaluateDateCondition, EvaluateCrossDocumentDates
<1> HIDE DEF rest, v, w, v2, w2
<1>5. CASE rule.rule_type = "date_check"
  <2>1. /\ BaseResult(rule, map) = <<Result(rule, EvaluateDateCondition(v, rule.condition))>>
        /\ BaseResult(rule, rest) = <<Result(rule, EvaluateDateCondition(w, rule.condition))>>
    BY <1>5 DEF BaseResult, v, w
  <2>2. QED
    BY <1>1, <1>2, <1>4, <2>1 DEF rest
<1>6. CASE rule.rule_type = "regex_format"
  <2>1. /\ BaseResult(rule, map) = <<Result(rule, v # None /\ RegexMatch(v, rule.pattern))>>
        /\ BaseResult(rule, rest) = <<Result(rule, w # None /\ RegexMatch(w, rule.pattern))>>
    BY <1>6 DEF BaseResult, v, w
  <2>2. QED
    BY <1>1, <1>2, <2>1 DEF rest
<1>7. CASE rule.rule_type = "cross_field" /\ rule.ordered
  <2>1. /\ BaseResult(rule, map) = <<Result(rule, EvaluateCrossDocumentDates(v, v2))>>
        /\ BaseResult(rule, rest) = <<Result(rule, EvaluateCrossDocumentDates(w, w2))>>
    BY <1>7 DEF BaseResult, v, w, v2, w2
  <2>2. QED
    BY <1>1, <1>2, <1>4, <1>7, <2>1 DEF rest
<1>8. CASE rule.rule_type = "cross_field" /\ ~rule.ordered
  <2>1. /\ BaseResult(rule, map) = IF v = None \/ v2 = None THEN <<Result(rule, FALSE)>> ELSE <<>>
        /\ BaseResult(rule, rest) = IF w = None \/ w2 = None THEN <<Result(rule, FALSE)>> ELSE <<>>
    BY <1>8 DEF BaseResult, v, w, v2, w2
  <2>2. QED
    BY <1>1, <1>2, <1>3, <1>8, <2>1 DEF rest
<1>9. CASE rule.rule_type \notin {"date_check", "regex_format", "cross_field"}
  <2>1. BaseResult(rule, map) = BaseResult(rule, rest)
    BY <1>9 DEF BaseResult
  <2>2. QED
    BY <1>9, <2>1 DEF rest
<1>10. QED
  <2>1. rule.ordered \in BOOLEAN
    BY DEF Rule
  <2>2. QED
    BY <2>1, <1>5, <1>6, <1>7, <1>8, <1>9

(***************************************************************************)
(* Without some fields no rule of the country is executed less, its name   *)
(* having no result in either case.                                        *)
(***************************************************************************)
LEMMA ExecutedWithout ==
  ASSUME NEW rules \in Seq(Rule), NEW map, NEW hidden, NEW rs, NEW rs2, Names(rs) = Names(rs2)
  PROVE  ToSet(Executed(rs, rules, map)) \subseteq
           ToSet(Executed(rs2, rules, Without(map, hidden)))
<1> DEFINE S == ToExecute(rules, <<>>, rs)
           rest == Without(map, hidden)
           Raising(m) == {i \in DOMAIN S : Raises(S[i], m)}
           Upto(m) == IF Raising(m) = {} THEN Len(S) ELSE Min(Raising(m)) - 1
<1>1. ToExecute(rules, <<>>, rs2) = S
  BY DEF ToExecute
<1>2. /\ Executed(rs, rules, map) = UntilRaised(S, map)
      /\ Executed(rs2, rules, rest) = UntilRaised(S, rest)
  BY <1>1 DEF Executed
<1>3. S \in Seq(Rule)
  BY AtElements DEF ToExecute
<1> HIDE DEF S
<1>4. DOMAIN S = 1..Len(S) /\ Len(S) \in Nat
  BY <1>3
<1>5. Raising(rest) \subseteq Raising(map)
  BY GetWithout DEF Raises
<1>6. \A m : Raising(m) \subseteq 1..Len(S) /\ Raising(m) \subseteq Nat
  BY <1>4
<1>7. ASSUME NEW m PROVE ToSet(UntilRaised(S, m)) = {S[i] : i \in 1..Upto(m)}
  <2>1. CASE Raising(m) = {}
    BY <1>4, <2>1 DEF UntilRaised, ToSet
  <2>2. CASE Raising(m) # {}
    <3> DEFINE k == Min(Raising(m)) - 1
    <3>1. Min(Raising(m)) \in 1..Len(S)
      <4> HIDE DEF Raising
      <4> QED
        BY <1>6, <2>2, MinOfNaturals
    <3>2. k \in Nat /\ k <= Len(S)
      <4> HIDE DEF Raising
      <4> QED
        BY <1>4, <3>1
    <3>3. UntilRaised(S, m) = SubSeq(S, 1, k) /\ Upto(m) = k
      BY <2>2 DEF UntilRaised
    <3> HIDE DEF k, Upto
    <3>4. DOMAIN SubSeq(S, 1, k) = 1..k /\ \A i \in 1..k : SubSeq(S, 1, k)[i] = S[i]
      BY <1>3, <1>4, <3>2
    <3>5. QED
      BY <3>3, <3>4 DEF ToSet
  <2>3. QED
    BY <2>1, <2>2
<1>8. Upto(map) \in Int /\ Upto(rest) \in Int /\ Upto(map) <= Upto(rest)
  <2> HIDE DEF Raising
  <2>1. ASSUME NEW m, Raising(m) # {} PROVE Min(Raising(m)) \in Raising(m) /\ Min(Raising(m)) \in 1..Len(S)
    BY <1>6, <2>1, MinOfNaturals
  <2>2. CASE Raising(map) = {}
    <3>1. Raising(rest) = {}
      BY <1>5, <2>2
    <3>2. QED
      BY <1>4, <2>2, <3>1
  <2>3. CASE Raising(map) # {} /\ Raising(rest) = {}
    <3>1. Min(Raising(map)) \in 1..Len(S)
      BY <2>1, <2>3
    <3>2. QED
      BY <1>4, <2>3, <3>1
  <2>4. CASE Raising(map) # {} /\ Raising(rest) # {}
    <3>1. /\ Min(Raising(map)) \in 1..Len(S) /\ Min(Raising(rest)) \in 1..Len(S)
          /\ Min(Raising(rest)) \in Raising(map)
      BY <1>5, <2>1, <2>4
    <3>2. Min(Raising(map)) <= Min(Raising(rest))
      BY <1>6, <2>4, <3>1, MinOfNaturals
    <3>3. QED
      BY <1>4, <2>4, <3>1, <3>2
  <2>5. QED
    BY <1>5, <2>2, <2>3, <2>4
<1> HIDE DEF Upto
<1>9. 1..Upto(map) \subseteq 1..Upto(rest)
  BY <1>8
<1>10. QED
  BY <1>2, <1>7, <1>9

-----------------------------------------------------------------------------
(***************************************************************************)
(* The inductive invariant: what has been computed so far is what the      *)
(* rules that were read give on the document, and the country's rules are  *)
(* read only for a document that has a country.                            *)
(***************************************************************************)
Computed == BaseResults(base_rules, BuildFieldMap(document.fields))

ValidationInv ==
  /\ base \in BaseFiles
  /\ regional \in [Countries -> RegionalFiles]
  /\ phase \in {"idle", "base", "regional", "done"}
  /\ document \in Documents
  /\ base_rules \in Seq(Rule) /\ regional_rules \in Seq(Rule)
  /\ LoadRules(regional_rules) = regional_rules
  /\ regional_rules # <<>> => CountryOf(document) \in Countries
  /\ phase # "done" => regional_rules = <<>> /\ response = None
  /\ phase \in {"idle", "base"} => results = <<>>
  /\ phase = "regional" => results = Computed
  /\ phase = "done" =>
       \/ results = <<>> /\ response \in {Unreadable, Unavailable}
       \/ /\ results = AddRegional(Computed, base_rules, regional_rules,
                                   BuildFieldMap(document.fields))
          /\ response = Response(results)

LEMMA LoadedRules ==
  ASSUME NEW file \in BaseFiles \cup RegionalFiles
  PROVE  LoadRules(file) \in Seq(Rule) /\ LoadRules(LoadRules(file)) = LoadRules(file)
  BY FilesAssumption DEF LoadRules

LEMMA NoRulesLoaded == LoadRules(<<>>) = <<>> /\ <<>> \in Seq(Rule)
  BY DEF LoadRules

(***************************************************************************)
(* ValidationInv is invariant: whenever the files are edited, the results  *)
(* are those of the rules that were read, on the document validated.       *)
(***************************************************************************)
THEOREM ValidationInvHolds == Spec => []ValidationInv
<1>1. Init => ValidationInv
  BY NoRulesLoaded DEF Init, ValidationInv
<1>2. ValidationInv /\ [Next]_vars => ValidationInv'
  <2> SUFFICES ASSUME ValidationInv, [Next]_vars PROVE ValidationInv'
    OBVIOUS
  <2>1. CASE EditBaseFile
    BY <2>1 DEF EditBaseFile, ValidationInv, Computed
  <2>2. CASE EditRegionalFile
    BY <2>2 DEF EditRegionalFile, ValidationInv, Computed
  <2>3. CASE ValidationRulesNode
    BY <2>3 DEF ValidationRulesNode, ValidationInv, Computed
  <2>4. CASE EvaluateBaseRules
    <3>1. base \in BaseFiles /\ base_rules' = LoadRules(base)
      BY <2>4 DEF EvaluateBaseRules, ValidationInv
    <3>2. base_rules' \in Seq(Rule)
      BY <3>1, LoadedRules
    <3>3. \/ phase' = "done" /\ response' = Unavailable /\ results' = results
          \/ /\ phase' = "regional" /\ response' = response
             /\ results' = BaseResults(base_rules', BuildFieldMap(document.fields))
      BY <2>4 DEF EvaluateBaseRules
    <3>4. /\ phase = "base"
          /\ UNCHANGED <<base, regional, document, regional_rules>>
      BY <2>4 DEF EvaluateBaseRules
    <3>5. QED
      BY <3>2, <3>3, <3>4 DEF ValidationInv, Computed
  <2>5. CASE EvaluateRegionalRules
    <3>1. /\ phase = "regional" /\ phase' = "done"
          /\ regional_rules' = IF CountryOf(document) \in Countries
                               THEN LoadRules(regional[CountryOf(document)]) ELSE <<>>
          /\ results' = AddRegional(results, base_rules, regional_rules',
                                    BuildFieldMap(document.fields))
          /\ response' = Response(results')
          /\ UNCHANGED <<base, regional, document, base_rules>>
      BY <2>5 DEF EvaluateRegionalRules
    <3>2. /\ regional_rules' \in Seq(Rule) /\ LoadRules(regional_rules') = regional_rules'
          /\ regional_rules' # <<>> => CountryOf(document) \in Countries
      <4>1. CASE CountryOf(document) \in Countries
        <5>1. regional[CountryOf(document)] \in RegionalFiles
          BY <4>1 DEF ValidationInv
        <5>2. QED
          BY <3>1, <4>1, <5>1, LoadedRules
      <4>2. CASE CountryOf(document) \notin Countries
        BY <3>1, <4>2, NoRulesLoaded
      <4>3. QED
        BY <4>1, <4>2
    <3>3. results = Computed
      BY <3>1 DEF ValidationInv
    <3>4. Computed' = Computed /\ CountryOf(document)' = CountryOf(document)
      BY <3>1 DEF Computed
    <3>5. QED
      BY <3>1, <3>2, <3>3, <3>4 DEF ValidationInv
  <2>6. CASE Reply
    BY <2>6, NoRulesLoaded DEF Reply, ValidationInv, Computed
  <2>7. CASE UNCHANGED vars
    BY <2>7 DEF vars, ValidationInv, Computed
  <2>8. QED
    BY <2>1, <2>2, <2>3, <2>4, <2>5, <2>6, <2>7 DEF Next
<1>3. QED
  BY <1>1, <1>2, PTL DEF Spec

(***************************************************************************)
(* The results are results of rules.                                       *)
(***************************************************************************)
LEMMA ResultsTyped ==
  ASSUME ValidationInv
  PROVE  /\ results \in Seq(RuleResult)
         /\ Evaluated =>
              /\ results = AddRegional(Computed, base_rules, regional_rules,
                                       BuildFieldMap(document.fields))
              /\ response = Response(results)
<1>1. Computed \in Seq(RuleResult)
  BY ResultsOfBaseRules DEF ValidationInv, Computed
<1>2. AddRegional(Computed, base_rules, regional_rules, BuildFieldMap(document.fields))
        \in Seq(RuleResult)
  BY <1>1, AddedResults DEF ValidationInv
<1>3. <<>> \in Seq(RuleResult)
  OBVIOUS
<1>4. results \in Seq(RuleResult)
  <2>1. phase \in {"idle", "base", "regional", "done"}
    BY DEF ValidationInv
  <2>2. \/ results = <<>> \/ results = Computed
        \/ results = AddRegional(Computed, base_rules, regional_rules, BuildFieldMap(document.fields))
    BY <2>1 DEF ValidationInv
  <2>3. QED
    BY <1>1, <1>2, <1>3, <2>2
<1>5. Evaluated =>
        /\ results = AddRegional(Computed, base_rules, regional_rules, BuildFieldMap(document.fields))
        /\ response = Response(results)
  BY DEF ValidationInv, Evaluated
<1>6. QED
  BY <1>4, <1>5

(***************************************************************************)
(* TypeOK: a response passes exactly when it lists no failed rule, no      *)
(* result of a response that passes failed, and no more rules are listed   *)
(* as failed than have results, whatever the rules.                        *)
(***************************************************************************)
THEOREM ValidationTypeOK == Spec => []TypeOK
<1>1. ValidationInv => TypeOK
  <2> SUFFICES ASSUME ValidationInv PROVE TypeOK
    OBVIOUS
  <2>1. results \in Seq(RuleResult)
    BY ResultsTyped
  <2>2. Names(results) \subseteq RuleNames
    <3>1. \A i \in DOMAIN results : results[i] \in RuleResult
      BY <2>1
    <3>2. \A i \in DOMAIN results : results[i].rule_name \in RuleNames
      BY <3>1 DEF RuleResult
    <3>3. QED
      BY <3>2 DEF Names
  <2> DEFINE Sound(resp) ==
               /\ resp.passed <=> (resp.failed_rules = <<>>)
               /\ resp.passed => \A i \in DOMAIN resp.rule_results : resp.rule_results[i].passed
               /\ resp # Unavailable => Len(resp.failed_rules) <= Len(resp.rule_results)
  <2>3. Sound(Unreadable)
    <3>1. /\ Unreadable.passed = FALSE
          /\ Unreadable.failed_rules = <<"document_unreadable_no_fields_extracted">>
          /\ Len(Unreadable.failed_rules) = 1 /\ Len(Unreadable.rule_results) = 1
      BY DEF Unreadable
    <3>2. Unreadable.failed_rules # <<>>
      BY <3>1
    <3>3. QED
      BY <3>1, <3>2
  <2>4. Sound(Unavailable)
    <3>1. /\ Unavailable.passed = FALSE
          /\ Unavailable.failed_rules = <<"validation_service_unavailable">>
      BY DEF Unavailable
    <3>2. Unavailable.failed_rules # <<>>
      BY <3>1
    <3>3. QED
      BY <3>1, <3>2
  <2>5. Sound(Response(results))
    <3>1. /\ Response(results).rule_results = results
          /\ Response(results).passed <=> \A r \in ToSet(results) : r.passed
          /\ Response(results).passed <=> (Response(results).failed_rules = <<>>)
          /\ Len(Response(results).failed_rules) <= Len(results)
      BY <2>1, ResponseSays
    <3>2. \A i \in DOMAIN results : results[i] \in ToSet(results)
      BY DEF ToSet
    <3>3. Response(results).passed =>
            \A i \in DOMAIN Response(results).rule_results : Response(results).rule_results[i].passed
      BY <3>1, <3>2
    <3>4. Len(Response(results).failed_rules) <= Len(Response(results).rule_results)
      BY <3>1
    <3>5. QED
      BY <3>1, <3>3, <3>4
  <2>6. response # None => response \in {Unreadable, Unavailable, Response(results)}
    BY DEF ValidationInv
  <2> HIDE DEF Sound
  <2>7. response # None => Sound(response)
    BY <2>3, <2>4, <2>5, <2>6
  <2>8. QED
    BY <2>2, <2>7 DEF TypeOK, ValidationInv, Sound
<1>2. QED
  BY <1>1, ValidationInvHolds, PTL

(***************************************************************************)
(* What an evaluated document's response says.                             *)
(***************************************************************************)
LEMMA EvaluatedResponse ==
  ASSUME ValidationInv, Evaluated
  PROVE  LET map == BuildFieldMap(document.fields) IN
         /\ Computed \in Seq(RuleResult)
         /\ results \in Seq(RuleResult)
         /\ response = Response(results)
         /\ response.rule_results = results
         /\ \A r : r \in ToSet(Computed) <=>
              \E i \in DOMAIN base_rules : r \in ToSet(BaseResult(base_rules[i], map))
         /\ \A r : r \in ToSet(results) <=>
              \/ r \in ToSet(Computed)
              \/ \E rule \in ToSet(Executed(Computed, regional_rules, map)) :
                   r \in ToSet(RegionalResult(rule, map))
<1> DEFINE map == BuildFieldMap(document.fields)
<1>1. base_rules \in Seq(Rule) /\ regional_rules \in Seq(Rule)
  BY DEF ValidationInv
<1>2. /\ results \in Seq(RuleResult)
      /\ results = AddRegional(Computed, base_rules, regional_rules, map)
      /\ response = Response(results)
  BY ResultsTyped
<1> HIDE DEF map
<1>3. /\ Computed \in Seq(RuleResult)
      /\ \A r : r \in ToSet(Computed) <=>
            \E i \in DOMAIN base_rules : r \in ToSet(BaseResult(base_rules[i], map))
  BY <1>1, ResultsOfBaseRules DEF Computed, map
<1>4. \A r : r \in ToSet(results) <=>
        \/ r \in ToSet(Computed)
        \/ \E rule \in ToSet(Executed(Computed, regional_rules, map)) :
             r \in ToSet(RegionalResult(rule, map))
  BY <1>1, <1>2, <1>3, AddedResults
<1>5. response.rule_results = results
  BY <1>2, ResponseSays
<1>6. QED
  BY <1>2, <1>3, <1>4, <1>5 DEF map

(***************************************************************************)
(* NoRuleIsLost: of the rules that were read there is a result, whatever   *)
(* the files name them, with the exceptions that NoRuleIsLost states.      *)
(***************************************************************************)
THEOREM NoRuleIsLostHolds == Spec => []NoRuleIsLost
<1>1. ValidationInv => NoRuleIsLost
  <2> SUFFICES ASSUME ValidationInv, Evaluated PROVE NoRuleIsLost
    BY DEF NoRuleIsLost
  <2> DEFINE map == BuildFieldMap(document.fields)
             executed == Executed(Computed, regional_rules, map)
             names == Names(response.rule_results)
  <2>1. base_rules \in Seq(Rule) /\ regional_rules \in Seq(Rule)
    BY DEF ValidationInv
  <2>2. /\ response.rule_results = results
        /\ \A r : r \in ToSet(Computed) <=>
              \E i \in DOMAIN base_rules : r \in ToSet(BaseResult(base_rules[i], map))
        /\ \A r : r \in ToSet(results) <=>
              \/ r \in ToSet(Computed)
              \/ \E rule \in ToSet(executed) : r \in ToSet(RegionalResult(rule, map))
    BY EvaluatedResponse
  <2>3. names = {r.rule_name : r \in ToSet(results)}
    BY <2>2, NamesOfResults
  <2>4. \A rule, p : Result(rule, p) \in ToSet(<<Result(rule, p)>>) /\ Result(rule, p).rule_name = rule.rule_name
    BY DEF Result, ToSet
  <2> HIDE DEF names, map
  <2>5. ASSUME NEW i \in DOMAIN base_rules,
               base_rules[i].rule_type \in {"date_check", "regex_format", "checksum"}
        PROVE  base_rules[i].rule_name \in names
    <3> DEFINE rule == base_rules[i]
    <3>1. \E p : BaseResult(rule, map) = <<Result(rule, p)>>
      BY <2>5 DEF BaseResult
    <3>2. PICK p : BaseResult(rule, map) = <<Result(rule, p)>>
      BY <3>1
    <3>3. Result(rule, p) \in ToSet(BaseResult(rule, map)) /\ Result(rule, p).rule_name = rule.rule_name
      BY <2>4, <3>2
    <3>4. Result(rule, p) \in ToSet(results)
      BY <2>2, <3>3
    <3>5. QED
      BY <2>3, <3>3, <3>4
  <2>6. ASSUME \A i \in DOMAIN regional_rules : ~Raises(regional_rules[i], map),
               NEW i \in DOMAIN regional_rules,
               \/ regional_rules[i].rule_type = "regex_format"
               \/ regional_rules[i].rule_type = "date_check" /\ Get(map, regional_rules[i].field) # None
        PROVE  regional_rules[i].rule_name \in names
    <3> DEFINE rule == regional_rules[i]
    <3>1. CASE rule.rule_name \in Names(Computed)
      <4>1. PICK r \in ToSet(Computed) : r.rule_name = rule.rule_name
        BY <3>1, NamesOfResults
      <4>2. QED
        BY <2>2, <2>3, <4>1
    <3>2. CASE rule.rule_name \notin Names(Computed)
      <4>1. rule \in ToSet(executed)
        BY <2>1, <2>6, <3>2, ExecutedRules
      <4>2. \E p : RegionalResult(rule, map) = <<Result(rule, p)>>
        BY <2>6 DEF RegionalResult
      <4>3. PICK p : RegionalResult(rule, map) = <<Result(rule, p)>>
        BY <4>2
      <4>4. Result(rule, p) \in ToSet(RegionalResult(rule, map)) /\ Result(rule, p).rule_name = rule.rule_name
        BY <2>4, <4>3
      <4>5. Result(rule, p) \in ToSet(results)
        BY <2>2, <4>1, <4>4
      <4>6. QED
        BY <2>3, <4>4, <4>5
    <3>3. QED
      BY <3>1, <3>2
  <2>7. QED
    BY <2>5, <2>6 DEF NoRuleIsLost, names, map
<1>2. QED
  BY <1>1, ValidationInvHolds, PTL

(***************************************************************************)
(* A rule of a country that fails in the pipeline fails at the endpoint,   *)
(* for a document whose texts match no more than what case and blanks      *)
(* allow.                                                                  *)
(***************************************************************************)
LEMMA EndpointFails ==
  ASSUME NEW doc \in Documents, NEW rule \in Rule,
         Fails(RegionalResult(rule, BuildFieldMap(doc.fields)))
  PROVE  Fails(EndpointResult(rule, BuildFieldMap(doc.fields)))
<1> DEFINE map == BuildFieldMap(doc.fields)
           v == Get(map, rule.field)
<1>1. \A p : Fails(<<Result(rule, p)>>) <=> ~p
  <2> TAKE p
  <2>1. ToSet(<<Result(rule, p)>>) = {Result(rule, p)}
    BY DEF ToSet
  <2>2. QED
    BY <2>1 DEF Fails, Result
<1>2. ~Fails(<<>>)
  BY DEF Fails, ToSet
<1>3. v # None => v.exact \subseteq v.fits
  <2>1. CASE rule.field \in DOMAIN map
    <3>1. PICK k \in DOMAIN doc.fields : map[rule.field] = doc.fields[k]
      BY <2>1, FieldMapValues DEF CopiesKeep
    <3>2. v = doc.fields[k]
      BY <2>1, <3>1 DEF Get
    <3>3. QED
      BY <3>2, DocumentsAssumption
  <2>2. CASE rule.field \notin DOMAIN map
    BY <2>2 DEF Get
  <2>3. QED
    BY <2>1, <2>2
<1>4. Fails(RegionalResult(rule, map))
  OBVIOUS
<1> HIDE DEF map
<1>5. CASE rule.rule_type = "date_check"
  <2>1. /\ RegionalResult(rule, map) =
             IF v = None THEN <<>> ELSE <<Result(rule, EvaluateDateCondition(v, rule.condition))>>
        /\ EndpointResult(rule, map) = <<Result(rule, EvaluateDateCondition(v, rule.condition))>>
    BY <1>5 DEF RegionalResult, EndpointResult
  <2>2. QED
    BY <1>1, <1>2, <1>4, <2>1 DEF map
<1>6. CASE rule.rule_type = "regex_format"
  <2>1. /\ RegionalResult(rule, map) = <<Result(rule, v # None /\ RegexMatch(v, rule.pattern))>>
        /\ EndpointResult(rule, map) = <<Result(rule, v # None /\ rule.pattern \in v.exact)>>
    BY <1>6 DEF RegionalResult, EndpointResult
  <2>2. ~(v # None /\ RegexMatch(v, rule.pattern))
    BY <1>1, <1>4, <2>1
  <2>3. ~(v # None /\ rule.pattern \in v.exact)
    BY <1>3, <2>2 DEF RegexMatch
  <2>4. QED
    BY <1>1, <2>1, <2>3 DEF map
<1>7. CASE rule.rule_type \notin {"date_check", "regex_format"}
  <2>1. RegionalResult(rule, map) = <<>>
    BY <1>7 DEF RegionalResult
  <2>2. QED
    BY <1>2, <1>4, <2>1
<1>8. QED
  BY <1>5, <1>6, <1>7

(***************************************************************************)
(* RegionalEndpointIsStricter: what the endpoint passes has no failed      *)
(* regional rule in the pipeline, for any rules and any documents.         *)
(***************************************************************************)
THEOREM RegionalEndpointIsStricterHolds == Spec => []RegionalEndpointIsStricter
<1>1. ValidationInv => RegionalEndpointIsStricter
  <2> DEFINE map == BuildFieldMap(document.fields)
             f == [j \in DOMAIN regional_rules |-> EndpointResult(regional_rules[j], map)]
  <2> SUFFICES ASSUME ValidationInv, Evaluated,
                      ApplyRegionalRules(regional_rules, document.fields).passed,
                      NEW i \in DOMAIN regional_rules,
                      regional_rules[i].rule_name \notin Names(Computed),
                      regional_rules[i].rule_name \in
                        {response.failed_rules[k] : k \in DOMAIN response.failed_rules}
               PROVE  FALSE
    <3>1. BaseResults(base_rules, BuildFieldMap(document.fields)) = Computed
      BY DEF Computed
    <3>2. QED
      BY <3>1 DEF RegionalEndpointIsStricter
  <2>1. document \in Documents /\ regional_rules \in Seq(Rule)
    BY DEF ValidationInv
  <2>2. regional_rules # <<>>
    OBVIOUS
  <2>3. \A j \in DOMAIN regional_rules : regional_rules[j] \in Rule
    BY <2>1
  <2>4. /\ FlattenSeq(f) \in Seq(RuleResult)
        /\ \A r : r \in ToSet(FlattenSeq(f)) <=>
              \E j \in DOMAIN regional_rules : r \in ToSet(EndpointResult(regional_rules[j], map))
    <3>1. \A j \in DOMAIN regional_rules : f[j] = EndpointResult(regional_rules[j], map)
      OBVIOUS
    <3>2. f = [j \in DOMAIN regional_rules |-> f[j]]
      OBVIOUS
    <3> HIDE DEF f
    <3>3. \A j \in DOMAIN regional_rules : IsResultOf(regional_rules[j], f[j])
      BY <2>3, <3>1, ResultsAreOfTheRule
    <3>4. /\ FlattenSeq(f) \in Seq(RuleResult)
          /\ \A r : r \in ToSet(FlattenSeq(f)) <=> \E j \in DOMAIN regional_rules : r \in ToSet(f[j])
      BY <2>1, <3>2, <3>3, ResultsOfRules
    <3>5. QED
      BY <3>1, <3>4
  <2>5. ApplyRegionalRules(regional_rules, document.fields) = Response(FlattenSeq(f))
    BY <2>2 DEF ApplyRegionalRules
  <2> HIDE DEF f
  <2>6. \A r \in ToSet(FlattenSeq(f)) : r.passed
    BY <2>4, <2>5, ResponseSays
  <2>7. \A j \in DOMAIN regional_rules : ~Fails(EndpointResult(regional_rules[j], map))
    BY <2>4, <2>6 DEF Fails
  <2>8. \A j \in DOMAIN regional_rules : ~Fails(RegionalResult(regional_rules[j], map))
    BY <2>1, <2>3, <2>7, EndpointFails
  <2> HIDE DEF map
  <2>9. /\ results \in Seq(RuleResult)
        /\ response = Response(results)
        /\ \A r : r \in ToSet(results) <=>
              \/ r \in ToSet(Computed)
              \/ \E rule \in ToSet(Executed(Computed, regional_rules, map)) :
                   r \in ToSet(RegionalResult(rule, map))
    BY EvaluatedResponse DEF map
  <2>10. {response.failed_rules[k] : k \in DOMAIN response.failed_rules} =
           {r.rule_name : r \in {q \in ToSet(results) : ~q.passed}}
    <3>1. {Response(results).failed_rules[k] : k \in DOMAIN Response(results).failed_rules} =
            {r.rule_name : r \in {q \in ToSet(results) : ~q.passed}}
      BY <2>9, ResponseSays
    <3>2. QED
      BY <2>9, <3>1, Zenon
  <2>11. PICK r \in ToSet(results) : ~r.passed /\ r.rule_name = regional_rules[i].rule_name
    BY <2>10
  <2>12. r \notin ToSet(Computed)
    BY <2>11, NamesOfResults
  <2>13. PICK rule \in ToSet(Executed(Computed, regional_rules, map)) :
           r \in ToSet(RegionalResult(rule, map))
    BY <2>9, <2>11, <2>12
  <2>14. Fails(RegionalResult(rule, map))
    BY <2>11, <2>13 DEF Fails
  <2>15. \E j \in DOMAIN regional_rules : rule = regional_rules[j]
    BY <2>1, <2>13, ExecutedRules
  <2>16. QED
    BY <2>8, <2>14, <2>15
<1>2. QED
  BY <1>1, ValidationInvHolds, PTL

(***************************************************************************)
(* Without some fields the country of a document is the same, if its       *)
(* nationality is not among them.                                          *)
(***************************************************************************)
LEMMA CountryWithout ==
  ASSUME NEW doc \in Documents, NEW hidden \in Aliases, "nationality" \notin hidden
  PROVE  CountryOf([doc EXCEPT !.fields = Without(@, hidden)]) = CountryOf(doc)
<1> DEFINE doc2 == [doc EXCEPT !.fields = Without(@, hidden)]
           map == BuildFieldMap(doc.fields)
           rest == Without(map, hidden)
           keys == <<"nationality", "country", "issuing_country">>
           Known(m) == {i \in DOMAIN keys : Get(m, keys[i]) # None}
<1>1. doc2.fields = Without(doc.fields, hidden) /\ doc2.domestic = doc.domestic
  BY DocumentsAssumption
<1>2. BuildFieldMap(doc2.fields) = rest
  BY <1>1, FieldMapWithout
<1>3. \A i \in DOMAIN keys : keys[i] \notin hidden
  BY DEF Aliases
<1>4. \A i \in DOMAIN keys : Get(rest, keys[i]) = Get(map, keys[i])
  BY <1>3, GetWithout
<1>5. Known(rest) = Known(map)
  BY <1>4
<1>6. Known(map) # {} => Min(Known(map)) \in DOMAIN keys
  <2> SUFFICES ASSUME Known(map) # {} PROVE Min(Known(map)) \in DOMAIN keys
    OBVIOUS
  <2>1. Known(map) \subseteq Nat /\ Known(map) \subseteq DOMAIN keys
    OBVIOUS
  <2> HIDE DEF Known
  <2>2. QED
    BY <2>1, MinOfNaturals
<1>7. \A m : Nationality(m) = IF Known(m) = {} THEN None ELSE Get(m, keys[Min(Known(m))])
  BY DEF Nationality
<1> HIDE DEF Known, keys, map, rest, doc2
<1>8. Nationality(rest) = Nationality(map)
  BY <1>4, <1>5, <1>6, <1>7
<1>9. QED
  BY <1>1, <1>2, <1>8 DEF CountryOf, map, doc2

(***************************************************************************)
(* MissingFieldNeverHelps: a document that fails fails without any of its  *)
(* fields, too, for any rules that demand the fields the country's rules   *)
(* look at.                                                                *)
(***************************************************************************)
THEOREM MissingFieldNeverHelpsHolds == Spec => []MissingFieldNeverHelps
<1>1. ValidationInv => MissingFieldNeverHelps
  <2> DEFINE Demands(field) ==
               \E i \in DOMAIN base_rules :
                 base_rules[i].field = field
                   /\ base_rules[i].rule_type \in {"date_check", "regex_format"}
             Without2(names) == [document EXCEPT !.fields = Without(@, names)]
             national == [c \in Countries |-> regional_rules]
             map == BuildFieldMap(document.fields)
  <2> SUFFICES ASSUME ValidationInv, Evaluated, ~response.passed,
                      NEW names \in Aliases,
                      \A n \in names \cap ({"nationality"} \cup
                          {regional_rules[i].field : i \in DOMAIN regional_rules}) : Demands(n),
                      Validated(base_rules, national, Without2(names)).passed
               PROVE  FALSE
    BY DEF MissingFieldNeverHelps
  <2> DEFINE rest == Without(map, names)
             doc2 == Without2(names)
             base2 == BaseResults(base_rules, rest)
             read == IF CountryOf(doc2) \in Countries THEN LoadRules(national[CountryOf(doc2)]) ELSE <<>>
             results2 == AddRegional(base2, base_rules, read, rest)
  <2>1. /\ document \in Documents
        /\ base_rules \in Seq(Rule) /\ regional_rules \in Seq(Rule)
        /\ LoadRules(regional_rules) = regional_rules
        /\ regional_rules # <<>> => CountryOf(document) \in Countries
    BY DEF ValidationInv
  <2>2. BuildFieldMap(doc2.fields) = rest
    <3>1. doc2.fields = Without(document.fields, names)
      BY <2>1, DocumentsAssumption
    <3>2. QED
      BY <3>1, FieldMapWithout
  <2>3. Validated(base_rules, national, doc2) = Response(results2)
    BY <2>2 DEF Validated
  <2>4. read \in Seq(Rule)
    BY <2>1, NoRulesLoaded
  <2> HIDE DEF read
  <2>5. /\ base2 \in Seq(RuleResult)
        /\ \A r : r \in ToSet(base2) <=>
              \E i \in DOMAIN base_rules : r \in ToSet(BaseResult(base_rules[i], rest))
    BY <2>1, ResultsOfBaseRules
  <2> HIDE DEF base2, rest
  <2>6. /\ results2 \in Seq(RuleResult)
        /\ \A r : r \in ToSet(results2) <=>
              \/ r \in ToSet(base2)
              \/ \E rule \in ToSet(Executed(base2, read, rest)) : r \in ToSet(RegionalResult(rule, rest))
    BY <2>4, <2>5, AddedResults
  <2> HIDE DEF results2, Without2, national
  <2>7. \A r \in ToSet(results2) : r.passed
    BY <2>3, <2>6, ResponseSays
  <2>8. \A i \in DOMAIN base_rules : ~Fails(BaseResult(base_rules[i], rest))
    BY <2>5, <2>6, <2>7 DEF Fails
  <2>9. \A rule \in ToSet(Executed(base2, read, rest)) : ~Fails(RegionalResult(rule, rest))
    BY <2>6, <2>7 DEF Fails
  <2>10. ASSUME NEW i \in DOMAIN base_rules
         PROVE  /\ ~Fails(BaseResult(base_rules[i], map))
                /\ Names(BaseResult(base_rules[i], map)) = Names(BaseResult(base_rules[i], rest))
                /\ ~(base_rules[i].field \in names
                       /\ base_rules[i].rule_type \in {"date_check", "regex_format"})
    <3>1. base_rules[i] \in Rule
      BY <2>1
    <3> HIDE DEF map
    <3>2. QED
      BY <2>8, <3>1, BaseResultWithout DEF rest
  <2>11. \A n \in names : ~Demands(n)
    BY <2>10
  <2> HIDE DEF Demands, map
  <2>12. "nationality" \notin names /\ \A i \in DOMAIN regional_rules : regional_rules[i].field \notin names
    BY <2>11
  <2>13. /\ results \in Seq(RuleResult) /\ response = Response(results)
         /\ \A r : r \in ToSet(Computed) <=>
              \E i \in DOMAIN base_rules : r \in ToSet(BaseResult(base_rules[i], map))
         /\ \A r : r \in ToSet(results) <=>
              \/ r \in ToSet(Computed)
              \/ \E rule \in ToSet(Executed(Computed, regional_rules, map)) :
                   r \in ToSet(RegionalResult(rule, map))
    BY EvaluatedResponse DEF map
  <2>14. PICK r \in ToSet(results) : ~r.passed
    BY <2>13, ResponseSays
  <2>15. r \notin ToSet(Computed)
    BY <2>10, <2>13, <2>14 DEF Fails
  <2>16. PICK rule \in ToSet(Executed(Computed, regional_rules, map)) : r \in ToSet(RegionalResult(rule, map))
    BY <2>13, <2>14, <2>15
  <2>17. PICK j \in DOMAIN regional_rules : rule = regional_rules[j]
    BY <2>1, <2>16, ExecutedRules
  <2>18. read = regional_rules
    <3>1. CountryOf(doc2) = CountryOf(document)
      BY <2>1, <2>12, CountryWithout DEF Without2
    <3>2. CountryOf(document) \in Countries
      BY <2>1, <2>17
    <3>3. QED
      BY <2>1, <3>1, <3>2 DEF read, national
  <2>19. Names(Computed) = Names(base2)
    <3>1. \A rs : Names(rs) = {q.rule_name : q \in ToSet(rs)}
      BY NamesOfResults
    <3>2. \A n : n \in Names(Computed) <=>
                  \E i \in DOMAIN base_rules : n \in Names(BaseResult(base_rules[i], map))
      BY <2>13, <3>1
    <3>3. \A n : n \in Names(base2) <=>
                  \E i \in DOMAIN base_rules : n \in Names(BaseResult(base_rules[i], rest))
      BY <2>5, <3>1
    <3>4. \A n : n \in Names(Computed) <=> n \in Names(base2)
      BY <2>10, <3>2, <3>3
    <3>5. QED
      BY <3>4
  <2>20. rule \in ToSet(Executed(base2, read, rest))
    BY <2>1, <2>16, <2>18, <2>19, ExecutedWithout DEF rest
  <2>21. RegionalResult(rule, rest) = RegionalResult(rule, map)
    <3>1. Get(rest, rule.field) = Get(map, rule.field)
      BY <2>12, <2>17, GetWithout DEF rest
    <3>2. QED
      BY <3>1 DEF RegionalResult
  <2>22. QED
    BY <2>9, <2>14, <2>16, <2>20, <2>21 DEF Fails
<1>2. QED
  BY <1>1, ValidationInvHolds, PTL
=============================================================================
