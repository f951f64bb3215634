----------------------------- MODULE MrzParsing -----------------------------
(***************************************************************************)
(* mrz_parser.py: finding the machine readable zone among the text lines   *)
(* of a scan, its check digits, and the repair of characters that OCR      *)
(* confuses.                                                               *)
(*                                                                         *)
(* A line of text has in "mrz" None or what the parser sees in it: its     *)
(* "shape", a subset of {"card", "opens", "dated", "closes", "weak_first", *)
(* "weak_second", "short"}, and the parts it holds.  A line is "dated"     *)
(* when it has a birth date, a sex and an expiry date in a row; such a     *)
(* line "closes", and so does a number followed by a country and a date.   *)
(* A number or a date is the sequence of its characters with the check     *)
(* digit read behind it, None when that is no digit; of a date only the    *)
(* year is kept.                                                           *)
(***************************************************************************)
EXTENDS Integers, Sequences, SequencesExt, FiniteSets

CONSTANT None

\* A digit that was read is not None.
ASSUME NoneAssumption == None \notin 0..9

Alphabet ==
  <<"0", "1", "2", "3", "4", "5", "6", "7", "8", "9", "A", "B", "C", "D", "E", "F", "G", "H",
    "I", "J", "K", "L", "M", "N", "O", "P", "Q", "R", "S", "T", "U", "V", "W", "X", "Y", "Z">>

Digits == {Alphabet[i] : i \in 1..10}

Letters == {Alphabet[i] : i \in 11..36}

Characters == Digits \cup Letters \cup {"<"}

\* _CHAR_VALUES, and 0 for any other character
CharValue ==
  [c \in Characters |->
     IF c = "<" THEN 0 ELSE (CHOOSE i \in DOMAIN Alphabet : Alphabet[i] = c) - 1]

Weight(i) == CASE i % 3 = 1 -> 7 [] i % 3 = 2 -> 3 [] OTHER -> 1

ComputeCheckDigit(field) ==
  LET total[n \in Nat] ==
        IF n \notin DOMAIN field THEN 0 ELSE total[n - 1] + CharValue[field[n]] * Weight(n)
  IN  total[Len(field)] % 10

ValidateCheckDigit(field, digit) == digit # None /\ ComputeCheckDigit(field) = digit

-----------------------------------------------------------------------------
CharCorrections ==
  [c \in {"2", "0", "1", "8", "5", "4", "6"} |->
     CASE c = "2" -> "Z" [] c = "0" -> "O" [] c = "1" -> "I" [] c = "8" -> "B"
       [] c = "5" -> "S" [] c = "4" -> "A" [] OTHER -> "G"]

DigitCorrections ==
  [c \in {"O", "I", "Z", "S", "B", "A", "Q", "D"} |->
     CASE c = "I" -> "1" [] c = "Z" -> "2" [] c = "S" -> "5" [] c = "B" -> "8"
       [] c = "A" -> "4" [] OTHER -> "0"]

Replace(c, table) == IF c \in DOMAIN table THEN table[c] ELSE c

FirstAsLetter(field) == [field EXCEPT ![1] = Replace(@, CharCorrections)]

DigitsFrom(field, k) ==
  [i \in DOMAIN field |-> IF i < k THEN field[i] ELSE Replace(field[i], DigitCorrections)]

(***************************************************************************)
(* Mutant: a prefix has one letter.                                        *)
(***************************************************************************)
NumberCandidatesOneLetter(field) ==
  <<FirstAsLetter(field), DigitsFrom(field, 2), DigitsFrom(field, 1)>>

\* A letter read as a digit in front, or digits read as letters behind a
\* prefix of one, two or no letters.
NumberCandidates(field) ==
  <<FirstAsLetter(field), DigitsFrom(field, 2), DigitsFrom(field, 3), DigitsFrom(field, 1)>>

DateCandidates(field) == <<DigitsFrom(field, 1)>>

\* The field as read, if neither it nor a candidate agrees with the digit.
Repaired(field, digit, candidates) ==
  LET tried == <<field>> \o candidates
      fitting == {i \in DOMAIN tried : ValidateCheckDigit(tried[i], digit)}
  IN  IF fitting = {} THEN field ELSE tried[Min(fitting)]

(***************************************************************************)
(* _mrz_date_to_dmy: expiry years from 1975 to 2074, birth years from 1927 *)
(* to 2026; what is no number stays as it is.                              *)
(***************************************************************************)
MrzDate(field, is_expiry) ==
  LET yy == 10 * CharValue[field[1]] + CharValue[field[2]]
      pivot == IF is_expiry THEN 74 ELSE 26
  IN  [text |-> field,
       year |-> IF ToSet(field) \subseteq Digits
                THEN (IF yy <= pivot THEN 2000 ELSE 1900) + yy ELSE None]

-----------------------------------------------------------------------------
Absent == [present |-> FALSE, failures |-> {}, fields |-> [n \in {} |-> None]]

ChecksumValid(mrz) == mrz.present /\ mrz.failures = {}

(***************************************************************************)
(* The part the three formats share: check digits and fields, "numbers"    *)
(* being the names the format gives the document number.  A sex that       *)
(* cannot be read is "M".                                                  *)
(***************************************************************************)
MrzResult(numbers, number, dob, expiry, sex, holder, nationality) ==
  LET failing(name, field) == IF ValidateCheckDigit(field.text, field.digit) THEN {} ELSE {name}
      value(n) ==
        CASE n \in numbers -> number.text
          [] n = "date_of_birth" -> MrzDate(dob.text, FALSE)
          [] n = "date_of_expiry" -> MrzDate(expiry.text, TRUE)
          [] n = "gender" -> <<IF sex = None THEN "M" ELSE sex>>
          [] n = "name" -> <<holder.given, holder.surname>>
          [] n = "surname" -> <<holder.surname>>
          [] n = "given_names" -> <<holder.given>>
          [] OTHER -> <<nationality>>
      absent == {n \in {"name", "surname", "given_names", "nationality"} :
                   ToSet(value(n)) \subseteq {None}}
  IN  [present |-> TRUE,
       failures |-> failing("doc_number", number) \cup failing("date_of_birth", dob)
                      \cup failing("expiry_date", expiry),
       fields |-> [n \in (numbers \cup {"name", "surname", "given_names", "nationality",
                                        "gender", "date_of_birth", "date_of_expiry"}) \ absent |-> value(n)]]

(***************************************************************************)
(* A nationality with digits in it is replaced by the issuing country, or  *)
(* its digits by letters.                                                  *)
(***************************************************************************)
RecoveredNationality(nationality, issuing) ==
  IF ~nationality.has_digit THEN nationality.code
  ELSE IF issuing # None THEN issuing ELSE nationality.lettered

ParseTD3(first, second) ==
  MrzResult({"doc_number", "passport_number"},
            [second.number EXCEPT !.text = Repaired(@, second.number.digit, NumberCandidates(@))],
            [second.dob EXCEPT !.text = Repaired(@, second.dob.digit, DateCandidates(@))],
            [second.expiry EXCEPT !.text = Repaired(@, second.expiry.digit, DateCandidates(@))],
            second.sex, first.holder, RecoveredNationality(second.nationality, first.issuing))

ParseTD2(first, second) ==
  MrzResult({"doc_number", "visa_number", "passport_number"}, second.number, second.dob,
            second.expiry, second.sex, first.holder, second.nationality.code)

ParseTD1(first, second, third) ==
  MrzResult({"doc_number", "id_number"}, first.number, second.dob, second.expiry, second.sex,
            third.holder,
            IF second.nationality.code # None THEN second.nationality.code ELSE first.issuing)

-----------------------------------------------------------------------------
(***************************************************************************)
(* Three lines of a card's length, one of them dated, are a card.  Else    *)
(* line 1 is the first line that opens a zone, line 2 the last other line  *)
(* that closes one; the weaker signs count when one of them is missing.    *)
(***************************************************************************)
ParseMrzFromTextLines(lines) ==
  LET Is(i, shape) == lines[i].mrz # None /\ shape \in lines[i].mrz.shape
      Having(shape) == {i \in DOMAIN lines : Is(i, shape)}
      card == SetToSortSeq(Having("card"), <)
      opening == IF Having("opens") = {} THEN 0 ELSE Min(Having("opens"))
      closing == IF Having("closes") \ {opening} = {} THEN 0 ELSE Max(Having("closes") \ {opening})
      line1 == IF opening # 0 \/ Having("weak_first") = {} THEN opening
               ELSE Min(Having("weak_first"))
      weaker == Having("weak_second") \ (IF opening = 0 THEN {line1} ELSE {})
      line2 == IF closing # 0 \/ weaker = {} THEN closing ELSE Min(weaker)
  IN  IF Cardinality(Having("card")) >= 3 /\ Having("card") \cap Having("dated") # {}
      THEN ParseTD1(lines[card[1]].mrz, lines[card[2]].mrz, lines[card[3]].mrz)
      ELSE IF line1 = 0 \/ line2 = 0 THEN Absent
      ELSE IF Is(line1, "short") /\ Is(line2, "short")
           THEN ParseTD2(lines[line1].mrz, lines[line2].mrz)
           ELSE ParseTD3(lines[line1].mrz, lines[line2].mrz)

(***************************************************************************)
(* parse_mrz: PassportEye reads the zone itself when the lines have none.  *)
(***************************************************************************)
ParseMrz(lines, passport_eye) ==
  IF ParseMrzFromTextLines(lines).present THEN ParseMrzFromTextLines(lines)
  ELSE ParseMrzFromTextLines(passport_eye)
=============================================================================
