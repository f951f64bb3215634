--------------------------- MODULE FieldExtraction --------------------------
(***************************************************************************)
(* classifier.py and field_extractor.py: the document type, and the fields *)
(* of the visual zone, from the text lines of a scan.                      *)
(*                                                                         *)
(* A line is abstracted to the keywords in it that tell document types     *)
(* apart ("words"), the labels it has, the text it holds for a field       *)
(* ("finds"), the text it has for a label on the line before ("follows"),  *)
(* its dates, and what the MRZ parser sees in it.  A date has a year when  *)
(* it splits in three at "/" or "-".                                       *)
(***************************************************************************)
EXTENDS MrzParsing

DocumentType ==
  <<"passport", "visa", "national_id", "driving_license", "permit", "ferry_ticket", "pan_card",
    "voter_id">>

\* A field and where it comes from: a line, or one of these.
Printed == 0
Mrz == -1
Llm == -2

Field(value, source) == [value |-> value, source |-> source]

\* The fields of both, those of first where both have one.
Over(first, second) ==
  [f \in DOMAIN first \cup DOMAIN second |-> IF f \in DOMAIN first THEN first[f] ELSE second[f]]

-----------------------------------------------------------------------------
(***************************************************************************)
(* DOCTYPE_KEYWORDS and the number patterns, in tenths, by one keyword of  *)
(* each type: what a text that has it scores for each type.                *)
(***************************************************************************)
Scores ==
  [w \in {"PASSPORT", "VISA", "AADHAAR", "GOVERNMENT OF INDIA", "DRIVING LICENCE", "BORDER PASS",
          "FERRY", "INCOME TAX DEPARTMENT", "ELECTION COMMISSION", "epic_pattern"} |->
     [t \in ToSet(DocumentType) |->
        CASE w = "PASSPORT" /\ t = "passport" -> 40
          [] w = "VISA" /\ t = "visa" -> 40
          [] w = "AADHAAR" /\ t = "national_id" -> 50
          [] w = "GOVERNMENT OF INDIA" /\ t = "national_id" -> 30
          [] w = "GOVERNMENT OF INDIA" /\ t = "pan_card" -> 25
          [] w = "DRIVING LICENCE" /\ t = "driving_license" -> 90
          [] w = "BORDER PASS" /\ t = "permit" -> 40
          [] w = "FERRY" /\ t = "ferry_ticket" -> 40
          [] w = "INCOME TAX DEPARTMENT" /\ t = "pan_card" -> 150
          [] w = "ELECTION COMMISSION" /\ t = "voter_id" -> 140
          [] w = "epic_pattern" /\ t = "voter_id" -> 100
          [] OTHER -> 0]]

(***************************************************************************)
(* A voter number is no sign of a voter id in a text with an MRZ; a text   *)
(* that says "ELECTION COMMISSION" has scored for it already.              *)
(***************************************************************************)
Evidence(lines) ==
  LET words == UNION {lines[i].words : i \in DOMAIN lines}
      mrz == "PASSPORT" \in words \/ \E i \in DOMAIN lines : lines[i].mrz # None
  IN  IF mrz \/ "ELECTION COMMISSION" \in words THEN words \ {"epic_pattern"} ELSE words

MrzScore(line, type) ==
  IF line.mrz = None \/ line.mrz.type # type THEN 0
  ELSE IF type = "national_id" THEN 40 ELSE 50

(***************************************************************************)
(* The first type with the highest score.                                  *)
(***************************************************************************)
ClassifyDocument(scan) ==
  LET score(t) ==
        FoldSet(LAMBDA w, total : total + Scores[w][t], 0, Evidence(scan.lines))
          + FoldLeft(LAMBDA total, l : total + MrzScore(l, t), 0, scan.lines)
          + (IF scan.elongated /\ t = "ferry_ticket" THEN 10 ELSE 0)
      best == CHOOSE i \in DOMAIN DocumentType :
                /\ \A j \in DOMAIN DocumentType :
                     score(DocumentType[j]) <= score(DocumentType[i])
                /\ \A j \in 1..(i - 1) : score(DocumentType[j]) < score(DocumentType[i])
  IN  IF score(DocumentType[best]) > 0 THEN DocumentType[best]
      ELSE IF scan.four_digits THEN "national_id" ELSE "passport"

-----------------------------------------------------------------------------
\* What line i has for a field, itself or by a label and the next line.
Text(lines, i, field) ==
  IF field \in DOMAIN lines[i].finds THEN lines[i].finds[field]
  ELSE IF field \in lines[i].labels /\ i < Len(lines) /\ field \in DOMAIN lines[i + 1].follows
       THEN lines[i + 1].follows[field] ELSE None

LinesWith(lines, field) == {i \in DOMAIN lines : Text(lines, i, field) # None}

FirstFound(lines, fields) ==
  [f \in {g \in fields : LinesWith(lines, g) # {}} |->
     LET i == Min(LinesWith(lines, f)) IN Field(Text(lines, i, f), i)]

(***************************************************************************)
(* The fields of one document type; two authorities are printed unread.    *)
(***************************************************************************)
DocumentFields(type) ==
  CASE type = "passport" -> {"passport_number"}
    [] type = "visa" -> {"passport_number", "visa_number", "visa_type", "stay_duration"}
    [] type = "national_id" -> {"id_number", "issuing_authority"}
    [] type = "driving_license" -> {"license_number", "vehicle_class", "issuing_authority"}
    [] type = "permit" -> {"permit_number", "permit_type", "issuing_authority", "valid_until"}
    [] type = "ferry_ticket" -> {"ticket_number", "route", "vessel_name"}
    [] type = "pan_card" -> {"pan_number"}
    [] OTHER -> {"voter_id_number"}

NumberFields(lines, type) ==
  IF type \in {"pan_card", "voter_id"}
  THEN Over([f \in {"issuing_authority"} |-> Field(type, Printed)],
            FirstFound(lines, DocumentFields(type)))
  ELSE FirstFound(lines, DocumentFields(type))

-----------------------------------------------------------------------------
(***************************************************************************)
(* Dates.  The first of these labels on a line is the one that counts; it  *)
(* takes the first date of its line or, if that has none, of the next,     *)
(* which is then skipped.                                                  *)
(***************************************************************************)
DateLabels == <<"date_of_expiry", "date_of_birth", "travel_date", "entry_validity", "date_of_issue">>

DateLabel(line) ==
  LET present == {k \in DOMAIN DateLabels : DateLabels[k] \in line.labels}
  IN  IF present = {} THEN None ELSE DateLabels[Min(present)]

TargetDate(lines, i) ==
  IF lines[i].dates # <<>> THEN Field(lines[i].dates[1], i)
  ELSE IF i < Len(lines) /\ lines[i + 1].dates # <<>> THEN Field(lines[i + 1].dates[1], i + 1)
  ELSE None

(***************************************************************************)
(* Mutant: the next line is not skipped.                                   *)
(***************************************************************************)
DateStepAgain(lines, found, i) ==
  LET target == TargetDate(lines, i)
      label == DateLabel(lines[i])
  IN  IF target = None THEN found
      ELSE IF label # None THEN [found EXCEPT !.labelled = Over([l \in {label} |-> target], @)]
      ELSE IF target.source = i THEN [found EXCEPT !.unlabelled = @ \cup {target}]
      ELSE found

DateStep(lines, found, i) ==
  LET target == TargetDate(lines, i)
      label == DateLabel(lines[i])
  IN  IF target = None \/ i = found.skip THEN found
      ELSE IF label # None
           THEN [found EXCEPT !.labelled = Over([l \in {label} |-> target], @),
                              !.skip = IF target.source = i THEN @ ELSE i + 1]
      ELSE IF target.source = i THEN [found EXCEPT !.unlabelled = @ \cup {target}]
      ELSE found

\* What has been found after the last line, line by line.
DatesFound(lines) ==
  LET found[n \in Nat] ==
        IF n \notin DOMAIN lines
        THEN [labelled |-> [l \in {} |-> None], unlabelled |-> {}, skip |-> 0]
        ELSE DateStep(lines, found[n - 1], n)
  IN  found[Len(lines)]

\* The order of two dates: by year, and as they were found.
Earlier(a, b) ==
  a.value.year < b.value.year \/ (a.value.year = b.value.year /\ a.source < b.source)

(***************************************************************************)
(* The fields the labels give, "valid_until" repeating the expiry, and,    *)
(* for what they leave open, the earliest and the latest other date; the   *)
(* date of issue is read for nothing else than not to be one of those.     *)
(***************************************************************************)
DateFields(lines, type) ==
  LET found == DatesFound(lines)
      labelled ==
        [f \in {g \in {"date_of_birth", "date_of_expiry", "travel_date", "entry_validity",
                       "valid_until"} :
                  (IF g = "valid_until" THEN "date_of_expiry" ELSE g) \in DOMAIN found.labelled} |->
           found.labelled[IF f = "valid_until" THEN "date_of_expiry" ELSE f]]
      taken == {found.labelled[l].value.text : l \in DOMAIN found.labelled}
      others == {d \in found.unlabelled : d.value.text \notin taken /\ d.value.year # None}
      first == CHOOSE d \in others : \A e \in others : ~Earlier(e, d)
      last == CHOOSE d \in others : \A e \in others : ~Earlier(d, e)
      open(f) == f \notin DOMAIN labelled
      guessed ==
        {f \in {"date_of_birth", "date_of_expiry", "travel_date"} :
           /\ others # {}
           /\ open("date_of_birth") \/ open("date_of_expiry")
           /\ CASE f = "date_of_birth" -> type # "ferry_ticket"
                [] f = "date_of_expiry" ->
                     Cardinality(others) > 1 /\ type \in {"passport", "driving_license", "permit"}
                [] OTHER -> type = "ferry_ticket"}
  IN  Over(labelled, [f \in guessed |-> IF f = "date_of_expiry" THEN last ELSE first])

-----------------------------------------------------------------------------
(***************************************************************************)
(* Names.  The last line that names one counts; a "name" that is no        *)
(* relative's replaces the given names, but not on a passport.             *)
(***************************************************************************)
GivenNames(lines, i, type) ==
  IF type # "passport" /\ "relation" \notin lines[i].labels /\ Text(lines, i, "name") # None
  THEN Text(lines, i, "name") ELSE Text(lines, i, "given_names")

NameFields(lines, type) ==
  LET surnames == LinesWith(lines, "surname")
      given == {i \in DOMAIN lines : GivenNames(lines, i, type) # None}
      name == <<IF given = {} THEN None ELSE GivenNames(lines, Max(given), type),
                IF surnames = {} THEN None ELSE Text(lines, Max(surnames), "surname")>>
  IN  IF given \cup surnames = {} THEN FirstFound(lines, {"father_name"})
      ELSE Over([f \in {"name"} |-> Field(name, Max(IF given = {} THEN surnames ELSE given))],
                FirstFound(lines, {"father_name"}))

(***************************************************************************)
(* extract_fields.                                                         *)
(***************************************************************************)
ExtractFields(lines, type) ==
  Over(DateFields(lines, type),
       Over(NumberFields(lines, type),
            Over(FirstFound(lines, {"gender", "nationality"}), NameFields(lines, type))))
=============================================================================
