---------------------------- MODULE MCExtraction ----------------------------
(***************************************************************************)
(* Scans of each zone format and of the visual zone, among them a passport *)
(* with a two-letter number, one whose number was misread, one that OCR    *)
(* cannot read in a foreign script, two passports in one image, labels     *)
(* that compete for a date, and an empty upload.                           *)
(***************************************************************************)
EXTENDS ExtractionService

CONSTANTS ann, eve, smith, jones

Blank ==
  [words |-> {}, labels |-> {}, finds |-> [f \in {} |-> None], follows |-> [f \in {} |-> None],
   dates |-> <<>>, mrz |-> None]

Saying(words) == [Blank EXCEPT !.words = words]
Labelled(labels, dates) == [Blank EXCEPT !.labels = labels, !.dates = dates]
With(field, text) == [Blank EXCEPT !.finds = [f \in {field} |-> text]]
Before(label) == [Blank EXCEPT !.labels = {label}]
After(field, text) == [Blank EXCEPT !.follows = [f \in {field} |-> text]]
On(text, year) == [text |-> text, year |-> year]

Checked(text) == [text |-> text, digit |-> ComputeCheckDigit(text)]
Nation(code) == [code |-> code, has_digit |-> FALSE, lettered |-> code]

Zone(shape, type) ==
  [shape |-> shape, type |-> type, number |-> Checked(<<"A", "7", "2", "0", "5", "1", "8", "3", "4">>),
   dob |-> Checked(<<"2", "6">>), expiry |-> Checked(<<"3", "1">>), sex |-> "F",
   nationality |-> Nation("IND"), holder |-> [given |-> ann, surname |-> smith], issuing |-> "IND"]

First(holder) ==
  [Blank EXCEPT !.mrz = [Zone({"opens", "weak_first", "card"}, "passport") EXCEPT !.holder = holder]]
Second == [Blank EXCEPT !.mrz = Zone({"dated", "closes", "weak_second"}, "none")]
Numbered(number) == [Second EXCEPT !.mrz.number = number]
Short(line) == [line EXCEPT !.mrz.shape = @ \cup {"short"}]
Ann == [given |-> ann, surname |-> smith]
Eve == [given |-> eve, surname |-> None]

Scan(lines, hint) ==
  [empty |-> FALSE, lines |-> lines, passport_eye |-> <<>>, hint |-> hint, elongated |-> FALSE,
   four_digits |-> FALSE, foreign_script |-> FALSE]

TwoLetters == Checked(<<"B", "O", "0", "0", "1", "6", "1", "8", "<">>)
Misread == [Checked(<<"Z", "0", "2", "4", "5", "5", "8", "1", "7">>) EXCEPT
              !.text = <<"Z", "O", "2", "A", "5", "S", "8", "1", "7">>]

MCScans ==
  {\* passports
   Scan(<<Saying({"PASSPORT"}), With("passport_number", "A7205183"), First(Ann), Second>>, "passport"),
   Scan(<<First(Ann), Numbered(TwoLetters)>>, "passport"),
   [Scan(<<First(Eve), [Numbered(Misread) EXCEPT
              !.mrz.nationality = [code |-> "1ND", has_digit |-> TRUE, lettered |-> "IND"],
              !.mrz.dob = [text |-> <<"Z", "7">>, digit |-> ComputeCheckDigit(<<"2", "7">>)],
              !.mrz.sex = None]>>, "passport") EXCEPT !.elongated = TRUE],
   Scan(<<First(Ann), Numbered([TwoLetters EXCEPT !.digit = None]), First(Eve), Second>>, "passport"),
   [Scan(<<>>, "passport") EXCEPT !.passport_eye = <<First(Ann), Second>>],
   [Scan(<<After("gender", "M"), With("gender", "F")>>, "passport") EXCEPT !.foreign_script = TRUE],
   \* a visa, an identity card, and one whose second line is not dated
   Scan(<<Short([First(Ann) EXCEPT !.mrz.shape = {"weak_first"}, !.mrz.type = "visa"]),
          Short([Second EXCEPT !.mrz.shape = {"weak_second"}]), With("visa_type", "TOURIST")>>, "visa"),
   Scan(<<[First(Ann) EXCEPT !.mrz.type = "national_id"],
          [Second EXCEPT !.mrz.shape = @ \cup {"card"}, !.mrz.nationality = Nation(None)],
          First(Eve)>>, "national_id"),
   Scan(<<Short(First(Ann)), Short([Second EXCEPT !.mrz.shape = {"card", "closes", "weak_second"}]),
          Short(First(Eve))>>, "national_id"),
   \* no zone
   [Scan(<<Saying({"AADHAAR", "GOVERNMENT OF INDIA"}), With("nationality", "IND"),
           Labelled({}, <<On("1/2/1990", 1990)>>), Labelled({}, <<On("3 May 2019", None)>>)>>,
         "national_id") EXCEPT !.four_digits = TRUE],
   Scan(<<Saying({"DRIVING LICENCE"}), Before("license_number"), After("license_number", "20220000839"),
          Labelled({"date_of_expiry"}, <<>>), Labelled({"date_of_birth"}, <<On("1/2/1990", 1990)>>),
          Labelled({"date_of_issue"}, <<On("5/6/2015", 2015)>>),
          Labelled({}, <<On("7/8/1992", 1992)>>)>>, "driving_license"),
   Scan(<<Saying({"BORDER PASS"}), Before("license_number"), Blank>>, "permit"),
   Scan(<<Saying({"FERRY"}), Labelled({}, <<On("9/9/2026", 2026)>>)>>, "ferry_ticket"),
   Scan(<<Saying({"INCOME TAX DEPARTMENT"}), Before("surname"), After("surname", jones)>>, "pan_card"),
   Scan(<<Saying({"ELECTION COMMISSION", "epic_pattern"}), Before("name"), After("name", ann),
          [With("father_name", eve) EXCEPT !.labels = {"relation", "name"}]>>, "voter_id"),
   Scan(<<>>, "passport"),
   [Scan(<<>>, "passport") EXCEPT !.empty = TRUE]}

MCLlmAnswers ==
  {[type |-> None, fields |-> {"name", "passport_number"}], [type |-> "visa", fields |-> {"visa_number"}]}

Number(n) == CHOOSE s \in MCScans : s.hint = n

MCPassport == CHOOSE s \in MCScans : s.hint = "passport" /\ \E i \in DOMAIN s.lines : "PASSPORT" \in s.lines[i].words

MCBatches ==
  {<<Number("ferry_ticket"), CHOOSE s \in MCScans : s.empty, Number("voter_id")>>}

\* Any one letter, or any two that OCR may confuse, before digits.
MCNumbers ==
  {<<l>> \o d : l \in Letters, d \in {<<"7", "2", "0", "5", "1", "3">>}}
  \cup {<<k, l, "0", "6", "5", "8", "4", "<">> : k \in {"A", "Z"}, l \in Letters}
=============================================================================
