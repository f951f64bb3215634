------------------------- MODULE ExtractionService --------------------------
(***************************************************************************)
(* One process that extracts documents: the OCR service, with its          *)
(* extraction endpoint and batch queue, or the orchestrator, which calls   *)
(* the same engine for its pipelines; and the circuit breaker the process  *)
(* has in front of the vision API (llm_fallback.py).                       *)
(*                                                                         *)
(* Everything happens in one event loop: a handler is one step from one    *)
(* await to the next.  The vision API is called without an await.          *)
(***************************************************************************)
EXTENDS FieldExtraction

CONSTANTS
  Scans,         \* images, by what OCR reads in them
  LlmAnswers,    \* what the vision API can answer: a type or None, and fields
  Models,        \* candidate_models
  LlmKey,        \* whether an API key is configured
  Batches,       \* queues of scans
  Passport,      \* a passport's image
  Numbers,       \* numbers that are printed in passports
  MaxReading,    \* bound of the calls the orchestrator makes at a time
  MaxNow         \* bound of the clock

ASSUME ModelsAssumption == Models \in Nat \ {0}

ASSUME BoundsAssumption == MaxReading \in Nat /\ MaxNow \in Nat

\* A year has at most four digits.
IsYear(year) == year = None \/ year \in 0..9999

\* The lines of a scan and the dates of a line come in an order.
IsLine(line) ==
  /\ DOMAIN line = {"words", "labels", "finds", "follows", "dates", "mrz"}
  /\ line.dates \in Seq(ToSet(line.dates))
  /\ \A d \in ToSet(line.dates) : IsYear(d.year)

ASSUME ScansAssumption ==
  /\ Passport \in Scans
  /\ \A scan \in Scans :
       /\ DOMAIN scan = {"empty", "lines", "passport_eye", "hint", "elongated", "four_digits",
                         "foreign_script"}
       /\ scan.lines \in Seq(ToSet(scan.lines))
       /\ \A line \in ToSet(scan.lines) : IsLine(line)

ASSUME BatchesAssumption == Batches \subseteq Seq(Scans)

\* In a passport's image one line opens a zone of long lines and another closes it.
ASSUME PassportAssumption ==
  LET lines == Passport.lines
      Having(shape) == {i \in DOMAIN lines : lines[i].mrz # None /\ shape \in lines[i].mrz.shape}
  IN  /\ Having("opens") # {}
      /\ Having("closes") \ {Min(Having("opens"))} # {}
      /\ Having("short") = {} /\ Cardinality(Having("card")) < 3
      /\ \A i \in Having("closes") : {"shape", "number"} \subseteq DOMAIN lines[i].mrz

\* A letter, a second one or not, and digits.
ASSUME NumbersAssumption ==
  \A number \in Numbers :
    /\ number \in Seq(Characters) /\ Len(number) >= 1
    /\ number[1] \in Letters
    /\ \A i \in 3..Len(number) : number[i] \in Digits \cup {"<"}

\* Minutes for which the API is left alone.
QuotaCooldown == 1
AuthCooldown == 5

VARIABLES
  process,          \* "ocr_service" or "orchestrator"
  now,              \* in minutes
  cooldown_until,   \* _cooldown_until
  asked,            \* the API's answers to the requests of the last step
  reading,          \* the scans calls of call_ocr_service read in threads
  batch,            \* the batch that is processed, or None
  answer            \* what a handler returns to its caller, or None

vars == <<process, now, cooldown_until, asked, reading, batch, answer>>

NoFields == [f \in {} |-> None]

\* A batch in progress, and the response to one.
BatchRun(items, next, results) == [items |-> items, next |-> next, results |-> results]

TypeOK ==
  /\ now \in 0..MaxNow
  /\ cooldown_until \in 0..(MaxNow + AuthCooldown)
  /\ Len(asked) <= Models
  /\ process \in {"ocr_service", "orchestrator"}
  /\ reading \subseteq Scans /\ Cardinality(reading) <= MaxReading
  /\ batch # None =>
       /\ Len(batch.results) = batch.next - 1
       /\ batch.next \in 1..(Len(batch.items) + 1)
  /\ answer # None /\ answer.kind = "batch" =>
       /\ Len(answer.results) = Len(answer.items)
       /\ answer.successful_count + answer.failed_count = Len(answer.items)
       /\ \A i \in DOMAIN answer.results : answer.results[i].index = i

Init ==
  /\ process \in {"ocr_service", "orchestrator"}
  /\ now = 0
  /\ cooldown_until = 0
  /\ asked = <<>>
  /\ reading = {}
  /\ batch = None
  /\ answer = None

-----------------------------------------------------------------------------
(***************************************************************************)
(* What the API answers to one call's requests, the models being tried in  *)
(* turn: success and refusal end the loop, any other failure does not.     *)
(***************************************************************************)
Refusal == {"quota", "auth"}

(***************************************************************************)
(* Mutant: after a refusal the next model is tried, too.                   *)
(***************************************************************************)
AttemptsAfterRefusal ==
  {s \in UNION {[1..k -> {"ok", "error"} \cup Refusal] : k \in 1..Models} :
     /\ \A i \in 1..(Len(s) - 1) : s[i] # "ok"
     /\ s[Len(s)] # "ok" => Len(s) = Models}

Attempts ==
  {s \in UNION {[1..k -> {"ok", "error"} \cup Refusal] : k \in 1..Models} :
     /\ \A i \in 1..(Len(s) - 1) : s[i] = "error"
     /\ s[Len(s)] = "error" => Len(s) = Models}

Cooldown(status) == IF status = "auth" THEN now + AuthCooldown ELSE now + QuotaCooldown

(***************************************************************************)
(* extract_fields_with_llm returns a type or None and fields, none when    *)
(* the API was not asked, refused, or answered what is no JSON.            *)
(***************************************************************************)
ExtractFieldsWithLlm(llm) ==
  IF now < cooldown_until \/ ~LlmKey
  THEN /\ llm = [type |-> None, fields |-> NoFields]
       /\ asked' = <<>>
       /\ UNCHANGED cooldown_until
  ELSE /\ asked' \in Attempts
       /\ asked'[Len(asked')] # "ok" => llm = [type |-> None, fields |-> NoFields]
       /\ cooldown_until' = IF \E i \in DOMAIN asked' : asked'[i] \in Refusal
                            THEN Cooldown(asked'[Len(asked')]) ELSE cooldown_until

AskNobody == asked' = <<>> /\ UNCHANGED cooldown_until

\* What the API says of the fields it names.
LlmResults ==
  {[type |-> None, fields |-> NoFields]} \cup
  {[type |-> a.type, fields |-> [f \in a.fields |-> Field("llm", Llm)]] : a \in LlmAnswers}

-----------------------------------------------------------------------------
(***************************************************************************)
(* The fields of the MRZ, and those of the visual zone it does not have.   *)
(***************************************************************************)
LocalFields(scan, type) ==
  LET mrz == ParseMrz(scan.lines, scan.passport_eye)
  IN  Over([f \in DOMAIN mrz.fields |-> Field(mrz.fields[f], Mrz)], ExtractFields(scan.lines, type))

TypeOf(scan, hint) == IF hint # None THEN hint ELSE ClassifyDocument(scan)

Response(type, method, fields, mrz) ==
  [document_type |-> type, extraction_method |-> method, fields |-> fields, mrz |-> mrz]

\* What the local engine makes of a scan, with and without the hint.
LocalEngine(scan, hint) ==
  LET mrz == ParseMrz(scan.lines, scan.passport_eye)
      type == TypeOf(scan, hint)
  IN  Response(type, IF mrz.present THEN "mrz" ELSE "ocr", LocalFields(scan, type), mrz)

LocalResponses ==
  [scan \in Scans |-> [hint \in {None, scan.hint} |-> LocalEngine(scan, hint)]]

LocalResponse(scan, hint) == LocalResponses[scan][hint]

\* Nothing at all was read.
Empty(response) == DOMAIN response.fields = {} /\ ~response.mrz.present

\* "printed" is the number the document has, where that is known.
ExtractionOf(printed, response) ==
  [kind |-> "extraction", printed |-> printed, response |-> response]

Extraction(response) == ExtractionOf(None, response)
Unprocessable == [kind |-> "error"]

-----------------------------------------------------------------------------
Tick ==
  /\ now < MaxNow
  /\ now' = now + 1
  /\ AskNobody
  /\ UNCHANGED <<process, reading, batch, answer>>

(***************************************************************************)
(* The caller gets its answer.                                             *)
(***************************************************************************)
Return ==
  /\ answer # None
  /\ answer' = None
  /\ AskNobody
  /\ UNCHANGED <<process, now, reading, batch>>

(***************************************************************************)
(* POST /extract on the local engine.                                      *)
(***************************************************************************)
AnswerLocally(scan, hint) ==
  answer' = IF scan.empty \/ Empty(LocalResponse(scan, hint)) THEN Unprocessable
            ELSE Extraction(LocalResponse(scan, hint))

ExtractDocument(scan, hint) ==
  /\ process = "ocr_service" /\ answer = None
  /\ AnswerLocally(scan, hint)
  /\ AskNobody
  /\ UNCHANGED <<process, now, reading, batch>>

(***************************************************************************)
(* Every way OCR can confuse the characters behind the first, or the first *)
(* character alone, of a number.                                           *)
(***************************************************************************)
Confused(c) == {c} \cup {d \in DOMAIN DigitCorrections : DigitCorrections[d] = c}

Misreadings(number) ==
  LET read[n \in Nat] ==
        IF n \notin 2..Len(number) THEN {<<number[1]>>}
        ELSE {Append(r, c) : r \in read[n - 1], c \in Confused(number[n])}
  IN  read[Len(number)]
  \cup {[number EXCEPT ![1] = d] : d \in {e \in DOMAIN CharCorrections : CharCorrections[e] = number[1]}}

Reading(scan, number) ==
  [scan EXCEPT !.lines =
     [i \in DOMAIN scan.lines |->
        IF scan.lines[i].mrz # None /\ "closes" \in scan.lines[i].mrz.shape
        THEN [scan.lines[i] EXCEPT !.mrz.number = number] ELSE scan.lines[i]]]

\* A zone in which a number is misread is still a zone.
ASSUME ReadingAssumption ==
  \A number \in Numbers : \A text \in Misreadings(number) :
    LET read == Reading(Passport, [text |-> text, digit |-> ComputeCheckDigit(number)])
    IN  \A i \in DOMAIN Passport.lines :
          Passport.lines[i].mrz # None => read.lines[i].mrz # None

\* What the local engine makes of a misread number, when the check digit shows it.
MisreadPassports ==
  UNION {LET digit == ComputeCheckDigit(number)
         IN  {ExtractionOf(number,
                LocalEngine(Reading(Passport, [text |-> text, digit |-> digit]), Passport.hint)) :
                text \in {t \in Misreadings(number) : ~ValidateCheckDigit(t, digit)}} :
           number \in Numbers}

(***************************************************************************)
(* POST /extract for a passport whose number OCR misreads.                 *)
(***************************************************************************)
ExtractPassport ==
  /\ process = "ocr_service" /\ answer = None
  /\ answer' \in MisreadPassports
  /\ AskNobody
  /\ UNCHANGED <<process, now, reading, batch>>

(***************************************************************************)
(* POST /extract with provider "api": the vision API, and the local engine *)
(* when it has no fields.                                                  *)
(***************************************************************************)
ExtractDocumentByApi(scan, hint) ==
  /\ process = "ocr_service" /\ answer = None
  /\ ~scan.empty
  /\ \E llm \in LlmResults :
       /\ ExtractFieldsWithLlm(llm)
       /\ IF llm.fields = NoFields THEN AnswerLocally(scan, hint)
          ELSE LET detected == IF llm.type # None THEN llm.type
                               ELSE IF hint # None THEN hint ELSE "national_id"
               IN  answer' = Extraction(Response(detected, "llm_fallback", llm.fields, Absent))
  /\ UNCHANGED <<process, now, reading, batch>>

(***************************************************************************)
(* call_ocr_service in the orchestrator's process, for a document whose    *)
(* type is given: the text is read in a thread, and other handlers run     *)
(* meanwhile.                                                              *)
(***************************************************************************)
CallOcrService(scan) ==
  /\ process = "orchestrator" /\ answer = None
  /\ Cardinality(reading) < MaxReading
  /\ reading' = reading \cup {scan}
  /\ AskNobody
  /\ UNCHANGED <<process, now, batch, answer>>

\* A sparse scan, or a foreign passport whose names local OCR cannot read.
NeedsLlm(scan, response) ==
  \/ Empty(response)
  \/ /\ response.document_type \in {"driving_license", "permit", "ferry_ticket"}
     /\ Cardinality(DOMAIN response.fields) < 2
  \/ /\ scan.foreign_script
     /\ response.document_type = "passport"
     /\ {"name", "surname", "given_names"} \cap DOMAIN response.fields = {}

\* The API's fields replace those of the same name.
WithLlm(response, llm) ==
  IF llm.fields = NoFields THEN response
  ELSE [response EXCEPT !.extraction_method = "llm_fallback", !.fields = Over(llm.fields, @)]

(***************************************************************************)
(* The rest of the call.                                                   *)
(***************************************************************************)
OcrServiceReturns(scan) ==
  /\ answer = None
  /\ IF NeedsLlm(scan, LocalResponse(scan, scan.hint))
     THEN \E llm \in LlmResults :
            /\ ExtractFieldsWithLlm(llm)
            /\ answer' = Extraction(WithLlm(LocalResponse(scan, scan.hint), llm))
     ELSE AskNobody /\ answer' = Extraction(LocalResponse(scan, scan.hint))
  /\ reading' = reading \ {scan}
  /\ UNCHANGED <<process, now, batch>>

(***************************************************************************)
(* llm_vision_fallback_node, for a pipeline whose fields are few or        *)
(* uncertain.                                                              *)
(***************************************************************************)
LlmVisionFallbackNode ==
  /\ process = "orchestrator" /\ answer # None
  /\ \E llm \in LlmResults :
       /\ ExtractFieldsWithLlm(llm)
       /\ answer' = Extraction(WithLlm(answer.response, llm))
  /\ UNCHANGED <<process, now, reading, batch>>

(***************************************************************************)
(* POST /extract/batch: a task for each item; other handlers run between   *)
(* them.                                                                   *)
(***************************************************************************)
ExtractBatch(items) ==
  /\ process = "ocr_service" /\ batch = None
  /\ batch' = BatchRun(items, 1, <<>>)
  /\ answer = None
  /\ AskNobody
  /\ UNCHANGED <<process, now, reading, answer>>

ItemResult(index, scan) ==
  [index |-> index, success |-> ~scan.empty /\ ~Empty(LocalResponse(scan, None))]

(***************************************************************************)
(* Mutant: an item that fails has no result.                               *)
(***************************************************************************)
ProcessSingleItemUnlessFailed ==
  /\ batch # None /\ batch.next <= Len(batch.items)
  /\ LET result == ItemResult(batch.next, batch.items[batch.next])
     IN  batch' = BatchRun(batch.items, batch.next + 1,
                           IF result.success THEN Append(batch.results, result)
                           ELSE batch.results)
  /\ answer = None
  /\ AskNobody
  /\ UNCHANGED <<process, now, reading, answer>>

(***************************************************************************)
(* process_single_item: never an exception, always a result.               *)
(***************************************************************************)
ProcessSingleItem ==
  /\ batch # None /\ batch.next <= Len(batch.items)
  /\ batch' = BatchRun(batch.items, batch.next + 1,
                       Append(batch.results, ItemResult(batch.next, batch.items[batch.next])))
  /\ answer = None
  /\ AskNobody
  /\ UNCHANGED <<process, now, reading, answer>>

BatchReturns ==
  /\ answer = None
  /\ batch # None /\ batch.next > Len(batch.items)
  /\ LET successful == Cardinality({i \in DOMAIN batch.results : batch.results[i].success})
     IN  answer' = [kind |-> "batch", items |-> batch.items, results |-> batch.results,
                    successful_count |-> successful,
                    failed_count |-> Len(batch.results) - successful]
  /\ batch' = None
  /\ AskNobody
  /\ UNCHANGED <<process, now, reading>>

Next ==
  \/ Tick
  \/ Return
  \/ \E scan \in Scans : \E hint \in {None, scan.hint} :
       ExtractDocument(scan, hint) \/ ExtractDocumentByApi(scan, hint)
  \/ ExtractPassport
  \/ \E scan \in Scans : CallOcrService(scan)
  \/ \E scan \in reading : OcrServiceReturns(scan)
  \/ LlmVisionFallbackNode
  \/ \E items \in Batches : ExtractBatch(items)
  \/ ProcessSingleItem
  \/ BatchReturns

Spec == Init /\ [][Next]_vars

-----------------------------------------------------------------------------
(***************************************************************************)
(* The circuit breaker of a process: whichever handler or pipeline asks,   *)
(* nothing is sent while an earlier refusal still counts, and a refusal    *)
(* ends the step's requests.  So the pause after an authentication failure *)
(* is never cut short by the shorter one of a later answer.                *)
(***************************************************************************)
ProviderIsLeftAlone ==
  [][asked' # <<>> =>
       /\ now >= cooldown_until
       /\ \A i \in 1..(Len(asked') - 1) : asked'[i] \notin Refusal
       /\ asked'[Len(asked')] = "auth" => cooldown_until' >= now + AuthCooldown]_vars

Answered == answer # None /\ answer.kind = "extraction"

(***************************************************************************)
(* A reported field has one source: the MRZ's fields are those of the MRZ  *)
(* unless the vision API was asked, and no line's date stands for two of   *)
(* the holder's dates.                                                     *)
(***************************************************************************)
FieldsHaveOneSource ==
  Answered =>
    LET fields == answer.response.fields
        dates == DOMAIN fields \cap {"date_of_birth", "date_of_expiry", "travel_date",
                                     "entry_validity"}
    IN  /\ answer.response.extraction_method = "mrz" =>
             \A f \in DOMAIN answer.response.mrz.fields : fields[f].source = Mrz
        /\ \A f, g \in dates : f # g /\ fields[f].source > 0 => fields[f].source # fields[g].source

(***************************************************************************)
(* The repair of document numbers finds the right number: of one or two    *)
(* letters and digits behind them, any such misreading is answered as the  *)
(* number that was printed, unless the check digit does not show it.       *)
(***************************************************************************)
MisreadingIsRepaired ==
  (Answered /\ answer.printed # None) =>
    answer.response.fields["passport_number"].value = answer.printed
=============================================================================
