-------------------------- MODULE ScreeningConsole --------------------------
(***************************************************************************)
(* The officer's console: ScreeningConsole.tsx (the wizard and its API     *)
(* calls) and BiometricScreen.tsx (live capture and the countdown to an    *)
(* automatic approval).                                                    *)
(*                                                                         *)
(* An event handler, or the continuation of a call with the render and the *)
(* effects it causes, is one step: React batches its updates.  Between     *)
(* steps anything may happen: clicks, ticks, answers of calls, also of     *)
(* those made for an earlier document or by a screen that is gone.         *)
(***************************************************************************)
EXTENDS Naturals, FiniteSets

CONSTANTS
  Documents,      \* the ids the backend gives to uploads
  CountdownFrom,  \* seconds from a match to the automatic approval
  MaxInFlight,    \* bound: calls of one kind that can be in flight
  None            \* null

ASSUME NoneIsNoDocument == None \notin Documents
ASSUME BoundsArePositive == CountdownFrom \in Nat \ {0} /\ MaxInFlight \in Nat \ {0}

VARIABLES
  currentStep, uploadData, stage2Data, decisionData, isUploading, isDeciding,
  cameraActive, captured, verificationResult,
  autoClearTimer, \* the interval: its document and remaining, or None
  dispatched,     \* for each document the setTimeout(.., 0) that are due to approve it
  uploads,        \* number of uploads in flight
  verifying,      \* documents with a verification in flight
  deciding,       \* for each decision the number of calls in flight
  uploaded,       \* history: the ids given so far
  matched,        \* history: documents whose live face matched
  answered,       \* history: documents with an answered decision
  overtaken       \* history: a timeout went off on a document being or already decided

wizard == <<currentStep, uploadData, stage2Data, decisionData, isUploading, isDeciding>>
screen == <<cameraActive, captured, verificationResult>>
inFlight == <<uploads, verifying, deciding>>
history == <<uploaded, matched, answered, overtaken>>
vars == <<wizard, screen, autoClearTimer, dispatched, inFlight, history>>

-----------------------------------------------------------------------------
Step == {"upload", "results", "biometric", "confirmation"}

\* face.one_to_one.matched, unknown when there is no comparison, and the risk.
VerificationResult == [matched : {"yes", "no", "unknown"}, band : {"low", "high"}]

\* automatic tells the countdown's approval from the officer's.
Decision == [doc : Documents, verdict : {"approve", "reject"}, automatic : BOOLEAN]

AutomaticApproval(d) == [doc |-> d, verdict |-> "approve", automatic |-> TRUE]

\* Automatic approvals of d on their way: timeouts that are due, calls in flight.
Approving(d) == dispatched[d] + deciding[AutomaticApproval(d)]

Mounted == currentStep = "biometric"

isVerifying == uploadData \in verifying

-----------------------------------------------------------------------------
(***************************************************************************)
(* Mutant: an unknown match counts as one.                                 *)
(***************************************************************************)
IsUnlessMismatch(result) == result # None /\ result.matched # "no"

IsMatched(result) == result # None /\ result.matched = "yes"

(***************************************************************************)
(* Mutant: the interval outlives the screen.                               *)
(***************************************************************************)
RenderWithoutCleanup ==
  autoClearTimer' =
    IF currentStep' = "biometric"
       /\ <<currentStep, verificationResult, isDeciding>> #
          <<currentStep', verificationResult', isDeciding'>>
    THEN IF IsMatched(verificationResult') /\ ~isDeciding'
         THEN [doc |-> uploadData', remaining |-> CountdownFrom]
         ELSE None
    ELSE autoClearTimer

(***************************************************************************)
(* Mutant: isDeciding is not a dependency of the effect.                   *)
(***************************************************************************)
RenderIgnoringDecisions ==
  autoClearTimer' =
    IF currentStep' # "biometric" THEN None
    ELSE IF <<currentStep, verificationResult>> # <<currentStep', verificationResult'>>
         THEN IF IsMatched(verificationResult') /\ ~isDeciding'
              THEN [doc |-> uploadData', remaining |-> CountdownFrom]
              ELSE None
         ELSE IF isDeciding' THEN None ELSE autoClearTimer

(***************************************************************************)
(* The effect runs when the screen is mounted and when verificationResult  *)
(* or isDeciding has changed; its cleanup also when it is unmounted.       *)
(***************************************************************************)
Render ==
  autoClearTimer' =
    IF currentStep' # "biometric" THEN None
    ELSE IF <<currentStep, verificationResult, isDeciding>> #
            <<currentStep', verificationResult', isDeciding'>>
         THEN IF IsMatched(verificationResult') /\ ~isDeciding'
              THEN [doc |-> uploadData', remaining |-> CountdownFrom]
              ELSE None
         ELSE autoClearTimer

-----------------------------------------------------------------------------
Init ==
  /\ currentStep = "upload"
  /\ uploadData = None /\ stage2Data = None /\ decisionData = None
  /\ isUploading = FALSE /\ isDeciding = FALSE
  /\ cameraActive = FALSE /\ captured = FALSE /\ verificationResult = None
  /\ autoClearTimer = None /\ dispatched = [d \in Documents |-> 0]
  /\ uploads = 0 /\ verifying = {} /\ deciding = [c \in Decision |-> 0]
  /\ uploaded = {} /\ matched = {} /\ answered = {} /\ overtaken = FALSE

(***************************************************************************)
(* handleUploadDocument, up to its call.                                   *)
(***************************************************************************)
UploadDocument ==
  /\ currentStep = "upload"
  /\ ~isUploading
  /\ uploads < MaxInFlight
  /\ isUploading' = TRUE
  /\ uploads' = uploads + 1
  /\ UNCHANGED <<currentStep, uploadData, stage2Data, decisionData, isDeciding, screen,
                 autoClearTimer, dispatched, verifying, deciding, history>>

UploadAnswered ==
  /\ uploads > 0
  /\ \E d \in Documents \ uploaded :
       /\ uploadData' = d
       /\ uploaded' = uploaded \cup {d}
  /\ currentStep' = "results"
  /\ isUploading' = FALSE
  /\ uploads' = uploads - 1
  /\ Render
  /\ UNCHANGED <<stage2Data, decisionData, isDeciding, screen, dispatched, verifying,
                 deciding, matched, answered, overtaken>>

UploadFailed ==
  /\ uploads > 0
  /\ isUploading' = FALSE
  /\ uploads' = uploads - 1
  /\ UNCHANGED <<currentStep, uploadData, stage2Data, decisionData, isDeciding, screen,
                 autoClearTimer, dispatched, verifying, deciding, history>>

(***************************************************************************)
(* onProceedToBiometrics mounts a fresh screen.                            *)
(***************************************************************************)
ProceedToBiometrics ==
  /\ currentStep = "results"
  /\ currentStep' = "biometric"
  /\ cameraActive' = FALSE /\ captured' = FALSE /\ verificationResult' = None
  /\ UNCHANGED <<uploadData, stage2Data, decisionData, isUploading, isDeciding>>
  /\ Render
  /\ UNCHANGED <<dispatched, inFlight, history>>

StartCamera ==
  /\ Mounted
  /\ ~cameraActive
  /\ cameraActive' = TRUE
  /\ UNCHANGED <<wizard, captured, verificationResult, autoClearTimer, dispatched, inFlight,
                 history>>

(***************************************************************************)
(* handleCaptureAndVerify, up to its call.                                 *)
(***************************************************************************)
CaptureAndVerify ==
  /\ Mounted
  /\ ~captured
  /\ ~isVerifying /\ cameraActive
  /\ captured' = TRUE
  /\ verifying' = verifying \cup {uploadData}
  /\ UNCHANGED <<wizard, cameraActive, verificationResult, autoClearTimer, dispatched,
                 uploads, deciding, history>>

(***************************************************************************)
(* The console keeps the answer whatever it shows by then; the screen that *)
(* made the call does if it is still there.                                *)
(***************************************************************************)
VerificationAnswered(d, result) ==
  /\ d \in verifying
  /\ verifying' = verifying \ {d}
  /\ stage2Data' = [doc |-> d, band |-> result.band]
  /\ IF Mounted /\ uploadData = d
     THEN /\ verificationResult' = result
          /\ matched' = IF result.matched = "yes" THEN matched \cup {d} ELSE matched
     ELSE UNCHANGED <<verificationResult, matched>>
  /\ UNCHANGED <<currentStep, uploadData, decisionData, isUploading, isDeciding>>
  /\ Render
  /\ UNCHANGED <<cameraActive, captured, dispatched, uploads, deciding, uploaded, answered,
                 overtaken>>

VerificationFailed(d) ==
  /\ d \in verifying
  /\ verifying' = verifying \ {d}
  /\ UNCHANGED <<wizard, screen, autoClearTimer, dispatched, uploads, deciding, history>>

(***************************************************************************)
(* handleRetake.                                                           *)
(***************************************************************************)
Retake ==
  /\ Mounted
  /\ captured /\ ~isVerifying
  /\ captured' = FALSE
  /\ verificationResult' = None
  /\ UNCHANGED wizard
  /\ Render
  /\ UNCHANGED <<cameraActive, dispatched, inFlight, history>>

-----------------------------------------------------------------------------
(***************************************************************************)
(* Mutant: the buttons are not disabled while a decision is under way.     *)
(***************************************************************************)
RecordDecisionUnannounced(c) ==
  /\ deciding' = [deciding EXCEPT ![c] = @ + 1]
  /\ UNCHANGED <<wizard, screen>>
  /\ Render
  /\ UNCHANGED <<uploads, verifying, uploaded, matched, answered>>

(***************************************************************************)
(* handleRecordDecision, up to its call.                                   *)
(***************************************************************************)
RecordDecision(c) ==
  /\ isDeciding' = TRUE
  /\ deciding' = [deciding EXCEPT ![c] = @ + 1]
  /\ UNCHANGED <<currentStep, uploadData, stage2Data, decisionData, isUploading, screen>>
  /\ Render
  /\ UNCHANGED <<uploads, verifying, uploaded, matched, answered>>

(***************************************************************************)
(* The buttons: Reject on both screens, Approve (or Override) when there   *)
(* is a result.  They stop the interval; a timeout it has set stays.       *)
(***************************************************************************)
OfficerDecides(verdict) ==
  LET c == [doc |-> uploadData, verdict |-> verdict, automatic |-> FALSE] IN
  /\ ~isDeciding
  /\ \/ currentStep = "results" /\ verdict = "reject"
     \/ /\ Mounted /\ ~isVerifying
        /\ verdict = "approve" => verificationResult # None
  /\ deciding[c] < MaxInFlight
  /\ RecordDecision(c)
  /\ UNCHANGED <<dispatched, overtaken>>

(***************************************************************************)
(* Mutant: the countdown runs on at zero.                                  *)
(***************************************************************************)
TickPastZero ==
  /\ autoClearTimer # None
  /\ Approving(autoClearTimer.doc) < MaxInFlight
  /\ IF autoClearTimer.remaining > 0
     THEN /\ autoClearTimer' = [autoClearTimer EXCEPT !.remaining = @ - 1]
          /\ UNCHANGED dispatched
     ELSE /\ dispatched' = [dispatched EXCEPT ![autoClearTimer.doc] = @ + 1]
          /\ autoClearTimer' = None
  /\ UNCHANGED <<wizard, screen, inFlight, history>>

(***************************************************************************)
(* One second of the interval.  At the end it does not approve itself but  *)
(* sets a timeout, which nothing cancels.                                  *)
(***************************************************************************)
Tick ==
  /\ autoClearTimer # None
  /\ Approving(autoClearTimer.doc) < MaxInFlight
  /\ IF autoClearTimer.remaining > 1
     THEN /\ autoClearTimer' = [autoClearTimer EXCEPT !.remaining = @ - 1]
          /\ UNCHANGED dispatched
     ELSE /\ dispatched' = [dispatched EXCEPT ![autoClearTimer.doc] = @ + 1]
          /\ autoClearTimer' = None
  /\ UNCHANGED <<wizard, screen, inFlight, history>>

(***************************************************************************)
(* The timeout calls the onRecordDecision of the render that started the   *)
(* countdown: it approves that document, whatever is shown by now.         *)
(***************************************************************************)
AutoApprove(d) ==
  /\ dispatched[d] > 0
  /\ dispatched' = [dispatched EXCEPT ![d] = @ - 1]
  /\ RecordDecision(AutomaticApproval(d))
  /\ overtaken' = (overtaken \/ isDeciding \/ d \in answered)

DecisionAnswered(c) ==
  /\ deciding[c] > 0
  /\ deciding' = [deciding EXCEPT ![c] = @ - 1]
  /\ decisionData' = [doc |-> c.doc, verdict |-> c.verdict]
  /\ currentStep' = "confirmation"
  /\ isDeciding' = FALSE
  /\ answered' = answered \cup {c.doc}
  /\ UNCHANGED <<uploadData, stage2Data, isUploading, screen>>
  /\ Render
  /\ UNCHANGED <<dispatched, uploads, verifying, uploaded, matched, overtaken>>

(***************************************************************************)
(* Mutant: the flag is reset after success only.                           *)
(***************************************************************************)
DecisionFailedNoFinally(c) ==
  /\ deciding[c] > 0
  /\ deciding' = [deciding EXCEPT ![c] = @ - 1]
  /\ UNCHANGED <<wizard, screen, autoClearTimer, dispatched, uploads, verifying, history>>

(***************************************************************************)
(* The call failed; the decision may have been recorded all the same.      *)
(***************************************************************************)
DecisionFailed(c) ==
  /\ deciding[c] > 0
  /\ deciding' = [deciding EXCEPT ![c] = @ - 1]
  /\ isDeciding' = FALSE
  /\ UNCHANGED <<currentStep, uploadData, stage2Data, decisionData, isUploading, screen>>
  /\ Render
  /\ UNCHANGED <<dispatched, uploads, verifying, history>>

(***************************************************************************)
(* handleReset.                                                            *)
(***************************************************************************)
Reset ==
  /\ currentStep = "confirmation"
  /\ currentStep' = "upload"
  /\ uploadData' = None /\ stage2Data' = None /\ decisionData' = None
  /\ isUploading' = FALSE /\ isDeciding' = FALSE
  /\ UNCHANGED <<screen, autoClearTimer, dispatched, inFlight, history>>

-----------------------------------------------------------------------------
TimeoutFires == \E d \in Documents : AutoApprove(d)

DecisionEnds == \E c \in Decision : DecisionAnswered(c) \/ DecisionFailed(c)

Next ==
  \/ UploadDocument
  \/ UploadAnswered
  \/ UploadFailed
  \/ ProceedToBiometrics
  \/ StartCamera
  \/ CaptureAndVerify
  \/ \E d \in Documents, result \in VerificationResult : VerificationAnswered(d, result)
  \/ \E d \in Documents : VerificationFailed(d)
  \/ Retake
  \/ \E verdict \in {"approve", "reject"} : OfficerDecides(verdict)
  \/ Tick
  \/ TimeoutFires
  \/ DecisionEnds
  \/ Reset

Spec == Init /\ [][Next]_vars

(***************************************************************************)
(* Timers fire and calls end.  Nothing is assumed of the officer, and not  *)
(* that any call succeeds.                                                 *)
(***************************************************************************)
FairSpec == Spec /\ WF_vars(Tick) /\ WF_vars(TimeoutFires) /\ WF_vars(DecisionEnds)

-----------------------------------------------------------------------------
TypeOK ==
  /\ currentStep \in Step
  /\ uploadData \in Documents \cup {None}
  /\ stage2Data \in [doc : Documents, band : {"low", "high"}] \cup {None}
  /\ decisionData \in [doc : Documents, verdict : {"approve", "reject"}] \cup {None}
  /\ isUploading \in BOOLEAN /\ isDeciding \in BOOLEAN
  /\ cameraActive \in BOOLEAN /\ captured \in BOOLEAN
  /\ verificationResult \in VerificationResult \cup {None}
  /\ autoClearTimer \in [doc : Documents, remaining : 1..CountdownFrom] \cup {None}
  /\ dispatched \in [Documents -> 0..MaxInFlight]
  /\ uploads \in 0..MaxInFlight
  /\ verifying \subseteq Documents
  /\ deciding \in [Decision -> 0..MaxInFlight]
  /\ uploaded \subseteq Documents /\ matched \subseteq Documents /\ answered \subseteq Documents
  /\ overtaken \in BOOLEAN

Submitted(c) == deciding'[c] > deciding[c]

(***************************************************************************)
(* Only a document whose live face matched is approved automatically,      *)
(* whatever was retaken, failed or left the screen before.                 *)
(***************************************************************************)
AutoApprovalWasMatched ==
  [][\A c \in Decision : Submitted(c) /\ c.automatic => c.doc \in matched]_vars

(***************************************************************************)
(* Once a decision on a document was answered, the buttons submit no other *)
(* for it and no countdown sets another timeout, not even one that a late  *)
(* failure or a late match would start.  What can still be submitted is    *)
(* the approval of a timeout that was due before.                          *)
(***************************************************************************)
AnsweredStartsNothing ==
  [][\A d \in answered :
       /\ dispatched'[d] <= dispatched[d]
       /\ \A c \in Decision : c.doc = d /\ Submitted(c) => c.automatic]_vars

(***************************************************************************)
(* A recognised face leads to a decision, also after one that failed: the  *)
(* countdown starts again.                                                 *)
(***************************************************************************)
MatchLeadsToDecision ==
  Mounted /\ IsMatched(verificationResult) /\ ~isDeciding
    ~> ~Mounted \/ ~IsMatched(verificationResult) \/ isDeciding

(***************************************************************************)
(* The buttons that wait for a decision are usable again.                  *)
(***************************************************************************)
OfficerRegainsControl == isDeciding ~> ~isDeciding

(***************************************************************************)
(* The confirmation is of one traveller, its decision on the document      *)
(* whose name and id it shows, although an answer is shown whenever it     *)
(* comes and a reset makes the console usable at once: no call made for    *)
(* one document is left when the next is on the screen.  The timeout alone *)
(* breaks this, since handleRecordDecision does not look at isDeciding:    *)
(* one that goes off on a document being or already decided puts a second  *)
(* call beside the first, and its answer may find the next traveller.      *)
(***************************************************************************)
ConfirmationIsOfOneTraveller ==
  ~overtaken /\ currentStep = "confirmation" => decisionData.doc = uploadData
=============================================================================
