----------------------- MODULE ScreeningConsoleProofs -----------------------
(***************************************************************************)
(* What the console can submit, for any documents, any countdown and any   *)
(* number of calls in flight.                                              *)
(***************************************************************************)
EXTENDS ScreeningConsole, TLAPS

(***************************************************************************)
(* A document whose screens are shown was uploaded and has no answered     *)
(* decision; nothing is known of an id the backend has not given.          *)
(***************************************************************************)
ShownIsUndecided ==
  /\ currentStep \in {"results", "biometric"} => uploadData \in uploaded \ answered
  /\ answered \subseteq uploaded /\ matched \subseteq uploaded
  /\ \A c \in Decision : deciding[c] > 0 => c.doc \in uploaded

(***************************************************************************)
(* A countdown is for the document on the screen, which has matched.  The  *)
(* timeouts it leaves behind are for documents that matched, whatever is   *)
(* shown by now.                                                           *)
(***************************************************************************)
TimersAreOfTheMatched ==
  /\ Mounted /\ IsMatched(verificationResult) => uploadData \in matched
  /\ autoClearTimer # None =>
       Mounted /\ autoClearTimer.doc = uploadData /\ uploadData \in matched
  /\ \A d \in Documents : dispatched[d] > 0 => d \in matched

(***************************************************************************)
(* There is room for the calls of the timeouts that are due.               *)
(***************************************************************************)
RoomForApprovals == \A d \in Documents : Approving(d) <= MaxInFlight

ConsoleInv == TypeOK /\ ShownIsUndecided /\ TimersAreOfTheMatched /\ RoomForApprovals

-----------------------------------------------------------------------------
(***************************************************************************)
(* While no timeout has gone off late: an upload is under way on its own   *)
(* screen only, ...                                                        *)
(***************************************************************************)
UploadsAreAlone ==
  /\ uploads = IF isUploading THEN 1 ELSE 0
  /\ uploads > 0 => currentStep = "upload"

(***************************************************************************)
(* ... at most one decision, on the document whose screens are shown, ...  *)
(***************************************************************************)
DecisionsAreAlone ==
  /\ \A c \in Decision : deciding[c] > 0 =>
       /\ deciding[c] = 1 /\ isDeciding
       /\ currentStep \in {"results", "biometric"} /\ c.doc = uploadData
  /\ \A c, e \in Decision : deciding[c] > 0 /\ deciding[e] > 0 => c = e

(***************************************************************************)
(* ... and a timeout that is due for a document not answered finds it on   *)
(* its screen.                                                             *)
(***************************************************************************)
TimeoutsAreInTime ==
  \A d \in Documents : dispatched[d] > 0 => d \in answered \/ (Mounted /\ uploadData = d)

OneTravellerInv ==
  ~overtaken =>
    /\ UploadsAreAlone /\ DecisionsAreAlone /\ TimeoutsAreInTime
    /\ ConfirmationIsOfOneTraveller

-----------------------------------------------------------------------------
LEMMA ApprovalIsADecision ==
  ASSUME NEW d \in Documents
  PROVE  /\ AutomaticApproval(d) \in Decision
         /\ AutomaticApproval(d).doc = d /\ AutomaticApproval(d).automatic
         /\ \A e \in Documents : AutomaticApproval(e) = AutomaticApproval(d) => e = d
BY DEF AutomaticApproval, Decision

(***************************************************************************)
(* Types. A countdown is only started on a screen, which has a document.   *)
(***************************************************************************)
LEMMA TypeStep == ConsoleInv /\ [Next]_vars => TypeOK'
<1> SUFFICES ASSUME ConsoleInv, [Next]_vars PROVE TypeOK'
  OBVIOUS
<1> USE NoneIsNoDocument, BoundsArePositive DEF
  ConsoleInv, TypeOK, wizard, screen, inFlight, history
<1>1. CASE UploadDocument
  BY <1>1 DEF UploadDocument
<1>2. CASE UploadAnswered
  <2>1. uploads' \in 0..MaxInFlight
    BY <1>2 DEF UploadAnswered
  <2>2. autoClearTimer' = None
    BY <1>2 DEF UploadAnswered, Render
  <2>3. QED
    BY <1>2, <2>1, <2>2 DEF UploadAnswered, Step
<1>3. CASE UploadFailed
  <2>1. uploads' \in 0..MaxInFlight
    BY <1>3 DEF UploadFailed
  <2>2. QED
    BY <1>3, <2>1 DEF UploadFailed
<1>4. CASE ProceedToBiometrics
  BY <1>4 DEF ProceedToBiometrics, Render, Step, IsMatched
<1>5. CASE StartCamera
  BY <1>5 DEF StartCamera
<1>6. CASE CaptureAndVerify
  BY <1>6 DEF CaptureAndVerify, Mounted, ShownIsUndecided
<1>7. CASE \E d \in Documents, result \in VerificationResult : VerificationAnswered(d, result)
  BY <1>7 DEF VerificationAnswered, Render, VerificationResult, Mounted, ShownIsUndecided
<1>8. CASE \E d \in Documents : VerificationFailed(d)
  BY <1>8 DEF VerificationFailed
<1>9. CASE Retake
  BY <1>9 DEF Retake, Render, IsMatched
<1>10. CASE \E verdict \in {"approve", "reject"} : OfficerDecides(verdict)
  <2>1. PICK verdict \in {"approve", "reject"} : OfficerDecides(verdict)
    BY <1>10
  <2> DEFINE d == [doc |-> uploadData, verdict |-> verdict, automatic |-> FALSE]
  <2>2. uploadData \in Documents
    BY <2>1 DEF OfficerDecides, ShownIsUndecided, Mounted
  <2>3. d \in Decision
    BY <2>2 DEF Decision
  <2>4. deciding' = [deciding EXCEPT ![d] = @ + 1] /\ deciding[d] < MaxInFlight
    BY <2>1 DEF OfficerDecides, RecordDecision
  <2>5. deciding' \in [Decision -> 0..MaxInFlight]
    BY <2>3, <2>4
  <2>6. autoClearTimer' \in {None, autoClearTimer}
    BY <2>1 DEF OfficerDecides, RecordDecision, Render
  <2>7. QED
    BY <2>1, <2>5, <2>6 DEF OfficerDecides, RecordDecision
<1>11. CASE Tick
  <2>1. autoClearTimer # None /\ autoClearTimer.doc \in Documents
    BY <1>11 DEF Tick
  <2>2. AutomaticApproval(autoClearTimer.doc) \in Decision
    BY <2>1, ApprovalIsADecision
  <2>3. dispatched[autoClearTimer.doc] < MaxInFlight
    BY <1>11, <2>1, <2>2 DEF Tick, Approving
  <2>4. dispatched' \in [Documents -> 0..MaxInFlight]
    BY <1>11, <2>1, <2>3 DEF Tick
  <2>5. QED
    BY <1>11, <2>4 DEF Tick
<1>12. CASE TimeoutFires
  <2>1. PICK e \in Documents : AutoApprove(e)
    BY <1>12 DEF TimeoutFires
  <2> DEFINE d == AutomaticApproval(e)
  <2>2. d \in Decision
    BY ApprovalIsADecision
  <2>3. deciding' = [deciding EXCEPT ![d] = @ + 1] /\ deciding[d] < MaxInFlight
    BY <2>1, <2>2 DEF AutoApprove, RecordDecision, RoomForApprovals, Approving
  <2>4. deciding' \in [Decision -> 0..MaxInFlight]
    BY <2>2, <2>3
  <2>5. dispatched' \in [Documents -> 0..MaxInFlight]
    BY <2>1 DEF AutoApprove
  <2>6. autoClearTimer' \in {None, autoClearTimer}
    BY <2>1 DEF AutoApprove, RecordDecision, Render
  <2>7. QED
    BY <2>1, <2>4, <2>5, <2>6 DEF AutoApprove, RecordDecision
<1>13. CASE \E c \in Decision : DecisionAnswered(c)
  <2>1. PICK d \in Decision : DecisionAnswered(d)
    BY <1>13
  <2>2. deciding' \in [Decision -> 0..MaxInFlight]
    BY <2>1 DEF DecisionAnswered
  <2>3. autoClearTimer' = None
    BY <2>1 DEF DecisionAnswered, Render
  <2>4. QED
    BY <2>1, <2>2, <2>3 DEF DecisionAnswered, Decision, Step
<1>14. CASE \E c \in Decision : DecisionFailed(c)
  <2>1. PICK d \in Decision : DecisionFailed(d)
    BY <1>14
  <2>2. deciding' \in [Decision -> 0..MaxInFlight]
    BY <2>1 DEF DecisionFailed
  <2>3. currentStep = "biometric" => uploadData \in Documents
    BY DEF ShownIsUndecided
  <2>4. (autoClearTimer \in [doc : Documents, remaining : 1..CountdownFrom] \cup {None})'
    BY <2>1, <2>3 DEF DecisionFailed, Render
  <2>5. QED
    BY <2>1, <2>2, <2>4 DEF DecisionFailed
<1>15. CASE Reset
  BY <1>15 DEF Reset, Step
<1>16. CASE UNCHANGED vars
  BY <1>16 DEF vars
<1>17. QED
  BY <1>1, <1>2, <1>3, <1>4, <1>5, <1>6, <1>7, <1>8, <1>9, <1>10, <1>11, <1>12, <1>13,
     <1>14, <1>15, <1>16
  DEF Next, DecisionEnds

(***************************************************************************)
(* Only an upload shows a document, with a fresh id, and an answer leaves  *)
(* its screens.                                                            *)
(***************************************************************************)
LEMMA ShownStep == ConsoleInv /\ [Next]_vars => ShownIsUndecided'
<1> SUFFICES ASSUME ConsoleInv, [Next]_vars PROVE ShownIsUndecided'
  OBVIOUS
<1> USE NoneIsNoDocument DEF
  ConsoleInv, TypeOK, Decision, Mounted, ShownIsUndecided, wizard, screen,
  inFlight, history
<1>1. CASE UploadDocument
  BY <1>1 DEF UploadDocument
<1>2. CASE UploadAnswered
  BY <1>2 DEF UploadAnswered, Render
<1>3. CASE UploadFailed
  BY <1>3 DEF UploadFailed
<1>4. CASE ProceedToBiometrics
  BY <1>4 DEF ProceedToBiometrics, Render
<1>5. CASE StartCamera
  BY <1>5 DEF StartCamera
<1>6. CASE CaptureAndVerify
  BY <1>6 DEF CaptureAndVerify
<1>7. CASE \E d \in Documents, result \in VerificationResult : VerificationAnswered(d, result)
  BY <1>7 DEF VerificationAnswered, Render
<1>8. CASE \E d \in Documents : VerificationFailed(d)
  BY <1>8 DEF VerificationFailed
<1>9. CASE Retake
  BY <1>9 DEF Retake, Render
<1>10. CASE \E verdict \in {"approve", "reject"} : OfficerDecides(verdict)
  <2>1. PICK verdict \in {"approve", "reject"} : OfficerDecides(verdict)
    BY <1>10
  <2> DEFINE d == [doc |-> uploadData, verdict |-> verdict, automatic |-> FALSE]
  <2>2. currentStep \in {"results", "biometric"} /\ d \in Decision /\ d.doc = uploadData
    BY <2>1 DEF OfficerDecides
  <2>3. \A c \in Decision : c # d => deciding'[c] = deciding[c]
    BY <2>1 DEF OfficerDecides, RecordDecision
  <2>4. QED
    BY <2>1, <2>2, <2>3 DEF OfficerDecides, RecordDecision
<1>11. CASE Tick
  BY <1>11 DEF Tick
<1>12. CASE TimeoutFires
  <2>1. PICK e \in Documents : AutoApprove(e)
    BY <1>12 DEF TimeoutFires
  <2>2. \A c \in Decision : c # AutomaticApproval(e) => deciding'[c] = deciding[c]
    BY <2>1, ApprovalIsADecision DEF AutoApprove, RecordDecision
  <2>3. e \in uploaded
    BY <2>1 DEF AutoApprove, TimersAreOfTheMatched
  <2>4. QED
    BY <2>1, <2>2, <2>3, ApprovalIsADecision DEF AutoApprove, RecordDecision
<1>13. CASE \E c \in Decision : DecisionAnswered(c)
  BY <1>13 DEF DecisionAnswered, Render
<1>14. CASE \E c \in Decision : DecisionFailed(c)
  BY <1>14 DEF DecisionFailed, Render
<1>15. CASE Reset
  BY <1>15 DEF Reset
<1>16. CASE UNCHANGED vars
  BY <1>16 DEF vars
<1>17. QED
  BY <1>1, <1>2, <1>3, <1>4, <1>5, <1>6, <1>7, <1>8, <1>9, <1>10, <1>11, <1>12, <1>13,
     <1>14, <1>15, <1>16
  DEF Next, DecisionEnds

(***************************************************************************)
(* Whatever takes the screen away or changes its result ends the           *)
(* countdown.  Nothing ends a timeout, but a match is never forgotten.     *)
(***************************************************************************)
LEMMA TimerStep == ConsoleInv /\ [Next]_vars => TimersAreOfTheMatched'
<1> SUFFICES ASSUME ConsoleInv, [Next]_vars PROVE TimersAreOfTheMatched'
  OBVIOUS
<1> USE NoneIsNoDocument DEF
  ConsoleInv, TypeOK, Decision, Mounted, IsMatched,
  TimersAreOfTheMatched, ShownIsUndecided, isVerifying, VerificationResult,
  wizard, screen, inFlight, history
<1>1. CASE UploadDocument
  BY <1>1 DEF UploadDocument
<1>2. CASE UploadAnswered
  BY <1>2 DEF UploadAnswered, Render
<1>3. CASE UploadFailed
  BY <1>3 DEF UploadFailed
<1>4. CASE ProceedToBiometrics
  BY <1>4 DEF ProceedToBiometrics, Render
<1>5. CASE StartCamera
  BY <1>5 DEF StartCamera
<1>6. CASE CaptureAndVerify
  BY <1>6 DEF CaptureAndVerify
<1>7. CASE \E d \in Documents, result \in VerificationResult : VerificationAnswered(d, result)
  BY <1>7 DEF VerificationAnswered, Render
<1>8. CASE \E d \in Documents : VerificationFailed(d)
  BY <1>8 DEF VerificationFailed
<1>9. CASE Retake
  BY <1>9 DEF Retake, Render
<1>10. CASE \E verdict \in {"approve", "reject"} : OfficerDecides(verdict)
  <2>1. PICK verdict \in {"approve", "reject"} : OfficerDecides(verdict)
    BY <1>10
  <2>2. autoClearTimer' = None
    BY <2>1 DEF OfficerDecides, RecordDecision, Render
  <2>3. QED
    BY <2>1, <2>2 DEF OfficerDecides, RecordDecision
<1>11. CASE Tick
  <2>1. autoClearTimer # None /\ autoClearTimer.doc \in matched
    BY <1>11 DEF Tick
  <2>2. \A e \in Documents : dispatched'[e] # dispatched[e] => e = autoClearTimer.doc
    BY <1>11, <2>1 DEF Tick
  <2>3. \A e \in Documents : dispatched'[e] > 0 => e \in matched
    BY <2>1, <2>2
  <2>4. QED
    BY <1>11, <2>1, <2>3 DEF Tick
<1>12. CASE TimeoutFires
  <2>1. PICK d \in Documents : AutoApprove(d)
    BY <1>12 DEF TimeoutFires
  <2>2. \A e \in Documents : dispatched'[e] > 0 => e \in matched
    BY <2>1 DEF AutoApprove
  <2>3. QED
    BY <2>1, <2>2 DEF AutoApprove, RecordDecision, Render
<1>13. CASE \E c \in Decision : DecisionAnswered(c)
  BY <1>13 DEF DecisionAnswered, Render
<1>14. CASE \E c \in Decision : DecisionFailed(c)
  BY <1>14 DEF DecisionFailed, Render
<1>15. CASE Reset
  BY <1>15 DEF Reset
<1>16. CASE UNCHANGED vars
  BY <1>16 DEF vars
<1>17. QED
  BY <1>1, <1>2, <1>3, <1>4, <1>5, <1>6, <1>7, <1>8, <1>9, <1>10, <1>11, <1>12, <1>13,
     <1>14, <1>15, <1>16
  DEF Next, DecisionEnds

(***************************************************************************)
(* The last tick of a countdown and the timeout it sets are the only steps *)
(* towards an automatic approval: the one waits for room, the other turns  *)
(* a timeout into a call.                                                  *)
(***************************************************************************)
LEMMA RoomStep == ConsoleInv /\ [Next]_vars => RoomForApprovals'
<1> SUFFICES ASSUME ConsoleInv, [Next]_vars, NEW e \in Documents
             PROVE  Approving(e)' <= MaxInFlight
  BY DEF RoomForApprovals
<1> DEFINE a == AutomaticApproval(e)
<1>1. a \in Decision
  BY ApprovalIsADecision
<1>2. /\ dispatched[e] \in Nat /\ deciding[a] \in Nat /\ MaxInFlight \in Nat
      /\ dispatched[e] + deciding[a] <= MaxInFlight
  BY <1>1, BoundsArePositive DEF ConsoleInv, TypeOK, RoomForApprovals, Approving
<1>3. SUFFICES dispatched'[e] + deciding'[a] <= MaxInFlight
  BY DEF Approving, AutomaticApproval
<1>4. CASE \E verdict \in {"approve", "reject"} : OfficerDecides(verdict)
  <2>1. PICK verdict \in {"approve", "reject"} : OfficerDecides(verdict)
    BY <1>4
  <2> DEFINE d == [doc |-> uploadData, verdict |-> verdict, automatic |-> FALSE]
  <2>2. a # d
    BY DEF AutomaticApproval
  <2>3. deciding' = [deciding EXCEPT ![d] = @ + 1] /\ dispatched' = dispatched
    BY <2>1 DEF OfficerDecides, RecordDecision
  <2>4. deciding'[a] = deciding[a]
    BY <1>1, <2>2, <2>3 DEF ConsoleInv, TypeOK
  <2>5. QED
    BY <1>2, <2>3, <2>4
<1>5. CASE Tick
  <2>1. deciding' = deciding
    BY <1>5 DEF Tick, inFlight
  <2>2. \/ dispatched'[e] = dispatched[e]
        \/ dispatched'[e] = dispatched[e] + 1 /\ Approving(e) < MaxInFlight
    BY <1>5 DEF Tick, ConsoleInv, TypeOK
  <2>3. QED
    BY <1>2, <2>1, <2>2 DEF Approving
<1>6. CASE TimeoutFires
  <2>1. PICK d \in Documents : AutoApprove(d)
    BY <1>6 DEF TimeoutFires
  <2>2. /\ dispatched' = [dispatched EXCEPT ![d] = @ - 1]
        /\ deciding' = [deciding EXCEPT ![AutomaticApproval(d)] = @ + 1]
    BY <2>1 DEF AutoApprove, RecordDecision
  <2>3. CASE e = d
    <3>1. dispatched'[e] = dispatched[e] - 1
      BY <2>2, <2>3 DEF ConsoleInv, TypeOK
    <3>2. deciding'[a] = deciding[a] + 1
      BY <1>1, <2>2, <2>3 DEF ConsoleInv, TypeOK
    <3>3. QED
      BY <1>2, <3>1, <3>2
  <2>4. CASE e # d
    <3>1. a # AutomaticApproval(d)
      BY <2>4, ApprovalIsADecision
    <3>2. dispatched'[e] = dispatched[e] /\ deciding'[a] = deciding[a]
      BY <1>1, <2>2, <2>4, <3>1 DEF ConsoleInv, TypeOK
    <3>3. QED
      BY <1>2, <3>2
  <2>5. QED
    BY <2>3, <2>4
<1>7. CASE DecisionEnds
  <2>1. PICK c \in Decision :
          deciding' = [deciding EXCEPT ![c] = @ - 1] /\ dispatched' = dispatched
    BY <1>7 DEF DecisionEnds, DecisionAnswered, DecisionFailed
  <2>2. deciding'[a] = deciding[a] \/ deciding'[a] = deciding[a] - 1
    BY <1>1, <2>1 DEF ConsoleInv, TypeOK
  <2>3. QED
    BY <1>2, <2>1, <2>2
<1>8. CASE UNCHANGED <<dispatched, deciding>>
  BY <1>2, <1>8
<1>9. QED
  BY <1>4, <1>5, <1>6, <1>7, <1>8
  DEF Next, vars, inFlight, UploadDocument, UploadAnswered, UploadFailed, ProceedToBiometrics,
      StartCamera, CaptureAndVerify, VerificationAnswered, VerificationFailed, Retake, Reset

LEMMA ConsoleInvariant == Spec => []ConsoleInv
<1>1. Init => ConsoleInv
  <2>1. Init => TypeOK
    <3>1. 0 \in 0..MaxInFlight
      BY BoundsArePositive
    <3>2. QED
      BY <3>1 DEF Init, TypeOK, Step
  <2>2. Init => ShownIsUndecided /\ TimersAreOfTheMatched /\ RoomForApprovals
    BY BoundsArePositive, ApprovalIsADecision
    DEF Init, ShownIsUndecided, TimersAreOfTheMatched, RoomForApprovals, Mounted, Approving
  <2>3. QED
    BY <2>1, <2>2 DEF ConsoleInv
<1>2. ConsoleInv /\ [Next]_vars => ConsoleInv'
  BY TypeStep, ShownStep, TimerStep, RoomStep DEF ConsoleInv
<1>3. QED
  BY <1>1, <1>2, PTL DEF Spec

-----------------------------------------------------------------------------
(***************************************************************************)
(* Types; in particular the timeout has room for its call when it is due.  *)
(***************************************************************************)
THEOREM ConsoleTypeCorrect == Spec => []TypeOK
<1>1. ConsoleInv => TypeOK
  BY DEF ConsoleInv
<1>2. QED
  BY <1>1, ConsoleInvariant, PTL

(***************************************************************************)
(* A step that submits a decision is a button or the timeout.              *)
(***************************************************************************)
LEMMA WhoSubmits ==
  ASSUME ConsoleInv, [Next]_vars, NEW c \in Decision, Submitted(c)
  PROVE  \/ /\ currentStep \in {"results", "biometric"} /\ c.doc = uploadData
            /\ ~c.automatic
         \/ \E d \in Documents : dispatched[d] > 0 /\ c = AutomaticApproval(d)
<1>1. deciding' # deciding /\ ~(deciding'[c] <= deciding[c])
  BY TypeStep DEF Submitted, ConsoleInv, TypeOK
<1> USE DEF Submitted
<1>2. CASE \E verdict \in {"approve", "reject"} : OfficerDecides(verdict)
  <2>1. PICK verdict \in {"approve", "reject"} : OfficerDecides(verdict)
    BY <1>2
  <2> DEFINE d == [doc |-> uploadData, verdict |-> verdict, automatic |-> FALSE]
  <2>2. deciding' = [deciding EXCEPT ![d] = @ + 1]
    BY <2>1 DEF OfficerDecides, RecordDecision
  <2>3. c = d
    BY <1>1, <2>2 DEF ConsoleInv, TypeOK
  <2>4. QED
    BY <2>1, <2>3 DEF OfficerDecides, Mounted
<1>3. CASE TimeoutFires
  <2>1. PICK d \in Documents : AutoApprove(d)
    BY <1>3 DEF TimeoutFires
  <2>2. deciding' = [deciding EXCEPT ![AutomaticApproval(d)] = @ + 1]
    BY <2>1 DEF AutoApprove, RecordDecision
  <2>3. c = AutomaticApproval(d)
    BY <1>1, <2>2 DEF ConsoleInv, TypeOK
  <2>4. QED
    BY <2>1, <2>3 DEF AutoApprove
<1>4. CASE DecisionEnds
  <2>1. PICK d \in Decision : deciding' = [deciding EXCEPT ![d] = @ - 1]
    BY <1>4 DEF DecisionEnds, DecisionAnswered, DecisionFailed
  <2>2. deciding'[c] <= deciding[c]
    BY <2>1 DEF ConsoleInv, TypeOK
  <2>3. QED
    BY <1>1, <2>2
<1>5. QED
  BY <1>1, <1>2, <1>3, <1>4
  DEF Next, vars, inFlight, UploadDocument, UploadAnswered, UploadFailed, ProceedToBiometrics,
      StartCamera, CaptureAndVerify, VerificationAnswered, VerificationFailed, Retake, Tick,
      Reset

(***************************************************************************)
(* The console never approves on its own a traveller whose live face has   *)
(* not matched.                                                            *)
(***************************************************************************)
THEOREM OnlyTheMatchedAreApproved == Spec => AutoApprovalWasMatched
<1>1. ASSUME ConsoleInv, [Next]_vars, NEW c \in Decision, Submitted(c), c.automatic
      PROVE  c.doc \in matched
  BY <1>1, WhoSubmits, ApprovalIsADecision DEF ConsoleInv, TimersAreOfTheMatched
<1>2. ConsoleInv /\ [Next]_vars =>
        [\A c \in Decision : Submitted(c) /\ c.automatic => c.doc \in matched]_vars
  BY <1>1
<1>3. QED
  BY <1>2, ConsoleInvariant, PTL DEF Spec, AutoApprovalWasMatched

(***************************************************************************)
(* A step that sets a timeout is the last tick of a countdown, which is of *)
(* a shown and therefore undecided document.                               *)
(***************************************************************************)
LEMMA WhoDispatches ==
  ASSUME ConsoleInv, [Next]_vars, NEW d \in Documents, ~(dispatched'[d] <= dispatched[d])
  PROVE  d \notin answered
<1>1. dispatched' # dispatched /\ dispatched[d] \in Nat
  BY DEF ConsoleInv, TypeOK
<1>2. CASE Tick
  <2>1. autoClearTimer # None /\ d = autoClearTimer.doc
    BY <1>1, <1>2 DEF Tick, ConsoleInv, TypeOK
  <2>2. QED
    BY <2>1 DEF ConsoleInv, TimersAreOfTheMatched, ShownIsUndecided, Mounted
<1>3. CASE TimeoutFires
  BY <1>1, <1>3 DEF TimeoutFires, AutoApprove, ConsoleInv, TypeOK
<1>4. QED
  BY <1>1, <1>2, <1>3
  DEF Next, vars, UploadDocument, UploadAnswered, UploadFailed, ProceedToBiometrics,
      StartCamera, CaptureAndVerify, VerificationAnswered, VerificationFailed, Retake,
      OfficerDecides, DecisionEnds, DecisionAnswered, DecisionFailed, Reset

(***************************************************************************)
(* Once a decision was answered, no button submits another for the         *)
(* document and no countdown sets a timeout to approve it.                 *)
(***************************************************************************)
THEOREM AnswersStartNothing == Spec => AnsweredStartsNothing
<1>1. ASSUME ConsoleInv, [Next]_vars, NEW d \in answered
      PROVE  /\ dispatched'[d] <= dispatched[d]
             /\ \A c \in Decision : c.doc = d /\ Submitted(c) => c.automatic
  <2>1. d \in Documents
    BY <1>1 DEF ConsoleInv, TypeOK
  <2>2. dispatched'[d] <= dispatched[d]
    BY <1>1, <2>1, WhoDispatches
  <2>3. ASSUME NEW c \in Decision, c.doc = d, Submitted(c)
        PROVE  c.automatic
    BY <1>1, <2>3, WhoSubmits, ApprovalIsADecision DEF ConsoleInv, ShownIsUndecided
  <2>4. QED
    BY <2>2, <2>3
<1>2. ConsoleInv /\ [Next]_vars =>
        [\A d \in answered :
           /\ dispatched'[d] <= dispatched[d]
           /\ \A c \in Decision : c.doc = d /\ Submitted(c) => c.automatic]_vars
  BY <1>1
<1>3. QED
  BY <1>2, ConsoleInvariant, PTL DEF Spec, AnsweredStartsNothing

-----------------------------------------------------------------------------
(***************************************************************************)
(* The steps that submit a decision: none is in flight, since the buttons  *)
(* wait for the flag and a timeout that is not late finds it down.         *)
(***************************************************************************)
LEMMA NewDecisionIsAlone ==
  ASSUME ConsoleInv, OneTravellerInv, ~overtaken, NEW c \in Decision, RecordDecision(c),
         ~isDeciding, c.doc = uploadData, currentStep \in {"results", "biometric"}
  PROVE  UploadsAreAlone' /\ DecisionsAreAlone' /\ ConfirmationIsOfOneTraveller'
<1>1. \A e \in Decision : deciding[e] \in Nat /\ ~(deciding[e] > 0)
  BY BoundsArePositive DEF ConsoleInv, TypeOK, OneTravellerInv, DecisionsAreAlone
<1>2. /\ \A e \in Decision : deciding'[e] = IF e = c THEN deciding[c] + 1 ELSE deciding[e]
      /\ isDeciding' /\ currentStep' = currentStep /\ uploadData' = uploadData
      /\ uploads' = uploads /\ isUploading' = isUploading
  BY DEF RecordDecision, ConsoleInv, TypeOK
<1>3. DecisionsAreAlone'
  BY <1>1, <1>2 DEF DecisionsAreAlone
<1>4. UploadsAreAlone'
  BY <1>2 DEF UploadsAreAlone, OneTravellerInv
<1>5. QED
  BY <1>2, <1>3, <1>4 DEF ConfirmationIsOfOneTraveller

(***************************************************************************)
(* Only a late timeout makes two decisions: every other step keeps calls   *)
(* and screens together.                                                   *)
(***************************************************************************)
LEMMA OneTravellerStep == ConsoleInv /\ OneTravellerInv /\ [Next]_vars => OneTravellerInv'
<1> SUFFICES ASSUME ConsoleInv, OneTravellerInv, [Next]_vars, ~overtaken'
             PROVE  /\ UploadsAreAlone' /\ DecisionsAreAlone' /\ TimeoutsAreInTime'
                    /\ ConfirmationIsOfOneTraveller'
  BY DEF OneTravellerInv
<1>0. ~overtaken
  BY DEF Next, vars, wizard, inFlight, history, UploadDocument, UploadAnswered, UploadFailed,
         ProceedToBiometrics, StartCamera, CaptureAndVerify, VerificationAnswered,
         VerificationFailed, Retake, OfficerDecides, Tick, TimeoutFires, AutoApprove,
         DecisionEnds, DecisionAnswered, DecisionFailed, Reset
<1>a. UploadsAreAlone /\ DecisionsAreAlone /\ TimeoutsAreInTime /\ ConfirmationIsOfOneTraveller
  BY <1>0 DEF OneTravellerInv
<1> USE DEF UploadsAreAlone, DecisionsAreAlone, TimeoutsAreInTime, ConfirmationIsOfOneTraveller,
            Mounted, wizard, screen, inFlight, history
<1>1. CASE UploadDocument
  BY <1>a, <1>1 DEF UploadDocument
<1>2. CASE UploadAnswered
  <2>1. uploads = 1 /\ currentStep = "upload"
    BY <1>a, <1>2 DEF UploadAnswered
  <2>2. QED
    BY <1>a, <1>2, <2>1 DEF UploadAnswered
<1>3. CASE UploadFailed
  <2>1. uploads = 1 /\ uploads' = 0
    BY <1>a, <1>3 DEF UploadFailed
  <2>2. QED
    BY <1>a, <1>3, <2>1 DEF UploadFailed
<1>4. CASE ProceedToBiometrics
  BY <1>a, <1>4 DEF ProceedToBiometrics
<1>5. CASE StartCamera
  BY <1>a, <1>5 DEF StartCamera
<1>6. CASE CaptureAndVerify
  BY <1>a, <1>6 DEF CaptureAndVerify
<1>7. CASE \E d \in Documents, result \in VerificationResult : VerificationAnswered(d, result)
  BY <1>a, <1>7 DEF VerificationAnswered
<1>8. CASE \E d \in Documents : VerificationFailed(d)
  BY <1>a, <1>8 DEF VerificationFailed
<1>9. CASE Retake
  BY <1>a, <1>9 DEF Retake
<1>10. CASE \E verdict \in {"approve", "reject"} : OfficerDecides(verdict)
  <2>1. PICK verdict \in {"approve", "reject"} : OfficerDecides(verdict)
    BY <1>10
  <2> DEFINE c == [doc |-> uploadData, verdict |-> verdict, automatic |-> FALSE]
  <2>2. ~isDeciding /\ currentStep \in {"results", "biometric"} /\ RecordDecision(c)
    BY <2>1 DEF OfficerDecides
  <2>3. c \in Decision /\ c.doc = uploadData
    BY <2>2 DEF ConsoleInv, TypeOK, ShownIsUndecided, Decision
  <2>4. UploadsAreAlone' /\ DecisionsAreAlone' /\ ConfirmationIsOfOneTraveller'
    BY <1>0, <2>2, <2>3, NewDecisionIsAlone
  <2>5. TimeoutsAreInTime'
    BY <1>a, <2>1 DEF OfficerDecides, RecordDecision
  <2>6. QED
    BY <2>4, <2>5
<1>11. CASE Tick
  <2>1. autoClearTimer # None /\ Mounted /\ autoClearTimer.doc = uploadData
    BY <1>11 DEF Tick, ConsoleInv, TimersAreOfTheMatched
  <2>2. \A d \in Documents : dispatched'[d] # dispatched[d] => d = uploadData
    BY <1>11, <2>1 DEF Tick, ConsoleInv, TypeOK
  <2>3. TimeoutsAreInTime'
    BY <1>a, <1>11, <2>1, <2>2 DEF Tick
  <2>4. QED
    BY <1>a, <1>11, <2>3 DEF Tick
<1>12. CASE TimeoutFires
  <2>1. PICK d \in Documents : AutoApprove(d)
    BY <1>12 DEF TimeoutFires
  <2>2. ~isDeciding /\ d \notin answered /\ RecordDecision(AutomaticApproval(d))
    BY <2>1 DEF AutoApprove
  <2>3. Mounted /\ uploadData = d
    BY <1>a, <2>1, <2>2 DEF AutoApprove
  <2>4. UploadsAreAlone' /\ DecisionsAreAlone' /\ ConfirmationIsOfOneTraveller'
    BY <1>0, <2>2, <2>3, ApprovalIsADecision, NewDecisionIsAlone
  <2>5. \A e \in Documents : dispatched'[e] > 0 => dispatched[e] > 0
    BY <2>1 DEF AutoApprove, ConsoleInv, TypeOK
  <2>6. TimeoutsAreInTime'
    BY <1>a, <2>1, <2>5 DEF AutoApprove, RecordDecision
  <2>7. QED
    BY <2>4, <2>6
<1>13. CASE DecisionEnds
  <2>1. PICK c \in Decision : DecisionAnswered(c) \/ DecisionFailed(c)
    BY <1>13 DEF DecisionEnds
  <2>2. /\ deciding[c] = 1 /\ c.doc = uploadData /\ currentStep \in {"results", "biometric"}
        /\ \A e \in Decision : deciding[e] > 0 => e = c
    BY <1>a, <2>1 DEF DecisionAnswered, DecisionFailed
  <2>3. deciding' = [deciding EXCEPT ![c] = @ - 1]
    BY <2>1 DEF DecisionAnswered, DecisionFailed
  <2>4. \A e \in Decision : ~(deciding'[e] > 0)
    BY <2>2, <2>3 DEF ConsoleInv, TypeOK
  <2>5. UploadsAreAlone'
    BY <1>a, <2>1, <2>2 DEF DecisionAnswered, DecisionFailed
  <2>6. TimeoutsAreInTime'
    BY <1>a, <2>1, <2>2 DEF DecisionAnswered, DecisionFailed
  <2>7. ConfirmationIsOfOneTraveller'
    BY <2>1, <2>2 DEF DecisionAnswered, DecisionFailed
  <2>8. QED
    BY <2>4, <2>5, <2>6, <2>7
<1>14. CASE Reset
  BY <1>a, <1>14 DEF Reset
<1>15. CASE UNCHANGED vars
  BY <1>a, <1>15 DEF vars
<1>16. QED
  BY <1>1, <1>2, <1>3, <1>4, <1>5, <1>6, <1>7, <1>8, <1>9, <1>10, <1>11, <1>12, <1>13,
     <1>14, <1>15
  DEF Next

(***************************************************************************)
(* Unless a timeout went off late, the confirmation shows the decision on  *)
(* the document it names, whatever was reset, retaken or failed before.    *)
(***************************************************************************)
THEOREM ConfirmationsAreOfOneTraveller == Spec => []ConfirmationIsOfOneTraveller
<1>1. Init => OneTravellerInv
  BY DEF Init, OneTravellerInv, UploadsAreAlone, DecisionsAreAlone, TimeoutsAreInTime,
         ConfirmationIsOfOneTraveller
<1>2. OneTravellerInv => ConfirmationIsOfOneTraveller
  BY DEF OneTravellerInv, ConfirmationIsOfOneTraveller
<1>3. QED
  BY <1>1, <1>2, OneTravellerStep, ConsoleInvariant, PTL DEF Spec
=============================================================================
