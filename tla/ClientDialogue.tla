--------------------------- MODULE ClientDialogue ---------------------------
(***************************************************************************)
(* The two pure decisions the client runtime takes on an inbound message:  *)
(* what it means for the consent of its sender (runtime/client/consent.ts) *)
(* and how it moves the intake questionnaire (runtime/client/intake.ts).   *)
(*                                                                         *)
(* A text is abstracted to what the code's parsers find in it: a record    *)
(*   blank      nothing but white space                                    *)
(*   consent    the strict consent form it matches, else "unknown"         *)
(*   extracts   the identity fields the extraction can read from it        *)
(*   overrides  those among them that replace a value already on file (a   *)
(*              birth date always does, names and city do when the text    *)
(*              lists at least three comma-separated segments)             *)
(*   summary    it is an acceptable problem summary (1 to 500 characters)  *)
(*   skip       it is one of the phrases that skip the attachments         *)
(*   files      the message carries supported media                        *)
(* A stored value is the id of the message it was read from.               *)
(***************************************************************************)

CONSTANTS
  Absent,    (* the value of a field that is not on file                   *)
  NoFiles    (* the attachment metadata of a skipped step, the text "[]"   *)

ConsentStates == {"unknown", "requested", "granted", "denied"}

IntakeStates == {"not_started", "asking_identity", "asking_problem_summary",
                 "asking_attachments", "intake_complete"}

IdentityFields == {"firstName", "lastName", "birthDate", "city"}

FieldNames == IdentityFields \cup {"problemSummary", "attachmentMetadata"}

(* The order in which persistIntakeRecord writes the fields.               *)
FieldRank ==
  [firstName |-> 1, lastName |-> 2, birthDate |-> 3, city |-> 4,
   problemSummary |-> 5, attachmentMetadata |-> 6]

Contents ==
  [blank : BOOLEAN, consent : {"granted", "denied", "unknown"},
   extracts : SUBSET IdentityFields, overrides : SUBSET IdentityFields,
   summary : BOOLEAN, skip : BOOLEAN, files : BOOLEAN]

(* What the store knows of a client's questionnaire.                       *)
Files(Values) == [state : IntakeStates, fields : [FieldNames -> Values]]

EmptyFile ==
  [state |-> "not_started", fields |-> [f \in FieldNames |-> Absent]]

-----------------------------------------------------------------------------
(* Mutant: a later strict form overturns a decision already taken.         *)
ConsentDecisionReopened(current, content) ==
  IF content.consent # "unknown" THEN content.consent
  ELSE IF current \in {"granted", "denied"} THEN current
  ELSE "requested"

(* resolveConsentRuntimeDecision: granted and denied are final, and only   *)
(* a strict form moves a client there.                                     *)
ConsentDecision(current, content) ==
  IF current \in {"granted", "denied"} THEN current
  ELSE IF content.consent # "unknown" THEN content.consent
  ELSE "requested"

-----------------------------------------------------------------------------
HasCompleteIdentity(fields) == \A f \in IdentityFields : fields[f] # Absent

(* extractIdentity, started from the fields on file.                       *)
ExtractIdentity(fields, content, m) ==
  [f \in FieldNames |->
     IF f \in content.overrides \/ (f \in content.extracts /\ fields[f] = Absent)
     THEN m ELSE fields[f]]

(* The answer to a question is the set of records to persist next: a       *)
(* singleton, or empty when the answer is rejected and nothing is written. *)

AnswerIdentity(file, content, m) ==
  LET fields == ExtractIdentity(file.fields, content, m) IN
  IF HasCompleteIdentity(fields)
  THEN {[state  |-> IF fields["problemSummary"] # Absent
                    THEN "asking_attachments" ELSE "asking_problem_summary",
         fields |-> fields]}
  ELSE IF \E f \in IdentityFields : fields[f] # Absent
  THEN {[state |-> "asking_identity", fields |-> fields]}
  ELSE {}

AnswerAttachments(file, content, m) ==
  IF content.files \/ content.skip
  THEN {[state  |-> "intake_complete",
         fields |-> [file.fields EXCEPT
                       !["attachmentMetadata"] = IF content.files THEN m ELSE NoFiles]]}
  ELSE {}

(* Mutant: a summary already on file wins over the new one.                *)
AnswerProblemSummaryKept(file, content, m) ==
  IF ~content.summary THEN {}
  ELSE IF ~HasCompleteIdentity(file.fields)
       THEN {[file EXCEPT !.state = "asking_identity"]}
       ELSE {[state  |-> "asking_attachments",
              fields |-> [file.fields EXCEPT !["problemSummary"] = IF @ = Absent THEN m ELSE @]]}

AnswerProblemSummary(file, content, m) ==
  IF ~content.summary THEN {}
  ELSE IF ~HasCompleteIdentity(file.fields)
       THEN {[file EXCEPT !.state = "asking_identity"]}
       ELSE {[state  |-> "asking_attachments",
              fields |-> [file.fields EXCEPT !["problemSummary"] = m]]}

(* A client whose questionnaire is finished opens a new practice request.  *)
StartsNewRequest(file) ==
  /\ file.state = "intake_complete"
  /\ HasCompleteIdentity(file.fields)
  /\ file.fields["problemSummary"] # Absent

(* resolveClientIntakeRuntimeDecision                                      *)
NextRecords(file, content, justGranted, m) ==
  IF StartsNewRequest(file)
  THEN {[file EXCEPT !.state = "asking_problem_summary"]}
  ELSE IF justGranted \/ file.state = "not_started"
  THEN {[file EXCEPT !.state = "asking_identity"]}
  ELSE CASE file.state = "asking_identity"    -> AnswerIdentity(file, content, m)
         [] file.state = "asking_attachments" -> AnswerAttachments(file, content, m)
         [] OTHER                             -> AnswerProblemSummary(file, content, m)

(* Mutant: the fields are not validated again.                             *)
ReadyForPracticeByState(file) == file.state = "intake_complete"

(* The validation of createPracticeFromCompletedIntake.                    *)
ReadyForPractice(file) ==
  /\ file.state = "intake_complete"
  /\ \A f \in IdentityFields \cup {"problemSummary"} : file.fields[f] # Absent
=============================================================================
