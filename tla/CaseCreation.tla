---------------------------- MODULE CaseCreation ----------------------------
(***************************************************************************)
(* The operator's command that turns a completed questionnaire into a case *)
(* (app/caseCreateFromIntake.ts, domain/cases/caseCreationService.ts), and *)
(* the commands that only read: the list of completed questionnaires, the  *)
(* business check and the case doctor.                                     *)
(*                                                                         *)
(* An execution of the command is a process with a connection of its own.  *)
(* Between two of its statements the other processes run.                  *)
(***************************************************************************)
EXTENDS Schema, TransactionRunner

CONSTANTS
  Clients,    (* the subjects                                              *)
  Operators,  (* the connections of the executions of the command          *)
  NoClient    (* no subject                                                *)

VARIABLES
  operator    (* the local state of each execution                         *)

Waiting == [pc |-> "idle", subject |-> NoClient, summary |-> Absent]

OperatorLabels ==
  {"idle", "begin", "check", "savepoint", "insert", "audit", "release", "hit", "commit", "unwind"}

OperatorAt(o, label) == operator[o].pc = label
OperatorGoes(o, label) == operator' = [operator EXCEPT ![o].pc = label]
OperatorExits(o) == operator' = [operator EXCEPT ![o] = Waiting]

-----------------------------------------------------------------------------
(* What the queries of the commands find in a content *)

ConsentOf(db, s) == IF s \in Keys(db, "consent_states") THEN Rows(db, "consent_states")[s] ELSE "unknown"

StateOf(db, s) == IF s \in Keys(db, "intake_states") THEN Rows(db, "intake_states")[s] ELSE "not_started"

FieldsOf(db, s) ==
  [f \in FieldNames |-> IF <<s, f>> \in Keys(db, "intake_fields")
                        THEN Rows(db, "intake_fields")[<<s, f>>] ELSE Absent]

FileIn(db, s) == [state |-> StateOf(db, s), fields |-> FieldsOf(db, s)]

BusinessTables == {"cases", "consent_states", "intake_states", "intake_fields"}
Readable(db) == \A t \in BusinessTables : Exists(db, t)

CaseFields == IdentityFields \cup {"problemSummary"}

(* Mutant: the state of the questionnaire is not looked at.                *)
CanCreateCaseByFields(db, s) ==
  /\ Readable(db)
  /\ ConsentOf(db, s) = "granted"
  /\ \A f \in CaseFields : FieldsOf(db, s)[f] # Absent

(* The preconditions of createCaseFromCompletedIntake, but that the values *)
(* are validated once more: the runtime stored only accepted ones; what    *)
(* validation refuses is a CaseStatementThrows at "check".                 *)
CanCreateCase(db, s) ==
  /\ Readable(db)
  /\ ConsentOf(db, s) = "granted"
  /\ StateOf(db, s) = "intake_complete"
  /\ \A f \in CaseFields : FieldsOf(db, s)[f] # Absent

(* Mutant: a client without attachments is left out.                       *)
ReadyIntakesWithFiles(db) ==
  {s \in Clients :
     /\ StateOf(db, s) = "intake_complete" /\ ConsentOf(db, s) = "granted"
     /\ \A f \in FieldNames : FieldsOf(db, s)[f] \notin {Absent, NoFiles}}

(* What intake:list-ready lists.                                           *)
ReadyIntakes(db) ==
  {s \in Clients :
     /\ StateOf(db, s) = "intake_complete" /\ ConsentOf(db, s) = "granted"
     /\ \A f \in FieldNames : FieldsOf(db, s)[f] # Absent}

(* What business:check reports of a client.  A questionnaire with no field *)
(* at all is not counted among those that miss some.                       *)
CheckErrorsOf(db, s) ==
  LET complete == StateOf(db, s) = "intake_complete"
      granted  == ConsentOf(db, s) = "granted"
      present  == {f \in CaseFields : FieldsOf(db, s)[f] # Absent}
  IN
  {e \in {"completed_intake_without_granted_consent", "completed_intake_missing_required_fields",
          "draft_case_without_completed_intake", "draft_case_without_granted_consent",
          "duplicate_draft_subjects"} :
     CASE e = "completed_intake_without_granted_consent" -> complete /\ ~granted
       [] e = "completed_intake_missing_required_fields" ->
            complete /\ present # {} /\ present # CaseFields
       [] e = "draft_case_without_completed_intake" -> DraftsOf(db, s) # {} /\ ~complete
       [] e = "draft_case_without_granted_consent" -> DraftsOf(db, s) # {} /\ ~granted
       [] e = "duplicate_draft_subjects" -> \E c, d \in DraftsOf(db, s) : c # d}

OneDraftEach(db) == \A s \in Clients : \A c, d \in DraftsOf(db, s) : c = d

(* case:doctor                                                             *)
DoctorHealthy(db) ==
  /\ AllApplied(db) /\ Exists(db, "cases")
  /\ db.index /\ OneDraftEach(db)

-----------------------------------------------------------------------------
(* The command.  It asserts that every migration is applied; the name the  *)
(* operator gives is a subject, or the token of one in ReadyIntakes; a     *)
(* token of nobody on that list ends the command with nothing changed.     *)
RunCommand(o, s) ==
  /\ OperatorAt(o, "idle")
  /\ AllApplied(disk)
  /\ operator' = [operator EXCEPT ![o] = [Waiting EXCEPT !.pc = "begin", !.subject = s]]
  /\ UNCHANGED txVars

BeginCase(o) ==
  /\ OperatorAt(o, "begin")
  /\ Enter(o)
  /\ OperatorGoes(o, "check")

(* The database is locked: the command fails, and its runner with it.      *)
BeginCaseRefused(o) ==
  /\ OperatorAt(o, "begin")
  /\ ~Writable(o)
  /\ OperatorExits(o)
  /\ UNCHANGED txVars

(* An existing draft is returned whatever has become of the questionnaire. *)
CheckIntake(o) ==
  LET db == View(o)
      s  == operator[o].subject
  IN
  /\ OperatorAt(o, "check")
  /\ Read(o)
  /\ IF DraftsOf(db, s) # {} THEN OperatorGoes(o, "hit")
     ELSE IF CanCreateCase(db, s)
     THEN operator' = [operator EXCEPT ![o].pc = "savepoint",
                                       ![o].summary = FieldsOf(db, s)["problemSummary"]]
     ELSE OperatorGoes(o, "unwind")

(* createCaseWithAudit is a transaction within the transaction.            *)
OpenSavepoint(o) ==
  /\ OperatorAt(o, "savepoint")
  /\ Enter(o)
  /\ OperatorGoes(o, "insert")

NewCase(o) ==
  [subject |-> operator[o].subject, status |-> "draft", summary |-> operator[o].summary]

(* The reference of a case is a digest of its subject and time; a client   *)
(* has one draft at most, so his name identifies his.                      *)
InsertCase(o) ==
  LET s == operator[o].subject IN
  /\ OperatorAt(o, "insert")
  /\ IF View(o).index /\ DraftsOf(View(o), s) # {}
     THEN OperatorGoes(o, "unwind") /\ UNCHANGED txVars
     ELSE /\ Write(o, SetRows(View(o), "cases", Put(Rows(View(o), "cases"), s, NewCase(o))))
          /\ OperatorGoes(o, "audit")

AppendAudit(o, kind, id) ==
  Write(o, SetRows(View(o), "audit_events",
                   Put(Rows(View(o), "audit_events"), <<kind, id>>, id)))

AppendCaseAudit(o) ==
  /\ OperatorAt(o, "audit")
  /\ AppendAudit(o, "case_created_from_intake", operator[o].subject)
  /\ OperatorGoes(o, "release")

ReleaseSavepoint(o) ==
  /\ OperatorAt(o, "release")
  /\ Leave(o)
  /\ OperatorGoes(o, "commit")

AppendHitAudit(o) ==
  /\ OperatorAt(o, "hit")
  /\ \E id \in DraftsOf(View(o), operator[o].subject) :
       AppendAudit(o, "case_create_from_intake_idempotent_hit", id)
  /\ OperatorGoes(o, "commit")

CommitCase(o) ==
  /\ OperatorAt(o, "commit")
  /\ Leave(o)
  /\ OperatorExits(o)

(* A reader keeps the COMMIT from happening.                               *)
CommitCaseRefused(o) ==
  /\ OperatorAt(o, "commit")
  /\ ~CanLeave(o)
  /\ OperatorGoes(o, "unwind")
  /\ UNCHANGED txVars

(* The exception passes each runInTransaction in turn and ends the command. *)
UnwindCase(o) ==
  /\ OperatorAt(o, "unwind")
  /\ Unwind(o)
  /\ IF calls[o] > 1 THEN UNCHANGED operator ELSE OperatorExits(o)

CreateCase(o) ==
  \/ BeginCase(o) \/ BeginCaseRefused(o) \/ CheckIntake(o)
  \/ OpenSavepoint(o) \/ InsertCase(o) \/ AppendCaseAudit(o) \/ ReleaseSavepoint(o)
  \/ AppendHitAudit(o) \/ CommitCase(o) \/ CommitCaseRefused(o) \/ UnwindCase(o)

(* Faults: a statement within the transaction throws; the process dies.    *)
CaseStatementThrows(o) ==
  /\ operator[o].pc \notin {"idle", "begin", "unwind"}
  /\ OperatorGoes(o, "unwind")
  /\ UNCHANGED txVars

OperatorDies(o) ==
  /\ operator[o].pc # "idle"
  /\ Close(o)
  /\ OperatorExits(o)
=============================================================================
