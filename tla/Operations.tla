----------------------------- MODULE Operations -----------------------------
(***************************************************************************)
(* Everything that opens the database file: the migrations, the runtime    *)
(* that answers clients, the operator's case command and the backup.       *)
(*                                                                         *)
(* The runtime is the database side of the client runtime whose other side *)
(* CloudRuntime models: node:sqlite is synchronous, so the statements of   *)
(* one message are not interleaved with those of another message of the    *)
(* same process, but they are with those of the other processes.           *)
(***************************************************************************)
EXTENDS Migrations, CaseCreation, Functions

CONSTANTS
  Runtime,         (* the connection of the runtime                        *)
  Backup,          (* the connection of the backup command                 *)
  StartDatabases,  (* the databases to start from                          *)
  Choices,         (* what a message may say                               *)
  Bound,           (* bounds: of each kind of event, how many happen in    *)
                   (* one behaviour,                                       *)
  MaxEvents        (* and of all kinds together                            *)

ASSUME ConnectionsAssumption ==
  /\ Connections = {Migrator, Runtime, Backup} \cup Operators
  /\ Migrator # Runtime /\ Migrator # Backup /\ Runtime # Backup
  /\ {Migrator, Runtime, Backup} \cap Operators = {}

VARIABLES
  runtime,   (* the local state of the runtime                             *)
  abandoned, (* history: the clients a message of whom was not processed   *)
             (* to its end                                                 *)
  start,     (* the database this behaviour started from                   *)
  budget     (* what has been used of the bounds                           *)

vars == <<txVars, migrator, operator, runtime, abandoned, start, budget>>

(* An interruption is an execution of the migrations that does not end, a  *)
(* fault a statement that throws or another process that dies.             *)
Events == {"interruption", "fault", "message", "command", "backup"}

RuntimeLabels ==
  {"down", "idle", "consent", "consentEvent", "intake", "state", "field", "event", "begin", "check",
   "create", "commit", "unwind"}

Ready == [pc |-> "idle", client |-> NoClient, content |-> {}, justGranted |-> FALSE,
          next |-> EmptyFile, left |-> {}]
Down  == [Ready EXCEPT !.pc = "down"]

At(label) == runtime.pc = label
Goto(label) == runtime' = [runtime EXCEPT !.pc = label]

Message == budget.message
Client == runtime.client
Database == View(Runtime)

Spend(what) ==
  /\ budget[what] < Bound[what]
  /\ SumFunction(budget) < MaxEvents
  /\ budget' = [budget EXCEPT ![what] = @ + 1]

Change(content) == Write(Runtime, content)

-----------------------------------------------------------------------------
(* The runtime *)

(* It starts only on a file to which every migration was applied.          *)
StartRuntime ==
  /\ At("down")
  /\ AllApplied(disk)
  /\ runtime' = Ready
  /\ UNCHANGED <<txVars, budget>>

TakeMessage ==
  /\ At("idle")
  /\ \E s \in Clients, content \in Choices :
       runtime' = [Ready EXCEPT !.pc = "consent", !.client = s, !.content = {content}]
  /\ Spend("message")
  /\ UNCHANGED txVars

Content == CHOOSE content \in runtime.content : TRUE

OldConsent == ConsentOf(Database, Client)
NewConsent == ConsentDecision(OldConsent, Content)

SetConsentState ==
  /\ At("consent")
  /\ IF NewConsent = OldConsent THEN Read(Runtime)
     ELSE Change(SetRows(Database, "consent_states",
                         Put(Rows(Database, "consent_states"), Client, NewConsent)))
  /\ IF NewConsent # OldConsent /\ NewConsent \in {"granted", "denied"}
     THEN runtime' = [runtime EXCEPT !.pc = "consentEvent", !.justGranted = NewConsent = "granted"]
     ELSE IF NewConsent = "granted" THEN Goto("intake") ELSE runtime' = Ready
  /\ UNCHANGED budget

(* The content of the event is left out, and so it is for the others.      *)
AppendConsentEvent ==
  /\ At("consentEvent")
  /\ Change(Database)
  /\ IF runtime.justGranted THEN Goto("intake") ELSE runtime' = Ready
  /\ UNCHANGED budget

(* Mutant: the fields are not written.                                     *)
AfterWritingNoFields(next, left) == IF next.state = "intake_complete" THEN "begin" ELSE "idle"

(* What follows once the fields in left are still to be written.           *)
AfterWriting(next, left) ==
  IF left # {} THEN "field"
  ELSE IF next.state = "intake_complete" THEN "begin" ELSE "idle"

ResolveIntake ==
  LET file == FileIn(Database, Client) IN
  /\ At("intake")
  /\ Exists(Database, "intake_states") /\ Exists(Database, "intake_fields")
  /\ LET records == NextRecords(file, Content, runtime.justGranted, Message) IN
     IF records = {} THEN runtime' = Ready
     ELSE \E next \in records :
            LET left == {f \in FieldNames : next.fields[f] \notin {Absent, file.fields[f]}} IN
            runtime' = [runtime EXCEPT !.pc = IF next.state # file.state THEN "state"
                                              ELSE AfterWriting(next, left),
                                       !.next = next, !.left = left, !.content = {}, !.justGranted = FALSE]
  /\ Read(Runtime)
  /\ UNCHANGED budget

SetIntakeState ==
  /\ At("state")
  /\ Change(SetRows(Database, "intake_states",
                    Put(Rows(Database, "intake_states"), Client, runtime.next.state)))
  /\ Goto("event")
  /\ UNCHANGED budget

SetIntakeField ==
  LET f == CHOOSE f \in runtime.left : \A g \in runtime.left : FieldRank[f] <= FieldRank[g] IN
  /\ At("field")
  /\ Change(SetRows(Database, "intake_fields",
                    Put(Rows(Database, "intake_fields"), <<Client, f>>, runtime.next.fields[f])))
  /\ runtime' = [runtime EXCEPT !.pc = "event", !.left = @ \ {f}]
  /\ UNCHANGED budget

(* The event of a state or of a field.                                     *)
AppendIntakeEvent ==
  /\ At("event")
  /\ Exists(Database, "intake_events")
  /\ Change(Database)
  /\ LET label == AfterWriting(runtime.next, runtime.left) IN
     IF label = "idle" THEN runtime' = Ready ELSE Goto(label)
  /\ UNCHANGED budget

(* createPracticeFromCompletedIntake, in a transaction.                    *)
BeginPractice ==
  /\ At("begin")
  /\ Enter(Runtime)
  /\ Goto("check")
  /\ UNCHANGED budget

BeginPracticeRefused ==
  /\ At("begin")
  /\ EnterFails(Runtime)
  /\ runtime' = Ready
  /\ UNCHANGED budget

CheckPractice ==
  /\ At("check")
  /\ Read(Runtime)
  /\ Goto(IF /\ Readable(Database)
             /\ ConsentOf(Database, Client) = "granted"
             /\ ReadyForPractice(FileIn(Database, Client))
          THEN "create" ELSE "unwind")
  /\ UNCHANGED budget

(* The code, the practice and its audit events.                            *)
InsertPractice ==
  /\ At("create")
  /\ Change(SetRows(Database, "practices", Put(Rows(Database, "practices"), Message, Client)))
  /\ Goto("commit")
  /\ UNCHANGED budget

CommitPractice ==
  /\ At("commit")
  /\ Leave(Runtime)
  /\ runtime' = Ready
  /\ UNCHANGED budget

CommitPracticeRefused ==
  /\ At("commit")
  /\ ~CanLeave(Runtime)
  /\ Goto("unwind")
  /\ UNCHANGED <<txVars, budget>>

UnwindPractice ==
  /\ At("unwind")
  /\ Unwind(Runtime)
  /\ runtime' = Ready
  /\ UNCHANGED budget

(* A statement throws: the database is locked, its table is missing, or    *)
(* any other reason.  The message is answered 500 and comes again.         *)
Abandon ==
  /\ IF At("create") THEN Goto("unwind") ELSE runtime' = Ready
  /\ abandoned' = abandoned \cup {Client}

RuntimeLocked ==
  /\ \/ runtime.pc \in {"consentEvent", "state", "field", "event", "create"}
     \/ At("consent") /\ NewConsent # OldConsent
  /\ ~CanWrite(Runtime)
  /\ Abandon
  /\ UNCHANGED <<txVars, budget>>

TableIsMissing ==
  /\ \/ At("intake") /\ ~(Exists(Database, "intake_states") /\ Exists(Database, "intake_fields"))
     \/ At("event") /\ ~Exists(Database, "intake_events")
  /\ Abandon
  /\ UNCHANGED <<txVars, budget>>

RuntimeStatementThrows ==
  /\ runtime.pc \in {"consent", "consentEvent", "intake", "state", "field", "event", "create"}
  /\ Spend("fault")
  /\ Abandon
  /\ UNCHANGED txVars

(* The container is restarted.                                             *)
RuntimeDies ==
  /\ ~At("down")
  /\ Spend("fault")
  /\ Close(Runtime)
  /\ runtime' = Down
  /\ abandoned' = abandoned \cup ({Client} \ {NoClient})

Serve ==
  /\ UNCHANGED abandoned
  /\ \/ StartRuntime \/ TakeMessage \/ SetConsentState \/ AppendConsentEvent
     \/ ResolveIntake \/ SetIntakeState \/ SetIntakeField \/ AppendIntakeEvent
     \/ BeginPractice \/ BeginPracticeRefused \/ CheckPractice \/ InsertPractice
     \/ CommitPractice \/ CommitPracticeRefused \/ UnwindPractice

ServeBadly == RuntimeLocked \/ TableIsMissing \/ RuntimeStatementThrows \/ RuntimeDies

-----------------------------------------------------------------------------
(* business:backup copies a migrated file by VACUUM INTO.                  *)
StartBackup ==
  /\ AllApplied(disk)
  /\ BeginRead(Backup)
  /\ Spend("backup")

EndBackup ==
  /\ open[Backup] = "reading"
  /\ Close(Backup)
  /\ UNCHANGED budget

-----------------------------------------------------------------------------
(* The databases to start from *)

(* A case and the audit event of its creation are there together.          *)
Audited(db) ==
  \A s \in Clients :
    s \in Keys(db, "cases") <=> <<"case_created_from_intake", s>> \in Keys(db, "audit_events")

(* Of the cases of an older release, wherever their table is, the ids are  *)
(* numbers; none of them was created by case:create-from-intake.           *)
Numbered(db) ==
  /\ \A t \in {"cases", LegacyOf["cases"], NewOf["cases"]} : \A id \in Keys(db, t) :
       /\ id \in Nat
       /\ LET row == Rows(db, t)[id] IN
          row = [subject |-> row.subject, status |-> row.status, summary |-> row.summary]
  /\ \A s \in Clients : <<"case_created_from_intake", s>> \notin Keys(db, "audit_events")

(* The key of a field is its client and its name; the CHECK constraints of *)
(* the present tables.                                                     *)
Constrained(db) ==
  /\ Form(db, "intake_states") = "new" => \A s \in Keys(db, "intake_states") : StateOf(db, s) # "asking_name"
  /\ \A k \in Keys(db, "intake_fields") :
       k = <<k[1], k[2]>> /\ (Form(db, "intake_fields") = "new" => k[2] \in FieldNames)

(* A case is one of a client; those that case:create-from-intake created   *)
(* are drafts of the client they are named for: nothing closes a case.     *)
CasesOfClients(db) ==
  \A id \in Keys(db, "cases") :
    LET row == Rows(db, "cases")[id] IN
    /\ row.subject \in Clients
    /\ id \in Clients => row.subject = id /\ row.status = "draft"

(* As the runtime leaves a client all of whose messages it has processed:  *)
(* nobody completes, or has a draft case, without consent, and who was     *)
(* asked for attachments has given every other answer.  An older release   *)
(* asked for fewer.                                                        *)
InOrder(db, s) ==
  /\ StateOf(db, s) = "intake_complete" \/ DraftsOf(db, s) # {} => ConsentOf(db, s) = "granted"
  /\ StateOf(db, s) \in {"asking_attachments", "intake_complete"} =>
       \A f \in CaseFields : FieldsOf(db, s)[f] # Absent

(* A questionnaire that was completed has an answer on attachments, unless *)
(* it lacks others too.  (It may be an old one, whose name the migrations  *)
(* will split in two.)                                                     *)
AttachmentsAnswered(db, s) ==
  (/\ StateOf(db, s) = "intake_complete"
   /\ \A f \in CaseFields \ {"firstName", "lastName"} : FieldsOf(db, s)[f] # Absent)
  => FieldsOf(db, s)["attachmentMetadata"] # Absent

(* The tables that the recorded migrations have created or rebuilt.        *)
WellShaped(db) ==
  /\ \A i \in db.applied : i < HardenCases => Exists(db, CreatedBy[i])
  /\ HardenCases \in db.applied => Form(db, "cases") = "new"
  /\ CreateRegistry \in db.applied => IntakeIsNormalized(db) /\ Exists(db, "practices")

(* What a run of the migrations, interrupted or not, leaves behind.        *)
AtRest(db) ==
  /\ IsDatabase(db)
  /\ \A t \in Tables : /\ Rows(db, t) = [key \in Keys(db, t) |-> Rows(db, t)[key]]
                       /\ ~Exists(db, t) => Rows(db, t) = <<>>
  /\ \A t \in Tables \ Leftovers : Form(db, t) \in {"missing", "new"} \/ (t \in Rebuilt /\ Form(db, t) = "old")
  /\ NoLeftovers(db) => WellShaped(db)
  /\ Constrained(db) /\ CasesOfClients(db)
  /\ \A i \in db.applied : 1 .. i \subseteq db.applied
  /\ HardenCases \in db.applied => Exists(db, "cases")
  /\ EnforceUniqueness \in db.applied => db.index /\ OneDraftEach(db)
  /\ IF AllApplied(db) THEN Audited(db) ELSE Numbered(db)

(* What is no client and no answer.                                        *)
ASSUME NamesAssumption == NoClient \notin Clients /\ Absent \notin Nat /\ Absent # NoFiles

ASSUME StartAssumption ==
  /\ \A s \in Clients : s \notin Nat
  /\ \A db \in StartDatabases : AtRest(db)

-----------------------------------------------------------------------------
Init ==
  /\ start \in StartDatabases
  /\ InitTx(start)
  /\ migrator = NotMigrating
  /\ operator = [o \in Operators |-> Waiting]
  /\ runtime = Down
  /\ abandoned = {}
  /\ budget = [e \in Events |-> 0]

MigratorStep ==
  /\ \/ Migrate /\ UNCHANGED budget
     \/ MigratorDies /\ Spend("interruption")
  /\ UNCHANGED <<operator, runtime, abandoned, start>>

OperatorStep ==
  /\ \E o \in Operators :
       \/ \E s \in Clients :
            RunCommand(o, s) /\ Spend("command")
       \/ CreateCase(o) /\ UNCHANGED budget
       \/ CaseStatementThrows(o) /\ Spend("fault")
       \/ OperatorDies(o) /\ Spend("fault")
  /\ UNCHANGED <<migrator, runtime, abandoned, start>>

RuntimeStep == (Serve \/ ServeBadly) /\ UNCHANGED <<migrator, operator, start>>

BackupStep == (StartBackup \/ EndBackup) /\ UNCHANGED <<migrator, operator, runtime, abandoned, start>>

Next == MigratorStep \/ OperatorStep \/ RuntimeStep \/ BackupStep

Spec == Init /\ [][Next]_vars

(* The migrations are run again until they end, since nothing else starts  *)
(* before: the runtime and every command refuse a file with pending        *)
(* migrations.  A run that has begun goes on.                              *)
FairSpec ==
  /\ Spec
  /\ WF_vars(Migrate /\ UNCHANGED <<operator, runtime, abandoned, start, budget>>)

-----------------------------------------------------------------------------
(* Properties *)

TypeOK ==
  /\ lock \in [Connections -> Locks] /\ open \in [Connections -> Opened]
  /\ depth \in [Connections -> Nat] /\ calls \in [Connections -> Nat]
  /\ migrator.stage \in Stages
  /\ \A o \in Operators : operator[o].pc \in OperatorLabels
  /\ runtime.pc \in RuntimeLabels
  /\ disk.applied \subseteq Migrations /\ pending.applied \subseteq Migrations
  /\ DOMAIN disk.table = Tables /\ DOMAIN pending.table = Tables

(* No row of the database the upgrade started from is destroyed, wherever  *)
(* it is interrupted: each is in its table, in the one set aside or,       *)
(* copied, in the new one.                                                 *)
NothingDestroyed ==
  \A t \in Rebuilt :
    LET old == Keys(start, t) IN
    \E u \in {t, NewOf[t], LegacyOf[t]} :
       old \subseteq Keys(disk, u) \/ DOMAIN Copied(t, Rows(start, t)) \subseteq Keys(disk, u)

(* When every migration is recorded and no table was left aside, the       *)
(* upgrade did what it says: all tables are in their present form with all *)
(* their rows, of several drafts of a client the earliest is still one and *)
(* the others are archived, and no questionnaire has lost its place.       *)
UninterruptedUpgradeIsFaithful ==
  AllApplied(disk) /\ NoLeftovers(disk) =>
    /\ UpToDate(disk)
    /\ \A id \in Keys(start, "cases") :
         LET row == Rows(start, "cases")[id] IN
         /\ id \in Keys(disk, "cases")
         /\ Rows(disk, "cases")[id].subject = row.subject
         /\ Rows(disk, "cases")[id].status =
              IF row.status = "draft" /\ \E d \in DraftsOf(start, row.subject) \ {id} : d < id
              THEN "duplicate_archived" ELSE row.status
    /\ DOMAIN Copied("intake_fields", Rows(start, "intake_fields")) \subseteq Keys(disk, "intake_fields")
    /\ budget.message = 0 =>
         Rows(disk, "intake_states") = [s \in Keys(start, "intake_states") |->
           IF StateOf(start, s) = "asking_name" THEN "asking_identity" ELSE StateOf(start, s)]

(* docs/PERSISTENCE.md says that databases from before M17 are upgraded in *)
(* place and keep their cases.                                             *)
UpgradeKeepsCases == AllApplied(disk) => Keys(start, "cases") \subseteq Keys(disk, "cases")

(* The case doctor finds nothing once the migrations are recorded, however *)
(* often they were interrupted and whatever is created afterwards.         *)
MigratedIsHealthy == AllApplied(disk) => DoctorHealthy(disk)

(* A case and its audit event are committed together or not at all, also   *)
(* when a statement between them throws or the process dies.               *)
CaseHasItsAudit == Audited(disk)

(* The alarms of business:check on a database whose upgrade was not        *)
(* interrupted: a client with a draft case who has begun a new request,    *)
(* and one whose questionnaire lacks a field because a message of his was  *)
(* not processed to its end, nothing else.  (Clients who were not in order *)
(* at the start are left aside, among them those who had completed the     *)
(* questionnaire of an older release; nobody asks them for the rest.)      *)
AlarmsAreExplained ==
  AllApplied(disk) /\ NoLeftovers(disk) =>
    \A s \in Clients :
      InOrder(start, s) =>
        CheckErrorsOf(disk, s) \subseteq
          {"draft_case_without_completed_intake"} \cup
          (IF s \in abandoned THEN {"completed_intake_missing_required_fields"} ELSE {})

(* The operator finds whoever a case can be made for: a client who meets   *)
(* the preconditions of case:create-from-intake is on the list of          *)
(* intake:list-ready, unless his answer is being written or a message of   *)
(* his was not processed to its end (businessPersistenceService.ts:104),   *)
(* or an earlier one before the start.                                     *)
CompletedIsListed ==
  AllApplied(disk) =>
    \A s \in Clients \ (abandoned \cup {runtime.client}) :
      AttachmentsAnswered(start, s) /\ CanCreateCase(disk, s) => s \in ReadyIntakes(disk)

(* A case is created from what is committed at the same moment: a granted  *)
(* consent, a complete questionnaire, its summary, and no other draft.     *)
CasesMatchCommittedIntake ==
  [][\A s \in Clients :
       s \in Keys(disk', "cases") \ Keys(disk, "cases") =>
         /\ ConsentOf(disk, s) = "granted"
         /\ StateOf(disk, s) = "intake_complete"
         /\ Rows(disk', "cases")[s].summary = FieldsOf(disk, s)["problemSummary"]
         /\ DraftsOf(disk, s) = {}]_vars

(* The transactions of all processes, deferred ones included, take effect  *)
(* one at a time.                                                          *)
Serial == INSTANCE SerialStore WITH
  content <- disk,
  looked  <- seen

SerialSpec == Serial!Spec

(* Interrupted or not, running the migrations again ends with all of them  *)
(* recorded: no leftover of an interrupted rebuild is in the way.          *)
UpgradeCompletes == <>[]AllApplied(disk)
=============================================================================
