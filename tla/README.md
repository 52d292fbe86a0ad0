# Legalbot in TLA+

This directory holds formal models of Legalbot, the WhatsApp intake bot of a law
firm: TLA+ modules, the TLC configurations that check them on small instances,
and theorems about them that TLAPS proves for every instance. Paths below are
relative to the repository (`src/...` is the program's source directory).

## 1. The system

A client writes on WhatsApp; the bot asks for consent, for the client's identity,
the legal issue and attachments, and opens a practice with a code `AA001...ZZ999`.
The lawyer asks the bot for lists. Two transports exist: the WhatsApp Cloud API
(webhooks, production) and OpenWA (a browser client, smoke tests).

| Component | State it keeps | Operations | Hard part |
|---|---|---|---|
| Cloud webhook runtime (`src/app/whatsappCloudRuntime.ts`) | none of its own; one execution of the handler per request | deliver, skip duplicate, reply, mark processed, answer 200/400/500, stop | retries, duplicates, overlapping deliveries, crash between two steps |
| Client runtime (`src/runtime/client/*`) | consent, questionnaire (in SQLite) | one decision and its writes per message | several autocommitted writes per message, consent as a gate |
| Identity extraction (`src/domain/intake/*`) | none | which fields a text yields | which answers replace stored ones |
| Practice creation (`src/domain/practices/*`) | practices, code sequence (in SQLite) | create in one transaction, idempotent by message | preconditions, overflow of codes, atomicity |
| SQLite stores (`src/persistence/sqlite/*`) | tables | read, upsert, append | each statement commits by itself outside a transaction |
| Transaction runner (`transactionRunner.ts`) | nesting depth | run, nest, commit, roll back | a refused BEGIN, COMMIT or RELEASE, nested savepoints |
| Schema migrations (`migrationRunner.ts`, `migrations.ts`) | `schema_migrations`, the form of every table | run, status, assert | a crash between any two statements of a rebuild, or before its record |
| OpenWA supervisor (`src/transport/openwa/supervisor.ts`) | state, client, timers, recovery policy | start, stop, probe, recover | stop racing start and recovery, stale probes, stuck recovery |
| OpenWA listener (`src/transport/openwa/listener.ts`, `technicalPersistence.ts`) | in-memory and stored message ids | handle a message | duplicates across clients and restarts, an id stored before it is handled |
| OpenWA application (`src/app/openwaSmoke.ts`, status server) | shutdown promise | start, stop on a signal | a failing start or kill, messages under way at a stop |
| Lawyer runtime (`src/runtime/lawyer/*`) | none | read-only commands | none |
| Case creation (`src/domain/cases/*`, `caseCreateFromIntake.ts`) | cases (in SQLite) | create from a complete questionnaire | a second operator, the runtime writing meanwhile, nested transactions |
| Operator checks (`businessCheck.ts`, `caseDoctor.ts`, `intakeListReady.ts`, `businessBackup.ts`) | none | check, list, copy | what they report of a database others are writing; the backup's lock |
| Preflight and configuration (`opsPreflight.ts`, `env.ts`) | none | pass or block a start | agrees with the runtimes' own checks? |
| Reports on a deployment (`opsPostStart.ts`, `dockerDiagnose.ts`, ...) | none | one-shot reports | none |

Interactions. Meta calls the webhook handler, which runs the pipeline (normalise,
route, decide, plan the output), posts the reply to the Graph API, marks the
message processed and answers 200. An exception anywhere ends in a 500; Meta then
delivers the whole webhook again. The only memory across deliveries is the
database. `node:sqlite` is synchronous, so between two suspensions on real I/O a
handler runs alone; handlers interleave only while one of them awaits the Graph
API. The OpenWA supervisor owns a browser client, registers the listener on it and
replaces it when its probes fail; timers and awaited calls end in any order. Every
process that opens the database has a connection of its own: the migrations (before
anything else), one runtime, and the operator's commands beside it. SQLite's locks
are all that keeps them apart, and a refused lock is an exception at once.

What makes each part correct:

* Cloud runtime: 200 only for answered messages; a processed message stays
  silent; every webhook is acknowledged in the end.
* Client runtime: nothing is stored without consent; decisions are final; the
  logs account for the state; a legal issue is an answer of its own.
* Practices: complete, the client's own, one per message, codes in sequence.
* Supervisor: ready means served; never two clients; a degradation is settled;
  nothing survives a stop.
* Transactions: serial across processes, all or nothing, none outlives its call.
* Migrations: nothing is destroyed wherever they are interrupted, and they end.
* Cases: created from what is committed, with their audit, once.
* OpenWA application: a message is answered once, and every repetition and every
  silence has a reason; a signal ends the process.
* Preflight: what it passes starts.

## 2. Modules

| Module | Models |
|---|---|
| `ClientDialogue` | the two pure decisions on a message: consent (`consent.ts`) and the next questionnaire record (`intake.ts`, `extraction.ts`) |
| `CloudRuntime` | webhook handlers, client runtime, practice creation and the tables they share; Meta, faults and crashes as environment |
| `PracticeRegistry` | abstract specification: what the registry of practices promises |
| `CloudRuntimeProofs` | theorems about the two |
| `CloudDialogueProofs` | theorems about `CloudRuntime`: whose the answers are, how often they are replied to, and what a dialogue comes to as long as no statement fails |
| `MCCloudRuntime` | small conversations for TLC |
| `OpenWaSupervisor` | the supervisor with its awaits, timers and recovery policy |
| `OpenWaSupervisorProofs` | theorems about it |
| `MCOpenWaSupervisor` | its instances for TLC |
| `TransactionRunner` | `runInTransaction` of every connection, and the locks of the file |
| `SerialStore` | abstract specification: what transactions promise |
| `Schema` | the content of the file and what each migration does to it |
| `Migrations` | the migration runner, statement by statement |
| `CaseCreation` | the operator's case command and what the operator's checks find |
| `Operations` | all of these and the database side of the client runtime on one file |
| `TransactionRunnerProofs` | theorems about `Operations`: locks and transactions |
| `OperationsProofs` | theorems about `Operations`: cases, audit, drafts |
| `UpgradeProofs` | theorems about `Operations`: what an upgrade keeps and comes to |
| `QuestionnaireProofs` | theorems about `Operations`: what the operator's list and alarms say of a questionnaire |
| `MCOperations` | databases of different releases for TLC |
| `Preflight` | the schemas of the environment, the preflight, the checks of a start |
| `OpenWaApp` | the OpenWA process: application, listener, table of processed messages |
| `OpenWaAppProofs` | theorems about it |
| `MCOpenWaApp` | the setups an operator may have |

**CloudRuntime and the code.** A variable stands for a table (`consent`,
`consentEvents`, `intake`, `intakeEvents`, `practices`, `lastCode`, `processed`),
for the platform (`content`, `sent`, `due`, `replies`) or for the suspended
executions (`handler`). A handler's `pc` names the statement it executes next, and
each autocommitted statement is one action, so that a crash (`Crash`), a failing
statement (`PersistenceFails`) or a failed send (`DispatchFails`) falls between
any two of them. `ResolveConsent` and `ResolveIntake` take the decision of
`resolveConsentRuntimeDecision` and `resolveClientIntakeRuntimeDecision`; the
latter keeps the resulting record and the fields left to write, as the local
variables of `persistIntakeRecord` do. Practice creation is one step: its body
suspends on no I/O and is rolled back as a whole. A text is a record of what the
parsers find in it, a stored answer is the id of the message it was read from,
which is what lets properties say where an answer came from. The event logs are
sets, since nothing reads them back. `Quiet(h)` is the event loop: other handlers
are idle or await the Graph API. A delivery that Meta gives up (`GiveUp`) leaves
the handler running, and a second delivery may overlap it. `MarkProcessed` goes on
to the next message of the webhook with fresh local variables, as each call of
`handleClientRuntimeMessage` has its own. `PersistenceFails`
covers failing statements, not failing reads; a failing read aborts with nothing
written, as a failing first write does.

**OpenWaSupervisor and the code.** `task` holds the suspended functions (`start`,
`stop`, each `runRecovery`); an action is what runs between two awaits. Kills,
creations and registrations end well or badly in any order. The microtask that
resumes `scheduleRecovery` has priority over everything else (`MacroTask`).
Client identities are reused after a kill, so that behaviours need not be bounded.
`livenessFailureCount` saturates at the threshold, the only value it is compared
with. A client is assumed to have `kill`, as `wrapOpenWaClient` gives it, and
liveness checks are assumed enabled.

**TransactionRunner and the code.** `depth` is `transactionDepth`, which the code
raises before BEGIN and outside the `try`; `calls` counts the calls really under
way, so that a leaked depth is visible. `Enter`, `EnterFails`, `Leave` and `Unwind`
are the parts of `runInTransaction` before, in and after the `try`. SQLite is
external: a rollback journal, no busy timeout; one writer at a time (`reserved`),
readers beside it (`shared`), a commit only when no other connection holds a lock;
`pending` is what the writer sees.

**Schema, Migrations and the code.** A table is its form (missing, old, new) and its
rows, so that a rebuild is what it does to them: renamed away, created, copied,
dropped, renamed back, one action per statement, with the names of the tables set
aside. The migrations still to apply (`migrator.left`) and the tables the current
one still has to rebuild (`migrator.tables`) are sets that are worked off in the
code's order (`Current`, `Rebuilding`), since the code's arrays are never reordered.
`AtRest` says what an execution of the migrations leaves behind, ended or
interrupted: the start databases are such. A table in its present form satisfies its
CHECK constraints (`Constrained`); where no table was left aside the recorded
migrations have made what they make (`WellShaped`); a case belongs to a client, and one
that the command created is still a draft, since no program path calls
`updateCaseStatus` (`CasesOfClients`). `Copied` is the conversion of the rows: a legacy name becomes one or two
fields, unsupported fields vanish, `asking_name` becomes `asking_identity`.
Migrations 11 and 12 look at the tables again as the code does.

**CaseCreation, Operations and the code.** `operator[o].pc` and `runtime.pc` name
the next statement; `View(c)` is what a connection reads. The runtime is the one
`CloudRuntime` models, reduced to its statements on the database and using the same
decisions of `ClientDialogue`: its messages are handled one at a time here, because
their interleaving is the other module's subject, and other processes come in
between the statements. (The OpenWA runtime passes no practice persistence, so the
runtime that opens practices is the Cloud one.) A statement that throws abandons the
message (`Abandon`); `abandoned` remembers whose. Ids of cases created here are
their subjects: a client has one draft at most, which is what `MigratedIsHealthy`
and `CasesMatchCommittedIntake` check.

**Preflight, OpenWaApp and the code.** A setup gives each environment variable one
of the classes of values its schema tells apart. `PreflightReady`, `OpenWaStarts`
and `CloudStarts` are the three decisions as the code takes them, each with its own
conditions. `OpenWaApp` is one process after another: `handled` is the
supervisor's set, shared by all its clients and lost with the process; `processed`
is the table. An execution of `handleOpenWaMessage` runs up to its first await;
the awaits of SQLite resolve as microtasks, so that only callbacks of the same turn
of the event loop interleave before `sendText` (`WithinTurn`, `MacroTask`). The
supervisor is reduced to what the listener sees of it. `active` is its
`activeClient`: kept while the state is degraded, since a probe may still succeed
(`ProbeSucceeds`); forgotten by the recovery that kills it, whether the kill succeeds
or not (`KillReplaced`: `runRecovery` clears it after `disposeClient` and in its catch
block); but kept by `stop()` after a kill that fails, because the exception skips the
assignment (`StopSupervisor`). A client whose kill failed may go on delivering. `because` records
what went wrong with a message, so that properties can say that nothing else does.
Signal handlers are installed once the start is over; a signal before that is a
`Crash`.

**Composition.** `Operations` composes the runner, the migrations, the case command
and the runtime on one file, and instantiates `SerialStore` with `content <- disk`,
`looked <- seen` (`SerialSpec`). `CloudRuntime` instantiates `PracticeRegistry` with the mapping
`registry <- {Entry(p) : p \in practices}`, `last <- lastCode`: the runtime with
all its faults refines the registry (`RegistrySpec`).

## 3. Runs

| Run | Question | Result |
|---|---|---|
| `cloud_quiet` | Does the dialogue do its job when nothing fails? Anna's first conversation, Bruno's second practice and a lawyer's command, seven messages in six webhooks, two handlers, accepted and rejected answers, a blank message | `CompletionOpensPractice`, `LegalIssueIsItsOwnMessage`, `LogsAccountForState` hold |
| `cloud_faults` | What survives one fault (statement, send or crash) anywhere and one delivery given up, with batches, an out-of-order refusal and codes that run out? | `TypeOK`, `ConsentGate`, `ConsentIsFinal`, `AcknowledgedMeansAnswered`, `ProcessedIsNotAnsweredAgain`, `PracticesAreOwn`, `RegistrySpec` hold |
| `cloud_retry` | Is every webhook acknowledged in spite of two faults and a timeout? | `EveryWebhookAcknowledged` holds |
| `cloud_lost_practice` | Does a completed questionnaire open its practice if the process crashes? | violated: see findings |
| `cloud_reused_answer` | Is the legal issue an answer of its own if a send fails? | violated: see findings |
| `supervisor` | Start, stop, probe and recover with failing creations, registrations and kills, the default budget of one recovery | `TypeOK`, `ReadyMeansServed`, `OneClientAtATime`, `DegradationIsSettled`, `StopLeavesNoClient` hold |
| `supervisor_stuck` | Is a degradation settled with a budget of two recoveries? | violated: see findings |
| `supervisor_unserved` | Is there a client while ready, if a probe may outlive the recovery delay? | violated: see findings |
| `supervisor_revived` | Is no client created after stop()? | violated: see findings |
| `operations` | What holds of one database file used by migrations, runtime, two executions of the case command and a backup, with interruptions and faults? | `TypeOK`, `NothingDestroyed`, `UninterruptedUpgradeIsFaithful`, `MigratedIsHealthy`, `CaseHasItsAudit`, `AlarmsAreExplained`, `CompletedIsListed`, `NoOrphanUnlessLeaked`, `CasesMatchCommittedIntake`, `SerialSpec`, `UpgradeCompletes` hold |
| `upgrade_lost_cases` | Does an interrupted upgrade keep the cases? | violated: see findings |
| `openwa_app` | Is a message answered once, over repeated deliveries, two clients, two processes and three failures; does what preflight passes start; does a signal end the process? | `TypeOK`, `ReadyMeansItStarts`, `AnsweredOncePerProcess`, `SecondAnswerIsExplained`, `ProcessedMeansAnswered`, `SilenceIsExplained`, `StopEnds` hold |

**Bounds.** `MaxFaults` and `MaxTimeouts` bound the faults of one behaviour: each
fault leaves the database in a state between two statements, and one such state
followed by redelivery, by an overlapping delivery or by the next message is
where the properties could break; `cloud_retry` allows two. Two handlers suffice
for every overlap of two deliveries. `MaxCode` is 2 or 3 so that codes run out
(`cloud_faults`). Messages are those of the shortest conversations that reach
every action: a first request, a second request, a refusal, a rejected answer.
`MaxChecks = 2` admits the probe of an old client beside that of the new one;
three client identities are one more than can be alive in the passing run.
Handlers are symmetric; the symmetry is used only where no liveness is checked.
`operations` starts from five databases: no file, a release before M17 (every
rebuild, duplicate drafts, a legacy name), one between M17 and M26 (cases in their
present form, questionnaires not), and the present release one and two answers short
of a complete questionnaire. `MCBound` and `MaxEvents = 4` bound the
interruptions, faults, messages, commands and backups of one behaviour: four of
them admit a message, two commands and a fault at once, or two interruptions, a
message and a backup. Two clients tell whose row is whose; two operators and the
runtime are every pair of writers. `openwa_app` has one message, because nothing
in the listener relates two; two handlers are a pair of copies in one turn, two
clients the active and a leaked one, three deliveries an answer, a repetition and
another in the next process. Its setups are a good one of each kind and all that
differ from it in one variable or one check; refused setups are looked at before
the first process only, since a refusal leaves nothing behind.

**Deadlock** is not checked: a conversation ends when every webhook is
acknowledged, a stopped or failed supervisor does nothing more, and the bounded
events of the other runs come to an end.

**Fairness.** `cloud_retry` assumes weak fairness of each handler's steps (the
event loop runs what is ready) and of each webhook's delivery (Meta retries what
is not acknowledged). Its messages are not blank: a blank text makes
`normalizeInbound` throw on every delivery, so its webhook is never acknowledged
(hazard list). Faults carry no fairness and are bounded. In the supervisor every
awaited call ends and every timer fires; the recovery timer is strongly fair
because `PromptChecks` disables it while a probe is under way. Nothing forces a
stop, a failure or a success of a probe. `UpgradeCompletes` assumes that the
migrations are run again until they end (nothing else starts on a file with pending
ones) and that a run goes on unless it is interrupted. `StopEnds` assumes that the
event loop runs the awaited steps of `stop()`; a kill that hangs for ever is left
out, a kill that fails is not.

**An assumption.** The passing supervisor run assumes that a probe is answered
before a recovery begins (`PromptChecks`), which the default delays make usual
but nothing in the code ensures; `supervisor_unserved` drops it.

## 4. Findings

* `cloud_lost_practice`: `intake_complete` is committed before the transaction
  that opens the practice; after a crash in between, the redelivered message is
  read as the opening of a new request and no practice is ever opened.
* `cloud_reused_answer`: effects are committed before the reply and the processed
  marker; after a failed send the redelivered identity answer is stored as the
  legal issue.
* `supervisor_stuck`: `runRecovery` reschedules itself while `recoveryInProgress`
  is still set, so a second recovery never happens and exhaustion is never
  declared.
* `supervisor_unserved`: a slow successful probe sets the state to ready while a
  recovery is disposing of the client.
* `supervisor_revived`: `runRecovery` does not look at the shutdown flag between
  killing the old client and creating the new one.
* `upgrade_lost_cases`: the rebuild of the table of cases is not a transaction; a
  process that dies after its first statement leaves no table `cases`, and the next
  run creates an empty one, records the migration and leaves the cases where nothing
  reads them (`NothingDestroyed` shows that they are still in the file).

Two things that the passing properties state and a reader of the code should know:
`business:check` alarms, and with it preflight blocks, when a client who has a draft
case opens a new request (`AlarmsAreExplained`); and a refused BEGIN leaves the
runner's depth raised for the life of the connection, after which its transactions
are deferred ones (`NoOrphanUnlessLeaked` says so, and `SerialSpec` that they are
serial still).

`PROJECT.json` quotes the lines of the code and of the documents.

## 5. Proofs

For any number of clients, messages, webhooks, handlers, codes, faults and
timeouts, from `WorldAssumption` and `StartAssumption` only, `CloudRuntimeProofs`
proves:

* `TypeCorrect`: `Spec => []TypeOK`.
* `ConsentGateHolds`: `Spec => []ConsentGate`.
* `ConsentFinal`: `Spec => ConsentIsFinal`.
* `Acknowledged`: `Spec => []AcknowledgedMeansAnswered`.
* `RegistryImplemented`: `Spec => RegistrySpec`, the refinement.

* `RegistrySound`, `CodesSound`: `RegistrySpec`, and hence `Spec`, keeps the codes
  gapless and unique and opens one practice per message.

`CloudDialogueProofs` adds, the second with `WebhookAssumption` (WhatsApp puts a
message into one webhook):

* `PracticesOwn`: `Spec => []PracticesAreOwn`.
* `NotAnsweredAgain`: `Spec => ProcessedIsNotAnsweredAgain`.

It goes on with what is true of a dialogue only under conditions, which
are premises of the theorems and not assumptions on the constants:

* `LogsAccount`: `StatementsSucceed /\ Spec => []LogsAccountForState`.
* `CompletionOpened`: `StatementsSucceed /\ WholeStart /\ Spec =>
  []CompletionOpensPractice`.
* `IssueIsItsOwn`: `NothingFails /\ WholeStart /\ OwnIssuesAtStart /\ Spec =>
  []LegalIssueIsItsOwnMessage`.

`StatementsSucceed` excludes failing statements and crashes, between which the code
has no transaction, and allows refused replies and deliveries given up;
`NothingFails` excludes these too. Both are needed: `cloud_lost_practice` and
`cloud_reused_answer` are what happens otherwise. `WholeStart` (a questionnaire that
asks for attachments has its other answers) and `OwnIssuesAtStart` (an issue on file
that will enter a practice is not an answer to something else too) say that the same
held of the executions before this behaviour; a new database, where both are
trivially so, is one start among many.

`OpenWaSupervisorProofs` proves about `OpenWaSupervisor`, for any clients, budgets,
threshold, modes and failures, from `SupervisorAssumption`:

* `SupervisorTypes`: `Spec => []TypeOK`.
* `SupervisorSound`: `PromptChecks /\ Spec => []SupInv`, and from it `OneClient` and
  `ReadyServed`: `PromptChecks /\ Spec => []OneClientAtATime` and `[]ReadyMeansServed`.
  Without `PromptChecks` a probe may revive a policy whose recovery is under way;
  `supervisor_unserved` shows what comes of it.

`TransactionRunnerProofs` proves about `Operations`, for any clients, operators,
start databases and bounds, from `ConnectionsAssumption`:

* `TransactionsSound`: `Spec => []TxInv`; `WritersExclude`: `Spec => []OneWriter`.
* `NoOrphans`: `Spec => []NoOrphanUnlessLeaked`.
* `TransactionsAreSerial`: `Spec => SerialSpec`, the refinement.

`OperationsProofs` and `UpgradeProofs` go on from there, with `StartAssumption` (the
start databases are `AtRest`, and the ids of cases from before M17 are numbers):

* `OperationsInvariant`: `Spec => []OpsInv`; `OperationsTypes`: `Spec => []TypeOK`.
* `CasesAudited`: `Spec => []CaseHasItsAudit`.
* `MigratedHealthy`: `Spec => []MigratedIsHealthy`.
* `CasesMatchIntake`: `Spec => CasesMatchCommittedIntake`.
* `UpgradePreserves`: `Spec => []UpgradeInv`; `RowsSurvive`: `Spec =>
  []NothingDestroyed`.
* `UpgradeFaithful`: `Spec => []UninterruptedUpgradeIsFaithful`.

`QuestionnaireProofs` takes all these invariants further, with `NamesAssumption` (the
marks for no client, no answer and no attachments are none of the things they are told
from):

* `QuestionnairesKept`: `Spec => [](OpsInv /\ UpgradeInv /\ FaithInv /\ QuestInv)`.
* `CompletedListed`: `Spec => []CompletedIsListed`.
* `AlarmsExplained`: `Spec => []AlarmsAreExplained`.

Both properties leave aside the clients for whom the start database already says
otherwise. `InOrder` and `AttachmentsAnswered` are what the runtime brings about once
it has processed a client's messages to their end; but a completed questionnaire of a release that
asked for less lacks fields for ever, because nobody asks for them again, and a
process that died before this behaviour began may have left a questionnaire short. What is
proved is that nothing is added to these.

`OpenWaAppProofs` proves about `OpenWaApp`, for any messages, handlers, setups and
bounds, from `OpenWaAppAssumption`:

* `BookkeepingSound`: `Spec => []AppInv`; `AppTypeCorrect`: `Spec => []TypeOK`.
* `ProcessAnswersOnce`, `SecondAnswersExplained`, `TableHoldsAnswered`,
  `SilenceExplained`: the four properties of the answers.
* `ReadyStarts`: `Spec => []ReadyMeansItStarts`, for every setup an operator may have.

*The argument.* `ConsentGate` is not inductive: a handler in the middle of the
questionnaire writes on the strength of a consent it read steps ago. `IndInv`
adds `HandlersSound`: a handler past the consent has a non-empty queue whose head
is a client's message, the consent of that client is granted, its record to write
is well typed and the fields left are among those that differ; and `CodesBounded`:
every code in use is at most `lastCode`. It is preserved because consent leaves
`granted` in no action (`ConsentChange`), which also gives `ConsentFinal`, and
because `CodesBounded` makes the next code `lastCode + 1` (`NextCodeIsNext`),
which gives the refinement: `CreatePractice` maps to `Open` of the message, every
other step to a stutter. `Acknowledged` needs `AckInv`: every message of a
handler's webhook is processed or still in its queue, a processed message has a
reply, and a handler about to mark a message has sent its reply; it holds through
a batch because a message leaves the queue only when it is marked or found
marked.

*The argument for the answers of the Cloud runtime.* `PracticesAreOwn` rests on the
questionnaires and on what the handlers are about to write into them: `OwnInv` says
that both hold, among the messages, only the client's own, because a record is the
file of the message's author with that message added (`NextRecordsOwned`) and a
handler keeps its message while it writes. `ProcessedIsNotAnsweredAgain` rests on
`AloneInv`: without a timeout no two handlers work for one webhook, hence none on one
message, so that the marker a handler did not find is not written before its own.

*The argument for the dialogue.* `LogInv` adds to the logged the handler that is
about to log it: a stored consent has its event or a handler at `consentEvent`, a
stored answer its event or a handler at `fieldEvent` of that field, and nobody can
die in between. `CompletionInv` adds that between the awaits one handler is at work
(`OneBusy`), that the file of its client is what it has written of its record so far
(`PartWritten`), and that a completed questionnaire has a practice, no code left, or a
handler on its way to opening one (`Opened`). `IssueInv` adds the history of a message:
it is `Used` once a handler has taken an answer from it, and every answer on file or in a practice
comes from a used one (`UsedIn`); an issue on file that may enter a practice without
being asked for again (`Carried`) is nobody else's (`OwnIssue`), and the record in
hand is either that one or has its issue from this very message, which no other
handler can have used (`SoundIssue`, with `AloneInv`). Where the codes ran out a
practice is refused and its issue stays on file, so the last two speak of free codes.
This proof found an error of the model, since corrected: `justGranted` survived from one
message of a webhook to the next, so that a message after the consent was taken for
the consent itself.

*The argument for the supervisor.* `SupInv` says who may launch a client: start()
until it is over (`StarterAlone`), then one recovery at a time (`RecoveryAlone`),
during which no probe is under way, no timer set and no other recovery planned. It is
preserved because a recovery is planned only for an active client (`PolicySound`),
and a failed recovery forgets its client, after which nothing plans another one (which
is also why `supervisor_stuck` is violated). `ClientsAccounted` follows along: whoever
has a client has the only one alive.

*The argument for the transactions.* `NoOrphanUnlessLeaked` speaks of the open
transaction only; that a call ends it depends on the savepoints. `TxInv` says that
the depth is at least the number of calls, and where they are equal the outermost
call opened by BEGIN and every other one left a savepoint (`Balanced`); that a
connection without a lock has seen nothing and one with a lock has seen the
committed content (`SeenIsCommitted`); that without a writer nothing is pending; and
that no lock is held outside a transaction or a long read. A commit needs every
other connection without a lock, so no `seen` of another can become stale: this is
the refinement. Every step of the processes is, for the file, a `Read`, `Write`,
`BeginRead`, `Enter`, `Leave`, `Unwind` or `Close` of one connection, so one lemma
per such operation suffices.

*The argument for the cases.* Every step is a statement of one process, and what it
may do to a case depends on what others have done since it looked. `OpsInv` says: of all
contents there are or may be returned to (`Kept`: the committed one, the pending one,
the savepoints) each is a database; until every migration is recorded nobody but the
migrator has a transaction (`MigratesAlone`), and it still has to apply exactly what
is not recorded (`MigratorWork`); a command's place in the code gives its number of calls
(`OperatorCalls`) and, literally, the difference between its pending content and the
committed one (`OperatorWork`), so that its commit adds a case with its audit event or
an audit event alone; the runtime's pending content has the committed cases
(`RuntimeWork`). While a command holds the writer's lock nobody else can commit, which
is why what it checked (`Justified`) still holds when it commits: this gives
`CasesMatchIntake`, the only one of them about a step.

*The argument for the upgrade.* `NothingDestroyed` is not inductive: whether the
next statement loses a row depends on which table it reads. `UpgradeInv` names, for every
table and every stage of its rebuild, the table that holds the rows of the start (the
table itself, the one set aside, the new one; after an interruption any of the three),
and says that once all is recorded commits only add rows. A run that finds a leftover in its way is refused before it changes anything.

`UninterruptedUpgradeIsFaithful` says more, the forms and the very rows, of fewer
executions. `FaithInv` follows those in which nothing is aside but what the rebuild
under way has put there (`Tidy`): a leftover never goes away again, so whatever is
tidy now has been so all along (`TidyBefore`). `Exact` then says what each table has
come to: its rows are the old ones, copied or not, or archived or not (`Faithful`),
which form it has, and what each migration that is over has left. A migration is run
again after an interruption between two rebuilds, which is why copying and archiving
twice must be the same as once (`CopyFaithful`, `ArchiveTwice`). Afterwards every content
there is stays `Upgraded`: a new case takes no old one's place, since the numbers
of an older release name no client and a client with a draft gets no second one
(`NewCaseIsNew`), and only a message changes where a questionnaire stands.

*The argument for the questionnaires.* A record is written in several statements, the
state first and then one field after the other, outside any transaction, so that a
file read in between may contradict itself. `QuestInv` says how far. While migrations
are pending nobody writes answers, and the rows are those of the start or their
copies, in whichever table the rebuild has them (`Carried`). Afterwards (`Orderly`) the
questionnaire of a client is `Settled`, or it is in the runtime's hand (`InWork`) and
agrees, but for the fields that are left, with the record there (`Written`), or he is
one of the `abandoned`, on whom the runtime gave up in between. A record asks for
attachments only with every other field and completes with that one answer
(`Writing`, `Written`), so that what is written to its end is settled again. Consent
backs completed questionnaires and drafts (`Consented`), since no action takes it back.
After a refused BEGIN the runtime may read and write within a transaction (the second
remark of section 4); all this is therefore said of what it sees, of what is committed
and of every savepoint it may return to, and carried over by one lemma per
operation of the runner. The step from `Carried` to `Orderly`, when the last migration is
recorded, rests for the clients in order on `FaithInv`: where no table was left aside,
every row of the start is in its place.

*The argument for the OpenWA application.* `AppInv` says of every message what the set, the
table and the calls under way know of it: a call past the checks has its id in the
set (`Remembered`); without copies in one turn at most one call is within its turn
and one past it, and the id is not in the set while the first looks (`Single`); a
clean answer is in the table or its call is about to put it there (`Recorded`).

*Model-checked only:* all liveness (`EveryWebhookAcknowledged`,
`DegradationIsSettled`, `StopLeavesNoClient`, `UpgradeCompletes`, `StopEnds`), because
fairness and ENABLED are out of the prover's reach. Every invariant and every action
property of a passing run is proved.

## 6. Not modelled

* GET verification, signatures, payload validation, the local replay mode of the
  webhook (answers without any change of state), the shutdown of the HTTP server.
* The regular expressions of the extraction, texts of replies, log lines, time
  stamps, metadata columns.
* `opsPostStart`, `dockerDiagnose`, `cloudOpsEvidencePack` and the webhook replay:
  one-shot reports on what docker, HTTP and files answer, and a test sender.
* The converse of `ReadyMeansItStarts`: preflight may block a setup that would
  start (it asks for a healthy business check, an explicit
  `DATABASE_MIGRATIONS_ENABLED` and git-ignored directories). Its transport
  override on the command line.
* Audit events of practices and of the OpenWA runtime: written and never read.
* The status server's HTTP surface, which only reads.
* The second validation of the stored values in `createCaseFromCompletedIntake`: they
  are values the runtime accepted by the same functions. A refusal would end the
  command as any exception does (`CaseStatementThrows` at `check`).
* A start database in which a client has a `name` and a `firstName`, which no release
  wrote: the plain `INSERT` of the copy (`migrations.ts:195-208`) would throw.
* In `OpenWaApp`, the time between the creation of a client and its activation, and
  the time a kill takes: a client that comes late to a stop and is discarded, or a
  probe that answers during the kill, is modelled in `OpenWaSupervisor`.
* `start()` failing after `stop()` has completed sets `stopped` back to `degraded`; it
  is in `OpenWaSupervisor` (`StartupFailed`), but the application calls `stop()` only
  once `start()` is over.
* The in-memory stores of the tests.

## 7. Plan

The classification of `opsPostStart` against the states of the supervisor.
