---------------------------- MODULE CloudRuntime ----------------------------
(***************************************************************************)
(* The WhatsApp Cloud runtime: the webhook request handler, the client     *)
(* runtime behind it and the SQLite state they share, with the Meta        *)
(* platform that delivers webhooks and receives replies as environment.    *)
(*                                                                         *)
(* One element of Handlers is one in-flight execution of the request       *)
(* handler.  Every write to the database is a step of its own (each is an  *)
(* autocommitted statement), so a crash or a failing statement may fall    *)
(* between any two.  Persistence is synchronous, hence between two         *)
(* suspensions on I/O a handler runs alone: another one advances only      *)
(* while it waits for the Graph API (Quiet below).                         *)
(***************************************************************************)
EXTENDS ClientDialogue, Integers, Sequences, FiniteSets

CONSTANTS
  Subjects,         (* clients, identified by their chat                     *)
  Lawyer,           (* the sender recognised as the operator                 *)
  Messages,         (* ids of the inbound messages, in the order written     *)
  Sender,           (* who wrote each message                                *)
  Choices,          (* what each message may say, a set of contents          *)
  Batches,          (* the messages of each webhook, in the order sent       *)
  Handlers,         (* concurrent executions of the request handler          *)
  NoHook,           (* no webhook: its HTTP exchange is over                 *)
  StartFiles,       (* the questionnaires in the database at start           *)
  StartPractices,   (* the practices in it                                   *)
  MaxCode,          (* number of practice codes, AA001 to ZZ999              *)
  Faults,           (* which of "persistence", "dispatch", "crash" happen    *)
  MaxFaults,        (* bound: faults in one behaviour                        *)
  MaxTimeouts       (* bound: deliveries Meta gives up waiting for           *)

Webhooks == DOMAIN Batches

StoredIds == Messages \cup {p.source : p \in StartPractices}

Values == Messages \cup {Absent, NoFiles}
            \cup UNION {{StartFiles[s].fields[f] : f \in FieldNames} : s \in Subjects}

ASSUME WorldAssumption ==
  /\ Messages \subseteq Nat
  /\ Absent \notin Messages /\ NoFiles \notin Messages /\ NoFiles # Absent
  /\ Lawyer \notin Subjects
  /\ Sender \in [Messages -> Subjects \cup {Lawyer}]
  /\ Choices \in [Messages -> SUBSET Contents]
  /\ Batches \in Seq(Seq(Messages))
  /\ NoHook \notin Webhooks
  /\ MaxCode \in Nat /\ MaxFaults \in Nat /\ MaxTimeouts \in Nat

(* WhatsApp puts a message into one webhook and repeats that one.          *)
ASSUME WebhookAssumption ==
  \A v, w \in Webhooks : \A i \in DOMAIN Batches[v], j \in DOMAIN Batches[w] :
    Batches[v][i] = Batches[w][j] => v = w

(* A database the program itself may have left behind: answers are on file *)
(* only where the questionnaire has begun, none of them from a message     *)
(* still to come, and the practices hold the first codes, one message each.*)
ASSUME StartAssumption ==
  /\ StartFiles \in [Subjects -> Files(Values)]
  /\ \A s \in Subjects : \A f \in FieldNames : StartFiles[s].fields[f] \notin Messages
  /\ \A s \in Subjects : StartFiles[s].state = "not_started" => StartFiles[s] = EmptyFile
  /\ IsFiniteSet(StartPractices)
  /\ {p.code : p \in StartPractices} = 1 .. Cardinality(StartPractices)
  /\ \A p, q \in StartPractices : p # q => p.code # q.code /\ p.source # q.source
  /\ \A p \in StartPractices :
       /\ p \in [code : Nat, subject : Subjects, source : StoredIds,
                 fields : [FieldNames -> Values]]
       /\ p.source \notin Messages /\ \A f \in FieldNames : p.fields[f] \notin Messages
       /\ StartFiles[p.subject].state # "not_started"

-----------------------------------------------------------------------------
VARIABLES
  content,        (* what each message says, fixed by the client             *)
  sent,           (* how many webhooks Meta has sent at least once           *)
  due,            (* webhooks not yet acknowledged with a 200                *)
  replies,        (* how many replies to each message reached the client     *)
  processed,      (* table processed_messages                                *)
  consent,        (* table consent_states                                    *)
  consentEvents,  (* table consent_events                                    *)
  intake,         (* tables intake_states and intake_fields                  *)
  intakeEvents,   (* table intake_events                                     *)
  practices,      (* table practices                                         *)
  lastCode,       (* table practice_sequence                                 *)
  handler,        (* the local state of each handler                         *)
  faults,         (* faults so far                                           *)
  timeouts        (* deliveries given up so far                              *)

world    == <<content, sent>>
consentT == <<consent, consentEvents>>
intakeT  == <<intake, intakeEvents>>
practiceT == <<practices, lastCode>>
budget   == <<faults, timeouts>>

vars == <<world, due, replies, processed, consentT, intakeT, practiceT, handler, budget>>

(* Where a handler is: the labels are the statements it will execute next. *)
Labels == {"idle", "accept", "consent", "consentEvent", "intake", "state",
           "stateEvent", "field", "fieldEvent", "practice", "dispatch", "mark"}

Idle == [pc |-> "idle", hook |-> NoHook, queue |-> <<>>, justGranted |-> FALSE,
         next |-> EmptyFile, left |-> {}]

HandlerStates ==
  [pc : Labels, hook : Webhooks \cup {NoHook}, queue : Seq(Messages),
   justGranted : BOOLEAN, next : Files(Values), left : SUBSET FieldNames]

At(h, label) == handler[h].pc = label

(* The message a handler is working on, its author and his questionnaire.  *)
Msg(h) == Head(handler[h].queue)
Subject(h) == Sender[Msg(h)]
FileOf(h) == intake[Subject(h)]

(* Only I/O suspends a handler: the others are idle or await the Graph API. *)
Quiet(h) == \A g \in Handlers \ {h} : handler[g].pc \in {"idle", "dispatch"}

Goto(h, label) == handler' = [handler EXCEPT ![h].pc = label]

(* The handler leaves the client runtime and hands the reply to dispatch.  *)
GotoDispatch(h) ==
  handler' = [handler EXCEPT ![h] =
    [@ EXCEPT !.pc = "dispatch", !.justGranted = FALSE, !.next = EmptyFile, !.left = {}]]

(* Mutant: the exception is swallowed, and no answer ends the exchange.    *)
AbortUnanswered(h) == handler' = [handler EXCEPT ![h] = [Idle EXCEPT !.hook = handler[h].hook]]

(* An exception reaches the server's catch: a 500 that leaves the webhook  *)
(* due, and nothing of what was committed is undone.                       *)
Abort(h) == handler' = [handler EXCEPT ![h] = Idle]

-----------------------------------------------------------------------------
(* Meta *)

Send ==
  /\ sent < Len(Batches)
  /\ sent' = sent + 1
  /\ due' = due \cup {sent'}
  /\ UNCHANGED <<content, replies, processed, consentT, intakeT, practiceT, handler, budget>>

(* A first delivery, or a retry of one that failed or was given up.        *)
Deliver(h, w) ==
  /\ At(h, "idle") /\ Quiet(h)
  /\ w \in due
  /\ \A g \in Handlers : handler[g].hook # w
  /\ handler' = [handler EXCEPT ![h] =
       [@ EXCEPT !.pc = "accept", !.hook = w, !.queue = Batches[w]]]
  /\ UNCHANGED <<world, due, replies, processed, consentT, intakeT, practiceT, budget>>

(* Meta stops waiting for an answer, which will not count; the handler     *)
(* does not notice.  Only while the handler awaits I/O does time pass.     *)
GiveUp(h) ==
  /\ At(h, "dispatch") /\ handler[h].hook # NoHook
  /\ timeouts < MaxTimeouts
  /\ timeouts' = timeouts + 1
  /\ handler' = [handler EXCEPT ![h].hook = NoHook]
  /\ UNCHANGED <<world, due, replies, processed, consentT, intakeT, practiceT, faults>>

-----------------------------------------------------------------------------
(* The request handler's loop over the messages of the webhook *)

Acknowledge(h) ==
  /\ At(h, "accept") /\ Quiet(h)
  /\ handler[h].queue = <<>>
  /\ due' = due \ {handler[h].hook}
  /\ handler' = [handler EXCEPT ![h] = Idle]
  /\ UNCHANGED <<world, replies, processed, consentT, intakeT, practiceT, budget>>

(* Mutant: the processed marker is not consulted.                          *)
FreshUnchecked(h) == handler[h].queue # <<>>

(* wasMessageProcessed has answered no for the next message.               *)
Fresh(h) == handler[h].queue # <<>> /\ Msg(h) \notin processed

SkipDuplicate(h) ==
  /\ At(h, "accept") /\ Quiet(h)
  /\ handler[h].queue # <<>> /\ Msg(h) \in processed
  /\ handler' = [handler EXCEPT ![h].queue = Tail(@)]
  /\ UNCHANGED <<world, due, replies, processed, consentT, intakeT, practiceT, budget>>

(* normalizeInbound refuses an empty body with an exception.               *)
RejectBlank(h) ==
  /\ At(h, "accept") /\ Quiet(h)
  /\ Fresh(h)
  /\ content[Msg(h)].blank
  /\ Abort(h)
  /\ UNCHANGED <<world, due, replies, processed, consentT, intakeT, practiceT, budget>>

(* Mutant: the message is marked processed before it is handled.           *)
RouteMarkingFirst(h) ==
  /\ At(h, "accept") /\ Quiet(h)
  /\ Fresh(h)
  /\ ~content[Msg(h)].blank
  /\ processed' = processed \cup {Msg(h)}
  /\ Goto(h, IF Subject(h) = Lawyer THEN "dispatch" ELSE "consent")
  /\ UNCHANGED <<world, due, replies, consentT, intakeT, practiceT, budget>>

(* The operator's commands only read; every other sender is a client.      *)
Route(h) ==
  /\ At(h, "accept") /\ Quiet(h)
  /\ Fresh(h)
  /\ ~content[Msg(h)].blank
  /\ Goto(h, IF Subject(h) = Lawyer THEN "dispatch" ELSE "consent")
  /\ UNCHANGED <<world, due, replies, processed, consentT, intakeT, practiceT, budget>>

-----------------------------------------------------------------------------
(* The client runtime: consent *)

(* Mutant: the log is appended to on every change of state.                *)
AfterConsentLogsAll(old, new) ==
  IF new # old THEN "consentEvent"
  ELSE IF new = "granted" THEN "intake" ELSE "dispatch"

(* Mutant: the questionnaire is closed to those who denied only.           *)
AfterConsentUnlessDenied(old, new) ==
  IF new # old /\ new \in {"granted", "denied"} THEN "consentEvent"
  ELSE IF new # "denied" THEN "intake" ELSE "dispatch"

(* A decision taken just now is logged; only a granted consent, old or     *)
(* new, opens the questionnaire.                                           *)
AfterConsent(old, new) ==
  IF new # old /\ new \in {"granted", "denied"} THEN "consentEvent"
  ELSE IF new = "granted" THEN "intake" ELSE "dispatch"

ResolveConsent(h) ==
  LET s   == Subject(h)
      new == ConsentDecision(consent[s], content[Msg(h)])
  IN
  /\ At(h, "consent") /\ Quiet(h)
  /\ consent' = [consent EXCEPT ![s] = new]
  /\ Goto(h, AfterConsent(consent[s], new))
  /\ UNCHANGED <<world, due, replies, processed, consentEvents, intakeT, practiceT, budget>>

AppendConsentEvent(h) ==
  LET s == Subject(h) IN
  /\ At(h, "consentEvent") /\ Quiet(h)
  /\ consentEvents' = consentEvents \cup {[subject |-> s, state |-> consent[s], source |-> Msg(h)]}
  /\ handler' = [handler EXCEPT ![h] =
       [@ EXCEPT !.pc = IF consent[s] = "granted" THEN "intake" ELSE "dispatch",
                 !.justGranted = consent[s] = "granted"]]
  /\ UNCHANGED <<world, due, replies, processed, consent, intakeT, practiceT, budget>>

-----------------------------------------------------------------------------
(* The client runtime: the questionnaire *)

(* The fields of the next record that differ from the stored ones.         *)
Changed(file, next) == {f \in FieldNames : next.fields[f] \notin {Absent, file.fields[f]}}

(* Mutant: a completed questionnaire is written but opens no practice.     *)
AfterWritingNoPractice(next, left) == IF left # {} THEN "field" ELSE "dispatch"

(* What follows once the fields in left are still to be written.           *)
AfterWriting(next, left) ==
  IF left # {} THEN "field"
  ELSE IF next.state = "intake_complete" THEN "practice" ELSE "dispatch"

(* A practice already opened by this message is announced again; an answer *)
(* that is rejected writes nothing; else the record is written statement   *)
(* by statement, the state first.                                          *)
ResolveIntake(h) ==
  LET m    == Msg(h)
      file == FileOf(h)
      records == NextRecords(file, content[m], handler[h].justGranted, m)
  IN
  /\ At(h, "intake") /\ Quiet(h)
  /\ IF records = {} \/ \E p \in practices : p.source = m
     THEN GotoDispatch(h)
     ELSE \E next \in records :
            LET left == Changed(file, next) IN
            handler' = [handler EXCEPT ![h] =
              [@ EXCEPT !.pc = IF next.state # file.state THEN "state"
                               ELSE AfterWriting(next, left),
                        !.next = next, !.left = left]]
  /\ UNCHANGED <<world, due, replies, processed, consentT, intakeT, practiceT, budget>>

SetIntakeState(h) ==
  /\ At(h, "state") /\ Quiet(h)
  /\ intake' = [intake EXCEPT ![Subject(h)].state = handler[h].next.state]
  /\ Goto(h, "stateEvent")
  /\ UNCHANGED <<world, due, replies, processed, consentT, intakeEvents, practiceT, budget>>

(* Mutant: only changes of state are logged.                               *)
AppendIntakeEventOfState(h, kind) ==
  IF kind = "state"
  THEN intakeEvents' = intakeEvents \cup
         {[subject |-> Subject(h), kind |-> kind, state |-> handler[h].next.state, source |-> Msg(h)]}
  ELSE UNCHANGED intakeEvents

AppendIntakeEvent(h, kind) ==
  intakeEvents' = intakeEvents \cup
    {[subject |-> Subject(h), kind |-> kind, state |-> handler[h].next.state, source |-> Msg(h)]}

AppendStateEvent(h) ==
  /\ At(h, "stateEvent") /\ Quiet(h)
  /\ AppendIntakeEvent(h, "state")
  /\ Goto(h, AfterWriting(handler[h].next, handler[h].left))
  /\ UNCHANGED <<world, due, replies, processed, consentT, intake, practiceT, budget>>

FirstLeft(h) ==
  CHOOSE f \in handler[h].left : \A g \in handler[h].left : FieldRank[f] <= FieldRank[g]

SetIntakeField(h) ==
  LET f == FirstLeft(h) IN
  /\ At(h, "field") /\ Quiet(h)
  /\ intake' = [intake EXCEPT ![Subject(h)].fields[f] = handler[h].next.fields[f]]
  /\ Goto(h, "fieldEvent")
  /\ UNCHANGED <<world, due, replies, processed, consentT, intakeEvents, practiceT, budget>>

AppendFieldEvent(h) ==
  LET f    == FirstLeft(h)
      left == handler[h].left \ {f}
  IN
  /\ At(h, "fieldEvent") /\ Quiet(h)
  /\ AppendIntakeEvent(h, f)
  /\ handler' = [handler EXCEPT ![h] =
       [@ EXCEPT !.pc = AfterWriting(handler[h].next, left), !.left = left]]
  /\ UNCHANGED <<world, due, replies, processed, consentT, intake, practiceT, budget>>

-----------------------------------------------------------------------------
(* The client runtime: the practice.  The body of the transaction suspends *)
(* on no I/O and is rolled back as a whole, so it is one step.             *)

NewPractice(h, code) ==
  [code |-> code, subject |-> Subject(h), source |-> Msg(h), fields |-> FileOf(h).fields]

(* Mutant: the last code handed out is offered again.                      *)
FreeCodesFromLast == lastCode .. MaxCode

(* allocateNextPracticeCode: the first code after the last one handed out  *)
(* that no practice has.                                                   *)
FreeCodes == {c \in lastCode + 1 .. MaxCode : \A p \in practices : p.code # c}

NextCode == CHOOSE c \in FreeCodes : \A d \in FreeCodes : c <= d

CanCreatePractice(h) ==
  /\ consent[Subject(h)] = "granted"
  /\ ReadyForPractice(FileOf(h))
  /\ FreeCodes # {}

CreatePractice(h) ==
  /\ At(h, "practice") /\ Quiet(h)
  /\ IF \E p \in practices : p.source = Msg(h)
     THEN UNCHANGED practiceT
     ELSE /\ CanCreatePractice(h)
          /\ practices' = practices \cup {NewPractice(h, NextCode)}
          /\ lastCode' = NextCode
  /\ GotoDispatch(h)
  /\ UNCHANGED <<world, due, replies, processed, consentT, intakeT, budget>>

(* A PracticeCreationPreconditionError or a PracticeCodeOverflowError.     *)
RefusePractice(h) ==
  /\ At(h, "practice") /\ Quiet(h)
  /\ \A p \in practices : p.source # Msg(h)
  /\ ~CanCreatePractice(h)
  /\ Abort(h)
  /\ UNCHANGED <<world, due, replies, processed, consentT, intakeT, practiceT, budget>>

-----------------------------------------------------------------------------
(* The reply *)

DispatchReply(h) ==
  /\ At(h, "dispatch") /\ Quiet(h)
  /\ replies' = [replies EXCEPT ![Msg(h)] = @ + 1]
  /\ Goto(h, "mark")
  /\ UNCHANGED <<world, due, processed, consentT, intakeT, practiceT, budget>>

(* The next message finds nothing of what the client runtime held for it.  *)
MarkProcessed(h) ==
  /\ At(h, "mark") /\ Quiet(h)
  /\ processed' = processed \cup {Msg(h)}
  /\ handler' = [handler EXCEPT ![h] =
       [Idle EXCEPT !.pc = "accept", !.hook = handler[h].hook, !.queue = Tail(handler[h].queue)]]
  /\ UNCHANGED <<world, due, replies, consentT, intakeT, practiceT, budget>>

-----------------------------------------------------------------------------
(* Faults *)

Fault(kind) ==
  /\ kind \in Faults /\ faults < MaxFaults
  /\ faults' = faults + 1

(* The send fails: the Graph API refused it, or its answer was lost.       *)
DispatchFails(h) ==
  /\ At(h, "dispatch") /\ Quiet(h)
  /\ Fault("dispatch")
  /\ \E reached \in {0, 1} : replies' = [replies EXCEPT ![Msg(h)] = @ + reached]
  /\ Abort(h)
  /\ UNCHANGED <<world, due, processed, consentT, intakeT, practiceT, timeouts>>

(* A statement throws (SQLITE_BUSY, disk full, ...) and has no effect.     *)
PersistenceFails(h) ==
  /\ handler[h].pc \notin {"idle", "dispatch"} /\ handler[h].queue # <<>>
  /\ Quiet(h)
  /\ Fault("persistence")
  /\ Abort(h)
  /\ UNCHANGED <<world, due, replies, processed, consentT, intakeT, practiceT, timeouts>>

(* The process dies and is restarted on the same database.                 *)
Crash ==
  /\ \E h \in Handlers : ~At(h, "idle")
  /\ Fault("crash")
  /\ handler' = [h \in Handlers |-> Idle]
  /\ UNCHANGED <<world, due, replies, processed, consentT, intakeT, practiceT, timeouts>>

-----------------------------------------------------------------------------
Init ==
  /\ content \in {c \in [Messages -> UNION {Choices[m] : m \in Messages}] :
                   \A m \in Messages : c[m] \in Choices[m]}
  /\ sent = 0
  /\ due = {}
  /\ replies = [m \in Messages |-> 0]
  /\ processed = {}
  /\ consent = [s \in Subjects |->
                  IF StartFiles[s].state = "not_started" THEN "unknown" ELSE "granted"]
  /\ consentEvents = {}
  /\ intake = StartFiles
  /\ intakeEvents = {}
  /\ practices = StartPractices
  /\ lastCode = Cardinality(StartPractices)
  /\ handler = [h \in Handlers |-> Idle]
  /\ faults = 0
  /\ timeouts = 0

Step(h) ==
  \/ Acknowledge(h) \/ SkipDuplicate(h) \/ RejectBlank(h) \/ Route(h)
  \/ ResolveConsent(h) \/ AppendConsentEvent(h)
  \/ ResolveIntake(h) \/ SetIntakeState(h) \/ AppendStateEvent(h)
  \/ SetIntakeField(h) \/ AppendFieldEvent(h)
  \/ CreatePractice(h) \/ RefusePractice(h)
  \/ DispatchReply(h) \/ MarkProcessed(h)

Next ==
  \/ Send
  \/ \E h \in Handlers :
       \/ Step(h)
       \/ \E w \in Webhooks : Deliver(h, w)
       \/ GiveUp(h)
       \/ DispatchFails(h) \/ PersistenceFails(h)
  \/ Crash

Spec == Init /\ [][Next]_vars

(* The event loop runs what is ready, and Meta retries what is due.        *)
Fairness ==
  /\ \A h \in Handlers : WF_vars(Step(h))
  /\ \A w \in Webhooks : WF_vars(\E h \in Handlers : Deliver(h, w))

FairSpec == Spec /\ Fairness
-----------------------------------------------------------------------------
(* Types.                                                                  *)
TypeOK ==
  /\ content \in [Messages -> Contents]
  /\ sent \in 0 .. Len(Batches)
  /\ due \subseteq 1 .. sent
  /\ replies \in [Messages -> Nat]
  /\ processed \subseteq Messages
  /\ consent \in [Subjects -> ConsentStates]
  /\ consentEvents \subseteq [subject : Subjects, state : {"granted", "denied"}, source : Messages]
  /\ intake \in [Subjects -> Files(Values)]
  /\ intakeEvents \subseteq [subject : Subjects, kind : FieldNames \cup {"state"},
                             state : IntakeStates, source : Messages]
  /\ practices \subseteq [code : Nat, subject : Subjects, source : StoredIds,
                          fields : [FieldNames -> Values]]
  /\ lastCode \in Nat
  /\ handler \in [Handlers -> HandlerStates]
  /\ faults \in 0 .. MaxFaults
  /\ timeouts \in 0 .. MaxTimeouts

(* Nothing of a client's questionnaire, its log or a practice is stored    *)
(* unless that client's consent is granted, whatever fails in between      *)
(* (clientRuntime.ts returns before the intake for any other consent).     *)
ConsentGate ==
  \A s \in Subjects :
    (\/ intake[s] # EmptyFile
     \/ \E e \in intakeEvents : e.subject = s
     \/ \E p \in practices : p.subject = s)
    => consent[s] = "granted"

(* A granted or denied consent never changes again, and becomes granted    *)
(* only by a strict form written by that very client.                      *)
ConsentIsFinal ==
  [][\A s \in Subjects : consent'[s] # consent[s] =>
       /\ consent[s] \in {"unknown", "requested"}
       /\ consent'[s] = "granted" =>
            \E m \in Messages : Sender[m] = s /\ content[m].consent = "granted"]_consent

(* Meta is told 200 only when every message of the webhook was processed   *)
(* and a reply to it had reached the client: a failure, a crash or a       *)
(* duplicate never turns into silence.                                     *)
AcknowledgedMeansAnswered ==
  \A w \in (1 .. sent) \ due : \A i \in DOMAIN Batches[w] :
    Batches[w][i] \in processed /\ replies[Batches[w][i]] > 0

(* A processed message is never answered again, whatever fails, as long as *)
(* Meta gave up no delivery: a retry finds the processed marker.           *)
ProcessedIsNotAnsweredAgain ==
  [][\A m \in processed : replies'[m] # replies[m] => timeouts > 0]_replies

(* A practice holds a complete set of facts, all of them given by its own  *)
(* client, and was opened by a message of his.                             *)
PracticesAreOwn ==
  \A p \in practices \ StartPractices :
    /\ p.source \in Messages /\ Sender[p.source] = p.subject
    /\ \A f \in IdentityFields \cup {"problemSummary"} : p.fields[f] # Absent
    /\ \A f \in FieldNames : p.fields[f] \in Messages => Sender[p.fields[f]] = p.subject

(* Practices are opened as the abstract registry says: one at a time, one  *)
(* per message, with the next code, and are never changed or removed.      *)
Entry(p) == [code |-> p.code, subject |-> p.subject, source |-> p.source]

Registry == INSTANCE PracticeRegistry WITH
  Owner     <- Sender,
  Start     <- {Entry(p) : p \in StartPractices},
  StartLast <- Cardinality(StartPractices),
  registry  <- {Entry(p) : p \in practices},
  last      <- lastCode

RegistrySpec == Registry!Spec

-----------------------------------------------------------------------------
(* What holds only as long as no statement fails and no process dies; that *)
(* an issue is a message of its own, only if every reply is sent in time.  *)

(* Is some handler between the first and the last write for client s?      *)
Writing(s) ==
  \E h \in Handlers : /\ handler[h].pc \in {"consentEvent", "state", "stateEvent", "field",
                                            "fieldEvent", "practice"}
                     /\ Subject(h) = s

(* A message that completed the questionnaire and was fully processed has  *)
(* opened a practice, unless the codes ran out (WHATSAPP_CLOUD.md, step 6  *)
(* of the client flow).                                                    *)
CompletionOpensPractice ==
  \A e \in intakeEvents :
    /\ e.kind = "state" /\ e.state = "intake_complete"
    /\ e.source \in processed /\ FreeCodes # {}
    => \E p \in practices : p.source = e.source /\ p.subject = e.subject

(* The legal issue of a practice is a message of its own: it did not also  *)
(* answer another question, nor is it the issue of another practice.       *)
LegalIssueIsItsOwnMessage ==
  \A p \in practices \ StartPractices :
    /\ \A f \in IdentityFields : p.fields[f] # p.fields["problemSummary"]
    /\ p.source # p.fields["problemSummary"]
    /\ \A q \in practices \ {p} : q.fields["problemSummary"] # p.fields["problemSummary"]

(* The event logs account for the state: every consent decision and every  *)
(* answer taken from a message has its event.                              *)
LogsAccountForState ==
  \A s \in Subjects : ~Writing(s) =>
    /\ consent[s] \in {"granted", "denied"} /\ StartFiles[s] = EmptyFile =>
         \E e \in consentEvents : e.subject = s /\ e.state = consent[s]
    /\ \A f \in FieldNames : intake[s].fields[f] \in Messages =>
         \E e \in intakeEvents :
           e.subject = s /\ e.kind = f /\ e.source = intake[s].fields[f]

(* Every webhook is eventually acknowledged: failures are retried and      *)
(* duplicates skipped until the whole batch is processed.                  *)
EveryWebhookAcknowledged ==
  \A w \in Webhooks : (w \in due) ~> (w \notin due)
=============================================================================
