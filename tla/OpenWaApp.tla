------------------------------ MODULE OpenWaApp ------------------------------
(***************************************************************************)
(* The OpenWA process from its configuration to its exit: the application  *)
(* (app/openwaSmoke.ts), its listener (transport/openwa/listener.ts,       *)
(* dispatcher.ts) and the table of processed messages                      *)
(* (runtime/openwa/technicalPersistence.ts).                               *)
(*                                                                         *)
(* The supervisor is what the module OpenWaSupervisor shows of it: one     *)
(* active client at a time, kept while it is degraded and replaced with    *)
(* the same set of message ids; a client whose kill failed may go on       *)
(* delivering, next to a new one where recoveries overlap.  A kill, and    *)
(* the creation of a client up to its activation, are one step each.       *)
(*                                                                         *)
(* A callback of the client runs up to its first await.  The awaits of     *)
(* SQLite resolve at once, so that a callback reaches sendText within the  *)
(* turn of the event loop it began in; only callbacks of the same turn     *)
(* interleave before that (WithinTurn).  Audit events are left out: each   *)
(* is written apart and a failure is swallowed.                            *)
(***************************************************************************)
EXTENDS Integers, Preflight

CONSTANTS
  Messages,       (* ids of messages of clients (fromMe is ignored)        *)
  Handlers,       (* concurrent executions of handleOpenWaMessage          *)
  Setups,         (* the setups an operator may try                        *)
  MaxClients,     (* bound: clients delivering at once                     *)
  MaxDeliveries,  (* bound: deliveries of a message, WhatsApp's repetitions *)
                  (* included                                              *)
  MaxRuns,        (* bound: processes started                              *)
  MaxFaults       (* bound: operations that fail                           *)

ASSUME OpenWaAppAssumption ==
  /\ MaxDeliveries \in Nat /\ MaxRuns \in Nat /\ MaxFaults \in Nat
  /\ MaxClients \in Nat

Clients == 1 .. MaxClients

VARIABLES
  refused,        (* the setup that was refused last, if the last was      *)
  technical,      (* TECHNICAL_PERSISTENCE_ENABLED of the process          *)
  phase,          (* where startOpenWaSmokeApp and stop() are              *)
  active,         (* the supervisor's activeClient; 0 when it has none     *)
  listening,      (* the clients that deliver, known to it or not          *)
  handled,        (* processedMessageIds, one set for the whole process    *)
  processed,      (* the table processed_messages                          *)
  handler,        (* the executions of handleOpenWaMessage                 *)
  here,           (* history: replies this process has sent, by message    *)
  answers,        (* history: replies all processes have sent              *)
  ignored,        (* history: messages ignored as duplicates               *)
  because,        (* history: what went wrong with a message               *)
  spent           (* deliveries, runs and faults so far                    *)

vars == <<refused, technical, phase, active, listening, handled, processed, handler,
          here, answers, ignored, because, spent>>

settings == <<refused, technical>>

history == <<here, answers, ignored, because>>

Phases == {"down", "starting", "ready", "degraded", "stopping", "closing"}

Reasons == {"together", "lookup", "pipeline", "unsent", "rejected", "unmarked", "ended"}

Idle == [pc |-> "idle"]

Busy(h) == handler[h].pc # "idle"

(* Between the callback and the call of sendText.                          *)
WithinTurn(h) == handler[h].pc \in {"received", "looking"}

MacroTask == \A h \in Handlers : ~WithinTurn(h)

Fault == spent.faults < MaxFaults /\ spent' = [spent EXCEPT !.faults = @ + 1]

Blame(m, reason) == because' = [because EXCEPT ![m] = @ \cup {reason}]

Done(h) == handler' = [handler EXCEPT ![h] = Idle]

-----------------------------------------------------------------------------
(* Starting *)

Starts(s) == IF Transport(s.env) = "cloud" THEN CloudStarts(s) ELSE OpenWaStarts(s)

(* What the process finds decides whether it goes on; the webhook runtime, *)
(* once it has started, is the module CloudRuntime's.  A refusal leaves    *)
(* nothing behind: only those before the first run are told apart.         *)
Launch ==
  /\ phase = "down" /\ spent.runs < MaxRuns
  /\ \E s \in Setups :
       \/ /\ ~Starts(s) /\ spent.runs = 0
          /\ refused' = {s}
          /\ UNCHANGED <<phase, technical, spent>>
       \/ /\ Starts(s) /\ Transport(s.env) = "openwa"
          /\ spent' = [spent EXCEPT !.runs = @ + 1]
          /\ refused' = {}
          /\ technical' = On(s.env, "TECHNICAL_PERSISTENCE_ENABLED")
          /\ phase' = "starting"
  /\ UNCHANGED <<active, listening, handled, processed, handler, history>>

(* Everything in memory is gone; the handlers end where they are.          *)
ProcessEnds ==
  /\ phase' = "down" /\ active' = 0 /\ listening' = {} /\ handled' = {}
  /\ handler' = [h \in Handlers |-> Idle]
  /\ here' = [m \in Messages |-> 0]
  /\ because' = [m \in Messages |-> because[m] \cup
       {IF handler[h].pc = "sent" THEN "unmarked" ELSE "ended" :
          h \in {g \in Handlers : Busy(g) /\ handler[g].message = m}}]

(* The status server cannot bind its port, or every attempt of the         *)
(* supervisor failed; the error reaches main.                              *)
StartFails ==
  /\ phase = "starting"
  /\ Fault
  /\ ProcessEnds
  /\ UNCHANGED <<settings, processed, answers, ignored>>

(* Mutant: the listener of every client has a set of its own.              *)
RegisterWithOwnSet(c) ==
  /\ active' = c
  /\ listening' = listening \cup {c}
  /\ handled' = {}

(* activateClient: the listener is given the set of the process.           *)
Register(c) ==
  /\ active' = c
  /\ listening' = listening \cup {c}
  /\ UNCHANGED handled

(* supervisor.start(), or a recovery, has a client again.                  *)
Activate ==
  /\ MacroTask
  /\ phase \in {"starting", "degraded"} /\ active = 0
  /\ \E c \in Clients :
       /\ c \notin listening /\ \A d \in Clients : d \notin listening => c <= d
       /\ Register(c)
  /\ phase' = "ready"
  /\ UNCHANGED <<settings, processed, handler, history, spent>>

(* The probes of the client fail; the supervisor keeps it for the time     *)
(* being.                                                                  *)
Degrade ==
  /\ MacroTask
  /\ phase = "ready"
  /\ Fault
  /\ phase' = "degraded"
  /\ UNCHANGED <<settings, active, listening, handled, processed, handler, history>>

(* A probe succeeds before a recovery has begun.                           *)
ProbeSucceeds ==
  /\ MacroTask
  /\ phase = "degraded" /\ active # 0
  /\ phase' = "ready"
  /\ UNCHANGED <<settings, active, listening, handled, processed, handler, history, spent>>

(* disposeClient                                                           *)
Killed == listening' = listening \ {active} /\ UNCHANGED spent

(* The kill rejects: the client may be gone all the same.                  *)
KillFails == active # 0 /\ Fault /\ listening' \in {listening, listening \ {active}}

(* Mutant: the catch block of runRecovery does not forget the client.      *)
KillReplacedUnforgotten ==
  /\ MacroTask
  /\ phase = "degraded" /\ active # 0
  /\ \/ Killed /\ active' = 0
     \/ KillFails /\ UNCHANGED active
  /\ UNCHANGED <<settings, phase, handled, processed, handler, history>>

(* A recovery kills the client it is to replace, and forgets it whether    *)
(* the kill succeeds or not.                                               *)
KillReplaced ==
  /\ MacroTask
  /\ phase = "degraded" /\ active # 0
  /\ Killed \/ KillFails
  /\ active' = 0
  /\ UNCHANGED <<settings, phase, handled, processed, handler, history>>

-----------------------------------------------------------------------------
(* handleOpenWaMessage *)

(* Callbacks of one turn are for messages that WhatsApp sent together.     *)
Deliver(h, m) ==
  /\ ~Busy(h)
  /\ \A g \in Handlers : handler[g].pc # "looking"
  /\ spent.deliveries[m] < MaxDeliveries
  /\ \E c \in listening :
       handler' = [handler EXCEPT ![h] = [pc |-> "received", message |-> m, client |-> c]]
  /\ spent' = [spent EXCEPT !.deliveries[m] = @ + 1]
  /\ IF \E g \in Handlers : WithinTurn(g) /\ handler[g].message = m
     THEN Blame(m, "together")
     ELSE UNCHANGED because
  /\ UNCHANGED <<settings, phase, active, listening, handled, processed, here, answers, ignored>>

Ignore(h) ==
  /\ ignored' = ignored \cup {handler[h].message}
  /\ Done(h)

(* processedMessageIds.has, after recordMessageReceived.                   *)
CheckHandled(h) ==
  /\ handler[h].pc = "received"
  /\ IF handler[h].message \in handled
     THEN Ignore(h)
     ELSE handler' = [handler EXCEPT ![h].pc = "looking"] /\ UNCHANGED ignored
  /\ UNCHANGED <<settings, phase, active, listening, handled, processed,
                 here, answers, because, spent>>

(* Mutant: a lookup that fails counts as a hit.                            *)
KnownUnlessFalse(m, readable) == technical /\ (~readable \/ m \in processed)

(* Mutant: the table is never asked.                                       *)
KnownNever(m, readable) == FALSE

(* isMessageProcessed, false when there is no table or it cannot be read.  *)
Known(m, readable) == technical /\ readable /\ m \in processed

(* The lookup in the table; the id enters the set; the pipeline runs.      *)
CheckProcessed(h) ==
  LET m == handler[h].message IN
  /\ handler[h].pc = "looking"
  /\ \E readable, runs \in BOOLEAN :
       /\ IF readable /\ runs THEN UNCHANGED spent ELSE Fault
       /\ Known(m, readable) => runs
       /\ because' = [because EXCEPT ![m] =
            @ \cup {r \in {"lookup"} : ~(technical /\ readable)} \cup {r \in {"pipeline"} : ~runs}]
       /\ IF Known(m, readable)
          THEN Ignore(h) /\ UNCHANGED handled
          ELSE /\ handled' = handled \cup {m}
               /\ IF runs THEN handler' = [handler EXCEPT ![h].pc = "dispatch"] ELSE Done(h)
               /\ UNCHANGED ignored
  /\ UNCHANGED <<settings, phase, active, listening, processed, here, answers>>

(* sendText reaches WhatsApp; its promise is still open.                   *)
Transmit(h) ==
  LET m == handler[h].message IN
  /\ MacroTask
  /\ handler[h].pc = "dispatch" /\ handler[h].client \in listening
  /\ handler' = [handler EXCEPT ![h].pc = "sent"]
  /\ here' = [here EXCEPT ![m] = @ + 1]
  /\ answers' = [answers EXCEPT ![m] = @ + 1]
  /\ UNCHANGED <<settings, phase, active, listening, handled, processed,
                 ignored, because, spent>>

(* sendText rejects, its message sent or not: the client was killed or     *)
(* failed.  The failure is recorded and the handler ends.                  *)
SendRejects(h) ==
  LET m == handler[h].message IN
  /\ MacroTask
  /\ handler[h].pc \in {"dispatch", "sent"}
  /\ IF handler[h].client \in listening THEN Fault ELSE UNCHANGED spent
  /\ Blame(m, IF handler[h].pc = "sent" THEN "rejected" ELSE "unsent")
  /\ Done(h)
  /\ UNCHANGED <<settings, phase, active, listening, handled, processed, here, answers, ignored>>

(* Mutant: the message is marked when its handler has no more than started *)
(* to send.                                                                *)
MarkedFrom == {"dispatch", "sent"}

(* Where dispatch() returned.                                              *)
DispatchedAt == {"sent"}

(* dispatch() returns; markMessageProcessed, whose failure is swallowed.   *)
MarkProcessed(h) ==
  LET m == handler[h].message IN
  /\ MacroTask
  /\ handler[h].pc \in DispatchedAt
  /\ Done(h)
  /\ \/ /\ technical
        /\ processed' = processed \cup {m}
        /\ UNCHANGED <<because, spent>>
     \/ /\ ~technical
        /\ Blame(m, "unmarked")
        /\ UNCHANGED <<processed, spent>>
     \/ /\ technical /\ Fault
        /\ Blame(m, "unmarked")
        /\ UNCHANGED processed
  /\ UNCHANGED <<settings, phase, active, listening, handled, here, answers, ignored>>

-----------------------------------------------------------------------------
(* Stopping *)

(* A signal, once the handlers of signals are installed.                   *)
Stop ==
  /\ MacroTask
  /\ phase \in {"ready", "degraded"}
  /\ phase' = "stopping"
  /\ UNCHANGED <<settings, active, listening, handled, processed, handler, history, spent>>

(* Mutant: there is nothing to stop when no client is active.              *)
StopActiveSupervisor ==
  /\ MacroTask
  /\ phase = "stopping" /\ active # 0
  /\ phase' = "closing" /\ active' = 0
  /\ listening' = listening \ {active}
  /\ UNCHANGED <<settings, handled, processed, handler, history, spent>>

(* supervisor.stop(): the client is killed; one whose kill fails stays the *)
(* supervisor's.  Either way the status server is stopped next.            *)
StopSupervisor ==
  /\ MacroTask
  /\ phase = "stopping"
  /\ phase' = "closing"
  /\ \/ Killed /\ active' = 0
     \/ KillFails /\ UNCHANGED active
  /\ UNCHANGED <<settings, handled, processed, handler, history>>

(* The status server is closed, then the database; the process exits.      *)
Exit ==
  /\ MacroTask
  /\ phase = "closing"
  /\ ProcessEnds
  /\ UNCHANGED <<settings, processed, answers, ignored, spent>>

(* The process is killed, also by a signal while it starts.                *)
Crash ==
  /\ phase # "down"
  /\ Fault
  /\ ProcessEnds
  /\ UNCHANGED <<settings, processed, answers, ignored>>

-----------------------------------------------------------------------------
Init ==
  /\ refused = {} /\ technical = FALSE /\ phase = "down" /\ active = 0 /\ listening = {}
  /\ handled = {} /\ processed = {} /\ ignored = {}
  /\ handler = [h \in Handlers |-> Idle]
  /\ here = [m \in Messages |-> 0]
  /\ answers = [m \in Messages |-> 0]
  /\ because = [m \in Messages |-> {}]
  /\ spent = [deliveries |-> [m \in Messages |-> 0], runs |-> 0, faults |-> 0]

Handle(h) == CheckHandled(h) \/ CheckProcessed(h) \/ Transmit(h) \/ SendRejects(h)
             \/ MarkProcessed(h)

Next ==
  \/ Launch \/ StartFails \/ Activate
  \/ Degrade \/ ProbeSucceeds \/ KillReplaced
  \/ \E h \in Handlers : (\E m \in Messages : Deliver(h, m)) \/ Handle(h)
  \/ Stop \/ StopSupervisor \/ Exit \/ Crash

Spec == Init /\ [][Next]_vars

(* The event loop runs what is due: the callbacks of a turn, the kill that *)
(* ends, the server that is closed.                                        *)
FairSpec ==
  /\ Spec
  /\ \A h \in Handlers : WF_vars(CheckHandled(h)) /\ WF_vars(CheckProcessed(h))
  /\ WF_vars(StopSupervisor) /\ WF_vars(Exit)

-----------------------------------------------------------------------------
(* Properties *)

(* Types.  A client is active only between start() and the exit, and until *)
(* the supervisor has tried to stop it the active client is one that       *)
(* delivers (supervisor.ts:290-304, 347-382).                              *)
TypeOK ==
  /\ refused \subseteq Setups /\ technical \in BOOLEAN
  /\ phase \in Phases
  /\ active \in {0} \cup Clients
  /\ active # 0 => phase \notin {"down", "starting"} /\ (phase = "closing" \/ active \in listening)
  /\ listening \subseteq Clients
  /\ handled \subseteq Messages /\ processed \subseteq Messages /\ ignored \subseteq Messages
  /\ \A h \in Handlers : Busy(h) => handler[h].message \in Messages /\ handler[h].client \in Clients
  /\ because \in [Messages -> SUBSET Reasons]
  /\ spent.faults \in 0 .. MaxFaults

(* What ops:preflight reports as ready starts: neither runtime refuses the *)
(* environment and the database the preflight passed, although each has    *)
(* its own checks (opsPreflight.ts, openwaSmoke.ts, whatsappCloudRuntime.ts *)
(* and env.ts).                                                            *)
ReadyMeansItStarts ==
  \A s \in refused : ~PreflightReady(s)

(* A process answers a message once, whatever clients deliver it and       *)
(* however often, unless two copies arrive in one turn of the event loop:  *)
(* then both pass the check before either id enters the set                *)
(* (listener.ts:91-127, supervisor.ts:101).                                *)
AnsweredOncePerProcess ==
  \A m \in Messages : here[m] > 1 => "together" \in because[m]

(* Over restarts a message is answered again only when the first answer    *)
(* could not be recorded: its send was rejected after the fact, its mark   *)
(* failed or the process ended before it, or the table was not read        *)
(* (listener.ts:108-141).                                                  *)
SecondAnswerIsExplained ==
  \A m \in Messages : answers[m] > 1 =>
    because[m] \cap {"together", "lookup", "rejected", "unmarked"} # {}

(* A message in the table of processed messages has been answered: a       *)
(* message that the table makes every later process ignore is not one that *)
(* nobody answered (listener.ts:129-141).                                  *)
ProcessedMeansAnswered == \A m \in processed : answers[m] > 0

(* A message ignored as a duplicate is answered, about to be, or one whose *)
(* pipeline, send or process failed after its id entered the set           *)
(* (listener.ts:127): nothing else makes the bot silent.                   *)
SilenceIsExplained ==
  \A m \in ignored :
    \/ answers[m] > 0
    \/ \E h \in Handlers : Busy(h) /\ handler[h].message = m
    \/ because[m] \cap {"pipeline", "unsent", "ended"} # {}

(* A signal ends the process, also when the client cannot be killed        *)
(* (openwaSmoke.ts:296-330).                                               *)
StopEnds == phase = "stopping" ~> phase = "down"
=============================================================================
