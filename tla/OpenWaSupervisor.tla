-------------------------- MODULE OpenWaSupervisor --------------------------
(***************************************************************************)
(* The supervisor of the OpenWA transport: it starts a browser client with *)
(* retries, probes it, replaces it when the probes keep failing, and stops *)
(* it (transport/openwa/supervisor.ts).                                    *)
(*                                                                         *)
(* The supervisor is a set of asynchronous functions over shared           *)
(* variables.  One action is what runs between two suspensions; what a     *)
(* suspended call waits for (a client being created, a listener being      *)
(* registered, a kill, a probe, a timer) ends in any order.  The resumption *)
(* of a resolved recovery delay is a microtask: it precedes everything     *)
(* else (woken).  Durations, time stamps and error texts are left out.     *)
(***************************************************************************)
EXTENDS Integers

CONSTANTS
  Clients,              (* identities of browser clients, reused after a kill *)
  NoClient,             (* undefined                                       *)
  Recoveries,           (* concurrent executions of runRecovery            *)
  RecoveryModes,        (* the modes to consider, manual or restart_client *)
  StartupMaxAttempts,
  RecoveryMaxAttempts,
  FailureThreshold,     (* of the liveness checks                          *)
  Failures,             (* what may fail: "create", "register", "kill"     *)
  PromptChecks,         (* a probe is answered before a recovery begins    *)
  MaxChecks             (* bound: probes under way at the same time        *)

Starter == "start"
Stopper == "stop"
Launchers == Recoveries \cup {Starter}
Tasks == Launchers \cup {Stopper}

ASSUME SupervisorAssumption ==
  /\ NoClient \notin Clients
  /\ Starter \notin Recoveries /\ Stopper \notin Recoveries
  /\ RecoveryModes \subseteq {"manual", "restart_client"}
  /\ StartupMaxAttempts \in Nat \ {0}
  /\ RecoveryMaxAttempts \in Nat
  /\ FailureThreshold \in Nat \ {0}
  /\ PromptChecks \in BOOLEAN
  /\ MaxChecks \in Nat \ {0}

VARIABLES
  state,              (* the supervisor's state, as getHealth shows it      *)
  shutdownRequested,
  active,             (* activeClient; listenerRegisteredForActiveClient is *)
                      (* assigned together with it                          *)
  browser,            (* what each client is: absent, running or listening  *)
  startupAttempts,
  task,               (* the suspended functions: start, stop, runRecovery  *)
  timer,              (* is livenessTimer set?                              *)
  monitored,          (* is livenessCheck set?                              *)
  failureCount,       (* livenessFailureCount, saturated at the threshold   *)
  checks,             (* probes under way                                   *)
  recovery,           (* the variables of the recovery policy               *)
  recoveryMode,       (* fixed at construction                              *)
  spoiled             (* has a kill or a registration failed so far?        *)

vars == <<state, shutdownRequested, active, browser, startupAttempts, task, timer,
          monitored, failureCount, checks, recovery, recoveryMode, spoiled>>

liveness == <<timer, monitored, failureCount, checks>>
fixed    == <<recoveryMode>>

States == {"starting", "ready", "degraded", "shutting_down", "stopped"}

(* waiting: resolveRecoveryDelay is set; woken: the waiter was resolved    *)
(* and has not run yet.                                                    *)
RecoveryRecords ==
  [attempt : 0 .. RecoveryMaxAttempts, inProgress : BOOLEAN, scheduled : BOOLEAN,
   exhausted : BOOLEAN, waiting : BOOLEAN, woken : BOOLEAN]

Positions == {"idle", "creating", "registering", "discarding", "cleaning", "waiting",
              "disposing", "done", "failed"}

At(t, pc) == task[t].pc = pc
Goto(t, pc, c) == task' = [task EXCEPT ![t] = [pc |-> pc, client |-> c]]

(* Only when no microtask is due does the event loop turn to anything else. *)
MacroTask == ~recovery.woken

Alive == {c \in Clients : browser[c] # "absent"}

-----------------------------------------------------------------------------
(* Synchronous helpers of the code, on the recovery record                 *)

(* clearRecoveryDelay                                                      *)
Cleared(r) ==
  [r EXCEPT !.scheduled = FALSE, !.waiting = FALSE, !.woken = @ \/ r.waiting]

(* resetRecoveryCycle                                                      *)
Reset(r) ==
  [Cleared(r) EXCEPT !.attempt = 0, !.inProgress = FALSE, !.exhausted = FALSE]

(* scheduleRecovery up to its await, called in the state "degraded"        *)
Scheduled(r) ==
  IF recoveryMode = "manual" \/ shutdownRequested \/ r.inProgress \/ r.scheduled THEN r
  ELSE IF r.attempt >= RecoveryMaxAttempts THEN [r EXCEPT !.exhausted = TRUE]
  ELSE [r EXCEPT !.scheduled = TRUE, !.waiting = TRUE]

-----------------------------------------------------------------------------
(* Starting *)

(* One turn of the startup loop, up to the await of createClient.          *)
BeginAttempt ==
  IF shutdownRequested
  THEN Goto(Starter, "failed", NoClient) /\ UNCHANGED startupAttempts
  ELSE Goto(Starter, "creating", NoClient) /\ startupAttempts' = startupAttempts + 1

Start ==
  /\ MacroTask
  /\ At(Starter, "idle")
  /\ BeginAttempt
  /\ UNCHANGED <<state, shutdownRequested, active, browser, liveness, recovery, fixed, spoiled>>

(* The retry timer fires, or stop() resolves the delay.                    *)
RetryDelayEnds ==
  /\ MacroTask
  /\ At(Starter, "waiting")
  /\ BeginAttempt
  /\ UNCHANGED <<state, shutdownRequested, active, browser, liveness, recovery, fixed, spoiled>>

(* Mutant: one attempt too many.                                           *)
StartupFailedOnceMore ==
  IF ~shutdownRequested /\ startupAttempts <= StartupMaxAttempts
  THEN state' = "starting" /\ Goto(Starter, "waiting", NoClient)
  ELSE state' = "degraded" /\ Goto(Starter, "failed", NoClient)

(* The end of the catch block: give up or wait for another attempt.        *)
StartupFailed ==
  IF ~shutdownRequested /\ startupAttempts < StartupMaxAttempts
  THEN state' = "starting" /\ Goto(Starter, "waiting", NoClient)
  ELSE state' = "degraded" /\ Goto(Starter, "failed", NoClient)

-----------------------------------------------------------------------------
(* Recovering *)

(* Mutant: the client to replace is not disposed of.                       *)
BeginRecoveryKeepingClient(r, policy) ==
  /\ recovery' = [policy EXCEPT !.scheduled = FALSE, !.inProgress = TRUE, !.attempt = @ + 1]
  /\ timer' = FALSE /\ monitored' = FALSE
  /\ Goto(r, "creating", NoClient)

(* runRecovery up to its first real suspension.                            *)
BeginRecovery(r, policy) ==
  /\ recovery' = [policy EXCEPT !.scheduled = FALSE, !.inProgress = TRUE, !.attempt = @ + 1]
  /\ timer' = FALSE /\ monitored' = FALSE
  /\ IF active = NoClient THEN Goto(r, "creating", NoClient) ELSE Goto(r, "disposing", active)

RecoveryDelayEnds ==
  /\ MacroTask
  /\ recovery.waiting
  /\ PromptChecks => checks = 0
  /\ recovery' = [recovery EXCEPT !.waiting = FALSE, !.woken = TRUE]
  /\ UNCHANGED <<state, shutdownRequested, active, browser, startupAttempts, task, liveness,
                 fixed, spoiled>>

(* The rest of scheduleRecovery: an obsolete wake-up is ignored.           *)
WakeUp ==
  LET policy == [recovery EXCEPT !.woken = FALSE]
      stale  == ~recovery.scheduled \/ shutdownRequested \/ state # "degraded"
      spent  == recovery.attempt >= RecoveryMaxAttempts
  IN
  /\ recovery.woken
  /\ IF stale \/ recovery.inProgress \/ spent
     THEN /\ recovery' = [policy EXCEPT !.exhausted = @ \/ (~stale /\ spent)]
          /\ UNCHANGED <<task, timer, monitored>>
     ELSE \E r \in Recoveries : At(r, "idle") /\ BeginRecovery(r, policy)
  /\ UNCHANGED <<state, shutdownRequested, active, browser, startupAttempts, failureCount, checks,
                 fixed, spoiled>>

(* The old client is gone; a new one is created, whatever happened in the  *)
(* meantime.                                                               *)
OldClientKilled(r) ==
  /\ MacroTask
  /\ At(r, "disposing")
  /\ browser' = [browser EXCEPT ![task[r].client] = "absent"]
  /\ active' = NoClient
  /\ Goto(r, "creating", NoClient)
  /\ UNCHANGED <<state, shutdownRequested, startupAttempts, liveness, recovery, fixed, spoiled>>

(* Mutant: the last failure of the budget is not recorded.                 *)
RecoveryFailedSilently(r) ==
  /\ active' = NoClient
  /\ monitored' = FALSE
  /\ recovery' = [(IF state = "degraded" THEN Scheduled(recovery) ELSE recovery)
                    EXCEPT !.inProgress = FALSE]
  /\ Goto(r, "idle", NoClient)

(* The catch and finally blocks of runRecovery; scheduleRecovery is called *)
(* before recoveryInProgress is reset.                                     *)
RecoveryFailed(r) ==
  /\ active' = NoClient
  /\ monitored' = FALSE
  /\ recovery' = [(IF recovery.attempt >= RecoveryMaxAttempts
                   THEN [recovery EXCEPT !.exhausted = TRUE]
                   ELSE IF state = "degraded" THEN Scheduled(recovery) ELSE recovery)
                    EXCEPT !.inProgress = FALSE]
  /\ Goto(r, "idle", NoClient)

OldClientKillFails(r) ==
  /\ MacroTask
  /\ At(r, "disposing") /\ "kill" \in Failures
  /\ RecoveryFailed(r)
  /\ spoiled' = TRUE
  /\ UNCHANGED <<state, shutdownRequested, browser, startupAttempts, timer, failureCount, checks, fixed>>

-----------------------------------------------------------------------------
(* Launching a client, in start() and in runRecovery()                     *)

(* The error reaches the launcher's catch block: start() disposes of the   *)
(* candidate first, runRecovery() does not.                                *)
Catch(t) ==
  IF t # Starter
  THEN RecoveryFailed(t) /\ UNCHANGED state
  ELSE /\ UNCHANGED <<active, monitored, recovery>>
       /\ IF task[t].client = NoClient
          THEN StartupFailed
          ELSE Goto(t, "cleaning", task[t].client) /\ UNCHANGED state

(* An identity nobody remembers.                                           *)
Fresh == {c \in Clients \ Alive : c # active /\ \A t \in Tasks : task[t].client # c}

(* assertNotShuttingDown after createClient: a late client is discarded.   *)
ClientCreated(t) ==
  /\ MacroTask
  /\ At(t, "creating")
  /\ \E c \in Fresh :
       /\ browser' = [browser EXCEPT ![c] = "running"]
       /\ Goto(t, IF shutdownRequested THEN "discarding" ELSE "registering", c)
  /\ UNCHANGED <<state, shutdownRequested, active, startupAttempts, liveness, recovery, fixed, spoiled>>

CreationFails(t) ==
  /\ MacroTask
  /\ At(t, "creating") /\ "create" \in Failures
  /\ Catch(t)
  /\ UNCHANGED <<shutdownRequested, browser, startupAttempts, timer, failureCount, checks, fixed, spoiled>>

(* Mutant: the replaced client's monitoring is not resumed.                *)
MonitorStarterOnly(t) ==
  /\ monitored' = TRUE
  /\ failureCount' = 0
  /\ timer' = (t = Starter)

(* startLivenessMonitoring                                                 *)
Monitor(t) ==
  /\ monitored' = TRUE
  /\ failureCount' = 0
  /\ timer' = TRUE

(* The rest of activateClient, and what the launcher does after it.        *)
Activate(t) ==
  /\ active' = task[t].client
  /\ Monitor(t)
  /\ state' = "ready"
  /\ IF t = Starter
     THEN Goto(t, "done", NoClient) /\ UNCHANGED recovery
     ELSE /\ Goto(t, "idle", NoClient)
          /\ recovery' = [recovery EXCEPT !.inProgress = FALSE, !.exhausted = FALSE]

(* Mutant: the client is activated although shutdown was requested.        *)
ListenerRegisteredUnchecked(t) ==
  /\ MacroTask
  /\ At(t, "registering")
  /\ browser' = [browser EXCEPT ![task[t].client] = "listening"]
  /\ Activate(t)
  /\ UNCHANGED <<shutdownRequested, startupAttempts, checks, fixed, spoiled>>

ListenerRegistered(t) ==
  /\ MacroTask
  /\ At(t, "registering")
  /\ browser' = [browser EXCEPT ![task[t].client] = "listening"]
  /\ IF shutdownRequested
     THEN /\ Goto(t, "discarding", task[t].client)
          /\ UNCHANGED <<active, state, timer, monitored, failureCount, recovery>>
     ELSE Activate(t)
  /\ UNCHANGED <<shutdownRequested, startupAttempts, checks, fixed, spoiled>>

RegistrationFails(t) ==
  /\ MacroTask
  /\ At(t, "registering") /\ "register" \in Failures
  /\ Catch(t)
  /\ spoiled' = TRUE
  /\ UNCHANGED <<shutdownRequested, browser, startupAttempts, timer, failureCount, checks, fixed>>

(* The kill in assertNotShuttingDown ends, and an error is thrown anyway.  *)
ClientDiscarded(t) ==
  /\ MacroTask
  /\ At(t, "discarding")
  /\ \/ browser' = [browser EXCEPT ![task[t].client] = "absent"] /\ UNCHANGED spoiled
     \/ "kill" \in Failures /\ spoiled' = TRUE /\ UNCHANGED browser
  /\ Catch(t)
  /\ UNCHANGED <<shutdownRequested, startupAttempts, timer, failureCount, checks, fixed>>

(* The kill in start()'s catch block ends; its failure rejects start().    *)
CandidateCleaned ==
  /\ MacroTask
  /\ At(Starter, "cleaning")
  /\ \/ /\ browser' = [browser EXCEPT ![task[Starter].client] = "absent"]
        /\ StartupFailed
        /\ UNCHANGED spoiled
     \/ /\ "kill" \in Failures
        /\ spoiled' = TRUE
        /\ Goto(Starter, "failed", NoClient)
        /\ UNCHANGED <<browser, state>>
  /\ UNCHANGED <<shutdownRequested, active, startupAttempts, liveness, recovery, fixed>>

-----------------------------------------------------------------------------
(* Probing *)

LivenessTimerFires ==
  /\ MacroTask
  /\ timer
  /\ checks < MaxChecks
  /\ timer' = FALSE
  /\ checks' = IF active # NoClient /\ monitored THEN checks + 1 ELSE checks
  /\ UNCHANGED <<state, shutdownRequested, active, browser, startupAttempts, task, monitored,
                 failureCount, recovery, fixed, spoiled>>

(* scheduleNextLivenessCheck                                               *)
ScheduleNextCheck ==
  timer' = IF shutdownRequested \/ active = NoClient \/ ~monitored THEN timer ELSE TRUE

CheckSucceeds ==
  /\ MacroTask
  /\ checks > 0
  /\ checks' = checks - 1
  /\ failureCount' = IF shutdownRequested THEN failureCount ELSE 0
  /\ IF ~shutdownRequested /\ state = "degraded" /\ active # NoClient
     THEN /\ state' = "ready"
          /\ recovery' = [Cleared(recovery) EXCEPT !.inProgress = FALSE]
     ELSE UNCHANGED <<state, recovery>>
  /\ ScheduleNextCheck
  /\ UNCHANGED <<shutdownRequested, active, browser, startupAttempts, task, monitored, fixed, spoiled>>

CheckFails ==
  /\ MacroTask
  /\ checks > 0
  /\ checks' = checks - 1
  /\ failureCount' = IF shutdownRequested \/ failureCount = FailureThreshold
                     THEN failureCount ELSE failureCount + 1
  /\ IF ~shutdownRequested /\ state = "ready" /\ failureCount' = FailureThreshold
     THEN state' = "degraded" /\ recovery' = Scheduled(Reset(recovery))
     ELSE UNCHANGED <<state, recovery>>
  /\ ScheduleNextCheck
  /\ UNCHANGED <<shutdownRequested, active, browser, startupAttempts, task, monitored, fixed, spoiled>>

-----------------------------------------------------------------------------
(* Stopping *)

(* What stop() does once the active client is gone.                        *)
Stopped ==
  /\ active' = NoClient
  /\ monitored' = FALSE
  /\ state' = "stopped"
  /\ Goto(Stopper, "done", NoClient)

Stop ==
  /\ MacroTask
  /\ At(Stopper, "idle")
  /\ shutdownRequested' = TRUE
  /\ timer' = FALSE
  /\ IF active = NoClient
     THEN Stopped /\ recovery' = [Cleared(recovery) EXCEPT !.inProgress = FALSE]
     ELSE /\ Goto(Stopper, "disposing", active)
          /\ state' = "shutting_down"
          /\ recovery' = Cleared(recovery)
          /\ UNCHANGED <<active, monitored>>
  /\ UNCHANGED <<browser, startupAttempts, failureCount, checks, fixed, spoiled>>

ActiveClientKilled ==
  /\ MacroTask
  /\ At(Stopper, "disposing")
  /\ browser' = [browser EXCEPT ![task[Stopper].client] = "absent"]
  /\ Stopped
  /\ timer' = FALSE
  /\ recovery' = [Cleared(recovery) EXCEPT !.inProgress = FALSE]
  /\ UNCHANGED <<shutdownRequested, startupAttempts, failureCount, checks, fixed, spoiled>>

ActiveClientKillFails ==
  /\ MacroTask
  /\ At(Stopper, "disposing") /\ "kill" \in Failures
  /\ Goto(Stopper, "failed", NoClient)
  /\ timer' = FALSE
  /\ recovery' = Cleared(recovery)
  /\ spoiled' = TRUE
  /\ UNCHANGED <<state, shutdownRequested, active, browser, startupAttempts, monitored,
                 failureCount, checks, fixed>>

-----------------------------------------------------------------------------
Init ==
  /\ state = "starting"
  /\ shutdownRequested = FALSE
  /\ active = NoClient
  /\ browser = [c \in Clients |-> "absent"]
  /\ startupAttempts = 0
  /\ task = [t \in Tasks |-> [pc |-> "idle", client |-> NoClient]]
  /\ timer = FALSE /\ monitored = FALSE /\ failureCount = 0 /\ checks = 0
  /\ recovery = [attempt |-> 0, inProgress |-> FALSE, scheduled |-> FALSE,
                 exhausted |-> FALSE, waiting |-> FALSE, woken |-> FALSE]
  /\ recoveryMode \in RecoveryModes
  /\ spoiled = FALSE

(* What a launcher awaits comes to an end, well or badly.                  *)
Launch(t) ==
  \/ ClientCreated(t) \/ CreationFails(t)
  \/ ListenerRegistered(t) \/ RegistrationFails(t)
  \/ ClientDiscarded(t)

KillOld(r) == OldClientKilled(r) \/ OldClientKillFails(r)
KillActive == ActiveClientKilled \/ ActiveClientKillFails
Probe == CheckSucceeds \/ CheckFails

Next ==
  \/ Start \/ RetryDelayEnds \/ CandidateCleaned
  \/ RecoveryDelayEnds \/ WakeUp
  \/ \E t \in Launchers : Launch(t)
  \/ \E r \in Recoveries : KillOld(r)
  \/ LivenessTimerFires \/ Probe
  \/ Stop \/ KillActive

Spec == Init /\ [][Next]_vars

(* Every awaited call ends and every timer fires; nobody has to stop.      *)
Fairness ==
  /\ WF_vars(WakeUp)
  /\ WF_vars(Start) /\ WF_vars(RetryDelayEnds) /\ WF_vars(CandidateCleaned)
  /\ SF_vars(RecoveryDelayEnds)
  /\ \A t \in Launchers : WF_vars(Launch(t))
  /\ \A r \in Recoveries : WF_vars(KillOld(r))
  /\ WF_vars(LivenessTimerFires) /\ WF_vars(Probe)
  /\ WF_vars(KillActive)

FairSpec == Spec /\ Fairness
-----------------------------------------------------------------------------
(* Types.                                                                  *)
TypeOK ==
  /\ state \in States
  /\ shutdownRequested \in BOOLEAN
  /\ active \in Clients \cup {NoClient}
  /\ browser \in [Clients -> {"absent", "running", "listening"}]
  /\ startupAttempts \in 0 .. StartupMaxAttempts
  /\ task \in [Tasks -> [pc : Positions, client : Clients \cup {NoClient}]]
  /\ timer \in BOOLEAN /\ monitored \in BOOLEAN
  /\ failureCount \in 0 .. FailureThreshold
  /\ checks \in 0 .. MaxChecks
  /\ recovery \in RecoveryRecords
  /\ recoveryMode \in RecoveryModes
  /\ spoiled \in BOOLEAN

(* A ready supervisor has a client whose listener is registered, and the   *)
(* next probe of it is due or under way (the runbook's definition of       *)
(* ready).                                                                 *)
ReadyMeansServed ==
  state = "ready" =>
    /\ active # NoClient /\ browser[active] = "listening"
    /\ timer \/ checks > 0

(* While the supervisor is ready, the client exists.                       *)
ReadyMeansClientExists == state = "ready" => active # NoClient

(* No client is being created while another one still runs: two browsers   *)
(* never share the session's profile, whose locks createClient removes.    *)
OneClientAtATime ==
  \A t \in Launchers : At(t, "creating") => Alive = {} /\ \A u \in Launchers \ {t} : ~At(u, "creating")

(* No attempt to create a client begins after shutdown was requested.      *)
NoClientAfterStop ==
  [][\A t \in Launchers : (shutdownRequested /\ ~At(t, "creating")) => task'[t].pc # "creating"]_task

(* A client that degraded is replaced or comes back, or the budget of      *)
(* recoveries is declared exhausted, unless the supervisor is stopped.     *)
DegradationIsSettled ==
  (state = "degraded" /\ recoveryMode = "restart_client" /\ At(Starter, "done"))
    ~> (state = "ready" \/ recovery.exhausted \/ shutdownRequested)

(* After stop() no client survives, not even one that was being created or *)
(* replaced at that moment, unless a kill or a registration failed.        *)
StopLeavesNoClient ==
  shutdownRequested ~> [](Alive = {} \/ spoiled)
=============================================================================
