----------------------- MODULE OpenWaSupervisorProofs -----------------------
(***************************************************************************)
(* Theorems about OpenWaSupervisor for every set of clients, every number  *)
(* of attempts, threshold and recovery mode, and every failing call.       *)
(***************************************************************************)
EXTENDS OpenWaSupervisor, TLAPS

-----------------------------------------------------------------------------
(* What every reachable state has.                                         *)

(* A suspended function that works on a client has one, and the startup    *)
(* loop waits only while it has attempts left.                             *)
TypeInv ==
  /\ TypeOK
  /\ \A t \in Tasks :
       task[t].pc \in {"registering", "discarding", "cleaning", "disposing"}
         => task[t].client \in Clients
  /\ At(Starter, "idle") => startupAttempts = 0
  /\ At(Starter, "waiting") => startupAttempts < StartupMaxAttempts

NoRecovery == \A r \in Recoveries : At(r, "idle")

(* Until start() is over it is the only one to launch a client, nothing is *)
(* probed and no recovery is planned.                                      *)
StarterAlone ==
  ~At(Starter, "done") =>
    /\ NoRecovery
    /\ active = NoClient /\ state # "ready"
    /\ ~recovery.scheduled /\ checks = 0 /\ ~timer

(* One recovery at a time, during which nothing is probed and no other one *)
(* is planned; it has forgotten the active client unless it is about to    *)
(* kill it.                                                                *)
RecoveryAlone ==
  \A r \in Recoveries : ~At(r, "idle") =>
    /\ \A q \in Recoveries \ {r} : At(q, "idle")
    /\ task[r].pc \in {"disposing", "creating", "registering", "discarding"}
    /\ checks = 0 /\ ~timer /\ ~recovery.scheduled
    /\ state # "ready"
    /\ recovery.inProgress \/ shutdownRequested
    /\ active = NoClient \/ (At(r, "disposing") /\ active = task[r].client)

(* Whoever has a client, has the only one alive; whoever is to create one  *)
(* has none.                                                               *)
ClientsAccounted ==
  /\ active # NoClient => Alive \subseteq {active}
  /\ \A t \in Launchers :
       /\ At(t, "creating") => Alive = {}
       /\ task[t].pc \in {"registering", "discarding", "cleaning", "disposing"}
            => Alive \subseteq {task[t].client}
  /\ task[Starter].pc \in {"idle", "waiting"} => Alive = {}

(* A recovery is planned only for a degraded client that is there, and     *)
(* begins when no probe is under way; a ready client is probed.            *)
PolicySound ==
  /\ recovery.waiting => recovery.scheduled /\ ~recovery.woken
  /\ recovery.scheduled => active # NoClient /\ ~shutdownRequested /\ state = "degraded"
  /\ recovery.scheduled /\ recovery.woken => checks = 0
  /\ state = "ready" => active # NoClient /\ ~shutdownRequested /\ (timer \/ checks > 0)
  /\ active # NoClient /\ NoRecovery /\ ~shutdownRequested =>
       monitored /\ browser[active] = "listening"
  /\ ~At(Stopper, "idle") => shutdownRequested

(* The inductive strengthening of ReadyMeansServed and OneClientAtATime.   *)
SupInv ==
  PromptChecks /\ TypeInv /\ StarterAlone /\ RecoveryAlone /\ ClientsAccounted /\ PolicySound

-----------------------------------------------------------------------------
(* Lemmas about the operators of the model.                                *)

(* clearRecoveryDelay drops the plan and wakes whoever waits for it.       *)
LEMMA ClearedIs ==
  ASSUME NEW r \in RecoveryRecords
  PROVE  /\ Cleared(r) \in RecoveryRecords
         /\ ~Cleared(r).scheduled /\ ~Cleared(r).waiting
         /\ Cleared(r).inProgress = r.inProgress
         /\ Cleared(r).woken = (r.woken \/ r.waiting)
BY DEF Cleared, RecoveryRecords

(* Resetting a policy forgets the cycle.                                   *)
LEMMA ResetIs ==
  ASSUME NEW r \in RecoveryRecords, SupervisorAssumption
  PROVE  /\ Reset(r) \in RecoveryRecords
         /\ ~Reset(r).scheduled /\ ~Reset(r).waiting /\ ~Reset(r).inProgress
         /\ Reset(r).woken = (r.woken \/ r.waiting)
<1>1. 0 \in 0 .. RecoveryMaxAttempts
  BY DEF SupervisorAssumption
<1>2. ASSUME NEW k \in RecoveryRecords
      PROVE  LET z == [k EXCEPT !.attempt = 0, !.inProgress = FALSE, !.exhausted = FALSE] IN
             /\ z \in RecoveryRecords /\ z.scheduled = k.scheduled /\ z.waiting = k.waiting
             /\ z.woken = k.woken /\ z.inProgress = FALSE
  BY <1>1 DEF RecoveryRecords
<1> QED
  BY <1>2, ClearedIs DEF Reset

(* scheduleRecovery plans one recovery at most, and none in shutdown.      *)
LEMMA ScheduledIs ==
  ASSUME NEW r \in RecoveryRecords
  PROVE  /\ Scheduled(r) \in RecoveryRecords
         /\ Scheduled(r).inProgress = r.inProgress /\ Scheduled(r).woken = r.woken
         /\ \/ Scheduled(r).scheduled = r.scheduled /\ Scheduled(r).waiting = r.waiting
            \/ /\ Scheduled(r).scheduled /\ Scheduled(r).waiting
               /\ ~shutdownRequested /\ ~r.inProgress
<1> DEFINE tired   == [r EXCEPT !.exhausted = TRUE]
           planned == [r EXCEPT !.scheduled = TRUE, !.waiting = TRUE]
<1>1. /\ tired \in RecoveryRecords /\ tired.inProgress = r.inProgress /\ tired.woken = r.woken
      /\ tired.scheduled = r.scheduled /\ tired.waiting = r.waiting
  BY DEF RecoveryRecords
<1>2. /\ planned \in RecoveryRecords /\ planned.inProgress = r.inProgress
      /\ planned.woken = r.woken /\ planned.scheduled /\ planned.waiting
  BY DEF RecoveryRecords
<1>3. \/ Scheduled(r) = r \/ Scheduled(r) = tired
      \/ Scheduled(r) = planned /\ ~shutdownRequested /\ ~r.inProgress
  BY DEF Scheduled
<1> HIDE DEF tired, planned
<1> QED
  BY <1>1, <1>2, <1>3

-----------------------------------------------------------------------------
(* Types *)

(* One suspended function moves on, the others stay where they are.        *)
LEMMA TaskStep ==
  ASSUME TypeInv, NEW t \in Tasks, NEW pc \in Positions, NEW c \in Clients \cup {NoClient},
         Goto(t, pc, c)
  PROVE  /\ task' \in [Tasks -> [pc : Positions, client : Clients \cup {NoClient}]]
         /\ task'[t] = [pc |-> pc, client |-> c]
         /\ \A u \in Tasks : u # t => task'[u] = task[u]
BY DEF TypeInv, TypeOK, Goto

(* The types hold before anything has run.                                 *)
LEMMA TypeInit == Init => TypeInv
<1> SUFFICES ASSUME Init PROVE TypeInv
  OBVIOUS
<1>1. task \in [Tasks -> [pc : Positions, client : Clients \cup {NoClient}]]
  BY DEF Init, Positions
<1>2. recovery \in RecoveryRecords
  BY SupervisorAssumption DEF Init, RecoveryRecords, SupervisorAssumption
<1>3. TypeOK
  <2>1. /\ startupAttempts \in 0 .. StartupMaxAttempts /\ failureCount \in 0 .. FailureThreshold
        /\ checks \in 0 .. MaxChecks
    BY SupervisorAssumption DEF Init, SupervisorAssumption
  <2>2. state \in States
    BY DEF Init, States
  <2> QED
    BY <1>1, <1>2, <2>1, <2>2 DEF Init, TypeOK
<1>4. \A t \in Tasks : task[t].pc = "idle"
  BY DEF Init
<1>5. Starter \in Tasks /\ startupAttempts = 0
  BY DEF Init, Tasks, Launchers
<1> QED
  BY <1>3, <1>4, <1>5 DEF TypeInv, At

(* TypeOK without the suspended functions.                                 *)
SharedTypes ==
  /\ state \in States
  /\ shutdownRequested \in BOOLEAN
  /\ active \in Clients \cup {NoClient}
  /\ browser \in [Clients -> {"absent", "running", "listening"}]
  /\ startupAttempts \in 0 .. StartupMaxAttempts
  /\ timer \in BOOLEAN /\ monitored \in BOOLEAN
  /\ failureCount \in 0 .. FailureThreshold
  /\ checks \in 0 .. MaxChecks
  /\ recovery \in RecoveryRecords
  /\ recoveryMode \in RecoveryModes
  /\ spoiled \in BOOLEAN

(* Working on a client needs one.                                          *)
Holding == {"registering", "discarding", "cleaning", "disposing"}

(* A step of one suspended function, to a position it may take.            *)
LEMMA TypeMoves ==
  ASSUME TypeInv, SharedTypes',
         NEW t \in Tasks, NEW pc \in Positions, NEW c \in Clients \cup {NoClient},
         Goto(t, pc, c), pc \in Holding => c \in Clients,
         IF t = Starter THEN pc # "idle" /\ (pc = "waiting" => startupAttempts' < StartupMaxAttempts)
                        ELSE UNCHANGED startupAttempts
  PROVE  TypeInv'
<1>1. /\ task' \in [Tasks -> [pc : Positions, client : Clients \cup {NoClient}]]
      /\ task'[t] = [pc |-> pc, client |-> c]
      /\ \A u \in Tasks : u # t => task'[u] = task[u]
  BY TaskStep
<1>2. TypeOK'
  BY <1>1 DEF SharedTypes, TypeOK
<1>3. Starter \in Tasks
  BY DEF Tasks, Launchers
<1> QED
  BY <1>1, <1>2, <1>3 DEF TypeInv, Holding, At

(* A step of none of them.                                                 *)
LEMMA TypeStays ==
  ASSUME TypeInv, SharedTypes', UNCHANGED <<task, startupAttempts>>
  PROVE  TypeInv'
BY DEF TypeInv, TypeOK, SharedTypes, At

(* What every step may rely on.                                            *)
LEMMA TypeFacts ==
  ASSUME TypeInv
  PROVE  /\ SharedTypes
         /\ \A t \in Tasks : /\ task[t].pc \in Positions
                             /\ task[t].client \in Clients \cup {NoClient}
                             /\ task[t].pc \in Holding => task[t].client \in Clients
         /\ Starter \in Launchers /\ Launchers \subseteq Tasks
         /\ Recoveries \subseteq Launchers \ {Starter} /\ Stopper \in Tasks \ Launchers
<1>1. SharedTypes
  BY DEF TypeInv, TypeOK, SharedTypes
<1>2. \A t \in Tasks : task[t] \in [pc : Positions, client : Clients \cup {NoClient}]
  BY DEF TypeInv, TypeOK
<1>3. /\ Starter \in Launchers /\ Launchers \subseteq Tasks
      /\ Recoveries \subseteq Launchers \ {Starter} /\ Stopper \in Tasks \ Launchers
  BY SupervisorAssumption DEF SupervisorAssumption, Launchers, Tasks, Starter, Stopper
<1> QED
  BY <1>1, <1>2, <1>3 DEF TypeInv, Holding

(* start(): a turn of its loop, and the end of its catch block.            *)
LEMMA StarterTypes ==
  ASSUME TypeInv,
         \/ Start \/ RetryDelayEnds
         \/ StartupFailed /\ UNCHANGED startupAttempts /\ SharedTypes'
  PROVE  TypeInv'
<1> USE TypeFacts
<1>1. {"failed", "creating", "waiting"} \subseteq Positions \ Holding
  BY DEF Positions, Holding
<1>2. ASSUME BeginAttempt, startupAttempts < StartupMaxAttempts,
             UNCHANGED <<state, shutdownRequested, active, browser, liveness, recovery, fixed, spoiled>>
      PROVE  TypeInv'
  <2>1. startupAttempts' \in 0 .. StartupMaxAttempts
    BY <1>2, SupervisorAssumption DEF BeginAttempt, SharedTypes, SupervisorAssumption
  <2>2. SharedTypes'
    BY <1>2, <2>1 DEF SharedTypes, liveness, fixed
  <2> QED
    BY <1>1, <1>2, <2>2, TypeMoves DEF BeginAttempt
<1>3. CASE Start
  BY <1>2, <1>3, SupervisorAssumption DEF Start, TypeInv, SupervisorAssumption
<1>4. CASE RetryDelayEnds
  BY <1>2, <1>4 DEF RetryDelayEnds, TypeInv
<1>5. CASE StartupFailed /\ UNCHANGED startupAttempts /\ SharedTypes'
  BY <1>1, <1>5, TypeMoves DEF StartupFailed
<1> QED
  BY <1>3, <1>4, <1>5

(* A failed recovery plans another one only if it was not in progress, and *)
(* then nobody has asked for a shutdown.                                   *)
LEMMA RecoveryFailedIs ==
  ASSUME recovery \in RecoveryRecords, NEW r, RecoveryFailed(r)
  PROVE  /\ recovery' \in RecoveryRecords
         /\ recovery'.woken = recovery.woken /\ active' = NoClient /\ monitored' = FALSE
         /\ recovery.inProgress \/ shutdownRequested =>
              recovery'.scheduled = recovery.scheduled /\ recovery'.waiting = recovery.waiting
         /\ Goto(r, "idle", NoClient)
<1> DEFINE tired == [recovery EXCEPT !.exhausted = TRUE]
           ended(k) == [k EXCEPT !.inProgress = FALSE]
<1>1. /\ tired \in RecoveryRecords /\ tired.woken = recovery.woken
      /\ tired.scheduled = recovery.scheduled /\ tired.waiting = recovery.waiting
  BY DEF RecoveryRecords
<1>2. ASSUME NEW k \in RecoveryRecords
      PROVE  /\ ended(k) \in RecoveryRecords /\ ended(k).woken = k.woken
             /\ ended(k).scheduled = k.scheduled /\ ended(k).waiting = k.waiting
  BY DEF RecoveryRecords
<1>3. PICK k : /\ k \in {recovery, tired, Scheduled(recovery)}
               /\ recovery' = ended(k)
  BY DEF RecoveryFailed
<1>4. active' = NoClient /\ monitored' = FALSE /\ Goto(r, "idle", NoClient)
  BY DEF RecoveryFailed
<1> HIDE DEF tired, ended
<1> QED
  BY <1>1, <1>2, <1>3, <1>4, ScheduledIs

(* The catch block of runRecovery.                                         *)
LEMMA RecoveryFailedTypes ==
  ASSUME TypeInv, NEW r \in Recoveries, RecoveryFailed(r),
         UNCHANGED <<state, shutdownRequested, startupAttempts, timer, failureCount, checks,
                     fixed>>,
         browser' \in [Clients -> {"absent", "running", "listening"}], spoiled' \in BOOLEAN
  PROVE  TypeInv'
<1>1. SharedTypes'
  BY TypeFacts, RecoveryFailedIs DEF SharedTypes, fixed
<1>2. "idle" \in Positions \ Holding
  BY DEF Positions, Holding
<1> QED
  BY <1>1, <1>2, TypeFacts, TypeMoves, RecoveryFailedIs DEF SharedTypes

(* Whatever error reaches a launcher's catch block.                        *)
LEMMA CatchTypes ==
  ASSUME TypeInv, NEW t \in Launchers, Catch(t),
         UNCHANGED <<shutdownRequested, startupAttempts, timer, failureCount, checks, fixed>>,
         browser' \in [Clients -> {"absent", "running", "listening"}], spoiled' \in BOOLEAN
  PROVE  TypeInv'
<1> USE TypeFacts
<1>1. CASE t # Starter
  BY <1>1, RecoveryFailedTypes DEF Catch, Launchers
<1>2. CASE t = Starter
  <2>1. SharedTypes'
    BY <1>2 DEF Catch, StartupFailed, SharedTypes, States, fixed
  <2>2. CASE StartupFailed
    BY <2>1, <2>2, StarterTypes
  <2>3. CASE Goto(t, "cleaning", task[t].client) /\ task[t].client # NoClient
    <3>1. "cleaning" \in Positions /\ task[t].client \in Clients
      BY <2>3 DEF Positions
    <3> QED
      BY <1>2, <2>1, <2>3, <3>1, TypeMoves
  <2> QED
    BY <1>2, <2>2, <2>3 DEF Catch
<1> QED
  BY <1>1, <1>2

(* Each step of a launcher.                                                *)
LEMMA LaunchTypes ==
  ASSUME TypeInv, NEW t \in Launchers, Launch(t)
  PROVE  TypeInv'
<1> USE TypeFacts
<1>1. {"creating", "discarding", "registering", "done", "idle"} \subseteq Positions
  BY DEF Positions
<1>2. CASE ClientCreated(t)
  <2>1. PICK c \in Clients : /\ browser' = [browser EXCEPT ![c] = "running"]
                             /\ Goto(t, IF shutdownRequested THEN "discarding" ELSE "registering", c)
    BY <1>2 DEF ClientCreated, Fresh
  <2>2. SharedTypes' /\ UNCHANGED startupAttempts
    BY <1>2, <2>1 DEF ClientCreated, SharedTypes, liveness, fixed
  <2> QED
    BY <1>1, <2>1, <2>2, TypeMoves
<1>3. CASE CreationFails(t)
  BY <1>3, CatchTypes DEF CreationFails, SharedTypes
<1>4. CASE ListenerRegistered(t)
  <2>1. /\ browser' \in [Clients -> {"absent", "running", "listening"}]
        /\ UNCHANGED <<shutdownRequested, startupAttempts, checks, fixed, spoiled>>
        /\ task[t].client \in Clients
    BY <1>4 DEF ListenerRegistered, SharedTypes, At, Holding
  <2>2. CASE shutdownRequested
    <3>1. SharedTypes' /\ Goto(t, "discarding", task[t].client)
      BY <1>4, <2>1, <2>2 DEF ListenerRegistered, SharedTypes, fixed
    <3> QED
      BY <1>1, <2>1, <3>1, TypeMoves
  <2>3. CASE ~shutdownRequested
    <3> DEFINE over == [recovery EXCEPT !.inProgress = FALSE, !.exhausted = FALSE]
    <3>1. Activate(t)
      BY <1>4, <2>3 DEF ListenerRegistered
    <3>2. recovery \in RecoveryRecords => over \in RecoveryRecords
      BY DEF RecoveryRecords
    <3>3. recovery' \in RecoveryRecords
      BY <3>1, <3>2 DEF Activate, SharedTypes
    <3>4. SharedTypes'
      BY <2>1, <3>1, <3>3, SupervisorAssumption
         DEF Activate, Monitor, SharedTypes, States, fixed, SupervisorAssumption
    <3>5. Goto(t, IF t = Starter THEN "done" ELSE "idle", NoClient)
      BY <3>1 DEF Activate
    <3> QED
      BY <1>1, <2>1, <3>4, <3>5, TypeMoves DEF Holding
  <2> QED
    BY <2>2, <2>3 DEF SharedTypes
<1>5. CASE RegistrationFails(t)
  BY <1>5, CatchTypes DEF RegistrationFails, SharedTypes
<1>6. CASE ClientDiscarded(t)
  <2>1. browser' \in [Clients -> {"absent", "running", "listening"}] /\ spoiled' \in BOOLEAN
    BY <1>6 DEF ClientDiscarded, SharedTypes
  <2> QED
    BY <1>6, <2>1, CatchTypes DEF ClientDiscarded
<1> QED
  BY <1>2, <1>3, <1>4, <1>5, <1>6 DEF Launch

(* What a wake-up does: nothing but forget itself, or begin a recovery of  *)
(* the plan.                                                               *)
LEMMA WakeUpIs ==
  ASSUME TypeInv, WakeUp
  PROVE  /\ recovery' \in RecoveryRecords /\ ~recovery'.woken
         /\ recovery'.waiting = recovery.waiting
         /\ \/ /\ UNCHANGED <<task, timer, monitored>>
               /\ recovery'.scheduled = recovery.scheduled
               /\ recovery'.inProgress = recovery.inProgress
            \/ /\ recovery.scheduled /\ recovery.woken
               /\ ~recovery'.scheduled /\ recovery'.inProgress
               /\ timer' = FALSE /\ monitored' = FALSE
               /\ \E r \in Recoveries :
                    /\ At(r, "idle")
                    /\ IF active = NoClient THEN Goto(r, "creating", NoClient)
                                            ELSE Goto(r, "disposing", active)
<1> DEFINE policy == [recovery EXCEPT !.woken = FALSE]
           spent(b) == [policy EXCEPT !.exhausted = b]
           begun == [policy EXCEPT !.scheduled = FALSE, !.inProgress = TRUE, !.attempt = @ + 1]
<1>1. recovery \in RecoveryRecords
  BY TypeFacts DEF SharedTypes
<1>2. /\ policy \in RecoveryRecords /\ ~policy.woken /\ policy.waiting = recovery.waiting
      /\ policy.scheduled = recovery.scheduled /\ policy.inProgress = recovery.inProgress
      /\ policy.attempt = recovery.attempt
  BY <1>1 DEF RecoveryRecords
<1>3. ASSUME NEW b \in BOOLEAN
      PROVE  /\ spent(b) \in RecoveryRecords /\ ~spent(b).woken
             /\ spent(b).waiting = recovery.waiting /\ spent(b).scheduled = recovery.scheduled
             /\ spent(b).inProgress = recovery.inProgress
  <2> HIDE DEF policy
  <2> QED
    BY <1>2 DEF RecoveryRecords
<1>4. ASSUME recovery.attempt < RecoveryMaxAttempts
      PROVE  /\ begun \in RecoveryRecords /\ ~begun.woken /\ begun.waiting = recovery.waiting
             /\ ~begun.scheduled /\ begun.inProgress
  <2>1. recovery.attempt + 1 \in 0 .. RecoveryMaxAttempts
    BY <1>1, <1>4, SupervisorAssumption DEF RecoveryRecords, SupervisorAssumption
  <2> HIDE DEF policy
  <2> QED
    BY <1>2, <2>1 DEF RecoveryRecords
<1> DEFINE stale == ~recovery.scheduled \/ shutdownRequested \/ state # "degraded"
           over  == recovery.attempt >= RecoveryMaxAttempts
<1>5. CASE stale \/ recovery.inProgress \/ over
  <2>1. UNCHANGED <<task, timer, monitored>>
    BY <1>5 DEF WakeUp
  <2>2. \E b \in BOOLEAN : recovery' = spent(b)
    <3>1. recovery' = [policy EXCEPT !.exhausted = @ \/ (~stale /\ over)]
      BY <1>5 DEF WakeUp
    <3>2. recovery' = spent(policy.exhausted \/ (~stale /\ over))
      BY <3>1
    <3>3. policy.exhausted \in BOOLEAN
      BY <1>2 DEF RecoveryRecords
    <3> HIDE DEF spent, policy, over, stale
    <3> QED
      BY <3>2, <3>3
  <2> HIDE DEF spent
  <2> QED
    BY <1>3, <2>1, <2>2
<1>6. CASE ~(stale \/ recovery.inProgress \/ over)
  <2>1. PICK r \in Recoveries : At(r, "idle") /\ BeginRecovery(r, policy)
    BY <1>6 DEF WakeUp
  <2>2. recovery' = begun
    BY <2>1 DEF BeginRecovery
  <2>3. /\ timer' = FALSE /\ monitored' = FALSE
        /\ IF active = NoClient THEN Goto(r, "creating", NoClient)
                                ELSE Goto(r, "disposing", active)
    BY <2>1 DEF BeginRecovery
  <2>4. recovery.scheduled /\ recovery.woken
    BY <1>6 DEF WakeUp
  <2>5. recovery.attempt < RecoveryMaxAttempts
    BY <1>1, <1>6, SupervisorAssumption DEF RecoveryRecords, SupervisorAssumption
  <2> HIDE DEF begun
  <2> QED
    BY <1>4, <2>1, <2>2, <2>3, <2>4, <2>5
<1> QED
  BY <1>5, <1>6

(* What a successful probe does to the policy.                             *)
LEMMA ReconnectedIs ==
  ASSUME NEW k \in RecoveryRecords
  PROVE  LET z == [Cleared(k) EXCEPT !.inProgress = FALSE] IN
         /\ z \in RecoveryRecords
         /\ ~z.scheduled /\ ~z.waiting /\ z.woken = (k.woken \/ k.waiting)
<1>1. ASSUME NEW c \in RecoveryRecords
      PROVE  LET z == [c EXCEPT !.inProgress = FALSE] IN
             /\ z \in RecoveryRecords
             /\ z.scheduled = c.scheduled /\ z.waiting = c.waiting /\ z.woken = c.woken
  BY DEF RecoveryRecords
<1> QED
  BY <1>1, ClearedIs

(* Probes and their timer.                                                 *)
LEMMA ProbeTypes ==
  ASSUME TypeInv, Probe \/ LivenessTimerFires
  PROVE  TypeInv'
<1> USE TypeFacts
<1>1. CASE LivenessTimerFires
  <2>1. checks' \in 0 .. MaxChecks
    BY <1>1, SupervisorAssumption DEF LivenessTimerFires, SharedTypes, SupervisorAssumption
  <2>2. SharedTypes'
    BY <1>1, <2>1 DEF LivenessTimerFires, SharedTypes, fixed
  <2> QED
    BY <1>1, <2>2, TypeStays DEF LivenessTimerFires
<1>2. CASE Probe
  <2>1. checks' \in 0 .. MaxChecks
    BY <1>2, SupervisorAssumption
       DEF Probe, CheckSucceeds, CheckFails, SharedTypes, SupervisorAssumption
  <2>2. failureCount' \in 0 .. FailureThreshold
    BY <1>2, SupervisorAssumption
       DEF Probe, CheckSucceeds, CheckFails, SharedTypes, SupervisorAssumption
  <2>3. recovery' \in RecoveryRecords
    BY <1>2, SupervisorAssumption, ReconnectedIs, ResetIs, ScheduledIs
       DEF Probe, CheckSucceeds, CheckFails, SharedTypes
  <2>4. state' \in States /\ timer' \in BOOLEAN
    BY <1>2 DEF Probe, CheckSucceeds, CheckFails, ScheduleNextCheck, SharedTypes, States
  <2>5. UNCHANGED <<shutdownRequested, active, browser, startupAttempts, task, monitored, fixed, spoiled>>
    BY <1>2 DEF Probe, CheckSucceeds, CheckFails
  <2>6. SharedTypes'
    BY <2>1, <2>2, <2>3, <2>4, <2>5 DEF SharedTypes, fixed
  <2> QED
    BY <2>5, <2>6, TypeStays
<1> QED
  BY <1>1, <1>2

(* stop() and the kill it awaits.                                          *)
LEMMA StopTypes ==
  ASSUME TypeInv, Stop \/ KillActive
  PROVE  TypeInv'
<1> USE TypeFacts
<1>1. {"done", "disposing", "failed"} \subseteq Positions
  BY DEF Positions
<1>2. recovery' \in RecoveryRecords
  BY ReconnectedIs, ClearedIs
     DEF Stop, KillActive, ActiveClientKilled, ActiveClientKillFails, SharedTypes
<1>3. SharedTypes' /\ UNCHANGED startupAttempts
  BY <1>2 DEF Stop, KillActive, ActiveClientKilled, ActiveClientKillFails, Stopped,
     SharedTypes, States, fixed
<1>4. \/ Goto(Stopper, "done", NoClient) \/ Goto(Stopper, "failed", NoClient)
      \/ Goto(Stopper, "disposing", active) /\ active \in Clients
  BY DEF Stop, KillActive, ActiveClientKilled, ActiveClientKillFails, Stopped, SharedTypes
<1> QED
  BY <1>1, <1>3, <1>4, TypeMoves DEF Holding, SharedTypes

(* Every step keeps the types.                                             *)
LEMMA TypeNext ==
  ASSUME TypeInv, [Next]_vars
  PROVE  TypeInv'
<1> USE TypeFacts
<1>1. CASE CandidateCleaned
  <2>1. SharedTypes' /\ UNCHANGED startupAttempts
    BY <1>1 DEF CandidateCleaned, StartupFailed, SharedTypes, States, liveness, fixed
  <2>2. StartupFailed \/ Goto(Starter, "failed", NoClient)
    BY <1>1 DEF CandidateCleaned
  <2>3. "failed" \in Positions \ Holding
    BY DEF Positions, Holding
  <2> QED
    BY <2>1, <2>2, <2>3, StarterTypes, TypeMoves
<1>2. CASE RecoveryDelayEnds
  <2>1. SharedTypes'
    BY <1>2 DEF RecoveryDelayEnds, SharedTypes, RecoveryRecords, liveness, fixed
  <2> QED
    BY <1>2, <2>1, TypeStays DEF RecoveryDelayEnds
<1>3. CASE WakeUp
  <2>1. SharedTypes' /\ UNCHANGED startupAttempts
    BY <1>3, WakeUpIs DEF WakeUp, SharedTypes, fixed
  <2>2. {"creating", "disposing"} \subseteq Positions
    BY DEF Positions
  <2>3. \/ UNCHANGED task
        \/ \E r \in Recoveries : \/ Goto(r, "creating", NoClient)
                                 \/ active # NoClient /\ Goto(r, "disposing", active)
    BY <1>3, WakeUpIs
  <2> QED
    BY <2>1, <2>2, <2>3, TypeMoves, TypeStays DEF SharedTypes, Holding
<1>4. ASSUME NEW r \in Recoveries, KillOld(r)
      PROVE  TypeInv'
  <2>1. CASE OldClientKilled(r)
    <3>1. SharedTypes' /\ Goto(r, "creating", NoClient) /\ UNCHANGED startupAttempts
      BY <2>1 DEF OldClientKilled, SharedTypes, liveness, fixed
    <3>2. "creating" \in Positions \ Holding
      BY DEF Positions, Holding
    <3> QED
      BY <3>1, <3>2, TypeMoves
  <2>2. CASE OldClientKillFails(r)
    BY <2>2, RecoveryFailedTypes DEF OldClientKillFails, SharedTypes
  <2> QED
    BY <1>4, <2>1, <2>2 DEF KillOld
<1>5. CASE UNCHANGED vars
  BY <1>5, TypeStays DEF vars, SharedTypes
<1> QED
  BY <1>1, <1>2, <1>3, <1>4, <1>5, StarterTypes, LaunchTypes, ProbeTypes, StopTypes DEF Next

(* Every variable keeps its type: the attempts stay within their budgets,  *)
(* and who registers, discards or disposes of a client has one.            *)
THEOREM SupervisorTypes == Spec => []TypeOK
<1>1. TypeInv => TypeOK
  BY DEF TypeInv
<1> QED
  BY TypeInit, TypeNext, <1>1, PTL DEF Spec

-----------------------------------------------------------------------------
(* One client at a time *)

(* At the start nothing is launched, planned or probed.                    *)
LEMMA SupInit == PromptChecks /\ Init => SupInv
<1> SUFFICES ASSUME PromptChecks, Init PROVE SupInv
  OBVIOUS
<1>1. TypeInv
  BY TypeInit
<1>2. \A t \in Tasks : At(t, "idle")
  BY DEF Init, At
<1>3. Alive = {}
  BY DEF Init, Alive
<1> QED
  BY <1>1, <1>2, <1>3, TypeFacts
     DEF SupInv, StarterAlone, RecoveryAlone, ClientsAccounted, PolicySound, NoRecovery, Init, At

(* While a recovery is on, start() is over.                                *)
LEMMA RecoveryAfterStart ==
  ASSUME SupInv, NEW r \in Recoveries, ~At(r, "idle")
  PROVE  At(Starter, "done")
BY DEF SupInv, StarterAlone, NoRecovery

(* A step of start() before its end.                                       *)
LEMMA StarterMoves ==
  ASSUME SupInv, TypeInv', NEW pc \in Positions \ {"done"}, NEW c \in Clients \cup {NoClient},
         ~At(Starter, "done"), Goto(Starter, pc, c), state' # "ready",
         UNCHANGED <<shutdownRequested, active, timer, monitored, checks, recovery>>,
         pc \in {"creating", "waiting", "idle"} => Alive' = {},
         pc \in Holding => Alive' \subseteq {c}
  PROVE  SupInv'
<1> USE TypeFacts DEF SupInv
<1>1. /\ task'[Starter] = [pc |-> pc, client |-> c]
      /\ \A u \in Tasks : u # Starter => task'[u] = task[u]
  BY TaskStep
<1>2. NoRecovery' /\ ~At(Starter, "done")'
  BY <1>1 DEF StarterAlone, NoRecovery, At
<1>3. StarterAlone'
  BY <1>2 DEF StarterAlone
<1>4. RecoveryAlone'
  BY <1>2 DEF RecoveryAlone, NoRecovery
<1>5. ClientsAccounted'
  BY <1>1, <1>2 DEF StarterAlone, ClientsAccounted, Holding, NoRecovery, At, Launchers
<1>6. PolicySound'
  BY <1>1, <1>2 DEF StarterAlone, PolicySound, At
<1> QED
  BY <1>3, <1>4, <1>5, <1>6

(* A step of a recovery between its first kill and its end.                *)
LEMMA RecoveryMoves ==
  ASSUME SupInv, TypeInv', NEW r \in Recoveries, ~At(r, "idle"),
         NEW pc \in {"creating", "registering", "discarding"}, NEW c \in Clients \cup {NoClient},
         Goto(r, pc, c), active' = NoClient,
         UNCHANGED <<state, shutdownRequested, timer, checks, recovery>>,
         pc = "creating" => Alive' = {}, pc # "creating" => Alive' \subseteq {c}
  PROVE  SupInv'
<1> USE TypeFacts DEF SupInv
<1>1. /\ task'[r] = [pc |-> pc, client |-> c]
      /\ \A u \in Tasks : u # r => task'[u] = task[u]
  BY TaskStep DEF Positions
<1>2. At(Starter, "done") /\ At(Starter, "done")'
  BY <1>1, RecoveryAfterStart DEF At
<1>3. \A q \in Recoveries \ {r} : At(q, "idle")'
  BY <1>1 DEF RecoveryAlone, At
<1>4. StarterAlone'
  BY <1>2 DEF StarterAlone
<1>5. RecoveryAlone'
  BY <1>1, <1>3 DEF RecoveryAlone, At
<1>6. ClientsAccounted'
  BY <1>1, <1>2, <1>3 DEF ClientsAccounted, Holding, At, Launchers
<1>7. PolicySound'
  BY <1>1 DEF RecoveryAlone, PolicySound, At
<1> QED
  BY <1>4, <1>5, <1>6, <1>7

(* A recovery that fails leaves no client to probe or to replace, so that  *)
(* none follows it.                                                        *)
LEMMA RecoveryEnds ==
  ASSUME SupInv, TypeInv', NEW r \in Recoveries, ~At(r, "idle"), RecoveryFailed(r),
         UNCHANGED <<state, shutdownRequested, timer, checks>>
  PROVE  SupInv'
<1> USE TypeFacts DEF SupInv
<1>1. /\ task'[r] = [pc |-> "idle", client |-> NoClient]
      /\ \A u \in Tasks : u # r => task'[u] = task[u]
  BY TaskStep DEF Positions, RecoveryFailed
<1>2. At(Starter, "done") /\ At(Starter, "done")'
  BY <1>1, RecoveryAfterStart DEF At
<1>3. NoRecovery'
  BY <1>1 DEF RecoveryAlone, NoRecovery, At
<1>4. /\ active' = NoClient
      /\ recovery'.scheduled = recovery.scheduled /\ recovery'.waiting = recovery.waiting
  BY RecoveryFailedIs DEF RecoveryAlone, SharedTypes
<1>5. StarterAlone' /\ RecoveryAlone'
  BY <1>2, <1>3 DEF StarterAlone, RecoveryAlone, NoRecovery
<1>6. ClientsAccounted'
  BY <1>2, <1>3, <1>4 DEF ClientsAccounted, NoRecovery, At, Launchers
<1>7. PolicySound'
  BY <1>1, <1>4 DEF RecoveryAlone, PolicySound, At
<1> QED
  BY <1>5, <1>6, <1>7

(* Whoever activates its client ends, and leaves nobody launching.         *)
LEMMA Activation ==
  ASSUME SupInv, TypeInv', NEW t \in Launchers, ListenerRegistered(t), ~shutdownRequested
  PROVE  SupInv'
<1> USE TypeFacts DEF SupInv
<1>1. /\ At(t, "registering") /\ Activate(t) /\ task[t].client \in Clients
      /\ browser' = [browser EXCEPT ![task[t].client] = "listening"]
      /\ UNCHANGED <<shutdownRequested, checks>>
  BY DEF ListenerRegistered, At, Holding
<1>2. /\ t = Starter => Goto(t, "done", NoClient)
      /\ t # Starter => Goto(t, "idle", NoClient)
      /\ active' = task[t].client /\ state' = "ready" /\ timer' = TRUE /\ monitored' = TRUE
  BY <1>1 DEF Activate, Monitor
<1>3. /\ task'[t].pc = IF t = Starter THEN "done" ELSE "idle"
      /\ \A u \in Tasks : u # t => task'[u] = task[u]
  <2>1. {"done", "idle"} \subseteq Positions
    BY DEF Positions
  <2>2. CASE t = Starter
    <3>1. /\ task'[t] = [pc |-> "done", client |-> NoClient]
          /\ \A u \in Tasks : u # t => task'[u] = task[u]
      BY <1>2, <2>1, <2>2, TaskStep
    <3> QED
      BY <2>2, <3>1
  <2>3. CASE t # Starter
    <3>1. /\ task'[t] = [pc |-> "idle", client |-> NoClient]
          /\ \A u \in Tasks : u # t => task'[u] = task[u]
      BY <1>2, <2>1, <2>3, TaskStep
    <3> QED
      BY <2>3, <3>1
  <2> QED
    BY <2>2, <2>3
<1>4. t \in Recoveries => At(Starter, "done")
  BY <1>1, RecoveryAfterStart DEF At
<1>5. At(Starter, "done")'
  BY <1>3, <1>4 DEF At, Launchers
<1>6. NoRecovery'
  BY <1>1, <1>3 DEF StarterAlone, RecoveryAlone, NoRecovery, At, Launchers
<1>7. Alive' \subseteq {active'} /\ browser'[active'] = "listening"
  BY <1>1, <1>2 DEF ClientsAccounted, Alive, SharedTypes, At
<1>8. ~recovery.scheduled /\ ~recovery.waiting
  BY <1>1 DEF StarterAlone, RecoveryAlone, PolicySound, At, Launchers
<1>9. ~recovery'.scheduled /\ ~recovery'.waiting
  <2> DEFINE over == [recovery EXCEPT !.inProgress = FALSE, !.exhausted = FALSE]
  <2>1. over.scheduled = recovery.scheduled /\ over.waiting = recovery.waiting
    BY DEF SharedTypes, RecoveryRecords
  <2>2. recovery' = recovery \/ recovery' = over
    BY <1>1 DEF Activate
  <2> HIDE DEF over
  <2> QED
    BY <1>8, <2>1, <2>2
<1>10. StarterAlone' /\ RecoveryAlone'
  BY <1>5, <1>6 DEF StarterAlone, RecoveryAlone, NoRecovery
<1>11. ClientsAccounted'
  BY <1>5, <1>6, <1>7 DEF ClientsAccounted, NoRecovery, At, Launchers
<1>12. PolicySound'
  BY <1>1, <1>2, <1>3, <1>7, <1>9, SupervisorAssumption
     DEF PolicySound, SupervisorAssumption, At
<1> QED
  BY <1>10, <1>11, <1>12

(* The catch block of a launcher that holds the only client alive, or none.*)
LEMMA CatchSound ==
  ASSUME SupInv, TypeInv', NEW t \in Launchers, Catch(t),
         task[t].pc \in {"creating", "registering", "discarding"},
         Alive' \subseteq Alive,
         UNCHANGED <<shutdownRequested, timer, checks>>
  PROVE  SupInv'
<1> USE TypeFacts DEF SupInv
<1>1. CASE t \in Recoveries
  BY <1>1, RecoveryEnds DEF Catch, At
<1>2. CASE t = Starter
  <2>1. ~At(Starter, "done") /\ state # "ready"
    BY <1>2 DEF At, StarterAlone
  <2>2. UNCHANGED <<active, monitored, recovery>> /\ state' # "ready"
    BY <1>2, <2>1 DEF Catch, StartupFailed
  <2>3. CASE task[Starter].client = NoClient
    <3>1. Alive' = {}
      BY <1>2, <2>3, SupervisorAssumption
         DEF ClientsAccounted, TypeInv, At, SupervisorAssumption
    <3>2. Goto(Starter, "waiting", NoClient) \/ Goto(Starter, "failed", NoClient)
      BY <1>2, <2>3 DEF Catch, StartupFailed
    <3> QED
      BY <2>1, <2>2, <3>1, <3>2, StarterMoves DEF Positions, Holding
  <2>4. CASE task[Starter].client # NoClient
    <3>1. Alive' \subseteq {task[Starter].client}
      BY <1>2 DEF ClientsAccounted, At
    <3>2. Goto(Starter, "cleaning", task[Starter].client)
      BY <1>2, <2>4 DEF Catch
    <3> QED
      BY <2>1, <2>2, <3>1, <3>2, StarterMoves DEF Positions, Holding
  <2> QED
    BY <2>3, <2>4
<1> QED
  BY <1>1, <1>2 DEF Launchers

(* Every step of a launcher accounts for its client.                       *)
LEMMA LaunchSound ==
  ASSUME SupInv, NEW t \in Launchers, Launch(t)
  PROVE  SupInv'
<1> USE TypeFacts DEF SupInv
<1>1. TypeInv'
  BY LaunchTypes
<1>2. CASE ClientCreated(t)
  <2>1. PICK c \in Clients :
          /\ browser' = [browser EXCEPT ![c] = "running"]
          /\ Goto(t, IF shutdownRequested THEN "discarding" ELSE "registering", c)
    BY <1>2 DEF ClientCreated, Fresh
  <2>2. Alive' \subseteq {c}
    BY <1>2, <2>1 DEF ClientCreated, ClientsAccounted, Alive, SharedTypes
  <2>3. UNCHANGED <<state, shutdownRequested, active, timer, monitored, checks, recovery>>
    BY <1>2 DEF ClientCreated, liveness
  <2>4. CASE t = Starter
    <3>1. ~At(Starter, "done") /\ state # "ready"
      BY <1>2, <2>4 DEF ClientCreated, At, StarterAlone
    <3> QED
      BY <1>1, <2>1, <2>2, <2>3, <2>4, <3>1, StarterMoves DEF Positions
  <2>5. CASE t \in Recoveries
    <3>1. ~At(t, "idle") /\ active = NoClient
      BY <1>2, <2>5 DEF ClientCreated, At, RecoveryAlone
    <3> QED
      BY <1>1, <2>1, <2>2, <2>3, <2>5, <3>1, RecoveryMoves
  <2> QED
    BY <2>4, <2>5 DEF Launchers
<1>3. CASE CreationFails(t) \/ RegistrationFails(t)
  BY <1>1, <1>3, CatchSound DEF CreationFails, RegistrationFails, At, Alive
<1>4. CASE ListenerRegistered(t) /\ ~shutdownRequested
  BY <1>1, <1>4, Activation
<1>5. CASE ListenerRegistered(t) /\ shutdownRequested
  <2>1. /\ Goto(t, "discarding", task[t].client) /\ task[t].client \in Clients
        /\ UNCHANGED <<state, shutdownRequested, active, timer, monitored, checks, recovery>>
    BY <1>5 DEF ListenerRegistered, At, Holding
  <2>2. Alive' \subseteq {task[t].client}
    BY <1>5 DEF ListenerRegistered, ClientsAccounted, Alive, SharedTypes, At
  <2>3. CASE t = Starter
    <3>1. ~At(Starter, "done") /\ state # "ready"
      BY <1>5, <2>3 DEF ListenerRegistered, At, StarterAlone
    <3> QED
      BY <1>1, <2>1, <2>2, <2>3, <3>1, StarterMoves DEF Positions
  <2>4. CASE t \in Recoveries
    <3>1. ~At(t, "idle") /\ active = NoClient
      BY <1>5, <2>4 DEF ListenerRegistered, At, RecoveryAlone
    <3> QED
      BY <1>1, <2>1, <2>2, <2>4, <3>1, RecoveryMoves
  <2> QED
    BY <2>3, <2>4 DEF Launchers
<1>6. CASE ClientDiscarded(t)
  <2>1. Alive' \subseteq Alive
    BY <1>6 DEF ClientDiscarded, Alive, SharedTypes
  <2> QED
    BY <1>1, <1>6, <2>1, CatchSound DEF ClientDiscarded, At
<1> QED
  BY <1>2, <1>3, <1>4, <1>5, <1>6 DEF Launch

(* The kill of the client a recovery replaces.                             *)
LEMMA KillOldSound ==
  ASSUME SupInv, NEW r \in Recoveries, KillOld(r), TypeInv'
  PROVE  SupInv'
<1> USE TypeFacts DEF SupInv
<1>1. CASE OldClientKilled(r)
  <2>1. Alive' = {}
    BY <1>1 DEF OldClientKilled, ClientsAccounted, Alive, SharedTypes, At, Holding
  <2> QED
    BY <1>1, <2>1, RecoveryMoves DEF OldClientKilled, At, liveness
<1>2. CASE OldClientKillFails(r)
  BY <1>2, RecoveryEnds DEF OldClientKillFails, At
<1> QED
  BY <1>1, <1>2 DEF KillOld

(* A planned recovery begins with the kill of the degraded client, when    *)
(* no probe of it is under way.                                            *)
LEMMA WakeUpSound ==
  ASSUME SupInv, WakeUp, TypeInv'
  PROVE  SupInv'
<1> USE TypeFacts DEF SupInv
<1>1. /\ UNCHANGED <<state, shutdownRequested, active, browser, checks>>
      /\ ~recovery'.woken /\ recovery'.waiting = recovery.waiting /\ Alive' = Alive
  BY WakeUpIs DEF WakeUp, Alive
<1>2. CASE /\ UNCHANGED <<task, timer, monitored>>
           /\ recovery'.scheduled = recovery.scheduled
           /\ recovery'.inProgress = recovery.inProgress
  BY <1>1, <1>2 DEF StarterAlone, RecoveryAlone, ClientsAccounted, PolicySound, NoRecovery, At
<1>3. ASSUME recovery.scheduled, recovery.woken, ~recovery'.scheduled, recovery'.inProgress,
             timer' = FALSE, monitored' = FALSE,
             NEW r \in Recoveries, At(r, "idle"), Goto(r, "disposing", active)
      PROVE  SupInv'
  <2>1. active # NoClient /\ state = "degraded" /\ checks = 0 /\ active \in Clients
    BY <1>3 DEF PolicySound, SharedTypes
  <2>2. At(Starter, "done") /\ NoRecovery
    BY <1>3, <2>1 DEF StarterAlone, RecoveryAlone, NoRecovery
  <2>3. /\ task'[r] = [pc |-> "disposing", client |-> active]
        /\ \A u \in Tasks : u # r => task'[u] = task[u]
    BY <1>3, <2>1, TaskStep DEF Positions
  <2>4. At(Starter, "done")' /\ \A q \in Recoveries \ {r} : At(q, "idle")'
    BY <2>2, <2>3 DEF NoRecovery, At
  <2>5. StarterAlone' /\ RecoveryAlone'
    BY <1>1, <1>3, <2>1, <2>3, <2>4 DEF StarterAlone, RecoveryAlone, At
  <2>6. ClientsAccounted'
    BY <1>1, <2>1, <2>3, <2>4 DEF ClientsAccounted, At, Launchers
  <2>7. ~NoRecovery' /\ Stopper \notin Recoveries /\ Stopper \in Tasks
    BY <2>3 DEF NoRecovery, At
  <2>8. PolicySound'
    BY <1>1, <1>3, <2>1, <2>3, <2>7 DEF PolicySound, At
  <2> QED
    BY <2>5, <2>6, <2>8
<1> QED
  BY <1>2, <1>3, WakeUpIs DEF PolicySound

(* Timers and probes: only a ready client turns degraded, and a probe      *)
(* finds no recovery on.                                                   *)
LEMMA ProbeSound ==
  ASSUME SupInv, RecoveryDelayEnds \/ LivenessTimerFires \/ Probe, TypeInv'
  PROVE  SupInv'
<1> USE TypeFacts DEF SupInv
<1>1. /\ UNCHANGED <<task, active, browser, shutdownRequested, monitored>> /\ Alive' = Alive
      /\ ~recovery.woken
  BY DEF RecoveryDelayEnds, LivenessTimerFires, Probe, CheckSucceeds, CheckFails, Alive,
     liveness, MacroTask
<1>2. ClientsAccounted' /\ (NoRecovery' <=> NoRecovery)
  BY <1>1 DEF ClientsAccounted, NoRecovery, At
<1>3. CASE RecoveryDelayEnds
  <2>1. UNCHANGED <<state, timer, checks>> /\ checks = 0 /\ recovery.waiting
    BY <1>3 DEF RecoveryDelayEnds, liveness
  <2>2. /\ recovery'.scheduled = recovery.scheduled /\ ~recovery'.waiting
        /\ recovery'.inProgress = recovery.inProgress
    BY <1>3 DEF RecoveryDelayEnds, SharedTypes, RecoveryRecords
  <2> QED
    BY <1>1, <1>2, <2>1, <2>2 DEF StarterAlone, RecoveryAlone, PolicySound, NoRecovery, At
<1>4. CASE LivenessTimerFires \/ Probe
  <2>1. At(Starter, "done") /\ NoRecovery
    BY <1>4 DEF LivenessTimerFires, Probe, CheckSucceeds, CheckFails, StarterAlone,
       RecoveryAlone, NoRecovery, SharedTypes
  <2>2. StarterAlone' /\ RecoveryAlone'
    BY <1>1, <1>2, <2>1 DEF StarterAlone, RecoveryAlone, NoRecovery, At
  <2>3. CASE LivenessTimerFires
    BY <1>1, <1>2, <2>1, <2>2, <2>3 DEF LivenessTimerFires, PolicySound, SharedTypes, At
  <2>4. CASE UNCHANGED <<state, recovery>> /\ Probe
    <3>1. state = "ready" => timer'
      BY <1>1, <2>1, <2>4
         DEF Probe, CheckSucceeds, CheckFails, ScheduleNextCheck, PolicySound
    <3> QED
      BY <1>1, <1>2, <2>2, <2>4, <3>1 DEF PolicySound, At
  <2>5. CASE CheckSucceeds /\ ~ UNCHANGED <<state, recovery>>
    <3>1. ~shutdownRequested /\ active # NoClient /\ state' = "ready"
      BY <2>5 DEF CheckSucceeds
    <3>2. timer'
      BY <1>1, <2>1, <2>5, <3>1 DEF CheckSucceeds, ScheduleNextCheck, PolicySound
    <3>3. ~recovery'.scheduled /\ ~recovery'.waiting
      <4>1. recovery' = [Cleared(recovery) EXCEPT !.inProgress = FALSE]
        BY <2>5 DEF CheckSucceeds
      <4> QED
        BY <4>1, ReconnectedIs DEF SharedTypes
    <3> QED
      BY <1>1, <1>2, <2>2, <3>1, <3>2, <3>3 DEF PolicySound, At
  <2>6. CASE CheckFails /\ ~ UNCHANGED <<state, recovery>>
    <3>1. /\ ~shutdownRequested /\ state = "ready" /\ state' = "degraded"
          /\ recovery' = Scheduled(Reset(recovery))
      BY <2>6 DEF CheckFails, liveness, fixed
    <3>2. active # NoClient /\ ~recovery.waiting
      BY <3>1 DEF PolicySound
    <3>3. /\ Reset(recovery) \in RecoveryRecords /\ ~Reset(recovery).scheduled
          /\ ~Reset(recovery).waiting /\ ~Reset(recovery).woken
      BY <1>1, <3>2, ResetIs, SupervisorAssumption DEF SharedTypes
    <3>4. ~recovery'.woken /\ (recovery'.waiting => recovery'.scheduled)
      BY <3>1, <3>3, ScheduledIs
    <3> QED
      BY <1>1, <1>2, <2>2, <3>1, <3>2, <3>4 DEF PolicySound, At
  <2> QED
    BY <1>4, <2>3, <2>4, <2>5, <2>6 DEF Probe
<1> QED
  BY <1>3, <1>4

(* stop() cancels what is planned and forgets the client it killed; a      *)
(* launch that is on goes on.                                              *)
LEMMA StopSound ==
  ASSUME SupInv, Stop \/ KillActive, TypeInv'
  PROVE  SupInv'
<1> USE TypeFacts DEF SupInv
<1>1. /\ shutdownRequested' /\ timer' = FALSE /\ UNCHANGED checks
      /\ state' # "ready" \/ (state' = state /\ shutdownRequested)
  BY DEF Stop, KillActive, ActiveClientKilled, ActiveClientKillFails, Stopped, PolicySound, At
<1>2. ~recovery'.scheduled /\ ~recovery'.waiting
  <2>1. \/ recovery' = Cleared(recovery)
        \/ recovery' = [Cleared(recovery) EXCEPT !.inProgress = FALSE]
    BY DEF Stop, KillActive, ActiveClientKilled, ActiveClientKillFails
  <2>2. recovery \in RecoveryRecords
    BY DEF SharedTypes
  <2>3. CASE recovery' = Cleared(recovery)
    BY <2>2, <2>3, ClearedIs
  <2>4. CASE recovery' = [Cleared(recovery) EXCEPT !.inProgress = FALSE]
    BY <2>2, <2>4, ReconnectedIs
  <2> QED
    BY <2>1, <2>3, <2>4
<1>3. /\ active' \in {active, NoClient}
      /\ Alive' \subseteq Alive
  BY DEF Stop, KillActive, ActiveClientKilled, ActiveClientKillFails, Stopped, Alive, SharedTypes
<1>4. \A u \in Launchers : task'[u] = task[u]
  <2>1. {"done", "failed", "disposing"} \subseteq Positions
    BY DEF Positions
  <2>2. \/ Goto(Stopper, "done", NoClient) \/ Goto(Stopper, "failed", NoClient)
        \/ Goto(Stopper, "disposing", active)
    BY DEF Stop, KillActive, ActiveClientKilled, ActiveClientKillFails, Stopped
  <2> QED
    BY <2>1, <2>2, TaskStep DEF SharedTypes
<1>5. state' # "ready"
  BY <1>1 DEF PolicySound
<1>6. StarterAlone'
  BY <1>1, <1>2, <1>3, <1>4, <1>5 DEF StarterAlone, NoRecovery, At
<1>7. RecoveryAlone'
  BY <1>1, <1>2, <1>3, <1>4, <1>5 DEF RecoveryAlone, At
<1>8. ClientsAccounted'
  BY <1>3, <1>4 DEF ClientsAccounted, At
<1>9. PolicySound'
  BY <1>1, <1>2, <1>5 DEF PolicySound
<1> QED
  BY <1>6, <1>7, <1>8, <1>9

(* start() itself, and the kill of the candidate that failed.              *)
LEMMA StarterSound ==
  ASSUME SupInv, Start \/ RetryDelayEnds \/ CandidateCleaned, TypeInv'
  PROVE  SupInv'
<1> USE TypeFacts DEF SupInv
<1>1. ~At(Starter, "done") /\ state # "ready"
  BY DEF Start, RetryDelayEnds, CandidateCleaned, At, StarterAlone
<1>2. /\ state' # "ready"
      /\ UNCHANGED <<shutdownRequested, active, timer, monitored, checks, recovery>>
  BY <1>1 DEF Start, RetryDelayEnds, CandidateCleaned, StartupFailed, liveness
<1>3. {"creating", "waiting", "failed"} \subseteq Positions \ (Holding \cup {"done"})
  BY DEF Positions, Holding
<1>4. CASE Start \/ RetryDelayEnds
  <2>1. Alive' = {}
    BY <1>4 DEF Start, RetryDelayEnds, ClientsAccounted, At, Alive
  <2>2. Goto(Starter, "creating", NoClient) \/ Goto(Starter, "failed", NoClient)
    BY <1>4 DEF Start, RetryDelayEnds, BeginAttempt
  <2> QED
    BY <1>1, <1>2, <1>3, <2>1, <2>2, StarterMoves
<1>5. CASE CandidateCleaned
  <2>1. \/ Goto(Starter, "failed", NoClient)
        \/ Goto(Starter, "waiting", NoClient) /\ Alive' = {}
    BY <1>5 DEF CandidateCleaned, StartupFailed, ClientsAccounted, At, Alive, SharedTypes, Holding
  <2> QED
    BY <1>1, <1>2, <1>3, <2>1, StarterMoves
<1> QED
  BY <1>4, <1>5

(* Every step keeps the invariant.                                         *)
LEMMA SupNext ==
  ASSUME SupInv, [Next]_vars
  PROVE  SupInv'
<1>1. TypeInv'
  BY TypeNext DEF SupInv
<1>2. CASE UNCHANGED vars
  BY <1>1, <1>2 DEF vars, SupInv, StarterAlone, RecoveryAlone, ClientsAccounted, PolicySound,
     NoRecovery, Alive, At
<1> QED
  BY <1>1, <1>2, StarterSound, ProbeSound, WakeUpSound, LaunchSound, KillOldSound, StopSound
     DEF Next

(* The inductive invariant holds if probes are answered before a recovery  *)
(* begins.                                                                 *)
THEOREM SupervisorSound == PromptChecks /\ Spec => []SupInv
<1>1. PromptChecks /\ Init => SupInv
  BY SupInit
<1>2. SupInv /\ [Next]_vars => SupInv'
  BY SupNext
<1> QED
  BY <1>1, <1>2, PTL DEF Spec

(* Under that assumption no client is created while another one lives,     *)
(* whatever fails, with any budgets and threshold, through stop() racing   *)
(* start() and a recovery (supervisor.ts, runRecovery and start).          *)
THEOREM OneClient == PromptChecks /\ Spec => []OneClientAtATime
<1>1. SupInv => OneClientAtATime
  <2> SUFFICES ASSUME SupInv, NEW t \in Launchers, At(t, "creating")
               PROVE  Alive = {} /\ \A u \in Launchers \ {t} : ~At(u, "creating")
    BY DEF OneClientAtATime
  <2>1. Alive = {}
    BY DEF SupInv, ClientsAccounted
  <2>2. ASSUME NEW u \in Launchers \ {t}, At(u, "creating")
        PROVE  FALSE
    BY <2>2 DEF SupInv, StarterAlone, RecoveryAlone, NoRecovery, At, Launchers
  <2> QED
    BY <2>1, <2>2
<1> QED
  BY SupervisorSound, <1>1, PTL

(* And a ready supervisor has a client, listening and probed.              *)
THEOREM ReadyServed == PromptChecks /\ Spec => []ReadyMeansServed
<1>1. SupInv => ReadyMeansServed
  BY DEF SupInv, RecoveryAlone, PolicySound, NoRecovery, ReadyMeansServed
<1> QED
  BY SupervisorSound, <1>1, PTL
=============================================================================
