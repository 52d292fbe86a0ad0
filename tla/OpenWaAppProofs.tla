--------------------------- MODULE OpenWaAppProofs ---------------------------
(***************************************************************************)
(* What the OpenWA application guarantees for every set of messages and    *)
(* handlers and every bound on deliveries, runs, clients and faults.       *)
(***************************************************************************)
EXTENDS OpenWaApp, TLAPS

-----------------------------------------------------------------------------
(* The inductive invariant *)

Labels == {"received", "looking", "dispatch", "sent"}

Executions == {Idle} \cup [pc : Labels, message : Messages, client : Clients]

AppType ==
  /\ refused \subseteq Setups /\ technical \in BOOLEAN
  /\ phase \in Phases
  /\ active \in {0} \cup Clients
  /\ active # 0 => phase \notin {"down", "starting"} /\ (phase = "closing" \/ active \in listening)
  /\ listening \subseteq Clients
  /\ handled \subseteq Messages /\ processed \subseteq Messages /\ ignored \subseteq Messages
  /\ handler \in [Handlers -> Executions]
  /\ here \in [Messages -> Nat] /\ answers \in [Messages -> Nat]
  /\ because \in [Messages -> SUBSET Reasons]
  /\ spent \in [deliveries : [Messages -> Nat], runs : Nat, faults : 0 .. MaxFaults]

LabelSets ==
  {{"received", "looking"}, {"looking"}, {"dispatch", "sent"}, {"dispatch"}, {"sent"}}

Works(h, m, labels) == handler[h].pc \in labels /\ handler[h].message = m

(* What the process remembers of a message that it answers or has          *)
(* answered.                                                               *)
Remembered(m) ==
  /\ \A h \in Handlers : Works(h, m, {"dispatch", "sent"}) => m \in handled
  /\ here[m] > 0 => m \in handled

(* A message no two copies of which arrived in one turn has one handler    *)
(* within a turn, one that answers, and one answer.                        *)
Single(m) ==
  "together" \notin because[m] =>
    /\ \A g, h \in Handlers :
         Works(g, m, {"received", "looking"}) /\ Works(h, m, {"received", "looking"}) => g = h
    /\ \A g, h \in Handlers :
         Works(g, m, {"dispatch", "sent"}) /\ Works(h, m, {"dispatch", "sent"}) => g = h
    /\ \A h \in Handlers : Works(h, m, {"looking"}) => m \notin handled
    /\ \A h \in Handlers : Works(h, m, {"dispatch"}) => here[m] = 0
    /\ here[m] <= 1

Clean(m) == because[m] \cap {"together", "lookup", "rejected", "unmarked"} = {}

(* The answer to a message with which nothing went wrong is in the table,  *)
(* or its handler is about to mark it.                                     *)
Recorded(m) ==
  Clean(m) =>
    /\ answers[m] <= 1
    /\ answers[m] = 1 => m \in processed \/ \E h \in Handlers : Works(h, m, {"sent"})
    /\ \A h \in Handlers : Works(h, m, {"dispatch"}) => answers[m] = 0

Answered(m) ==
  /\ m \in processed => answers[m] > 0
  /\ \A h \in Handlers : Works(h, m, {"sent"}) => answers[m] > 0

(* A message whose id the process holds, or that was ignored, is one that  *)
(* was answered, is about to be, or failed.                                *)
Explained(m) ==
  m \in handled \cup ignored =>
    \/ answers[m] > 0
    \/ \E h \in Handlers : Works(h, m, {"dispatch"})
    \/ because[m] \cap {"pipeline", "unsent", "ended"} # {}

Inv(m) == Remembered(m) /\ Single(m) /\ Recorded(m) /\ Answered(m) /\ Explained(m)

AppInv == AppType /\ \A m \in Messages : Inv(m)

-----------------------------------------------------------------------------
(* Steps that only add reasons, phases or clients preserve what is said of *)
(* a message.                                                              *)

LEMMA QuietStep ==
  ASSUME NEW m, Inv(m),
         handler' = handler, handled' = handled, processed' = processed, ignored' = ignored,
         here' = here, answers' = answers, because' = because
  PROVE  Inv(m)'
BY DEF Inv, Remembered, Single, Recorded, Clean, Answered, Explained, Works

LEMMA ExecutionType ==
  ASSUME AppType, NEW h \in Handlers
  PROVE  /\ handler[h].pc \in Labels \cup {"idle"}
         /\ handler[h].pc # "idle" => /\ handler[h].message \in Messages
                                      /\ handler[h].client \in Clients
                                      /\ \A label \in Labels :
                                           [handler[h] EXCEPT !.pc = label] \in Executions
<1>1. handler[h] \in Executions
  BY DEF AppType
<1>2. CASE handler[h] = Idle
  BY <1>2 DEF Idle
<1>3. CASE handler[h] \in [pc : Labels, message : Messages, client : Clients]
  BY <1>3 DEF Executions, Labels
<1> QED
  BY <1>1, <1>2, <1>3 DEF Executions

LEMMA FaultType ==
  ASSUME AppType, OpenWaAppAssumption, Fault
  PROVE  spent' \in [deliveries : [Messages -> Nat], runs : Nat, faults : 0 .. MaxFaults]
BY DEF AppType, OpenWaAppAssumption, Fault

-----------------------------------------------------------------------------
(* The end of a process *)

LEMMA EndType ==
  ASSUME AppType, ProcessEnds, UNCHANGED <<refused, technical, processed, answers, ignored>>,
         spent' \in [deliveries : [Messages -> Nat], runs : Nat, faults : 0 .. MaxFaults]
  PROVE  AppType'
<1>1. because' \in [Messages -> SUBSET Reasons]
  BY DEF AppType, ProcessEnds, Reasons
<1>2. handler' \in [Handlers -> Executions]
  BY DEF ProcessEnds, Executions
<1> QED
  BY <1>1, <1>2 DEF AppType, ProcessEnds, Phases

LEMMA EndInv ==
  ASSUME AppType, ProcessEnds, UNCHANGED <<refused, technical, processed, answers, ignored>>,
         NEW m \in Messages, Inv(m)
  PROVE  Inv(m)'
<1>1. /\ handled' = {} /\ here'[m] = 0
      /\ \A h \in Handlers : handler'[h].pc = "idle"
  BY DEF ProcessEnds, Idle
<1>2. because'[m] = because[m] \cup
        {IF handler[h].pc = "sent" THEN "unmarked" ELSE "ended" :
           h \in {g \in Handlers : Busy(g) /\ handler[g].message = m}}
  BY DEF ProcessEnds
<1>3. \A h \in Handlers : Works(h, m, {"sent"}) => "unmarked" \in because'[m]
  BY <1>2 DEF Works, Busy
<1>4. \A h \in Handlers : Works(h, m, {"dispatch"}) => "ended" \in because'[m]
  BY <1>2 DEF Works, Busy
<1>5. because[m] \subseteq because'[m]
  BY <1>2
<1>6. Remembered(m)' /\ Single(m)'
  BY <1>1 DEF Remembered, Single, Works
<1>7. Recorded(m)'
  BY <1>1, <1>3, <1>5 DEF Inv, Recorded, Clean, Works
<1>8. Answered(m)' /\ Explained(m)'
  BY <1>1, <1>4, <1>5 DEF Inv, Answered, Explained, Works
<1> QED
  BY <1>6, <1>7, <1>8 DEF Inv

-----------------------------------------------------------------------------
(* The steps of a handler *)

LEMMA DeliverInv ==
  ASSUME OpenWaAppAssumption, AppInv, NEW h \in Handlers, NEW d \in Messages, Deliver(h, d)
  PROVE  AppInv'
<1> USE DEF AppInv
<1>1. PICK c \in Clients :
        handler' = [handler EXCEPT ![h] = [pc |-> "received", message |-> d, client |-> c]]
  BY DEF Deliver, AppType
<1>2. \A g \in Handlers : g # h => handler'[g] = handler[g]
  BY <1>1 DEF AppType
<1>3. handler'[h] = [pc |-> "received", message |-> d, client |-> c] /\ handler[h].pc = "idle"
  BY <1>1 DEF AppType, Deliver, Busy
<1>4. \A m \in Messages : because[m] \subseteq because'[m]
  BY DEF Deliver, Blame, AppType
<1>5. AppType'
  <2>1. handler' \in [Handlers -> Executions]
    BY <1>1 DEF AppType, Executions, Labels
  <2>2. because' \in [Messages -> SUBSET Reasons]
    BY DEF AppType, Deliver, Blame, Reasons
  <2>3. spent' \in [deliveries : [Messages -> Nat], runs : Nat, faults : 0 .. MaxFaults]
    BY DEF AppType, Deliver
  <2> QED
    BY <2>1, <2>2, <2>3 DEF AppType, Deliver, settings
<1>6. ASSUME NEW m \in Messages PROVE Inv(m)'
  <2>1. Inv(m)
    OBVIOUS
  <2>2. /\ handled' = handled /\ processed' = processed /\ ignored' = ignored
        /\ here' = here /\ answers' = answers
    BY DEF Deliver
  <2>3. \A g \in Handlers, labels \in {{"dispatch", "sent"}, {"looking"}, {"dispatch"}, {"sent"}} :
          Works(g, m, labels)' <=> Works(g, m, labels)
    BY <1>2, <1>3 DEF Works
  <2>4. Remembered(m)' /\ Answered(m)'
    BY <2>1, <2>2, <2>3 DEF Inv, Remembered, Answered
  <2>5. Recorded(m)' /\ Explained(m)'
    BY <1>4, <2>1, <2>2, <2>3 DEF Inv, Recorded, Clean, Explained
  <2>6. "together" \notin because'[m] =>
          \A g, f \in Handlers : Works(g, m, {"received", "looking"})' /\ Works(f, m, {"received", "looking"})'
                                   => g = f
    <3> SUFFICES ASSUME "together" \notin because'[m], NEW g \in Handlers, NEW f \in Handlers,
                        Works(g, m, {"received", "looking"})', Works(f, m, {"received", "looking"})',
                        g # f
                 PROVE  FALSE
      OBVIOUS
    <3>1. CASE g # h /\ f # h
      BY <1>2, <1>4, <2>1, <3>1 DEF Inv, Single, Works
    <3>2. CASE g = h \/ f = h
      <4>1. PICK e \in Handlers : e # h /\ Works(e, m, {"received", "looking"}) /\ m = d
        BY <1>2, <1>3, <3>2 DEF Works
      <4>2. WithinTurn(e) /\ handler[e].message = d
        BY <4>1 DEF Works, WithinTurn
      <4> QED
        BY <4>1, <4>2 DEF Deliver, Blame, AppType
    <3> QED
      BY <3>1, <3>2
  <2>7. Single(m)'
    BY <1>4, <2>1, <2>2, <2>3, <2>6 DEF Inv, Single
  <2> QED
    BY <2>4, <2>5, <2>7 DEF Inv
<1> QED
  BY <1>5, <1>6

(* A handler that goes to another label, or ends, with no other change to  *)
(* what is known of its message than the reasons.                          *)
LEMMA CheckHandledInv ==
  ASSUME AppInv, NEW h \in Handlers, CheckHandled(h)
  PROVE  AppInv'
<1> USE DEF AppInv
<1> DEFINE d == handler[h].message
<1>1. /\ handler[h].pc = "received" /\ d \in Messages
      /\ [handler[h] EXCEPT !.pc = "looking"] \in Executions
  BY ExecutionType DEF CheckHandled, Labels
<1>2. handler' \in [Handlers -> Executions] /\ \A g \in Handlers : g # h => handler'[g] = handler[g]
  <2>1. handler \in [Handlers -> Executions] /\ Idle \in Executions
    BY DEF AppType, Executions
  <2>2. \/ handler' = [handler EXCEPT ![h] = Idle]
        \/ handler' = [handler EXCEPT ![h] = [handler[h] EXCEPT !.pc = "looking"]]
    BY DEF CheckHandled, Ignore, Done
  <2> QED
    BY <1>1, <2>1, <2>2
<1>3. AppType'
  BY <1>1, <1>2 DEF CheckHandled, Ignore, AppType, settings
<1>4. \/ d \in handled /\ handler'[h] = Idle /\ ignored' = ignored \cup {d}
      \/ d \notin handled /\ handler'[h] = [handler[h] EXCEPT !.pc = "looking"] /\ ignored' = ignored
  BY DEF CheckHandled, Ignore, Done, AppType
<1>5. /\ handler'[h].pc \in {"idle", "looking"}
      /\ handler'[h].pc = "looking" => handler'[h].message = d /\ d \notin handled
  <2>1. handler[h] \in [pc : Labels, message : Messages, client : Clients]
    BY <1>1 DEF AppType, Executions, Idle
  <2> QED
    BY <1>4, <2>1 DEF Idle
<1>6. ASSUME NEW m \in Messages PROVE Inv(m)'
  <2>1. Inv(m)
    OBVIOUS
  <2>2. /\ handled' = handled /\ processed' = processed /\ because' = because
        /\ here' = here /\ answers' = answers
    BY DEF CheckHandled
  <2>3. \A g \in Handlers, labels \in {{"dispatch", "sent"}, {"dispatch"}, {"sent"}} :
          Works(g, m, labels)' <=> Works(g, m, labels)
    BY <1>1, <1>2, <1>5 DEF Works
  <2>4. \A g \in Handlers :
          Works(g, m, {"received", "looking"})' => Works(g, m, {"received", "looking"})
    BY <1>1, <1>2, <1>5 DEF Works
  <2>5. \A g \in Handlers : Works(g, m, {"looking"})' => Works(g, m, {"looking"}) \/ m \notin handled
    BY <1>1, <1>2, <1>5 DEF Works
  <2>6. Remembered(m)' /\ Answered(m)' /\ Recorded(m)'
    BY <2>1, <2>2, <2>3 DEF Inv, Remembered, Answered, Recorded, Clean
  <2>7. Single(m)'
    BY <2>1, <2>2, <2>3, <2>4, <2>5 DEF Inv, Single
  <2>8. m \in handled' \cup ignored' => m \in handled \cup ignored
    BY <1>4, <2>2
  <2>9. Explained(m)'
    BY <2>1, <2>2, <2>3, <2>8 DEF Inv, Explained
  <2> QED
    BY <2>6, <2>7, <2>9 DEF Inv
<1> QED
  BY <1>3, <1>6

LEMMA CheckProcessedInv ==
  ASSUME OpenWaAppAssumption, AppInv, NEW h \in Handlers, CheckProcessed(h)
  PROVE  AppInv'
<1> USE DEF AppInv
<1>0. PICK d \in Messages : d = handler[h].message
  BY ExecutionType DEF CheckProcessed, Labels
<1>1. /\ handler[h].pc = "looking" /\ d = handler[h].message
      /\ [handler[h] EXCEPT !.pc = "dispatch"] \in Executions
      /\ handler[h] \in [pc : Labels, message : Messages, client : Clients]
  <2>1. handler[h].pc = "looking"
    BY DEF CheckProcessed
  <2>2. handler[h] # Idle
    BY <2>1 DEF Idle
  <2> QED
    BY <1>0, <2>1, <2>2, ExecutionType DEF Labels, AppType, Executions
<1>2. PICK readable, runs \in BOOLEAN :
        /\ IF readable /\ runs THEN UNCHANGED spent ELSE Fault
        /\ Known(d, readable) => runs
        /\ because' = [because EXCEPT ![d] =
             @ \cup {r \in {"lookup"} : ~(technical /\ readable)}
               \cup {r \in {"pipeline"} : ~runs}]
        /\ IF Known(d, readable)
           THEN Ignore(h) /\ UNCHANGED handled
           ELSE /\ handled' = handled \cup {d}
                /\ IF runs THEN handler' = [handler EXCEPT ![h].pc = "dispatch"] ELSE Done(h)
                /\ UNCHANGED ignored
  BY <1>0 DEF CheckProcessed
<1>3. UNCHANGED <<settings, phase, active, listening, processed, here, answers>>
  BY DEF CheckProcessed
<1>4. handler' \in [Handlers -> Executions] /\ \A g \in Handlers : g # h => handler'[g] = handler[g]
  BY <1>1, <1>2 DEF Ignore, Done, AppType, Executions
<1>5. CASE Known(d, readable)
  <2>1. handler'[h] = Idle /\ ignored' = ignored \cup {d} /\ handled' = handled /\ d \in processed
    BY <1>1, <1>2, <1>5 DEF Ignore, Done, AppType, Known
  <2>2. because' = because /\ spent' \in [deliveries : [Messages -> Nat], runs : Nat, faults : 0 .. MaxFaults]
    BY <1>2, <1>5, FaultType DEF AppType, Known
  <2>3. AppType'
    BY <1>1, <1>3, <1>4, <2>1, <2>2 DEF AppType, settings
  <2>4. ASSUME NEW m \in Messages PROVE Inv(m)'
    <3>1. Inv(m)
      OBVIOUS
    <3>2. \A g \in Handlers, labels \in {{"dispatch", "sent"}, {"dispatch"}, {"sent"}} :
            Works(g, m, labels)' <=> Works(g, m, labels)
      BY <1>1, <1>4, <2>1 DEF Works, Idle, LabelSets
    <3>3. \A g \in Handlers, labels \in {{"received", "looking"}, {"looking"}} :
            Works(g, m, labels)' => Works(g, m, labels)
      BY <1>1, <1>4, <2>1 DEF Works, Idle, LabelSets
    <3>4. Remembered(m)' /\ Answered(m)' /\ Recorded(m)'
      BY <1>3, <2>1, <2>2, <3>1, <3>2 DEF Inv, Remembered, Answered, Recorded, Clean
    <3>5. Single(m)'
      BY <1>3, <2>1, <2>2, <3>1, <3>2, <3>3 DEF Inv, Single
    <3>6. d \in processed /\ m = d => answers[m] > 0
      BY <3>1 DEF Inv, Answered
    <3>7. Explained(m)'
      BY <1>3, <2>1, <2>2, <3>1, <3>2, <3>6 DEF Inv, Explained
    <3> QED
      BY <3>4, <3>5, <3>7 DEF Inv
  <2> QED
    BY <2>3, <2>4
<1>6. CASE ~Known(d, readable)
  <2>1. /\ handled' = handled \cup {d} /\ ignored' = ignored
        /\ \/ runs /\ handler'[h] = [handler[h] EXCEPT !.pc = "dispatch"]
           \/ ~runs /\ handler'[h] = Idle /\ "pipeline" \in because'[d]
    BY <1>1, <1>2, <1>6 DEF Done, AppType
  <2>2. /\ handler'[h].pc = IF runs THEN "dispatch" ELSE "idle"
        /\ runs => handler'[h].message = d
    BY <1>1, <2>1 DEF Idle
  <2>3. because' \in [Messages -> SUBSET Reasons] /\ \A m \in Messages : because[m] \subseteq because'[m]
    BY <1>2 DEF AppType, Reasons
  <2>4. d \in processed => "lookup" \in because'[d]
    BY <1>1, <1>2, <1>6 DEF AppType, Known
  <2>5. spent' \in [deliveries : [Messages -> Nat], runs : Nat, faults : 0 .. MaxFaults]
    BY <1>2, FaultType DEF AppType
  <2>6. AppType'
    BY <1>1, <1>3, <1>4, <2>1, <2>3, <2>5 DEF AppType, settings
  <2>7. ASSUME NEW m \in Messages, m # d PROVE Inv(m)'
    <3>1. Inv(m)
      OBVIOUS
    <3>2. \A g \in Handlers, labels \in LabelSets : Works(g, m, labels)' <=> g # h /\ Works(g, m, labels)
      BY <1>1, <1>4, <2>1, <2>2, <2>7 DEF Works, LabelSets
    <3>3. \A g \in Handlers, labels \in LabelSets : Works(g, m, labels)' <=> Works(g, m, labels)
      BY <1>1, <2>7, <3>2 DEF Works, LabelSets
    <3>4. because'[m] = because[m] /\ (m \in handled' <=> m \in handled)
      BY <1>2, <2>1, <2>7 DEF AppType
    <3> QED
      BY <1>3, <2>1, <3>1, <3>3, <3>4
         DEF Inv, Remembered, Single, Recorded, Clean, Answered, Explained, LabelSets
  <2>8. Inv(d)'
    <3>1. Inv(d) /\ Works(h, d, {"received", "looking"}) /\ Works(h, d, {"looking"})
      BY <1>1 DEF Works, LabelSets
    <3>2. \A g \in Handlers : g # h => \A labels \in LabelSets : Works(g, d, labels)' <=> Works(g, d, labels)
      BY <1>4 DEF Works, LabelSets
    <3>3. ~Works(h, d, {"received", "looking"})' /\ ~Works(h, d, {"looking"})' /\ ~Works(h, d, {"sent"})'
      BY <2>2 DEF Works, LabelSets
    <3>4. d \in handled'
      BY <2>1
    <3>5. "together" \notin because[d] =>
            /\ d \notin handled
            /\ here[d] = 0
            /\ \A g \in Handlers : ~Works(g, d, {"dispatch", "sent"}) /\ ~Works(g, d, {"sent"})
            /\ \A g \in Handlers : Works(g, d, {"received", "looking"}) => g = h
      <4>1. "together" \notin because[d] => d \notin handled
        BY <3>1 DEF Inv, Single
      <4>2. d \notin handled => here[d] = 0
        BY <1>1, <3>1 DEF Inv, Remembered, AppType
      <4>3. d \notin handled => \A g \in Handlers : ~Works(g, d, {"dispatch", "sent"})
        BY <3>1 DEF Inv, Remembered
      <4>4. \A g \in Handlers : Works(g, d, {"sent"}) => Works(g, d, {"dispatch", "sent"})
        BY DEF Works, LabelSets
      <4>5. "together" \notin because[d] =>
              \A g \in Handlers : Works(g, d, {"received", "looking"}) => g = h
        BY <3>1 DEF Inv, Single
      <4> QED
        BY <4>1, <4>2, <4>3, <4>4, <4>5
    <3>6. Remembered(d)'
      BY <3>4 DEF Remembered
    <3>7. Single(d)'
      <4>1. SUFFICES ASSUME "together" \notin because'[d]
                     PROVE  /\ \A f, g \in Handlers :
                                 Works(f, d, {"received", "looking"})' /\ Works(g, d, {"received", "looking"})' => f = g
                            /\ \A f, g \in Handlers :
                                 Works(f, d, {"dispatch", "sent"})' /\ Works(g, d, {"dispatch", "sent"})' => f = g
                            /\ \A g \in Handlers : Works(g, d, {"looking"})' => d \notin handled'
                            /\ here'[d] = 0
        BY DEF Single
      <4>2. "together" \notin because[d]
        BY <1>1, <2>3, <4>1
      <4>3. \A g \in Handlers : ~Works(g, d, {"received", "looking"})'
        BY <3>2, <3>3, <3>5, <4>2 DEF LabelSets
      <4>4. \A g \in Handlers : Works(g, d, {"dispatch", "sent"})' => g = h
        BY <3>2, <3>5, <4>2 DEF LabelSets
      <4>5. \A g \in Handlers : ~Works(g, d, {"looking"})'
        BY <4>3 DEF Works, LabelSets
      <4> QED
        BY <1>3, <3>5, <4>2, <4>3, <4>4, <4>5
    <3>8. Answered(d)'
      BY <1>3, <3>1, <3>2, <3>3 DEF Inv, Answered, LabelSets
    <3>9. Recorded(d)'
      <4>1. SUFFICES ASSUME Clean(d)'
                     PROVE  answers'[d] = 0
        BY DEF Recorded
      <4>2. Clean(d) /\ "together" \notin because[d] /\ d \notin processed
        BY <1>1, <2>3, <2>4, <4>1 DEF Clean
      <4>3. answers[d] # 1 /\ answers[d] <= 1
        BY <3>1, <3>5, <4>2 DEF Inv, Recorded
      <4> QED
        BY <1>1, <1>3, <4>3 DEF AppType
    <3>10. Explained(d)'
      <4>1. CASE runs
        BY <2>2, <4>1 DEF Explained, Works
      <4>2. CASE ~runs
        BY <2>1, <4>2 DEF Explained
      <4> QED
        BY <4>1, <4>2
    <3> QED
      BY <3>6, <3>7, <3>8, <3>9, <3>10 DEF Inv
  <2> QED
    BY <2>6, <2>7, <2>8
<1> QED
  BY <1>5, <1>6

(* A handler that leaves one label for another, its message known.         *)
LEMMA AtLabel ==
  ASSUME AppType, NEW h \in Handlers, handler[h].pc \in Labels
  PROVE  /\ handler[h].message \in Messages
         /\ handler[h] \in [pc : Labels, message : Messages, client : Clients]
<1>1. handler[h] # Idle
  BY DEF Idle, Labels
<1> QED
  BY <1>1, ExecutionType DEF AppType, Executions, Labels

LEMMA TransmitInv ==
  ASSUME AppInv, NEW h \in Handlers, Transmit(h)
  PROVE  AppInv'
<1> USE DEF AppInv
<1>1. PICK d \in Messages : /\ d = handler[h].message /\ handler[h].pc = "dispatch"
                           /\ handler[h] \in [pc : Labels, message : Messages, client : Clients]
  BY AtLabel DEF Transmit, Labels
<1>2. /\ handler' = [handler EXCEPT ![h].pc = "sent"]
      /\ here' = [here EXCEPT ![d] = @ + 1] /\ answers' = [answers EXCEPT ![d] = @ + 1]
      /\ UNCHANGED <<settings, phase, active, listening, handled, processed, ignored, because, spent>>
  BY <1>1 DEF Transmit
<1>3. handler'[h].pc = "sent" /\ handler'[h].message = d /\ handler' \in [Handlers -> Executions]
  BY <1>1, <1>2 DEF AppType, Executions, Labels
<1>4. \A g \in Handlers : g # h => handler'[g] = handler[g]
  BY <1>2 DEF AppType
<1>5. AppType'
  BY <1>2, <1>3 DEF AppType, settings
<1>6. ASSUME NEW m \in Messages, m # d PROVE Inv(m)'
  <2>1. \A g \in Handlers, labels \in LabelSets : Works(g, m, labels)' <=> Works(g, m, labels)
    BY <1>1, <1>3, <1>4, <1>6 DEF Works
  <2>2. here'[m] = here[m] /\ answers'[m] = answers[m]
    BY <1>2, <1>6 DEF AppType
  <2>3. Inv(m)
    OBVIOUS
  <2> QED
    BY <1>2, <2>1, <2>2, <2>3
       DEF Inv, Remembered, Single, Recorded, Clean, Answered, Explained, LabelSets
<1>7. Inv(d)'
  <2>1. Inv(d) /\ Works(h, d, {"dispatch"}) /\ Works(h, d, {"dispatch", "sent"})
    BY <1>1 DEF Works
  <2>2. here'[d] = here[d] + 1 /\ answers'[d] = answers[d] + 1
        /\ here[d] \in Nat /\ answers[d] \in Nat
    BY <1>2 DEF AppType
  <2>3. \A g \in Handlers : g # h => \A labels \in LabelSets : Works(g, d, labels)' <=> Works(g, d, labels)
    BY <1>4 DEF Works
  <2>4. \A g \in Handlers, labels \in LabelSets \ {{"sent"}} : Works(g, d, labels)' => Works(g, d, labels)
    BY <1>1, <1>3, <1>4 DEF Works, LabelSets
  <2>5. ~Works(h, d, {"dispatch"})' /\ Works(h, d, {"sent"})'
    BY <1>3 DEF Works
  <2>6. d \in handled /\ handled' = handled
    BY <1>2, <2>1 DEF Inv, Remembered
  <2>7. Remembered(d)'
    BY <2>6 DEF Remembered
  <2>8. Single(d)'
    <3>1. SUFFICES ASSUME "together" \notin because[d] PROVE Single(d)'
      BY <1>2 DEF Single
    <3>2. here[d] = 0 /\ \A g \in Handlers : Works(g, d, {"dispatch", "sent"}) => g = h
      BY <2>1, <3>1 DEF Inv, Single
    <3>3. \A g \in Handlers : Works(g, d, {"dispatch"}) => Works(g, d, {"dispatch", "sent"})
      BY DEF Works
    <3>4. \A g \in Handlers : ~Works(g, d, {"dispatch"})'
      BY <2>3, <2>5, <3>2, <3>3 DEF LabelSets
    <3> QED
      BY <2>1, <2>2, <2>4, <2>6, <3>1, <3>2, <3>4 DEF Inv, Single, LabelSets
  <2>9. Recorded(d)'
    <3>1. SUFFICES ASSUME Clean(d) PROVE Recorded(d)'
      BY <1>2 DEF Recorded, Clean
    <3>2. answers[d] = 0 /\ "together" \notin because[d]
      BY <2>1, <3>1 DEF Inv, Recorded, Clean
    <3>3. \A g \in Handlers : Works(g, d, {"dispatch"}) => g = h
      BY <2>1, <3>2 DEF Inv, Single, Works
    <3>4. \A g \in Handlers : ~Works(g, d, {"dispatch"})'
      BY <2>3, <2>5, <3>3 DEF LabelSets
    <3> QED
      BY <2>2, <2>5, <3>2, <3>4 DEF Recorded
  <2>10. Answered(d)' /\ Explained(d)'
    BY <2>2 DEF Answered, Explained
  <2> QED
    BY <2>7, <2>8, <2>9, <2>10 DEF Inv
<1> QED
  BY <1>5, <1>6, <1>7

(* A handler that has tried to send ends.                                  *)
LEMMA HandlerEndsInv ==
  ASSUME AppInv, NEW h \in Handlers, handler[h].pc \in {"dispatch", "sent"}, Done(h),
         NEW d \in Messages, d = handler[h].message,
         UNCHANGED <<settings, phase, active, listening, handled, here, answers, ignored>>,
         because' \in [Messages -> SUBSET Reasons],
         processed \subseteq processed', processed' \subseteq processed \cup {d},
         spent' \in [deliveries : [Messages -> Nat], runs : Nat, faults : 0 .. MaxFaults],
         \A m \in Messages \ {d} : because'[m] = because[m],
         because[d] \subseteq because'[d],
         handler[h].pc = "dispatch" => "unsent" \in because'[d] /\ processed' = processed,
         handler[h].pc = "sent" => d \in processed' \/ because'[d] \cap {"rejected", "unmarked"} # {}
  PROVE  AppInv'
<1> USE DEF AppInv
<1>1. handler'[h] = Idle /\ handler' \in [Handlers -> Executions]
      /\ \A g \in Handlers : g # h => handler'[g] = handler[g]
  BY DEF Done, AppType, Executions
<1>2. AppType'
  BY <1>1 DEF AppType, settings
<1>3. ASSUME NEW m \in Messages PROVE Inv(m)'
  <2>1. Inv(m)
    OBVIOUS
  <2>2. \A g \in Handlers, labels \in LabelSets : Works(g, m, labels)' <=> g # h /\ Works(g, m, labels)
    BY <1>1 DEF Works, LabelSets, Idle
  <2>3. Works(h, m, {"dispatch"}) => m = d /\ "unsent" \in because'[m]
    BY DEF Works
  <2>4. Works(h, m, {"sent"}) => m = d /\ (m \in processed' \/ because'[m] \cap {"rejected", "unmarked"} # {})
    BY DEF Works
  <2>5. because[m] \subseteq because'[m]
    BY DEF AppType
  <2>6. Remembered(m)' /\ Single(m)'
    BY <2>1, <2>2, <2>5 DEF Inv, Remembered, Single, LabelSets
  <2>7. Recorded(m)'
    BY <2>1, <2>2, <2>4, <2>5 DEF Inv, Recorded, Clean, LabelSets
  <2>8. Explained(m)'
    BY <2>1, <2>2, <2>3, <2>5 DEF Inv, Explained, LabelSets
  <2>9. Answered(m)'
    <3>1. m \in processed' /\ m \notin processed => Works(h, m, {"sent"})
      BY DEF Works
    <3> QED
      BY <2>1, <2>2, <3>1 DEF Inv, Answered, LabelSets
  <2> QED
    BY <2>6, <2>7, <2>8, <2>9 DEF Inv
<1> QED
  BY <1>2, <1>3

LEMMA SendRejectsInv ==
  ASSUME OpenWaAppAssumption, AppInv, NEW h \in Handlers, SendRejects(h)
  PROVE  AppInv'
<1>1. PICK d \in Messages : d = handler[h].message /\ handler[h].pc \in {"dispatch", "sent"}
  BY AtLabel DEF SendRejects, Labels, AppInv
<1>2. because' = [because EXCEPT ![d] = @ \cup {IF handler[h].pc = "sent" THEN "rejected" ELSE "unsent"}]
  BY <1>1 DEF SendRejects, Blame
<1>3. because' \in [Messages -> SUBSET Reasons] /\ \A m \in Messages \ {d} : because'[m] = because[m]
  BY <1>2 DEF AppInv, AppType, Reasons
<1>4. because'[d] = because[d] \cup {IF handler[h].pc = "sent" THEN "rejected" ELSE "unsent"}
  BY <1>2 DEF AppInv, AppType
<1>5. spent' \in [deliveries : [Messages -> Nat], runs : Nat, faults : 0 .. MaxFaults]
  BY FaultType DEF SendRejects, AppInv, AppType
<1>6. Done(h) /\ UNCHANGED <<settings, phase, active, listening, handled, processed, here, answers, ignored>>
  BY DEF SendRejects
<1> QED
  BY <1>1, <1>3, <1>4, <1>5, <1>6, HandlerEndsInv

LEMMA MarkProcessedInv ==
  ASSUME OpenWaAppAssumption, AppInv, NEW h \in Handlers, MarkProcessed(h)
  PROVE  AppInv'
<1>1. PICK d \in Messages : d = handler[h].message /\ handler[h].pc = "sent"
  BY AtLabel DEF MarkProcessed, DispatchedAt, Labels, AppInv
<1>2. Done(h) /\ UNCHANGED <<settings, phase, active, listening, handled, here, answers, ignored>>
  BY DEF MarkProcessed
<1>3. CASE processed' = processed \cup {d} /\ UNCHANGED <<because, spent>>
  BY <1>1, <1>2, <1>3, HandlerEndsInv DEF AppInv, AppType
<1>4. CASE Blame(d, "unmarked") /\ UNCHANGED processed
  <2>1. because' = [because EXCEPT ![d] = @ \cup {"unmarked"}]
    BY <1>4 DEF Blame
  <2>2. because' \in [Messages -> SUBSET Reasons] /\ \A m \in Messages \ {d} : because'[m] = because[m]
    BY <2>1 DEF AppInv, AppType, Reasons
  <2>3. because'[d] = because[d] \cup {"unmarked"}
    BY <2>1 DEF AppInv, AppType
  <2>4. spent' \in [deliveries : [Messages -> Nat], runs : Nat, faults : 0 .. MaxFaults]
    BY FaultType DEF MarkProcessed, AppInv, AppType
  <2> QED
    BY <1>1, <1>2, <1>4, <2>2, <2>3, <2>4, HandlerEndsInv
<1> QED
  BY <1>1, <1>3, <1>4 DEF MarkProcessed

-----------------------------------------------------------------------------
(* Starting and stopping *)

LEMMA LifeCycleInv ==
  ASSUME OpenWaAppAssumption, AppInv,
         Launch \/ Activate \/ Degrade \/ ProbeSucceeds \/ KillReplaced \/ Stop \/ StopSupervisor
  PROVE  AppInv'
<1> USE DEF AppInv
<1>1. /\ UNCHANGED <<handler, handled, processed, ignored, here, answers, because>>
  BY DEF Launch, Activate, Register, Degrade, ProbeSucceeds, KillReplaced, Stop, StopSupervisor, history
<1>2. \A m \in Messages : Inv(m)'
  BY <1>1, QuietStep
<1>3. spent' \in [deliveries : [Messages -> Nat], runs : Nat, faults : 0 .. MaxFaults]
  <2>1. spent' = spent \/ Fault \/ spent' = [spent EXCEPT !.runs = @ + 1]
    BY DEF Launch, Activate, Degrade, ProbeSucceeds, KillReplaced, Stop, StopSupervisor, Killed, KillFails
  <2> QED
    BY <2>1, FaultType DEF AppType
<1>4. CASE Launch
  <2>1. technical' \in BOOLEAN
    <3>1. technical' = technical \/ \E s \in Setups : technical' = On(s.env, "TECHNICAL_PERSISTENCE_ENABLED")
      BY <1>4 DEF Launch
    <3>2. \A s \in Setups : On(s.env, "TECHNICAL_PERSISTENCE_ENABLED") \in BOOLEAN
      BY DEF On
    <3> QED
      BY <3>1, <3>2 DEF AppType
  <2>2. phase = "down" /\ phase' \in {"down", "starting"} /\ active' = active /\ listening' = listening
    BY <1>4 DEF Launch
  <2>3. refused' \subseteq Setups
    BY <1>4 DEF Launch
  <2> QED
    BY <1>1, <1>2, <1>3, <2>1, <2>2, <2>3 DEF AppType, Phases
<1>5. CASE Activate
  BY <1>1, <1>2, <1>3, <1>5 DEF Activate, Register, AppType, Phases, settings
<1>6. CASE Degrade
  BY <1>1, <1>2, <1>3, <1>6 DEF Degrade, AppType, Phases, settings
<1>7. CASE Stop
  BY <1>1, <1>2, <1>3, <1>7 DEF Stop, AppType, Phases, settings
<1>8. CASE StopSupervisor
  <2>1. /\ active' \in {0, active} /\ listening' \subseteq listening
        /\ phase = "stopping" /\ phase' = "closing" /\ UNCHANGED settings
    BY <1>8 DEF StopSupervisor, Killed, KillFails
  <2> QED
    BY <1>1, <1>2, <1>3, <2>1 DEF AppType, Phases, settings
<1>9. CASE ProbeSucceeds
  BY <1>1, <1>2, <1>3, <1>9 DEF ProbeSucceeds, AppType, Phases, settings
<1>10. CASE KillReplaced
  <2>1. active' = 0 /\ listening' \subseteq listening /\ UNCHANGED <<phase, settings>>
    BY <1>10 DEF KillReplaced, Killed, KillFails
  <2> QED
    BY <1>1, <1>2, <1>3, <2>1 DEF AppType, settings
<1> QED
  BY <1>4, <1>5, <1>6, <1>7, <1>8, <1>9, <1>10

LEMMA ProcessEndsInv ==
  ASSUME OpenWaAppAssumption, AppInv, StartFails \/ Crash \/ Exit
  PROVE  AppInv'
<1>1. ProcessEnds /\ UNCHANGED <<refused, technical, processed, answers, ignored>>
  BY DEF StartFails, Crash, Exit, settings
<1>2. spent' \in [deliveries : [Messages -> Nat], runs : Nat, faults : 0 .. MaxFaults]
  BY FaultType DEF StartFails, Crash, Exit, AppInv, AppType
<1>3. AppType'
  BY <1>1, <1>2, EndType DEF AppInv
<1>4. \A m \in Messages : Inv(m)'
  BY <1>1, EndInv DEF AppInv
<1> QED
  BY <1>3, <1>4 DEF AppInv

-----------------------------------------------------------------------------
(* The theorems *)

LEMMA InitAppInv ==
  ASSUME OpenWaAppAssumption, Init
  PROVE  AppInv
<1>1. AppType
  <2>1. handler \in [Handlers -> Executions]
    BY DEF Init, Executions
  <2>2. spent \in [deliveries : [Messages -> Nat], runs : Nat, faults : 0 .. MaxFaults]
    BY DEF Init, OpenWaAppAssumption
  <2> QED
    BY <2>1, <2>2 DEF Init, AppType, Phases
<1>2. ASSUME NEW m \in Messages PROVE Inv(m)
  <2>1. \A h \in Handlers : handler[h].pc = "idle"
    BY DEF Init, Idle
  <2>2. here[m] = 0 /\ answers[m] = 0 /\ handled = {} /\ processed = {} /\ ignored = {}
    BY DEF Init
  <2> QED
    BY <2>1, <2>2 DEF Inv, Remembered, Single, Recorded, Answered, Explained, Works
<1> QED
  BY <1>1, <1>2 DEF AppInv

LEMMA AppInvStep ==
  ASSUME OpenWaAppAssumption, AppInv, [Next]_vars
  PROVE  AppInv'
<1>1. CASE UNCHANGED vars
  <2>1. \A m \in Messages : Inv(m)'
    BY <1>1, QuietStep DEF vars, AppInv
  <2> QED
    BY <1>1, <2>1 DEF vars, AppInv, AppType
<1>2. CASE Launch \/ Activate \/ Degrade \/ ProbeSucceeds \/ KillReplaced \/ Stop \/ StopSupervisor
  BY <1>2, LifeCycleInv
<1>3. CASE StartFails \/ Crash \/ Exit
  BY <1>3, ProcessEndsInv
<1>4. ASSUME NEW h \in Handlers, (\E m \in Messages : Deliver(h, m)) \/ Handle(h)
      PROVE  AppInv'
  BY <1>4, DeliverInv, CheckHandledInv, CheckProcessedInv, TransmitInv, SendRejectsInv,
     MarkProcessedInv DEF Handle
<1> QED
  BY <1>1, <1>2, <1>3, <1>4 DEF Next

(* The bookkeeping of deliveries, sends and marks is sound however         *)
(* deliveries, failures, recoveries, crashes and restarts interleave.      *)
THEOREM BookkeepingSound == Spec => []AppInv
<1>1. Init => AppInv
  BY InitAppInv, OpenWaAppAssumption
<1>2. AppInv /\ [Next]_vars => AppInv'
  BY AppInvStep, OpenWaAppAssumption
<1> QED
  BY <1>1, <1>2, PTL DEF Spec

(* Every variable keeps to its values.                                     *)
THEOREM AppTypeCorrect == Spec => []TypeOK
<1>1. AppInv => TypeOK
  <2> SUFFICES ASSUME AppInv PROVE TypeOK
    OBVIOUS
  <2>1. \A h \in Handlers : Busy(h) => handler[h].message \in Messages /\ handler[h].client \in Clients
    BY ExecutionType DEF AppInv, Busy
  <2> QED
    BY <2>1 DEF AppInv, AppType, TypeOK
<1> QED
  BY <1>1, BookkeepingSound, PTL

(* A process answers a message once, unless copies arrive in one turn.     *)
THEOREM ProcessAnswersOnce == Spec => []AnsweredOncePerProcess
<1>1. AppInv => AnsweredOncePerProcess
  BY DEF AppInv, AppType, Inv, Single, AnsweredOncePerProcess
<1> QED
  BY <1>1, BookkeepingSound, PTL

(* Over restarts a second answer has one of four causes.                   *)
THEOREM SecondAnswersExplained == Spec => []SecondAnswerIsExplained
<1>1. AppInv => SecondAnswerIsExplained
  BY DEF AppInv, AppType, Inv, Recorded, Clean, SecondAnswerIsExplained
<1> QED
  BY <1>1, BookkeepingSound, PTL

(* What the table holds has been answered.                                 *)
THEOREM TableHoldsAnswered == Spec => []ProcessedMeansAnswered
<1>1. AppInv => ProcessedMeansAnswered
  BY DEF AppInv, AppType, Inv, Answered, ProcessedMeansAnswered
<1> QED
  BY <1>1, BookkeepingSound, PTL

(* A message is met with silence only for one of the known causes.         *)
THEOREM SilenceExplained == Spec => []SilenceIsExplained
<1>1. AppInv => SilenceIsExplained
  <2> SUFFICES ASSUME AppInv, NEW m \in ignored
               PROVE  \/ answers[m] > 0
                      \/ \E h \in Handlers : Busy(h) /\ handler[h].message = m
                      \/ because[m] \cap {"pipeline", "unsent", "ended"} # {}
    BY DEF SilenceIsExplained
  <2>1. Explained(m)
    BY DEF AppInv, AppType, Inv
  <2>2. \A h \in Handlers : Works(h, m, {"dispatch"}) => Busy(h) /\ handler[h].message = m
    BY DEF Works, Busy
  <2> QED
    BY <2>1, <2>2 DEF Explained
<1> QED
  BY <1>1, BookkeepingSound, PTL

-----------------------------------------------------------------------------
(* The preflight *)

(* What the preflight calls ready, the checks of the runtime the setup     *)
(* names let pass.                                                         *)
LEMMA ReadyPasses ==
  ASSUME NEW s, PreflightReady(s)
  PROVE  Starts(s)
<1>1. IsMigrated(s) /\ On(s.env, "BUSINESS_PERSISTENCE_ENABLED")
  BY DEF PreflightReady
<1>2. CASE Transport(s.env) = "cloud"
  <2>1. CloudUnblocked(s)
    BY <1>2 DEF PreflightReady
  <2>2. s.env.NODE_ENV = "production" => s.env.WHATSAPP_CLOUD_APP_SECRET # "unset"
    BY <2>1 DEF CloudUnblocked, Configured
  <2> QED
    BY <1>1, <1>2, <2>1, <2>2 DEF CloudUnblocked, CloudStarts, Starts
<1>3. CASE Transport(s.env) # "cloud"
  BY <1>1, <1>3 DEF PreflightReady, OpenWaUnblocked, OpenWaStarts, Starts
<1> QED
  BY <1>2, <1>3

(* What ops:preflight reports as ready is never refused by the runtime.    *)
THEOREM ReadyStarts == Spec => []ReadyMeansItStarts
<1>1. Init => ReadyMeansItStarts
  BY DEF Init, ReadyMeansItStarts
<1>2. ReadyMeansItStarts /\ [Next]_vars => ReadyMeansItStarts'
  <2> SUFFICES ASSUME ReadyMeansItStarts, [Next]_vars
               PROVE  ReadyMeansItStarts'
    OBVIOUS
  <2>1. CASE Launch
    <3>1. refused' = {} \/ \E s \in Setups : ~Starts(s) /\ refused' = {s}
      BY <2>1 DEF Launch
    <3> QED
      BY <3>1, ReadyPasses DEF ReadyMeansItStarts
  <2>2. CASE ~Launch
    <3>1. refused' = refused
      BY <2>2 DEF Next, vars, settings, StartFails, Activate, Degrade, ProbeSucceeds,
        KillReplaced, Deliver, Handle, CheckHandled, CheckProcessed, Transmit, SendRejects, MarkProcessed, Stop, StopSupervisor, Exit, Crash
    <3> QED
      BY <3>1 DEF ReadyMeansItStarts
  <2> QED
    BY <2>1, <2>2
<1> QED
  BY <1>1, <1>2, PTL DEF Spec
=============================================================================
