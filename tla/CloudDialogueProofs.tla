------------------------- MODULE CloudDialogueProofs -------------------------
(***************************************************************************)
(* Where the answers of CloudRuntime come from and how often they are      *)
(* replied to, whatever fails; and what is promised of a dialogue as long  *)
(* as no statement fails: everything is logged, a completed questionnaire  *)
(* becomes a practice, and the legal issue of a practice is a message of   *)
(* its own.                                                                *)
(***************************************************************************)
EXTENDS CloudRuntimeProofs

-----------------------------------------------------------------------------
(* Whose the answers are *)

(* Every answer among fields is a message of client s.                     *)
OwnedBy(s, fields) == \A f \in FieldNames : fields[f] \in Messages => Sender[fields[f]] = s

(* A handler at one of these labels holds a record to write.               *)
HoldsRecord == Gated \ {"intake"}

(* The record a handler is writing is owned by the author of its message.  *)
WritesOwn(r) == r.pc \in HoldsRecord => OwnedBy(Sender[Head(r.queue)], r.next.fields)

(* The inductive strengthening of PracticesAreOwn.                         *)
OwnInv ==
  /\ PracticesAreOwn
  /\ \A s \in Subjects : OwnedBy(s, intake[s].fields)
  /\ \A h \in Handlers : WritesOwn(handler[h])

(* An answer adds to a questionnaire its own message or none.              *)
LEMMA NextRecordsOwned ==
  ASSUME NEW V, Absent \in V, NoFiles \in V, NEW file \in Files(V), NEW c \in Contents,
         NEW m \in V, NEW justGranted \in BOOLEAN,
         NEW next \in NextRecords(file, c, justGranted, m), NEW f \in FieldNames
  PROVE  next.fields[f] \in {file.fields[f], m, NoFiles}
<1> USE DEF Files
<1>1. ExtractIdentity(file.fields, c, m)[f] \in {file.fields[f], m}
  BY DEF ExtractIdentity
<1>2. ASSUME next \in AnswerIdentity(file, c, m)
      PROVE  next.fields = ExtractIdentity(file.fields, c, m)
  BY <1>2 DEF AnswerIdentity
<1>3. ASSUME next \in AnswerAttachments(file, c, m)
      PROVE  next.fields[f] \in {file.fields[f], m, NoFiles}
  BY <1>3 DEF AnswerAttachments
<1>4. ASSUME next \in AnswerProblemSummary(file, c, m)
      PROVE  next.fields[f] \in {file.fields[f], m}
  BY <1>4 DEF AnswerProblemSummary
<1>5. ASSUME NEW s \in IntakeStates, next = [file EXCEPT !.state = s]
      PROVE  next.fields[f] = file.fields[f]
  BY <1>5
<1>6. {"asking_problem_summary", "asking_identity"} \subseteq IntakeStates
  BY DEF IntakeStates
<1> QED
  BY <1>1, <1>2, <1>3, <1>4, <1>5, <1>6 DEF NextRecords

(* A handler's step writes nothing of another's, so it suffices to look at *)
(* its own record.                                                         *)
LEMMA OwnStep ==
  ASSUME IndInv, OwnInv, NEW h \in Handlers,
         \A g \in Handlers : g # h => handler'[g] = handler[g],
         WritesOwn(handler'[h])
  PROVE  \A g \in Handlers : WritesOwn(handler'[g])
BY DEF OwnInv

(* When nothing is written, only the records handlers hold matter.         *)
LEMMA OwnKept ==
  ASSUME OwnInv, UNCHANGED <<intake, practices>>,
         \A g \in Handlers : WritesOwn(handler'[g])
  PROVE  OwnInv'
BY DEF OwnInv, PracticesAreOwn, WritesOwn, OwnedBy

(* The start database holds no answer of a message still to come.          *)
LEMMA OwnInitially == Init => OwnInv
<1> SUFFICES ASSUME Init PROVE OwnInv
  OBVIOUS
<1>1. \A s \in Subjects : OwnedBy(s, intake[s].fields)
  BY StartAssumption DEF Init, StartAssumption, OwnedBy
<1>2. \A h \in Handlers : WritesOwn(handler[h])
  BY DEF Init, Idle, WritesOwn, HoldsRecord, Gated
<1> QED
  BY <1>1, <1>2 DEF Init, OwnInv, PracticesAreOwn

(* A handler at work on a client's record.                                 *)
LEMMA Holding ==
  ASSUME IndInv, OwnInv, NEW h \in Handlers, handler[h].pc \in Gated
  PROVE  /\ handler[h] \in HandlerStates /\ handler[h].queue # <<>>
         /\ Msg(h) \in Messages /\ content[Msg(h)] \in Contents /\ Subject(h) \in Subjects
         /\ FileOf(h) \in Files(Values)
         /\ OwnedBy(Subject(h), FileOf(h).fields)
         /\ handler[h].pc \in HoldsRecord => OwnedBy(Subject(h), handler[h].next.fields)
<1>1. handler[h].queue # <<>> /\ Subject(h) \in Subjects
  BY DEF IndInv, HandlersSound, Sound, Client, Gated, Subject, Msg
<1>2. FileOf(h) \in Files(Values) /\ OwnedBy(Subject(h), FileOf(h).fields)
  BY <1>1 DEF IndInv, TypeOK, OwnInv, FileOf
<1>3. handler[h].pc \in HoldsRecord => OwnedBy(Subject(h), handler[h].next.fields)
  BY DEF OwnInv, WritesOwn, Subject, Msg
<1> QED
  BY <1>1, <1>2, <1>3, AtWork

(* The record ResolveIntake decides on is the client's own.                *)
LEMMA OwnResolve ==
  ASSUME IndInv, OwnInv, NEW h \in Handlers, ResolveIntake(h)
  PROVE  WritesOwn(handler'[h])
<1> DEFINE records == NextRecords(FileOf(h), content[Msg(h)], handler[h].justGranted, Msg(h))
           quit == [handler[h] EXCEPT !.pc = "dispatch", !.justGranted = FALSE,
                                      !.next = EmptyFile, !.left = {}]
           writing(next) ==
             [handler[h] EXCEPT
                !.pc = IF next.state # FileOf(h).state THEN "state"
                       ELSE AfterWriting(next, Changed(FileOf(h), next)),
                !.next = next, !.left = Changed(FileOf(h), next)]
<1>1. /\ handler[h] \in HandlerStates /\ Msg(h) \in Messages /\ content[Msg(h)] \in Contents
      /\ FileOf(h) \in Files(Values) /\ OwnedBy(Subject(h), FileOf(h).fields)
  BY Holding DEF ResolveIntake, At, Gated
<1>2. PICK r : /\ r = quit \/ \E next \in records : r = writing(next)
               /\ handler' = [handler EXCEPT ![h] = r]
  BY DEF ResolveIntake, GotoDispatch
<1>3. CASE r = quit
  BY <1>1, <1>2, <1>3 DEF WritesOwn, HoldsRecord, Gated, HandlerStates, IndInv, TypeOK
<1>4. ASSUME NEW next \in records, r = writing(next)
      PROVE  WritesOwn(handler'[h])
  <2>1. handler[h].justGranted \in BOOLEAN /\ Msg(h) \in Values
    BY <1>1, Constants DEF HandlerStates
  <2>2. \A f \in FieldNames : next.fields[f] \in {FileOf(h).fields[f], Msg(h), NoFiles}
    BY <1>1, <2>1, Constants, NextRecordsOwned
  <2>3. OwnedBy(Subject(h), next.fields)
    BY <1>1, <2>2, WorldAssumption DEF WorldAssumption, OwnedBy, Subject
  <2>4. r.queue = handler[h].queue /\ r.next = next
    BY <1>1, <1>4 DEF HandlerStates
  <2>5. handler'[h] = r
    BY <1>2 DEF IndInv, TypeOK
  <2> QED
    BY <2>3, <2>4, <2>5 DEF WritesOwn, Subject, Msg
<1> QED
  BY <1>2, <1>3, <1>4

(* A field is written with an answer of its client.                        *)
LEMMA OwnField ==
  ASSUME IndInv, OwnInv, NEW h \in Handlers, SetIntakeField(h)
  PROVE  \A s \in Subjects : OwnedBy(s, intake'[s].fields)
<1>1. /\ handler[h] \in HandlerStates /\ Subject(h) \in Subjects
      /\ OwnedBy(Subject(h), handler[h].next.fields)
  BY Holding DEF SetIntakeField, At, Gated, HoldsRecord
<1>2. FirstLeft(h) \in FieldNames
  BY <1>1, FirstLeftType
     DEF SetIntakeField, At, IndInv, HandlersSound, Sound, HandlerStates
<1>3. ASSUME NEW s \in Subjects, NEW f \in FieldNames
      PROVE  \/ intake'[s].fields[f] = intake[s].fields[f]
             \/ s = Subject(h) /\ intake'[s].fields[f] = handler[h].next.fields[f]
  <2>1. intake[s] \in Files(Values)
    BY DEF IndInv, TypeOK
  <2>2. CASE s # Subject(h)
    BY <2>2 DEF SetIntakeField, IndInv, TypeOK
  <2>3. CASE s = Subject(h)
    <3>1. intake'[s].fields =
            [intake[s].fields EXCEPT ![FirstLeft(h)] = handler[h].next.fields[FirstLeft(h)]]
      BY <1>1, <2>1, <2>3 DEF SetIntakeField, IndInv, TypeOK, Files
    <3> QED
      BY <1>2, <2>1, <2>3, <3>1 DEF Files
  <2> QED
    BY <2>2, <2>3
<1> QED
  BY <1>1, <1>3 DEF OwnInv, OwnedBy

(* A practice takes the client's file as it is, once it is complete.       *)
LEMMA OwnPractice ==
  ASSUME IndInv, OwnInv, NEW h \in Handlers, CreatePractice(h)
  PROVE  PracticesAreOwn'
<1>1. /\ Msg(h) \in Messages /\ Subject(h) \in Subjects
      /\ OwnedBy(Subject(h), FileOf(h).fields)
  BY Holding DEF CreatePractice, At, Gated
<1>2. CASE UNCHANGED practiceT
  BY <1>2 DEF practiceT, OwnInv, PracticesAreOwn
<1>3. CASE CanCreatePractice(h) /\ practices' = practices \cup {NewPractice(h, NextCode)}
  <2> DEFINE p == NewPractice(h, NextCode)
  <2>1. /\ p.source = Msg(h) /\ p.subject = Subject(h) /\ p.fields = FileOf(h).fields
    BY DEF NewPractice
  <2>2. \A f \in IdentityFields \cup {"problemSummary"} : p.fields[f] # Absent
    BY <1>3, <2>1 DEF CanCreatePractice, ReadyForPractice
  <2>3. \A f \in FieldNames : p.fields[f] \in Messages => Sender[p.fields[f]] = p.subject
    BY <1>1, <2>1 DEF OwnedBy
  <2>4. Sender[p.source] = p.subject
    BY <2>1 DEF Subject
  <2>5. practices' = practices \cup {p}
    BY <1>3
  <2> HIDE DEF p
  <2> QED
    BY <1>1, <2>1, <2>2, <2>3, <2>4, <2>5 DEF OwnInv, PracticesAreOwn
<1> QED
  BY <1>2, <1>3 DEF CreatePractice

(* The steps that write neither a questionnaire nor a practice keep the    *)
(* record of a handler, or let go of it.                                   *)
LEMMA OwnStill ==
  ASSUME IndInv, OwnInv, NEW h \in Handlers,
         \/ Acknowledge(h) \/ SkipDuplicate(h) \/ RejectBlank(h) \/ Route(h)
         \/ ResolveConsent(h) \/ AppendConsentEvent(h)
         \/ AppendStateEvent(h) \/ AppendFieldEvent(h) \/ RefusePractice(h)
         \/ DispatchReply(h) \/ MarkProcessed(h)
         \/ GiveUp(h) \/ DispatchFails(h) \/ PersistenceFails(h)
         \/ \E w \in Webhooks : Deliver(h, w)
  PROVE  OwnInv'
<1> USE DEF At, Goto, Abort, intakeT, practiceT
<1>1. WritesOwn(handler[h]) /\ handler \in [Handlers -> HandlerStates]
  BY DEF OwnInv, IndInv, TypeOK
<1>2. \A g \in Handlers : g # h => handler'[g] = handler[g]
  BY <1>1 DEF Acknowledge, SkipDuplicate, RejectBlank, Route, ResolveConsent,
     AppendConsentEvent, AppendStateEvent, AppendFieldEvent, RefusePractice, DispatchReply,
     MarkProcessed, GiveUp, DispatchFails, PersistenceFails, Deliver
<1>3. UNCHANGED <<intake, practices>>
  BY DEF Acknowledge, SkipDuplicate, RejectBlank, Route, ResolveConsent,
     AppendConsentEvent, AppendStateEvent, AppendFieldEvent, RefusePractice, DispatchReply,
     MarkProcessed, GiveUp, DispatchFails, PersistenceFails, Deliver
<1>4. CASE AppendStateEvent(h) \/ AppendFieldEvent(h)
  <2>1. /\ handler'[h].queue = handler[h].queue /\ handler'[h].next = handler[h].next
        /\ handler[h].pc \in HoldsRecord
    <3>1. handler[h] \in HandlerStates
      BY <1>1
    <3>2. CASE AppendStateEvent(h)
      BY <1>1, <3>1, <3>2 DEF AppendStateEvent, HoldsRecord, Gated, HandlerStates
    <3>3. CASE AppendFieldEvent(h)
      BY <1>1, <3>1, <3>3 DEF AppendFieldEvent, HoldsRecord, Gated, HandlerStates
    <3> QED
      BY <1>4, <3>2, <3>3
  <2>2. WritesOwn(handler'[h])
    BY <1>1, <2>1 DEF WritesOwn
  <2> QED
    BY <1>2, <1>3, <2>2, OwnStep, OwnKept
<1>5. CASE ~ (AppendStateEvent(h) \/ AppendFieldEvent(h))
  <2>1. handler'[h].pc \notin HoldsRecord
    <3> USE DEF HoldsRecord, Gated, HandlerStates
    <3>1. handler[h] \in HandlerStates /\ handler \in [Handlers -> HandlerStates]
      BY <1>1
    <3>2. CASE \/ Acknowledge(h) \/ RejectBlank(h) \/ RefusePractice(h)
               \/ DispatchFails(h) \/ PersistenceFails(h)
      BY <3>1, <3>2 DEF Idle, Acknowledge, RejectBlank, RefusePractice, DispatchFails, PersistenceFails
    <3>3. CASE SkipDuplicate(h)
      BY <3>3, <3>1 DEF SkipDuplicate
    <3>10. CASE MarkProcessed(h)
      BY <3>1, <3>10 DEF MarkProcessed, Idle
    <3>4. CASE DispatchReply(h)
      BY <3>4, <3>1 DEF DispatchReply
    <3>5. CASE GiveUp(h)
      BY <3>1, <3>5 DEF GiveUp
    <3>6. ASSUME NEW w \in Webhooks, Deliver(h, w)
          PROVE  handler'[h].pc = "accept"
      BY <3>6, <3>1 DEF Deliver
    <3>7. CASE Route(h)
      BY <3>1, <3>7 DEF Route
    <3>8. CASE ResolveConsent(h)
      BY <3>1, <3>8 DEF ResolveConsent, AfterConsent
    <3>9. CASE AppendConsentEvent(h)
      BY <3>1, <3>9 DEF AppendConsentEvent
    <3> QED
      BY <1>5, <3>2, <3>3, <3>4, <3>5, <3>6, <3>7, <3>8, <3>9, <3>10
  <2>2. WritesOwn(handler'[h])
    BY <2>1 DEF WritesOwn
  <2> QED
    BY <1>2, <1>3, <2>2, OwnStep, OwnKept
<1> QED
  BY <1>4, <1>5

(* No step puts one client's answer into the file of another.              *)
LEMMA OwnNext ==
  ASSUME IndInv, OwnInv, [Next]_vars
  PROVE  OwnInv'
<1>1. ASSUME NEW h \in Handlers, ResolveIntake(h)
      PROVE  OwnInv'
  <2>1. UNCHANGED <<intake, practices>> /\ \A g \in Handlers : g # h => handler'[g] = handler[g]
    BY <1>1, IntakeEffect DEF ResolveIntake, intakeT, practiceT, IndInv, TypeOK
  <2> QED
    BY <1>1, <2>1, OwnResolve, OwnStep, OwnKept
<1>2. ASSUME NEW h \in Handlers, SetIntakeState(h) \/ SetIntakeField(h)
      PROVE  OwnInv'
  <2>1. /\ handler[h].pc \in HoldsRecord /\ handler'[h].queue = handler[h].queue
        /\ handler'[h].next = handler[h].next
        /\ \A g \in Handlers : g # h => handler'[g] = handler[g]
    BY <1>2 DEF SetIntakeState, SetIntakeField, At, Goto, HoldsRecord, Gated,
       IndInv, TypeOK, HandlerStates
  <2>2. \A g \in Handlers : WritesOwn(handler'[g])
    BY <2>1, OwnStep DEF OwnInv, WritesOwn
  <2>3. \A s \in Subjects : OwnedBy(s, intake'[s].fields)
    <3>1. CASE SetIntakeState(h)
      BY <3>1 DEF SetIntakeState, OwnInv, IndInv, TypeOK, Files
    <3>2. CASE SetIntakeField(h)
      BY <3>2, OwnField
    <3> QED
      BY <1>2, <3>1, <3>2
  <2>4. UNCHANGED practices
    BY <1>2 DEF SetIntakeState, SetIntakeField, practiceT
  <2> QED
    BY <2>2, <2>3, <2>4 DEF OwnInv, PracticesAreOwn, WritesOwn, OwnedBy
<1>3. ASSUME NEW h \in Handlers, CreatePractice(h)
      PROVE  OwnInv'
  <2>1. /\ handler'[h].pc \notin HoldsRecord
        /\ \A g \in Handlers : g # h => handler'[g] = handler[g]
        /\ UNCHANGED intake
    BY <1>3 DEF CreatePractice, GotoDispatch, HoldsRecord, Gated, intakeT,
       IndInv, TypeOK, HandlerStates
  <2>2. \A g \in Handlers : WritesOwn(handler'[g])
    BY <2>1, OwnStep DEF WritesOwn
  <2> QED
    BY <1>3, <2>1, <2>2, OwnPractice DEF OwnInv, WritesOwn, OwnedBy
<1>4. CASE Send \/ Crash \/ UNCHANGED vars
  <2>1. /\ UNCHANGED <<intake, practices>>
        /\ UNCHANGED handler \/ \A g \in Handlers : handler'[g] = Idle
    BY <1>4 DEF Send, Crash, vars, intakeT, practiceT
  <2>2. WritesOwn(Idle)
    BY DEF WritesOwn, Idle, HoldsRecord, Gated
  <2> QED
    BY <2>1, <2>2, OwnKept DEF OwnInv
<1> QED
  BY <1>1, <1>2, <1>3, <1>4, OwnStill DEF Next, Step

(* Whatever fails, and whatever deliveries overlap, a practice holds the   *)
(* complete facts of its own client, and nothing another client wrote      *)
(* (practiceCreationService.ts checks that the facts are there, not whose  *)
(* they are: that follows from how they were written).                     *)
THEOREM PracticesOwn == Spec => []PracticesAreOwn
<1>1. OwnInv => PracticesAreOwn
  BY DEF OwnInv
<1> QED
  BY IndInit, IndNext, OwnInitially, OwnNext, <1>1, PTL DEF Spec

-----------------------------------------------------------------------------
(* How often a message is answered *)

(* A handler in state r works for a webhook still waiting for it, and on a *)
(* message of that webhook that is not processed.                          *)
Engaged(r) ==
  r.pc # "idle" =>
    /\ r.hook \in Webhooks /\ r.queue \in Seq(Messages)
    /\ \A j \in DOMAIN r.queue : \E i \in DOMAIN Batches[r.hook] : r.queue[j] = Batches[r.hook][i]

Unprocessed(r, done) == r.pc \notin {"idle", "accept"} => Head(r.queue) \notin done

(* While Meta gives nothing up, no two handlers share a webhook, and so no *)
(* two of them work on the same message.                                   *)
AloneInv ==
  timeouts = 0 =>
    /\ \A h \in Handlers : Engaged(handler[h]) /\ Unprocessed(handler[h], processed)
    /\ \A g, h \in Handlers :
         g # h /\ handler[g].pc # "idle" /\ handler[h].pc # "idle"
           => handler[g].hook # handler[h].hook

(* Two handlers at work on a message work on different ones.               *)
LEMMA DistinctMessages ==
  ASSUME IndInv, AloneInv, timeouts = 0, NEW g \in Handlers, NEW h \in Handlers, g # h,
         handler[g].pc \notin {"idle", "accept"}, handler[h].pc \notin {"idle", "accept"}
  PROVE  Msg(g) # Msg(h)
<1>1. handler[g].queue # <<>> /\ handler[h].queue # <<>>
  BY DEF IndInv, HandlersSound, Sound
<1>2. ASSUME NEW k \in Handlers, k \in {g, h}
      PROVE  /\ handler[k].hook \in Webhooks
             /\ \E i \in DOMAIN Batches[handler[k].hook] : Msg(k) = Batches[handler[k].hook][i]
  <2>1. Engaged(handler[k]) /\ handler[k].pc # "idle" /\ handler[k].queue # <<>>
    BY <1>1, <1>2 DEF AloneInv
  <2>2. handler[k].queue \in Seq(Messages)
    BY <2>1 DEF Engaged
  <2>3. Msg(k) = handler[k].queue[1] /\ 1 \in DOMAIN handler[k].queue
    BY <2>1, <2>2, HeadTailProperties, LenProperties, EmptySeq DEF Msg
  <2> QED
    BY <2>1, <2>3 DEF Engaged
<1>3. handler[g].hook # handler[h].hook
  BY DEF AloneInv
<1> QED
  BY <1>2, <1>3, WebhookAssumption DEF WebhookAssumption

(* A handler that keeps or leaves its webhook shares it with nobody.       *)
LEMMA AloneStep ==
  ASSUME AloneInv, timeouts = 0, NEW h \in Handlers,
         \A g \in Handlers : g # h => handler'[g] = handler[g],
         \A g \in Handlers : g # h => Unprocessed(handler[g], processed'),
         handler'[h].pc = "idle" \/ (handler[h].pc # "idle" /\ handler'[h].hook = handler[h].hook),
         Engaged(handler'[h]), Unprocessed(handler'[h], processed')
  PROVE  AloneInv'
<1>1. \A g \in Handlers : Engaged(handler'[g]) /\ Unprocessed(handler'[g], processed')
  BY DEF AloneInv
<1>2. \A g, k \in Handlers :
        g # k /\ handler'[g].pc # "idle" /\ handler'[k].pc # "idle"
          => handler'[g].hook # handler'[k].hook
  BY DEF AloneInv
<1> QED
  BY <1>1, <1>2 DEF AloneInv, Engaged, Unprocessed

(* Dropping the first message leaves only messages of the webhook.         *)
LEMMA TailEngaged ==
  ASSUME NEW q \in Seq(Messages), q # <<>>, NEW w,
         \A j \in DOMAIN q : \E i \in DOMAIN Batches[w] : q[j] = Batches[w][i]
  PROVE  /\ Tail(q) \in Seq(Messages)
         /\ \A j \in DOMAIN Tail(q) : \E i \in DOMAIN Batches[w] : Tail(q)[j] = Batches[w][i]
<1>1. Tail(q) \in Seq(Messages) /\ Len(Tail(q)) = Len(q) - 1 /\ Len(q) \in Nat
  BY HeadTailProperties, LenProperties
<1>2. \A j \in DOMAIN Tail(q) : j + 1 \in DOMAIN q /\ Tail(q)[j] = q[j + 1]
  BY <1>1, HeadTailProperties, LenProperties
<1> QED
  BY <1>1, <1>2

(* While it works on a message, a handler holds on to its webhook too, and *)
(* it begins none that is processed.                                       *)
LEMMA EngagedStep ==
  ASSUME IndInv, NEW h \in Handlers,
         \/ Route(h) \/ ResolveConsent(h) \/ AppendConsentEvent(h)
         \/ ResolveIntake(h) \/ SetIntakeState(h) \/ AppendStateEvent(h)
         \/ SetIntakeField(h) \/ AppendFieldEvent(h) \/ CreatePractice(h) \/ DispatchReply(h)
  PROVE  /\ \A g \in Handlers : g # h => handler'[g] = handler[g]
         /\ handler'[h].hook = handler[h].hook /\ handler'[h].queue = handler[h].queue
         /\ handler[h].pc = "accept" => Msg(h) \notin processed
         /\ handler[h].pc # "idle" /\ UNCHANGED processed
<1> USE DEF At, Goto, GotoDispatch
<1>1. handler \in [Handlers -> HandlerStates] /\ handler[h] \in HandlerStates
  BY DEF IndInv, TypeOK
<1>2. CASE Route(h)
  BY <1>1, <1>2 DEF Route, Fresh, HandlerStates
<1>3. CASE ResolveConsent(h)
  BY <1>1, <1>3 DEF ResolveConsent, HandlerStates
<1>4. CASE AppendConsentEvent(h)
  BY <1>1, <1>4 DEF AppendConsentEvent, HandlerStates
<1>5. CASE ResolveIntake(h)
  BY <1>1, <1>5, IntakeEffect DEF ResolveIntake
<1>6. CASE SetIntakeState(h)
  BY <1>1, <1>6 DEF SetIntakeState, HandlerStates
<1>7. CASE AppendStateEvent(h)
  BY <1>1, <1>7 DEF AppendStateEvent, HandlerStates
<1>8. CASE SetIntakeField(h)
  BY <1>1, <1>8 DEF SetIntakeField, HandlerStates
<1>9. CASE AppendFieldEvent(h)
  BY <1>1, <1>9 DEF AppendFieldEvent, HandlerStates
<1>10. CASE CreatePractice(h)
  BY <1>1, <1>10 DEF CreatePractice, HandlerStates
<1>11. CASE DispatchReply(h)
  BY <1>1, <1>11 DEF DispatchReply, HandlerStates
<1> QED
  BY <1>2, <1>3, <1>4, <1>5, <1>6, <1>7, <1>8, <1>9, <1>10, <1>11

(* Only GiveUp counts a timeout, and none is taken back.                   *)
LEMMA TimeoutsGrow ==
  ASSUME IndInv, [Next]_vars
  PROVE  timeouts' = timeouts \/ timeouts' > 0
<1>1. ASSUME NEW h \in Handlers, GiveUp(h)
      PROVE  timeouts' > 0
  BY <1>1, WorldAssumption DEF GiveUp, IndInv, TypeOK, WorldAssumption
<1>2. Send \/ Crash \/ UNCHANGED vars => UNCHANGED timeouts
  BY DEF Send, Crash, vars, budget
<1>3. ASSUME NEW h \in Handlers
      PROVE  DispatchFails(h) \/ PersistenceFails(h) \/ (\E w \in Webhooks : Deliver(h, w)) => UNCHANGED timeouts
  BY DEF DispatchFails, PersistenceFails, Deliver, budget
<1>4. ASSUME NEW h \in Handlers, Step(h)
      PROVE  UNCHANGED timeouts
  BY <1>4 DEF Step, budget, Acknowledge, SkipDuplicate, RejectBlank, Route, ResolveConsent,
     AppendConsentEvent, ResolveIntake, SetIntakeState, AppendStateEvent, SetIntakeField,
     AppendFieldEvent, CreatePractice, RefusePractice, DispatchReply, MarkProcessed
<1> QED
  BY <1>1, <1>2, <1>3, <1>4 DEF Next

(* No step makes two handlers work for the same webhook.                   *)
LEMMA AloneNext ==
  ASSUME IndInv, AloneInv, [Next]_vars
  PROVE  AloneInv'
<1> SUFFICES ASSUME timeouts' = 0 PROVE AloneInv'
  BY DEF AloneInv
<1> USE DEF At
<1>1. timeouts = 0
  BY TimeoutsGrow
<1>2. ASSUME NEW h \in Handlers
      PROVE  /\ handler \in [Handlers -> HandlerStates] /\ handler[h] \in HandlerStates
             /\ Engaged(handler[h]) /\ Unprocessed(handler[h], processed)
             /\ handler[h].pc \notin {"idle", "accept"} => handler[h].queue # <<>>
  BY <1>1 DEF IndInv, TypeOK, AloneInv, HandlersSound, Sound
<1>3. Engaged(Idle) /\ Unprocessed(Idle, processed')
  BY DEF Engaged, Unprocessed, Idle
<1>4. CASE Send \/ UNCHANGED vars
  <2>1. UNCHANGED <<handler, processed, timeouts>>
    BY <1>4 DEF Send, vars, budget
  <2> QED
    BY <1>1, <2>1 DEF AloneInv, Engaged, Unprocessed
<1>5. CASE Crash
  BY <1>3, <1>5 DEF Crash, AloneInv, Idle, Engaged, Unprocessed
<1>6. ASSUME NEW h \in Handlers, NEW w \in Webhooks, Deliver(h, w)
      PROVE  AloneInv'
  <2>1. \A g \in Handlers : g # h => handler'[g] = handler[g] /\ handler[g].hook # w
    BY <1>2, <1>6 DEF Deliver
  <2>2. /\ handler'[h].pc = "accept" /\ handler'[h].hook = w
        /\ handler'[h].queue = Batches[w]
    BY <1>2, <1>6 DEF Deliver, HandlerStates
  <2>3. Engaged(handler'[h]) /\ Unprocessed(handler'[h], processed')
    BY <2>2, Constants DEF Engaged, Unprocessed
  <2>4. \A g \in Handlers : Engaged(handler'[g]) /\ Unprocessed(handler'[g], processed')
    BY <1>2, <1>6, <2>1, <2>3 DEF Deliver
  <2> QED
    BY <1>1, <2>1, <2>2, <2>4 DEF AloneInv, Engaged, Unprocessed
<1>7. ASSUME NEW h \in Handlers,
             \/ Route(h) \/ ResolveConsent(h) \/ AppendConsentEvent(h)
             \/ ResolveIntake(h) \/ SetIntakeState(h) \/ AppendStateEvent(h)
             \/ SetIntakeField(h) \/ AppendFieldEvent(h) \/ CreatePractice(h) \/ DispatchReply(h)
      PROVE  AloneInv'
  <2>1. /\ \A g \in Handlers : g # h => handler'[g] = handler[g]
        /\ handler'[h].hook = handler[h].hook /\ handler'[h].queue = handler[h].queue
        /\ handler[h].pc = "accept" => Msg(h) \notin processed
        /\ handler[h].pc # "idle" /\ UNCHANGED processed
    BY <1>7, EngagedStep
  <2>2. Engaged(handler'[h]) /\ Unprocessed(handler'[h], processed')
    BY <1>2, <2>1 DEF Engaged, Unprocessed, Msg
  <2> QED
    BY <1>1, <1>2, <2>1, <2>2, AloneStep
<1>8. ASSUME NEW h \in Handlers,
             \/ Acknowledge(h) \/ RejectBlank(h) \/ RefusePractice(h)
             \/ DispatchFails(h) \/ PersistenceFails(h)
      PROVE  AloneInv'
  <2>1. /\ \A g \in Handlers : g # h => handler'[g] = handler[g]
        /\ handler'[h] = Idle /\ UNCHANGED processed
    BY <1>2, <1>8 DEF Acknowledge, RejectBlank, RefusePractice, DispatchFails,
       PersistenceFails, Abort
  <2>2. handler'[h].pc = "idle"
    BY <2>1 DEF Idle
  <2> QED
    BY <1>1, <1>2, <1>3, <2>1, <2>2, AloneStep
<1>9. ASSUME NEW h \in Handlers, SkipDuplicate(h) \/ MarkProcessed(h)
      PROVE  AloneInv'
  <2>1. /\ \A g \in Handlers : g # h => handler'[g] = handler[g]
        /\ handler'[h].hook = handler[h].hook /\ handler'[h].pc = "accept"
        /\ handler'[h].queue = Tail(handler[h].queue)
        /\ handler[h].queue # <<>> /\ handler[h].pc # "idle"
    <3>1. CASE SkipDuplicate(h)
      BY <1>2, <3>1 DEF SkipDuplicate, HandlerStates
    <3>2. CASE MarkProcessed(h)
      BY <1>2, <3>2 DEF MarkProcessed, HandlerStates, Idle
    <3> QED
      BY <1>9, <3>1, <3>2
  <2>2. Engaged(handler'[h])
    BY <1>2, <2>1, TailEngaged DEF Engaged
  <2>3. ASSUME NEW g \in Handlers, g # h
        PROVE  Unprocessed(handler[g], processed')
    <3>1. CASE SkipDuplicate(h)
      BY <1>2, <3>1 DEF SkipDuplicate
    <3>2. CASE MarkProcessed(h)
      BY <1>1, <1>2, <2>3, <3>2, DistinctMessages DEF MarkProcessed, Unprocessed, Msg
    <3> QED
      BY <1>9, <3>1, <3>2
  <2>4. Unprocessed(handler'[h], processed')
    BY <2>1 DEF Unprocessed
  <2> QED
    BY <1>1, <2>1, <2>2, <2>3, <2>4, AloneStep
<1>10. ASSUME NEW h \in Handlers, GiveUp(h)
       PROVE  FALSE
  BY <1>1, <1>10 DEF GiveUp
<1> QED
  BY <1>4, <1>5, <1>6, <1>7, <1>8, <1>9, <1>10 DEF Next, Step

(* At first no handler is at work.                                         *)
LEMMA AloneInitially == Init => AloneInv
BY DEF Init, AloneInv, Engaged, Unprocessed, Idle

(* As long as Meta gives up no delivery, a message found processed is      *)
(* never answered again, whatever fails and however deliveries overlap:    *)
(* wasMessageProcessed is asked before the work on a message and the       *)
(* marker written after it, with the Graph API awaited in between, and no  *)
(* other handler can write that marker meanwhile (whatsappCloudRuntime.ts).*)
THEOREM NotAnsweredAgain == Spec => ProcessedIsNotAnsweredAgain
<1> DEFINE NoSecond == \A m \in processed : replies'[m] # replies[m] => timeouts > 0
<1>1. ASSUME IndInv, AloneInv, [Next]_vars PROVE NoSecond
  <2>1. ASSUME NEW h \in Handlers, DispatchReply(h) \/ DispatchFails(h),
               NEW m \in processed, replies'[m] # replies[m]
        PROVE  timeouts > 0
    <3>1. m = Msg(h)
      BY <1>1, <2>1 DEF DispatchReply, DispatchFails, IndInv, TypeOK
    <3>2. timeouts # 0
      BY <1>1, <2>1, <3>1 DEF DispatchReply, DispatchFails, At, AloneInv, Unprocessed, Msg
    <3> QED
      BY <1>1, <3>2, WorldAssumption DEF IndInv, TypeOK, WorldAssumption
  <2>2. CASE UNCHANGED replies
    BY <2>2
  <2> QED
    BY <1>1, <2>1, <2>2
       DEF Next, Step, vars, Send, Deliver, GiveUp, Acknowledge, SkipDuplicate, RejectBlank,
       Route, ResolveConsent, AppendConsentEvent, ResolveIntake, SetIntakeState,
       AppendStateEvent, SetIntakeField, AppendFieldEvent, CreatePractice, RefusePractice,
       MarkProcessed, PersistenceFails, Crash
<1>2. IndInv /\ AloneInv /\ [Next]_vars => [NoSecond]_replies
  BY <1>1
<1> QED
  BY IndInit, IndNext, AloneNext, AloneInitially, <1>2, PTL DEF Spec, ProcessedIsNotAnsweredAgain


-----------------------------------------------------------------------------
(* What is logged *)

(* No statement fails and no process dies; the Graph API may refuse a      *)
(* reply and Meta may give up waiting for an answer.                       *)
StatementsSucceed == Faults \subseteq {"dispatch"}

First(left) == CHOOSE f \in left : \A g \in left : FieldRank[f] <= FieldRank[g]

(* A handler in state r is about to log the consent of client s,           *)
LogsConsent(r, s) == r.pc = "consentEvent" /\ Sender[Head(r.queue)] = s

(* the field f of his that it has just written with an answer in m.        *)
LogsField(r, s, f, m) ==
  r.pc = "fieldEvent" /\ Sender[Head(r.queue)] = s /\ First(r.left) = f /\ Head(r.queue) = m

ConsentLogged(s) ==
  consent[s] \in {"granted", "denied"} /\ StartFiles[s] = EmptyFile =>
    \/ \E e \in consentEvents : e.subject = s /\ e.state = consent[s]
    \/ \E h \in Handlers : LogsConsent(handler[h], s)

FieldLogged(s, f) ==
  intake[s].fields[f] \in Messages =>
    \/ \E e \in intakeEvents : e.subject = s /\ e.kind = f /\ e.source = intake[s].fields[f]
    \/ \E h \in Handlers : LogsField(handler[h], s, f, intake[s].fields[f])

(* What a handler in state r has still to write is its own message or that *)
(* there are no attachments.                                               *)
WritesItsMessage(r) ==
  r.pc \in HoldsRecord => \A f \in r.left : r.next.fields[f] \in {Head(r.queue), NoFiles}

(* The inductive strengthening of LogsAccountForState.                     *)
LogInv ==
  StatementsSucceed =>
    /\ \A s \in Subjects : ConsentLogged(s) /\ \A f \in FieldNames : FieldLogged(s, f)
    /\ \A h \in Handlers : WritesItsMessage(handler[h])

(* The steps of a handler that read or write no consent and no record.     *)
LEMMA Elsewhere ==
  ASSUME IndInv, NEW h \in Handlers,
         \/ Acknowledge(h) \/ SkipDuplicate(h) \/ RejectBlank(h) \/ Route(h)
         \/ CreatePractice(h) \/ RefusePractice(h) \/ DispatchReply(h) \/ MarkProcessed(h)
         \/ GiveUp(h) \/ DispatchFails(h) \/ \E w \in Webhooks : Deliver(h, w)
  PROVE  /\ \A g \in Handlers : g # h => handler'[g] = handler[g]
         /\ handler[h].pc \in {"idle", "accept", "practice", "dispatch", "mark"}
         /\ handler'[h].pc \in {"idle", "accept", "consent", "dispatch", "mark"}
         /\ UNCHANGED <<consent, consentEvents, intake, intakeEvents>>
<1> USE DEF At, Goto, GotoDispatch, Abort, HandlerStates, consentT, intakeT
<1>1. handler \in [Handlers -> HandlerStates] /\ handler[h] \in HandlerStates
  BY DEF IndInv, TypeOK
<1>2. CASE Acknowledge(h)
  BY <1>1, <1>2 DEF Acknowledge, Idle
<1>3. CASE SkipDuplicate(h)
  BY <1>1, <1>3 DEF SkipDuplicate
<1>4. CASE RejectBlank(h)
  BY <1>1, <1>4 DEF RejectBlank, Idle
<1>5. CASE Route(h)
  BY <1>1, <1>5 DEF Route
<1>6. CASE CreatePractice(h)
  BY <1>1, <1>6 DEF CreatePractice
<1>7. CASE RefusePractice(h)
  BY <1>1, <1>7 DEF RefusePractice, Idle
<1>8. CASE DispatchReply(h)
  BY <1>1, <1>8 DEF DispatchReply
<1>9. CASE MarkProcessed(h)
  BY <1>1, <1>9 DEF MarkProcessed
<1>10. CASE GiveUp(h)
  BY <1>1, <1>10 DEF GiveUp
<1>11. CASE DispatchFails(h)
  BY <1>1, <1>11 DEF DispatchFails, Idle
<1>12. ASSUME NEW w \in Webhooks, Deliver(h, w)
       PROVE  /\ \A g \in Handlers : g # h => handler'[g] = handler[g]
              /\ handler[h].pc = "idle" /\ handler'[h].pc = "accept"
              /\ UNCHANGED <<consent, consentEvents, intake, intakeEvents>>
  BY <1>1, <1>12 DEF Deliver
<1> QED
  BY <1>2, <1>3, <1>4, <1>5, <1>6, <1>7, <1>8, <1>9, <1>10, <1>11, <1>12

(* The steps that write a record or log what was written.                  *)
LEMMA Writes ==
  ASSUME IndInv, NEW h \in Handlers,
         \/ SetIntakeState(h) \/ AppendStateEvent(h) \/ SetIntakeField(h) \/ AppendFieldEvent(h)
  PROVE  LET r == handler[h] IN
         /\ \A g \in Handlers : g # h => handler'[g] = handler[g]
         /\ handler'[h].queue = r.queue /\ handler'[h].next = r.next
         /\ handler'[h].left = IF AppendFieldEvent(h) THEN r.left \ {First(r.left)} ELSE r.left
         /\ r.pc \in HoldsRecord /\ r.next \in Files(Values) /\ r.left \subseteq FieldNames
         /\ r.pc \in {"field", "fieldEvent"} => First(r.left) \in r.left
         /\ handler'[h].pc = CASE r.pc = "state" -> "stateEvent"
                               [] r.pc = "field" -> "fieldEvent"
                               [] OTHER -> AfterWriting(r.next, handler'[h].left)
         /\ FirstLeft(h) = First(r.left)
         /\ UNCHANGED <<consent, consentEvents, practices, lastCode, processed>>
<1> USE DEF At, Goto, HandlerStates, HoldsRecord, Gated, consentT, practiceT
<1>1. /\ handler \in [Handlers -> HandlerStates] /\ handler[h] \in HandlerStates
      /\ handler[h].pc \in {"field", "fieldEvent"} => handler[h].left # {}
  BY DEF IndInv, TypeOK, HandlersSound, Sound
<1>2. FirstLeft(h) = First(handler[h].left)
  BY DEF FirstLeft, First
<1>3. handler[h].pc \in {"field", "fieldEvent"} => First(handler[h].left) \in handler[h].left
  BY <1>1, <1>2, FirstLeftType
<1>4. CASE SetIntakeState(h)
  BY <1>1, <1>2, <1>4 DEF SetIntakeState, AppendFieldEvent
<1>5. CASE AppendStateEvent(h)
  BY <1>1, <1>2, <1>5 DEF AppendStateEvent, AppendFieldEvent
<1>6. CASE SetIntakeField(h)
  BY <1>1, <1>2, <1>3, <1>6 DEF SetIntakeField, AppendFieldEvent
<1>7. CASE AppendFieldEvent(h)
  BY <1>1, <1>2, <1>3, <1>7 DEF AppendFieldEvent
<1> QED
  BY <1>4, <1>5, <1>6, <1>7

(* The record a handler decides on is one of those the questionnaire has   *)
(* next, and what is to be written of it are the fields that change.       *)
LEMMA Resolves ==
  ASSUME IndInv, NEW h \in Handlers, ResolveIntake(h)
  PROVE  /\ \A g \in Handlers : g # h => handler'[g] = handler[g]
         /\ handler'[h].queue = handler[h].queue
         /\ UNCHANGED <<consent, consentEvents, intake, intakeEvents, practices, lastCode, processed>>
         /\ handler[h] \in HandlerStates /\ handler[h].pc = "intake"
         /\ Msg(h) \in Messages /\ Subject(h) \in Subjects
         /\ FileOf(h) \in Files(Values) /\ content[Msg(h)] \in Contents
         /\ \/ handler'[h].pc = "dispatch"
            \/ \E next \in NextRecords(FileOf(h), content[Msg(h)], handler[h].justGranted, Msg(h)) :
                 /\ next \in Files(Values)
                 /\ \A f \in FieldNames : next.fields[f] \in {FileOf(h).fields[f], Msg(h), NoFiles}
                 /\ handler'[h].next = next /\ handler'[h].left = Changed(FileOf(h), next)
                 /\ handler'[h].pc = IF next.state # FileOf(h).state THEN "state"
                                     ELSE AfterWriting(next, Changed(FileOf(h), next))
<1> DEFINE records == NextRecords(FileOf(h), content[Msg(h)], handler[h].justGranted, Msg(h))
           writing(next) ==
             [handler[h] EXCEPT
                !.pc = IF next.state # FileOf(h).state THEN "state"
                       ELSE AfterWriting(next, Changed(FileOf(h), next)),
                !.next = next, !.left = Changed(FileOf(h), next)]
<1>1. handler \in [Handlers -> HandlerStates] /\ handler[h] \in HandlerStates
  BY DEF IndInv, TypeOK
<1>2. /\ handler[h].queue # <<>> /\ Subject(h) \in Subjects /\ handler[h].pc = "intake"
  BY DEF ResolveIntake, At, IndInv, HandlersSound, Sound, Client, Gated, Subject, Msg
<1>3. /\ Msg(h) \in Messages /\ Msg(h) \in Values /\ content[Msg(h)] \in Contents
      /\ FileOf(h) \in Files(Values) /\ handler[h].justGranted \in BOOLEAN
  BY <1>1, <1>2, AtWork DEF FileOf, IndInv, TypeOK, HandlerStates
<1>4. UNCHANGED <<consent, consentEvents, intake, intakeEvents, practices, lastCode, processed>>
  BY DEF ResolveIntake, consentT, intakeT, practiceT
<1>5. ASSUME NEW next \in records
      PROVE  /\ next \in Files(Values)
             /\ \A f \in FieldNames : next.fields[f] \in {FileOf(h).fields[f], Msg(h), NoFiles}
  BY <1>3, Constants, NextRecordsType, NextRecordsOwned
<1>6. CASE GotoDispatch(h)
  <2>1. /\ \A g \in Handlers : g # h => handler'[g] = handler[g]
        /\ handler'[h].queue = handler[h].queue /\ handler'[h].pc = "dispatch"
    BY <1>1, <1>6 DEF GotoDispatch, HandlerStates
  <2> QED
    BY <1>1, <1>2, <1>3, <1>4, <2>1
<1>7. ASSUME NEW next \in records, handler' = [handler EXCEPT ![h] = writing(next)]
      PROVE  /\ \A g \in Handlers : g # h => handler'[g] = handler[g]
             /\ handler'[h].queue = handler[h].queue
             /\ handler'[h].next = next /\ handler'[h].left = Changed(FileOf(h), next)
             /\ handler'[h].pc = IF next.state # FileOf(h).state THEN "state"
                                 ELSE AfterWriting(next, Changed(FileOf(h), next))
  BY <1>1, <1>7 DEF HandlerStates
<1>8. GotoDispatch(h) \/ \E next \in records : handler' = [handler EXCEPT ![h] = writing(next)]
  BY DEF ResolveIntake
<1> HIDE DEF records, writing
<1>9. CASE \E next \in records : handler' = [handler EXCEPT ![h] = writing(next)]
  <2>1. PICK next \in records : handler' = [handler EXCEPT ![h] = writing(next)]
    BY <1>9
  <2> QED
    BY <1>1, <1>2, <1>3, <1>4, <1>5, <1>7, <2>1 DEF records
<1> QED
  BY <1>6, <1>8, <1>9

(* A step keeps the logs complete if what it decides or writes is logged   *)
(* or about to be.                                                         *)
LEMMA LogKept ==
  ASSUME LogInv, StatementsSucceed, NEW h \in Handlers,
         \A g \in Handlers : g # h => handler'[g] = handler[g],
         WritesItsMessage(handler'[h]),
         consentEvents \subseteq consentEvents', intakeEvents \subseteq intakeEvents',
         \A s \in Subjects :
           /\ \/ consent'[s] = consent[s] \/ consent'[s] \notin {"granted", "denied"}
              \/ LogsConsent(handler'[h], s)
           /\ LogsConsent(handler[h], s) =>
                \/ LogsConsent(handler'[h], s)
                \/ \E e \in consentEvents' : e.subject = s /\ e.state = consent'[s],
         \A s \in Subjects, f \in FieldNames :
           /\ \/ intake'[s].fields[f] = intake[s].fields[f] \/ intake'[s].fields[f] \notin Messages
              \/ LogsField(handler'[h], s, f, intake'[s].fields[f])
           /\ LogsField(handler[h], s, f, intake[s].fields[f]) =>
                \/ LogsField(handler'[h], s, f, intake'[s].fields[f])
                \/ \E e \in intakeEvents' : e.subject = s /\ e.kind = f /\ e.source = intake'[s].fields[f]
  PROVE  LogInv'
<1> USE DEF LogInv
<1>1. \A g \in Handlers : WritesItsMessage(handler'[g])
  OBVIOUS
<1>2. ASSUME NEW s \in Subjects
      PROVE  ConsentLogged(s)'
  <2> SUFFICES ASSUME consent'[s] \in {"granted", "denied"}, StartFiles[s] = EmptyFile,
                      ~LogsConsent(handler'[h], s)
               PROVE  \/ \E e \in consentEvents' : e.subject = s /\ e.state = consent'[s]
                      \/ \E g \in Handlers : LogsConsent(handler'[g], s)
    BY DEF ConsentLogged, LogsConsent
  <2>1. consent'[s] = consent[s]
    OBVIOUS
  <2>2. \/ \E e \in consentEvents : e.subject = s /\ e.state = consent[s]
        \/ \E g \in Handlers : LogsConsent(handler[g], s)
    BY <2>1 DEF ConsentLogged
  <2> QED
    BY <2>1, <2>2
<1>3. ASSUME NEW s \in Subjects, NEW f \in FieldNames
      PROVE  FieldLogged(s, f)'
  <2> DEFINE v == intake'[s].fields[f]
  <2> SUFFICES ASSUME v \in Messages, ~LogsField(handler'[h], s, f, v)
               PROVE  \/ \E e \in intakeEvents' : e.subject = s /\ e.kind = f /\ e.source = v
                      \/ \E g \in Handlers : LogsField(handler'[g], s, f, v)
    BY DEF FieldLogged, LogsField
  <2>1. v = intake[s].fields[f]
    OBVIOUS
  <2>2. \/ \E e \in intakeEvents : e.subject = s /\ e.kind = f /\ e.source = v
        \/ \E g \in Handlers : LogsField(handler[g], s, f, v)
    BY <2>1 DEF FieldLogged
  <2> QED
    BY <2>1, <2>2
<1> QED
  BY <1>1, <1>2, <1>3 DEF StatementsSucceed

(* Each step of a handler.                                                 *)
LEMMA LogStep ==
  ASSUME IndInv, LogInv, StatementsSucceed, NEW h \in Handlers,
         Step(h) \/ GiveUp(h) \/ DispatchFails(h) \/ \E w \in Webhooks : Deliver(h, w)
  PROVE  LogInv'
<1>1. /\ handler \in [Handlers -> HandlerStates] /\ handler[h] \in HandlerStates
      /\ WritesItsMessage(handler[h]) /\ intake \in [Subjects -> Files(Values)]
  BY DEF IndInv, TypeOK, LogInv
<1>2. CASE \/ Acknowledge(h) \/ SkipDuplicate(h) \/ RejectBlank(h) \/ Route(h)
           \/ CreatePractice(h) \/ RefusePractice(h) \/ DispatchReply(h) \/ MarkProcessed(h)
           \/ GiveUp(h) \/ DispatchFails(h) \/ \E w \in Webhooks : Deliver(h, w)
  <2>1. /\ \A g \in Handlers : g # h => handler'[g] = handler[g]
        /\ handler[h].pc \notin {"consentEvent", "fieldEvent"}
        /\ handler'[h].pc \notin HoldsRecord
        /\ UNCHANGED <<consent, consentEvents, intake, intakeEvents>>
    BY <1>2, Elsewhere DEF HoldsRecord, Gated
  <2> QED
    BY <2>1, LogKept DEF WritesItsMessage, LogsConsent, LogsField
<1>3. CASE ResolveConsent(h)
  <2>1. /\ \A g \in Handlers : g # h => handler'[g] = handler[g]
        /\ handler[h].pc = "consent" /\ handler'[h].queue = handler[h].queue
        /\ handler'[h].pc = AfterConsent(consent[Subject(h)], consent'[Subject(h)])
        /\ \A s \in Subjects : s # Subject(h) => consent'[s] = consent[s]
        /\ UNCHANGED <<consentEvents, intake, intakeEvents>>
    <3>1. Subject(h) \in Subjects
      BY <1>3 DEF ResolveConsent, At, IndInv, HandlersSound, Sound, Client, Subject, Msg
    <3> QED
      BY <1>1, <1>3, <3>1 DEF ResolveConsent, At, Goto, HandlerStates, intakeT, IndInv, TypeOK
  <2>2. handler'[h].pc \notin HoldsRecord
    BY <2>1 DEF AfterConsent, HoldsRecord, Gated
  <2>3. ASSUME NEW s \in Subjects
        PROVE  \/ consent'[s] = consent[s] \/ consent'[s] \notin {"granted", "denied"}
               \/ LogsConsent(handler'[h], s)
    BY <2>1 DEF AfterConsent, LogsConsent, Subject, Msg
  <2> QED
    BY <2>1, <2>2, <2>3, LogKept DEF WritesItsMessage, LogsConsent, LogsField
<1>4. CASE AppendConsentEvent(h)
  <2>1. /\ \A g \in Handlers : g # h => handler'[g] = handler[g]
        /\ handler[h].pc = "consentEvent" /\ handler'[h].pc \in {"intake", "dispatch"}
        /\ consentEvents' = consentEvents \cup
             {[subject |-> Subject(h), state |-> consent[Subject(h)], source |-> Msg(h)]}
        /\ UNCHANGED <<consent, intake, intakeEvents>>
    BY <1>1, <1>4 DEF AppendConsentEvent, At, HandlerStates, intakeT
  <2>2. handler'[h].pc \notin HoldsRecord
    BY <2>1 DEF HoldsRecord, Gated
  <2>3. ASSUME NEW s \in Subjects, LogsConsent(handler[h], s)
        PROVE  \E e \in consentEvents' : e.subject = s /\ e.state = consent'[s]
    <3> DEFINE new == [subject |-> Subject(h), state |-> consent[Subject(h)], source |-> Msg(h)]
    <3>1. Subject(h) = s
      BY <2>3 DEF LogsConsent, Subject, Msg
    <3>2. new.subject = s /\ new.state = consent'[s] /\ new \in consentEvents'
      BY <2>1, <3>1
    <3> QED
      BY <3>2
  <2> QED
    BY <2>1, <2>2, <2>3, LogKept DEF WritesItsMessage, LogsField
<1>5. CASE ResolveIntake(h)
  <2>1. WritesItsMessage(handler'[h])
    <3>1. handler'[h].queue = handler[h].queue
      BY <1>5, Resolves
    <3>2. CASE handler'[h].pc = "dispatch"
      BY <3>2 DEF WritesItsMessage, HoldsRecord, Gated
    <3>3. ASSUME NEW next, handler'[h].next = next, handler'[h].left = Changed(FileOf(h), next),
                 \A f \in FieldNames : next.fields[f] \in {FileOf(h).fields[f], Msg(h), NoFiles}
          PROVE  WritesItsMessage(handler'[h])
      BY <3>1, <3>3 DEF WritesItsMessage, Changed, Msg
    <3> QED
      BY <1>5, <3>2, <3>3, Resolves
  <2>2. /\ \A g \in Handlers : g # h => handler'[g] = handler[g]
        /\ handler[h].pc = "intake" /\ UNCHANGED <<consent, consentEvents, intake, intakeEvents>>
    BY <1>5, Resolves
  <2> QED
    BY <2>1, <2>2, LogKept DEF LogsConsent, LogsField
<1>6. CASE SetIntakeState(h)
  <2>1. /\ \A g \in Handlers : g # h => handler'[g] = handler[g]
        /\ WritesItsMessage(handler'[h]) /\ UNCHANGED <<consent, consentEvents>>
    <3>1. ~AppendFieldEvent(h) /\ handler[h].pc = "state"
      BY <1>6 DEF SetIntakeState, AppendFieldEvent, At
    <3> QED
      BY <1>1, <1>6, <3>1, Writes DEF WritesItsMessage
  <2>2. /\ handler[h].pc = "state" /\ UNCHANGED intakeEvents
        /\ \A s \in Subjects : intake'[s].fields = intake[s].fields
    BY <1>1, <1>6 DEF SetIntakeState, At, Files
  <2> QED
    BY <2>1, <2>2, LogKept DEF LogsConsent, LogsField
<1>7. CASE AppendStateEvent(h)
  <2>1. /\ \A g \in Handlers : g # h => handler'[g] = handler[g]
        /\ WritesItsMessage(handler'[h]) /\ UNCHANGED <<consent, consentEvents>>
    <3>1. ~AppendFieldEvent(h) /\ handler[h].pc = "stateEvent"
      BY <1>7 DEF AppendStateEvent, AppendFieldEvent, At
    <3> QED
      BY <1>1, <1>7, <3>1, Writes DEF WritesItsMessage
  <2>2. /\ handler[h].pc = "stateEvent" /\ UNCHANGED intake /\ intakeEvents \subseteq intakeEvents'
    BY <1>7 DEF AppendStateEvent, AppendIntakeEvent, At
  <2> QED
    BY <2>1, <2>2, LogKept DEF LogsConsent, LogsField
<1>8. CASE SetIntakeField(h)
  <2> DEFINE f == First(handler[h].left)
             v == handler[h].next.fields[f]
  <2>1. /\ \A g \in Handlers : g # h => handler'[g] = handler[g]
        /\ handler'[h].queue = handler[h].queue /\ handler'[h].left = handler[h].left
        /\ handler'[h].next = handler[h].next
        /\ handler[h].pc = "field" /\ handler'[h].pc = "fieldEvent"
        /\ f \in handler[h].left /\ FirstLeft(h) = f /\ f \in FieldNames
        /\ UNCHANGED <<consent, consentEvents>>
    <3>1. ~AppendFieldEvent(h) /\ handler[h].pc = "field"
      BY <1>8 DEF SetIntakeField, AppendFieldEvent, At
    <3> QED
      BY <1>8, <3>1, Writes
  <2>2. WritesItsMessage(handler'[h]) /\ v \in {Msg(h), NoFiles}
    BY <1>1, <2>1 DEF WritesItsMessage, HoldsRecord, Gated, Msg
  <2>3. /\ intake' = [intake EXCEPT ![Subject(h)].fields[f] = v] /\ UNCHANGED intakeEvents
    BY <1>8, <2>1 DEF SetIntakeField
  <2> HIDE DEF v
  <2>4. ASSUME NEW s \in Subjects, NEW e \in FieldNames
        PROVE  \/ intake'[s].fields[e] = intake[s].fields[e]
               \/ s = Subject(h) /\ e = f /\ intake'[s].fields[e] = v
    BY <1>1, <2>3 DEF Files
  <2>5. NoFiles \notin Messages
    BY WorldAssumption DEF WorldAssumption
  <2>6. ASSUME NEW s \in Subjects, NEW e \in FieldNames
        PROVE  \/ intake'[s].fields[e] = intake[s].fields[e] \/ intake'[s].fields[e] \notin Messages
               \/ LogsField(handler'[h], s, e, intake'[s].fields[e])
    BY <2>1, <2>2, <2>4, <2>5 DEF LogsField, Subject, Msg
  <2> QED
    BY <2>1, <2>2, <2>3, <2>6, LogKept DEF LogsConsent, LogsField
<1>9. CASE AppendFieldEvent(h)
  <2> DEFINE f == First(handler[h].left)
             new == [subject |-> Subject(h), kind |-> f, state |-> handler[h].next.state, source |-> Msg(h)]
  <2>1. /\ \A g \in Handlers : g # h => handler'[g] = handler[g]
        /\ handler'[h].queue = handler[h].queue /\ handler'[h].next = handler[h].next
        /\ handler'[h].left = handler[h].left \ {f} /\ FirstLeft(h) = f
        /\ handler[h].pc \in HoldsRecord
        /\ UNCHANGED <<consent, consentEvents>>
    BY <1>9, Writes
  <2>2. WritesItsMessage(handler'[h])
    BY <1>1, <2>1 DEF WritesItsMessage
  <2>3. handler[h].pc = "fieldEvent" /\ intakeEvents' = intakeEvents \cup {new} /\ UNCHANGED intake
    BY <1>9, <2>1 DEF AppendFieldEvent, AppendIntakeEvent, At
  <2>4. ASSUME NEW s \in Subjects, NEW e \in FieldNames, LogsField(handler[h], s, e, intake[s].fields[e])
        PROVE  \E n \in intakeEvents' : n.subject = s /\ n.kind = e /\ n.source = intake'[s].fields[e]
    <3>1. Subject(h) = s /\ f = e /\ Msg(h) = intake'[s].fields[e]
      BY <2>3, <2>4 DEF LogsField, Subject, Msg
    <3>2. new.subject = s /\ new.kind = e /\ new.source = intake'[s].fields[e] /\ new \in intakeEvents'
      BY <2>3, <3>1
    <3> QED
      BY <3>2
  <2> QED
    BY <2>1, <2>2, <2>3, <2>4, LogKept DEF LogsConsent
<1> QED
  BY <1>2, <1>3, <1>4, <1>5, <1>6, <1>7, <1>8, <1>9 DEF Step

(* Nothing else happens to a handler while statements succeed.             *)
LEMMA NothingLost ==
  ASSUME StatementsSucceed
  PROVE  ~Crash /\ \A h \in Handlers : ~PersistenceFails(h)
BY DEF StatementsSucceed, Crash, PersistenceFails, Fault

(* No step leaves a decision or an answer without its event.               *)
LEMMA LogNext ==
  ASSUME IndInv, LogInv, [Next]_vars
  PROVE  LogInv'
<1> SUFFICES ASSUME StatementsSucceed PROVE LogInv'
  BY DEF LogInv, StatementsSucceed
<1>1. CASE Send \/ UNCHANGED vars
  <2>1. UNCHANGED <<consent, consentEvents, intake, intakeEvents, handler>>
    BY <1>1 DEF Send, vars, consentT, intakeT
  <2> QED
    BY <2>1 DEF LogInv, ConsentLogged, FieldLogged, LogsConsent, LogsField, WritesItsMessage
<1> QED
  BY <1>1, LogStep, NothingLost DEF Next

(* At first no decision and no answer comes from a message.                *)
LEMMA LogInitially == Init => LogInv
BY StartAssumption DEF Init, LogInv, ConsentLogged, FieldLogged, WritesItsMessage, Idle,
   HoldsRecord, Gated, StartAssumption, EmptyFile

(* As long as no statement fails, every consent decision and every answer  *)
(* taken from a message has its event, whatever becomes of the replies     *)
(* (clientRuntime.ts appends them next to what it stores).                 *)
THEOREM LogsAccount == StatementsSucceed /\ Spec => []LogsAccountForState
<1>1. StatementsSucceed /\ LogInv => LogsAccountForState
  BY DEF LogInv, ConsentLogged, FieldLogged, LogsConsent, LogsField, LogsAccountForState,
     Writing, Subject, Msg
<1>2. Spec => []LogInv
  BY IndInit, IndNext, LogNext, LogInitially, PTL DEF Spec
<1>3. CASE StatementsSucceed
  <2>1. LogInv => LogsAccountForState
    BY <1>1, <1>3
  <2> QED
    BY <1>2, <2>1, PTL
<1> QED
  BY <1>3

-----------------------------------------------------------------------------
(* Completed questionnaires *)

AnswersAll(fields) == \A f \in IdentityFields \cup {"problemSummary"} : fields[f] # Absent

(* No questionnaire of the start database is asked for attachments before  *)
(* its other questions are answered: the statements of an earlier process  *)
(* succeeded too.                                                          *)
WholeStart ==
  \A s \in Subjects :
    StartFiles[s].state = "asking_attachments" => AnswersAll(StartFiles[s].fields)

(* Between Graph API calls one handler is at work.                         *)
OneBusy ==
  \A g, h \in Handlers :
    g # h => handler[g].pc \in {"idle", "dispatch"} \/ handler[h].pc \in {"idle", "dispatch"}

(* The file of its client is what a handler in state r has written of its  *)
(* record so far.                                                          *)
PartWritten(r, file) ==
  r.pc \in HoldsRecord =>
    /\ r.next.state \in {"asking_attachments", "intake_complete"} => AnswersAll(r.next.fields)
    /\ r.pc # "state" => file.state = r.next.state
    /\ \A f \in FieldNames \ r.left : file.fields[f] = r.next.fields[f]
    /\ r.pc = "fieldEvent" => file.fields[First(r.left)] = r.next.fields[First(r.left)]
    /\ r.pc = "practice" => r.left = {} /\ r.next.state = "intake_complete"

Written(s) == \A h \in Handlers : handler[h].pc \in HoldsRecord => Subject(h) # s

(* A handler in state r will open the practice of message m.               *)
Completing(r, m) ==
  /\ r.pc \in {"field", "fieldEvent", "practice"} /\ r.next.state = "intake_complete"
  /\ Head(r.queue) = m

Opened(e) ==
  \/ \E p \in practices : p.source = e.source /\ p.subject = e.subject
  \/ FreeCodes = {}
  \/ \E h \in Handlers : Completing(handler[h], e.source)

(* The inductive strengthening of CompletionOpensPractice.                 *)
CompletionInv ==
  StatementsSucceed /\ WholeStart =>
    /\ OneBusy
    /\ \A h \in Handlers :
         /\ handler[h].pc \in Client => Msg(h) \notin processed
         /\ PartWritten(handler[h], FileOf(h))
    /\ \A s \in Subjects :
         intake[s].state = "asking_attachments" /\ Written(s) => AnswersAll(intake[s].fields)
    /\ \A e \in intakeEvents :
         /\ Sender[e.source] = e.subject
         /\ e.kind = "state" /\ e.state = "intake_complete" => Opened(e)

(* The questions up to the attachments are answered once a questionnaire   *)
(* comes to them.                                                          *)
LEMMA NextAnswersAll ==
  ASSUME NEW V, NEW file \in Files(V), NEW c, NEW m, m # Absent, NEW justGranted,
         file.state = "asking_attachments" => AnswersAll(file.fields),
         NEW next \in NextRecords(file, c, justGranted, m),
         next.state \in {"asking_attachments", "intake_complete"}
  PROVE  AnswersAll(next.fields)
<1> USE DEF Files, AnswersAll
<1>1. ASSUME next \in AnswerIdentity(file, c, m)
      PROVE  AnswersAll(next.fields)
  <2> DEFINE fields == ExtractIdentity(file.fields, c, m)
  <2>1. /\ next.fields = fields /\ HasCompleteIdentity(fields)
        /\ next.state = "asking_attachments" => fields["problemSummary"] # Absent
        /\ next.state # "intake_complete"
    BY <1>1 DEF AnswerIdentity
  <2> HIDE DEF fields
  <2> QED
    BY <2>1 DEF HasCompleteIdentity
<1>2. ASSUME next \in AnswerAttachments(file, c, m), file.state = "asking_attachments"
      PROVE  AnswersAll(next.fields)
  <2>1. \A f \in IdentityFields \cup {"problemSummary"} : next.fields[f] = file.fields[f]
    BY <1>2 DEF AnswerAttachments, IdentityFields, FieldNames
  <2> QED
    BY <1>2, <2>1
<1>3. ASSUME next \in AnswerProblemSummary(file, c, m)
      PROVE  AnswersAll(next.fields)
  <2>1. /\ HasCompleteIdentity(file.fields)
        /\ next.fields = [file.fields EXCEPT !["problemSummary"] = m]
    BY <1>3 DEF AnswerProblemSummary
  <2> QED
    BY <2>1 DEF HasCompleteIdentity, IdentityFields, FieldNames
<1>4. ASSUME NEW s \in {"asking_problem_summary", "asking_identity"}, next = [file EXCEPT !.state = s]
      PROVE  FALSE
  BY <1>4
<1> QED
  BY <1>1, <1>2, <1>3, <1>4 DEF NextRecords

(* An opened practice stays open, and no code comes back.                  *)
LEMMA OpenedKept ==
  ASSUME NEW h \in Handlers, \A g \in Handlers : g # h => handler'[g] = handler[g],
         practices \subseteq practices', FreeCodes = {} => FreeCodes' = {},
         NEW e, Opened(e), Completing(handler[h], e.source) => Opened(e)'
  PROVE  Opened(e)'
<1>1. CASE \E p \in practices : p.source = e.source /\ p.subject = e.subject
  BY <1>1 DEF Opened
<1>2. CASE FreeCodes = {}
  BY <1>2 DEF Opened
<1>3. CASE \E g \in Handlers : Completing(handler[g], e.source)
  BY <1>3 DEF Opened
<1> QED
  BY <1>1, <1>2, <1>3 DEF Opened

(* A step of a handler that runs alone keeps the invariant if it keeps     *)
(* what is said of this handler and of the files.                          *)
LEMMA CompletionKept ==
  ASSUME CompletionInv, StatementsSucceed, WholeStart, NEW h \in Handlers, Quiet(h),
         \A g \in Handlers : g # h => handler'[g] = handler[g],
         handler'[h].pc \in Client => Msg(h)' \notin processed',
         PartWritten(handler'[h], FileOf(h)'),
         \A s \in Subjects :
           intake'[s].state = "asking_attachments" /\ (handler'[h].pc \in HoldsRecord => Subject(h)' # s)
             => AnswersAll(intake'[s].fields),
         \A e \in intakeEvents' :
           /\ Sender[e.source] = e.subject
           /\ e.kind = "state" /\ e.state = "intake_complete" => Opened(e)'
  PROVE  CompletionInv'
<1>1. \A g \in Handlers : g # h => handler'[g].pc \in {"idle", "dispatch"}
  BY DEF Quiet
<1>2. OneBusy'
  BY <1>1 DEF OneBusy
<1>3. \A g \in Handlers : handler'[g].pc \in Client => Msg(g)' \notin processed'
  BY <1>1 DEF Client, Gated
<1>4. \A g \in Handlers : PartWritten(handler'[g], FileOf(g)')
  BY <1>1 DEF PartWritten, HoldsRecord, Gated
<1>5. ASSUME NEW s \in Subjects, Written(s)'
      PROVE  handler'[h].pc \in HoldsRecord => Subject(h)' # s
  BY <1>5 DEF Written
<1> QED
  BY <1>2, <1>3, <1>4, <1>5 DEF CompletionInv, StatementsSucceed, WholeStart

(* While a handler runs, only it may be writing.                           *)
LEMMA OnlyItWrites ==
  ASSUME NEW h \in Handlers, Quiet(h), NEW s
  PROVE  Written(s) <=> (handler[h].pc \in HoldsRecord => Subject(h) # s)
BY DEF Written, Quiet, HoldsRecord, Gated

(* The steps that leave the questionnaires and the practices alone.        *)
LEMMA CompletionStill ==
  ASSUME IndInv, CompletionInv, StatementsSucceed, WholeStart, NEW h \in Handlers,
         \/ Acknowledge(h) \/ SkipDuplicate(h) \/ RejectBlank(h) \/ Route(h)
         \/ ResolveConsent(h) \/ AppendConsentEvent(h)
         \/ DispatchReply(h) \/ MarkProcessed(h) \/ DispatchFails(h)
         \/ \E w \in Webhooks : Deliver(h, w)
  PROVE  CompletionInv'
<1> DEFINE Still == /\ \A g \in Handlers : g # h => handler'[g] = handler[g]
                    /\ Quiet(h) /\ UNCHANGED <<intake, intakeEvents, practices, lastCode>>
                    /\ handler[h].pc \notin HoldsRecord /\ handler'[h].pc \notin HoldsRecord
                    /\ handler'[h].pc \in Client =>
                         /\ handler'[h].queue = handler[h].queue /\ UNCHANGED processed
                         /\ handler[h].pc \in Client \/ Msg(h) \notin processed
<1>1. Still
  <2> USE DEF At, Goto, Abort, HandlerStates, intakeT, practiceT, HoldsRecord, Client, Gated
  <2>1. handler \in [Handlers -> HandlerStates] /\ handler[h] \in HandlerStates
    BY DEF IndInv, TypeOK
  <2>2. CASE Acknowledge(h)
    BY <2>1, <2>2 DEF Acknowledge, Idle
  <2>3. CASE SkipDuplicate(h)
    BY <2>1, <2>3 DEF SkipDuplicate
  <2>4. CASE RejectBlank(h)
    BY <2>1, <2>4 DEF RejectBlank, Idle
  <2>5. CASE Route(h)
    BY <2>1, <2>5 DEF Route, Fresh
  <2>6. CASE ResolveConsent(h)
    BY <2>1, <2>6 DEF ResolveConsent, AfterConsent
  <2>7. CASE AppendConsentEvent(h)
    BY <2>1, <2>7 DEF AppendConsentEvent
  <2>8. CASE DispatchReply(h)
    BY <2>1, <2>8 DEF DispatchReply
  <2>9. CASE MarkProcessed(h)
    BY <2>1, <2>9 DEF MarkProcessed
  <2>10. CASE DispatchFails(h)
    BY <2>1, <2>10 DEF DispatchFails, Idle
  <2>11. ASSUME NEW w \in Webhooks, Deliver(h, w)
         PROVE  Still
    BY <2>1, <2>11 DEF Deliver
  <2> QED
    BY <2>2, <2>3, <2>4, <2>5, <2>6, <2>7, <2>8, <2>9, <2>10, <2>11
<1>2. handler'[h].pc \in Client => Msg(h)' \notin processed'
  BY <1>1 DEF CompletionInv, Msg
<1>3. PartWritten(handler'[h], FileOf(h)')
  BY <1>1 DEF PartWritten
<1>4. ASSUME NEW s \in Subjects, intake'[s].state = "asking_attachments"
      PROVE  AnswersAll(intake'[s].fields)
  <2>1. Written(s)
    BY <1>1, OnlyItWrites
  <2> QED
    BY <1>1, <1>4, <2>1 DEF CompletionInv
<1>5. ASSUME NEW e \in intakeEvents'
      PROVE  /\ Sender[e.source] = e.subject
             /\ e.kind = "state" /\ e.state = "intake_complete" => Opened(e)'
  <2>1. ~Completing(handler[h], e.source)
    BY <1>1 DEF Completing, HoldsRecord, Gated
  <2>2. FreeCodes' = FreeCodes
    BY <1>1 DEF FreeCodes
  <2>3. Opened(e) => Opened(e)'
    BY <1>1, <2>1, <2>2, OpenedKept
  <2> QED
    BY <1>1, <2>3 DEF CompletionInv
<1> HIDE DEF Still
<1> QED
  BY <1>1, <1>2, <1>3, <1>4, <1>5, CompletionKept DEF Still

(* The decision on the record begins a writing, if it is not empty, on a   *)
(* file that nobody else writes.                                           *)
LEMMA CompletionResolves ==
  ASSUME IndInv, CompletionInv, StatementsSucceed, WholeStart, NEW h \in Handlers, ResolveIntake(h)
  PROVE  CompletionInv'
<1>1. Quiet(h) /\ handler[h].pc = "intake"
  BY DEF ResolveIntake, At
<1>2. /\ \A g \in Handlers : g # h => handler'[g] = handler[g]
      /\ handler'[h].queue = handler[h].queue
      /\ UNCHANGED <<intake, intakeEvents, practices, lastCode, processed>>
      /\ Msg(h) \in Messages /\ Subject(h) \in Subjects /\ FileOf(h) \in Files(Values)
      /\ \/ handler'[h].pc = "dispatch"
         \/ \E next \in NextRecords(FileOf(h), content[Msg(h)], handler[h].justGranted, Msg(h)) :
              /\ next \in Files(Values)
              /\ \A f \in FieldNames : next.fields[f] \in {FileOf(h).fields[f], Msg(h), NoFiles}
              /\ handler'[h].next = next /\ handler'[h].left = Changed(FileOf(h), next)
              /\ handler'[h].pc = IF next.state # FileOf(h).state THEN "state"
                                  ELSE AfterWriting(next, Changed(FileOf(h), next))
  BY Resolves
<1>3. Subject(h)' = Subject(h) /\ Msg(h)' = Msg(h) /\ FileOf(h)' = FileOf(h)
  BY <1>2 DEF Subject, Msg, FileOf
<1>4. Msg(h) # Absent /\ NoFiles # Absent
  BY <1>2, WorldAssumption DEF WorldAssumption
<1>5. \A s \in Subjects : Written(s)
  BY <1>1, OnlyItWrites DEF HoldsRecord
<1>6. FileOf(h).state = "asking_attachments" => AnswersAll(FileOf(h).fields)
  BY <1>2, <1>5 DEF CompletionInv, FileOf
<1>7. PartWritten(handler'[h], FileOf(h)')
  <2>1. CASE handler'[h].pc = "dispatch"
    BY <2>1 DEF PartWritten, HoldsRecord, Gated
  <2>2. ASSUME NEW next \in NextRecords(FileOf(h), content[Msg(h)], handler[h].justGranted, Msg(h)),
               next \in Files(Values),
               \A f \in FieldNames : next.fields[f] \in {FileOf(h).fields[f], Msg(h), NoFiles},
               handler'[h].next = next, handler'[h].left = Changed(FileOf(h), next),
               handler'[h].pc = IF next.state # FileOf(h).state THEN "state"
                                ELSE AfterWriting(next, Changed(FileOf(h), next))
        PROVE  PartWritten(handler'[h], FileOf(h))
    <3>1. next.state \in {"asking_attachments", "intake_complete"} => AnswersAll(next.fields)
      BY <1>2, <1>4, <1>6, <2>2, NextAnswersAll
    <3>2. \A f \in FieldNames \ Changed(FileOf(h), next) : FileOf(h).fields[f] = next.fields[f]
      BY <1>4, <2>2 DEF Changed
    <3>3. /\ handler'[h].pc # "state" => FileOf(h).state = next.state
          /\ handler'[h].pc # "fieldEvent"
          /\ handler'[h].pc = "practice" => Changed(FileOf(h), next) = {} /\ next.state = "intake_complete"
      BY <2>2 DEF AfterWriting
    <3> QED
      BY <2>2, <3>1, <3>2, <3>3 DEF PartWritten
  <2> QED
    BY <1>2, <1>3, <2>1, <2>2
<1>8. Msg(h)' \notin processed'
  BY <1>1, <1>2, <1>3 DEF CompletionInv, Client, Gated
<1>9. ASSUME NEW s \in Subjects, intake'[s].state = "asking_attachments"
      PROVE  AnswersAll(intake'[s].fields)
  BY <1>2, <1>5, <1>9 DEF CompletionInv
<1>10. ASSUME NEW e \in intakeEvents'
       PROVE  /\ Sender[e.source] = e.subject
              /\ e.kind = "state" /\ e.state = "intake_complete" => Opened(e)'
  <2>1. ~Completing(handler[h], e.source)
    BY <1>1 DEF Completing
  <2>2. FreeCodes' = FreeCodes
    BY <1>2 DEF FreeCodes
  <2>3. Opened(e) => Opened(e)'
    BY <1>2, <2>1, <2>2, OpenedKept
  <2> QED
    BY <1>2, <2>3 DEF CompletionInv
<1> QED
  BY <1>1, <1>2, <1>7, <1>8, <1>9, <1>10, CompletionKept

(* A step of writing a record touches its client's file only, and brings   *)
(* it nearer to the record.                                                *)
LEMMA FileNearer ==
  ASSUME IndInv, CompletionInv, StatementsSucceed, WholeStart, NEW h \in Handlers,
         SetIntakeState(h) \/ AppendStateEvent(h) \/ SetIntakeField(h) \/ AppendFieldEvent(h)
  PROVE  LET r == handler[h]
             f == First(r.left)
             s == Subject(h)
         IN
         /\ Quiet(h)
         /\ r.pc = IF SetIntakeState(h) THEN "state" ELSE IF AppendStateEvent(h) THEN "stateEvent"
                   ELSE IF SetIntakeField(h) THEN "field" ELSE "fieldEvent"
         /\ AppendFieldEvent(h) => r.pc = "fieldEvent"
         /\ s \in Subjects /\ Msg(h) \in Messages /\ Msg(h) \notin processed
         /\ PartWritten(r, intake[s])
         /\ Subject(h)' = s /\ Msg(h)' = Msg(h) /\ FileOf(h)' = intake'[s]
         /\ \A t \in Subjects : t # s => intake'[t] = intake[t]
         /\ \A e \in FieldNames : intake'[s].fields[e] =
              IF SetIntakeField(h) /\ e = f THEN r.next.fields[f] ELSE intake[s].fields[e]
         /\ intake'[s].state = r.next.state
         /\ \A e \in FieldNames \ handler'[h].left : intake'[s].fields[e] = r.next.fields[e]
<1> DEFINE r == handler[h]
           f == First(r.left)
           s == Subject(h)
<1>1. /\ Quiet(h)
      /\ r.pc = IF SetIntakeState(h) THEN "state" ELSE IF AppendStateEvent(h) THEN "stateEvent"
                ELSE IF SetIntakeField(h) THEN "field" ELSE "fieldEvent"
      /\ AppendFieldEvent(h) => r.pc = "fieldEvent"
  BY DEF SetIntakeState, AppendStateEvent, SetIntakeField, AppendFieldEvent, At
<1>2. /\ \A g \in Handlers : g # h => handler'[g] = handler[g]
      /\ handler'[h].queue = r.queue /\ handler'[h].next = r.next
      /\ handler'[h].left = IF AppendFieldEvent(h) THEN r.left \ {f} ELSE r.left
      /\ r.pc \in HoldsRecord /\ r.next \in Files(Values) /\ r.left \subseteq FieldNames
      /\ r.pc \in {"field", "fieldEvent"} => f \in r.left
      /\ handler'[h].pc = CASE r.pc = "state" -> "stateEvent"
                            [] r.pc = "field" -> "fieldEvent"
                            [] OTHER -> AfterWriting(r.next, handler'[h].left)
      /\ FirstLeft(h) = f
      /\ UNCHANGED <<practices, lastCode, processed>>
  BY Writes
<1>3. s \in Subjects /\ Msg(h) \in Messages /\ intake \in [Subjects -> Files(Values)]
  <2>1. s \in Subjects /\ r.queue # <<>>
    BY <1>2 DEF HoldsRecord, Gated, IndInv, HandlersSound, Sound, Client, Subject, Msg
  <2> QED
    BY <2>1, AtWork DEF IndInv, TypeOK
<1>4. PartWritten(r, intake[s]) /\ Msg(h) \notin processed
  BY <1>2 DEF CompletionInv, FileOf, HoldsRecord, Client
<1>5. Subject(h)' = s /\ Msg(h)' = Msg(h) /\ FileOf(h)' = intake'[s]
  BY <1>2 DEF Subject, Msg, FileOf
<1>6. /\ \A t \in Subjects : t # s => intake'[t] = intake[t]
      /\ intake'[s].state = IF SetIntakeState(h) THEN r.next.state ELSE intake[s].state
      /\ \A e \in FieldNames : intake'[s].fields[e] =
           IF SetIntakeField(h) /\ e = f THEN r.next.fields[f] ELSE intake[s].fields[e]
  <2>1. CASE SetIntakeState(h)
    <3>1. ~SetIntakeField(h)
      BY <1>1, <2>1 DEF SetIntakeField, At
    <3> QED
      BY <1>3, <2>1, <3>1 DEF SetIntakeState, Files
  <2>2. CASE SetIntakeField(h)
    <3>1. ~SetIntakeState(h)
      BY <1>1, <2>2 DEF SetIntakeField, At
    <3> QED
      BY <1>2, <1>3, <2>2, <3>1 DEF SetIntakeField, Files
  <2>3. CASE AppendStateEvent(h) \/ AppendFieldEvent(h)
    <3>1. ~SetIntakeState(h) /\ ~SetIntakeField(h) /\ UNCHANGED intake
      BY <2>3 DEF SetIntakeState, SetIntakeField, AppendStateEvent, AppendFieldEvent, At
    <3> QED
      BY <3>1
  <2> QED
    BY <2>1, <2>2, <2>3
<1>7. intake'[s].state = r.next.state
  BY <1>1, <1>2, <1>4, <1>6 DEF PartWritten
<1>8. ASSUME NEW e \in FieldNames \ handler'[h].left
      PROVE  intake'[s].fields[e] = r.next.fields[e]
  <2>1. e \in FieldNames \ r.left \/ (r.pc = "fieldEvent" /\ e = f)
    BY <1>1, <1>2, <1>8
  <2>2. intake[s].fields[e] = r.next.fields[e]
    BY <1>2, <1>4, <2>1 DEF PartWritten
  <2> QED
    BY <1>6, <2>2
<1> HIDE DEF s, r
<1> QED
  BY <1>1, <1>3, <1>4, <1>5, <1>6, <1>7, <1>8 DEF s, r

(* Writing a record brings the file nearer to it; once it is written, the  *)
(* file answers what the record answers.                                   *)
LEMMA CompletionWrites ==
  ASSUME IndInv, CompletionInv, StatementsSucceed, WholeStart, NEW h \in Handlers,
         SetIntakeState(h) \/ AppendStateEvent(h) \/ SetIntakeField(h) \/ AppendFieldEvent(h)
  PROVE  CompletionInv'
<1> DEFINE r == handler[h]
           f == First(r.left)
           s == Subject(h)
<1>1. /\ Quiet(h)
      /\ r.pc = IF SetIntakeState(h) THEN "state" ELSE IF AppendStateEvent(h) THEN "stateEvent"
                ELSE IF SetIntakeField(h) THEN "field" ELSE "fieldEvent"
      /\ AppendFieldEvent(h) => r.pc = "fieldEvent"
      /\ s \in Subjects /\ Msg(h) \in Messages
      /\ PartWritten(r, intake[s]) /\ Msg(h) \notin processed
      /\ Subject(h)' = s /\ Msg(h)' = Msg(h) /\ FileOf(h)' = intake'[s]
      /\ \A t \in Subjects : t # s => intake'[t] = intake[t]
      /\ \A e \in FieldNames : intake'[s].fields[e] =
           IF SetIntakeField(h) /\ e = f THEN r.next.fields[f] ELSE intake[s].fields[e]
      /\ intake'[s].state = r.next.state
      /\ \A e \in FieldNames \ handler'[h].left : intake'[s].fields[e] = r.next.fields[e]
  BY FileNearer
<1>2. /\ \A g \in Handlers : g # h => handler'[g] = handler[g]
      /\ handler'[h].queue = r.queue /\ handler'[h].next = r.next
      /\ handler'[h].left = IF AppendFieldEvent(h) THEN r.left \ {f} ELSE r.left
      /\ r.pc \in HoldsRecord /\ r.next \in Files(Values) /\ r.left \subseteq FieldNames
      /\ r.pc \in {"field", "fieldEvent"} => f \in r.left
      /\ handler'[h].pc = CASE r.pc = "state" -> "stateEvent"
                            [] r.pc = "field" -> "fieldEvent"
                            [] OTHER -> AfterWriting(r.next, handler'[h].left)
      /\ FirstLeft(h) = f
      /\ UNCHANGED <<practices, lastCode, processed>>
  BY Writes
<1>3. PartWritten(handler'[h], intake'[s])
  <2>1. /\ handler'[h].pc = "practice" => handler'[h].left = {} /\ r.next.state = "intake_complete"
        /\ handler'[h].pc = "fieldEvent" => r.pc = "field"
    BY <1>2 DEF AfterWriting
  <2>2. r.pc = "field" => SetIntakeField(h) /\ ~AppendFieldEvent(h) /\ f \in FieldNames
    BY <1>1, <1>2 DEF AppendFieldEvent, At
  <2>3. handler'[h].pc = "fieldEvent" => intake'[s].fields[f] = r.next.fields[f] /\ handler'[h].left = r.left
    BY <1>1, <1>2, <2>1, <2>2
  <2>4. r.next.state \in {"asking_attachments", "intake_complete"} => AnswersAll(r.next.fields)
    BY <1>1, <1>2 DEF PartWritten
  <2> QED
    BY <1>1, <1>2, <2>1, <2>3, <2>4 DEF PartWritten
<1>4. ASSUME NEW t \in Subjects, intake'[t].state = "asking_attachments",
             handler'[h].pc \in HoldsRecord => Subject(h)' # t
      PROVE  AnswersAll(intake'[t].fields)
  <2>1. CASE t # s
    <3>1. Written(t)
      BY <1>1, <2>1, OnlyItWrites
    <3> QED
      BY <1>1, <1>4, <2>1, <3>1 DEF CompletionInv
  <2>2. CASE t = s
    <3>1. handler'[h].pc \notin HoldsRecord
      BY <1>1, <1>4, <2>2
    <3>2. handler'[h].left = {} /\ r.pc \in {"stateEvent", "fieldEvent"}
      BY <1>1, <1>2, <3>1 DEF AfterWriting, HoldsRecord, Gated
    <3>3. \A e \in FieldNames : intake'[s].fields[e] = r.next.fields[e]
      BY <1>1, <3>2
    <3>4. AnswersAll(r.next.fields)
      BY <1>1, <1>2, <1>4, <2>2 DEF PartWritten
    <3> QED
      BY <2>2, <3>3, <3>4 DEF AnswersAll, FieldNames
  <2> QED
    BY <2>1, <2>2
<1>5. ASSUME NEW e \in intakeEvents'
      PROVE  /\ Sender[e.source] = e.subject
             /\ e.kind = "state" /\ e.state = "intake_complete" => Opened(e)'
  <2>1. r.next.state = "intake_complete" /\ r.pc \in {"stateEvent", "field", "fieldEvent"}
          => Completing(handler'[h], Msg(h))
    BY <1>1, <1>2 DEF Completing, AfterWriting, Msg
  <2>2. \/ e \in intakeEvents
        \/ /\ e.source = Msg(h) /\ e.subject = s /\ e.state = r.next.state
           /\ e.kind = "state" => r.pc = "stateEvent"
    <3>1. CASE SetIntakeState(h) \/ SetIntakeField(h)
      BY <3>1 DEF SetIntakeState, SetIntakeField
    <3>2. CASE AppendStateEvent(h)
      BY <3>2 DEF AppendStateEvent, AppendIntakeEvent, At
    <3>3. CASE AppendFieldEvent(h)
      <4>1. f # "state"
        BY <1>1, <1>2, <3>3 DEF FieldNames, IdentityFields, AppendFieldEvent, At
      <4> QED
        BY <1>2, <3>3, <4>1 DEF AppendFieldEvent, AppendIntakeEvent
    <3> QED
      BY <3>1, <3>2, <3>3
  <2>3. CASE e \in intakeEvents
    <3>1. Completing(r, e.source) => Opened(e)'
      BY <1>1, <2>1 DEF Completing, Opened, Msg
    <3>2. FreeCodes' = FreeCodes
      BY <1>2 DEF FreeCodes
    <3>3. Opened(e) => Opened(e)'
      BY <1>2, <3>1, <3>2, OpenedKept
    <3> QED
      BY <2>3, <3>3 DEF CompletionInv
  <2>4. CASE e \notin intakeEvents
    <3>1. Sender[e.source] = e.subject
      BY <2>2, <2>4 DEF Subject
    <3>2. e.kind = "state" /\ e.state = "intake_complete" => Completing(handler'[h], e.source)
      BY <2>1, <2>2, <2>4
    <3> QED
      BY <3>1, <3>2 DEF Opened
  <2> QED
    BY <2>3, <2>4
<1>6. handler'[h].pc \in Client => Msg(h)' \notin processed'
  BY <1>1, <1>2
<1> HIDE DEF s, r
<1> QED
  BY <1>1, <1>2, <1>3, <1>4, <1>5, <1>6, CompletionKept

(* A record that is written down to its practice is ready for it.          *)
LEMMA PracticeIsReady ==
  ASSUME IndInv, CompletionInv, StatementsSucceed, WholeStart, NEW h \in Handlers, At(h, "practice")
  PROVE  /\ Msg(h) \in Messages /\ Subject(h) \in Subjects /\ consent[Subject(h)] = "granted"
         /\ FileOf(h).state = "intake_complete" /\ ReadyForPractice(FileOf(h))
         /\ handler[h].next.state = "intake_complete"
         /\ \A f \in FieldNames : FileOf(h).fields[f] = handler[h].next.fields[f]
<1>1. /\ Subject(h) \in Subjects /\ consent[Subject(h)] = "granted" /\ handler[h].queue # <<>>
  BY DEF At, IndInv, HandlersSound, Sound, Client, Gated, Subject, Msg
<1>2. Msg(h) \in Messages
  BY <1>1, AtWork
<1>3. PartWritten(handler[h], FileOf(h)) /\ handler[h].pc = "practice" /\ handler[h].pc \in HoldsRecord
  BY DEF CompletionInv, At, HoldsRecord, Gated
<1>4. /\ FileOf(h).state = "intake_complete" /\ handler[h].next.state = "intake_complete"
      /\ AnswersAll(handler[h].next.fields)
      /\ \A f \in FieldNames : FileOf(h).fields[f] = handler[h].next.fields[f]
  BY <1>3 DEF PartWritten
<1>5. ReadyForPractice(FileOf(h))
  BY <1>4 DEF ReadyForPractice, AnswersAll, FieldNames
<1> QED
  BY <1>1, <1>2, <1>4, <1>5

(* A completed questionnaire has its practice opened, or the codes have    *)
(* run out.                                                                *)
LEMMA CompletionOpens ==
  ASSUME IndInv, OwnInv, CompletionInv, StatementsSucceed, WholeStart, NEW h \in Handlers,
         CreatePractice(h) \/ RefusePractice(h)
  PROVE  CompletionInv'
<1>1. /\ Quiet(h) /\ At(h, "practice") /\ handler'[h].pc \in {"idle", "dispatch"}
      /\ \A g \in Handlers : g # h => handler'[g] = handler[g]
      /\ UNCHANGED <<intake, intakeEvents, processed>>
  <2>1. handler \in [Handlers -> HandlerStates] /\ handler[h] \in HandlerStates
    BY DEF IndInv, TypeOK
  <2>2. CASE CreatePractice(h)
    BY <2>1, <2>2 DEF CreatePractice, GotoDispatch, intakeT, HandlerStates
  <2>3. CASE RefusePractice(h)
    BY <2>1, <2>3 DEF RefusePractice, Abort, Idle, intakeT
  <2> QED
    BY <2>2, <2>3
<1>2. /\ Msg(h) \in Messages /\ Subject(h) \in Subjects /\ consent[Subject(h)] = "granted"
      /\ FileOf(h).state = "intake_complete" /\ ReadyForPractice(FileOf(h))
  BY <1>1, PracticeIsReady
<1>3. ASSUME NEW e \in intakeEvents, e.kind = "state", e.state = "intake_complete"
      PROVE  Opened(e)'
  <2>1. Opened(e) /\ Sender[e.source] = e.subject
    BY <1>3 DEF CompletionInv
  <2>2. CASE RefusePractice(h)
    <3>1. FreeCodes = {} /\ UNCHANGED <<practices, lastCode>>
      BY <1>2, <2>2 DEF RefusePractice, CanCreatePractice, practiceT
    <3> QED
      BY <3>1 DEF Opened, FreeCodes
  <2>3. CASE \E p \in practices : p.source = Msg(h) /\ CreatePractice(h)
    <3>1. PICK p \in practices : p.source = Msg(h)
      BY <2>3
    <3>2. UNCHANGED <<practices, lastCode>>
      BY <2>3 DEF CreatePractice, practiceT
    <3>3. p.subject = Subject(h)
      BY <1>2, <3>1, StartAssumption DEF OwnInv, PracticesAreOwn, StartAssumption, Subject
    <3>4. Completing(handler[h], e.source) => Opened(e)'
      BY <2>1, <3>1, <3>2, <3>3 DEF Completing, Opened, Subject, Msg
    <3>5. FreeCodes' = FreeCodes
      BY <3>2 DEF FreeCodes
    <3> QED
      BY <1>1, <2>1, <3>2, <3>4, <3>5, OpenedKept
  <2>4. CASE CreatePractice(h) /\ \A p \in practices : p.source # Msg(h)
    <3> DEFINE new == NewPractice(h, NextCode)
    <3>1. practices' = practices \cup {new} /\ FreeCodes # {}
      BY <2>4 DEF CreatePractice, CanCreatePractice
    <3>2. new.source = Msg(h) /\ new.subject = Subject(h)
      BY DEF NewPractice
    <3> HIDE DEF new
    <3>3. Completing(handler[h], e.source) => Opened(e)'
      BY <2>1, <3>1, <3>2 DEF Completing, Opened, Subject, Msg
    <3> QED
      BY <1>1, <2>1, <3>1, <3>3, OpenedKept
  <2> QED
    BY <2>2, <2>3, <2>4
<1>4. handler'[h].pc \notin Client /\ PartWritten(handler'[h], FileOf(h)')
  BY <1>1 DEF PartWritten, HoldsRecord, Client, Gated
<1>5. ASSUME NEW s \in Subjects, intake'[s].state = "asking_attachments"
      PROVE  AnswersAll(intake'[s].fields)
  <2>1. s # Subject(h)
    BY <1>1, <1>2, <1>5 DEF FileOf
  <2>2. Written(s)
    BY <1>1, <2>1, OnlyItWrites
  <2> QED
    BY <1>1, <1>5, <2>2 DEF CompletionInv
<1>6. \A e \in intakeEvents' : Sender[e.source] = e.subject
  BY <1>1 DEF CompletionInv
<1> QED
  BY <1>1, <1>3, <1>4, <1>5, <1>6, CompletionKept

(* No step loses a completed questionnaire while statements succeed.       *)
LEMMA CompletionNext ==
  ASSUME IndInv, OwnInv, CompletionInv, [Next]_vars
  PROVE  CompletionInv'
<1> SUFFICES ASSUME StatementsSucceed, WholeStart PROVE CompletionInv'
  BY DEF CompletionInv, StatementsSucceed, WholeStart
<1>1. CASE Send \/ UNCHANGED vars
  <2>1. UNCHANGED <<processed, intake, intakeEvents, practices, lastCode, handler>>
    BY <1>1 DEF Send, vars, intakeT, practiceT
  <2> QED
    BY <2>1 DEF CompletionInv, OneBusy, Written, Opened, FreeCodes, PartWritten, FileOf, Subject, Msg
<1>2. ASSUME NEW h \in Handlers, GiveUp(h)
      PROVE  CompletionInv'
  <2>1. /\ \A g \in Handlers : /\ handler'[g].pc = handler[g].pc /\ handler'[g].queue = handler[g].queue
                               /\ handler'[g].next = handler[g].next /\ handler'[g].left = handler[g].left
        /\ UNCHANGED <<processed, intake, intakeEvents, practices, lastCode>>
    BY <1>2 DEF GiveUp, IndInv, TypeOK, HandlerStates, intakeT, practiceT
  <2>2. OneBusy' /\ \A s \in Subjects : Written(s)' = Written(s)
    BY <2>1 DEF CompletionInv, OneBusy, Written, Subject, Msg
  <2>3. \A g \in Handlers : /\ Msg(g)' = Msg(g) /\ FileOf(g)' = FileOf(g)
                            /\ PartWritten(handler'[g], FileOf(g)') = PartWritten(handler[g], FileOf(g))
    <3>1. \A g \in Handlers : Msg(g)' = Msg(g) /\ FileOf(g)' = FileOf(g)
      BY <2>1 DEF FileOf, Subject, Msg
    <3>2. \A file : \A g \in Handlers : PartWritten(handler'[g], file) = PartWritten(handler[g], file)
      BY <2>1 DEF PartWritten
    <3> QED
      BY <3>1, <3>2
  <2>4. ASSUME NEW e \in intakeEvents
        PROVE  Opened(e)' = Opened(e)
    <3>1. FreeCodes' = FreeCodes
      BY <2>1 DEF FreeCodes
    <3>2. \A g \in Handlers : Completing(handler'[g], e.source) = Completing(handler[g], e.source)
      BY <2>1 DEF Completing
    <3> QED
      BY <2>1, <3>1, <3>2 DEF Opened
  <2> QED
    BY <2>1, <2>2, <2>3, <2>4 DEF CompletionInv
<1> QED
  BY <1>1, <1>2, NothingLost, CompletionStill, CompletionResolves, CompletionWrites, CompletionOpens
  DEF Next, Step

(* At first nothing is being completed.                                    *)
LEMMA CompletionInitially == Init => CompletionInv
BY DEF Init, CompletionInv, OneBusy, PartWritten, Written, Idle, HoldsRecord, Client, Gated, WholeStart

(* As long as no statement fails, a message that completed a questionnaire *)
(* and was processed to its end has opened a practice, unless the codes    *)
(* ran out: also when replies fail, when Meta gives up waiting and when    *)
(* deliveries overlap (the completion and the practice are written with no *)
(* await between them, clientRuntime.ts).                                  *)
THEOREM CompletionOpened == StatementsSucceed /\ WholeStart /\ Spec => []CompletionOpensPractice
<1>1. StatementsSucceed /\ WholeStart /\ CompletionInv => CompletionOpensPractice
  <2> SUFFICES ASSUME StatementsSucceed, WholeStart, CompletionInv,
                      NEW e \in intakeEvents, e.kind = "state", e.state = "intake_complete",
                      e.source \in processed, FreeCodes # {}
               PROVE  \E p \in practices : p.source = e.source /\ p.subject = e.subject
    BY DEF CompletionOpensPractice
  <2>1. \A h \in Handlers : ~Completing(handler[h], e.source)
    BY DEF CompletionInv, Completing, Client, Gated, Msg
  <2> QED
    BY <2>1 DEF CompletionInv, Opened
<1>2. Spec => []CompletionInv
  BY IndInit, IndNext, OwnInitially, OwnNext, CompletionNext, CompletionInitially, PTL DEF Spec
<1>3. CASE StatementsSucceed /\ WholeStart
  <2>1. CompletionInv => CompletionOpensPractice
    BY <1>1, <1>3
  <2> QED
    BY <1>2, <2>1, PTL
<1> QED
  BY <1>3

-----------------------------------------------------------------------------
(* The legal issue *)

(* Nothing fails and Meta waits for every answer.                          *)
NothingFails == Faults = {} /\ MaxTimeouts = 0

Issue(fields) == fields["problemSummary"]

(* The issue on file may enter a practice without being asked for again.   *)
Carried(file) ==
  /\ Issue(file.fields) # Absent
  /\ ~(file.state \in {"asking_problem_summary", "intake_complete"} /\ HasCompleteIdentity(file.fields))

ApartFromIdentity(fields) == \A f \in IdentityFields : fields[f] # Issue(fields)

(* The issues on file at the start that are carried into a practice are    *)
(* answers of their own.                                                   *)
OwnIssuesAtStart ==
  \A s \in Subjects : Carried(StartFiles[s]) =>
    /\ ApartFromIdentity(StartFiles[s].fields)
    /\ \A p \in StartPractices : Issue(p.fields) # Issue(StartFiles[s].fields)
    /\ \A t \in Subjects \ {s} :
         Carried(StartFiles[t]) => Issue(StartFiles[t].fields) # Issue(StartFiles[s].fields)

(* A handler at one of these labels has decided what its message answers.  *)
Decided == HoldsRecord \cup {"dispatch", "mark"}

(* A message that was taken for an answer, or will not be any more.        *)
Used(m) == m \in processed \/ \E h \in Handlers : handler[h].pc \in Decided /\ Msg(h) = m

UsedIn(fields) == \A f \in FieldNames : fields[f] \in Messages => Used(fields[f])

(* The issue of client s is his own, and none of the practices opened has  *)
(* it.                                                                     *)
OwnIssue(s, fields, opened) ==
  /\ ApartFromIdentity(fields)
  /\ \A p \in opened : Issue(p.fields) # Issue(fields)
  /\ \/ Issue(fields) \in Messages
     \/ Carried(StartFiles[s]) /\ Issue(fields) = Issue(StartFiles[s].fields)

(* What a handler in state r, at work on the client with this file, has of *)
(* the issue: none when his consent was granted just now; one of his own   *)
(* in the record it writes, and another message than the one that brings   *)
(* the record to its end.                                                  *)
SoundIssue(r, file, opened) ==
  /\ r.pc \in {"idle", "accept", "consent"} => ~r.justGranted
  /\ r.pc = "consentEvent" \/ (r.pc = "intake" /\ r.justGranted) => Issue(file.fields) = Absent
  /\ r.pc \in HoldsRecord =>
       /\ Carried(r.next) \/ r.next.state = "intake_complete" =>
            OwnIssue(Sender[Head(r.queue)], r.next.fields, opened)
       /\ r.next.state = "intake_complete" => Issue(r.next.fields) # Head(r.queue)

(* The inductive strengthening of LegalIssueIsItsOwnMessage.  Once the     *)
(* codes have run out no practice is opened.                               *)
IssueInv ==
  NothingFails /\ WholeStart /\ OwnIssuesAtStart =>
    /\ LegalIssueIsItsOwnMessage
    /\ FreeCodes # {} =>
         /\ \A s \in Subjects :
              /\ UsedIn(intake[s].fields)
              /\ Carried(intake[s]) /\ Written(s) => OwnIssue(s, intake[s].fields, practices)
         /\ \A p \in practices : UsedIn(p.fields)
         /\ \A h \in Handlers : SoundIssue(handler[h], FileOf(h), practices)

(* In such a run time never runs out and every statement succeeds.         *)
LEMMA NoFaults ==
  ASSUME NothingFails, IndInv
  PROVE  StatementsSucceed /\ timeouts = 0
BY DEF NothingFails, StatementsSucceed, IndInv, TypeOK

(* A message that a handler has still to decide on was used nowhere.       *)
LEMMA Undecided ==
  ASSUME IndInv, AloneInv, CompletionInv, NothingFails, WholeStart,
         NEW h \in Handlers, handler[h].pc \in {"consent", "consentEvent", "intake"}
  PROVE  ~Used(Msg(h))
<1>1. Msg(h) \notin processed
  BY NoFaults DEF CompletionInv, Client, Gated
<1>2. ASSUME NEW g \in Handlers, handler[g].pc \in Decided
      PROVE  Msg(g) # Msg(h)
  BY <1>2, NoFaults, DistinctMessages DEF Decided, HoldsRecord, Gated
<1> QED
  BY <1>1, <1>2 DEF Used

(* A used message stays used, unless its handler drops it unprocessed.     *)
LEMMA UsedKept ==
  ASSUME NEW h \in Handlers, \A g \in Handlers : g # h => handler'[g] = handler[g],
         processed \subseteq processed',
         handler[h].pc \in Decided =>
           Msg(h) \in processed' \/ (handler'[h].pc \in Decided /\ handler'[h].queue = handler[h].queue),
         NEW m, Used(m)
  PROVE  Used(m)'
<1>1. CASE m \in processed
  BY <1>1 DEF Used
<1>2. ASSUME NEW g \in Handlers, handler[g].pc \in Decided, Msg(g) = m
      PROVE  m \in processed' \/ \E k \in Handlers : handler'[k].pc \in Decided /\ Msg(k)' = m
  BY <1>2 DEF Msg
<1> QED
  BY <1>1, <1>2 DEF Used

(* A step of a handler that runs alone keeps the invariant if it keeps     *)
(* what is said of this handler, of the files and of the practices.        *)
LEMMA IssueKept ==
  ASSUME IssueInv, NothingFails, WholeStart, OwnIssuesAtStart, NEW h \in Handlers, Quiet(h),
         \A g \in Handlers : g # h => handler'[g] = handler[g],
         LegalIssueIsItsOwnMessage',
         FreeCodes' # {} =>
           /\ FreeCodes # {}
           /\ \A s \in Subjects :
                /\ UsedIn(intake[s].fields)'
                /\ Carried(intake'[s]) /\ (handler'[h].pc \in HoldsRecord => Subject(h)' # s)
                     => OwnIssue(s, intake'[s].fields, practices')
           /\ \A p \in practices' : UsedIn(p.fields)'
           /\ SoundIssue(handler'[h], FileOf(h)', practices')
  PROVE  IssueInv'
<1> SUFFICES ASSUME FreeCodes' # {}
             PROVE  /\ \A s \in Subjects :
                         /\ UsedIn(intake[s].fields)'
                         /\ Carried(intake'[s]) /\ Written(s)' => OwnIssue(s, intake'[s].fields, practices')
                    /\ \A p \in practices' : UsedIn(p.fields)'
                    /\ \A g \in Handlers : SoundIssue(handler'[g], FileOf(g)', practices')
  BY DEF IssueInv, NothingFails, WholeStart, OwnIssuesAtStart
<1>1. ASSUME NEW g \in Handlers, g # h
      PROVE  SoundIssue(handler'[g], FileOf(g)', practices')
  <2>1. handler'[g] = handler[g] /\ handler[g].pc \in {"idle", "dispatch"}
    BY <1>1 DEF Quiet
  <2>2. handler[g].pc = "idle" => ~handler[g].justGranted
    BY DEF IssueInv, SoundIssue
  <2> QED
    BY <2>1, <2>2 DEF SoundIssue, HoldsRecord, Gated
<1>2. ASSUME NEW s \in Subjects, Written(s)'
      PROVE  handler'[h].pc \in HoldsRecord => Subject(h)' # s
  BY <1>2 DEF Written
<1> QED
  BY <1>1, <1>2

(* What a questionnaire has next carries an issue of its own, if what is   *)
(* on file does and the message was used nowhere yet.                      *)
LEMMA NextIssue ==
  ASSUME NEW V, NEW file \in Files(V), NEW c \in Contents, NEW m \in Messages, NEW s, NEW opened,
         NEW justGranted, justGranted => Issue(file.fields) = Absent,
         file.state = "asking_attachments" => AnswersAll(file.fields),
         Carried(file) => OwnIssue(s, file.fields, opened),
         \A f \in FieldNames : file.fields[f] # m, \A p \in opened : Issue(p.fields) # m,
         NEW next \in NextRecords(file, c, justGranted, m)
  PROVE  /\ Carried(next) \/ next.state = "intake_complete" => OwnIssue(s, next.fields, opened)
         /\ next.state = "intake_complete" => Issue(next.fields) # m
<1> USE DEF Files, Issue
<1>1. CASE next = [file EXCEPT !.state = "asking_problem_summary"] /\ StartsNewRequest(file)
  <2>1. next.state = "asking_problem_summary" /\ next.fields = file.fields
    BY <1>1
  <2> QED
    BY <1>1, <2>1 DEF StartsNewRequest, Carried
<1>2. CASE /\ next = [file EXCEPT !.state = "asking_identity"]
           /\ Carried(file) \/ Issue(file.fields) = Absent
  <2>1. next.state = "asking_identity" /\ next.fields = file.fields
    BY <1>2
  <2> QED
    BY <1>2, <2>1 DEF Carried
<1>3. CASE next \in AnswerIdentity(file, c, m) /\ file.state = "asking_identity"
  <2> DEFINE fields == ExtractIdentity(file.fields, c, m)
  <2>1. next.fields = fields /\ next.state # "intake_complete"
    BY <1>3 DEF AnswerIdentity
  <2>2. /\ \A f \in IdentityFields : fields[f] \in {file.fields[f], m}
        /\ fields["problemSummary"] = file.fields["problemSummary"]
    BY DEF ExtractIdentity, Contents, FieldNames, IdentityFields
  <2> HIDE DEF fields
  <2>3. ASSUME Carried(next)
        PROVE  OwnIssue(s, file.fields, opened) /\ Issue(file.fields) # m
    BY <1>3, <2>1, <2>2, <2>3 DEF Carried, FieldNames
  <2> QED
    BY <2>1, <2>2, <2>3 DEF OwnIssue, ApartFromIdentity
<1>4. CASE next \in AnswerAttachments(file, c, m) /\ file.state = "asking_attachments"
  <2>1. \A f \in IdentityFields \cup {"problemSummary"} : next.fields[f] = file.fields[f]
    BY <1>4 DEF AnswerAttachments, IdentityFields, FieldNames
  <2>2. OwnIssue(s, file.fields, opened) /\ Issue(file.fields) # m
    BY <1>4 DEF Carried, AnswersAll, FieldNames
  <2> QED
    BY <2>1, <2>2 DEF OwnIssue, ApartFromIdentity
<1>5. CASE next \in AnswerProblemSummary(file, c, m) /\ HasCompleteIdentity(file.fields)
  <2>1. next.state = "asking_attachments" /\ next.fields = [file.fields EXCEPT !["problemSummary"] = m]
    BY <1>5 DEF AnswerProblemSummary
  <2>2. /\ next.fields["problemSummary"] = m
        /\ \A f \in IdentityFields : next.fields[f] = file.fields[f] /\ f \in FieldNames
    BY <2>1 DEF FieldNames, IdentityFields
  <2> QED
    BY <2>1, <2>2 DEF OwnIssue, ApartFromIdentity
<1>6. CASE /\ next \in AnswerProblemSummary(file, c, m) /\ ~HasCompleteIdentity(file.fields)
  <2>1. next = [file EXCEPT !.state = "asking_identity"]
    BY <1>6 DEF AnswerProblemSummary
  <2>2. Carried(file) \/ Issue(file.fields) = Absent
    BY <1>6 DEF Carried
  <2> QED
    BY <1>2, <2>1, <2>2
<1>7. CASE next = [file EXCEPT !.state = "asking_identity"] /\ (justGranted \/ file.state = "not_started")
  <2>1. Carried(file) \/ Issue(file.fields) = Absent
    BY <1>7 DEF Carried
  <2> QED
    BY <1>2, <1>7, <2>1
<1> QED
  BY <1>1, <1>3, <1>4, <1>5, <1>6, <1>7 DEF NextRecords

(* A step that writes no file and no practice keeps the invariant if it    *)
(* keeps what is said of its handler.                                      *)
LEMMA IssueUntouched ==
  ASSUME IssueInv, NothingFails, WholeStart, OwnIssuesAtStart, NEW h \in Handlers, Quiet(h),
         \A g \in Handlers : g # h => handler'[g] = handler[g],
         UNCHANGED <<intake, practices, lastCode>>, processed \subseteq processed',
         FreeCodes # {} =>
           /\ handler[h].pc \notin HoldsRecord
           /\ handler[h].pc \in Decided =>
                Msg(h) \in processed' \/ (handler'[h].pc \in Decided /\ handler'[h].queue = handler[h].queue)
           /\ SoundIssue(handler'[h], FileOf(h)', practices)
  PROVE  IssueInv'
<1>1. FreeCodes' = FreeCodes
  BY DEF FreeCodes
<1>2. LegalIssueIsItsOwnMessage'
  BY DEF IssueInv, LegalIssueIsItsOwnMessage
<1>3. ASSUME FreeCodes # {}
      PROVE  /\ \A s \in Subjects :
                  /\ UsedIn(intake[s].fields)'
                  /\ Carried(intake[s]) => OwnIssue(s, intake[s].fields, practices)
             /\ \A p \in practices : UsedIn(p.fields)'
  <2>1. \A m : Used(m) => Used(m)'
    BY <1>3, UsedKept
  <2>2. \A s \in Subjects : UsedIn(intake[s].fields)'
    BY <1>3, <2>1 DEF IssueInv, UsedIn
  <2>3. \A p \in practices : UsedIn(p.fields)'
    BY <1>3, <2>1 DEF IssueInv, UsedIn
  <2>4. \A s \in Subjects : Written(s)
    BY <1>3, OnlyItWrites
  <2> QED
    BY <1>3, <2>2, <2>3, <2>4 DEF IssueInv
<1> QED
  BY <1>1, <1>2, <1>3, IssueKept

(* The steps around the client runtime, and the practice that is refused   *)
(* because the codes ran out.                                              *)
LEMMA IssueStill ==
  ASSUME IndInv, CompletionInv, IssueInv, NothingFails, WholeStart, OwnIssuesAtStart, NEW h \in Handlers,
         \/ Acknowledge(h) \/ SkipDuplicate(h) \/ RejectBlank(h) \/ Route(h) \/ RefusePractice(h)
         \/ DispatchReply(h) \/ MarkProcessed(h) \/ \E w \in Webhooks : Deliver(h, w)
  PROVE  IssueInv'
<1> DEFINE r == handler[h]
           Unasked == {"idle", "accept", "consent"}
           Still == /\ \A g \in Handlers : g # h => handler'[g] = handler[g]
                    /\ Quiet(h) /\ UNCHANGED <<intake, practices, lastCode>>
                    /\ processed \subseteq processed'
                    /\ r.pc \in HoldsRecord => FreeCodes = {}
                    /\ r.pc \in Decided \ HoldsRecord =>
                         Msg(h) \in processed' \/ (handler'[h].pc \in Decided /\ handler'[h].queue = r.queue)
                    /\ handler'[h].pc \in Unasked \cup {"dispatch", "mark"}
                    /\ handler'[h].pc \in Unasked =>
                         ~handler'[h].justGranted \/ (r.pc \in Unasked /\ handler'[h].justGranted = r.justGranted)
<1>1. handler \in [Handlers -> HandlerStates] /\ r \in HandlerStates
  BY DEF IndInv, TypeOK
<1>2. Still
  <2> USE DEF At, Goto, Abort, HandlerStates, intakeT, practiceT, HoldsRecord, Gated, Decided
  <2>1. CASE Acknowledge(h)
    BY <1>1, <2>1 DEF Acknowledge, Idle
  <2>2. CASE SkipDuplicate(h)
    BY <1>1, <2>2 DEF SkipDuplicate
  <2>3. CASE RejectBlank(h)
    BY <1>1, <2>3 DEF RejectBlank, Idle
  <2>4. CASE Route(h)
    BY <1>1, <2>4 DEF Route
  <2>5. CASE RefusePractice(h)
    <3>1. FreeCodes = {}
      BY <2>5, NoFaults, PracticeIsReady DEF RefusePractice, CanCreatePractice
    <3> QED
      BY <1>1, <2>5, <3>1 DEF RefusePractice, Idle
  <2>6. CASE DispatchReply(h)
    BY <1>1, <2>6 DEF DispatchReply
  <2>7. CASE MarkProcessed(h)
    BY <1>1, <2>7 DEF MarkProcessed, Idle
  <2>8. ASSUME NEW w \in Webhooks, Deliver(h, w)
        PROVE  Still
    BY <1>1, <2>8 DEF Deliver
  <2> QED
    BY <2>1, <2>2, <2>3, <2>4, <2>5, <2>6, <2>7, <2>8
<1>3. ASSUME FreeCodes # {}
      PROVE  SoundIssue(handler'[h], FileOf(h)', practices)
  <2>1. r.pc \in Unasked => ~r.justGranted
    BY <1>3 DEF IssueInv, SoundIssue
  <2> QED
    BY <1>2, <2>1 DEF SoundIssue, HoldsRecord, Gated
<1> HIDE DEF Unasked
<1> QED
  BY <1>2, <1>3, IssueUntouched

(* The client runtime grants consent to those only who have no issue.      *)
LEMMA IssueConsents ==
  ASSUME IndInv, ConsentGate, IssueInv, NothingFails, WholeStart, OwnIssuesAtStart, NEW h \in Handlers,
         ResolveConsent(h) \/ AppendConsentEvent(h)
  PROVE  IssueInv'
<1> DEFINE r == handler[h]
           s == Subject(h)
<1>1. handler \in [Handlers -> HandlerStates] /\ r \in HandlerStates /\ s \in Subjects
  BY DEF ResolveConsent, AppendConsentEvent, At, IndInv, TypeOK, HandlersSound, Sound, Client, Subject, Msg
<1>2. /\ \A g \in Handlers : g # h => handler'[g] = handler[g]
      /\ Quiet(h) /\ UNCHANGED <<intake, practices, lastCode, processed>>
      /\ r.pc \in {"consent", "consentEvent"} /\ handler'[h].queue = r.queue
      /\ handler'[h].pc \in {"consentEvent", "intake", "dispatch"}
  <2> USE DEF At, Goto, HandlerStates, intakeT, practiceT
  <2>1. CASE ResolveConsent(h)
    BY <1>1, <2>1 DEF ResolveConsent, AfterConsent
  <2>2. CASE AppendConsentEvent(h)
    BY <1>1, <2>2 DEF AppendConsentEvent
  <2> QED
    BY <2>1, <2>2
<1>3. FileOf(h)' = FileOf(h)
  BY <1>2 DEF FileOf, Subject, Msg
<1>4. ASSUME FreeCodes # {}
      PROVE  SoundIssue(handler'[h], FileOf(h), practices)
  <2>1. SoundIssue(r, FileOf(h), practices)
    BY <1>4 DEF IssueInv
  <2>2. CASE ResolveConsent(h)
    <3>1. /\ r.pc = "consent" /\ handler'[h].justGranted = r.justGranted
          /\ handler'[h].pc = AfterConsent(consent[s], ConsentDecision(consent[s], content[Msg(h)]))
      BY <1>1, <2>2 DEF ResolveConsent, At, Goto, HandlerStates
    <3>2. ASSUME handler'[h].pc = "consentEvent"
          PROVE  Issue(FileOf(h).fields) = Absent
      <4>1. consent[s] # "granted"
        BY <3>1, <3>2 DEF AfterConsent, ConsentDecision
      <4>2. FileOf(h) = EmptyFile
        BY <1>1, <4>1 DEF ConsentGate, FileOf
      <4> QED
        BY <4>2 DEF EmptyFile, Issue, FieldNames
    <3>3. ~handler'[h].justGranted
      BY <2>1, <3>1 DEF SoundIssue
    <3> QED
      BY <1>2, <3>2, <3>3 DEF SoundIssue, HoldsRecord, Gated
  <2>3. CASE AppendConsentEvent(h)
    <3>1. r.pc = "consentEvent" /\ handler'[h].pc \in {"intake", "dispatch"}
      BY <1>1, <2>3 DEF AppendConsentEvent, At, HandlerStates
    <3> QED
      BY <2>1, <3>1 DEF SoundIssue, HoldsRecord, Gated
  <2> QED
    BY <2>2, <2>3
<1>5. r.pc \notin HoldsRecord /\ r.pc \notin Decided
  BY <1>2 DEF HoldsRecord, Decided, Gated
<1> QED
  BY <1>2, <1>3, <1>4, <1>5, IssueUntouched

(* The record decided on has an issue of its own: the message it reacts to *)
(* is in no file and no practice yet.                                      *)
LEMMA IssueResolves ==
  ASSUME IndInv, AloneInv, CompletionInv, IssueInv, NothingFails, WholeStart, OwnIssuesAtStart,
         NEW h \in Handlers, ResolveIntake(h)
  PROVE  IssueInv'
<1> DEFINE m == Msg(h)
           records == NextRecords(FileOf(h), content[m], handler[h].justGranted, m)
<1>1. /\ \A g \in Handlers : g # h => handler'[g] = handler[g]
      /\ handler'[h].queue = handler[h].queue
      /\ UNCHANGED <<intake, practices, lastCode, processed>>
      /\ handler[h].pc = "intake" /\ m \in Messages /\ Subject(h) \in Subjects
      /\ FileOf(h) \in Files(Values) /\ content[m] \in Contents
      /\ \/ handler'[h].pc = "dispatch"
         \/ /\ handler'[h].next \in records
            /\ handler'[h].pc \in {"state", "field", "practice", "dispatch"}
  <2>1. ASSUME NEW next \in records, handler'[h].next = next,
               handler'[h].pc = IF next.state # FileOf(h).state THEN "state"
                                ELSE AfterWriting(next, Changed(FileOf(h), next))
        PROVE  handler'[h].pc \in {"state", "field", "practice", "dispatch"}
    BY <2>1 DEF AfterWriting
  <2> QED
    BY <2>1, Resolves
<1>2. Quiet(h) /\ handler[h].pc \notin HoldsRecord /\ handler[h].pc \notin Decided
  BY <1>1 DEF ResolveIntake, HoldsRecord, Decided, Gated
<1>3. FileOf(h)' = FileOf(h)
  BY <1>1 DEF FileOf, Subject, Msg
<1>4. ~Used(m)
  BY <1>1, Undecided
<1>5. ASSUME FreeCodes # {}
      PROVE  SoundIssue(handler'[h], FileOf(h), practices)
  <2>1. CASE handler'[h].pc = "dispatch"
    BY <2>1 DEF SoundIssue, HoldsRecord, Gated
  <2>2. CASE handler'[h].next \in records /\ handler'[h].pc \in {"state", "field", "practice"}
    <3>1. /\ handler[h].justGranted => Issue(FileOf(h).fields) = Absent
          /\ UsedIn(FileOf(h).fields) /\ \A p \in practices : UsedIn(p.fields)
      BY <1>1, <1>5 DEF IssueInv, SoundIssue, FileOf
    <3>2. /\ FileOf(h).state = "asking_attachments" => AnswersAll(FileOf(h).fields)
          /\ Carried(FileOf(h)) => OwnIssue(Subject(h), FileOf(h).fields, practices)
      <4>1. Written(Subject(h))
        BY <1>2, OnlyItWrites
      <4> QED
        BY <1>1, <1>5, <4>1, NoFaults DEF IssueInv, CompletionInv, FileOf
    <3>3. /\ \A f \in FieldNames : FileOf(h).fields[f] # m
          /\ \A p \in practices : Issue(p.fields) # m
      BY <1>1, <1>4, <3>1 DEF UsedIn, Issue, FieldNames
    <3> DEFINE next == handler'[h].next
               file == FileOf(h)
               justGranted == handler[h].justGranted
    <3>4. /\ file \in Files(Values) /\ content[m] \in Contents /\ m \in Messages
          /\ next \in NextRecords(file, content[m], justGranted, m)
          /\ justGranted => Issue(file.fields) = Absent
          /\ file.state = "asking_attachments" => AnswersAll(file.fields)
          /\ Carried(file) => OwnIssue(Subject(h), file.fields, practices)
          /\ \A f \in FieldNames : file.fields[f] # m
      BY <1>1, <2>2, <3>1, <3>2, <3>3
    <3> HIDE DEF m, next, file, justGranted
    <3>5. /\ Carried(next) \/ next.state = "intake_complete" => OwnIssue(Subject(h), next.fields, practices)
          /\ next.state = "intake_complete" => Issue(next.fields) # m
      BY <3>3, <3>4, NextIssue
    <3> QED
      BY <1>1, <2>2, <3>5 DEF SoundIssue, Subject, Msg, m, next
  <2> QED
    BY <1>1, <2>1, <2>2
<1> HIDE DEF m, records
<1> QED
  BY <1>1, <1>2, <1>3, <1>5, IssueUntouched

(* Writing a record carries its issue into the file.                       *)
LEMMA IssueWrites ==
  ASSUME IndInv, LogInv, CompletionInv, IssueInv, NothingFails, WholeStart, OwnIssuesAtStart,
         NEW h \in Handlers,
         SetIntakeState(h) \/ AppendStateEvent(h) \/ SetIntakeField(h) \/ AppendFieldEvent(h)
  PROVE  IssueInv'
<1> DEFINE r == handler[h]
           f == First(r.left)
           s == Subject(h)
<1>1. /\ Quiet(h) /\ s \in Subjects /\ Msg(h) \in Messages
      /\ Subject(h)' = s /\ FileOf(h)' = intake'[s]
      /\ \A t \in Subjects : t # s => intake'[t] = intake[t]
      /\ \A e \in FieldNames : intake'[s].fields[e] =
           IF SetIntakeField(h) /\ e = f THEN r.next.fields[f] ELSE intake[s].fields[e]
      /\ intake'[s].state = r.next.state
      /\ \A e \in FieldNames \ handler'[h].left : intake'[s].fields[e] = r.next.fields[e]
      /\ SetIntakeField(h) => r.pc = "field"
  BY NoFaults, FileNearer DEF SetIntakeField, At
<1>2. /\ \A g \in Handlers : g # h => handler'[g] = handler[g]
      /\ handler'[h].queue = r.queue /\ handler'[h].next = r.next
      /\ r.pc \in HoldsRecord /\ r.next \in Files(Values)
      /\ r.pc \in {"field", "fieldEvent"} => f \in r.left
      /\ handler'[h].pc = CASE r.pc = "state" -> "stateEvent"
                            [] r.pc = "field" -> "fieldEvent"
                            [] OTHER -> AfterWriting(r.next, handler'[h].left)
      /\ UNCHANGED <<practices, lastCode, processed>>
  BY Writes
<1>3. /\ handler'[h].pc \in {"stateEvent", "field", "fieldEvent", "practice", "dispatch"}
      /\ handler'[h].pc = "dispatch" => handler'[h].left = {}
  BY <1>2 DEF AfterWriting
<1>4. handler'[h].pc \in Decided
  BY <1>3 DEF Decided, HoldsRecord, Gated
<1>5. FreeCodes' = FreeCodes /\ LegalIssueIsItsOwnMessage'
  BY <1>2 DEF FreeCodes, IssueInv, LegalIssueIsItsOwnMessage
<1>6. \A m : Used(m) => Used(m)'
  BY <1>2, <1>4, UsedKept
<1>7. ASSUME NEW m, m = Msg(h)
      PROVE  Used(m)'
  BY <1>2, <1>4, <1>7 DEF Used, Msg
<1>8. ASSUME SetIntakeField(h), r.next.fields[f] \in Messages
      PROVE  r.next.fields[f] = Msg(h)
  BY <1>1, <1>2, <1>8, NoFaults, WorldAssumption DEF LogInv, WritesItsMessage, WorldAssumption, Msg
<1>9. ASSUME FreeCodes # {}
      PROVE  /\ \A t \in Subjects : UsedIn(intake[t].fields)'
             /\ \A p \in practices : UsedIn(p.fields)'
  <2>1. \A t \in Subjects : UsedIn(intake[t].fields)
    BY <1>9 DEF IssueInv
  <2>2. ASSUME NEW t \in Subjects, NEW e \in FieldNames, intake'[t].fields[e] \in Messages
        PROVE  Used(intake[t].fields[e])'
    <3>1. CASE t = s /\ SetIntakeField(h) /\ e = f
      <4>1. intake'[t].fields[e] = Msg(h)
        BY <1>1, <1>8, <2>2, <3>1
      <4> QED
        BY <1>7, <4>1
    <3>2. CASE ~(t = s /\ SetIntakeField(h) /\ e = f)
      <4>1. intake'[t].fields[e] = intake[t].fields[e]
        BY <1>1, <3>2
      <4> QED
        BY <1>6, <2>1, <2>2, <4>1 DEF UsedIn
    <3> QED
      BY <3>1, <3>2
  <2>3. \A p \in practices : UsedIn(p.fields)'
    BY <1>6, <1>9 DEF IssueInv, UsedIn
  <2> QED
    BY <2>2, <2>3 DEF UsedIn
<1>10. ASSUME FreeCodes # {}
       PROVE  SoundIssue(r, FileOf(h), practices) /\ SoundIssue(handler'[h], FileOf(h)', practices)
  BY <1>2, <1>3, <1>10 DEF IssueInv, SoundIssue
<1>11. ASSUME FreeCodes # {}, NEW t \in Subjects, Carried(intake'[t]),
              handler'[h].pc \in HoldsRecord => Subject(h)' # t
       PROVE  OwnIssue(t, intake'[t].fields, practices)
  <2>1. CASE t # s
    <3>1. Written(t)
      BY <1>1, <2>1, OnlyItWrites
    <3> QED
      BY <1>1, <1>11, <2>1, <3>1 DEF IssueInv
  <2>2. CASE t = s
    <3>1. handler'[h].left = {}
      BY <1>1, <1>3, <1>11, <2>2 DEF HoldsRecord, Gated
    <3>2. \A e \in FieldNames : intake'[s].fields[e] = r.next.fields[e]
      BY <1>1, <3>1
    <3>3. Carried(r.next)
      BY <1>1, <1>11, <2>2, <3>2 DEF Carried, Issue, HasCompleteIdentity, FieldNames
    <3>4. OwnIssue(s, r.next.fields, practices)
      BY <1>2, <1>10, <1>11, <3>3 DEF SoundIssue, Subject, Msg
    <3> QED
      BY <2>2, <3>2, <3>4 DEF OwnIssue, ApartFromIdentity, Issue, FieldNames
  <2> QED
    BY <2>1, <2>2
<1> HIDE DEF r, s, f
<1> QED
  BY <1>1, <1>2, <1>5, <1>9, <1>10, <1>11, IssueKept

(* A practice takes the issue from the file, and no other client's file    *)
(* has it.                                                                 *)
LEMMA IssueOpens ==
  ASSUME IndInv, OwnInv, CompletionInv, IssueInv, NothingFails, WholeStart, OwnIssuesAtStart,
         NEW h \in Handlers, CreatePractice(h)
  PROVE  IssueInv'
<1> DEFINE r == handler[h]
           s == Subject(h)
           new == NewPractice(h, NextCode)
<1>1. /\ Quiet(h) /\ At(h, "practice") /\ r.pc \in HoldsRecord /\ r.pc \in Decided
      /\ handler'[h].pc = "dispatch" /\ handler'[h].pc \in Decided /\ handler'[h].queue = r.queue
      /\ \A g \in Handlers : g # h => handler'[g] = handler[g]
      /\ UNCHANGED <<intake, processed>>
  BY DEF CreatePractice, GotoDispatch, At, IndInv, TypeOK, HandlerStates, intakeT, Decided, HoldsRecord, Gated
<1>2. /\ Msg(h) \in Messages /\ s \in Subjects
      /\ FileOf(h).state = "intake_complete" /\ ReadyForPractice(FileOf(h))
      /\ r.next.state = "intake_complete"
      /\ \A f \in FieldNames : FileOf(h).fields[f] = r.next.fields[f]
  BY <1>1, NoFaults, PracticeIsReady
<1>3. \A m : Used(m) => Used(m)'
  BY <1>1, UsedKept
<1>4. FileOf(h)' = intake[s] /\ SoundIssue(handler'[h], FileOf(h)', practices')
  BY <1>1 DEF FileOf, Subject, Msg, SoundIssue, HoldsRecord, Gated
<1>5. \A t \in Subjects : UsedIn(intake[t].fields) => UsedIn(intake[t].fields)'
  BY <1>1, <1>3 DEF UsedIn
<1>6. \A p \in practices : UsedIn(p.fields) => UsedIn(p.fields)'
  BY <1>3 DEF UsedIn
<1>7. ASSUME NEW t \in Subjects, Carried(intake[t])
      PROVE  t # s /\ Written(t)
  <2>1. ~Carried(FileOf(h))
    BY <1>2 DEF Carried, ReadyForPractice, HasCompleteIdentity
  <2>2. t # s
    BY <1>7, <2>1 DEF FileOf
  <2> QED
    BY <1>1, <2>2, OnlyItWrites
<1>8. CASE UNCHANGED practiceT
  <2>1. UNCHANGED <<practices, lastCode>> /\ FreeCodes' = FreeCodes
    BY <1>8 DEF practiceT, FreeCodes
  <2>2. LegalIssueIsItsOwnMessage'
    BY <2>1 DEF IssueInv, LegalIssueIsItsOwnMessage
  <2>3. ASSUME FreeCodes # {}
        PROVE  /\ \A t \in Subjects :
                    /\ UsedIn(intake[t].fields)'
                    /\ Carried(intake'[t]) => OwnIssue(t, intake'[t].fields, practices')
               /\ \A p \in practices' : UsedIn(p.fields)'
    BY <1>1, <1>5, <1>6, <1>7, <2>1, <2>3 DEF IssueInv
  <2> QED
    BY <1>1, <1>4, <2>1, <2>2, <2>3, IssueKept
<1>9. CASE practices' = practices \cup {new} /\ FreeCodes # {}
  <2>1. new.source = Msg(h) /\ new.fields = FileOf(h).fields
    BY DEF NewPractice
  <2>2. OwnIssue(s, FileOf(h).fields, practices) /\ Issue(FileOf(h).fields) # Msg(h)
    <3>1. OwnIssue(s, r.next.fields, practices) /\ Issue(r.next.fields) # Msg(h)
      BY <1>1, <1>2, <1>9 DEF IssueInv, SoundIssue, Subject, Msg
    <3> QED
      BY <1>2, <3>1 DEF OwnIssue, ApartFromIdentity, Issue, FieldNames
  <2>3. ASSUME NEW t \in Subjects, Carried(intake[t])
        PROVE  OwnIssue(t, intake[t].fields, practices')
    <3>1. t # s /\ OwnIssue(t, intake[t].fields, practices)
      BY <1>7, <1>9, <2>3 DEF IssueInv
    <3>2. /\ Issue(intake[t].fields) \in Messages => Sender[Issue(intake[t].fields)] = t
          /\ Issue(FileOf(h).fields) \in Messages => Sender[Issue(FileOf(h).fields)] = s
      BY <1>2 DEF OwnInv, OwnedBy, Issue, FieldNames, FileOf
    <3>3. \A c \in Subjects : Issue(StartFiles[c].fields) \notin Messages
      BY StartAssumption DEF StartAssumption, Issue, FieldNames
    <3>4. Issue(intake[t].fields) # Issue(FileOf(h).fields)
      BY <1>2, <2>2, <3>1, <3>2, <3>3 DEF OwnIssue, OwnIssuesAtStart
    <3> HIDE DEF new
    <3> QED
      BY <1>9, <2>1, <3>1, <3>4 DEF OwnIssue
  <2>4. UsedIn(intake[s].fields)
    BY <1>2, <1>9 DEF IssueInv
  <2>5. LegalIssueIsItsOwnMessage'
    <3>1. /\ \A f \in IdentityFields : new.fields[f] # Issue(new.fields)
          /\ new.source # Issue(new.fields)
          /\ \A q \in practices : Issue(q.fields) # Issue(new.fields)
      BY <2>1, <2>2 DEF OwnIssue, ApartFromIdentity
    <3> HIDE DEF new
    <3> QED
      BY <1>9, <3>1 DEF IssueInv, LegalIssueIsItsOwnMessage, Issue
  <2>6. /\ \A t \in Subjects : UsedIn(intake[t].fields)'
        /\ \A p \in practices : UsedIn(p.fields)'
    BY <1>5, <1>6, <1>9 DEF IssueInv
  <2>7. \A p \in practices' : UsedIn(p.fields)'
    <3>1. UsedIn(FileOf(h).fields)
      BY <2>4 DEF FileOf
    <3>2. ASSUME NEW p \in practices', p = new
          PROVE  UsedIn(p.fields)'
      BY <1>3, <2>1, <3>1, <3>2 DEF UsedIn
    <3> HIDE DEF new
    <3> QED
      BY <1>9, <2>6, <3>2
  <2> HIDE DEF new
  <2> QED
    BY <1>1, <1>4, <1>9, <2>3, <2>5, <2>6, <2>7, IssueKept
<1> HIDE DEF new
<1> QED
  BY <1>8, <1>9 DEF CreatePractice, CanCreatePractice, new

(* No step uses an issue twice as long as nothing fails.                   *)
LEMMA IssueNext ==
  ASSUME IndInv, OwnInv, AloneInv, LogInv, CompletionInv, ConsentGate, IssueInv, [Next]_vars
  PROVE  IssueInv'
<1> SUFFICES ASSUME NothingFails, WholeStart, OwnIssuesAtStart PROVE IssueInv'
  BY DEF IssueInv, NothingFails, WholeStart, OwnIssuesAtStart
<1>1. CASE Send \/ UNCHANGED vars
  <2>1. UNCHANGED <<processed, intake, practices, lastCode, handler>>
    BY <1>1 DEF Send, vars, intakeT, practiceT
  <2> QED
    BY <2>1 DEF IssueInv, LegalIssueIsItsOwnMessage, FreeCodes, UsedIn, Used, Written, FileOf, Subject, Msg
<1>2. ASSUME NEW h \in Handlers, GiveUp(h) \/ DispatchFails(h) \/ PersistenceFails(h) \/ Crash
      PROVE  FALSE
  BY <1>2 DEF GiveUp, DispatchFails, PersistenceFails, Crash, Fault, NothingFails, IndInv, TypeOK
<1>3. ~Crash
  BY DEF Crash, Fault, NothingFails
<1> QED
  BY <1>1, <1>2, <1>3, IssueStill, IssueConsents, IssueResolves, IssueWrites, IssueOpens
  DEF Next, Step

(* As long as nothing fails and Meta waits for every answer, the legal     *)
(* issue of a practice is a message of its own, however deliveries of      *)
(* different webhooks overlap and whatever clients write: the message that *)
(* was asked for it and no answer to another question, of this practice or *)
(* of another (intake.ts; a failure between two statements can break it).  *)
THEOREM IssueIsItsOwn ==
  NothingFails /\ WholeStart /\ OwnIssuesAtStart /\ Spec => []LegalIssueIsItsOwnMessage
<1>1. Init => IssueInv
  <2> SUFFICES ASSUME Init, OwnIssuesAtStart PROVE IssueInv
    BY DEF IssueInv
  <2>1. \A s \in Subjects : UsedIn(intake[s].fields)
    BY StartAssumption DEF Init, StartAssumption, UsedIn
  <2>2. \A p \in practices : UsedIn(p.fields)
    BY StartAssumption DEF Init, StartAssumption, UsedIn
  <2>3. \A s \in Subjects : Carried(intake[s]) => OwnIssue(s, intake[s].fields, practices)
    BY DEF Init, OwnIssuesAtStart, OwnIssue
  <2>4. \A h \in Handlers : SoundIssue(handler[h], FileOf(h), practices)
    BY DEF Init, Idle, SoundIssue, HoldsRecord, Gated
  <2>5. LegalIssueIsItsOwnMessage
    BY DEF Init, LegalIssueIsItsOwnMessage
  <2> QED
    BY <2>1, <2>2, <2>3, <2>4, <2>5 DEF IssueInv
<1>2. Spec => []IssueInv
  BY IndInit, IndNext, OwnInitially, OwnNext, AloneInitially, AloneNext, LogInitially, LogNext,
     CompletionInitially, CompletionNext, ConsentGateHolds, IssueNext, <1>1, PTL DEF Spec
<1>3. CASE NothingFails /\ WholeStart /\ OwnIssuesAtStart
  <2>1. IssueInv => LegalIssueIsItsOwnMessage
    BY <1>3 DEF IssueInv
  <2> QED
    BY <1>2, <2>1, PTL
<1> QED
  BY <1>3
=============================================================================
