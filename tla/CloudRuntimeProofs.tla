------------------------- MODULE CloudRuntimeProofs -------------------------
(***************************************************************************)
(* Theorems about CloudRuntime for every set of clients, messages,         *)
(* webhooks and handlers, every start database and every bound on the      *)
(* faults.                                                                 *)
(***************************************************************************)
EXTENDS CloudRuntime, TLAPS, SequenceTheorems, FiniteSetTheorems

-----------------------------------------------------------------------------
(* What the labels of a handler entail for the rest of its local state.    *)

(* Labels of the client runtime, and of its part behind the consent gate.  *)
Gated  == {"intake", "state", "stateEvent", "field", "fieldEvent", "practice"}
Client == Gated \cup {"consent", "consentEvent"}

(* A handler in state r works on a message of a client whose consent,      *)
(* among those agreed, lets it be where it is.                             *)
Sound(r, agreed) ==
  /\ r.pc \notin {"idle", "accept"} => r.queue # <<>>
  /\ r.pc \in Client => Sender[Head(r.queue)] \in Subjects
  /\ r.pc = "consentEvent" => agreed[Sender[Head(r.queue)]] \in {"granted", "denied"}
  /\ r.pc \in Gated => agreed[Sender[Head(r.queue)]] = "granted"
  /\ r.pc \in {"field", "fieldEvent"} => r.left # {}

HandlersSound == \A h \in Handlers : Sound(handler[h], consent)

CodesBounded == \A p \in practices : p.code <= lastCode

(* The inductive strengthening of TypeOK.                                  *)
IndInv == TypeOK /\ HandlersSound /\ CodesBounded

-----------------------------------------------------------------------------
(* Lemmas about the operators of the model.                                *)

(* A questionnaire and the message it reacts to yield questionnaires.      *)
LEMMA NextRecordsType ==
  ASSUME NEW V, Absent \in V, NoFiles \in V,
         NEW file \in Files(V), NEW c \in Contents, NEW m \in V, NEW justGranted \in BOOLEAN
  PROVE  NextRecords(file, c, justGranted, m) \subseteq Files(V)
<1> USE DEF Files
<1>1. \A f \in FieldNames, v \in V : [file.fields EXCEPT ![f] = v] \in [FieldNames -> V]
  OBVIOUS
<1>2. ExtractIdentity(file.fields, c, m) \in [FieldNames -> V]
  BY DEF ExtractIdentity
<1>3. \A s \in IntakeStates : [file EXCEPT !.state = s] \in Files(V)
  OBVIOUS
<1>4. {"asking_identity", "asking_problem_summary", "asking_attachments", "intake_complete"}
        \subseteq IntakeStates
  BY DEF IntakeStates
<1>5. {"problemSummary", "attachmentMetadata"} \subseteq FieldNames
  BY DEF FieldNames
<1>6. AnswerIdentity(file, c, m) \subseteq Files(V)
  BY <1>2, <1>4 DEF AnswerIdentity
<1>7. AnswerAttachments(file, c, m) \subseteq Files(V)
  BY <1>1, <1>4, <1>5 DEF AnswerAttachments
<1>8. AnswerProblemSummary(file, c, m) \subseteq Files(V)
  BY <1>1, <1>3, <1>4, <1>5 DEF AnswerProblemSummary
<1> QED
  BY <1>3, <1>4, <1>6, <1>7, <1>8 DEF NextRecords

(* Some field of a non-empty set is the first of them to be written.       *)
LEMMA FirstFieldExists ==
  ASSUME NEW left \in SUBSET FieldNames, left # {}
  PROVE  \E f \in left : \A g \in left : FieldRank[f] <= FieldRank[g]
<1> USE DEF FieldNames, IdentityFields, FieldRank
<1>1. CASE "firstName" \in left
  BY <1>1
<1>2. CASE "lastName" \in left /\ "firstName" \notin left
  BY <1>2
<1>3. CASE "birthDate" \in left /\ left \cap {"firstName", "lastName"} = {}
  BY <1>3
<1>4. CASE "city" \in left /\ left \subseteq {"city", "problemSummary", "attachmentMetadata"}
  BY <1>4
<1>5. CASE "problemSummary" \in left /\ left \subseteq {"problemSummary", "attachmentMetadata"}
  BY <1>5
<1>6. CASE left = {"attachmentMetadata"}
  BY <1>6
<1> QED
  BY <1>1, <1>2, <1>3, <1>4, <1>5, <1>6

LEMMA FirstLeftType ==
  ASSUME NEW h, handler[h].left \in SUBSET FieldNames, handler[h].left # {}
  PROVE  FirstLeft(h) \in handler[h].left
BY FirstFieldExists DEF FirstLeft

(* With the codes bounded, the code allocated is the one after the last.   *)
LEMMA NextCodeIsNext ==
  ASSUME lastCode \in Nat, MaxCode \in Nat, CodesBounded, FreeCodes # {},
         \A p \in practices : p.code \in Nat
  PROVE  NextCode = lastCode + 1 /\ lastCode < MaxCode
<1>1. FreeCodes = lastCode + 1 .. MaxCode
  BY DEF FreeCodes, CodesBounded
<1>2. lastCode + 1 \in FreeCodes /\ \A c \in FreeCodes : lastCode + 1 <= c /\ c \in Nat
  BY <1>1
<1>3. \A c \in FreeCodes : (\A d \in FreeCodes : c <= d) => c = lastCode + 1
  BY <1>2
<1>4. NextCode = lastCode + 1
  BY <1>2, <1>3 DEF NextCode
<1> QED
  BY <1>1, <1>4

-----------------------------------------------------------------------------
(* Preservation of IndInv *)

(* What the constants and the operators defined from them are.             *)
LEMMA Constants ==
  /\ Messages \subseteq Values /\ Absent \in Values /\ NoFiles \in Values
  /\ EmptyFile \in Files(Values)
  /\ \A m \in Messages : Sender[m] \in Subjects \cup {Lawyer}
  /\ Batches \in Seq(Seq(Messages)) /\ Webhooks = 1 .. Len(Batches)
  /\ \A w \in Webhooks : Batches[w] \in Seq(Messages)
  /\ Idle \in HandlerStates
<1>1. Messages \subseteq Values /\ Absent \in Values /\ NoFiles \in Values
  BY DEF Values
<1>2. EmptyFile \in Files(Values)
  BY <1>1 DEF EmptyFile, Files, IntakeStates
<1>3. Batches \in Seq(Seq(Messages)) /\ Webhooks = 1 .. Len(Batches)
  BY WorldAssumption DEF WorldAssumption, Webhooks
<1>4. Idle \in HandlerStates
  BY <1>2, EmptySeq DEF Idle, HandlerStates, Labels
<1> QED
  BY <1>1, <1>2, <1>3, <1>4, WorldAssumption DEF WorldAssumption

(* A handler at work has a message, written by a client if it is in the    *)
(* client runtime.                                                         *)
LEMMA AtWork ==
  ASSUME IndInv, NEW h \in Handlers, handler[h].queue # <<>>
  PROVE  /\ handler[h] \in HandlerStates
         /\ Msg(h) \in Messages /\ Tail(handler[h].queue) \in Seq(Messages)
         /\ Msg(h) \in Values /\ content[Msg(h)] \in Contents
         /\ Subject(h) \in Subjects \cup {Lawyer}
<1>1. handler[h] \in HandlerStates
  BY DEF IndInv, TypeOK
<1>2. handler[h].queue \in Seq(Messages)
  BY <1>1 DEF HandlerStates
<1>3. Msg(h) \in Messages /\ Tail(handler[h].queue) \in Seq(Messages)
  BY <1>2, HeadTailProperties DEF Msg
<1> QED
  BY <1>1, <1>3, Constants DEF IndInv, TypeOK, Subject

(* Whatever one handler does to itself leaves the others sound, as long as *)
(* decided consents stay as they are.                                      *)
LEMMA HandlerStep ==
  ASSUME IndInv, NEW h \in Handlers, NEW r \in HandlerStates,
         handler' = [handler EXCEPT ![h] = r], Sound(r, consent'),
         \A s \in Subjects : consent[s] \in {"granted", "denied"} => consent'[s] = consent[s]
  PROVE  handler' \in [Handlers -> HandlerStates] /\ HandlersSound'
<1>1. handler' \in [Handlers -> HandlerStates]
  BY DEF IndInv, TypeOK
<1>2. ASSUME NEW g \in Handlers, g # h
      PROVE  Sound(handler[g], consent)'
  <2>1. handler'[g] = handler[g]
    BY <1>2
  <2>2. Sound(handler[g], consent)
    BY <1>2 DEF IndInv, HandlersSound
  <2> QED
    BY <2>1, <2>2 DEF Sound, Client, Gated
<1>3. Sound(handler[h], consent)'
  <2>1. handler'[h] = r
    BY DEF IndInv, TypeOK
  <2> QED
    BY <2>1 DEF Sound
<1> QED
  BY <1>1, <1>2, <1>3 DEF HandlersSound

THEOREM IndInit == Init => IndInv
<1> SUFFICES ASSUME Init PROVE IndInv
  OBVIOUS
<1>1. TypeOK
  <2>1. content \in [Messages -> Contents]
    BY WorldAssumption DEF Init, WorldAssumption
  <2>2. Cardinality(StartPractices) \in Nat
    BY StartAssumption, FS_CardinalityType DEF StartAssumption
  <2>3. handler \in [Handlers -> HandlerStates]
    BY Constants DEF Init
  <2>4. sent \in 0 .. Len(Batches) /\ due \subseteq 1 .. sent
    BY Constants, LenProperties DEF Init
  <2>5. faults \in 0 .. MaxFaults /\ timeouts \in 0 .. MaxTimeouts
    BY WorldAssumption DEF Init, WorldAssumption
  <2> QED
    BY <2>1, <2>2, <2>3, <2>4, <2>5, StartAssumption
       DEF Init, TypeOK, StartAssumption, ConsentStates
<1>2. HandlersSound
  BY DEF Init, HandlersSound, Sound, Idle, Client, Gated
<1>3. CodesBounded
  <2>1. Cardinality(StartPractices) \in Nat
    BY StartAssumption, FS_CardinalityType DEF StartAssumption
  <2>2. \A p \in StartPractices : p.code \in 1 .. Cardinality(StartPractices)
    BY StartAssumption DEF StartAssumption
  <2> QED
    BY <2>1, <2>2 DEF Init, CodesBounded
<1> QED
  BY <1>1, <1>2, <1>3 DEF IndInv

(* Each step of a handler.                                                 *)
LEMMA IndStep ==
  ASSUME IndInv, NEW h \in Handlers, Step(h)
  PROVE  IndInv'
<1> USE DEF At
<1>1. handler[h] \in HandlerStates /\ Sound(handler[h], consent)
  BY DEF IndInv, TypeOK, HandlersSound
<1>2. ASSUME handler[h].queue # <<>>
      PROVE  /\ Msg(h) \in Messages /\ Tail(handler[h].queue) \in Seq(Messages)
             /\ Msg(h) \in Values /\ content[Msg(h)] \in Contents
             /\ Subject(h) \in Subjects \cup {Lawyer}
  BY <1>2, AtWork
<1>3. CASE Acknowledge(h)
  <2>1. Idle \in HandlerStates /\ Sound(Idle, consent')
    BY Constants DEF Sound, Idle, Client, Gated
  <2>2. handler' \in [Handlers -> HandlerStates] /\ HandlersSound'
    BY <1>3, <2>1, HandlerStep DEF Acknowledge, consentT
  <2> QED
    BY <1>3, <2>2 DEF Acknowledge, IndInv, TypeOK, CodesBounded,
       world, consentT, intakeT, practiceT, budget
<1>4. CASE SkipDuplicate(h)
  <2> DEFINE r == [handler[h] EXCEPT !.queue = Tail(@)]
  <2>1. r \in HandlerStates
    BY <1>1, <1>2, <1>4 DEF SkipDuplicate, HandlerStates, Labels
  <2>2. handler' = [handler EXCEPT ![h] = r] /\ Sound(r, consent')
    BY <1>4 DEF SkipDuplicate, Sound, Client, Gated
  <2>3. handler' \in [Handlers -> HandlerStates] /\ HandlersSound'
    BY <1>4, <2>1, <2>2, HandlerStep DEF SkipDuplicate, consentT
  <2> QED
    BY <1>4, <2>3 DEF SkipDuplicate, IndInv, TypeOK, CodesBounded,
       world, consentT, intakeT, practiceT, budget
<1>5. CASE RejectBlank(h)
  <2>1. Idle \in HandlerStates /\ Sound(Idle, consent')
    BY Constants DEF Sound, Idle, Client, Gated
  <2>2. handler' \in [Handlers -> HandlerStates] /\ HandlersSound'
    BY <1>5, <2>1, HandlerStep DEF RejectBlank, Abort, consentT
  <2> QED
    BY <1>5, <2>2 DEF RejectBlank, IndInv, TypeOK, CodesBounded,
       world, consentT, intakeT, practiceT, budget
<1>6. CASE Route(h)
  <2> DEFINE r == [handler[h] EXCEPT !.pc = IF Subject(h) = Lawyer THEN "dispatch" ELSE "consent"]
  <2>1. r \in HandlerStates
    BY <1>1, <1>6 DEF Route, HandlerStates, Labels
  <2>2. handler' = [handler EXCEPT ![h] = r] /\ Sound(r, consent')
    BY <1>1, <1>2, <1>6 DEF Route, Fresh, Goto, Sound, Client, Gated, Subject, Msg
  <2>3. handler' \in [Handlers -> HandlerStates] /\ HandlersSound'
    BY <1>6, <2>1, <2>2, HandlerStep DEF Route, consentT
  <2> QED
    BY <1>6, <2>3 DEF Route, IndInv, TypeOK, CodesBounded,
       world, consentT, intakeT, practiceT, budget
<1>7. CASE ResolveConsent(h)
  <2> DEFINE new == ConsentDecision(consent[Subject(h)], content[Msg(h)])
             r == [handler[h] EXCEPT !.pc = AfterConsent(consent[Subject(h)], new)]
  <2>1. handler[h].queue # <<>> /\ Subject(h) \in Subjects
    BY <1>1, <1>7 DEF ResolveConsent, Sound, Client, Subject, Msg
  <2>2. consent[Subject(h)] \in ConsentStates /\ new \in ConsentStates
    BY <1>2, <2>1 DEF IndInv, TypeOK, ConsentDecision, ConsentStates, Contents
  <2>3. consent' \in [Subjects -> ConsentStates] /\ consent'[Subject(h)] = new
    BY <1>7, <2>1, <2>2 DEF ResolveConsent, IndInv, TypeOK
  <2>4. \A s \in Subjects : consent[s] \in {"granted", "denied"} => consent'[s] = consent[s]
    BY <1>7, <2>1 DEF ResolveConsent, ConsentDecision, IndInv, TypeOK
  <2>5. r \in HandlerStates
    BY <1>1 DEF AfterConsent, HandlerStates, Labels
  <2>6. handler' = [handler EXCEPT ![h] = r]
    BY <1>7 DEF ResolveConsent, Goto
  <2>7. Sound(r, consent')
    BY <1>1, <2>1, <2>3 DEF HandlerStates, AfterConsent, Sound, Client, Gated, Subject, Msg
  <2>8. handler' \in [Handlers -> HandlerStates] /\ HandlersSound'
    BY <2>4, <2>5, <2>6, <2>7, HandlerStep
  <2> QED
    BY <1>7, <2>3, <2>8 DEF ResolveConsent, IndInv, TypeOK, CodesBounded,
       world, intakeT, practiceT, budget
<1>8. CASE AppendConsentEvent(h)
  <2> DEFINE r == [handler[h] EXCEPT
               !.pc = IF consent[Subject(h)] = "granted" THEN "intake" ELSE "dispatch",
               !.justGranted = consent[Subject(h)] = "granted"]
  <2>1. /\ handler[h].queue # <<>> /\ Subject(h) \in Subjects
        /\ consent[Subject(h)] \in {"granted", "denied"}
    BY <1>1, <1>8 DEF AppendConsentEvent, Sound, Client, Subject, Msg
  <2>2. r \in HandlerStates
    BY <1>1 DEF HandlerStates, Labels
  <2>3. handler' = [handler EXCEPT ![h] = r]
    BY <1>8 DEF AppendConsentEvent
  <2>4. Sound(r, consent')
    BY <1>1, <1>8, <2>1 DEF AppendConsentEvent, HandlerStates, Sound, Client, Gated, Subject, Msg
  <2>5. handler' \in [Handlers -> HandlerStates] /\ HandlersSound'
    BY <1>8, <2>2, <2>3, <2>4, HandlerStep DEF AppendConsentEvent
  <2> QED
    BY <1>2, <1>8, <2>1, <2>5 DEF AppendConsentEvent, IndInv, TypeOK, CodesBounded,
       world, intakeT, practiceT, budget
<1>9. CASE ResolveIntake(h)
  <2> DEFINE records == NextRecords(FileOf(h), content[Msg(h)], handler[h].justGranted, Msg(h))
             quit == [handler[h] EXCEPT !.pc = "dispatch", !.justGranted = FALSE,
                                        !.next = EmptyFile, !.left = {}]
             writing(next) ==
               [handler[h] EXCEPT
                  !.pc = IF next.state # FileOf(h).state THEN "state"
                         ELSE AfterWriting(next, Changed(FileOf(h), next)),
                  !.next = next, !.left = Changed(FileOf(h), next)]
  <2>1. /\ handler[h].queue # <<>> /\ Subject(h) \in Subjects
        /\ consent[Subject(h)] = "granted"
    BY <1>1, <1>9 DEF ResolveIntake, Sound, Client, Gated, Subject, Msg
  <2>2. records \subseteq Files(Values)
    <3>1. FileOf(h) \in Files(Values) /\ handler[h].justGranted \in BOOLEAN
      BY <1>1, <2>1 DEF FileOf, IndInv, TypeOK, HandlerStates
    <3> QED
      BY <1>2, <2>1, <3>1, Constants, NextRecordsType
  <2>3. PICK r : /\ r = quit \/ \E next \in records : r = writing(next)
                 /\ handler' = [handler EXCEPT ![h] = r]
    BY <1>9 DEF ResolveIntake, GotoDispatch
  <2>4. r \in HandlerStates
    <3>1. CASE r = quit
      BY <1>1, <3>1, Constants DEF HandlerStates, Labels
    <3>2. ASSUME NEW next \in records, r = writing(next)
          PROVE  r \in HandlerStates
      <4>1. next \in Files(Values)
        BY <2>2
      <4>2. Changed(FileOf(h), next) \in SUBSET FieldNames
        BY DEF Changed
      <4>3. AfterWriting(next, Changed(FileOf(h), next)) \in Labels
        BY DEF AfterWriting, Labels
      <4>4. "state" \in Labels
        BY DEF Labels
      <4> QED
        BY <1>1, <3>2, <4>1, <4>2, <4>3, <4>4 DEF HandlerStates
    <3> QED
      BY <2>3, <3>1, <3>2
  <2>5. Sound(r, consent')
    <3>1. consent' = consent
      BY <1>9 DEF ResolveIntake, consentT
    <3>2. r.queue = handler[h].queue
      BY <1>1, <2>3 DEF HandlerStates
    <3>3. r.pc \in {"dispatch", "state", "field", "practice"}
      BY <1>1, <2>3 DEF HandlerStates, AfterWriting
    <3>4. r.pc = "field" => r.left # {}
      BY <1>1, <2>3 DEF HandlerStates, AfterWriting
    <3> QED
      BY <2>1, <3>1, <3>2, <3>3, <3>4 DEF Sound, Client, Gated, Subject, Msg
  <2>6. handler' \in [Handlers -> HandlerStates] /\ HandlersSound'
    BY <1>9, <2>3, <2>4, <2>5, HandlerStep DEF ResolveIntake, consentT
  <2> QED
    BY <1>9, <2>6 DEF ResolveIntake, IndInv, TypeOK, CodesBounded,
       world, consentT, intakeT, practiceT, budget
<1>10. CASE SetIntakeState(h)
  <2> DEFINE r == [handler[h] EXCEPT !.pc = "stateEvent"]
  <2>1. handler[h].queue # <<>> /\ Subject(h) \in Subjects
    BY <1>1, <1>10 DEF SetIntakeState, Sound, Client, Gated, Subject, Msg
  <2>2. r \in HandlerStates /\ handler' = [handler EXCEPT ![h] = r] /\ Sound(r, consent')
    BY <1>1, <1>10 DEF SetIntakeState, Goto, consentT, HandlerStates, Labels, Sound, Client, Gated, Subject, Msg
  <2>3. handler' \in [Handlers -> HandlerStates] /\ HandlersSound'
    BY <1>10, <2>2, HandlerStep DEF SetIntakeState, consentT
  <2>4. intake' \in [Subjects -> Files(Values)]
    BY <1>1, <1>10, <2>1 DEF SetIntakeState, IndInv, TypeOK, HandlerStates, Files
  <2> QED
    BY <1>10, <2>3, <2>4 DEF SetIntakeState, IndInv, TypeOK, CodesBounded,
       world, consentT, practiceT, budget
<1>11. CASE AppendStateEvent(h)
  <2> DEFINE r == [handler[h] EXCEPT !.pc = AfterWriting(handler[h].next, handler[h].left)]
  <2>1. handler[h].queue # <<>> /\ Subject(h) \in Subjects
    BY <1>1, <1>11 DEF AppendStateEvent, Sound, Client, Gated, Subject, Msg
  <2>2. AfterWriting(handler[h].next, handler[h].left) \in Labels \cap {"field", "practice", "dispatch"}
    BY DEF AfterWriting, Labels
  <2>3. r \in HandlerStates /\ handler' = [handler EXCEPT ![h] = r]
    BY <1>1, <1>11, <2>2 DEF AppendStateEvent, Goto, HandlerStates
  <2>4. Sound(r, consent')
    BY <1>1, <1>11, <2>2 DEF AppendStateEvent, AfterWriting, consentT, HandlerStates, Sound, Client, Gated, Subject, Msg
  <2>5. handler' \in [Handlers -> HandlerStates] /\ HandlersSound'
    BY <1>11, <2>3, <2>4, HandlerStep DEF AppendStateEvent, consentT
  <2>6. handler[h].next.state \in IntakeStates
    BY <1>1 DEF HandlerStates, Files
  <2> QED
    BY <1>2, <1>11, <2>1, <2>5, <2>6 DEF AppendStateEvent, AppendIntakeEvent, IndInv, TypeOK,
       CodesBounded, world, consentT, practiceT, budget
<1>12. CASE SetIntakeField(h)
  <2> DEFINE r == [handler[h] EXCEPT !.pc = "fieldEvent"]
  <2>1. handler[h].queue # <<>> /\ Subject(h) \in Subjects /\ handler[h].left # {}
    BY <1>1, <1>12 DEF SetIntakeField, Sound, Client, Gated, Subject, Msg
  <2>2. r \in HandlerStates /\ handler' = [handler EXCEPT ![h] = r] /\ Sound(r, consent')
    BY <1>1, <1>12 DEF SetIntakeField, Goto, consentT, HandlerStates, Labels, Sound, Client, Gated, Subject, Msg
  <2>3. handler' \in [Handlers -> HandlerStates] /\ HandlersSound'
    BY <1>12, <2>2, HandlerStep DEF SetIntakeField, consentT
  <2>4. FirstLeft(h) \in FieldNames
    BY <1>1, <2>1, FirstLeftType DEF HandlerStates
  <2>5. handler[h].next.fields[FirstLeft(h)] \in Values
    BY <1>1, <2>4 DEF HandlerStates, Files
  <2>6. intake' \in [Subjects -> Files(Values)]
    BY <1>12, <2>1, <2>4, <2>5 DEF SetIntakeField, IndInv, TypeOK, Files
  <2> QED
    BY <1>12, <2>3, <2>6 DEF SetIntakeField, IndInv, TypeOK, CodesBounded,
       world, consentT, practiceT, budget
<1>13. CASE AppendFieldEvent(h)
  <2> DEFINE left == handler[h].left \ {FirstLeft(h)}
             r == [handler[h] EXCEPT !.pc = AfterWriting(handler[h].next, left), !.left = left]
  <2>1. handler[h].queue # <<>> /\ Subject(h) \in Subjects /\ handler[h].left # {}
    BY <1>1, <1>13 DEF AppendFieldEvent, Sound, Client, Gated, Subject, Msg
  <2>2. AfterWriting(handler[h].next, left) \in Labels \cap {"field", "practice", "dispatch"}
    BY DEF AfterWriting, Labels
  <2>3. r \in HandlerStates /\ handler' = [handler EXCEPT ![h] = r]
    BY <1>1, <1>13, <2>2 DEF AppendFieldEvent, HandlerStates
  <2>4. Sound(r, consent')
    BY <1>1, <1>13, <2>2 DEF AppendFieldEvent, AfterWriting, consentT, HandlerStates, Sound, Client, Gated, Subject, Msg
  <2>5. handler' \in [Handlers -> HandlerStates] /\ HandlersSound'
    BY <1>13, <2>3, <2>4, HandlerStep DEF AppendFieldEvent, consentT
  <2>6. handler[h].next.state \in IntakeStates /\ FirstLeft(h) \in FieldNames
    BY <1>1, <2>1, FirstLeftType DEF HandlerStates, Files
  <2> QED
    BY <1>2, <1>13, <2>1, <2>5, <2>6 DEF AppendFieldEvent, AppendIntakeEvent, IndInv, TypeOK,
       CodesBounded, world, consentT, practiceT, budget
<1>14. CASE CreatePractice(h)
  <2> DEFINE r == [handler[h] EXCEPT !.pc = "dispatch", !.justGranted = FALSE,
                                     !.next = EmptyFile, !.left = {}]
  <2>1. handler[h].queue # <<>> /\ Subject(h) \in Subjects
    BY <1>1, <1>14 DEF CreatePractice, Sound, Client, Gated, Subject, Msg
  <2>2. r \in HandlerStates /\ handler' = [handler EXCEPT ![h] = r]
    BY <1>1, <1>14, Constants DEF CreatePractice, GotoDispatch, HandlerStates, Labels
  <2>3. Sound(r, consent')
    BY <1>1, <2>1 DEF HandlerStates, Sound, Client, Gated, Subject, Msg
  <2>4. handler' \in [Handlers -> HandlerStates] /\ HandlersSound'
    BY <1>14, <2>2, <2>3, HandlerStep DEF CreatePractice, consentT
  <2>5. CASE UNCHANGED practiceT
    BY <1>14, <2>4, <2>5 DEF CreatePractice, IndInv, TypeOK, CodesBounded,
       world, consentT, intakeT, practiceT, budget
  <2>6. CASE /\ CanCreatePractice(h)
             /\ practices' = practices \cup {NewPractice(h, NextCode)}
             /\ lastCode' = NextCode
    <3>1. lastCode \in Nat /\ lastCode' = lastCode + 1
      BY <2>6, NextCodeIsNext, WorldAssumption
         DEF CanCreatePractice, IndInv, TypeOK, WorldAssumption
    <3>2. NewPractice(h, NextCode) \in [code : Nat, subject : Subjects, source : StoredIds,
                                        fields : [FieldNames -> Values]]
      BY <1>2, <2>1, <2>6, <3>1 DEF NewPractice, FileOf, StoredIds, IndInv, TypeOK, Files
    <3>3. CodesBounded'
      BY <2>6, <3>1 DEF NewPractice, IndInv, TypeOK, CodesBounded
    <3> QED
      BY <1>14, <2>4, <2>6, <3>1, <3>2, <3>3
         DEF CreatePractice, IndInv, TypeOK, world, consentT, intakeT, budget
  <2> QED
    BY <1>14, <2>5, <2>6 DEF CreatePractice
<1>15. CASE RefusePractice(h)
  <2>1. Idle \in HandlerStates /\ Sound(Idle, consent')
    BY Constants DEF Sound, Idle, Client, Gated
  <2>2. handler' \in [Handlers -> HandlerStates] /\ HandlersSound'
    BY <1>15, <2>1, HandlerStep DEF RefusePractice, Abort, consentT
  <2> QED
    BY <1>15, <2>2 DEF RefusePractice, IndInv, TypeOK, CodesBounded,
       world, consentT, intakeT, practiceT, budget
<1>16. CASE DispatchReply(h)
  <2> DEFINE r == [handler[h] EXCEPT !.pc = "mark"]
  <2>1. handler[h].queue # <<>>
    BY <1>1, <1>16 DEF DispatchReply, Sound
  <2>2. r \in HandlerStates /\ handler' = [handler EXCEPT ![h] = r] /\ Sound(r, consent')
    BY <1>1, <1>16 DEF DispatchReply, Goto, HandlerStates, Labels, Sound, Client, Gated
  <2>3. handler' \in [Handlers -> HandlerStates] /\ HandlersSound'
    BY <1>16, <2>2, HandlerStep DEF DispatchReply, consentT
  <2> QED
    BY <1>2, <1>16, <2>1, <2>3 DEF DispatchReply, IndInv, TypeOK, CodesBounded,
       world, consentT, intakeT, practiceT, budget
<1>17. CASE MarkProcessed(h)
  <2> DEFINE r == [Idle EXCEPT !.pc = "accept", !.hook = handler[h].hook, !.queue = Tail(handler[h].queue)]
  <2>1. handler[h].queue # <<>>
    BY <1>1, <1>17 DEF MarkProcessed, Sound
  <2>2. r \in HandlerStates /\ handler' = [handler EXCEPT ![h] = r] /\ Sound(r, consent')
    <3>1. /\ Idle \in HandlerStates /\ Tail(handler[h].queue) \in Seq(Messages)
          /\ handler[h].hook \in Webhooks \cup {NoHook}
      BY <1>1, <1>2, <2>1, Constants DEF HandlerStates
    <3>2. r \in HandlerStates
      BY <3>1 DEF HandlerStates, Labels
    <3> QED
      BY <1>17, <3>1, <3>2 DEF MarkProcessed, Sound, Client, Gated, HandlerStates
  <2>3. handler' \in [Handlers -> HandlerStates] /\ HandlersSound'
    BY <1>17, <2>2, HandlerStep DEF MarkProcessed, consentT
  <2> QED
    BY <1>2, <1>17, <2>1, <2>3 DEF MarkProcessed, IndInv, TypeOK, CodesBounded,
       world, consentT, intakeT, practiceT, budget
<1> QED
  BY <1>3, <1>4, <1>5, <1>6, <1>7, <1>8, <1>9, <1>10, <1>11, <1>12, <1>13, <1>14, <1>15,
     <1>16, <1>17 DEF Step

(* Meta's steps, the faults and the stuttering steps.                      *)
THEOREM IndNext == IndInv /\ [Next]_vars => IndInv'
<1> SUFFICES ASSUME IndInv, [Next]_vars PROVE IndInv'
  OBVIOUS
<1>1. Idle \in HandlerStates /\ Sound(Idle, consent) /\ Sound(Idle, consent')
  BY Constants DEF Sound, Idle, Client, Gated
<1>2. CASE Send
  <2>1. sent' \in 0 .. Len(Batches) /\ due' \subseteq 1 .. sent'
    BY <1>2, Constants, LenProperties DEF Send, IndInv, TypeOK
  <2> QED
    BY <1>2, <2>1 DEF Send, IndInv, TypeOK, HandlersSound, CodesBounded,
       consentT, intakeT, practiceT, budget
<1>3. ASSUME NEW h \in Handlers, NEW w \in Webhooks, Deliver(h, w)
      PROVE  IndInv'
  <2> DEFINE r == [handler[h] EXCEPT !.pc = "accept", !.hook = w, !.queue = Batches[w]]
  <2>1. r \in HandlerStates /\ handler' = [handler EXCEPT ![h] = r]
    BY <1>3, Constants DEF Deliver, IndInv, TypeOK, HandlerStates, Labels
  <2>2. Sound(r, consent')
    BY DEF IndInv, TypeOK, HandlerStates, Sound, Client, Gated
  <2>3. handler' \in [Handlers -> HandlerStates] /\ HandlersSound'
    BY <1>3, <2>1, <2>2, HandlerStep DEF Deliver, consentT
  <2> QED
    BY <1>3, <2>3 DEF Deliver, IndInv, TypeOK, CodesBounded,
       world, consentT, intakeT, practiceT, budget
<1>4. ASSUME NEW h \in Handlers, GiveUp(h)
      PROVE  IndInv'
  <2> DEFINE r == [handler[h] EXCEPT !.hook = NoHook]
  <2>1. r \in HandlerStates /\ handler' = [handler EXCEPT ![h] = r]
    BY <1>4 DEF GiveUp, IndInv, TypeOK, HandlerStates
  <2>2. Sound(r, consent')
    BY <1>4 DEF GiveUp, consentT, IndInv, TypeOK, HandlersSound, HandlerStates, Sound
  <2>3. handler' \in [Handlers -> HandlerStates] /\ HandlersSound'
    BY <1>4, <2>1, <2>2, HandlerStep DEF GiveUp, consentT
  <2>4. timeouts' \in 0 .. MaxTimeouts
    BY <1>4, WorldAssumption DEF GiveUp, IndInv, TypeOK, WorldAssumption
  <2> QED
    BY <1>4, <2>3, <2>4 DEF GiveUp, IndInv, TypeOK, CodesBounded,
       world, consentT, intakeT, practiceT
<1>5. ASSUME NEW kind, Fault(kind)
      PROVE  faults' \in 0 .. MaxFaults
  BY <1>5, WorldAssumption DEF Fault, IndInv, TypeOK, WorldAssumption
<1>6. ASSUME NEW h \in Handlers, DispatchFails(h)
      PROVE  IndInv'
  <2>1. handler' \in [Handlers -> HandlerStates] /\ HandlersSound'
    BY <1>1, <1>6, HandlerStep DEF DispatchFails, Abort, consentT
  <2>2. handler[h].queue # <<>>
    BY <1>6 DEF DispatchFails, At, IndInv, HandlersSound, Sound
  <2>3. replies' \in [Messages -> Nat]
    BY <1>6, <2>2, AtWork DEF DispatchFails, IndInv, TypeOK
  <2> QED
    BY <1>5, <1>6, <2>1, <2>3 DEF DispatchFails, IndInv, TypeOK, CodesBounded,
       world, consentT, intakeT, practiceT
<1>7. ASSUME NEW h \in Handlers, PersistenceFails(h)
      PROVE  IndInv'
  <2>1. handler' \in [Handlers -> HandlerStates] /\ HandlersSound'
    BY <1>1, <1>7, HandlerStep DEF PersistenceFails, Abort, consentT
  <2> QED
    BY <1>5, <1>7, <2>1 DEF PersistenceFails, IndInv, TypeOK, CodesBounded,
       world, consentT, intakeT, practiceT
<1>8. CASE Crash
  <2>1. handler' \in [Handlers -> HandlerStates] /\ HandlersSound'
    BY <1>1, <1>8 DEF Crash, HandlersSound, consentT
  <2> QED
    BY <1>5, <1>8, <2>1 DEF Crash, IndInv, TypeOK, CodesBounded,
       world, consentT, intakeT, practiceT
<1>9. CASE UNCHANGED vars
  BY <1>9 DEF vars, IndInv, TypeOK, HandlersSound, CodesBounded,
     world, consentT, intakeT, practiceT, budget
<1> QED
  BY <1>2, <1>3, <1>4, <1>6, <1>7, <1>8, <1>9, IndStep DEF Next

(* Every variable keeps its type in every behaviour: in particular no      *)
(* handler takes the head of an empty queue, looks up the consent of a     *)
(* sender who is no client, or logs a consent that is not a decision.      *)
THEOREM TypeCorrect == Spec => []TypeOK
<1>1. IndInv => TypeOK
  BY DEF IndInv
<1> QED
  BY IndInit, IndNext, <1>1, PTL DEF Spec

-----------------------------------------------------------------------------
(* Consent *)

(* Only ResolveConsent touches a consent, and it follows ConsentDecision.  *)
LEMMA ConsentChange ==
  ASSUME IndInv, [Next]_vars, NEW s \in Subjects, consent'[s] # consent[s]
  PROVE  \E m \in Messages : /\ Sender[m] = s
                             /\ consent'[s] = ConsentDecision(consent[s], content[m])
<1>1. PICK h \in Handlers : ResolveConsent(h)
  BY ZenonT(30) DEF Next, Step, vars, world, consentT, intakeT, practiceT, budget,
     Send, Deliver, GiveUp, Acknowledge, SkipDuplicate, RejectBlank, Route,
     AppendConsentEvent, ResolveIntake, SetIntakeState, AppendStateEvent, SetIntakeField,
     AppendFieldEvent, CreatePractice, RefusePractice, DispatchReply, MarkProcessed,
     DispatchFails, PersistenceFails, Crash
<1>2. handler[h].queue # <<>>
  BY <1>1 DEF ResolveConsent, At, IndInv, HandlersSound, Sound
<1>3. Msg(h) \in Messages
  BY <1>2, AtWork
<1>4. s = Subject(h)
  BY <1>1 DEF ResolveConsent, IndInv, TypeOK
<1>5. consent'[s] = ConsentDecision(consent[s], content[Msg(h)])
  BY <1>1, <1>4 DEF ResolveConsent, IndInv, TypeOK
<1> QED
  BY <1>3, <1>4, <1>5 DEF Subject

(* A decided consent never changes again, and only the client's own strict *)
(* form grants it (consent.ts, resolveConsentRuntimeDecision).             *)
THEOREM ConsentFinal == Spec => ConsentIsFinal
<1> DEFINE Step1 == \A s \in Subjects : consent'[s] # consent[s] =>
                      /\ consent[s] \in {"unknown", "requested"}
                      /\ consent'[s] = "granted" =>
                           \E m \in Messages : Sender[m] = s /\ content[m].consent = "granted"
<1>1. ASSUME IndInv, [Next]_vars PROVE Step1
  <2> SUFFICES ASSUME NEW s \in Subjects, consent'[s] # consent[s]
               PROVE  /\ consent[s] \in {"unknown", "requested"}
                      /\ consent'[s] = "granted" =>
                           \E m \in Messages : Sender[m] = s /\ content[m].consent = "granted"
    OBVIOUS
  <2>1. PICK m \in Messages : /\ Sender[m] = s
                              /\ consent'[s] = ConsentDecision(consent[s], content[m])
    BY <1>1, ConsentChange
  <2>2. consent[s] \in ConsentStates
    BY <1>1 DEF IndInv, TypeOK
  <2> QED
    BY <2>1, <2>2 DEF ConsentDecision, ConsentStates
<1>2. IndInv /\ [Next]_vars => [Step1]_consent
  BY <1>1
<1> QED
  BY IndInit, IndNext, <1>2, PTL DEF Spec, ConsentIsFinal

(* What a handler writes for a consenting client keeps the gate closed for *)
(* all the others.                                                         *)
LEMMA GateWrite ==
  ASSUME ConsentGate, NEW c \in Subjects, consent[c] = "granted", UNCHANGED consent,
         \A s \in Subjects : s # c => intake'[s] = intake[s],
         \A e \in intakeEvents' : e \in intakeEvents \/ e.subject = c,
         \A p \in practices' : p \in practices \/ p.subject = c
  PROVE  ConsentGate'
<1> SUFFICES ASSUME NEW s \in Subjects, s # c,
                    \/ intake'[s] # EmptyFile
                    \/ \E e \in intakeEvents' : e.subject = s
                    \/ \E p \in practices' : p.subject = s
             PROVE  consent[s] = "granted"
  BY DEF ConsentGate
<1> QED
  BY DEF ConsentGate

(* The gate survives the steps that write nothing behind it.               *)
LEMMA GateKept ==
  ASSUME IndInv, [Next]_vars, ConsentGate, UNCHANGED <<intake, intakeEvents, practices>>
  PROVE  ConsentGate'
<1>1. \A s \in Subjects : consent[s] = "granted" => consent'[s] = "granted"
  BY ConsentChange DEF ConsentDecision
<1> QED
  BY <1>1 DEF ConsentGate

(* The consent gate: nothing is stored about a client, not even half of an *)
(* interrupted answer, unless he granted his consent.                      *)
THEOREM ConsentGateHolds == Spec => []ConsentGate
<1>1. Init => ConsentGate
  BY StartAssumption DEF StartAssumption, Init, ConsentGate
<1>2. ASSUME IndInv, ConsentGate, [Next]_vars PROVE ConsentGate'
  <2>1. ASSUME NEW h \in Handlers, handler[h].pc \in Gated
        PROVE  /\ Subject(h) \in Subjects /\ consent[Subject(h)] = "granted"
    BY <1>2, <2>1 DEF IndInv, HandlersSound, Sound, Client, Gated, Subject, Msg
  <2>2. ASSUME NEW h \in Handlers,
               SetIntakeState(h) \/ SetIntakeField(h)
        PROVE  ConsentGate'
    BY <1>2, <2>1, <2>2, GateWrite
       DEF SetIntakeState, SetIntakeField, At, Gated, consentT, practiceT, IndInv, TypeOK
  <2>3. ASSUME NEW h \in Handlers, AppendStateEvent(h) \/ AppendFieldEvent(h)
        PROVE  ConsentGate'
    BY <1>2, <2>1, <2>3, GateWrite
       DEF AppendStateEvent, AppendFieldEvent, AppendIntakeEvent, At, Gated, consentT, practiceT
  <2>4. ASSUME NEW h \in Handlers, CreatePractice(h)
        PROVE  ConsentGate'
    BY <1>2, <2>1, <2>4, GateWrite
       DEF CreatePractice, NewPractice, At, Gated, consentT, intakeT, practiceT
  <2>5. CASE UNCHANGED <<intake, intakeEvents, practices>>
    BY <1>2, <2>5, GateKept
  <2> QED
    BY <1>2, <2>2, <2>3, <2>4, <2>5
       DEF Next, Step, vars, world, intakeT, practiceT, budget,
       Send, Deliver, GiveUp, Acknowledge, SkipDuplicate, RejectBlank, Route,
       ResolveConsent, AppendConsentEvent, ResolveIntake, RefusePractice, DispatchReply,
       MarkProcessed, DispatchFails, PersistenceFails, Crash
<1> QED
  BY IndInit, IndNext, <1>1, <1>2, PTL DEF Spec

-----------------------------------------------------------------------------
(* Acknowledgement *)

(* A handler in state r owes Meta no message it could forget: those of its *)
(* webhook are done or still in its queue, and before it marks a message   *)
(* processed the client has the reply.                                     *)
Accounted(r, done, count) ==
  /\ r.hook # NoHook =>
       \A i \in DOMAIN Batches[r.hook] :
         \/ Batches[r.hook][i] \in done
         \/ \E j \in DOMAIN r.queue : r.queue[j] = Batches[r.hook][i]
  /\ r.pc = "mark" => count[Head(r.queue)] > 0

(* The inductive strengthening of AcknowledgedMeansAnswered.               *)
AckInv ==
  /\ AcknowledgedMeansAnswered
  /\ \A m \in processed : replies[m] > 0
  /\ \A h \in Handlers : Accounted(handler[h], processed, replies)

(* Dropping the head of a queue drops no other message.                    *)
LEMMA TailKeeps ==
  ASSUME NEW q \in Seq(Messages), q # <<>>, NEW j \in DOMAIN q, q[j] # Head(q)
  PROVE  \E k \in DOMAIN Tail(q) : Tail(q)[k] = q[j]
<1>1. j \in 1 .. Len(q) /\ j # 1 /\ Len(q) \in Nat
  BY LenProperties
<1>2. j - 1 \in 1 .. Len(Tail(q)) /\ Tail(q)[j - 1] = q[j]
  BY <1>1, HeadTailProperties
<1>3. DOMAIN Tail(q) = 1 .. Len(Tail(q))
  BY HeadTailProperties, LenProperties
<1> QED
  BY <1>2, <1>3

(* What a handler does leaves the other handlers accounted for, as long as *)
(* no message is unmarked and no reply is taken back.                      *)
LEMMA AccountedStep ==
  ASSUME IndInv, AckInv, NEW h \in Handlers,
         \A g \in Handlers : g # h => handler'[g] = handler[g],
         Accounted(handler'[h], processed', replies'), processed \subseteq processed',
         \A m \in Messages : replies[m] > 0 => replies'[m] > 0
  PROVE  \A g \in Handlers : Accounted(handler'[g], processed', replies')
<1> SUFFICES ASSUME NEW g \in Handlers, g # h
             PROVE  Accounted(handler'[g], processed', replies')
  OBVIOUS
<1>1. handler'[g] = handler[g] /\ Accounted(handler[g], processed, replies)
  BY DEF AckInv
<1>2. handler[g].pc = "mark" => Head(handler[g].queue) \in Messages
  BY AtWork DEF IndInv, HandlersSound, Sound, Msg
<1> QED
  BY <1>1, <1>2 DEF Accounted

(* Whatever it decides, ResolveIntake keeps the webhook and the queue.     *)
LEMMA IntakeEffect ==
  ASSUME IndInv, NEW h \in Handlers, ResolveIntake(h)
  PROVE  \E r : /\ r.hook = handler[h].hook /\ r.queue = handler[h].queue /\ r.pc # "mark"
               /\ handler' = [handler EXCEPT ![h] = r]
<1> DEFINE records == NextRecords(FileOf(h), content[Msg(h)], handler[h].justGranted, Msg(h))
           quit == [handler[h] EXCEPT !.pc = "dispatch", !.justGranted = FALSE,
                                      !.next = EmptyFile, !.left = {}]
           writing(next) ==
             [handler[h] EXCEPT
                !.pc = IF next.state # FileOf(h).state THEN "state"
                       ELSE AfterWriting(next, Changed(FileOf(h), next)),
                !.next = next, !.left = Changed(FileOf(h), next)]
<1>1. handler[h] \in HandlerStates
  BY DEF IndInv, TypeOK
<1>2. PICK r : /\ r = quit \/ \E next \in records : r = writing(next)
               /\ handler' = [handler EXCEPT ![h] = r]
  BY DEF ResolveIntake, GotoDispatch
<1>3. quit.hook = handler[h].hook /\ quit.queue = handler[h].queue /\ quit.pc # "mark"
  BY <1>1 DEF HandlerStates
<1>4. ASSUME NEW next
      PROVE  /\ writing(next).hook = handler[h].hook /\ writing(next).queue = handler[h].queue
             /\ writing(next).pc # "mark"
  <2>1. AfterWriting(next, Changed(FileOf(h), next)) # "mark"
    BY DEF AfterWriting
  <2> QED
    BY <1>1, <2>1 DEF HandlerStates
<1>5. r.hook = handler[h].hook /\ r.queue = handler[h].queue /\ r.pc # "mark"
  <2> HIDE DEF quit, writing, records
  <2> QED
    BY <1>2, <1>3, <1>4
<1> QED
  BY <1>2, <1>5

(* While it works on a message, a handler holds on to its queue.           *)
LEMMA Advance ==
  ASSUME IndInv, NEW h \in Handlers,
         \/ Route(h) \/ ResolveConsent(h) \/ AppendConsentEvent(h)
         \/ ResolveIntake(h) \/ SetIntakeState(h) \/ AppendStateEvent(h)
         \/ SetIntakeField(h) \/ AppendFieldEvent(h) \/ CreatePractice(h) \/ GiveUp(h)
  PROVE  /\ \A g \in Handlers : g # h => handler'[g] = handler[g]
         /\ handler'[h].hook \in {handler[h].hook, NoHook}
         /\ handler'[h].queue = handler[h].queue
         /\ handler'[h].pc # "mark"
         /\ UNCHANGED <<sent, due, processed, replies>>
<1> USE DEF IndInv, TypeOK, HandlerStates, Goto, GotoDispatch, At, world
<1>1. \A next, left : AfterWriting(next, left) # "mark"
  BY DEF AfterWriting
<1>2. CASE Route(h)
  BY <1>2 DEF Route
<1>3. CASE ResolveConsent(h)
  BY <1>3 DEF ResolveConsent, AfterConsent
<1>4. CASE AppendConsentEvent(h)
  BY <1>4 DEF AppendConsentEvent
<1>5. CASE ResolveIntake(h)
  <2>1. PICK r : /\ r.hook = handler[h].hook /\ r.queue = handler[h].queue /\ r.pc # "mark"
                 /\ handler' = [handler EXCEPT ![h] = r]
    BY <1>5, IntakeEffect
  <2> QED
    BY <1>5, <2>1 DEF ResolveIntake
<1>6. CASE SetIntakeState(h)
  BY <1>6 DEF SetIntakeState
<1>7. CASE AppendStateEvent(h)
  BY <1>1, <1>7 DEF AppendStateEvent
<1>8. CASE SetIntakeField(h)
  BY <1>8 DEF SetIntakeField
<1>9. CASE AppendFieldEvent(h)
  BY <1>1, <1>9 DEF AppendFieldEvent
<1>10. CASE CreatePractice(h)
  BY <1>10 DEF CreatePractice
<1>11. CASE GiveUp(h)
  BY <1>11 DEF GiveUp
<1> QED
  BY <1>2, <1>3, <1>4, <1>5, <1>6, <1>7, <1>8, <1>9, <1>10, <1>11

(* The webhooks of the messages still in hand are not forgotten by a step. *)
LEMMA AckStep ==
  ASSUME IndInv, AckInv, [Next]_vars
  PROVE  AckInv'
<1> USE DEF At
<1>1. ASSUME NEW h \in Handlers
      PROVE  /\ handler[h] \in HandlerStates
             /\ Sound(handler[h], consent)
             /\ Accounted(handler[h], processed, replies)
             /\ handler[h].queue \in Seq(Messages)
  BY DEF IndInv, TypeOK, HandlersSound, HandlerStates, AckInv
<1>2. \A m \in Messages : replies[m] \in Nat
  BY DEF IndInv, TypeOK
<1>3. Accounted(Idle, processed', replies')
  BY DEF Accounted, Idle
<1>4. CASE Send
  <2>1. sent \in Nat /\ sent' = sent + 1 /\ due' = due \cup {sent'}
    BY <1>4, Constants, LenProperties DEF Send, IndInv, TypeOK
  <2>2. (1 .. sent') \ due' \subseteq (1 .. sent) \ due
    BY <2>1
  <2> QED
    BY <1>4, <2>2 DEF Send, AckInv, AcknowledgedMeansAnswered
<1>5. ASSUME NEW h \in Handlers, NEW w \in Webhooks, Deliver(h, w)
      PROVE  AckInv'
  <2>1. \A g \in Handlers : g # h => handler'[g] = handler[g]
    BY <1>5 DEF Deliver, IndInv, TypeOK
  <2>2. Accounted(handler'[h], processed', replies')
    BY <1>1, <1>5 DEF Deliver, Accounted, IndInv, TypeOK, HandlerStates
  <2> QED
    BY <1>5, <2>1, <2>2, AccountedStep DEF Deliver, world, AckInv, AcknowledgedMeansAnswered
<1>6. ASSUME NEW h \in Handlers,
             \/ Route(h) \/ ResolveConsent(h) \/ AppendConsentEvent(h)
             \/ ResolveIntake(h) \/ SetIntakeState(h) \/ AppendStateEvent(h)
             \/ SetIntakeField(h) \/ AppendFieldEvent(h) \/ CreatePractice(h) \/ GiveUp(h)
      PROVE  AckInv'
  <2>1. /\ \A g \in Handlers : g # h => handler'[g] = handler[g]
        /\ handler'[h].hook \in {handler[h].hook, NoHook}
        /\ handler'[h].queue = handler[h].queue
        /\ handler'[h].pc # "mark"
        /\ UNCHANGED <<sent, due, processed, replies>>
    BY <1>6, Advance
  <2>2. Accounted(handler'[h], processed', replies')
    BY <1>1, <2>1 DEF Accounted
  <2> QED
    BY <2>1, <2>2, AccountedStep DEF AckInv, AcknowledgedMeansAnswered
<1>7. ASSUME NEW h \in Handlers, Acknowledge(h)
      PROVE  AckInv'
  <2>1. \A g \in Handlers : g # h => handler'[g] = handler[g]
    BY <1>7 DEF Acknowledge, IndInv, TypeOK
  <2>2. handler'[h] = Idle
    BY <1>7 DEF Acknowledge, IndInv, TypeOK
  <2>3. \A g \in Handlers : Accounted(handler'[g], processed', replies')
    BY <1>3, <1>7, <2>1, <2>2, AccountedStep DEF Acknowledge
  <2>4. ASSUME NEW w \in (1 .. sent') \ due', w = handler[h].hook, NEW i \in DOMAIN Batches[w]
        PROVE  Batches[w][i] \in processed
    <3>1. w # NoHook
      BY <2>4, WorldAssumption, Constants, LenProperties, <1>7
         DEF WorldAssumption, Acknowledge, world, IndInv, TypeOK
    <3>2. DOMAIN handler[h].queue = {}
      BY <1>7 DEF Acknowledge
    <3> QED
      BY <1>1, <2>4, <3>1, <3>2 DEF Accounted
  <2>5. AcknowledgedMeansAnswered'
    BY <1>7, <2>4 DEF Acknowledge, world, AckInv, AcknowledgedMeansAnswered
  <2> QED
    BY <1>7, <2>3, <2>5 DEF Acknowledge, AckInv
<1>8. ASSUME NEW h \in Handlers, RejectBlank(h) \/ RefusePractice(h) \/ PersistenceFails(h)
      PROVE  AckInv'
  <2>1. /\ \A g \in Handlers : g # h => handler'[g] = handler[g]
        /\ handler'[h] = Idle
        /\ UNCHANGED <<sent, due, processed, replies>>
    BY <1>8 DEF RejectBlank, RefusePractice, PersistenceFails, Abort, world, IndInv, TypeOK
  <2> QED
    BY <1>3, <2>1, AccountedStep DEF AckInv, AcknowledgedMeansAnswered
<1>9. ASSUME NEW h \in Handlers, SkipDuplicate(h) \/ MarkProcessed(h)
      PROVE  AckInv'
  <2>1. /\ \A g \in Handlers : g # h => handler'[g] = handler[g]
        /\ handler'[h].hook = handler[h].hook
        /\ handler'[h].queue = Tail(handler[h].queue)
        /\ handler'[h].pc # "mark"
        /\ UNCHANGED <<sent, due, replies>>
    <3>1. CASE SkipDuplicate(h)
      BY <1>1, <3>1 DEF SkipDuplicate, world, IndInv, TypeOK, HandlerStates
    <3>2. CASE MarkProcessed(h)
      BY <1>1, <3>2 DEF MarkProcessed, world, IndInv, TypeOK, HandlerStates
    <3> QED
      BY <1>9, <3>1, <3>2
  <2>2. /\ handler[h].queue # <<>>
        /\ processed' = processed \cup {Msg(h)}
        /\ replies[Msg(h)] > 0
    BY <1>1, <1>9 DEF SkipDuplicate, MarkProcessed, Sound, Accounted, AckInv, Msg
  <2>3. Accounted(handler'[h], processed', replies')
    <3> SUFFICES ASSUME handler[h].hook # NoHook, NEW i \in DOMAIN Batches[handler[h].hook],
                        Batches[handler[h].hook][i] \notin processed'
                 PROVE  \E j \in DOMAIN Tail(handler[h].queue) :
                          Tail(handler[h].queue)[j] = Batches[handler[h].hook][i]
      BY <2>1 DEF Accounted
    <3>1. PICK j \in DOMAIN handler[h].queue : handler[h].queue[j] = Batches[handler[h].hook][i]
      BY <1>1, <2>2 DEF Accounted
    <3>2. handler[h].queue[j] # Head(handler[h].queue)
      BY <2>2, <3>1 DEF Msg
    <3> QED
      BY <1>1, <2>2, <3>1, <3>2, TailKeeps
  <2>4. \A g \in Handlers : Accounted(handler'[g], processed', replies')
    BY <2>1, <2>2, <2>3, AccountedStep
  <2> QED
    BY <2>1, <2>2, <2>4 DEF AckInv, AcknowledgedMeansAnswered
<1>10. ASSUME NEW h \in Handlers, DispatchReply(h) \/ DispatchFails(h)
       PROVE  AckInv'
  <2>1. handler[h].queue # <<>> /\ Msg(h) \in Messages
    BY <1>1, <1>10, AtWork DEF DispatchReply, DispatchFails, Sound
  <2>2. /\ \A m \in Messages : replies'[m] >= replies[m] /\ replies'[m] \in Nat
        /\ UNCHANGED <<sent, due, processed>>
    <3>1. CASE DispatchReply(h)
      BY <1>2, <2>1, <3>1 DEF DispatchReply, IndInv, TypeOK, world
    <3>2. CASE DispatchFails(h)
      BY <1>2, <2>1, <3>2 DEF DispatchFails, IndInv, TypeOK, world
    <3> QED
      BY <1>10, <3>1, <3>2
  <2>3. \A m \in Messages : replies[m] > 0 => replies'[m] > 0
    BY <1>2, <2>2
  <2>4. \A g \in Handlers : g # h => handler'[g] = handler[g]
    BY <1>10 DEF DispatchReply, DispatchFails, Goto, Abort, IndInv, TypeOK
  <2>5. Accounted(handler'[h], processed', replies')
    <3>1. CASE DispatchReply(h)
      <4>1. handler'[h] = [handler[h] EXCEPT !.pc = "mark"] /\ replies'[Msg(h)] > 0
        BY <1>2, <2>1, <3>1 DEF DispatchReply, Goto, IndInv, TypeOK
      <4> QED
        BY <1>1, <2>2, <4>1 DEF Accounted, HandlerStates, Msg
    <3>2. CASE DispatchFails(h)
      BY <1>3, <3>2 DEF DispatchFails, Abort, IndInv, TypeOK
    <3> QED
      BY <1>10, <3>1, <3>2
  <2>6. \A g \in Handlers : Accounted(handler'[g], processed', replies')
    BY <2>2, <2>3, <2>4, <2>5, AccountedStep
  <2>7. \A m \in processed : m \in Messages
    BY DEF IndInv, TypeOK
  <2>8. \A w \in (1 .. sent) \ due : \A i \in DOMAIN Batches[w] : Batches[w][i] \in Messages
    BY <2>7 DEF AckInv, AcknowledgedMeansAnswered
  <2> QED
    BY <2>2, <2>3, <2>6, <2>7, <2>8 DEF AckInv, AcknowledgedMeansAnswered
<1>11. CASE Crash
  BY <1>3, <1>11 DEF Crash, AckInv, AcknowledgedMeansAnswered, world
<1>12. CASE UNCHANGED vars
  BY <1>12 DEF vars, world, AckInv, AcknowledgedMeansAnswered
<1> QED
  BY <1>4, <1>5, <1>6, <1>7, <1>8, <1>9, <1>10, <1>11, <1>12 DEF Next, Step

(* A webhook Meta no longer has to repeat has had every message answered   *)
(* and marked: whatever fails, and wherever, no message is lost in silence *)
(* (whatsappCloudRuntime.ts sends 200 after its whole loop).               *)
THEOREM Acknowledged == Spec => []AcknowledgedMeansAnswered
<1>1. Init => AckInv
  BY DEF Init, AckInv, AcknowledgedMeansAnswered, Accounted, Idle
<1>2. AckInv => AcknowledgedMeansAnswered
  BY DEF AckInv
<1> QED
  BY IndInit, IndNext, AckStep, <1>1, <1>2, PTL DEF Spec

-----------------------------------------------------------------------------
(* The registry of practices *)

(* The runtime implements the registry: practices are opened one at a      *)
(* time, by a message that has none, with the next code in sequence, and   *)
(* no step changes or removes one (sqlitePracticeStore.ts,                 *)
(* practiceCreationService.ts).                                            *)
THEOREM RegistryImplemented == Spec => RegistrySpec
<1>1. Init => Registry!Init
  BY DEF Init, Registry!Init
<1>2. ASSUME IndInv, [Next]_vars PROVE [Registry!Next]_(Registry!vars)
  <2>1. CASE UNCHANGED practiceT
    BY <2>1 DEF practiceT, Registry!vars
  <2>2. ASSUME NEW h \in Handlers, CreatePractice(h), ~ UNCHANGED practiceT
        PROVE  Registry!Open(Msg(h)) /\ Msg(h) \in Messages
    <3>1. /\ CanCreatePractice(h) /\ \A p \in practices : p.source # Msg(h)
          /\ practices' = practices \cup {NewPractice(h, NextCode)} /\ lastCode' = NextCode
      BY <2>2 DEF CreatePractice
    <3>2. lastCode' = lastCode + 1 /\ lastCode < MaxCode
      BY <1>2, <3>1, NextCodeIsNext, WorldAssumption
         DEF CanCreatePractice, IndInv, TypeOK, WorldAssumption
    <3>3. Msg(h) \in Messages /\ Subject(h) \in Subjects
      BY <1>2, <2>2, AtWork
         DEF CreatePractice, At, IndInv, HandlersSound, Sound, Client, Gated, Subject, Msg
    <3>4. {Entry(p) : p \in practices'} =
            {Entry(p) : p \in practices} \cup {Entry(NewPractice(h, NextCode))}
      BY <3>1
    <3>5. Entry(NewPractice(h, NextCode)) =
            [code |-> lastCode', subject |-> Sender[Msg(h)], source |-> Msg(h)]
      BY <3>1 DEF Entry, NewPractice, Subject
    <3>6. \A e \in {Entry(p) : p \in practices} : e.source # Msg(h)
      BY <3>1 DEF Entry
    <3> QED
      BY <3>2, <3>3, <3>4, <3>5, <3>6 DEF Registry!Open, Subject
  <2> QED
    BY <1>2, <2>1, <2>2, ZenonT(30)
       DEF Registry!Next, Registry!vars, Next, Step, vars, world, practiceT, budget,
       Send, Deliver, GiveUp, Acknowledge, SkipDuplicate, RejectBlank, Route,
       ResolveConsent, AppendConsentEvent, ResolveIntake, SetIntakeState, AppendStateEvent,
       SetIntakeField, AppendFieldEvent, RefusePractice, DispatchReply, MarkProcessed,
       DispatchFails, PersistenceFails, Crash
<1> QED
  BY IndInit, IndNext, <1>1, <1>2, PTL DEF Spec, RegistrySpec, Registry!Spec

(* The inductive invariant of the registry.                                *)
RegistryInv ==
  /\ lastCode \in Nat
  /\ Registry!CodesAreGapless /\ Registry!CodesAreUnique /\ Registry!SourcesAreUnique

(* Whatever implements the registry on such a start database: every code   *)
(* up to the last one is in use, by one practice, and no two practices     *)
(* come from the same message.                                             *)
THEOREM RegistrySound ==
  RegistrySpec => []( /\ Registry!CodesAreGapless
                      /\ Registry!CodesAreUnique /\ Registry!SourcesAreUnique )
<1> USE DEF Registry!CodesAreGapless, Registry!CodesAreUnique, Registry!SourcesAreUnique
<1>1. Registry!Init => RegistryInv
  <2> SUFFICES ASSUME Registry!Init PROVE RegistryInv
    OBVIOUS
  <2> DEFINE entries == {Entry(p) : p \in practices}
             start == {Entry(p) : p \in StartPractices}
  <2>1. entries = start /\ lastCode = Cardinality(StartPractices) /\ lastCode \in Nat
    BY StartAssumption, FS_CardinalityType DEF Registry!Init, StartAssumption
  <2>2. {e.code : e \in start} = 1 .. lastCode
    <3>1. {e.code : e \in start} = {p.code : p \in StartPractices}
      <4>1. \A p : Entry(p).code = p.code
        BY DEF Entry
      <4>2. \A e \in start : \E p \in StartPractices : e.code = p.code
        BY <4>1
      <4>3. \A p \in StartPractices : \E e \in start : e.code = p.code
        BY <4>1
      <4> HIDE DEF start
      <4> QED
        BY <4>2, <4>3
    <3> QED
      BY <2>1, <3>1, StartAssumption DEF StartAssumption
  <2>3. \A d, e \in start : d.code = e.code \/ d.source = e.source => d = e
    BY StartAssumption DEF StartAssumption, Entry
  <2> HIDE DEF start
  <2> QED
    BY <2>1, <2>2, <2>3 DEF RegistryInv
<1>2. RegistryInv /\ [Registry!Next]_(Registry!vars) => RegistryInv'
  <2> SUFFICES ASSUME RegistryInv, [Registry!Next]_(Registry!vars) PROVE RegistryInv'
    OBVIOUS
  <2> DEFINE entries == {Entry(p) : p \in practices}
             later == {Entry(p) : p \in practices'}
  <2>1. /\ lastCode \in Nat /\ {e.code : e \in entries} = 1 .. lastCode
        /\ \A d, e \in entries : d.code = e.code \/ d.source = e.source => d = e
    BY DEF RegistryInv
  <2>2. ASSUME lastCode' \in Nat, {e.code : e \in later} = 1 .. lastCode',
               \A d, e \in later : d.code = e.code \/ d.source = e.source => d = e
        PROVE  RegistryInv'
    BY <2>2 DEF RegistryInv
  <2>3. CASE UNCHANGED Registry!vars
    BY <2>1, <2>2, <2>3 DEF Registry!vars
  <2>4. ASSUME NEW m \in Messages, Registry!Open(m)
        PROVE  RegistryInv'
    <3> DEFINE new == [code |-> lastCode + 1, subject |-> Sender[m], source |-> m]
    <3>1. later = entries \cup {new} /\ lastCode' = lastCode + 1 /\ \A e \in entries : e.source # m
      BY <2>4 DEF Registry!Open
    <3>2. new.code = lastCode + 1 /\ new.source = m
      OBVIOUS
    <3> HIDE DEF new, entries, later
    <3>3. \A e \in entries : e.code \in 1 .. lastCode
      BY <2>1
    <3>4. {e.code : e \in later} = {e.code : e \in entries} \cup {lastCode + 1}
      BY <3>1, <3>2
    <3>5. {e.code : e \in later} = 1 .. lastCode' /\ lastCode' \in Nat
      BY <2>1, <3>1, <3>4
    <3>6. \A d, e \in later : d.code = e.code \/ d.source = e.source => d = e
      BY <2>1, <3>1, <3>2, <3>3
    <3> QED
      BY <2>2, <3>5, <3>6
  <2> QED
    BY <2>3, <2>4 DEF Registry!Next
<1>3. RegistryInv => /\ Registry!CodesAreGapless
                     /\ Registry!CodesAreUnique /\ Registry!SourcesAreUnique
  BY DEF RegistryInv
<1> QED
  BY <1>1, <1>2, <1>3, PTL DEF RegistrySpec, Registry!Spec

(* So it is of the runtime: whatever fails, no practice code is skipped,   *)
(* lost or given twice, and no message opens two practices.                *)
THEOREM CodesSound ==
  Spec => []( /\ Registry!CodesAreGapless
              /\ Registry!CodesAreUnique /\ Registry!SourcesAreUnique )
BY RegistryImplemented, RegistrySound, PTL
=============================================================================
