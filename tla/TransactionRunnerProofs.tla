------------------------ MODULE TransactionRunnerProofs ------------------------
(***************************************************************************)
(* What the transaction runner guarantees for every set of connections and *)
(* every content: an inductive invariant of its statements, and what       *)
(* follows from it for the program that is made of them (Operations).      *)
(***************************************************************************)
EXTENDS Operations, TLAPS, SequenceTheorems

-----------------------------------------------------------------------------
(* The inductive invariant *)

TxType ==
  /\ lock \in [Connections -> Locks]
  /\ open \in [Connections -> Opened]
  /\ depth \in [Connections -> Nat]
  /\ calls \in [Connections -> Nat]
  /\ saves = [c \in Connections |-> saves[c]]
  /\ \A c \in Connections : \E S : saves[c] \in Seq(S)

(* What a transaction has seen is what is committed.                       *)
SeenIsCommitted == seen = [c \in Connections |-> IF lock[c] = "none" THEN {} ELSE {disk}]

(* Without a writer there is nothing to commit.                            *)
NothingPending == (\A c \in Connections : lock[c] # "reserved") => pending = disk

(* Outside a transaction a connection holds no lock.                       *)
NoLockOutside == \A c \in Connections : open[c] = "none" => lock[c] = "none"

(* The depth counts the calls under way, or more.  Where it counts them,   *)
(* the outermost call has opened the transaction by BEGIN and each of the  *)
(* others a savepoint.                                                     *)
Balanced ==
  \A c \in Connections :
    /\ calls[c] <= depth[c]
    /\ depth[c] = calls[c] =>
         IF calls[c] = 0
         THEN open[c] \in {"none", "reading"} /\ saves[c] = <<>>
         ELSE open[c] = "immediate" /\ Len(saves[c]) = calls[c] - 1

TxInv == TxType /\ OneWriter /\ SeenIsCommitted /\ NothingPending /\ NoLockOutside /\ Balanced

-----------------------------------------------------------------------------
(* Sequences of savepoints *)

LEMMA PushSave ==
  ASSUME NEW s, NEW x, \E S : s \in Seq(S)
  PROVE  (\E S : Append(s, x) \in Seq(S)) /\ Len(Append(s, x)) = Len(s) + 1
<1>1. PICK S : s \in Seq(S)
  OBVIOUS
<1>2. s \in Seq(S \cup {x}) /\ x \in S \cup {x}
  BY <1>1
<1> QED
  BY <1>2

LEMMA PopSave ==
  ASSUME NEW s, \E S : s \in Seq(S), s # <<>>
  PROVE  (\E S : Pop(s) \in Seq(S)) /\ Len(Pop(s)) = Len(s) - 1
<1>1. PICK S : s \in Seq(S)
  OBVIOUS
<1>2. Len(s) \in Nat /\ Len(s) > 0
  BY <1>1, EmptySeq
<1>3. Pop(s) \in Seq(S) /\ Len(Pop(s)) = Len(s) - 1
  BY <1>1, <1>2 DEF Pop
<1> QED
  BY <1>3

-----------------------------------------------------------------------------
(* Each statement preserves the invariant *)

LEMMA ReadInv ==
  ASSUME TxInv, NEW c \in Connections, Read(c)
  PROVE  TxInv'
<1> USE DEF TxInv, Read, Locks
<1>1. TxType'
  BY DEF TxType
<1>2. \A d \in Connections : (lock'[d] = "reserved" <=> lock[d] = "reserved")
                               /\ (lock'[d] # "none" => lock[d] # "none" \/ open[d] # "none")
  BY DEF TxType
<1>5. OneWriter'
  BY <1>2 DEF OneWriter
<1>6. NothingPending'
  BY <1>2 DEF NothingPending
<1>7. NoLockOutside'
  BY <1>2 DEF NoLockOutside
<1>3. SeenIsCommitted'
  BY DEF TxType, SeenIsCommitted
<1>4. Balanced'
  BY DEF TxType, Balanced
<1> QED
  BY <1>1, <1>3, <1>4, <1>5, <1>6, <1>7

LEMMA WriteInv ==
  ASSUME TxInv, NEW c \in Connections, NEW content, Write(c, content)
  PROVE  TxInv'
<1> USE DEF TxInv, Write, CanWrite, Alone, Writable, Others, Locks
<1>1. TxType'
  BY DEF TxType
<1>2. OneWriter'
  BY DEF TxType, OneWriter
<1>3. NothingPending' /\ NoLockOutside'
  BY DEF TxType, NothingPending, NoLockOutside
<1>4. SeenIsCommitted'
  <2>1. CASE open[c] = "none"
    <3>1. \A d \in Connections : lock[d] = "none"
      BY <2>1 DEF NoLockOutside
    <3>2. seen = [d \in Connections |-> {}]
      BY <3>1 DEF SeenIsCommitted
    <3>3. seen' = seen /\ lock' = lock
      BY <2>1
    <3> QED
      BY <3>1, <3>2, <3>3 DEF SeenIsCommitted
  <2>2. CASE open[c] # "none"
    <3>1. lock' = [lock EXCEPT ![c] = "reserved"] /\ disk' = disk
      BY <2>2
    <3>2. CASE lock[c] = "none"
      <4>1. seen' = [seen EXCEPT ![c] = {disk}]
        BY <2>2, <3>2
      <4> QED
        BY <3>1, <3>2, <4>1 DEF TxType, SeenIsCommitted
    <3>3. CASE lock[c] # "none"
      <4>1. seen' = seen /\ \A d \in Connections : lock'[d] = "none" <=> lock[d] = "none"
        BY <2>2, <3>1, <3>3 DEF TxType
      <4> QED
        BY <3>1, <4>1 DEF SeenIsCommitted
    <3> QED
      BY <3>2, <3>3
  <2> QED
    BY <2>1, <2>2
<1>5. Balanced'
  BY DEF TxType, Balanced
<1> QED
  BY <1>1, <1>2, <1>3, <1>4, <1>5

LEMMA BeginReadInv ==
  ASSUME TxInv, NEW c \in Connections, BeginRead(c)
  PROVE  TxInv'
<1> USE DEF TxInv, BeginRead, Locks, Opened
<1>1. TxType'
  BY DEF TxType
<1>2. OneWriter' /\ NothingPending' /\ NoLockOutside'
  BY DEF TxType, OneWriter, NothingPending, NoLockOutside
<1>3. SeenIsCommitted'
  BY DEF TxType, SeenIsCommitted
<1>4. Balanced'
  BY DEF TxType, Balanced
<1> QED
  BY <1>1, <1>2, <1>3, <1>4

LEMMA CloseInv ==
  ASSUME TxInv, NEW c \in Connections, Close(c)
  PROVE  TxInv'
<1> USE DEF TxInv, Close, WithoutPending, Locks, Opened
<1>1. TxType'
  <2>1. <<>> \in Seq({})
    OBVIOUS
  <2> QED
    BY <2>1 DEF TxType
<1>2. OneWriter' /\ NoLockOutside'
  BY DEF TxType, OneWriter, NoLockOutside
<1>3. NothingPending'
  BY DEF TxType, OneWriter, NothingPending
<1>4. SeenIsCommitted'
  BY DEF TxType, SeenIsCommitted
<1>5. Balanced'
  BY DEF TxType, Balanced
<1> QED
  BY <1>1, <1>2, <1>3, <1>4, <1>5

LEMMA EnterInv ==
  ASSUME TxInv, NEW c \in Connections, Enter(c)
  PROVE  TxInv'
<1> USE DEF TxInv, Enter, Locks, Opened
<1>1. saves' = saves \/ saves' = [saves EXCEPT ![c] = Append(@, View(c))]
  OBVIOUS
<1>2. (\E S : Append(saves[c], View(c)) \in Seq(S))
        /\ Len(Append(saves[c], View(c))) = Len(saves[c]) + 1
  BY PushSave DEF TxType
<1>3. TxType'
  <2>1. \A d \in Connections : saves'[d] \in {saves[d], Append(saves[c], View(c))} /\ (d # c => saves'[d] = saves[d])
    BY <1>1 DEF TxType
  <2>2. saves' = [d \in Connections |-> saves'[d]]
    BY <1>1 DEF TxType
  <2>3. \A d \in Connections : \E S : saves'[d] \in Seq(S)
    <3> SUFFICES ASSUME NEW d \in Connections
                 PROVE  \E S : saves'[d] \in Seq(S)
      OBVIOUS
    <3>1. \E S : saves[d] \in Seq(S)
      BY DEF TxType
    <3> HIDE DEF TxInv, Enter
    <3> QED
      BY <1>2, <2>1, <3>1
  <2>4. lock' \in [Connections -> Locks]
    BY DEF TxType
  <2>5. open' \in [Connections -> Opened]
    BY DEF TxType
  <2>6. depth' \in [Connections -> Nat] /\ calls' \in [Connections -> Nat]
    BY DEF TxType
  <2> QED
    BY <2>2, <2>3, <2>4, <2>5, <2>6 DEF TxType
<1>4. OneWriter'
  <2>1. CASE depth[c] = 0
    <3>1. \A d \in Connections : d # c => lock'[d] = lock[d] /\ lock[d] # "reserved"
      BY <2>1 DEF TxType, Writable, Others
    <3> QED
      BY <3>1 DEF OneWriter
  <2>2. CASE depth[c] # 0
    BY <2>2 DEF OneWriter
  <2> QED
    BY <2>1, <2>2
<1>5. NothingPending' /\ NoLockOutside'
  BY DEF TxType, NothingPending, NoLockOutside
<1>6. SeenIsCommitted'
  BY DEF TxType, SeenIsCommitted
<1>7. Balanced'
  <2> SUFFICES ASSUME NEW d \in Connections PROVE Balanced!(d)'
    BY DEF Balanced
  <2>1. CASE d # c
    BY <2>1 DEF TxType, Balanced
  <2>2. CASE d = c /\ depth[c] = 0
    BY <2>2 DEF TxType, Balanced
  <2>3. CASE d = c /\ depth[c] > 0
    BY <1>2, <2>3 DEF TxType, Balanced
  <2> QED
    BY <2>1, <2>2, <2>3 DEF TxType
<1> QED
  BY <1>3, <1>4, <1>5, <1>6, <1>7

LEMMA EnterFailsInv ==
  ASSUME TxInv, NEW c \in Connections, EnterFails(c)
  PROVE  TxInv'
<1> USE DEF TxInv, EnterFails, files
<1>1. TxType'
  BY DEF TxType
<1>2. OneWriter' /\ NothingPending' /\ NoLockOutside' /\ SeenIsCommitted'
  BY DEF OneWriter, NothingPending, NoLockOutside, SeenIsCommitted
<1>3. Balanced'
  BY DEF TxType, Balanced
<1> QED
  BY <1>1, <1>2, <1>3

LEMMA LeaveInv ==
  ASSUME TxInv, NEW c \in Connections, Leave(c)
  PROVE  TxInv'
<1> USE DEF TxInv, Leave, Done, Locks, Opened
<1>1. ~Commits(c) => (\E S : Pop(saves[c]) \in Seq(S)) /\ Len(Pop(saves[c])) = Len(saves[c]) - 1
  BY PopSave DEF TxType, Commits
<1>2. calls[c] > 0 /\ calls[c] <= depth[c]
  BY DEF Balanced
<1>3. CASE Commits(c)
  <2> USE <1>3 DEF Ended
  <2>1. TxType'
    <3>1. saves' = saves
      OBVIOUS
    <3>2. lock' \in [Connections -> Locks]
      BY DEF TxType
    <3>3. open' \in [Connections -> Opened]
      BY DEF TxType
    <3>4. depth' \in [Connections -> Nat] /\ calls' \in [Connections -> Nat]
      BY <1>2 DEF TxType
    <3> QED
      BY <3>1, <3>2, <3>3, <3>4 DEF TxType
  <2>2. OneWriter' /\ NoLockOutside'
    <3>1. /\ lock' = [lock EXCEPT ![c] = "none"] /\ open' = [open EXCEPT ![c] = "none"]
          /\ lock \in [Connections -> Locks] /\ open \in [Connections -> Opened]
      BY DEF TxType
    <3>2. OneWriter'
      BY <3>1 DEF OneWriter
    <3>3. NoLockOutside'
      BY <3>1 DEF NoLockOutside
    <3> QED
      BY <3>2, <3>3
  <2>3. NothingPending'
    BY DEF TxType, NothingPending, View, CanLeave, Alone, Others
  <2>4. SeenIsCommitted'
    <3>1. CASE lock[c] = "reserved"
      <4>1. \A d \in Connections : d # c => lock[d] = "none"
        BY <3>1 DEF CanLeave, Alone, Others
      <4>2. seen' = [d \in Connections |-> {}]
        BY <4>1 DEF TxType, SeenIsCommitted
      <4>3. \A d \in Connections : lock'[d] = "none"
        BY <4>1 DEF TxType
      <4> QED
        BY <4>2, <4>3 DEF SeenIsCommitted
    <3>2. CASE lock[c] # "reserved"
      BY <3>2 DEF TxType, SeenIsCommitted, View
    <3> QED
      BY <3>1, <3>2
  <2>5. Balanced'
    BY <1>2 DEF TxType, Balanced, Commits
  <2> QED
    BY <2>1, <2>2, <2>3, <2>4, <2>5
<1>4. CASE ~Commits(c)
  <2> USE <1>4
  <2>1. TxType'
    <3>1. saves' = [saves EXCEPT ![c] = Pop(@)]
      OBVIOUS
    <3>2. saves' = [d \in Connections |-> saves'[d]]
      BY <3>1 DEF TxType
    <3>3. \A d \in Connections : saves'[d] = IF d = c THEN Pop(saves[c]) ELSE saves[d]
      BY <3>1 DEF TxType
    <3>4. \A d \in Connections : \E S : saves'[d] \in Seq(S)
      BY <1>1, <3>3 DEF TxType
    <3>5. depth' \in [Connections -> Nat] /\ calls' \in [Connections -> Nat]
      BY <1>2 DEF TxType
    <3>6. lock' = lock /\ open' = open
      OBVIOUS
    <3> QED
      BY <3>2, <3>4, <3>5, <3>6 DEF TxType
  <2>2. OneWriter' /\ NothingPending' /\ NoLockOutside' /\ SeenIsCommitted'
    BY DEF OneWriter, NothingPending, NoLockOutside, SeenIsCommitted
  <2>3. Balanced'
    BY <1>1, <1>2 DEF TxType, Balanced, Commits
  <2> QED
    BY <2>1, <2>2, <2>3
<1> QED
  BY <1>3, <1>4

LEMMA UnwindInv ==
  ASSUME TxInv, NEW c \in Connections, Unwind(c)
  PROVE  TxInv'
<1> USE DEF TxInv, Unwind, Done, Locks, Opened
<1>1. ~Commits(c) => (\E S : Pop(saves[c]) \in Seq(S)) /\ Len(Pop(saves[c])) = Len(saves[c]) - 1
  BY PopSave DEF TxType, Commits
<1>2. calls[c] > 0 /\ calls[c] <= depth[c]
  BY DEF Balanced
<1>3. CASE Commits(c)
  <2> USE <1>3 DEF Ended, WithoutPending
  <2>1. TxType'
    <3>1. saves' = saves
      OBVIOUS
    <3>2. lock' \in [Connections -> Locks]
      BY DEF TxType
    <3>3. open' \in [Connections -> Opened]
      BY DEF TxType
    <3>4. depth' \in [Connections -> Nat] /\ calls' \in [Connections -> Nat]
      BY <1>2 DEF TxType
    <3> QED
      BY <3>1, <3>2, <3>3, <3>4 DEF TxType
  <2>2. OneWriter' /\ NoLockOutside'
    <3>1. /\ UNCHANGED <<lock, open>> \/ (lock' = [lock EXCEPT ![c] = "none"] /\ open' = [open EXCEPT ![c] = "none"])
          /\ lock \in [Connections -> Locks] /\ open \in [Connections -> Opened]
      BY DEF TxType
    <3>2. OneWriter'
      BY <3>1 DEF OneWriter
    <3>3. NoLockOutside'
      BY <3>1 DEF NoLockOutside
    <3> QED
      BY <3>2, <3>3
  <2>3. NothingPending'
    BY DEF TxType, OneWriter, NothingPending
  <2>4. SeenIsCommitted'
    <3>1. /\ disk' = disk
          /\ UNCHANGED <<lock, seen>> \/ (lock' = [lock EXCEPT ![c] = "none"] /\ seen' = [seen EXCEPT ![c] = {}])
          /\ lock \in [Connections -> Locks]
      BY DEF TxType
    <3> QED
      BY <3>1 DEF SeenIsCommitted
  <2>5. Balanced'
    <3>1. /\ calls' = [calls EXCEPT ![c] = @ - 1] /\ saves' = saves
          /\ calls \in [Connections -> Nat] /\ depth \in [Connections -> Nat] /\ open \in [Connections -> Opened]
      BY DEF TxType
    <3> QED
      BY <1>2, <3>1 DEF Balanced, Commits
  <2> QED
    BY <2>1, <2>2, <2>3, <2>4, <2>5
<1>4. CASE ~Commits(c)
  <2> USE <1>4
  <2>1. TxType'
    <3>1. saves' = [saves EXCEPT ![c] = Pop(@)]
      OBVIOUS
    <3>2. saves' = [d \in Connections |-> saves'[d]]
      BY <3>1 DEF TxType
    <3>3. \A d \in Connections : saves'[d] = IF d = c THEN Pop(saves[c]) ELSE saves[d]
      BY <3>1 DEF TxType
    <3>4. \A d \in Connections : \E S : saves'[d] \in Seq(S)
      BY <1>1, <3>3 DEF TxType
    <3>5. depth' \in [Connections -> Nat] /\ calls' \in [Connections -> Nat]
      BY <1>2 DEF TxType
    <3>6. lock' = lock /\ open' = open
      OBVIOUS
    <3> QED
      BY <3>2, <3>4, <3>5, <3>6 DEF TxType
  <2>2. OneWriter' /\ NothingPending' /\ NoLockOutside' /\ SeenIsCommitted'
    BY DEF TxType, OneWriter, NothingPending, NoLockOutside, SeenIsCommitted
  <2>3. Balanced'
    BY <1>1, <1>2 DEF TxType, Balanced, Commits
  <2> QED
    BY <2>1, <2>2, <2>3
<1> QED
  BY <1>3, <1>4

-----------------------------------------------------------------------------
(* The program takes no step on the database but those of the runner.      *)

LEMMA WriteIsTx ==
  ASSUME NEW c \in Connections, NEW content, Write(c, content)
  PROVE  StepOf(c)
BY DEF StepOf

LEMMA MigratorIsTx ==
  ASSUME MigratorStep
  PROVE  [StepOf(Migrator)]_txVars
<1>1. Migrator \in Connections
  BY ConnectionsAssumption
<1>2. \A content : Write(Migrator, content) => StepOf(Migrator)
  BY <1>1, WriteIsTx
<1>3. CASE StartMigrating \/ StartMigration \/ MigratorDies
  BY <1>3 DEF StartMigrating, StartMigration, MigratorDies
<1>4. CASE RenameAway
  BY <1>2, <1>4 DEF RenameAway, Execute
<1>5. CASE CreateNew
  BY <1>2, <1>5 DEF CreateNew, Execute
<1>6. CASE CopyRows
  BY <1>2, <1>6 DEF CopyRows, Execute
<1>7. CASE DropLegacy
  BY <1>2, <1>7 DEF DropLegacy, Execute
<1>8. CASE RenameBack
  BY <1>2, <1>8 DEF RenameBack, Execute
<1>9. CASE FinishMigration
  BY <1>2, <1>9 DEF FinishMigration, Execute
<1>10. CASE RecordMigration
  BY <1>2, <1>10 DEF RecordMigration, Execute
<1> QED
  BY <1>3, <1>4, <1>5, <1>6, <1>7, <1>8, <1>9, <1>10 DEF MigratorStep, Migrate

LEMMA OperatorIsTx ==
  ASSUME OperatorStep
  PROVE  \E o \in Operators : [StepOf(o)]_txVars
<1>1. PICK o \in Operators :
        (\E s \in Clients : RunCommand(o, s)) \/ CreateCase(o)
        \/ CaseStatementThrows(o) \/ OperatorDies(o)
  BY DEF OperatorStep
<1>2. o \in Connections
  BY ConnectionsAssumption
<1>3. \A content : Write(o, content) => StepOf(o)
  BY <1>2, WriteIsTx
<1>4. Read(o) \/ Close(o) \/ Enter(o) \/ Leave(o) \/ Unwind(o) => StepOf(o)
  BY <1>2 DEF StepOf
<1>5. CASE \E s \in Clients : RunCommand(o, s)
  BY <1>5 DEF RunCommand
<1>6. CASE CaseStatementThrows(o) \/ BeginCaseRefused(o) \/ CommitCaseRefused(o)
  BY <1>6 DEF CaseStatementThrows, BeginCaseRefused, CommitCaseRefused
<1>7. CASE OperatorDies(o)
  BY <1>4, <1>7 DEF OperatorDies
<1>8. CASE BeginCase(o) \/ CheckIntake(o) \/ OpenSavepoint(o)
  BY <1>4, <1>8 DEF BeginCase, CheckIntake, OpenSavepoint
<1>9. CASE InsertCase(o)
  BY <1>3, <1>9 DEF InsertCase
<1>10. CASE AppendCaseAudit(o)
  BY <1>3, <1>10 DEF AppendCaseAudit, AppendAudit
<1>11. CASE AppendHitAudit(o)
  BY <1>3, <1>11 DEF AppendHitAudit, AppendAudit
<1>12. CASE ReleaseSavepoint(o) \/ CommitCase(o) \/ UnwindCase(o)
  BY <1>4, <1>12 DEF ReleaseSavepoint, CommitCase, UnwindCase
<1> QED
  BY <1>1, <1>5, <1>6, <1>7, <1>8, <1>9, <1>10, <1>11, <1>12 DEF CreateCase

LEMMA RuntimeIsTx ==
  ASSUME RuntimeStep
  PROVE  [StepOf(Runtime)]_txVars
<1>1. Runtime \in Connections
  BY ConnectionsAssumption
<1>2. \A content : Write(Runtime, content) => StepOf(Runtime)
  BY <1>1, WriteIsTx
<1>3. Read(Runtime) \/ Close(Runtime) \/ Enter(Runtime) \/ EnterFails(Runtime)
        \/ Leave(Runtime) \/ Unwind(Runtime) => StepOf(Runtime)
  BY <1>1 DEF StepOf
<1>4. CASE ServeBadly
  <2>1. CASE RuntimeDies
    BY <1>3, <2>1 DEF RuntimeDies
  <2>2. CASE RuntimeLocked \/ TableIsMissing \/ RuntimeStatementThrows
    BY <2>2 DEF RuntimeLocked, TableIsMissing, RuntimeStatementThrows
  <2> QED
    BY <1>4, <2>1, <2>2 DEF ServeBadly
<1>5. CASE StartRuntime \/ TakeMessage \/ CommitPracticeRefused
  BY <1>5 DEF StartRuntime, TakeMessage, CommitPracticeRefused
<1>6. CASE SetConsentState
  BY <1>2, <1>3, <1>6 DEF SetConsentState, Change
<1>7. CASE AppendConsentEvent
  BY <1>2, <1>7 DEF AppendConsentEvent, Change
<1>8. CASE ResolveIntake
  BY <1>3, <1>8 DEF ResolveIntake
<1>9. CASE SetIntakeState
  BY <1>2, <1>9 DEF SetIntakeState, Change
<1>10. CASE SetIntakeField
  BY <1>2, <1>10 DEF SetIntakeField, Change
<1>11. CASE AppendIntakeEvent
  BY <1>2, <1>11 DEF AppendIntakeEvent, Change
<1>12. CASE InsertPractice
  BY <1>2, <1>12 DEF InsertPractice, Change
<1>13. CASE BeginPractice \/ BeginPracticeRefused \/ CheckPractice \/ CommitPractice \/ UnwindPractice
  BY <1>3, <1>13 DEF BeginPractice, BeginPracticeRefused, CheckPractice, CommitPractice, UnwindPractice
<1> QED
  BY <1>4, <1>5, <1>6, <1>7, <1>8, <1>9, <1>10, <1>11, <1>12, <1>13 DEF RuntimeStep, Serve

LEMMA BackupIsTx ==
  ASSUME BackupStep
  PROVE  [StepOf(Backup)]_txVars
<1>1. Backup \in Connections
  BY ConnectionsAssumption
<1>2. BeginRead(Backup) \/ Close(Backup) => StepOf(Backup)
  BY <1>1 DEF StepOf
<1> QED
  BY <1>2 DEF BackupStep, StartBackup, EndBackup

LEMMA StepIsTx ==
  ASSUME [Next]_vars
  PROVE  [NextTx]_txVars
<1>1. CASE UNCHANGED vars
  BY <1>1 DEF vars
<1>2. CASE Next
  <2>1. {Migrator, Runtime, Backup} \cup Operators \subseteq Connections
    BY ConnectionsAssumption
  <2> QED
    BY <1>2, <2>1, MigratorIsTx, OperatorIsTx, RuntimeIsTx, BackupIsTx DEF Next, NextTx
<1> QED
  BY <1>1, <1>2

-----------------------------------------------------------------------------
(* The theorems *)

LEMMA InitTxInv ==
  ASSUME Init
  PROVE  TxInv
<1>1. InitTx(start)
  BY DEF Init
<1>2. <<>> \in Seq({})
  OBVIOUS
<1>3. TxType
  BY <1>1, <1>2 DEF InitTx, TxType, Locks, Opened
<1>4. OneWriter /\ NothingPending /\ NoLockOutside /\ Balanced
  BY <1>1 DEF InitTx, OneWriter, NothingPending, NoLockOutside, Balanced
<1>5. SeenIsCommitted
  BY <1>1 DEF InitTx, SeenIsCommitted
<1> QED
  BY <1>3, <1>4, <1>5 DEF TxInv

LEMMA TxInvStep ==
  ASSUME TxInv, [NextTx]_txVars
  PROVE  TxInv'
<1>1. CASE UNCHANGED txVars
  BY <1>1 DEF txVars, TxInv, TxType, OneWriter, SeenIsCommitted, NothingPending,
              NoLockOutside, Balanced
<1>2. CASE NextTx
  BY <1>2, ReadInv, WriteInv, BeginReadInv, CloseInv, EnterInv, EnterFailsInv, LeaveInv, UnwindInv
     DEF NextTx, StepOf
<1> QED
  BY <1>1, <1>2

(* However the processes interleave, and whichever statements are refused  *)
(* or processes die, the runner keeps its invariant.                       *)
THEOREM TransactionsSound == Spec => []TxInv
<1>1. TxInv /\ [Next]_vars => TxInv'
  BY StepIsTx, TxInvStep
<1> QED
  BY InitTxInv, <1>1, PTL DEF Spec

(* Two processes never hold the write lock together.                       *)
THEOREM WritersExclude == Spec => []OneWriter
<1>1. TxInv => OneWriter
  BY DEF TxInv
<1> QED
  BY <1>1, TransactionsSound, PTL

(* A transaction outlives its call only on a connection whose depth was    *)
(* raised by a BEGIN that failed.                                          *)
THEOREM NoOrphans == Spec => []NoOrphanUnlessLeaked
<1>1. TxInv => NoOrphanUnlessLeaked
  <2> SUFFICES ASSUME TxInv, NEW c \in Connections, depth[c] = calls[c]
               PROVE  calls[c] > 0 <=> open[c] \in {"deferred", "immediate"}
    BY DEF NoOrphanUnlessLeaked
  <2>1. calls[c] \in Nat
    BY DEF TxInv, TxType
  <2>2. CASE calls[c] = 0
    BY <2>2 DEF TxInv, Balanced
  <2>3. CASE calls[c] # 0
    BY <2>1, <2>3 DEF TxInv, Balanced
  <2> QED
    BY <2>2, <2>3
<1> QED
  BY <1>1, TransactionsSound, PTL

(* A step of the runner is a step of the serial store, or none.            *)
LEMMA TxIsSerial ==
  ASSUME TxInv, [NextTx]_txVars
  PROVE  [Serial!Next]_(Serial!vars)
<1> USE DEF Serial!Next, Serial!vars, Serial!Statement, Serial!Look, Serial!Forget,
            Serial!Commit, Serial!UnseenBy
<1>1. CASE UNCHANGED txVars
  BY <1>1 DEF txVars
<1>2. ASSUME NEW c \in Connections, Read(c) \/ BeginRead(c)
      PROVE  [Serial!Next]_(Serial!vars)
  BY <1>2 DEF Read, BeginRead
<1>3. ASSUME NEW c \in Connections, NEW content, Write(c, content)
      PROVE  [Serial!Next]_(Serial!vars)
  <2>1. CASE open[c] # "none"
    BY <1>3, <2>1 DEF Write
  <2>2. CASE open[c] = "none"
    <3>1. \A d \in Connections : lock[d] = "none"
      BY <1>3, <2>2 DEF Write, CanWrite, Alone, Others, TxInv, NoLockOutside
    <3>2. \A d \in Connections : seen[d] = {}
      BY <3>1 DEF TxInv, SeenIsCommitted
    <3> QED
      BY <1>3, <2>2, <3>2 DEF Write
  <2> QED
    BY <2>1, <2>2
<1>4. ASSUME NEW c \in Connections, Close(c)
      PROVE  [Serial!Next]_(Serial!vars)
  BY <1>4 DEF Close
<1>5. ASSUME NEW c \in Connections, Enter(c) \/ EnterFails(c)
      PROVE  [Serial!Next]_(Serial!vars)
  BY <1>5 DEF Enter, EnterFails, files
<1>6. ASSUME NEW c \in Connections, Leave(c)
      PROVE  [Serial!Next]_(Serial!vars)
  <2>1. CASE ~Commits(c)
    BY <1>6, <2>1 DEF Leave
  <2>2. CASE Commits(c) /\ lock[c] = "none"
    BY <1>6, <2>2 DEF Leave, Ended, View
  <2>3. CASE Commits(c) /\ lock[c] # "none"
    <3>1. seen[c] = {disk}
      BY <2>3 DEF TxInv, SeenIsCommitted
    <3>2. disk' # disk => \A d \in Connections \ {c} : lock[d] = "none"
      BY <1>6, <2>3 DEF Leave, View, CanLeave, Alone, Others
    <3>3. disk' # disk => \A d \in Connections \ {c} : seen[d] = {}
      BY <3>2 DEF TxInv, SeenIsCommitted
    <3> QED
      BY <1>6, <2>3, <3>1, <3>3 DEF Leave, Ended
  <2> QED
    BY <2>1, <2>2, <2>3
<1>7. ASSUME NEW c \in Connections, Unwind(c)
      PROVE  [Serial!Next]_(Serial!vars)
  BY <1>7 DEF Unwind, Ended
<1> QED
  BY <1>1, <1>2, <1>3, <1>4, <1>5, <1>6, <1>7 DEF NextTx, StepOf

(* The transactions of all processes implement the serial store: what is   *)
(* committed replaces what its author has seen.                            *)
THEOREM TransactionsAreSerial == Spec => SerialSpec
<1>1. Init => Serial!Init
  BY DEF Init, InitTx, Serial!Init
<1>2. TxInv /\ [Next]_vars => [Serial!Next]_(Serial!vars)
  BY StepIsTx, TxIsSerial
<1> QED
  BY <1>1, <1>2, TransactionsSound, PTL DEF Spec, SerialSpec, Serial!Spec
=============================================================================
