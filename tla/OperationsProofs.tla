--------------------------- MODULE OperationsProofs ---------------------------
(***************************************************************************)
(* What the program guarantees of its database file for every set of       *)
(* clients, operators and messages, every number of faults and every       *)
(* database to start from: the cases, their audit and the drafts, whatever *)
(* the interleaving of the processes and wherever one of them dies.        *)
(***************************************************************************)
EXTENDS TransactionRunnerProofs, WellFoundedInduction

-----------------------------------------------------------------------------
(* The statements on a content *)

(* A table that is set aside has a name of its own, and so has a new one.  *)
LEMMA LeftoverNames ==
  /\ \A t \in Rebuilt : /\ LegacyOf[t] \in Leftovers /\ NewOf[t] \in Leftovers
                        /\ LegacyOf[t] # NewOf[t]
                        /\ LegacyOf[t] \notin Rebuilt /\ NewOf[t] \notin Rebuilt
  /\ \A t, u \in Rebuilt : t # u => /\ LegacyOf[t] # LegacyOf[u] /\ NewOf[t] # NewOf[u]
                                    /\ LegacyOf[t] # NewOf[u]
  /\ "audit_events" \in Tables /\ "audit_events" \notin Rebuilt \cup Leftovers
  /\ Rebuilt = {"cases", "intake_states", "intake_fields", "intake_events"}
  /\ Rebuilt \subseteq Tables /\ Leftovers \subseteq Tables
BY DEF LegacyOf, NewOf, Rebuilt, Leftovers, Tables

(* A statement that replaces a table.                                      *)
LEMMA SetTableIs ==
  ASSUME NEW db, IsDatabase(db), NEW t \in Tables, NEW form, NEW rows
  PROVE  LET new == SetTable(db, t, [form |-> form, rows |-> rows]) IN
         /\ IsDatabase(new)
         /\ Form(new, t) = form /\ Rows(new, t) = rows
         /\ \A u \in Tables \ {t} : Form(new, u) = Form(db, u) /\ Rows(new, u) = Rows(db, u)
         /\ new.index = db.index /\ new.applied = db.applied
<1> DEFINE new == SetTable(db, t, [form |-> form, rows |-> rows])
<1>1. new = [table |-> [db.table EXCEPT ![t] = [form |-> form, rows |-> rows]],
             index |-> db.index, applied |-> db.applied]
  BY DEF IsDatabase, SetTable
<1> HIDE DEF new
<1>2. /\ new.table = [db.table EXCEPT ![t] = [form |-> form, rows |-> rows]]
      /\ new.index = db.index /\ new.applied = db.applied
      /\ new = [table |-> new.table, index |-> new.index, applied |-> new.applied]
  BY <1>1
<1>3. db.table = [u \in Tables |-> db.table[u]]
  BY DEF IsDatabase, Form, Rows
<1>4. /\ Form(new, t) = form /\ Rows(new, t) = rows
      /\ \A u \in Tables \ {t} : Form(new, u) = Form(db, u) /\ Rows(new, u) = Rows(db, u)
  BY <1>2, <1>3 DEF Form, Rows
<1>5. new.table = [u \in Tables |-> [form |-> Form(new, u), rows |-> Rows(new, u)]]
  <2>1. \A u \in Tables : new.table[u] = [form |-> Form(new, u), rows |-> Rows(new, u)]
    BY <1>2, <1>3 DEF IsDatabase, Form, Rows
  <2> QED
    BY <1>2, <1>3, <2>1
<1>6. IsDatabase(new)
  BY <1>2, <1>5 DEF IsDatabase
<1> QED
  BY <1>2, <1>4, <1>6 DEF new

(* A statement that changes the rows of a table.                           *)
LEMMA SetRowsIs ==
  ASSUME NEW db, IsDatabase(db), NEW t \in Tables, NEW rows
  PROVE  LET new == SetRows(db, t, rows) IN
         /\ IsDatabase(new)
         /\ Rows(new, t) = rows
         /\ \A u \in Tables : Form(new, u) = Form(db, u)
         /\ \A u \in Tables \ {t} : Rows(new, u) = Rows(db, u)
         /\ new.index = db.index /\ new.applied = db.applied
<1>1. SetRows(db, t, rows) = SetTable(db, t, [form |-> Form(db, t), rows |-> rows])
  <2>1. db.table[t] = [form |-> Form(db, t), rows |-> Rows(db, t)]
    BY DEF IsDatabase
  <2>2. [db.table[t] EXCEPT !.rows = rows] = [form |-> Form(db, t), rows |-> rows]
    BY <2>1
  <2> QED
    BY <2>2 DEF SetRows, SetTable
<1> QED
  BY <1>1, SetTableIs

(* A table is renamed.                                                     *)
LEMMA RenameIs ==
  ASSUME NEW db, IsDatabase(db), NEW t \in Tables, NEW u \in Tables, t # u
  PROVE  LET new == Rename(db, t, u) IN
         /\ IsDatabase(new)
         /\ Form(new, u) = Form(db, t) /\ Rows(new, u) = Rows(db, t)
         /\ Form(new, t) = "missing" /\ Rows(new, t) = <<>>
         /\ \A v \in Tables \ {t, u} : Form(new, v) = Form(db, v) /\ Rows(new, v) = Rows(db, v)
         /\ new.index = db.index /\ new.applied = db.applied
<1> DEFINE mid == SetTable(db, u, [form |-> Form(db, t), rows |-> Rows(db, t)])
           new == SetTable(mid, t, [form |-> "missing", rows |-> <<>>])
<1>1. Rename(db, t, u) = new
  <2>1. db.table[t] = [form |-> Form(db, t), rows |-> Rows(db, t)]
    BY DEF IsDatabase
  <2> QED
    BY <2>1 DEF Rename, SetTable, Missing
<1>2. /\ IsDatabase(mid)
      /\ Form(mid, u) = Form(db, t) /\ Rows(mid, u) = Rows(db, t)
      /\ \A v \in Tables \ {u} : Form(mid, v) = Form(db, v) /\ Rows(mid, v) = Rows(db, v)
      /\ mid.index = db.index /\ mid.applied = db.applied
  BY SetTableIs
<1> HIDE DEF mid
<1>3. /\ IsDatabase(new)
      /\ Form(new, t) = "missing" /\ Rows(new, t) = <<>>
      /\ \A v \in Tables \ {t} : Form(new, v) = Form(mid, v) /\ Rows(new, v) = Rows(mid, v)
      /\ new.index = mid.index /\ new.applied = mid.applied
  BY <1>2, SetTableIs
<1> HIDE DEF new
<1> QED
  BY <1>1, <1>2, <1>3

-----------------------------------------------------------------------------
(* The inductive invariant *)

(* Every content there is or may be returned to.                           *)
Kept == {disk, pending} \cup UNION {Range(saves[c]) : c \in Connections}

(* The local states of the processes.                                      *)
LocalType ==
  /\ migrator \in [stage : Stages, left : SUBSET Migrations, tables : SUBSET Rebuilt]
  /\ operator = [o \in Operators |->
                   [pc |-> operator[o].pc, subject |-> operator[o].subject,
                    summary |-> operator[o].summary]]
  /\ \A o \in Operators : operator[o].pc \in OperatorLabels
  /\ "pc" \in DOMAIN runtime /\ runtime.pc \in RuntimeLabels

(* Until every migration is recorded the migrator is alone.                *)
MigratesAlone ==
  ~AllApplied(disk) =>
    /\ \A c \in Connections : open[c] = "none"
    /\ \A o \in Operators : operator[o].pc = "idle"
    /\ runtime.pc = "down"

(* It has still to apply what is not recorded, and what it takes away and  *)
(* puts back belongs to the first of these.                                *)
MigratorWork ==
  /\ migrator.stage = "idle" <=> migrator.left = {}
  /\ migrator.left # {} => migrator.left = Pending(disk)
  /\ migrator.tables # {} <=> migrator.stage \in {"rename", "create", "copy", "drop", "restore"}
  /\ \A t \in migrator.tables : t = "cases" <=> Current = HardenCases
  /\ open[Migrator] = "none" /\ lock[Backup] # "reserved"

(* The calls of a command under way, all of them in its own transaction.   *)
OperatorCalls(o) ==
  /\ depth[o] = calls[o]
  /\ calls[o] \in CASE operator[o].pc \in {"idle", "begin"} -> {0}
                     [] operator[o].pc \in {"check", "savepoint", "hit", "commit"} -> {1}
                     [] operator[o].pc \in {"insert", "audit", "release"} -> {2}
                     [] OTHER -> {1, 2}
  /\ calls[o] > 0 => lock[o] = "reserved"
  /\ operator[o].pc # "idle" => operator[o].subject \in Clients

(* What the database says entitles the command to its case.                *)
Justified(o) ==
  /\ CanCreateCase(disk, operator[o].subject)
  /\ DraftsOf(disk, operator[o].subject) = {}
  /\ operator[o].summary = FieldsOf(disk, operator[o].subject)["problemSummary"]

WithCase(db, o) ==
  SetRows(db, "cases", Put(Rows(db, "cases"), operator[o].subject, NewCase(o)))

WithAudit(db, kind, id) ==
  SetRows(db, "audit_events", Put(Rows(db, "audit_events"), <<kind, id>>, id))

(* What its transaction has changed so far.                                *)
OperatorWork(o) ==
  LET pc == operator[o].pc
      both == WithAudit(WithCase(disk, o), "case_created_from_intake", operator[o].subject)
      hit(id) == WithAudit(disk, "case_create_from_intake_idempotent_hit", id)
  IN
  /\ pc \in {"check", "savepoint", "insert", "hit"} => pending = disk
  /\ pc \in {"savepoint", "insert", "audit", "release"} => Justified(o)
  /\ pc = "audit" => pending = WithCase(disk, o)
  /\ pc = "release" => pending = both
  /\ pc = "commit" => \/ pending = both /\ Justified(o)
                     \/ \E id \in DraftsOf(disk, operator[o].subject) : pending = hit(id)
  /\ calls[o] = 2 => saves[o] = <<disk>>

SameCases(a, b) ==
  /\ \A t \in {"cases", "audit_events"} : Rows(a, t) = Rows(b, t)
  /\ \A t \in Tables : Form(a, t) = Form(b, t)
  /\ a.index = b.index /\ a.applied = b.applied

(* The runtime's transaction, the one that outlives its call included,     *)
(* leaves the cases and their audit alone.                                 *)
RuntimeWork ==
  /\ calls[Runtime] = IF runtime.pc \in {"check", "create", "commit", "unwind"} THEN 1 ELSE 0
  /\ calls[Runtime] = 0 => saves[Runtime] = <<>> /\ (open[Runtime] # "none" => lock[Runtime] = "reserved")
  /\ saves[Runtime] # <<>> => lock[Runtime] = "reserved" /\ Len(saves[Runtime]) = 1
  /\ lock[Runtime] = "reserved" =>
       \A db \in {pending} \cup Range(saves[Runtime]) : SameCases(db, disk)

(* The committed cases.                                                    *)
CommittedCases ==
  /\ \A i \in disk.applied : 1 .. i \subseteq disk.applied
  /\ HardenCases \in disk.applied \/ (migrator.stage = "record" /\ Current = HardenCases)
       => Exists(disk, "cases")
  /\ EnforceUniqueness \in disk.applied \/ (migrator.stage = "record" /\ Current = EnforceUniqueness)
       => disk.index /\ OneDraftEach(disk)
  /\ IF AllApplied(disk) THEN Audited(disk) ELSE Numbered(disk)

OpsInv ==
  /\ TxInv
  /\ LocalType
  /\ \A db \in Kept : IsDatabase(db)
  /\ MigratesAlone
  /\ MigratorWork
  /\ \A o \in Operators : OperatorCalls(o) /\ OperatorWork(o)
  /\ RuntimeWork
  /\ CommittedCases

-----------------------------------------------------------------------------
(* What a statement leaves alone *)

(* What savepoints keep.                                                   *)
LEMMA SavesRange ==
  ASSUME NEW s, \E S : s \in Seq(S), NEW x
  PROVE  /\ Range(Append(s, x)) = Range(s) \cup {x}
         /\ s # <<>> => Range(Pop(s)) \subseteq Range(s) /\ s[Len(s)] \in Range(s)
         /\ Len(s) = 1 => s = <<s[1]>> /\ Pop(s) = <<>>
<1>1. PICK S : s \in Seq(S)
  OBVIOUS
<1>2. DOMAIN s = 1 .. Len(s) /\ Len(s) \in Nat /\ Len(Append(s, x)) = Len(s) + 1
        /\ DOMAIN Append(s, x) = 1 .. Len(s) + 1
        /\ \A i \in 1 .. Len(s) : Append(s, x)[i] = s[i]
        /\ Append(s, x)[Len(s) + 1] = x
  BY <1>1
<1>3. Range(Append(s, x)) = Range(s) \cup {x}
  <2>1. \A y : y \in Range(Append(s, x)) <=> \E i \in 1 .. Len(s) + 1 : y = Append(s, x)[i]
    BY <1>2 DEF Range
  <2>2. \A y : y \in Range(s) <=> \E i \in 1 .. Len(s) : y = s[i]
    BY <1>2 DEF Range
  <2> QED
    BY <1>2, <2>1, <2>2
<1>4. ASSUME s # <<>>
      PROVE  Range(Pop(s)) \subseteq Range(s) /\ s[Len(s)] \in Range(s)
  <2>1. Len(s) > 0
    BY <1>1, <1>4, EmptySeq
  <2>2. DOMAIN Pop(s) = 1 .. Len(s) - 1 /\ \A i \in 1 .. Len(s) - 1 : Pop(s)[i] = s[i]
    BY <1>1, <2>1 DEF Pop
  <2> QED
    BY <1>2, <2>1, <2>2 DEF Range
<1>5. ASSUME Len(s) = 1
      PROVE  s = <<s[1]>> /\ Pop(s) = <<>>
  BY <1>1, <1>5 DEF Pop
<1> QED
  BY <1>3, <1>4, <1>5

(* A statement keeps the contents there are, but for the one it writes.    *)
LEMMA KeptByWrite ==
  ASSUME NEW c \in Connections, NEW content, Write(c, content)
  PROVE  Kept' \subseteq Kept \cup {content}
BY DEF Write, Kept

(* Apart from a statement that writes, no step of a connection adds a      *)
(* content to those that are kept.                                         *)
LEMMA KeptOtherwise ==
  ASSUME TxInv, NEW c \in Connections,
         Read(c) \/ BeginRead(c) \/ Close(c) \/ Enter(c) \/ EnterFails(c) \/ Leave(c) \/ Unwind(c)
  PROVE  Kept' \subseteq Kept
<1>1. View(c) \in Kept /\ WithoutPending(c) \in Kept
  BY DEF View, WithoutPending, Kept
<1>2. \A d \in Connections : Range(saves[d]) \subseteq Kept
  BY DEF Kept
<1>3. /\ Range(Append(saves[c], View(c))) \subseteq Kept
      /\ ~Commits(c) => Range(Pop(saves[c])) \subseteq Kept /\ saves[c][Len(saves[c])] \in Kept
  <2>1. \E S : saves[c] \in Seq(S)
    BY DEF TxInv, TxType
  <2>2. Range(Append(saves[c], View(c))) = Range(saves[c]) \cup {View(c)}
    BY <2>1, SavesRange
  <2>3. ~Commits(c) =>
          Range(Pop(saves[c])) \subseteq Range(saves[c]) /\ saves[c][Len(saves[c])] \in Range(saves[c])
    BY <2>1, SavesRange DEF Commits
  <2> QED
    BY <1>1, <1>2, <2>2, <2>3
<1>4. Range(<<>>) = {}
  BY DEF Range
<1>5. ASSUME disk' \in Kept, pending' \in Kept,
             \A d \in Connections : Range(saves'[d]) \subseteq Kept
      PROVE  Kept' \subseteq Kept
  BY <1>5 DEF Kept
<1>6. disk \in Kept /\ pending \in Kept
  BY DEF Kept
<1>7. CASE Read(c) \/ BeginRead(c) \/ EnterFails(c)
  BY <1>2, <1>5, <1>6, <1>7 DEF Read, BeginRead, EnterFails, files
<1>8. CASE Close(c)
  BY <1>1, <1>2, <1>4, <1>5, <1>6, <1>8 DEF Close, TxInv, TxType
<1>9. CASE Enter(c)
  <2>1. saves' = saves \/ saves' = [saves EXCEPT ![c] = Append(@, View(c))]
    BY <1>9 DEF Enter
  <2>2. \A d \in Connections : Range(saves'[d]) \subseteq Kept
    BY <1>2, <1>3, <2>1 DEF TxInv, TxType
  <2> QED
    BY <1>5, <1>6, <1>9, <2>2 DEF Enter
<1>10. CASE Leave(c)
  <2>1. saves' = saves \/ (~Commits(c) /\ saves' = [saves EXCEPT ![c] = Pop(@)])
    BY <1>10 DEF Leave
  <2>2. \A d \in Connections : Range(saves'[d]) \subseteq Kept
    BY <1>2, <1>3, <2>1 DEF TxInv, TxType
  <2> QED
    BY <1>1, <1>5, <1>6, <1>10, <2>2 DEF Leave
<1>11. CASE Unwind(c)
  <2>1. saves' = saves \/ (~Commits(c) /\ saves' = [saves EXCEPT ![c] = Pop(@)])
    BY <1>11 DEF Unwind
  <2>2. \A d \in Connections : Range(saves'[d]) \subseteq Kept
    BY <1>2, <1>3, <2>1 DEF TxInv, TxType
  <2>3. pending' \in Kept
    BY <1>1, <1>3, <1>6, <1>11 DEF Unwind
  <2> QED
    BY <1>5, <1>6, <1>11, <2>2, <2>3 DEF Unwind
<1> QED
  BY <1>7, <1>8, <1>9, <1>10, <1>11

(* The statement of one connection does not touch the transaction of       *)
(* another one.                                                            *)
LEMMA OthersKeep ==
  ASSUME TxInv, NEW c \in Connections, [StepOf(c)]_txVars, NEW d \in Connections, d # c
  PROVE  /\ lock'[d] = lock[d] /\ open'[d] = open[d] /\ saves'[d] = saves[d]
         /\ depth'[d] = depth[d] /\ calls'[d] = calls[d]
<1> USE DEF TxInv, TxType
<1>1. CASE UNCHANGED txVars
  BY <1>1 DEF txVars
<1>2. CASE Read(c) \/ BeginRead(c) \/ Close(c) \/ EnterFails(c)
  BY <1>2 DEF Read, BeginRead, Close, EnterFails, files
<1>3. CASE Enter(c)
  BY <1>3 DEF Enter
<1>4. CASE Leave(c)
  BY <1>4 DEF Leave, Ended, Done
<1>5. CASE Unwind(c)
  BY <1>5 DEF Unwind, Ended, Done
<1>6. CASE \E content : Write(c, content)
  BY <1>6 DEF Write
<1> QED
  BY <1>1, <1>2, <1>3, <1>4, <1>5, <1>6 DEF StepOf

(* While one connection holds the write lock, no other one changes what is *)
(* committed or what it has pending.                                       *)
LEMMA OthersWait ==
  ASSUME TxInv, NEW c \in Connections, [StepOf(c)]_txVars,
         NEW d \in Connections, d # c, lock[d] = "reserved"
  PROVE  disk' = disk /\ pending' = pending
<1>1. lock[c] # "reserved" /\ ~Writable(c) /\ ~Alone(c)
  BY DEF TxInv, OneWriter, Writable, Alone, Others
<1>2. CASE UNCHANGED txVars
  BY <1>2 DEF txVars
<1>3. CASE Read(c) \/ BeginRead(c) \/ EnterFails(c) \/ Enter(c)
  BY <1>3 DEF Read, BeginRead, EnterFails, files, Enter
<1>4. CASE Close(c) \/ Leave(c)
  BY <1>1, <1>4 DEF Close, WithoutPending, Leave, View
<1>5. CASE Unwind(c)
  BY <1>1, <1>5 DEF Unwind, WithoutPending
<1>6. CASE \E content : Write(c, content)
  BY <1>1, <1>6 DEF Write, CanWrite
<1> QED
  BY <1>2, <1>3, <1>4, <1>5, <1>6 DEF StepOf

-----------------------------------------------------------------------------
(* The cases in a content *)

(* What is said of the drafts depends on the table of the cases only.      *)
LEMMA DraftsIn ==
  ASSUME NEW a, NEW b, Rows(a, "cases") = Rows(b, "cases")
  PROVE  /\ \A s : DraftsOf(a, s) = DraftsOf(b, s)
         /\ OneDraftEach(a) <=> OneDraftEach(b)
<1>1. Keys(a, "cases") = Keys(b, "cases")
  BY DEF Keys, Rows
<1>2. \A s : DraftsOf(a, s) = DraftsOf(b, s)
  BY <1>1 DEF DraftsOf, Drafts
<1> QED
  BY <1>2 DEF OneDraftEach

(* And so it is for the audit, with the table of the events.               *)
LEMMA AuditIn ==
  ASSUME NEW a, NEW b,
         Rows(a, "cases") = Rows(b, "cases"), Rows(a, "audit_events") = Rows(b, "audit_events")
  PROVE  Audited(a) <=> Audited(b)
BY DEF Audited, Keys, Rows

(* Of the drafts of a client the earliest is left.                         *)
LEMMA ArchivedIs ==
  ASSUME NEW db, IsDatabase(db), Numbered(db)
  PROVE  LET new == [Archived(db) EXCEPT !.index = TRUE] IN
         /\ IsDatabase(new) /\ Numbered(new)
         /\ new.index = TRUE /\ new.applied = db.applied
         /\ \A t \in Tables : Form(new, t) = Form(db, t)
         /\ OneDraftEach(new)
<1> DEFINE Late(id) == \E other \in DraftsOf(db, Rows(db, "cases")[id].subject) :
                         id \in Drafts(db) /\ other < id
           rows == [id \in Keys(db, "cases") |->
                      IF Late(id)
                      THEN [Rows(db, "cases")[id] EXCEPT !.status = "duplicate_archived"]
                      ELSE Rows(db, "cases")[id]]
           mid == SetRows(db, "cases", rows)
           new == [mid EXCEPT !.index = TRUE]
<1>1. Archived(db) = mid
  BY DEF Archived
<1>2. "cases" \in Tables /\ "audit_events" \in Tables /\ "audit_events" # "cases"
        /\ {"cases", LegacyOf["cases"], NewOf["cases"]} \subseteq Tables
        /\ LegacyOf["cases"] # "cases" /\ NewOf["cases"] # "cases"
  BY DEF Tables, Rebuilt, LegacyOf, NewOf, Leftovers
<1>3. /\ IsDatabase(mid) /\ Rows(mid, "cases") = rows
      /\ \A t \in Tables : Form(mid, t) = Form(db, t)
      /\ \A t \in Tables \ {"cases"} : Rows(mid, t) = Rows(db, t)
      /\ mid.applied = db.applied
  BY <1>2, SetRowsIs
<1>4. \A id \in Keys(db, "cases") :
        /\ id \in Nat
        /\ rows[id] = [subject |-> rows[id].subject, status |-> rows[id].status,
                       summary |-> rows[id].summary]
        /\ rows[id].subject = Rows(db, "cases")[id].subject
        /\ rows[id].status = "draft" => id \in Drafts(db) /\ ~Late(id)
  <2> SUFFICES ASSUME NEW id \in Keys(db, "cases")
               PROVE  /\ id \in Nat
                      /\ rows[id] = [subject |-> rows[id].subject, status |-> rows[id].status,
                                     summary |-> rows[id].summary]
                      /\ rows[id].subject = Rows(db, "cases")[id].subject
                      /\ rows[id].status = "draft" => id \in Drafts(db) /\ ~Late(id)
    OBVIOUS
  <2> DEFINE row == Rows(db, "cases")[id]
  <2>1. /\ id \in Nat
        /\ row = [subject |-> row.subject, status |-> row.status, summary |-> row.summary]
    BY DEF Numbered
  <2>2. rows[id] = IF Late(id) THEN [row EXCEPT !.status = "duplicate_archived"] ELSE row
    OBVIOUS
  <2>3. [row EXCEPT !.status = "duplicate_archived"]
          = [subject |-> row.subject, status |-> "duplicate_archived", summary |-> row.summary]
    BY <2>1
  <2>4. Late(id) => id \in Drafts(db)
    OBVIOUS
  <2>5. id \in Drafts(db) <=> row.status = "draft"
    BY DEF Drafts
  <2> HIDE DEF rows, row, Late
  <2>6. CASE Late(id)
    BY <2>1, <2>2, <2>3, <2>6 DEF row
  <2>7. CASE ~Late(id)
    BY <2>1, <2>2, <2>5, <2>7 DEF row
  <2> QED
    BY <2>6, <2>7
<1> HIDE DEF rows, mid
<1>5. /\ new = [table |-> mid.table, index |-> TRUE, applied |-> mid.applied]
  <2>1. mid = [table |-> mid.table, index |-> mid.index, applied |-> mid.applied]
    BY <1>3 DEF IsDatabase
  <2>2. ASSUME NEW b
        PROVE  [mid EXCEPT !.index = b] = [table |-> mid.table, index |-> b, applied |-> mid.applied]
    <3>1. \A x, y, z : [[table |-> x, index |-> y, applied |-> z] EXCEPT !.index = b]
                         = [table |-> x, index |-> b, applied |-> z]
      OBVIOUS
    <3> QED
      BY <2>1, <3>1
  <2> QED
    BY <2>2
<1>6. IsDatabase(new) /\ new.index = TRUE /\ new.applied = db.applied
        /\ \A t : Form(new, t) = Form(mid, t) /\ Rows(new, t) = Rows(mid, t) /\ Keys(new, t) = Keys(mid, t)
  BY <1>3, <1>5 DEF IsDatabase, Form, Rows, Keys
<1> HIDE DEF new
<1>7. Keys(new, "cases") = Keys(db, "cases") /\ Rows(new, "cases") = rows
  <2>1. DOMAIN rows = Keys(db, "cases")
    BY DEF rows
  <2> QED
    BY <1>3, <1>6, <2>1 DEF Keys, Rows
<1>8. Numbered(new)
  <2>1. \A t \in Tables \ {"cases"} : Rows(new, t) = Rows(db, t) /\ Keys(new, t) = Keys(db, t)
    BY <1>3, <1>6 DEF Keys, Rows
  <2> QED
    BY <1>2, <1>4, <1>7, <2>1 DEF Numbered
<1>9. OneDraftEach(new)
  <2> SUFFICES ASSUME NEW s \in Clients, NEW c \in DraftsOf(new, s), NEW d \in DraftsOf(new, s)
               PROVE  c = d
    BY DEF OneDraftEach
  <2>1. \A id \in {c, d} :
          /\ id \in Keys(db, "cases") /\ id \in Nat /\ ~Late(id)
          /\ id \in DraftsOf(db, s) /\ id \in Drafts(db) /\ Rows(db, "cases")[id].subject = s
    BY <1>4, <1>7 DEF DraftsOf, Drafts
  <2>2. ~(c < d) /\ ~(d < c)
    BY <2>1
  <2> QED
    BY <2>1, <2>2
<1> QED
  BY <1>1, <1>3, <1>6, <1>8, <1>9 DEF new

-----------------------------------------------------------------------------
(* The migrations *)

(* The migrations still to apply have a first one.                         *)
LEMMA CurrentIs ==
  ASSUME NEW S, S \subseteq Migrations, S # {}
  PROVE  LET i == CHOOSE i \in S : \A j \in S : i <= j
         IN  i \in S /\ \A j \in S : i <= j
<1>1. PICK n \in S : TRUE
  OBVIOUS
<1>2. S \in SUBSET Nat
  BY DEF Migrations
<1>3. \E i \in S : \A j \in S : i <= j
  <2> DEFINE R == OpToRel(<,Nat)
  <2>1. \A i, j \in Nat : j < i => <<j, i>> \in R
    BY DEF OpToRel
  <2>2. IsWellFoundedOn(R, Nat)
    BY NatLessThanWellFounded
  <2> HIDE DEF R
  <2>3. PICK i \in S : \A j \in S : ~(<<j, i>> \in R)
    BY <1>1, <1>2, <2>2, WFMin
  <2>4. \A j \in S : ~(j < i) /\ j \in Nat /\ i \in Nat
    BY <1>2, <2>1, <2>3
  <2> QED
    BY <2>4
<1> QED
  BY <1>3

(* So have the tables still to rebuild.                                    *)
LEMMA RebuildingIs ==
  ASSUME NEW S, S \subseteq Rebuilt, S # {}
  PROVE  (CHOOSE t \in S : \A u \in S : RebuildRank[t] <= RebuildRank[u]) \in S
<1>1. /\ RebuildRank["cases"] = 1 /\ RebuildRank["intake_states"] = 2
      /\ RebuildRank["intake_fields"] = 3 /\ RebuildRank["intake_events"] = 4
  BY DEF RebuildRank
<1>2. S \subseteq {"cases", "intake_states", "intake_fields", "intake_events"}
  BY LeftoverNames
<1>3. \E t \in S : \A u \in S : RebuildRank[t] <= RebuildRank[u]
  <2>1. CASE "cases" \in S
    BY <1>1, <1>2, <2>1
  <2>2. CASE "cases" \notin S /\ "intake_states" \in S
    BY <1>1, <1>2, <2>2
  <2>3. CASE "cases" \notin S /\ "intake_states" \notin S /\ "intake_fields" \in S
    BY <1>1, <1>2, <2>3
  <2>4. CASE S = {"intake_events"}
    BY <1>1, <2>4
  <2> QED
    BY <1>2, <2>1, <2>2, <2>3, <2>4
<1> QED
  BY <1>3

(* While it applies one, nothing else is under way.                        *)
LEMMA MigratingIs ==
  ASSUME OpsInv, migrator.stage # "idle"
  PROVE  /\ ~AllApplied(disk) /\ migrator.left = Migrations \ disk.applied
         /\ Current \in Migrations \ disk.applied
         /\ \A i \in Migrations \ disk.applied : Current <= i
         /\ \A i \in disk.applied : i < Current
         /\ \A c \in Connections : open[c] = "none" /\ lock[c] = "none"
         /\ pending = disk /\ IsDatabase(disk) /\ Numbered(disk)
<1>1. migrator.left # {} /\ migrator.left = Migrations \ disk.applied
  BY DEF OpsInv, MigratorWork, Pending
<1>2. Current \in migrator.left /\ \A i \in migrator.left : Current <= i
  BY <1>1, CurrentIs DEF Current
<1>3. ~AllApplied(disk)
  BY <1>1 DEF AllApplied, Pending
<1>4. \A c \in Connections : open[c] = "none" /\ lock[c] = "none"
  BY <1>3 DEF OpsInv, MigratesAlone, TxInv, NoLockOutside
<1>5. pending = disk
  BY <1>4 DEF OpsInv, TxInv, NothingPending
<1>6. disk \in Kept
  BY DEF Kept
<1>7. disk.applied \subseteq Migrations
  BY <1>6 DEF OpsInv, IsDatabase
<1>8. ASSUME NEW i \in disk.applied
      PROVE  i < Current
  <2>1. i \in Nat /\ Current \in Nat /\ Current >= 1
    BY <1>1, <1>2, <1>7 DEF Migrations
  <2>2. 1 .. i \subseteq disk.applied
    BY DEF OpsInv, CommittedCases
  <2> QED
    BY <1>1, <1>2, <2>1, <2>2
<1> QED
  BY <1>1, <1>2, <1>3, <1>4, <1>5, <1>6, <1>8 DEF OpsInv, CommittedCases

(* A statement of the migrator commits at once.                            *)
LEMMA MigratorWrites ==
  ASSUME OpsInv, NEW content, Execute(content)
  PROVE  /\ disk' = content /\ pending' = content
         /\ UNCHANGED <<lock, open, saves, depth, calls>>
BY DEF OpsInv, MigratorWork, Execute, Write

(* A step of the migrator keeps the invariant if what it writes does.      *)
LEMMA MigratorKeeps ==
  ASSUME OpsInv, TxInv', ~AllApplied(disk), pending' = disk',
         UNCHANGED <<lock, open, saves, depth, calls, operator, runtime>>,
         IsDatabase(disk'), migrator' \in [stage : Stages, left : SUBSET Migrations, tables : SUBSET Rebuilt],
         MigratorWork', CommittedCases'
  PROVE  OpsInv'
<1>1. /\ \A c \in Connections : open[c] = "none" /\ lock[c] = "none"
      /\ \A o \in Operators : operator[o].pc = "idle"
      /\ runtime.pc = "down"
  BY DEF OpsInv, MigratesAlone, TxInv, NoLockOutside
<1>2. LocalType'
  BY DEF OpsInv, LocalType
<1>3. Kept' \subseteq Kept \cup {disk'}
  BY DEF Kept
<1>4. MigratesAlone'
  BY <1>1 DEF MigratesAlone
<1>5. \A o \in Operators : OperatorCalls(o)' /\ OperatorWork(o)'
  <2> SUFFICES ASSUME NEW o \in Operators
               PROVE  OperatorCalls(o)' /\ OperatorWork(o)'
    OBVIOUS
  <2>1. calls[o] = 0
    BY <1>1 DEF OpsInv, OperatorCalls
  <2> QED
    BY <1>1, <2>1 DEF OpsInv, OperatorCalls, OperatorWork
<1>6. RuntimeWork'
  <2>1. Runtime \in Connections
    BY ConnectionsAssumption
  <2> QED
    BY <1>1, <2>1 DEF OpsInv, RuntimeWork
<1> QED
  BY <1>2, <1>3, <1>4, <1>5, <1>6 DEF OpsInv

(* A rebuild under way keeps what is committed of the cases: either the    *)
(* cases are being rebuilt themselves, or none of their tables changes.    *)
LEMMA RebuildKeeps ==
  ASSUME OpsInv, migrator.stage \in {"rename", "create", "copy", "drop", "restore"},
         IsDatabase(disk'), disk'.index = disk.index, disk'.applied = disk.applied,
         NEW t \in migrator.tables,
         \A u \in Tables \ {t, LegacyOf[t], NewOf[t]} :
           Form(disk', u) = Form(disk, u) /\ Rows(disk', u) = Rows(disk, u),
         t = "cases" => Numbered(disk'),
         migrator'.stage # "record"
  PROVE  CommittedCases'
<1>1. /\ ~AllApplied(disk) /\ Numbered(disk)
      /\ \A i \in disk.applied : i < Current
      /\ t \in Rebuilt /\ (t = "cases" <=> Current = HardenCases)
  BY MigratingIs DEF OpsInv, MigratorWork, LocalType
<1>2. ~AllApplied(disk')
  BY <1>1 DEF AllApplied, Pending
<1>3. CASE t = "cases"
  <2>1. HardenCases \notin disk.applied /\ EnforceUniqueness \notin disk.applied
    BY <1>1, <1>3 DEF HardenCases, EnforceUniqueness
  <2> QED
    BY <1>2, <1>3, <2>1 DEF OpsInv, CommittedCases
<1>4. CASE t # "cases"
  <2>1. \A u \in {"cases", LegacyOf["cases"], NewOf["cases"], "audit_events"} :
          /\ u \in Tables \ {t, LegacyOf[t], NewOf[t]}
    BY <1>1, <1>4, LeftoverNames
  <2>2. \A u \in {"cases", LegacyOf["cases"], NewOf["cases"], "audit_events"} :
          Form(disk', u) = Form(disk, u) /\ Rows(disk', u) = Rows(disk, u) /\ Keys(disk', u) = Keys(disk, u)
    BY <2>1 DEF Keys, Rows
  <2>3. Numbered(disk')
    BY <1>1, <2>2 DEF Numbered
  <2>4. Exists(disk', "cases") <=> Exists(disk, "cases")
    BY <2>2 DEF Exists, Form
  <2>5. OneDraftEach(disk') <=> OneDraftEach(disk)
    BY <2>2, DraftsIn
  <2>6. migrator.stage # "record"
    OBVIOUS
  <2> QED
    BY <1>1, <1>2, <2>3, <2>4, <2>5, <2>6 DEF OpsInv, CommittedCases
<1> QED
  BY <1>3, <1>4

(* The rows of the cases stay numbered wherever they are moved.            *)
LEMMA NumberedMoves ==
  ASSUME NEW a, NEW b, Numbered(a), Rows(b, "audit_events") = Rows(a, "audit_events"),
         \A t \in {"cases", LegacyOf["cases"], NewOf["cases"]} :
            Keys(b, t) = {} \/ \E u \in {"cases", LegacyOf["cases"], NewOf["cases"]} : Rows(b, t) = Rows(a, u)
  PROVE  Numbered(b)
<1> DEFINE CaseTables == {"cases", LegacyOf["cases"], NewOf["cases"]}
           IsRow(row) == row = [subject |-> row.subject, status |-> row.status, summary |-> row.summary]
<1>1. ASSUME NEW t \in CaseTables, NEW id \in Keys(b, t)
      PROVE  id \in Nat /\ IsRow(Rows(b, t)[id])
  <2>1. PICK u \in CaseTables : Rows(b, t) = Rows(a, u)
    BY <1>1
  <2>2. id \in Keys(a, u)
    BY <1>1, <2>1 DEF Keys, Rows
  <2>3. id \in Nat /\ IsRow(Rows(a, u)[id])
    BY <2>2 DEF Numbered
  <2> QED
    BY <2>1, <2>3
<1>2. Keys(b, "audit_events") = Keys(a, "audit_events")
  BY DEF Keys, Rows
<1> QED
  BY <1>1, <1>2 DEF Numbered

(* A table without rows has no keys.                                       *)
LEMMA MissingKeys == DOMAIN <<>> = {}
OBVIOUS

(* A statement of a rebuild keeps the invariant.                           *)
LEMMA RebuildStep ==
  ASSUME OpsInv, TxInv', UNCHANGED <<operator, runtime>>,
         migrator.stage \in {"rename", "create", "copy", "drop", "restore"},
         NEW content, Execute(content),
         IsDatabase(content), content.index = disk.index, content.applied = disk.applied,
         NEW t \in migrator.tables,
         \A u \in Tables \ {t, LegacyOf[t], NewOf[t]} :
           Form(content, u) = Form(disk, u) /\ Rows(content, u) = Rows(disk, u),
         t = "cases" => Numbered(content),
         NEW stage \in {"rename", "create", "copy", "drop", "restore", "finish"},
         NEW tables \in SUBSET migrator.tables, stage = "finish" <=> tables = {},
         migrator' = [stage |-> stage, left |-> migrator.left, tables |-> tables]
  PROVE  OpsInv'
<1>1. disk' = content /\ pending' = disk' /\ UNCHANGED <<lock, open, saves, depth, calls>>
  BY MigratorWrites
<1>2. ~AllApplied(disk)
  BY MigratingIs
<1>3. migrator' \in [stage : Stages, left : SUBSET Migrations, tables : SUBSET Rebuilt]
  BY DEF OpsInv, LocalType, Stages
<1>4. CommittedCases'
  BY <1>1, RebuildKeeps
<1>5. MigratorWork'
  <2>1. migrator'.stage = stage /\ migrator'.left = migrator.left /\ migrator'.tables = tables
    OBVIOUS
  <2>2. Current' = Current /\ Pending(disk)' = Pending(disk)
    BY <1>1, <2>1 DEF Current, Pending
  <2> QED
    BY <1>1, <2>1, <2>2 DEF OpsInv, MigratorWork
<1> QED
  BY <1>1, <1>2, <1>3, <1>4, <1>5, MigratorKeeps

(* A rebuild has a table to work on.                                       *)
LEMMA RebuildOf ==
  ASSUME OpsInv, migrator.stage \in {"rename", "create", "copy", "drop", "restore"}
  PROVE  /\ Rebuilding \in migrator.tables /\ Rebuilding \in Rebuilt
         /\ LegacyOf[Rebuilding] \in Tables /\ NewOf[Rebuilding] \in Tables
         /\ Rebuilding \in Tables /\ Rebuilding # LegacyOf[Rebuilding] /\ Rebuilding # NewOf[Rebuilding]
         /\ LegacyOf[Rebuilding] # NewOf[Rebuilding]
         /\ "audit_events" \in Tables \ {Rebuilding, LegacyOf[Rebuilding], NewOf[Rebuilding]}
         /\ IsDatabase(disk) /\ Numbered(disk)
         /\ \A s : [migrator EXCEPT !.stage = s]
                     = [stage |-> s, left |-> migrator.left, tables |-> migrator.tables]
<1>1. migrator.tables # {} /\ migrator.tables \subseteq Rebuilt
  BY DEF OpsInv, MigratorWork, LocalType
<1>2. Rebuilding \in migrator.tables /\ Rebuilding \in Rebuilt
  BY <1>1, RebuildingIs DEF Rebuilding
<1>3. \A s : [migrator EXCEPT !.stage = s]
               = [stage |-> s, left |-> migrator.left, tables |-> migrator.tables]
  BY DEF OpsInv, LocalType
<1>4. IsDatabase(disk) /\ Numbered(disk)
  BY MigratingIs
<1> HIDE DEF Rebuilding
<1> QED
  BY <1>2, <1>3, <1>4, LeftoverNames

(* Setting the old table aside keeps what is being migrated.               *)
LEMMA RenameAwayKeeps ==
  ASSUME OpsInv, TxInv', RenameAway, UNCHANGED <<operator, runtime>>
  PROVE  OpsInv'
<1> DEFINE t == Rebuilding
           content == Rename(disk, t, LegacyOf[t])
<1>1. migrator.stage = "rename" /\ Execute(content) /\ Stage("create")
  BY DEF RenameAway
<1>2. /\ t \in migrator.tables /\ t \in Tables /\ t # LegacyOf[t] /\ t # NewOf[t]
      /\ LegacyOf[t] \in Tables /\ NewOf[t] \in Tables \ {t, LegacyOf[t]}
      /\ "audit_events" \in Tables \ {t, LegacyOf[t]}
      /\ IsDatabase(disk) /\ Numbered(disk)
  BY <1>1, RebuildOf
<1>3. migrator' = [stage |-> "create", left |-> migrator.left, tables |-> migrator.tables]
  BY <1>1, RebuildOf DEF Stage
<1> HIDE DEF t
<1>4. /\ IsDatabase(content)
      /\ Rows(content, LegacyOf[t]) = Rows(disk, t) /\ Rows(content, t) = <<>>
      /\ \A u \in Tables \ {t, LegacyOf[t]} :
           Form(content, u) = Form(disk, u) /\ Rows(content, u) = Rows(disk, u)
      /\ content.index = disk.index /\ content.applied = disk.applied
  <2> HIDE DEF content
  <2>1. content = Rename(disk, t, LegacyOf[t])
    BY DEF content
  <2>2. IsDatabase(disk) /\ t \in Tables /\ LegacyOf[t] \in Tables /\ t # LegacyOf[t]
    BY <1>2
  <2> QED
    BY <2>1, <2>2, RenameIs
<1> HIDE DEF content
<1>5. t = "cases" => Numbered(content)
  <2>1. Keys(content, t) = {}
    BY <1>4, MissingKeys DEF Keys, Rows
  <2> QED
    BY <1>2, <1>4, <2>1, NumberedMoves
<1>6. migrator.tables # {}
  BY <1>2
<1> QED
  BY <1>1, <1>2, <1>3, <1>4, <1>5, <1>6, RebuildStep

(* Creating the table of the new shape keeps what is being migrated.       *)
LEMMA CreateNewKeeps ==
  ASSUME OpsInv, TxInv', CreateNew, UNCHANGED <<operator, runtime>>
  PROVE  OpsInv'
<1> DEFINE t == Rebuilding
           content == SetTable(disk, NewOf[t], [form |-> "new", rows |-> <<>>])
<1>1. migrator.stage = "create" /\ Execute(content) /\ Stage("copy")
  BY DEF CreateNew, Empty
<1>2. /\ t \in migrator.tables /\ t \in Tables \ {NewOf[t]} /\ NewOf[t] \in Tables
      /\ LegacyOf[t] \in Tables \ {NewOf[t]}
      /\ "audit_events" \in Tables \ {NewOf[t]}
      /\ IsDatabase(disk) /\ Numbered(disk)
  BY <1>1, RebuildOf
<1>3. migrator' = [stage |-> "copy", left |-> migrator.left, tables |-> migrator.tables]
  BY <1>1, RebuildOf DEF Stage
<1> HIDE DEF t
<1>4. /\ IsDatabase(content) /\ Rows(content, NewOf[t]) = <<>>
      /\ \A u \in Tables \ {NewOf[t]} :
           Form(content, u) = Form(disk, u) /\ Rows(content, u) = Rows(disk, u)
      /\ content.index = disk.index /\ content.applied = disk.applied
  BY <1>2, SetTableIs
<1> HIDE DEF content
<1>5. t = "cases" => Numbered(content)
  <2>1. Keys(content, NewOf[t]) = {}
    BY <1>4, MissingKeys DEF Keys, Rows
  <2> QED
    BY <1>2, <1>4, <2>1, NumberedMoves
<1>6. migrator.tables # {}
  BY <1>2
<1> QED
  BY <1>1, <1>2, <1>3, <1>4, <1>5, <1>6, RebuildStep

(* Copying the rows into the table of the new shape keeps what is being    *)
(* migrated.                                                               *)
LEMMA CopyRowsKeeps ==
  ASSUME OpsInv, TxInv', CopyRows, UNCHANGED <<operator, runtime>>
  PROVE  OpsInv'
<1> DEFINE t == Rebuilding
           content(rows) == SetRows(disk, NewOf[t], rows)
<1>1. migrator.stage = "copy"
  BY DEF CopyRows
<1>2. /\ t \in migrator.tables /\ t \in Tables \ {NewOf[t]} /\ NewOf[t] \in Tables
      /\ LegacyOf[t] \in Tables \ {NewOf[t]}
      /\ "audit_events" \in Tables \ {NewOf[t]}
      /\ IsDatabase(disk) /\ Numbered(disk)
      /\ migrator = [stage |-> "copy", left |-> migrator.left, tables |-> migrator.tables]
  BY <1>1, RebuildOf DEF OpsInv, LocalType
<1> DEFINE Copies(rows, stage) ==
             /\ Execute(content(rows))
             /\ migrator' = [stage |-> stage, left |-> migrator.left, tables |-> migrator.tables]
             /\ t = "cases" => rows = Rows(disk, LegacyOf[t])
<1>3. \E rows : \E stage \in {"copy", "drop"} : Copies(rows, stage)
  <2>1. ASSUME t = "intake_fields", UNCHANGED migrator, NEW rows, Execute(content(rows))
        PROVE  \E x : \E stage \in {"copy", "drop"} : Copies(x, stage)
    <3>1. migrator' = [stage |-> "copy", left |-> migrator.left, tables |-> migrator.tables]
      BY <1>2, <2>1, Zenon
    <3> QED
      BY <2>1, <3>1
  <2>2. CASE Stage("drop") /\ Execute(content(Copied(t, Rows(disk, LegacyOf[t]))))
    <3>1. t = "cases" => Copied(t, Rows(disk, LegacyOf[t])) = Rows(disk, LegacyOf[t])
      BY DEF Copied
    <3>2. migrator' = [stage |-> "drop", left |-> migrator.left, tables |-> migrator.tables]
      BY <1>1, <2>2, RebuildOf DEF Stage
    <3> QED
      BY <2>2, <3>1, <3>2
  <2>3. (t = "intake_fields" /\ UNCHANGED migrator /\ \E rows : Execute(content(rows)))
          \/ (Stage("drop") /\ Execute(content(Copied(t, Rows(disk, LegacyOf[t])))))
    BY DEF CopyRows
  <2> QED
    BY <2>1, <2>2, <2>3
<1>4. PICK rows : \E stage \in {"copy", "drop"} : Copies(rows, stage)
  BY <1>3
<1>5. PICK stage \in {"copy", "drop"} : Copies(rows, stage)
  BY <1>4
<1> HIDE DEF t
<1>6. /\ IsDatabase(content(rows)) /\ Rows(content(rows), NewOf[t]) = rows
      /\ \A u \in Tables \ {NewOf[t]} :
           Form(content(rows), u) = Form(disk, u) /\ Rows(content(rows), u) = Rows(disk, u)
      /\ content(rows).index = disk.index /\ content(rows).applied = disk.applied
  BY <1>2, SetRowsIs
<1> HIDE DEF content
<1>7. t = "cases" => Numbered(content(rows))
  BY <1>2, <1>5, <1>6, NumberedMoves
<1>8. migrator.tables # {}
  BY <1>2
<1> QED
  BY <1>1, <1>2, <1>6, <1>7, <1>8, <1>5, RebuildStep

(* Dropping the table set aside keeps what is being migrated.              *)
LEMMA DropLegacyKeeps ==
  ASSUME OpsInv, TxInv', DropLegacy, UNCHANGED <<operator, runtime>>
  PROVE  OpsInv'
<1> DEFINE t == Rebuilding
           content == SetTable(disk, LegacyOf[t], [form |-> "missing", rows |-> <<>>])
<1>1. migrator.stage = "drop" /\ Execute(content) /\ Stage("restore")
  BY DEF DropLegacy, Missing
<1>2. /\ t \in migrator.tables /\ t \in Tables \ {LegacyOf[t]} /\ LegacyOf[t] \in Tables
      /\ NewOf[t] \in Tables \ {LegacyOf[t]}
      /\ "audit_events" \in Tables \ {LegacyOf[t]}
      /\ IsDatabase(disk) /\ Numbered(disk)
  BY <1>1, RebuildOf
<1>3. migrator' = [stage |-> "restore", left |-> migrator.left, tables |-> migrator.tables]
  BY <1>1, RebuildOf DEF Stage
<1> HIDE DEF t
<1>4. /\ IsDatabase(content) /\ Rows(content, LegacyOf[t]) = <<>>
      /\ \A u \in Tables \ {LegacyOf[t]} :
           Form(content, u) = Form(disk, u) /\ Rows(content, u) = Rows(disk, u)
      /\ content.index = disk.index /\ content.applied = disk.applied
  BY <1>2, SetTableIs
<1> HIDE DEF content
<1>5. t = "cases" => Numbered(content)
  <2>1. Keys(content, LegacyOf[t]) = {}
    BY <1>4, MissingKeys DEF Keys, Rows
  <2> QED
    BY <1>2, <1>4, <2>1, NumberedMoves
<1>6. migrator.tables # {}
  BY <1>2
<1> QED
  BY <1>1, <1>2, <1>3, <1>4, <1>5, <1>6, RebuildStep

(* Renaming the new table to its final name keeps what is being migrated.  *)
LEMMA RenameBackKeeps ==
  ASSUME OpsInv, TxInv', RenameBack, UNCHANGED <<operator, runtime>>
  PROVE  OpsInv'
<1> DEFINE t == Rebuilding
           content == Rename(disk, NewOf[t], t)
           tables == migrator.tables \ {t}
           stage == IF tables = {} THEN "finish" ELSE "rename"
<1>1. /\ migrator.stage = "restore" /\ Execute(content)
      /\ migrator' = [migrator EXCEPT !.tables = tables, !.stage = stage]
  BY DEF RenameBack
<1>2. /\ t \in migrator.tables /\ t \in Tables \ {NewOf[t]} /\ NewOf[t] \in Tables
      /\ LegacyOf[t] \in Tables \ {t, NewOf[t]}
      /\ "audit_events" \in Tables \ {t, NewOf[t]}
      /\ IsDatabase(disk) /\ Numbered(disk)
  BY <1>1, RebuildOf
<1> HIDE DEF t
<1>3. /\ migrator' = [stage |-> stage, left |-> migrator.left, tables |-> tables]
      /\ stage \in {"rename", "finish"} /\ (stage = "finish" <=> tables = {})
      /\ tables \in SUBSET migrator.tables
  BY <1>1 DEF OpsInv, LocalType
<1>4. /\ IsDatabase(content)
      /\ Rows(content, t) = Rows(disk, NewOf[t]) /\ Rows(content, NewOf[t]) = <<>>
      /\ \A u \in Tables \ {t, NewOf[t]} :
           Form(content, u) = Form(disk, u) /\ Rows(content, u) = Rows(disk, u)
      /\ content.index = disk.index /\ content.applied = disk.applied
  <2> HIDE DEF content
  <2>1. content = Rename(disk, NewOf[t], t)
    BY DEF content
  <2>2. IsDatabase(disk) /\ t \in Tables /\ NewOf[t] \in Tables /\ t # NewOf[t]
    BY <1>2
  <2> QED
    BY <2>1, <2>2, RenameIs
<1> HIDE DEF content, tables, stage
<1>5. t = "cases" => Numbered(content)
  <2>1. Keys(content, NewOf[t]) = {}
    BY <1>4, MissingKeys DEF Keys, Rows
  <2> QED
    BY <1>2, <1>4, <2>1, NumberedMoves
<1> QED
  BY <1>1, <1>2, <1>3, <1>4, <1>5, RebuildStep

(* CREATE TABLE IF NOT EXISTS loses nothing.                               *)
LEMMA CreateIfMissingIs ==
  ASSUME NEW db, IsDatabase(db), Numbered(db), NEW t \in Tables
  PROVE  LET new == CreateIfMissing(db, t) IN
         /\ IsDatabase(new) /\ Numbered(new) /\ Exists(new, t)
         /\ new.index = db.index /\ new.applied = db.applied
         /\ \A u \in Tables \ {t} : Form(new, u) = Form(db, u) /\ Rows(new, u) = Rows(db, u)
<1> DEFINE new == CreateIfMissing(db, t)
           made == SetTable(db, t, [form |-> "new", rows |-> <<>>])
<1>1. CASE Exists(db, t)
  BY <1>1 DEF CreateIfMissing
<1>2. CASE ~Exists(db, t)
  <2>1. new = made
    BY <1>2 DEF CreateIfMissing, Empty
  <2>2. /\ IsDatabase(made) /\ Form(made, t) = "new" /\ Rows(made, t) = <<>>
        /\ made.index = db.index /\ made.applied = db.applied
        /\ \A u \in Tables \ {t} : Form(made, u) = Form(db, u) /\ Rows(made, u) = Rows(db, u)
    BY SetTableIs
  <2> HIDE DEF made, new
  <2>3. Keys(made, t) = {}
    BY <2>2, MissingKeys DEF Keys, Rows
  <2>4. \A u \in Tables \ {t} : Keys(made, u) = Keys(db, u)
    BY <2>2 DEF Keys, Rows
  <2>5. {"cases", LegacyOf["cases"], NewOf["cases"], "audit_events"} \subseteq Tables
    BY LeftoverNames
  <2>6. Numbered(made)
    <3> DEFINE IsRow(row) == row = [subject |-> row.subject, status |-> row.status, summary |-> row.summary]
    <3>1. ASSUME NEW u \in {"cases", LegacyOf["cases"], NewOf["cases"]}, NEW id \in Keys(made, u)
          PROVE  id \in Nat /\ IsRow(Rows(made, u)[id])
      <4>1. u # t
        BY <2>3, <3>1
      <4>2. Keys(made, u) = Keys(db, u) /\ Rows(made, u) = Rows(db, u)
        BY <2>2, <2>4, <2>5, <4>1
      <4>3. id \in Nat /\ IsRow(Rows(db, u)[id])
        BY <4>2 DEF Numbered
      <4> QED
        BY <4>2, <4>3
    <3>2. Keys(made, "audit_events") \subseteq Keys(db, "audit_events")
      BY <2>3, <2>4, <2>5
    <3> QED
      BY <3>1, <3>2 DEF Numbered
  <2>7. Exists(made, t)
    BY <2>2 DEF Exists, Form
  <2> QED
    BY <2>1, <2>2, <2>6, <2>7 DEF new
<1> QED
  BY <1>1, <1>2

(* The rest of a migration: it leaves the cases and their drafts as its    *)
(* record, which follows, says.                                            *)
LEMMA FinishedIs ==
  ASSUME NEW db, IsDatabase(db), Numbered(db), NEW i \in Migrations,
         \A j \in db.applied : j < i,
         HardenCases \in db.applied => Exists(db, "cases"),
         EnforceUniqueness \in db.applied => db.index /\ OneDraftEach(db)
  PROVE  LET new == Finished(i, db) IN
         /\ IsDatabase(new) /\ Numbered(new) /\ new.applied = db.applied
         /\ HardenCases \in db.applied \/ i = HardenCases => Exists(new, "cases")
         /\ EnforceUniqueness \in db.applied \/ i = EnforceUniqueness => new.index /\ OneDraftEach(new)
<1> DEFINE new == Finished(i, db)
<1>1. HardenCases = 9 /\ EnforceUniqueness = 10 /\ NormalizeIntake = 11 /\ CreateRegistry = 12
        /\ i \in 1 .. 12
  BY DEF HardenCases, EnforceUniqueness, NormalizeIntake, CreateRegistry, Migrations
<1>2. "cases" \in Tables /\ "practices" \in Tables \ {"cases"}
  BY DEF Tables, Rebuilt, LegacyOf, Leftovers
<1>3. CASE i < 9
  <2>1. new = CreateIfMissing(db, CreatedBy[i])
    BY <1>1, <1>3 DEF Finished
  <2>2. CreatedBy[i] \in Tables
    <3>1. i \in 1 .. 8
      BY <1>1, <1>3
    <3> QED
      BY <3>1 DEF CreatedBy, Tables, Rebuilt, LegacyOf
  <2>3. ~(9 < i) /\ ~(10 < i) /\ 9 \notin db.applied /\ 10 \notin db.applied
    BY <1>1, <1>3
  <2> QED
    BY <1>1, <1>3, <2>1, <2>2, <2>3, CreateIfMissingIs
<1>4. CASE i = 9
  <2>1. new = CreateIfMissing(db, "cases")
    BY <1>1, <1>4 DEF Finished
  <2>2. 10 \notin db.applied
    BY <1>1, <1>4
  <2> QED
    BY <1>1, <1>2, <1>4, <2>1, <2>2, CreateIfMissingIs
<1>5. CASE i = 10
  <2>1. new = [Archived(db) EXCEPT !.index = TRUE]
    BY <1>1, <1>5 DEF Finished
  <2>2. /\ IsDatabase(new) /\ Numbered(new) /\ new.index = TRUE /\ new.applied = db.applied
        /\ \A t \in Tables : Form(new, t) = Form(db, t)
        /\ OneDraftEach(new)
    BY <2>1, ArchivedIs, Zenon
  <2>3. Exists(db, "cases") => Exists(new, "cases")
    BY <1>2, <2>2 DEF Exists, Form
  <2> QED
    BY <1>1, <1>5, <2>2, <2>3
<1>6. CASE i = 11
  <2>1. new = db
    BY <1>1, <1>6 DEF Finished
  <2> QED
    BY <1>1, <1>6, <2>1
<1>7. CASE i = 12
  <2>1. new = CreateIfMissing(db, "practices")
    BY <1>1, <1>7 DEF Finished
  <2>2. /\ IsDatabase(new) /\ Numbered(new) /\ new.applied = db.applied /\ new.index = db.index
        /\ Form(new, "cases") = Form(db, "cases") /\ Rows(new, "cases") = Rows(db, "cases")
    BY <1>2, <2>1, CreateIfMissingIs
  <2>3. (Exists(new, "cases") <=> Exists(db, "cases")) /\ (OneDraftEach(new) <=> OneDraftEach(db))
    BY <2>2, DraftsIn DEF Exists, Form
  <2> QED
    BY <1>1, <1>7, <2>2, <2>3
<1> QED
  BY <1>1, <1>3, <1>4, <1>5, <1>6, <1>7

(* A migration that finishes is recorded as applied; the last one closes   *)
(* the migrator's call.                                                    *)
LEMMA FinishMigrationKeeps ==
  ASSUME OpsInv, TxInv', FinishMigration, UNCHANGED <<operator, runtime>>
  PROVE  OpsInv'
<1>1. migrator.stage = "finish" /\ Execute(Finished(Current, disk)) /\ Stage("record")
  BY DEF FinishMigration
<1>2. /\ ~AllApplied(disk) /\ IsDatabase(disk) /\ Numbered(disk)
      /\ Current \in Migrations /\ \A i \in disk.applied : i < Current
      /\ \A i \in disk.applied : 1 .. i \subseteq disk.applied
      /\ HardenCases \in disk.applied => Exists(disk, "cases")
      /\ EnforceUniqueness \in disk.applied => disk.index /\ OneDraftEach(disk)
  BY <1>1, MigratingIs DEF OpsInv, CommittedCases
<1>3. disk' = Finished(Current, disk) /\ pending' = disk' /\ UNCHANGED <<lock, open, saves, depth, calls>>
  BY <1>1, MigratorWrites
<1>4. /\ IsDatabase(disk') /\ Numbered(disk') /\ disk'.applied = disk.applied
      /\ HardenCases \in disk.applied \/ Current = HardenCases => Exists(disk', "cases")
      /\ EnforceUniqueness \in disk.applied \/ Current = EnforceUniqueness =>
           disk'.index /\ OneDraftEach(disk')
  BY <1>2, <1>3, FinishedIs
<1>5. /\ migrator' \in [stage : Stages, left : SUBSET Migrations, tables : SUBSET Rebuilt]
      /\ migrator'.stage = "record" /\ migrator'.left = migrator.left /\ migrator'.tables = migrator.tables
  BY <1>1 DEF Stage, OpsInv, LocalType, Stages
<1>6. Current' = Current /\ Pending(disk)' = Pending(disk)
  BY <1>4, <1>5 DEF Current, Pending
<1>7. MigratorWork'
  BY <1>1, <1>3, <1>5, <1>6 DEF OpsInv, MigratorWork
<1>8. ~AllApplied(disk')
  BY <1>2, <1>4 DEF AllApplied, Pending
<1>9. CommittedCases'
  BY <1>2, <1>4, <1>6, <1>8 DEF CommittedCases
<1> QED
  BY <1>2, <1>3, <1>4, <1>5, <1>7, <1>9, MigratorKeeps

(* A database that is migrated has a case exactly where it has its audit:  *)
(* at first no client has either.                                          *)
LEMMA RecordMigrationKeeps ==
  ASSUME OpsInv, TxInv', RecordMigration, UNCHANGED <<operator, runtime>>
  PROVE  OpsInv'
<1> DEFINE content == [disk EXCEPT !.applied = @ \cup {Current}]
           left == migrator.left \ {Current}
<1>1. /\ migrator.stage = "record" /\ Execute(content)
      /\ migrator' = IF left = {} THEN NotMigrating
                     ELSE [stage |-> "start", left |-> left, tables |-> {}]
  BY DEF RecordMigration
<1>2. /\ ~AllApplied(disk) /\ IsDatabase(disk) /\ Numbered(disk)
      /\ migrator.left = Migrations \ disk.applied
      /\ Current \in Migrations \ disk.applied /\ \A i \in disk.applied : i < Current
      /\ \A i \in Migrations \ disk.applied : Current <= i
  BY <1>1, MigratingIs
<1>3. disk' = content /\ pending' = disk' /\ UNCHANGED <<lock, open, saves, depth, calls>>
  BY <1>1, MigratorWrites
<1>4. /\ IsDatabase(disk') /\ disk'.applied = disk.applied \cup {Current} /\ disk'.index = disk.index
      /\ disk'.table = disk.table
  BY <1>2, <1>3 DEF IsDatabase, Form, Rows
<1>5. \A t : Form(disk', t) = Form(disk, t) /\ Rows(disk', t) = Rows(disk, t) /\ Keys(disk', t) = Keys(disk, t)
  BY <1>4 DEF Form, Rows, Keys
<1>6. Numbered(disk')
  BY <1>2, <1>5 DEF Numbered
<1>7. Audited(disk')
  <2> SUFFICES ASSUME NEW s \in Clients
               PROVE  s \notin Keys(disk', "cases")
                        /\ <<"case_created_from_intake", s>> \notin Keys(disk', "audit_events")
    BY DEF Audited
  <2> QED
    BY <1>6, StartAssumption DEF Numbered
<1>8. migrator' \in [stage : Stages, left : SUBSET Migrations, tables : SUBSET Rebuilt]
  <2>1. left \in SUBSET Migrations
    BY <1>2
  <2> HIDE DEF left
  <2> QED
    BY <1>1, <2>1 DEF NotMigrating, Stages
<1>9. /\ migrator'.stage \in {"idle", "start"} /\ migrator'.tables = {}
      /\ migrator'.left = left /\ (migrator'.stage = "idle" <=> left = {})
  BY <1>1 DEF NotMigrating
<1>10. MigratorWork'
  <2>1. left = Pending(disk')
    BY <1>2, <1>4 DEF Pending
  <2> QED
    BY <1>3, <1>9, <2>1 DEF OpsInv, MigratorWork
<1>11. CommittedCases'
  <2>1. \A i \in disk'.applied : 1 .. i \subseteq disk'.applied
    <3>1. \A i \in disk.applied : 1 .. i \subseteq disk.applied
      BY DEF OpsInv, CommittedCases
    <3>2. 1 .. Current \subseteq disk.applied \cup {Current}
      BY <1>2 DEF Migrations
    <3> QED
      BY <1>4, <3>1, <3>2
  <2>2. HardenCases \in disk'.applied => Exists(disk', "cases")
    BY <1>1, <1>4, <1>5 DEF OpsInv, CommittedCases, Exists, Form
  <2>3. EnforceUniqueness \in disk'.applied => disk'.index /\ OneDraftEach(disk')
    BY <1>1, <1>4, <1>5, DraftsIn DEF OpsInv, CommittedCases
  <2> QED
    BY <1>6, <1>7, <1>9, <2>1, <2>2, <2>3 DEF CommittedCases
<1> QED
  BY <1>2, <1>3, <1>4, <1>8, <1>10, <1>11, MigratorKeeps

(* Opening the transaction of the next migration.                          *)
LEMMA StartMigrationKeeps ==
  ASSUME OpsInv, TxInv', StartMigration, UNCHANGED <<operator, runtime>>
  PROVE  OpsInv'
<1> DEFINE tables == RebuiltBy(Current, disk)
           stage == IF tables = {} THEN "finish" ELSE "rename"
<1>1. /\ migrator.stage = "start" /\ UNCHANGED txVars
      /\ migrator' = [migrator EXCEPT !.tables = tables, !.stage = stage]
  BY DEF StartMigration
<1>2. tables \subseteq Rebuilt /\ \A t \in tables : t = "cases" <=> Current = HardenCases
  BY DEF RebuiltBy, IntakeTables, Rebuilt, LegacyOf, HardenCases, NormalizeIntake, CreateRegistry
<1> HIDE DEF tables
<1>3. migrator' = [stage |-> stage, left |-> migrator.left, tables |-> tables]
  BY <1>1 DEF OpsInv, LocalType
<1>4. /\ migrator' \in [stage : Stages, left : SUBSET Migrations, tables : SUBSET Rebuilt]
      /\ migrator'.left = migrator.left /\ migrator'.tables = tables /\ migrator'.stage = stage
  BY <1>2, <1>3 DEF OpsInv, LocalType, Stages
<1>5. Current' = Current /\ disk' = disk /\ pending' = disk
  BY <1>1, <1>4, MigratingIs DEF Current, txVars
<1>6. MigratorWork'
  BY <1>1, <1>2, <1>4, <1>5 DEF OpsInv, MigratorWork, txVars, Pending
<1>7. CommittedCases'
  BY <1>1, <1>4, <1>5 DEF OpsInv, CommittedCases
<1>8. ~AllApplied(disk) /\ IsDatabase(disk)
  BY <1>1, MigratingIs
<1> QED
  BY <1>1, <1>4, <1>5, <1>6, <1>7, <1>8, MigratorKeeps DEF txVars

(* A migrator that starts finds a database at rest.                        *)
LEMMA StartMigratingKeeps ==
  ASSUME OpsInv, TxInv', StartMigrating, UNCHANGED <<operator, runtime>>
  PROVE  OpsInv'
<1>1. /\ migrator.stage = "idle" /\ ~AllApplied(disk) /\ UNCHANGED txVars
      /\ migrator' = [stage |-> "start", left |-> Pending(disk), tables |-> {}]
  BY DEF StartMigrating
<1>2. disk' = disk /\ pending' = disk
  <2>1. \A c \in Connections : lock[c] = "none"
    BY <1>1 DEF OpsInv, MigratesAlone, TxInv, NoLockOutside
  <2> QED
    BY <1>1, <2>1 DEF OpsInv, TxInv, NothingPending, txVars
<1>3. migrator' \in [stage : Stages, left : SUBSET Migrations, tables : SUBSET Rebuilt]
  BY <1>1 DEF Stages, Pending
<1>4. MigratorWork'
  BY <1>1, <1>2 DEF OpsInv, MigratorWork, txVars, AllApplied, Pending
<1>5. CommittedCases'
  BY <1>1, <1>2 DEF OpsInv, CommittedCases
<1>6. IsDatabase(disk)
  BY DEF OpsInv, Kept
<1> QED
  BY <1>1, <1>2, <1>3, <1>4, <1>5, <1>6, MigratorKeeps DEF txVars

(* A migrator that dies leaves the database as its last commit left it.    *)
LEMMA MigratorDiesKeeps ==
  ASSUME OpsInv, TxInv', MigratorDies, UNCHANGED <<operator, runtime>>
  PROVE  OpsInv'
<1>1. migrator.stage # "idle" /\ UNCHANGED txVars /\ migrator' = [stage |-> "idle", left |-> {}, tables |-> {}]
  BY DEF MigratorDies, NotMigrating
<1>2. ~AllApplied(disk) /\ IsDatabase(disk) /\ pending' = disk /\ disk' = disk
  BY <1>1, MigratingIs DEF txVars
<1>3. migrator' \in [stage : Stages, left : SUBSET Migrations, tables : SUBSET Rebuilt]
  BY <1>1 DEF Stages
<1>4. MigratorWork'
  BY <1>1, <1>2 DEF OpsInv, MigratorWork, txVars
<1>5. CommittedCases'
  BY <1>1, <1>2 DEF OpsInv, CommittedCases
<1> QED
  BY <1>1, <1>2, <1>3, <1>4, <1>5, MigratorKeeps DEF txVars

(* Every step of the migrator keeps the invariant.                         *)
LEMMA MigratorStepKeeps ==
  ASSUME OpsInv, TxInv', MigratorStep
  PROVE  OpsInv'
<1>1. UNCHANGED <<operator, runtime>>
  BY DEF MigratorStep
<1> QED
  BY <1>1, StartMigratingKeeps, StartMigrationKeeps, RenameAwayKeeps, CreateNewKeeps, CopyRowsKeeps,
     DropLegacyKeeps, RenameBackKeeps, FinishMigrationKeeps, RecordMigrationKeeps, MigratorDiesKeeps
     DEF MigratorStep, Migrate

-----------------------------------------------------------------------------
(* The processes that serve a migrated database *)

(* A command whose transaction is open is not touched by another process.  *)
LEMMA OperatorWaits ==
  ASSUME OpsInv, NEW c \in Connections, [StepOf(c)]_txVars,
         NEW o \in Operators, o # c, operator'[o] = operator[o]
  PROVE  OperatorCalls(o)' /\ OperatorWork(o)'
<1>1. TxInv /\ o \in Connections /\ OperatorCalls(o) /\ OperatorWork(o) /\ calls[o] \in Nat
  BY ConnectionsAssumption DEF OpsInv, TxInv, TxType
<1>2. /\ lock'[o] = lock[o] /\ saves'[o] = saves[o]
      /\ depth'[o] = depth[o] /\ calls'[o] = calls[o]
  BY <1>1, OthersKeep
<1>3. OperatorCalls(o)'
  BY <1>1, <1>2 DEF OperatorCalls
<1>4. CASE calls[o] = 0
  <2>1. operator[o].pc \in {"idle", "begin"}
    BY <1>1, <1>4 DEF OperatorCalls
  <2> QED
    BY <1>2, <1>3, <1>4, <2>1 DEF OperatorWork
<1>5. CASE calls[o] # 0
  <2>1. lock[o] = "reserved"
    BY <1>1, <1>5 DEF OperatorCalls
  <2>2. disk' = disk /\ pending' = pending
    BY <1>1, <2>1, OthersWait
  <2>3. /\ Justified(o)' <=> Justified(o)
        /\ WithCase(disk, o)' = WithCase(disk, o)
    BY <2>2 DEF Justified, WithCase, NewCase
  <2> QED
    BY <1>1, <1>2, <1>3, <2>2, <2>3 DEF OperatorWork, WithAudit
<1> QED
  BY <1>4, <1>5

(* Neither is the transaction of the runtime.                              *)
LEMMA RuntimeWaits ==
  ASSUME OpsInv, NEW c \in Connections, [StepOf(c)]_txVars, Runtime # c, UNCHANGED runtime
  PROVE  RuntimeWork'
<1>1. TxInv /\ Runtime \in Connections
  BY ConnectionsAssumption DEF OpsInv
<1>2. /\ lock'[Runtime] = lock[Runtime] /\ saves'[Runtime] = saves[Runtime]
      /\ open'[Runtime] = open[Runtime] /\ calls'[Runtime] = calls[Runtime]
  BY <1>1, OthersKeep
<1>3. lock[Runtime] = "reserved" => disk' = disk /\ pending' = pending
  BY <1>1, OthersWait
<1> QED
  BY <1>2, <1>3 DEF OpsInv, RuntimeWork

(* Once every migration is recorded a step keeps the invariant if what it  *)
(* commits is in order.                                                    *)
LEMMA ServingKeeps ==
  ASSUME OpsInv, TxInv', AllApplied(disk), UNCHANGED migrator, LocalType',
         NEW c \in Connections, c # Migrator, [StepOf(c)]_txVars,
         c = Backup => lock'[c] # "reserved",
         \A db \in Kept' : IsDatabase(db),
         \A o \in Operators : OperatorCalls(o)' /\ OperatorWork(o)',
         RuntimeWork',
         disk'.applied = disk.applied, disk'.index = disk.index,
         Form(disk', "cases") = Form(disk, "cases"),
         OneDraftEach(disk'), Audited(disk')
  PROVE  OpsInv'
<1>1. /\ migrator.left = {} /\ migrator.stage = "idle" /\ migrator.tables = {}
      /\ open[Migrator] = "none" /\ lock[Backup] # "reserved"
  BY DEF OpsInv, MigratorWork, AllApplied
<1>2. AllApplied(disk')
  BY DEF AllApplied, Pending
<1>3. MigratesAlone'
  BY <1>2 DEF MigratesAlone
<1>4. MigratorWork'
  <2>1. {Migrator, Backup} \subseteq Connections /\ TxInv
    BY ConnectionsAssumption DEF OpsInv
  <2>2. open'[Migrator] = open[Migrator] /\ (c # Backup => lock'[Backup] = lock[Backup])
    BY <2>1, OthersKeep
  <2> QED
    BY <1>1, <2>2 DEF MigratorWork
<1>5. CommittedCases'
  BY <1>1, <1>2 DEF OpsInv, CommittedCases, Exists, Form
<1> QED
  BY <1>3, <1>4, <1>5 DEF OpsInv

(* What a migrated database is like.                                       *)
LEMMA Migrated ==
  ASSUME OpsInv, AllApplied(disk)
  PROVE  /\ IsDatabase(disk) /\ disk.index /\ OneDraftEach(disk) /\ Audited(disk)
         /\ Exists(disk, "cases")
<1>1. HardenCases \in disk.applied /\ EnforceUniqueness \in disk.applied
  BY DEF AllApplied, Pending, Migrations, HardenCases, EnforceUniqueness
<1> QED
  BY <1>1 DEF OpsInv, CommittedCases, Kept

-----------------------------------------------------------------------------
(* The backup *)

(* A backup reads only.                                                    *)
LEMMA BackupStepKeeps ==
  ASSUME OpsInv, TxInv', BackupStep
  PROVE  OpsInv'
<1>1. Backup \in Connections /\ Backup # Migrator /\ Backup # Runtime /\ Backup \notin Operators
  BY ConnectionsAssumption
<1>2. /\ BeginRead(Backup) \/ Close(Backup)
      /\ AllApplied(disk)
      /\ UNCHANGED <<migrator, operator, runtime>>
  BY <1>1 DEF BackupStep, StartBackup, EndBackup, OpsInv, MigratesAlone
<1>3. [StepOf(Backup)]_txVars /\ TxInv
  BY <1>2 DEF StepOf, OpsInv
<1>4. \A o \in Operators : OperatorCalls(o)' /\ OperatorWork(o)'
  BY <1>1, <1>2, <1>3, OperatorWaits
<1>5. RuntimeWork'
  BY <1>1, <1>2, <1>3, RuntimeWaits
<1>6. Kept' \subseteq Kept
  BY <1>1, <1>2, <1>3, KeptOtherwise
<1>7. disk' = disk /\ lock'[Backup] # "reserved"
  BY <1>1, <1>2, <1>3 DEF BeginRead, Close, TxInv, TxType
<1>8. LocalType'
  BY <1>2 DEF OpsInv, LocalType
<1> QED
  BY <1>1, <1>2, <1>3, <1>4, <1>5, <1>6, <1>7, <1>8, Migrated, ServingKeeps DEF OpsInv

-----------------------------------------------------------------------------
(* The operator's command *)

(* Where a connection of a command stands.                                 *)
LEMMA InTransaction ==
  ASSUME OpsInv, NEW o \in Operators
  PROVE  /\ o \in Connections /\ o # Migrator /\ o # Runtime /\ o # Backup
         /\ depth[o] = calls[o] /\ calls[o] \in {0, 1, 2}
         /\ calls[o] = 0 => open[o] \in {"none", "reading"} /\ saves[o] = <<>>
         /\ calls[o] > 0 => open[o] = "immediate" /\ lock[o] = "reserved" /\ View(o) = pending
         /\ calls[o] = 1 => saves[o] = <<>>
         /\ calls[o] = 2 => saves[o] = <<disk>>
         /\ operator[o].pc # "idle" => AllApplied(disk) /\ operator[o].subject \in Clients
<1>1. o \in Connections /\ o # Migrator /\ o # Runtime /\ o # Backup
  BY ConnectionsAssumption
<1>2. OperatorCalls(o) /\ OperatorWork(o) /\ Balanced /\ TxType
  BY DEF OpsInv, TxInv
<1>3. depth[o] = calls[o] /\ calls[o] \in {0, 1, 2}
  BY <1>2 DEF OperatorCalls
<1>4. calls[o] = 0 => open[o] \in {"none", "reading"} /\ saves[o] = <<>>
  BY <1>1, <1>2, <1>3 DEF Balanced
<1>5. calls[o] > 0 => open[o] = "immediate" /\ Len(saves[o]) = calls[o] - 1 /\ lock[o] = "reserved"
  BY <1>1, <1>2, <1>3 DEF Balanced, OperatorCalls
<1>6. Len(saves[o]) = 0 => saves[o] = <<>>
  <2>1. PICK S : saves[o] \in Seq(S)
    BY <1>1, <1>2 DEF TxType
  <2> QED
    BY <2>1
<1>7. calls[o] = 2 => saves[o] = <<disk>>
  BY <1>2 DEF OperatorWork
<1> QED
  BY <1>1, <1>2, <1>3, <1>4, <1>5, <1>6, <1>7 DEF OpsInv, MigratesAlone, OperatorCalls, View

(* The local state of one execution changes.                               *)
LEMMA OperatorMoves ==
  ASSUME LocalType, UNCHANGED <<migrator, runtime>>, NEW o \in Operators, NEW row,
         row = [pc |-> row.pc, subject |-> row.subject, summary |-> row.summary],
         row.pc \in OperatorLabels, operator' = [operator EXCEPT ![o] = row]
  PROVE  /\ LocalType' /\ operator'[o] = row
         /\ \A p \in Operators \ {o} : operator'[p] = operator[p]
<1>1. operator = [p \in Operators |-> operator[p]]
  BY DEF LocalType
<1>2. /\ operator'[o] = row
      /\ \A p \in Operators \ {o} : operator'[p] = operator[p]
      /\ operator' = [p \in Operators |-> operator'[p]]
  BY <1>1
<1>3. \A p \in Operators :
        /\ operator'[p] = [pc |-> operator'[p].pc, subject |-> operator'[p].subject,
                           summary |-> operator'[p].summary]
        /\ operator'[p].pc \in OperatorLabels
  BY <1>2 DEF LocalType
<1>4. operator' = [p \in Operators |->
                     [pc |-> operator'[p].pc, subject |-> operator'[p].subject,
                      summary |-> operator'[p].summary]]
  BY <1>2, <1>3
<1> QED
  BY <1>2, <1>3, <1>4 DEF LocalType

(* It goes on with its subject.                                            *)
LEMMA OperatorGoesIs ==
  ASSUME LocalType, UNCHANGED <<migrator, runtime>>, NEW o \in Operators,
         NEW label \in OperatorLabels, OperatorGoes(o, label)
  PROVE  /\ LocalType'
         /\ operator'[o].pc = label /\ operator'[o].subject = operator[o].subject
         /\ operator'[o].summary = operator[o].summary
         /\ \A p \in Operators \ {o} : operator'[p] = operator[p]
<1> DEFINE row == [pc |-> label, subject |-> operator[o].subject, summary |-> operator[o].summary]
<1>1. operator[o] = [pc |-> operator[o].pc, subject |-> operator[o].subject,
                     summary |-> operator[o].summary]
  BY DEF LocalType
<1>2. [operator[o] EXCEPT !.pc = label] = row
  BY <1>1
<1>3. operator' = [operator EXCEPT ![o] = row]
  BY <1>2 DEF OperatorGoes
<1>4. row = [pc |-> row.pc, subject |-> row.subject, summary |-> row.summary]
        /\ row.pc = label /\ row.subject = operator[o].subject /\ row.summary = operator[o].summary
  OBVIOUS
<1> HIDE DEF row
<1> QED
  BY <1>3, <1>4, OperatorMoves

(* It ends.                                                                *)
LEMMA OperatorExitsIs ==
  ASSUME LocalType, UNCHANGED <<migrator, runtime>>, NEW o \in Operators, OperatorExits(o)
  PROVE  /\ LocalType' /\ operator'[o].pc = "idle"
         /\ \A p \in Operators \ {o} : operator'[p] = operator[p]
<1>1. /\ Waiting = [pc |-> Waiting.pc, subject |-> Waiting.subject, summary |-> Waiting.summary]
      /\ Waiting.pc = "idle" /\ "idle" \in OperatorLabels
  BY DEF Waiting, OperatorLabels
<1> QED
  BY <1>1, OperatorMoves DEF OperatorExits

(* A step of a command keeps the invariant if its own part is kept and     *)
(* what it commits is in order.                                            *)
LEMMA OperatorKeeps ==
  ASSUME OpsInv, TxInv', AllApplied(disk), UNCHANGED <<migrator, runtime>>, LocalType',
         NEW o \in Operators, [StepOf(o)]_txVars,
         \A p \in Operators \ {o} : operator'[p] = operator[p],
         \A db \in Kept' : IsDatabase(db),
         OperatorCalls(o)', OperatorWork(o)',
         disk' = disk \/ ( /\ disk'.applied = disk.applied /\ disk'.index = disk.index
                           /\ Form(disk', "cases") = Form(disk, "cases")
                           /\ OneDraftEach(disk') /\ Audited(disk') )
  PROVE  OpsInv'
<1>1. o \in Connections /\ o # Migrator /\ o # Runtime /\ o # Backup
  BY InTransaction
<1>2. \A p \in Operators : OperatorCalls(p)' /\ OperatorWork(p)'
  <2> SUFFICES ASSUME NEW p \in Operators, p # o
               PROVE  OperatorCalls(p)' /\ OperatorWork(p)'
    OBVIOUS
  <2> QED
    BY <1>1, OperatorWaits
<1>3. RuntimeWork'
  BY <1>1, RuntimeWaits
<1>4. /\ disk'.applied = disk.applied /\ disk'.index = disk.index
      /\ Form(disk', "cases") = Form(disk, "cases")
      /\ OneDraftEach(disk') /\ Audited(disk')
  BY Migrated
<1> QED
  BY <1>1, <1>2, <1>3, <1>4, ServingKeeps

(* The case a command adds.                                                *)
LEMMA WithCaseIs ==
  ASSUME NEW db, IsDatabase(db), NEW o
  PROVE  LET new == WithCase(db, o) IN
         /\ IsDatabase(new)
         /\ Rows(new, "cases") = Put(Rows(db, "cases"), operator[o].subject, NewCase(o))
         /\ Rows(new, "audit_events") = Rows(db, "audit_events")
         /\ \A t \in Tables : Form(new, t) = Form(db, t)
         /\ new.index = db.index /\ new.applied = db.applied
<1>1. "cases" \in Tables /\ "audit_events" \in Tables \ {"cases"}
  BY DEF Tables, Rebuilt, LegacyOf, Leftovers
<1> QED
  BY <1>1, SetRowsIs DEF WithCase

(* The audit event it adds.                                                *)
LEMMA WithAuditIs ==
  ASSUME NEW db, IsDatabase(db), NEW kind, NEW id
  PROVE  LET new == WithAudit(db, kind, id) IN
         /\ IsDatabase(new)
         /\ Rows(new, "cases") = Rows(db, "cases")
         /\ Rows(new, "audit_events") = Put(Rows(db, "audit_events"), <<kind, id>>, id)
         /\ \A t \in Tables : Form(new, t) = Form(db, t)
         /\ new.index = db.index /\ new.applied = db.applied
<1>1. "audit_events" \in Tables /\ "cases" \in Tables \ {"audit_events"}
  BY DEF Tables, Rebuilt, LegacyOf, Leftovers
<1> QED
  BY <1>1, SetRowsIs DEF WithAudit

(* The content a command commits: a case with its audit event, for a       *)
(* client who had no draft,                                                *)
LEMMA CaseCommitted ==
  ASSUME IsDatabase(disk), OneDraftEach(disk), Audited(disk), NEW o,
         operator[o].subject \in Clients, DraftsOf(disk, operator[o].subject) = {}
  PROVE  LET new == WithAudit(WithCase(disk, o), "case_created_from_intake", operator[o].subject) IN
         /\ IsDatabase(new) /\ OneDraftEach(new) /\ Audited(new)
         /\ Rows(new, "cases") = Put(Rows(disk, "cases"), operator[o].subject, NewCase(o))
         /\ Form(new, "cases") = Form(disk, "cases")
         /\ new.index = disk.index /\ new.applied = disk.applied
<1> DEFINE mid == WithCase(disk, o)
           s == operator[o].subject
           new == WithAudit(mid, "case_created_from_intake", s)
<1>0. "cases" \in Tables
  BY DEF Tables, Rebuilt, LegacyOf
<1>1. /\ IsDatabase(mid) /\ Rows(mid, "cases") = Put(Rows(disk, "cases"), s, NewCase(o))
      /\ Rows(mid, "audit_events") = Rows(disk, "audit_events")
      /\ Form(mid, "cases") = Form(disk, "cases")
      /\ mid.index = disk.index /\ mid.applied = disk.applied
  BY <1>0, WithCaseIs
<1> HIDE DEF mid
<1>2. /\ IsDatabase(new) /\ Rows(new, "cases") = Rows(mid, "cases")
      /\ Rows(new, "audit_events") =
           Put(Rows(mid, "audit_events"), <<"case_created_from_intake", s>>, s)
      /\ Form(new, "cases") = Form(mid, "cases")
      /\ new.index = mid.index /\ new.applied = mid.applied
  BY <1>0, <1>1, WithAuditIs
<1> HIDE DEF new
<1>3. /\ Keys(new, "cases") = Keys(disk, "cases") \cup {s}
      /\ Rows(new, "cases")[s] = NewCase(o)
      /\ \A id \in Keys(disk, "cases") \ {s} : Rows(new, "cases")[id] = Rows(disk, "cases")[id]
      /\ Keys(new, "audit_events") =
           Keys(disk, "audit_events") \cup {<<"case_created_from_intake", s>>}
  <2>1. \A db, t : Keys(db, t) = DOMAIN Rows(db, t)
    BY DEF Keys, Rows
  <2>2. /\ Rows(new, "cases") = Put(Rows(disk, "cases"), s, NewCase(o))
        /\ Rows(new, "audit_events") =
             Put(Rows(disk, "audit_events"), <<"case_created_from_intake", s>>, s)
    BY <1>1, <1>2
  <2>3. DOMAIN Rows(new, "audit_events") =
          DOMAIN Rows(disk, "audit_events") \cup {<<"case_created_from_intake", s>>}
    BY <2>2 DEF Put
  <2>4. /\ DOMAIN Rows(new, "cases") = DOMAIN Rows(disk, "cases") \cup {s}
        /\ Rows(new, "cases")[s] = NewCase(o)
        /\ \A id \in DOMAIN Rows(disk, "cases") \ {s} : Rows(new, "cases")[id] = Rows(disk, "cases")[id]
    <3> DEFINE row == NewCase(o)
    <3>1. Rows(new, "cases") = Put(Rows(disk, "cases"), s, row)
      BY <2>2
    <3> HIDE DEF row
    <3>2. /\ DOMAIN Rows(new, "cases") = DOMAIN Rows(disk, "cases") \cup {s}
          /\ Rows(new, "cases")[s] = row
          /\ \A id \in DOMAIN Rows(disk, "cases") \ {s} :
               Rows(new, "cases")[id] = Rows(disk, "cases")[id]
      BY <3>1 DEF Put
    <3> QED
      BY <3>2 DEF row
  <2> QED
    BY <2>1, <2>3, <2>4
<1>4. NewCase(o).subject = s
  BY DEF NewCase
<1>5. \A u \in Clients : \A id \in DraftsOf(new, u) :
        (id = s /\ u = s) \/ (u # s /\ id \in DraftsOf(disk, u))
  <2> SUFFICES ASSUME NEW u \in Clients, NEW id \in DraftsOf(new, u), ~(id = s /\ u = s)
               PROVE  u # s /\ id \in DraftsOf(disk, u)
    OBVIOUS
  <2>1. id \in Keys(new, "cases") /\ Rows(new, "cases")[id].status = "draft"
          /\ Rows(new, "cases")[id].subject = u
    BY DEF DraftsOf, Drafts
  <2>2. id # s
    BY <1>3, <1>4, <2>1
  <2>3. id \in DraftsOf(disk, u)
    BY <1>3, <2>1, <2>2 DEF DraftsOf, Drafts
  <2> QED
    BY <2>3
<1>6. OneDraftEach(new)
  BY <1>5 DEF OneDraftEach
<1>7. Audited(new)
  BY <1>3 DEF Audited
<1> QED
  BY <1>1, <1>2, <1>6, <1>7 DEF new, mid

(* or the audit event of a command that found a draft.                     *)
LEMMA HitCommitted ==
  ASSUME IsDatabase(disk), OneDraftEach(disk), Audited(disk), NEW id
  PROVE  LET new == WithAudit(disk, "case_create_from_intake_idempotent_hit", id) IN
         /\ IsDatabase(new) /\ OneDraftEach(new) /\ Audited(new)
         /\ Rows(new, "cases") = Rows(disk, "cases")
         /\ Form(new, "cases") = Form(disk, "cases")
         /\ new.index = disk.index /\ new.applied = disk.applied
<1> DEFINE new == WithAudit(disk, "case_create_from_intake_idempotent_hit", id)
<1>0. "cases" \in Tables
  BY DEF Tables, Rebuilt, LegacyOf
<1>1. /\ IsDatabase(new) /\ Rows(new, "cases") = Rows(disk, "cases")
      /\ Rows(new, "audit_events") =
           Put(Rows(disk, "audit_events"), <<"case_create_from_intake_idempotent_hit", id>>, id)
      /\ Form(new, "cases") = Form(disk, "cases")
      /\ new.index = disk.index /\ new.applied = disk.applied
  BY <1>0, WithAuditIs
<1> HIDE DEF new
<1>2. /\ Keys(new, "cases") = Keys(disk, "cases")
      /\ Keys(new, "audit_events") =
           Keys(disk, "audit_events") \cup {<<"case_create_from_intake_idempotent_hit", id>>}
  <2>1. \A db, t : Keys(db, t) = DOMAIN Rows(db, t)
    BY DEF Keys, Rows
  <2> QED
    <3>1. DOMAIN Rows(new, "audit_events") =
            DOMAIN Rows(disk, "audit_events") \cup {<<"case_create_from_intake_idempotent_hit", id>>}
      BY <1>1 DEF Put
    <3> QED
      BY <1>1, <2>1, <3>1
<1>3. \A s : <<"case_created_from_intake", s>> # <<"case_create_from_intake_idempotent_hit", id>>
  OBVIOUS
<1>4. Audited(new)
  BY <1>2, <1>3 DEF Audited
<1>5. OneDraftEach(new)
  BY <1>1, DraftsIn
<1> QED
  BY <1>1, <1>4, <1>5 DEF new

(* An operator runs case:create.                                           *)
LEMMA RunCommandKeeps ==
  ASSUME OpsInv, TxInv', UNCHANGED <<migrator, runtime>>, NEW o \in Operators,
         NEW s \in Clients, RunCommand(o, s)
  PROVE  OpsInv'
<1> DEFINE row == [pc |-> "begin", subject |-> s, summary |-> Absent]
<1>1. /\ operator[o].pc = "idle" /\ AllApplied(disk) /\ UNCHANGED txVars
      /\ operator' = [operator EXCEPT ![o] = [Waiting EXCEPT !.pc = "begin", !.subject = s]]
  BY DEF RunCommand, OperatorAt
<1>2. [Waiting EXCEPT !.pc = "begin", !.subject = s] = row
  <2> DEFINE mid == [Waiting EXCEPT !.pc = "begin"]
  <2>1. mid = [pc |-> "begin", subject |-> NoClient, summary |-> Absent]
    BY DEF Waiting
  <2>2. [Waiting EXCEPT !.pc = "begin", !.subject = s] = [mid EXCEPT !.subject = s]
    OBVIOUS
  <2> HIDE DEF mid
  <2>3. /\ mid = [pc |-> mid.pc, subject |-> mid.subject, summary |-> mid.summary]
        /\ mid.pc = "begin" /\ mid.summary = Absent
    BY <2>1
  <2>4. [mid EXCEPT !.subject = s] = [pc |-> mid.pc, subject |-> s, summary |-> mid.summary]
    BY <2>3
  <2> QED
    BY <2>2, <2>3, <2>4
<1>3. operator' = [operator EXCEPT ![o] = row]
  BY <1>2, <1>1, Zenon
<1>4. /\ row = [pc |-> row.pc, subject |-> row.subject, summary |-> row.summary]
      /\ row.pc = "begin" /\ row.subject = s /\ row.pc \in OperatorLabels
  BY DEF OperatorLabels
<1> HIDE DEF row
<1>5. LocalType' /\ operator'[o] = row /\ \A p \in Operators \ {o} : operator'[p] = operator[p]
  BY <1>4, <1>3, OperatorMoves DEF OpsInv
<1>6. calls[o] = 0 /\ depth[o] = calls[o]
  BY <1>1 DEF OpsInv, OperatorCalls
<1>7. OperatorCalls(o)' /\ OperatorWork(o)'
  BY <1>1, <1>4, <1>5, <1>6 DEF OperatorCalls, OperatorWork, txVars
<1>8. Kept' = Kept /\ disk' = disk
  BY <1>1 DEF Kept, txVars
<1> QED
  BY <1>1, <1>5, <1>7, <1>8, OperatorKeeps DEF OpsInv

(* case:create opens its transaction.                                      *)
LEMMA BeginCaseKeeps ==
  ASSUME OpsInv, TxInv', UNCHANGED <<migrator, runtime>>, NEW o \in Operators, BeginCase(o)
  PROVE  OpsInv'
<1>1. operator[o].pc = "begin" /\ Enter(o) /\ OperatorGoes(o, "check")
  BY DEF BeginCase, OperatorAt
<1>2. /\ LocalType' /\ operator'[o].pc = "check" /\ operator'[o].subject = operator[o].subject
      /\ \A p \in Operators \ {o} : operator'[p] = operator[p]
  BY <1>1, OperatorGoesIs DEF OpsInv, OperatorLabels
<1>3. /\ o \in Connections /\ AllApplied(disk) /\ operator[o].subject \in Clients
      /\ depth[o] = 0 /\ calls[o] = 0
  BY <1>1, InTransaction DEF OpsInv, OperatorCalls
<1>4. /\ Writable(o) /\ open[o] # "reading" /\ disk' = disk /\ pending' = pending
      /\ depth' = [depth EXCEPT ![o] = @ + 1] /\ calls' = [calls EXCEPT ![o] = @ + 1]
      /\ lock' = [lock EXCEPT ![o] = "reserved"]
  BY <1>1, <1>3 DEF Enter
<1>5. depth'[o] = 1 /\ calls'[o] = 1 /\ lock'[o] = "reserved"
  BY <1>3, <1>4 DEF OpsInv, TxInv, TxType
<1>6. pending = disk
  <2>1. lock[o] = "none"
    BY <1>3, <1>4, InTransaction DEF OpsInv, TxInv, NoLockOutside
  <2> QED
    BY <1>4, <2>1 DEF OpsInv, TxInv, NothingPending, Writable, Others
<1>7. OperatorCalls(o)' /\ OperatorWork(o)'
  BY <1>2, <1>3, <1>4, <1>5, <1>6 DEF OperatorCalls, OperatorWork
<1>8. Kept' \subseteq Kept /\ [StepOf(o)]_txVars
  BY <1>1, <1>3, KeptOtherwise DEF OpsInv, StepOf
<1> QED
  BY <1>2, <1>3, <1>4, <1>7, <1>8, OperatorKeeps DEF OpsInv

(* case:create cannot open its transaction and ends.                       *)
LEMMA BeginCaseRefusedKeeps ==
  ASSUME OpsInv, TxInv', UNCHANGED <<migrator, runtime>>, NEW o \in Operators, BeginCaseRefused(o)
  PROVE  OpsInv'
<1>1. operator[o].pc = "begin" /\ OperatorExits(o) /\ UNCHANGED txVars
  BY DEF BeginCaseRefused, OperatorAt
<1>2. /\ LocalType' /\ operator'[o].pc = "idle"
      /\ \A p \in Operators \ {o} : operator'[p] = operator[p]
  BY <1>1, OperatorExitsIs DEF OpsInv
<1>3. AllApplied(disk) /\ depth[o] = 0 /\ calls[o] = 0
  BY <1>1, InTransaction DEF OpsInv, OperatorCalls
<1>4. OperatorCalls(o)' /\ OperatorWork(o)'
  BY <1>1, <1>2, <1>3 DEF OperatorCalls, OperatorWork, txVars
<1>5. Kept' = Kept /\ disk' = disk
  BY <1>1 DEF Kept, txVars
<1> QED
  BY <1>1, <1>2, <1>3, <1>4, <1>5, OperatorKeeps DEF OpsInv

(* case:create looks the intake up.                                        *)
LEMMA CheckIntakeKeeps ==
  ASSUME OpsInv, TxInv', UNCHANGED <<migrator, runtime>>, NEW o \in Operators, CheckIntake(o)
  PROVE  OpsInv'
<1> DEFINE s == operator[o].subject
           summary == FieldsOf(disk, s)["problemSummary"]
<1>1. operator[o].pc = "check" /\ Read(o)
  BY DEF CheckIntake, OperatorAt
<1>2. /\ o \in Connections /\ AllApplied(disk) /\ s \in Clients /\ calls[o] = 1 /\ depth[o] = 1
      /\ lock[o] = "reserved" /\ View(o) = disk /\ pending = disk
  BY <1>1, InTransaction DEF OpsInv, OperatorCalls, OperatorWork
<1>3. UNCHANGED txVars
  BY <1>1, <1>2 DEF Read, txVars
<1>4. \/ OperatorGoes(o, "hit")
      \/ OperatorGoes(o, "unwind")
      \/ /\ DraftsOf(disk, s) = {} /\ CanCreateCase(disk, s)
         /\ operator' = [operator EXCEPT ![o].pc = "savepoint", ![o].summary = summary]
  BY <1>2 DEF CheckIntake
<1>5. CASE OperatorGoes(o, "hit") \/ OperatorGoes(o, "unwind")
  <2>1. /\ LocalType' /\ operator'[o].pc \in {"hit", "unwind"} /\ operator'[o].subject = s
        /\ \A p \in Operators \ {o} : operator'[p] = operator[p]
    BY <1>5, OperatorGoesIs DEF OpsInv, OperatorLabels
  <2>2. OperatorCalls(o)' /\ OperatorWork(o)'
    BY <1>2, <1>3, <2>1 DEF OperatorCalls, OperatorWork, txVars
  <2>3. Kept' = Kept /\ disk' = disk
    BY <1>3 DEF Kept, txVars
  <2> QED
    BY <1>2, <1>3, <2>1, <2>2, <2>3, OperatorKeeps DEF OpsInv
<1>6. CASE /\ DraftsOf(disk, s) = {} /\ CanCreateCase(disk, s)
           /\ operator' = [operator EXCEPT ![o].pc = "savepoint", ![o].summary = summary]
  <2> DEFINE row == [pc |-> "savepoint", subject |-> s, summary |-> summary]
  <2>1. operator[o] = [pc |-> operator[o].pc, subject |-> operator[o].subject,
                       summary |-> operator[o].summary]
    BY DEF OpsInv, LocalType
  <2>2. [operator[o] EXCEPT !.pc = "savepoint", !.summary = summary] = row
    <3> DEFINE mid == [operator[o] EXCEPT !.pc = "savepoint"]
    <3> HIDE DEF summary
    <3>1. mid = [pc |-> "savepoint", subject |-> s, summary |-> operator[o].summary]
      BY <2>1
    <3>2. [operator[o] EXCEPT !.pc = "savepoint", !.summary = summary] = [mid EXCEPT !.summary = summary]
      OBVIOUS
    <3> HIDE DEF mid
    <3>3. /\ mid = [pc |-> mid.pc, subject |-> mid.subject, summary |-> mid.summary]
          /\ mid.pc = "savepoint" /\ mid.subject = s
      BY <3>1
    <3>4. [mid EXCEPT !.summary = summary] = [pc |-> mid.pc, subject |-> mid.subject, summary |-> summary]
      BY <3>3
    <3> QED
      BY <3>2, <3>3, <3>4
  <2>3. operator' = [operator EXCEPT ![o] = row]
    <3> HIDE DEF summary
    <3>1. operator = [p \in Operators |-> operator[p]]
      BY DEF OpsInv, LocalType
    <3> QED
      BY <1>6, <2>2, <3>1
  <2>4. row = [pc |-> row.pc, subject |-> row.subject, summary |-> row.summary]
          /\ row.pc = "savepoint" /\ row.subject = s /\ row.summary = summary
          /\ row.pc \in OperatorLabels
    BY DEF OperatorLabels
  <2> HIDE DEF row
  <2>5. LocalType' /\ operator'[o] = row /\ \A p \in Operators \ {o} : operator'[p] = operator[p]
    BY <2>3, <2>4, OperatorMoves DEF OpsInv
  <2>6. Kept' = Kept /\ disk' = disk /\ pending' = pending
    BY <1>3 DEF Kept, txVars
  <2>7. Justified(o)'
    BY <1>6, <2>4, <2>5, <2>6 DEF Justified
  <2>8. OperatorCalls(o)' /\ OperatorWork(o)'
    BY <1>2, <1>3, <2>4, <2>5, <2>6, <2>7 DEF OperatorCalls, OperatorWork, txVars
  <2> QED
    BY <1>2, <1>3, <2>5, <2>6, <2>8, OperatorKeeps DEF OpsInv
<1> QED
  BY <1>4, <1>5, <1>6

(* What a command is about does not change on its way.                     *)
LEMMA SameWork ==
  ASSUME NEW o, disk' = disk, operator'[o].subject = operator[o].subject,
         operator'[o].summary = operator[o].summary
  PROVE  /\ Justified(o)' <=> Justified(o)
         /\ WithCase(disk, o)' = WithCase(disk, o)
BY DEF Justified, WithCase, NewCase

(* case:create opens the savepoint around the insertion.                   *)
LEMMA OpenSavepointKeeps ==
  ASSUME OpsInv, TxInv', UNCHANGED <<migrator, runtime>>, NEW o \in Operators, OpenSavepoint(o)
  PROVE  OpsInv'
<1>1. operator[o].pc = "savepoint" /\ Enter(o) /\ OperatorGoes(o, "insert")
  BY DEF OpenSavepoint, OperatorAt
<1>2. /\ LocalType' /\ operator'[o].pc = "insert" /\ operator'[o].subject = operator[o].subject
      /\ operator'[o].summary = operator[o].summary
      /\ \A p \in Operators \ {o} : operator'[p] = operator[p]
  BY <1>1, OperatorGoesIs DEF OpsInv, OperatorLabels
<1>3. /\ calls[o] = 1 /\ pending = disk /\ Justified(o)
  BY <1>1 DEF OpsInv, OperatorCalls, OperatorWork
<1>4. /\ o \in Connections /\ AllApplied(disk) /\ operator[o].subject \in Clients
      /\ depth[o] = 1 /\ open[o] = "immediate" /\ lock[o] = "reserved"
      /\ saves[o] = <<>> /\ View(o) = pending
  BY <1>1, <1>3, InTransaction
<1>5. /\ UNCHANGED <<disk, pending, lock>>
      /\ depth' = [depth EXCEPT ![o] = @ + 1] /\ calls' = [calls EXCEPT ![o] = @ + 1]
      /\ saves' = [saves EXCEPT ![o] = Append(@, View(o))]
  BY <1>1, <1>4 DEF Enter
<1>6. depth'[o] = 2 /\ calls'[o] = 2 /\ saves'[o] = <<disk>>
  BY <1>3, <1>4, <1>5 DEF OpsInv, TxInv, TxType
<1>7. Justified(o)'
  BY <1>2, <1>3, <1>5, SameWork
<1>8. OperatorCalls(o)' /\ OperatorWork(o)'
  BY <1>2, <1>3, <1>4, <1>5, <1>6, <1>7 DEF OperatorCalls, OperatorWork
<1>9. Kept' \subseteq Kept /\ [StepOf(o)]_txVars
  BY <1>1, <1>4, KeptOtherwise DEF OpsInv, StepOf
<1> QED
  BY <1>2, <1>4, <1>5, <1>8, <1>9, OperatorKeeps DEF OpsInv

(* The transaction stays as it is, and the command gives up.               *)
LEMMA GivingUpKeeps ==
  ASSUME OpsInv, TxInv', UNCHANGED <<migrator, runtime>>, NEW o \in Operators,
         operator[o].pc \notin {"idle", "begin"}, OperatorGoes(o, "unwind"), UNCHANGED txVars
  PROVE  OpsInv'
<1>1. /\ LocalType' /\ operator'[o].pc = "unwind" /\ operator'[o].subject = operator[o].subject
      /\ \A p \in Operators \ {o} : operator'[p] = operator[p]
  BY OperatorGoesIs DEF OpsInv, OperatorLabels
<1>2. AllApplied(disk) /\ operator[o].subject \in Clients /\ operator[o].pc \in OperatorLabels
  BY InTransaction DEF OpsInv, LocalType
<1>3. UNCHANGED <<disk, pending, lock, saves, depth, calls>>
  BY DEF txVars
<1>4. OperatorCalls(o)' /\ OperatorWork(o)'
  BY <1>1, <1>2, <1>3 DEF OpsInv, OperatorCalls, OperatorWork, OperatorLabels
<1>5. Kept' = Kept
  BY <1>3 DEF Kept
<1> QED
  BY <1>1, <1>2, <1>3, <1>4, <1>5, OperatorKeeps DEF OpsInv

(* The command writes in its transaction.                                  *)
LEMMA CommandWrites ==
  ASSUME OpsInv, NEW o \in Operators, calls[o] > 0, NEW content, Write(o, content), IsDatabase(content)
  PROVE  /\ pending' = content /\ lock'[o] = "reserved"
         /\ UNCHANGED <<disk, saves, depth, calls>>
         /\ [StepOf(o)]_txVars /\ \A db \in Kept' : IsDatabase(db)
<1>1. o \in Connections /\ open[o] = "immediate"
  BY InTransaction
<1>2. Kept' \subseteq Kept \cup {content}
  BY <1>1, KeptByWrite
<1> QED
  BY <1>1, <1>2, WriteIsTx DEF Write, OpsInv, TxInv, TxType

(* case:create inserts the case.                                           *)
LEMMA InsertCaseKeeps ==
  ASSUME OpsInv, TxInv', UNCHANGED <<migrator, runtime>>, NEW o \in Operators, InsertCase(o)
  PROVE  OpsInv'
<1> DEFINE content == SetRows(View(o), "cases", Put(Rows(View(o), "cases"), operator[o].subject, NewCase(o)))
<1>1. /\ operator[o].pc = "insert"
      /\ \/ OperatorGoes(o, "unwind") /\ UNCHANGED txVars
         \/ Write(o, content) /\ OperatorGoes(o, "audit")
  BY DEF InsertCase, OperatorAt
<1> HIDE DEF content
<1>2. /\ calls[o] = 2 /\ pending = disk /\ Justified(o)
  BY <1>1 DEF OpsInv, OperatorCalls, OperatorWork
<1>3. /\ AllApplied(disk) /\ operator[o].subject \in Clients
      /\ depth[o] = 2 /\ View(o) = disk /\ saves[o] = <<disk>>
  BY <1>1, <1>2, InTransaction
<1>4. CASE Write(o, content) /\ OperatorGoes(o, "audit")
  <2>1. /\ LocalType' /\ operator'[o].pc = "audit" /\ operator'[o].subject = operator[o].subject
        /\ operator'[o].summary = operator[o].summary
        /\ \A p \in Operators \ {o} : operator'[p] = operator[p]
    BY <1>4, OperatorGoesIs DEF OpsInv, OperatorLabels
  <2>2. content = WithCase(disk, o)
    BY <1>3 DEF content, WithCase
  <2>3. IsDatabase(content)
    BY <1>3, <2>2, WithCaseIs, Migrated
  <2>4. /\ pending' = content /\ lock'[o] = "reserved" /\ UNCHANGED <<disk, saves, depth, calls>>
        /\ [StepOf(o)]_txVars /\ \A db \in Kept' : IsDatabase(db)
    BY <1>2, <1>4, <2>3, CommandWrites
  <2>5. Justified(o)' /\ WithCase(disk, o)' = WithCase(disk, o)
    BY <1>2, <2>1, <2>4, SameWork
  <2>6. OperatorCalls(o)' /\ OperatorWork(o)'
    BY <1>2, <1>3, <2>1, <2>2, <2>4, <2>5 DEF OperatorCalls, OperatorWork
  <2> QED
    BY <1>3, <2>1, <2>4, <2>6, OperatorKeeps
<1> QED
  BY <1>1, <1>4, GivingUpKeeps

(* case:create appends the audit of a new case.                            *)
LEMMA AppendCaseAuditKeeps ==
  ASSUME OpsInv, TxInv', UNCHANGED <<migrator, runtime>>, NEW o \in Operators, AppendCaseAudit(o)
  PROVE  OpsInv'
<1> DEFINE s == operator[o].subject
           content == WithAudit(View(o), "case_created_from_intake", s)
<1>1. operator[o].pc = "audit" /\ Write(o, content) /\ OperatorGoes(o, "release")
  BY DEF AppendCaseAudit, AppendAudit, WithAudit, OperatorAt
<1> HIDE DEF content
<1>2. /\ LocalType' /\ operator'[o].pc = "release" /\ operator'[o].subject = s
      /\ operator'[o].summary = operator[o].summary
      /\ \A p \in Operators \ {o} : operator'[p] = operator[p]
  BY <1>1, OperatorGoesIs DEF OpsInv, OperatorLabels
<1>3. /\ calls[o] = 2 /\ pending = WithCase(disk, o) /\ Justified(o)
  BY <1>1 DEF OpsInv, OperatorCalls, OperatorWork
<1>4. /\ AllApplied(disk) /\ s \in Clients
      /\ depth[o] = 2 /\ View(o) = pending /\ saves[o] = <<disk>>
  BY <1>1, <1>3, InTransaction
<1>5. content = WithAudit(WithCase(disk, o), "case_created_from_intake", s)
  BY <1>3, <1>4 DEF content
<1>6. IsDatabase(content)
  BY <1>4, <1>5, WithCaseIs, WithAuditIs, Migrated
<1>7. /\ pending' = content /\ lock'[o] = "reserved" /\ UNCHANGED <<disk, saves, depth, calls>>
      /\ [StepOf(o)]_txVars /\ \A db \in Kept' : IsDatabase(db)
  BY <1>1, <1>3, <1>6, CommandWrites
<1>8. Justified(o)' /\ WithCase(disk, o)' = WithCase(disk, o)
  BY <1>2, <1>3, <1>7, SameWork
<1>9. /\ pending' = WithAudit(WithCase(disk, o)', "case_created_from_intake", operator'[o].subject)
  BY <1>2, <1>5, <1>7, <1>8
<1>10. OperatorCalls(o)' /\ OperatorWork(o)'
  BY <1>2, <1>3, <1>4, <1>7, <1>8, <1>9 DEF OperatorCalls, OperatorWork, WithAudit
<1> QED
  BY <1>2, <1>4, <1>7, <1>10, OperatorKeeps

(* case:create releases its savepoint.                                     *)
LEMMA ReleaseSavepointKeeps ==
  ASSUME OpsInv, TxInv', UNCHANGED <<migrator, runtime>>, NEW o \in Operators, ReleaseSavepoint(o)
  PROVE  OpsInv'
<1> DEFINE Both == WithAudit(WithCase(disk, o), "case_created_from_intake", operator[o].subject)
<1>1. operator[o].pc = "release" /\ Leave(o) /\ OperatorGoes(o, "commit")
  BY DEF ReleaseSavepoint, OperatorAt
<1>2. /\ LocalType' /\ operator'[o].pc = "commit" /\ operator'[o].subject = operator[o].subject
      /\ operator'[o].summary = operator[o].summary
      /\ \A p \in Operators \ {o} : operator'[p] = operator[p]
  BY <1>1, OperatorGoesIs DEF OpsInv, OperatorLabels
<1>3. /\ calls[o] = 2 /\ pending = Both /\ Justified(o)
  BY <1>1 DEF OpsInv, OperatorCalls, OperatorWork
<1>4. /\ o \in Connections /\ AllApplied(disk) /\ operator[o].subject \in Clients
      /\ depth[o] = 2 /\ lock[o] = "reserved" /\ saves[o] = <<disk>>
  BY <1>1, <1>3, InTransaction
<1>5. /\ UNCHANGED <<disk, pending, lock>>
      /\ depth' = [depth EXCEPT ![o] = @ - 1] /\ calls' = [calls EXCEPT ![o] = @ - 1]
  <2>1. ~Commits(o)
    BY <1>4 DEF Commits
  <2> QED
    BY <1>1, <2>1 DEF Leave, Done
<1>6. depth'[o] = 1 /\ calls'[o] = 1
  BY <1>3, <1>4, <1>5 DEF OpsInv, TxInv, TxType
<1>7. Justified(o)' /\ Both' = Both
  BY <1>2, <1>3, <1>5, SameWork DEF WithAudit
<1> HIDE DEF Both
<1>8. pending' = Both'
  BY <1>3, <1>5, <1>7
<1>9. OperatorCalls(o)' /\ OperatorWork(o)'
  BY <1>2, <1>4, <1>5, <1>6, <1>7, <1>8 DEF OperatorCalls, OperatorWork, Both
<1>10. Kept' \subseteq Kept /\ [StepOf(o)]_txVars
  BY <1>1, <1>4, KeptOtherwise DEF OpsInv, StepOf
<1> QED
  BY <1>2, <1>4, <1>5, <1>9, <1>10, OperatorKeeps DEF OpsInv

(* case:create appends the audit of a case that was there.                 *)
LEMMA AppendHitAuditKeeps ==
  ASSUME OpsInv, TxInv', UNCHANGED <<migrator, runtime>>, NEW o \in Operators, AppendHitAudit(o)
  PROVE  OpsInv'
<1> DEFINE Hit(id) == WithAudit(disk, "case_create_from_intake_idempotent_hit", id)
<1>1. operator[o].pc = "hit" /\ OperatorGoes(o, "commit")
  BY DEF AppendHitAudit, OperatorAt
<1>2. /\ LocalType' /\ operator'[o].pc = "commit" /\ operator'[o].subject = operator[o].subject
      /\ \A p \in Operators \ {o} : operator'[p] = operator[p]
  BY <1>1, OperatorGoesIs DEF OpsInv, OperatorLabels
<1>3. /\ calls[o] = 1 /\ pending = disk
  BY <1>1 DEF OpsInv, OperatorCalls, OperatorWork
<1>4. /\ AllApplied(disk) /\ operator[o].subject \in Clients
      /\ depth[o] = 1 /\ View(o) = disk
  BY <1>1, <1>3, InTransaction
<1>5. PICK id \in DraftsOf(disk, operator[o].subject) : Write(o, Hit(id))
  BY <1>4 DEF AppendHitAudit, AppendAudit, WithAudit
<1>6. IsDatabase(Hit(id))
  BY <1>4, WithAuditIs, Migrated
<1>7. /\ pending' = Hit(id) /\ lock'[o] = "reserved" /\ UNCHANGED <<disk, saves, depth, calls>>
      /\ [StepOf(o)]_txVars /\ \A db \in Kept' : IsDatabase(db)
  <2> HIDE DEF Hit
  <2> QED
    BY <1>3, <1>5, <1>6, CommandWrites
<1>8. id \in DraftsOf(disk, operator[o].subject)' /\ pending' = Hit(id)'
  BY <1>2, <1>7 DEF DraftsOf, Drafts, Keys, Rows, WithAudit
<1>9. OperatorCalls(o)' /\ OperatorWork(o)'
  <2> HIDE DEF Hit
  <2>1. \E i \in DraftsOf(disk, operator[o].subject)' : pending' = Hit(i)'
    BY <1>8
  <2> QED
    BY <1>2, <1>3, <1>4, <1>7, <2>1 DEF OperatorCalls, OperatorWork, Hit
<1> QED
  BY <1>2, <1>4, <1>7, <1>9, OperatorKeeps

(* What a command commits.                                                 *)
LEMMA CommitWrites ==
  ASSUME OpsInv, NEW o \in Operators, CommitCase(o)
  PROVE  /\ OperatorExits(o) /\ Leave(o) /\ AllApplied(disk) /\ disk' = pending
         /\ calls[o] = 1 /\ depth'[o] = 0 /\ calls'[o] = 0 /\ operator[o].subject \in Clients
         /\ \/ Justified(o) /\ disk' = WithAudit(WithCase(disk, o), "case_created_from_intake",
                                                 operator[o].subject)
            \/ \E id \in DraftsOf(disk, operator[o].subject) :
                 disk' = WithAudit(disk, "case_create_from_intake_idempotent_hit", id)
<1>1. operator[o].pc = "commit" /\ Leave(o) /\ OperatorExits(o)
  BY DEF CommitCase, OperatorAt
<1>2. /\ calls[o] = 1 /\ OperatorWork(o)
  BY <1>1 DEF OpsInv, OperatorCalls
<1>3. /\ o \in Connections /\ AllApplied(disk) /\ operator[o].subject \in Clients
      /\ depth[o] = 1 /\ saves[o] = <<>> /\ View(o) = pending
  BY <1>1, <1>2, InTransaction
<1>4. /\ disk' = pending
      /\ depth' = [depth EXCEPT ![o] = @ - 1] /\ calls' = [calls EXCEPT ![o] = @ - 1]
  BY <1>1, <1>3 DEF Leave, Done, Commits
<1>5. depth'[o] = 0 /\ calls'[o] = 0
  BY <1>2, <1>3, <1>4 DEF OpsInv, TxInv, TxType
<1> QED
  BY <1>1, <1>2, <1>3, <1>4, <1>5 DEF OperatorWork

(* case:create commits.                                                    *)
LEMMA CommitCaseKeeps ==
  ASSUME OpsInv, TxInv', UNCHANGED <<migrator, runtime>>, NEW o \in Operators, CommitCase(o)
  PROVE  OpsInv'
<1>1. /\ OperatorExits(o) /\ Leave(o) /\ AllApplied(disk) /\ calls[o] = 1
      /\ depth'[o] = 0 /\ calls'[o] = 0 /\ operator[o].subject \in Clients /\ o \in Connections
  BY CommitWrites, InTransaction
<1>2. /\ LocalType' /\ operator'[o].pc = "idle"
      /\ \A p \in Operators \ {o} : operator'[p] = operator[p]
  BY <1>1, OperatorExitsIs DEF OpsInv
<1>3. OperatorCalls(o)' /\ OperatorWork(o)'
  BY <1>1, <1>2 DEF OperatorCalls, OperatorWork
<1>4. Kept' \subseteq Kept /\ [StepOf(o)]_txVars
  BY <1>1, KeptOtherwise DEF OpsInv, StepOf
<1>5. /\ disk'.applied = disk.applied /\ disk'.index = disk.index
      /\ Form(disk', "cases") = Form(disk, "cases")
      /\ OneDraftEach(disk') /\ Audited(disk')
  <2>1. IsDatabase(disk) /\ OneDraftEach(disk) /\ Audited(disk)
    BY <1>1, Migrated
  <2>2. CASE Justified(o) /\ disk' = WithAudit(WithCase(disk, o), "case_created_from_intake",
                                               operator[o].subject)
    <3>1. DraftsOf(disk, operator[o].subject) = {}
      BY <2>2 DEF Justified
    <3> QED
      BY <1>1, <2>1, <2>2, <3>1, CaseCommitted
  <2>3. CASE \E id \in DraftsOf(disk, operator[o].subject) :
               disk' = WithAudit(disk, "case_create_from_intake_idempotent_hit", id)
    BY <2>1, <2>3, HitCommitted
  <2> QED
    BY <2>2, <2>3, CommitWrites
<1> QED
  BY <1>1, <1>2, <1>3, <1>4, <1>5, OperatorKeeps DEF OpsInv

(* case:create rolls back.                                                 *)
LEMMA UnwindCaseKeeps ==
  ASSUME OpsInv, TxInv', UNCHANGED <<migrator, runtime>>, NEW o \in Operators, UnwindCase(o)
  PROVE  OpsInv'
<1>1. /\ operator[o].pc = "unwind" /\ Unwind(o)
      /\ IF calls[o] > 1 THEN UNCHANGED operator ELSE OperatorExits(o)
  BY DEF UnwindCase, OperatorAt
<1>2. calls[o] \in {1, 2} /\ depth[o] = calls[o]
  BY <1>1 DEF OpsInv, OperatorCalls, OperatorLabels
<1>3. /\ o \in Connections /\ AllApplied(disk) /\ operator[o].subject \in Clients
      /\ lock[o] = "reserved"
  BY <1>1, <1>2, InTransaction
<1>4. /\ disk' = disk
      /\ depth' = [depth EXCEPT ![o] = @ - 1] /\ calls' = [calls EXCEPT ![o] = @ - 1]
  BY <1>1 DEF Unwind, Done
<1>5. depth'[o] = calls[o] - 1 /\ calls'[o] = calls[o] - 1
  BY <1>2, <1>3, <1>4 DEF OpsInv, TxInv, TxType
<1>6. Kept' \subseteq Kept /\ [StepOf(o)]_txVars
  BY <1>1, <1>3, KeptOtherwise DEF OpsInv, StepOf
<1>7. CASE calls[o] = 2
  <2>1. UNCHANGED operator
    BY <1>1, <1>7
  <2>2. saves[o] = <<disk>>
    BY <1>7, InTransaction
  <2>3. lock'[o] = lock[o]
    BY <1>1, <2>2 DEF Unwind, Commits
  <2>4. OperatorCalls(o)' /\ OperatorWork(o)'
    BY <1>1, <1>3, <1>5, <1>7, <2>1, <2>3 DEF OperatorCalls, OperatorWork
  <2>5. LocalType'
    BY <2>1 DEF OpsInv, LocalType
  <2> QED
    BY <1>3, <1>4, <1>6, <2>1, <2>4, <2>5, OperatorKeeps DEF OpsInv
<1>8. CASE calls[o] = 1
  <2>1. /\ LocalType' /\ operator'[o].pc = "idle"
        /\ \A p \in Operators \ {o} : operator'[p] = operator[p]
    BY <1>1, <1>8, OperatorExitsIs DEF OpsInv
  <2>2. OperatorCalls(o)' /\ OperatorWork(o)'
    BY <1>5, <1>8, <2>1 DEF OperatorCalls, OperatorWork
  <2> QED
    BY <1>3, <1>4, <1>6, <2>1, <2>2, OperatorKeeps DEF OpsInv
<1> QED
  BY <1>2, <1>7, <1>8

(* An operator that dies leaves the file as its last commit left it.       *)
LEMMA OperatorDiesKeeps ==
  ASSUME OpsInv, TxInv', UNCHANGED <<migrator, runtime>>, NEW o \in Operators, OperatorDies(o)
  PROVE  OpsInv'
<1>1. operator[o].pc # "idle" /\ Close(o) /\ OperatorExits(o)
  BY DEF OperatorDies
<1>2. /\ LocalType' /\ operator'[o].pc = "idle"
      /\ \A p \in Operators \ {o} : operator'[p] = operator[p]
  BY <1>1, OperatorExitsIs DEF OpsInv
<1>3. o \in Connections /\ AllApplied(disk)
  BY <1>1, InTransaction
<1>4. depth'[o] = 0 /\ calls'[o] = 0 /\ disk' = disk
  BY <1>1, <1>3 DEF Close, OpsInv, TxInv, TxType
<1>5. OperatorCalls(o)' /\ OperatorWork(o)'
  BY <1>2, <1>4 DEF OperatorCalls, OperatorWork
<1>6. Kept' \subseteq Kept /\ [StepOf(o)]_txVars
  BY <1>1, <1>3, KeptOtherwise DEF OpsInv, StepOf
<1> QED
  BY <1>2, <1>3, <1>4, <1>5, <1>6, OperatorKeeps DEF OpsInv

(* Every step of an operator keeps the invariant.                          *)
LEMMA OperatorStepKeeps ==
  ASSUME OpsInv, TxInv', OperatorStep
  PROVE  OpsInv'
<1>1. UNCHANGED <<migrator, runtime>>
  BY DEF OperatorStep
<1>2. PICK o \in Operators :
        (\E s \in Clients : RunCommand(o, s)) \/ CreateCase(o)
        \/ CaseStatementThrows(o) \/ OperatorDies(o)
  BY DEF OperatorStep
<1>3. CASE CreateCase(o)
  <2>1. CASE CommitCaseRefused(o)
    <3>1. operator[o].pc \notin {"idle", "begin"} /\ OperatorGoes(o, "unwind") /\ UNCHANGED txVars
      BY <2>1 DEF CommitCaseRefused, OperatorAt
    <3> QED
      BY <1>1, <3>1, GivingUpKeeps
  <2> QED
    BY <1>1, <1>3, <2>1, BeginCaseKeeps, BeginCaseRefusedKeeps, CheckIntakeKeeps, OpenSavepointKeeps,
       InsertCaseKeeps, AppendCaseAuditKeeps, ReleaseSavepointKeeps, AppendHitAuditKeeps,
       CommitCaseKeeps, UnwindCaseKeeps DEF CreateCase
<1>4. CASE CaseStatementThrows(o)
  BY <1>1, <1>4, GivingUpKeeps DEF CaseStatementThrows
<1> QED
  BY <1>1, <1>2, <1>3, <1>4, RunCommandKeeps, OperatorDiesKeeps

-----------------------------------------------------------------------------
(* The runtime *)

(* SameCases is reflexive and transitive.                                  *)
LEMMA SameCasesIs ==
  /\ \A a : SameCases(a, a)
  /\ \A a, b, c : SameCases(a, b) /\ SameCases(b, c) => SameCases(a, c)
BY DEF SameCases

(* The tables the runtime writes are not those of the cases.               *)
LEMMA RuntimeTables ==
  ASSUME NEW db, IsDatabase(db), NEW rows,
         NEW t \in {"consent_states", "intake_states", "intake_fields", "practices"}
  PROVE  IsDatabase(SetRows(db, t, rows)) /\ SameCases(SetRows(db, t, rows), db)
<1>1. t \in Tables /\ {"cases", "audit_events"} \subseteq Tables \ {t}
  BY DEF Tables, Rebuilt, LegacyOf, Leftovers
<1> QED
  BY <1>1, SetRowsIs DEF SameCases

(* A step of the runtime keeps the invariant if its own part is kept.      *)
LEMMA RuntimeKeeps ==
  ASSUME OpsInv, TxInv', AllApplied(disk), UNCHANGED <<migrator, operator>>,
         [StepOf(Runtime)]_txVars, \A db \in Kept' : IsDatabase(db),
         "pc" \in DOMAIN runtime', runtime'.pc \in RuntimeLabels,
         RuntimeWork', SameCases(disk', disk)
  PROVE  OpsInv' /\ SameCases(disk', disk)
<1>1. Runtime \in Connections /\ Runtime # Migrator /\ Runtime # Backup /\ Runtime \notin Operators
  BY ConnectionsAssumption
<1>2. \A o \in Operators : OperatorCalls(o)' /\ OperatorWork(o)'
  BY <1>1, OperatorWaits
<1>3. LocalType'
  BY DEF OpsInv, LocalType
<1>4. /\ disk'.applied = disk.applied /\ disk'.index = disk.index
      /\ Form(disk', "cases") = Form(disk, "cases")
      /\ OneDraftEach(disk') /\ Audited(disk')
  <2>1. "cases" \in Tables
    BY DEF Tables, Rebuilt, LegacyOf
  <2> QED
    BY <2>1, Migrated, DraftsIn, AuditIn DEF SameCases
<1> QED
  BY <1>1, <1>2, <1>3, <1>4, ServingKeeps

(* Whether its call of createPracticeFromCompletedIntake is under way.     *)
InPractice(label) == label \in {"check", "create", "commit", "unwind"}

(* A statement of the runtime outside the cases.                           *)
LEMMA RuntimeWrites ==
  ASSUME OpsInv, TxInv', AllApplied(disk), UNCHANGED <<migrator, operator>>,
         NEW content, Change(content), IsDatabase(content), SameCases(content, Database),
         "pc" \in DOMAIN runtime', runtime'.pc \in RuntimeLabels,
         InPractice(runtime'.pc) <=> InPractice(runtime.pc)
  PROVE  OpsInv' /\ SameCases(disk', disk)
<1>1. Runtime \in Connections /\ Write(Runtime, content)
  BY ConnectionsAssumption DEF Change
<1>2. [StepOf(Runtime)]_txVars /\ Kept' \subseteq Kept \cup {content}
  BY <1>1, KeptByWrite, WriteIsTx
<1>3. /\ pending' = content /\ UNCHANGED <<open, saves, calls>>
      /\ open[Runtime] = "none" => disk' = content /\ lock[Runtime] = "none" /\ lock' = lock
      /\ open[Runtime] # "none" => disk' = disk /\ lock'[Runtime] = "reserved"
  BY <1>1 DEF Write, OpsInv, TxInv, TxType, NoLockOutside
<1>4. SameCases(content, disk)
  <2>1. CASE lock[Runtime] = "reserved"
    <3>1. SameCases(pending, disk) /\ Database = pending
      BY <2>1 DEF OpsInv, RuntimeWork, Database, View
    <3> QED
      BY <3>1, SameCasesIs
  <2>2. CASE lock[Runtime] # "reserved"
    BY <2>2 DEF Database, View
  <2> QED
    BY <2>1, <2>2
<1>5. SameCases(disk', disk)
  BY <1>3, <1>4, SameCasesIs
<1>6. \A db \in Range(saves[Runtime]) : SameCases(db, disk)
  <2>1. Range(<<>>) = {}
    BY DEF Range
  <2> QED
    BY <2>1 DEF OpsInv, RuntimeWork
<1>7. lock'[Runtime] = "reserved" => disk' = disk
  BY <1>3
<1>8. RuntimeWork'
  <2>1. lock'[Runtime] = "reserved" =>
          \A db \in {pending'} \cup Range(saves'[Runtime]) : SameCases(db, disk')
    BY <1>3, <1>4, <1>6, <1>7
  <2>2. calls'[Runtime] = IF InPractice(runtime'.pc) THEN 1 ELSE 0
    BY <1>3 DEF OpsInv, RuntimeWork, InPractice
  <2>3. calls'[Runtime] = 0 =>
          saves'[Runtime] = <<>> /\ (open'[Runtime] # "none" => lock'[Runtime] = "reserved")
    BY <1>3 DEF OpsInv, RuntimeWork
  <2>4. saves'[Runtime] # <<>> => lock'[Runtime] = "reserved" /\ Len(saves'[Runtime]) = 1
    BY <1>3 DEF OpsInv, RuntimeWork
  <2> QED
    BY <2>1, <2>2, <2>3, <2>4 DEF RuntimeWork, InPractice
<1> QED
  BY <1>2, <1>5, <1>8, RuntimeKeeps DEF OpsInv

(* A query of the runtime, or none.                                        *)
LEMMA RuntimeReads ==
  ASSUME OpsInv, TxInv', AllApplied(disk), UNCHANGED <<migrator, operator>>,
         Read(Runtime) \/ UNCHANGED txVars,
         "pc" \in DOMAIN runtime', runtime'.pc \in RuntimeLabels,
         InPractice(runtime'.pc) <=> InPractice(runtime.pc)
  PROVE  OpsInv' /\ SameCases(disk', disk)
<1>1. Runtime \in Connections /\ [StepOf(Runtime)]_txVars
  BY ConnectionsAssumption DEF StepOf
<1>2. UNCHANGED <<disk, pending, open, saves, calls>>
  BY DEF Read, txVars
<1>3. Kept' = Kept /\ SameCases(disk', disk)
  BY <1>2, SameCasesIs DEF Kept
<1>4. lock'[Runtime] = "reserved" <=> lock[Runtime] = "reserved"
  BY <1>1 DEF Read, txVars, OpsInv, TxInv, TxType
<1>5. RuntimeWork'
  BY <1>2, <1>4 DEF OpsInv, RuntimeWork, InPractice
<1> QED
  BY <1>1, <1>3, <1>5, RuntimeKeeps DEF OpsInv

(* What the runtime looks at is a content.                                 *)
LEMMA DatabaseIs ==
  ASSUME OpsInv
  PROVE  IsDatabase(Database) /\ SameCases(Database, Database)
<1>1. Database \in Kept
  BY DEF Database, View, Kept
<1> QED
  BY <1>1, SameCasesIs DEF OpsInv

(* The label it goes to.                                                   *)
LEMMA RuntimeGoesIs ==
  ASSUME OpsInv, NEW label \in RuntimeLabels, Goto(label)
  PROVE  "pc" \in DOMAIN runtime' /\ runtime'.pc = label /\ runtime'.pc \in RuntimeLabels
BY DEF OpsInv, LocalType, Goto

(* Where a runtime that waits, and one that is down, is.                   *)
LEMMA ReadyIs ==
  /\ "pc" \in DOMAIN Ready /\ Ready.pc = "idle" /\ Ready.pc \in RuntimeLabels
  /\ "pc" \in DOMAIN Down /\ Down.pc = "down" /\ Down.pc \in RuntimeLabels
BY DEF Ready, Down, RuntimeLabels

(* The steps of a message that write.                                      *)
LEMMA MessageWriteKeeps ==
  ASSUME OpsInv, TxInv', UNCHANGED <<migrator, operator>>,
         SetConsentState \/ AppendConsentEvent \/ SetIntakeState \/ SetIntakeField
         \/ AppendIntakeEvent \/ InsertPractice
  PROVE  OpsInv' /\ SameCases(disk', disk)
<1> USE DEF At, InPractice, RuntimeLabels
<1>1. /\ AllApplied(disk) /\ IsDatabase(Database) /\ SameCases(Database, Database)
      /\ "pc" \in DOMAIN runtime
  BY DatabaseIs DEF OpsInv, MigratesAlone, LocalType, SetConsentState, AppendConsentEvent, SetIntakeState,
     SetIntakeField, AppendIntakeEvent, InsertPractice
<1>2. \A t \in {"consent_states", "intake_states", "intake_fields", "practices"} : \A rows :
        IsDatabase(SetRows(Database, t, rows)) /\ SameCases(SetRows(Database, t, rows), Database)
  BY <1>1, RuntimeTables
<1>3. CASE SetConsentState
  <2>1. runtime.pc = "consent"
    BY <1>3 DEF SetConsentState
  <2>2. \/ Read(Runtime)
        \/ \E rows : Change(SetRows(Database, "consent_states", rows))
    BY <1>3 DEF SetConsentState
  <2>3. /\ "pc" \in DOMAIN runtime' /\ runtime'.pc \in {"consentEvent", "intake", "idle"}
    <3>1. \/ runtime' = [runtime EXCEPT !.pc = "consentEvent", !.justGranted = NewConsent = "granted"]
          \/ Goto("intake") \/ runtime' = Ready
      BY <1>3 DEF SetConsentState
    <3>2. CASE runtime' = [runtime EXCEPT !.pc = "consentEvent", !.justGranted = NewConsent = "granted"]
      <4> DEFINE granted == NewConsent = "granted"
      <4>1. runtime' = [runtime EXCEPT !.pc = "consentEvent", !.justGranted = granted]
        BY <3>2
      <4> HIDE DEF granted
      <4> QED
        BY <1>1, <4>1
    <3> QED
      BY <3>1, <3>2, ReadyIs, RuntimeGoesIs
  <2> QED
    BY <1>1, <1>2, <2>1, <2>2, <2>3, RuntimeReads, RuntimeWrites
<1>4. CASE AppendConsentEvent
  <2>1. runtime.pc = "consentEvent" /\ Change(Database) /\ (Goto("intake") \/ runtime' = Ready)
    BY <1>4 DEF AppendConsentEvent
  <2>2. "pc" \in DOMAIN runtime' /\ runtime'.pc \in {"intake", "idle"}
    BY <2>1, ReadyIs, RuntimeGoesIs
  <2> QED
    BY <1>1, <2>1, <2>2, RuntimeWrites
<1>5. CASE SetIntakeState
  <2>1. /\ runtime.pc = "state" /\ Goto("event")
        /\ \E rows : Change(SetRows(Database, "intake_states", rows))
    BY <1>5 DEF SetIntakeState
  <2> QED
    BY <1>1, <1>2, <2>1, RuntimeGoesIs, RuntimeWrites
<1>6. CASE SetIntakeField
  <2>1. /\ runtime.pc = "field"
        /\ \E f : runtime' = [runtime EXCEPT !.pc = "event", !.left = @ \ {f}]
        /\ \E rows : Change(SetRows(Database, "intake_fields", rows))
    BY <1>6 DEF SetIntakeField
  <2>2. "pc" \in DOMAIN runtime' /\ runtime'.pc = "event"
    BY <1>1, <2>1
  <2> QED
    BY <1>1, <1>2, <2>1, <2>2, RuntimeWrites
<1>7. CASE AppendIntakeEvent
  <2>1. /\ runtime.pc = "event" /\ Change(Database)
        /\ \E label \in {"field", "begin"} : runtime' = Ready \/ Goto(label)
    BY <1>7 DEF AppendIntakeEvent, AfterWriting
  <2>2. "pc" \in DOMAIN runtime' /\ runtime'.pc \in {"idle", "field", "begin"}
    BY <2>1, ReadyIs, RuntimeGoesIs
  <2> QED
    BY <1>1, <2>1, <2>2, RuntimeWrites
<1>8. CASE InsertPractice
  <2>1. /\ runtime.pc = "create" /\ Goto("commit")
        /\ \E rows : Change(SetRows(Database, "practices", rows))
    BY <1>8 DEF InsertPractice
  <2> QED
    BY <1>1, <1>2, <2>1, RuntimeGoesIs, RuntimeWrites
<1> QED
  BY <1>3, <1>4, <1>5, <1>6, <1>7, <1>8

(* Those that do not.                                                      *)
LEMMA MessageReadKeeps ==
  ASSUME OpsInv, TxInv', UNCHANGED <<migrator, operator>>,
         StartRuntime \/ TakeMessage \/ ResolveIntake \/ CheckPractice \/ CommitPracticeRefused
         \/ RuntimeLocked \/ TableIsMissing \/ RuntimeStatementThrows
  PROVE  OpsInv' /\ SameCases(disk', disk)
<1> USE DEF At, InPractice, RuntimeLabels
<1>1. AllApplied(disk) /\ "pc" \in DOMAIN runtime
  BY DEF OpsInv, MigratesAlone, LocalType, StartRuntime, TakeMessage, ResolveIntake, CheckPractice,
     CommitPracticeRefused, RuntimeLocked, TableIsMissing, RuntimeStatementThrows
<1>2. CASE StartRuntime
  BY <1>1, <1>2, ReadyIs, RuntimeReads DEF StartRuntime
<1>3. CASE TakeMessage
  <2>1. /\ runtime.pc = "idle" /\ UNCHANGED txVars
        /\ \E s, content : runtime' = [Ready EXCEPT !.pc = "consent", !.client = s, !.content = {content}]
    BY <1>3 DEF TakeMessage
  <2>2. "pc" \in DOMAIN runtime' /\ runtime'.pc = "consent"
    BY <2>1, ReadyIs
  <2> QED
    BY <1>1, <2>1, <2>2, RuntimeReads
<1>4. CASE ResolveIntake
  <2>1. runtime.pc = "intake" /\ Read(Runtime)
    BY <1>4 DEF ResolveIntake
  <2>2. \/ runtime' = Ready
        \/ \E label \in {"state", "field", "begin", "idle"} : \E next, left :
             runtime' = [runtime EXCEPT !.pc = label, !.next = next, !.left = left,
                                        !.content = {}, !.justGranted = FALSE]
    <3> DEFINE file == FileIn(Database, Client)
               records == NextRecords(file, Content, runtime.justGranted, Message)
               leftOf(next) == {f \in FieldNames : next.fields[f] \notin {Absent, file.fields[f]}}
    <3>1. \/ runtime' = Ready
          \/ \E next \in records :
               runtime' = [runtime EXCEPT !.pc = IF next.state # file.state THEN "state"
                                                 ELSE AfterWriting(next, leftOf(next)),
                                          !.next = next, !.left = leftOf(next),
                                          !.content = {}, !.justGranted = FALSE]
      BY <1>4 DEF ResolveIntake
    <3> HIDE DEF records, file, leftOf
    <3> DEFINE labelOf(next) == IF next.state # file.state THEN "state"
                                ELSE AfterWriting(next, leftOf(next))
    <3>2. \/ runtime' = Ready
          \/ \E next \in records :
               runtime' = [runtime EXCEPT !.pc = labelOf(next), !.next = next, !.left = leftOf(next),
                                          !.content = {}, !.justGranted = FALSE]
      BY <3>1, Zenon
    <3>3. \A next : labelOf(next) \in {"state", "field", "begin", "idle"}
      BY DEF AfterWriting
    <3> HIDE DEF labelOf
    <3> QED
      BY <3>2, <3>3, Zenon
  <2>3. "pc" \in DOMAIN runtime' /\ runtime'.pc \in {"state", "field", "begin", "idle"}
    BY <1>1, <2>2, ReadyIs
  <2> QED
    BY <1>1, <2>1, <2>3, RuntimeReads
<1>5. CASE CheckPractice
  <2>1. runtime.pc = "check" /\ Read(Runtime) /\ (Goto("create") \/ Goto("unwind"))
    BY <1>5 DEF CheckPractice
  <2> QED
    BY <1>1, <2>1, RuntimeGoesIs, RuntimeReads
<1>6. CASE CommitPracticeRefused
  <2>1. runtime.pc = "commit" /\ Goto("unwind") /\ UNCHANGED txVars
    BY <1>6 DEF CommitPracticeRefused
  <2> QED
    BY <1>1, <2>1, RuntimeGoesIs, RuntimeReads
<1>7. CASE RuntimeLocked \/ TableIsMissing \/ RuntimeStatementThrows
  <2>1. /\ runtime.pc \in {"consent", "consentEvent", "intake", "state", "field", "event", "create"}
        /\ UNCHANGED txVars
        /\ IF runtime.pc = "create" THEN Goto("unwind") ELSE runtime' = Ready
    BY <1>7 DEF RuntimeLocked, TableIsMissing, RuntimeStatementThrows, Abandon
  <2>2. CASE runtime.pc = "create"
    BY <1>1, <2>1, <2>2, RuntimeGoesIs, RuntimeReads
  <2>3. CASE runtime.pc # "create"
    BY <1>1, <2>1, <2>3, ReadyIs, RuntimeReads
  <2> QED
    BY <2>2, <2>3
<1> QED
  BY <1>2, <1>3, <1>4, <1>5, <1>6, <1>7

(* The calls of createPracticeFromCompletedIntake: a first one begins a    *)
(* transaction of its own, a later one may find the counter raised.        *)
LEMMA BeginPracticeKeeps ==
  ASSUME OpsInv, TxInv', UNCHANGED <<migrator, operator>>, BeginPractice
  PROVE  OpsInv' /\ SameCases(disk', disk)
<1>1. runtime.pc = "begin" /\ Enter(Runtime) /\ Goto("check") /\ Runtime \in Connections
  BY ConnectionsAssumption DEF BeginPractice, At
<1>2. "pc" \in DOMAIN runtime' /\ runtime'.pc = "check" /\ runtime'.pc \in RuntimeLabels
  BY <1>1, RuntimeGoesIs DEF RuntimeLabels
<1>3. /\ AllApplied(disk) /\ calls[Runtime] = 0 /\ saves[Runtime] = <<>>
      /\ open[Runtime] # "none" => lock[Runtime] = "reserved"
  BY <1>1 DEF OpsInv, MigratesAlone, RuntimeWork
<1>4. UNCHANGED <<disk, pending>> /\ calls' = [calls EXCEPT ![Runtime] = @ + 1]
  BY <1>1 DEF Enter
<1>5. calls'[Runtime] = 1
  BY <1>1, <1>3, <1>4 DEF OpsInv, TxInv, TxType
<1>6. /\ saves'[Runtime] # <<>> => lock'[Runtime] = "reserved" /\ Len(saves'[Runtime]) = 1
      /\ lock'[Runtime] = "reserved" =>
           \A db \in {pending} \cup Range(saves'[Runtime]) : SameCases(db, disk)
  <2>0. Range(<<>>) = {} /\ TxType
    BY DEF Range, OpsInv, TxInv
  <2>1. CASE depth[Runtime] = 0
    <3>1. /\ Writable(Runtime) /\ open[Runtime] # "reading" /\ UNCHANGED saves
          /\ lock' = [lock EXCEPT ![Runtime] = "reserved"]
      BY <1>1, <2>1 DEF Enter
    <3>2. lock[Runtime] = "none"
      BY <1>1, <1>3, <2>1, <3>1 DEF OpsInv, TxInv, Balanced, NoLockOutside
    <3>3. pending = disk
      BY <3>1, <3>2 DEF OpsInv, TxInv, NothingPending, Writable, Others
    <3> QED
      BY <1>3, <2>0, <3>1, <3>3, SameCasesIs
  <2>2. CASE depth[Runtime] # 0 /\ open[Runtime] = "none"
    <3>1. UNCHANGED <<saves, lock>>
      BY <1>1, <2>2 DEF Enter
    <3>2. lock[Runtime] = "none"
      BY <1>1, <2>2 DEF OpsInv, TxInv, NoLockOutside
    <3> QED
      BY <1>3, <3>1, <3>2
  <2>3. CASE depth[Runtime] # 0 /\ open[Runtime] # "none"
    <3>1. saves' = [saves EXCEPT ![Runtime] = Append(@, View(Runtime))] /\ UNCHANGED lock
      BY <1>1, <2>3 DEF Enter
    <3>2. lock[Runtime] = "reserved" /\ View(Runtime) = pending
      BY <1>3, <2>3 DEF View
    <3>3. saves'[Runtime] = <<pending>>
      BY <1>1, <1>3, <2>0, <3>1, <3>2 DEF TxType
    <3>4. Range(<<pending>>) = {pending} /\ Len(<<pending>>) = 1
      BY DEF Range
    <3>5. SameCases(pending, disk)
      BY <3>2 DEF OpsInv, RuntimeWork
    <3> QED
      BY <3>1, <3>2, <3>3, <3>4, <3>5
  <2> QED
    BY <2>1, <2>2, <2>3
<1>7. RuntimeWork'
  BY <1>2, <1>4, <1>5, <1>6 DEF RuntimeWork
<1>8. Kept' \subseteq Kept /\ [StepOf(Runtime)]_txVars /\ SameCases(disk', disk)
  BY <1>1, <1>4, KeptOtherwise, SameCasesIs DEF OpsInv, StepOf
<1> QED
  BY <1>2, <1>3, <1>7, <1>8, RuntimeKeeps DEF OpsInv

(* The runtime finds the file locked and gives up its transaction.         *)
LEMMA BeginPracticeRefusedKeeps ==
  ASSUME OpsInv, TxInv', UNCHANGED <<migrator, operator>>, BeginPracticeRefused
  PROVE  OpsInv' /\ SameCases(disk', disk)
<1>1. /\ runtime.pc = "begin" /\ EnterFails(Runtime) /\ runtime' = Ready /\ Runtime \in Connections
  BY ConnectionsAssumption DEF BeginPracticeRefused, At
<1>2. UNCHANGED <<disk, pending, lock, open, saves, calls>>
  BY <1>1 DEF EnterFails, files
<1>3. RuntimeWork'
  BY <1>1, <1>2, ReadyIs DEF OpsInv, RuntimeWork
<1>4. Kept' \subseteq Kept /\ [StepOf(Runtime)]_txVars /\ SameCases(disk', disk)
  BY <1>1, <1>2, KeptOtherwise, SameCasesIs DEF OpsInv, StepOf
<1>5. AllApplied(disk)
  BY <1>1 DEF OpsInv, MigratesAlone
<1> QED
  BY <1>1, <1>3, <1>4, <1>5, ReadyIs, RuntimeKeeps DEF OpsInv

(* Where its call ends, a savepoint is gone.                               *)
LEMMA LastSave ==
  ASSUME OpsInv, saves[Runtime] # <<>>
  PROVE  /\ Pop(saves[Runtime]) = <<>>
         /\ saves[Runtime][Len(saves[Runtime])] \in Range(saves[Runtime])
         /\ lock[Runtime] = "reserved"
<1>1. Runtime \in Connections /\ (\E S : saves[Runtime] \in Seq(S))
  BY ConnectionsAssumption DEF OpsInv, TxInv, TxType
<1>2. Len(saves[Runtime]) = 1 /\ lock[Runtime] = "reserved"
  BY DEF OpsInv, RuntimeWork
<1> QED
  BY <1>1, <1>2, SavesRange

(* The runtime commits the practice of a completed intake.                 *)
LEMMA CommitPracticeKeeps ==
  ASSUME OpsInv, TxInv', UNCHANGED <<migrator, operator>>, CommitPractice
  PROVE  OpsInv' /\ SameCases(disk', disk)
<1>1. runtime.pc = "commit" /\ Leave(Runtime) /\ runtime' = Ready /\ Runtime \in Connections
  BY ConnectionsAssumption DEF CommitPractice, At
<1>2. AllApplied(disk) /\ calls[Runtime] = 1
  BY <1>1 DEF OpsInv, MigratesAlone, RuntimeWork
<1>3. calls' = [calls EXCEPT ![Runtime] = @ - 1] /\ UNCHANGED pending
  BY <1>1 DEF Leave, Done
<1>4. calls'[Runtime] = 0
  BY <1>1, <1>2, <1>3 DEF OpsInv, TxInv, TxType
<1>5. SameCases(disk', disk) /\ RuntimeWork'
  <2>0. Range(<<>>) = {} /\ TxType
    BY DEF Range, OpsInv, TxInv
  <2>1. CASE saves[Runtime] = <<>>
    <3>1. /\ disk' = View(Runtime) /\ UNCHANGED saves
          /\ lock' = [lock EXCEPT ![Runtime] = "none"] /\ open' = [open EXCEPT ![Runtime] = "none"]
      BY <1>1, <2>1 DEF Leave, Commits, Ended
    <3>2. SameCases(View(Runtime), disk)
      BY SameCasesIs DEF View, OpsInv, RuntimeWork
    <3>3. lock'[Runtime] = "none" /\ open'[Runtime] = "none" /\ saves'[Runtime] = <<>>
      BY <1>1, <2>0, <2>1, <3>1 DEF TxType
    <3> QED
      BY <1>1, <1>4, <3>1, <3>2, <3>3, ReadyIs DEF RuntimeWork
  <2>2. CASE saves[Runtime] # <<>>
    <3>1. saves' = [saves EXCEPT ![Runtime] = Pop(@)] /\ UNCHANGED <<disk, lock, open>>
      BY <1>1, <2>2 DEF Leave, Commits
    <3>2. saves'[Runtime] = <<>> /\ lock[Runtime] = "reserved"
      BY <1>1, <2>0, <2>2, <3>1, LastSave DEF TxType
    <3>3. SameCases(pending, disk)
      BY <3>2 DEF OpsInv, RuntimeWork
    <3> QED
      BY <1>1, <1>3, <1>4, <2>0, <3>1, <3>2, <3>3, ReadyIs, SameCasesIs DEF RuntimeWork
  <2> QED
    BY <2>1, <2>2
<1>6. Kept' \subseteq Kept /\ [StepOf(Runtime)]_txVars
  BY <1>1, KeptOtherwise DEF OpsInv, StepOf
<1> QED
  BY <1>1, <1>2, <1>5, <1>6, ReadyIs, RuntimeKeeps DEF OpsInv

(* The runtime rolls its transaction back.                                 *)
LEMMA UnwindPracticeKeeps ==
  ASSUME OpsInv, TxInv', UNCHANGED <<migrator, operator>>, UnwindPractice
  PROVE  OpsInv' /\ SameCases(disk', disk)
<1>1. runtime.pc = "unwind" /\ Unwind(Runtime) /\ runtime' = Ready /\ Runtime \in Connections
  BY ConnectionsAssumption DEF UnwindPractice, At
<1>2. AllApplied(disk) /\ calls[Runtime] = 1
  BY <1>1 DEF OpsInv, MigratesAlone, RuntimeWork
<1>3. calls' = [calls EXCEPT ![Runtime] = @ - 1] /\ UNCHANGED disk
  BY <1>1 DEF Unwind, Done
<1>4. calls'[Runtime] = 0
  BY <1>1, <1>2, <1>3 DEF OpsInv, TxInv, TxType
<1>5. RuntimeWork'
  <2>0. Range(<<>>) = {} /\ TxType
    BY DEF Range, OpsInv, TxInv
  <2>1. CASE saves[Runtime] = <<>>
    <3>1. UNCHANGED saves /\ pending' = WithoutPending(Runtime)
      BY <1>1, <2>1 DEF Unwind, Commits
    <3>2. \/ /\ lock' = [lock EXCEPT ![Runtime] = "none"] /\ open' = [open EXCEPT ![Runtime] = "none"]
          \/ UNCHANGED <<lock, open>> /\ lock[Runtime] = "reserved"
      BY <1>1, <2>1 DEF Unwind, Commits, Ended, CanLeave
    <3>3. CASE /\ lock' = [lock EXCEPT ![Runtime] = "none"]
               /\ open' = [open EXCEPT ![Runtime] = "none"]
      <4>1. lock'[Runtime] = "none" /\ open'[Runtime] = "none" /\ saves'[Runtime] = <<>>
        BY <1>1, <2>0, <2>1, <3>1, <3>3 DEF TxType
      <4> QED
        BY <1>1, <1>4, <4>1, ReadyIs DEF RuntimeWork
    <3>4. CASE UNCHANGED <<lock, open>> /\ lock[Runtime] = "reserved"
      <4>1. pending' = disk /\ saves'[Runtime] = <<>>
        BY <2>1, <3>1, <3>4 DEF WithoutPending
      <4> QED
        BY <1>1, <1>3, <1>4, <2>0, <3>4, <4>1, ReadyIs, SameCasesIs DEF RuntimeWork
    <3> QED
      BY <3>2, <3>3, <3>4
  <2>2. CASE saves[Runtime] # <<>>
    <3>1. /\ saves' = [saves EXCEPT ![Runtime] = Pop(@)] /\ UNCHANGED <<lock, open>>
          /\ lock[Runtime] = "reserved" => pending' = saves[Runtime][Len(saves[Runtime])]
      BY <1>1, <2>2 DEF Unwind, Commits
    <3>2. /\ saves'[Runtime] = <<>> /\ lock[Runtime] = "reserved"
          /\ pending' \in Range(saves[Runtime])
      BY <1>1, <2>0, <2>2, <3>1, LastSave DEF TxType
    <3>3. SameCases(pending', disk)
      BY <3>2 DEF OpsInv, RuntimeWork
    <3> QED
      BY <1>1, <1>3, <1>4, <2>0, <3>1, <3>2, <3>3, ReadyIs DEF RuntimeWork
  <2> QED
    BY <2>1, <2>2
<1>6. Kept' \subseteq Kept /\ [StepOf(Runtime)]_txVars /\ SameCases(disk', disk)
  BY <1>1, <1>3, KeptOtherwise, SameCasesIs DEF OpsInv, StepOf
<1> QED
  BY <1>1, <1>2, <1>5, <1>6, ReadyIs, RuntimeKeeps DEF OpsInv

(* A runtime that dies leaves the file as its last commit left it.         *)
LEMMA RuntimeDiesKeeps ==
  ASSUME OpsInv, TxInv', UNCHANGED <<migrator, operator>>, RuntimeDies
  PROVE  OpsInv' /\ SameCases(disk', disk)
<1>1. runtime.pc # "down" /\ Close(Runtime) /\ runtime' = Down /\ Runtime \in Connections
  BY ConnectionsAssumption DEF RuntimeDies, At
<1>2. /\ calls'[Runtime] = 0 /\ saves'[Runtime] = <<>> /\ open'[Runtime] = "none"
      /\ lock'[Runtime] = "none" /\ disk' = disk
  BY <1>1 DEF Close, OpsInv, TxInv, TxType
<1>3. RuntimeWork'
  BY <1>1, <1>2, ReadyIs DEF RuntimeWork
<1>4. Kept' \subseteq Kept /\ [StepOf(Runtime)]_txVars /\ SameCases(disk', disk)
  BY <1>1, <1>2, KeptOtherwise, SameCasesIs DEF OpsInv, StepOf
<1>5. AllApplied(disk)
  BY <1>1 DEF OpsInv, MigratesAlone
<1> QED
  BY <1>1, <1>3, <1>4, <1>5, ReadyIs, RuntimeKeeps DEF OpsInv

(* Every step of the runtime keeps the invariant and the committed cases.  *)
LEMMA RuntimeStepKeeps ==
  ASSUME OpsInv, TxInv', RuntimeStep
  PROVE  OpsInv' /\ SameCases(disk', disk)
<1>1. UNCHANGED <<migrator, operator>>
  BY DEF RuntimeStep
<1> QED
  BY <1>1, MessageWriteKeeps, MessageReadKeeps, BeginPracticeKeeps, BeginPracticeRefusedKeeps,
     CommitPracticeKeeps, UnwindPracticeKeeps, RuntimeDiesKeeps DEF RuntimeStep, Serve, ServeBadly

-----------------------------------------------------------------------------
(* The theorems *)

(* The invariant holds at the start.                                       *)
LEMMA InitOpsInv ==
  ASSUME Init
  PROVE  OpsInv
<1>1. /\ disk = start /\ pending = start /\ AtRest(start)
      /\ lock = [c \in Connections |-> "none"] /\ open = [c \in Connections |-> "none"]
      /\ saves = [c \in Connections |-> <<>>]
      /\ depth = [c \in Connections |-> 0] /\ calls = [c \in Connections |-> 0]
      /\ migrator = [stage |-> "idle", left |-> {}, tables |-> {}]
      /\ operator = [o \in Operators |-> Waiting] /\ runtime = Down
  BY StartAssumption DEF Init, InitTx, NotMigrating
<1>2. {Migrator, Runtime, Backup} \cup Operators \subseteq Connections
  BY ConnectionsAssumption
<1>3. LocalType
  <2>1. migrator \in [stage : Stages, left : SUBSET Migrations, tables : SUBSET Rebuilt]
    BY <1>1 DEF Stages
  <2>2. /\ Waiting = [pc |-> Waiting.pc, subject |-> Waiting.subject, summary |-> Waiting.summary]
        /\ Waiting.pc \in OperatorLabels
    BY DEF Waiting, OperatorLabels
  <2>3. operator = [o \in Operators |-> [pc |-> operator[o].pc, subject |-> operator[o].subject,
                                         summary |-> operator[o].summary]]
    BY <1>1, <2>2
  <2> QED
    BY <1>1, <2>1, <2>2, <2>3, ReadyIs DEF LocalType
<1>4. \A db \in Kept : IsDatabase(db)
  <2>1. Range(<<>>) = {} /\ IsDatabase(start)
    BY <1>1 DEF Range, AtRest
  <2> QED
    BY <1>1, <2>1 DEF Kept
<1>5. MigratesAlone
  BY <1>1, ReadyIs DEF MigratesAlone, Waiting
<1>6. MigratorWork
  BY <1>1, <1>2 DEF MigratorWork
<1>7. \A o \in Operators : OperatorCalls(o) /\ OperatorWork(o)
  BY <1>1, <1>2 DEF OperatorCalls, OperatorWork, Waiting
<1>8. RuntimeWork
  BY <1>1, <1>2, ReadyIs DEF RuntimeWork
<1>9. CommittedCases
  BY <1>1 DEF CommittedCases, AtRest
<1> QED
  BY <1>3, <1>4, <1>5, <1>6, <1>7, <1>8, <1>9, InitTxInv DEF OpsInv

(* Every step keeps the invariant.                                         *)
LEMMA OpsInvStep ==
  ASSUME OpsInv, [Next]_vars
  PROVE  OpsInv'
<1>1. TxInv'
  BY StepIsTx, TxInvStep DEF OpsInv
<1>2. CASE UNCHANGED vars
  <2> USE <1>2 DEF vars, txVars
  <2>1. LocalType' /\ MigratesAlone'
    BY DEF OpsInv, LocalType, MigratesAlone
  <2>2. \A db \in Kept' : IsDatabase(db)
    BY DEF OpsInv, Kept
  <2>3. MigratorWork' /\ CommittedCases'
    BY DEF OpsInv, MigratorWork, CommittedCases, Current
  <2>4. RuntimeWork'
    BY DEF OpsInv, RuntimeWork
  <2>5. ASSUME NEW o \in Operators
        PROVE  OperatorCalls(o)' /\ OperatorWork(o)'
    <3>1. OperatorCalls(o)'
      BY DEF OpsInv, OperatorCalls
    <3>2. OperatorWork(o)'
      BY DEF OpsInv, OperatorWork, Justified, WithCase, WithAudit, NewCase
    <3> QED
      BY <3>1, <3>2
  <2> QED
    BY <1>1, <2>1, <2>2, <2>3, <2>4, <2>5 DEF OpsInv
<1>3. CASE Next
  BY <1>1, <1>3, MigratorStepKeeps, OperatorStepKeeps, RuntimeStepKeeps, BackupStepKeeps DEF Next
<1> QED
  BY <1>2, <1>3

(* The inductive invariant of the processes that share the file.           *)
THEOREM OperationsInvariant == Spec => []OpsInv
<1> QED
  BY InitOpsInv, OpsInvStep, PTL DEF Spec

(* Every variable keeps its type, and every content the file may have is   *)
(* a database: all tables are known and every recorded migration exists.   *)
THEOREM OperationsTypes == Spec => []TypeOK
<1>1. OpsInv => TypeOK
  <2> SUFFICES ASSUME OpsInv PROVE TypeOK
    OBVIOUS
  <2>1. IsDatabase(disk) /\ IsDatabase(pending)
    BY DEF OpsInv, Kept
  <2>2. migrator.stage \in Stages
    BY DEF OpsInv, LocalType
  <2> QED
    BY <2>1, <2>2 DEF OpsInv, LocalType, TxInv, TxType, TypeOK, IsDatabase
<1> QED
  BY <1>1, OperationsInvariant, PTL

(* A case and its audit event are committed together or not at all.        *)
THEOREM CasesAudited == Spec => []CaseHasItsAudit
<1>1. OpsInv => CaseHasItsAudit
  <2> SUFFICES ASSUME OpsInv PROVE Audited(disk)
    BY DEF CaseHasItsAudit
  <2>1. CASE AllApplied(disk)
    BY <2>1 DEF OpsInv, CommittedCases
  <2>2. CASE ~AllApplied(disk)
    <3>1. Numbered(disk)
      BY <2>2 DEF OpsInv, CommittedCases
    <3> QED
      BY <3>1, StartAssumption DEF Numbered, Audited
  <2> QED
    BY <2>1, <2>2
<1> QED
  BY <1>1, OperationsInvariant, PTL

(* Once every migration is recorded the case doctor finds nothing: a       *)
(* client never has two drafts, whichever commands run side by side.       *)
THEOREM MigratedHealthy == Spec => []MigratedIsHealthy
<1>1. OpsInv => MigratedIsHealthy
  BY Migrated DEF MigratedIsHealthy, DoctorHealthy
<1> QED
  BY <1>1, OperationsInvariant, PTL

(* A statement of the migrator changes tables or the record of migrations, *)
(* never both.                                                             *)
LEMMA MigratorApplies ==
  ASSUME OpsInv, MigratorStep
  PROVE  disk'.applied = disk.applied \/ \A t : Rows(disk', t) = Rows(disk, t)
<1>1. CASE StartMigrating \/ StartMigration \/ MigratorDies
  BY <1>1 DEF StartMigrating, StartMigration, MigratorDies, txVars
<1>2. CASE RenameAway
  <2>1. disk' = Rename(disk, Rebuilding, LegacyOf[Rebuilding])
    BY <1>2, MigratorWrites DEF RenameAway
  <2> QED
    <3>1. /\ IsDatabase(disk) /\ Rebuilding \in Tables /\ LegacyOf[Rebuilding] \in Tables
          /\ Rebuilding # LegacyOf[Rebuilding]
      BY <1>2, RebuildOf DEF RenameAway
    <3>2. disk'.applied = disk.applied
      BY <2>1, <3>1, RenameIs
    <3> QED
      BY <3>2
<1>3. CASE CreateNew
  <2>1. disk' = SetTable(disk, NewOf[Rebuilding], [form |-> "new", rows |-> <<>>])
    BY <1>3, MigratorWrites DEF CreateNew, Empty
  <2> QED
    BY <1>3, <2>1, RebuildOf, SetTableIs DEF CreateNew
<1>4. CASE CopyRows
  <2>1. \E rows : disk' = SetRows(disk, NewOf[Rebuilding], rows)
    BY <1>4, MigratorWrites DEF CopyRows
  <2> QED
    BY <1>4, <2>1, RebuildOf, SetRowsIs DEF CopyRows
<1>5. CASE DropLegacy
  <2>1. disk' = SetTable(disk, LegacyOf[Rebuilding], [form |-> "missing", rows |-> <<>>])
    BY <1>5, MigratorWrites DEF DropLegacy, Missing
  <2> QED
    BY <1>5, <2>1, RebuildOf, SetTableIs DEF DropLegacy
<1>6. CASE RenameBack
  <2>1. disk' = Rename(disk, NewOf[Rebuilding], Rebuilding)
    BY <1>6, MigratorWrites DEF RenameBack
  <2> QED
    <3>1. /\ IsDatabase(disk) /\ Rebuilding \in Tables /\ NewOf[Rebuilding] \in Tables
          /\ NewOf[Rebuilding] # Rebuilding
      BY <1>6, RebuildOf DEF RenameBack
    <3>2. disk'.applied = disk.applied
      BY <2>1, <3>1, RenameIs
    <3> QED
      BY <3>2
<1>7. CASE FinishMigration
  <2>1. disk' = Finished(Current, disk) /\ migrator.stage # "idle"
    BY <1>7, MigratorWrites DEF FinishMigration
  <2> QED
    BY <2>1, MigratingIs, FinishedIs DEF OpsInv, CommittedCases
<1>8. CASE RecordMigration
  <2>1. disk' = [disk EXCEPT !.applied = @ \cup {Current}] /\ IsDatabase(disk)
    BY <1>8, MigratorWrites, MigratingIs DEF RecordMigration
  <2> QED
    BY <2>1 DEF IsDatabase, Rows
<1> QED
  BY <1>1, <1>2, <1>3, <1>4, <1>5, <1>6, <1>7, <1>8 DEF MigratorStep, Migrate

(* Of the statements of a command only its COMMIT changes what is          *)
(* committed.                                                              *)
LEMMA OperatorCommits ==
  ASSUME OpsInv, OperatorStep
  PROVE  disk' = disk \/ \E o \in Operators : CommitCase(o)
<1>1. PICK o \in Operators :
        (\E s \in Clients : RunCommand(o, s)) \/ CreateCase(o)
        \/ CaseStatementThrows(o) \/ OperatorDies(o)
  BY DEF OperatorStep
<1>2. CASE (\E s \in Clients : RunCommand(o, s)) \/ CaseStatementThrows(o) \/ OperatorDies(o)
  BY <1>2 DEF RunCommand, CaseStatementThrows, OperatorDies, Close, txVars
<1>3. CASE BeginCase(o) \/ BeginCaseRefused(o) \/ CheckIntake(o) \/ OpenSavepoint(o)
           \/ CommitCaseRefused(o) \/ UnwindCase(o)
  BY <1>3 DEF BeginCase, BeginCaseRefused, CheckIntake, OpenSavepoint, CommitCaseRefused, UnwindCase,
              Enter, Read, Unwind, txVars
<1>4. CASE InsertCase(o) \/ AppendCaseAudit(o) \/ AppendHitAudit(o)
  <2>1. UNCHANGED txVars \/ \E content : Write(o, content)
    BY <1>4 DEF InsertCase, AppendCaseAudit, AppendHitAudit, AppendAudit
  <2>2. calls[o] > 0
    BY <1>4 DEF InsertCase, AppendCaseAudit, AppendHitAudit, OperatorAt, OpsInv, OperatorCalls
  <2>3. open[o] # "none"
    BY <2>2, InTransaction
  <2> QED
    BY <2>1, <2>3 DEF Write, txVars
<1>5. CASE ReleaseSavepoint(o)
  <2>1. calls[o] = 2
    BY <1>5 DEF ReleaseSavepoint, OperatorAt, OpsInv, OperatorCalls
  <2>2. saves[o] # <<>>
    BY <2>1, InTransaction
  <2> QED
    BY <1>5, <2>2 DEF ReleaseSavepoint, Leave, Commits
<1> QED
  BY <1>1, <1>2, <1>3, <1>4, <1>5 DEF CreateCase

(* A case is created from what is committed at the same moment, for        *)
(* whichever client, however many commands run for him at once.            *)
THEOREM CasesMatchIntake == Spec => CasesMatchCommittedIntake
<1> DEFINE Created(s) ==
             s \in Keys(disk', "cases") \ Keys(disk, "cases") =>
               /\ ConsentOf(disk, s) = "granted"
               /\ StateOf(disk, s) = "intake_complete"
               /\ Rows(disk', "cases")[s].summary = FieldsOf(disk, s)["problemSummary"]
               /\ DraftsOf(disk, s) = {}
<1>1. ASSUME OpsInv, [Next]_vars, NEW s \in Clients
      PROVE  Created(s)
  <2>0. \A db, t : Keys(db, t) = DOMAIN Rows(db, t)
    BY DEF Keys, Rows
  <2>1. Rows(disk', "cases") = Rows(disk, "cases") => Created(s)
    BY <2>0
  <2>2. CASE MigratorStep
    <3>1. OpsInv' /\ (disk'.applied = disk.applied \/ Rows(disk', "cases") = Rows(disk, "cases"))
      BY <1>1, <2>2, OpsInvStep, MigratorApplies
    <3>2. CASE AllApplied(disk')
      <4>1. CASE AllApplied(disk)
        <5>1. migrator.stage = "idle"
          BY <1>1, <4>1, MigratingIs
        <5> QED
          BY <2>2, <4>1, <5>1 DEF MigratorStep, Migrate, StartMigrating, StartMigration, RenameAway,
             CreateNew, CopyRows, DropLegacy, RenameBack, FinishMigration, RecordMigration, MigratorDies
      <4>2. CASE ~AllApplied(disk)
        BY <2>1, <3>1, <3>2, <4>2 DEF AllApplied, Pending
      <4> QED
        BY <4>1, <4>2
    <3>3. CASE ~AllApplied(disk')
      <4>1. Numbered(disk')
        BY <3>1, <3>3 DEF OpsInv, CommittedCases
      <4>2. s \notin Keys(disk', "cases")
        BY <4>1, StartAssumption DEF Numbered
      <4> QED
        BY <4>2
    <3> QED
      BY <3>2, <3>3
  <2>3. CASE OperatorStep
    <3>1. CASE disk' = disk
      BY <2>1, <3>1
    <3>2. CASE \E o \in Operators : CommitCase(o)
      <4>1. PICK o \in Operators : CommitCase(o)
        BY <3>2
      <4>2. AllApplied(disk) /\ operator[o].subject \in Clients /\ IsDatabase(disk)
              /\ OneDraftEach(disk) /\ Audited(disk)
        BY <1>1, <4>1, CommitWrites, Migrated
      <4>3. CASE \E id \in DraftsOf(disk, operator[o].subject) :
                   disk' = WithAudit(disk, "case_create_from_intake_idempotent_hit", id)
        BY <2>1, <4>2, <4>3, HitCommitted
      <4>4. CASE Justified(o) /\ disk' = WithAudit(WithCase(disk, o), "case_created_from_intake",
                                                   operator[o].subject)
        <5>1. Rows(disk', "cases") = Put(Rows(disk, "cases"), operator[o].subject, NewCase(o))
          BY <4>2, <4>4, CaseCommitted DEF Justified
        <5>2. s \in Keys(disk', "cases") \ Keys(disk, "cases") =>
                s = operator[o].subject /\ Rows(disk', "cases")[s] = NewCase(o)
          BY <2>0, <5>1 DEF Put
        <5>3. NewCase(o).summary = operator[o].summary
          BY DEF NewCase
        <5> QED
          BY <4>4, <5>2, <5>3 DEF Justified, CanCreateCase
      <4> QED
        BY <1>1, <4>1, <4>3, <4>4, CommitWrites
    <3> QED
      BY <1>1, <2>3, <3>1, <3>2, OperatorCommits
  <2>4. CASE RuntimeStep
    <3>1. SameCases(disk', disk)
      BY <1>1, <2>4, RuntimeStepKeeps, StepIsTx, TxInvStep DEF OpsInv
    <3> QED
      BY <2>1, <3>1 DEF SameCases
  <2>5. CASE BackupStep \/ UNCHANGED vars
    <3>1. disk' = disk
      BY <2>5 DEF BackupStep, StartBackup, EndBackup, BeginRead, Close, vars, txVars
    <3> QED
      BY <2>1, <3>1
  <2> QED
    BY <1>1, <2>2, <2>3, <2>4, <2>5 DEF Next
<1>2. OpsInv /\ [Next]_vars => [\A s \in Clients : Created(s)]_vars
  BY <1>1
<1> QED
  BY <1>2, OperationsInvariant, PTL DEF Spec, CasesMatchCommittedIntake
=============================================================================
