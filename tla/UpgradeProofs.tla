---------------------------- MODULE UpgradeProofs ----------------------------
(***************************************************************************)
(* No row of the database that is upgraded is destroyed, for every         *)
(* database to start from, however often the migrations are interrupted    *)
(* and whatever is done with the file afterwards; and an upgrade that      *)
(* leaves no table aside comes to what it says of itself: the forms of the *)
(* tables, their rows as they were and the drafts it archives.             *)
(***************************************************************************)
EXTENDS OperationsProofs

-----------------------------------------------------------------------------
(* The inductive invariant *)

(* Where the rows of a table may be.                                       *)
Homes(t) == {t, NewOf[t], LegacyOf[t]}

(* The table u has the rows t had at the start: as they were, or copied.   *)
Holds(db, u, t) ==
  Rows(db, u) = Rows(start, t) \/ DOMAIN Copied(t, Rows(start, t)) \subseteq Keys(db, u)

(* Where the next statement of a rebuild expects them.                     *)
Holders(t) ==
  IF migrator.stage \in {"create", "copy", "drop", "restore"} /\ t = Rebuilding
  THEN CASE migrator.stage = "create" -> {NewOf[t], LegacyOf[t]}
         [] migrator.stage = "copy" -> {LegacyOf[t]}
         [] OTHER -> {NewOf[t]}
  ELSE Homes(t)

MissingIsEmpty(db) == \A t \in Tables : ~Exists(db, t) => Rows(db, t) = <<>>

(* While migrations are pending.                                           *)
Unharmed ==
  /\ saves = [c \in Connections |-> <<>>]
  /\ MissingIsEmpty(disk)
  /\ \A t \in Rebuilt : \E u \in Holders(t) : Holds(disk, u, t)
  /\ migrator.stage = "copy" => Exists(disk, NewOf[Rebuilding])

(* Once none is.                                                           *)
Preserves(db) ==
  \A t \in Rebuilt : \E u \in Homes(t) :
    Keys(start, t) \subseteq Keys(db, u) \/ DOMAIN Copied(t, Rows(start, t)) \subseteq Keys(db, u)

UpgradeInv ==
  IF AllApplied(disk) THEN \A db \in Kept : AllApplied(db) /\ Preserves(db) ELSE Unharmed

-----------------------------------------------------------------------------
(* Copied rows *)

(* Of every table but that of the fields a copy has the keys of the rows.  *)
LEMMA CopiedKeys ==
  ASSUME NEW t \in Rebuilt \ {"intake_fields"}, NEW rows
  PROVE  DOMAIN Copied(t, rows) = DOMAIN rows
BY DEF Copied

(* The keys of copied fields are those of fields the program has.          *)
LEMMA CopiedFieldKeys ==
  ASSUME NEW rows
  PROVE  \A k : k \in DOMAIN Copied("intake_fields", rows) <=>
           \E old \in DOMAIN rows : \E f \in CopiedFields(old[2], rows[old]) : k = <<old[1], f>>
<1> DEFINE keys == UNION {{<<old[1], f>> : f \in CopiedFields(old[2], rows[old])} : old \in DOMAIN rows}
<1>1. DOMAIN Copied("intake_fields", rows) = keys
  BY DEF Copied
<1> QED
  BY <1>1

(* Rows that were copied survive another copy, and so do rows added next   *)
(* to them.                                                                *)
LEMMA CopiedTwice ==
  ASSUME NEW t \in Rebuilt, NEW old, NEW rows, DOMAIN Copied(t, old) \subseteq DOMAIN rows
  PROVE  DOMAIN Copied(t, old) \subseteq DOMAIN Copied(t, rows)
<1>1. CASE t # "intake_fields"
  BY <1>1, CopiedKeys
<1>2. CASE t = "intake_fields"
  <2> SUFFICES ASSUME NEW k \in DOMAIN Copied("intake_fields", old)
               PROVE  k \in DOMAIN Copied("intake_fields", rows)
    BY <1>2
  <2>1. PICK row \in DOMAIN old : \E f \in CopiedFields(row[2], old[row]) : k = <<row[1], f>>
    BY CopiedFieldKeys
  <2>2. PICK f \in CopiedFields(row[2], old[row]) : k = <<row[1], f>>
    BY <2>1
  <2>3. f \in FieldNames
    BY <2>2 DEF CopiedFields, FieldNames, IdentityFields
  <2>4. k[1] = row[1] /\ k[2] = f /\ k = <<k[1], k[2]>>
    BY <2>2
  <2>5. k[2] \in CopiedFields(k[2], rows[k])
    BY <2>3, <2>4 DEF CopiedFields
  <2>6. k \in DOMAIN rows
    BY <1>2
  <2> QED
    BY <2>4, <2>5, <2>6, CopiedFieldKeys
<1> QED
  BY <1>1, <1>2

(* Nothing is copied from nothing.                                         *)
LEMMA CopiedNothing ==
  ASSUME NEW t \in Rebuilt
  PROVE  DOMAIN Copied(t, <<>>) = {}
<1>1. CASE t = "intake_fields"
  BY <1>1, MissingKeys, CopiedFieldKeys
<1>2. CASE t # "intake_fields"
  BY <1>2, MissingKeys, CopiedKeys
<1> QED
  BY <1>1, <1>2

-----------------------------------------------------------------------------
(* Holders *)

(* The homes of a table are not those of another one.                      *)
LEMMA HomesApart ==
  /\ \A t \in Rebuilt : Homes(t) \subseteq Tables
  /\ \A t, v \in Rebuilt : t # v => Homes(t) \cap Homes(v) = {}
<1>1. ASSUME NEW t \in Rebuilt
      PROVE  Homes(t) \subseteq Tables
  BY LeftoverNames DEF Homes
<1>2. ASSUME NEW t \in Rebuilt, NEW v \in Rebuilt, t # v
      PROVE  Homes(t) \cap Homes(v) = {}
  <2>1. /\ LegacyOf[t] \notin {v, LegacyOf[v], NewOf[v]} /\ NewOf[t] \notin {v, NewOf[v]}
        /\ t \notin {LegacyOf[v], NewOf[v]}
    BY <1>2, LeftoverNames
  <2>2. LegacyOf[v] # NewOf[t]
    BY <1>2, LeftoverNames
  <2> QED
    BY <1>2, <2>1, <2>2 DEF Homes
<1> QED
  BY <1>1, <1>2

(* Whether a table holds the rows depends on its rows only.                *)
LEMMA HoldsLike ==
  ASSUME NEW a, NEW u, NEW b, NEW v, NEW t, Rows(a, u) = Rows(b, v), Holds(a, u, t)
  PROVE  Holds(b, v, t)
BY DEF Holds, Keys, Rows

(* When a table without rows holds them, any table does.                   *)
LEMMA NothingToHold ==
  ASSUME NEW a, NEW u, NEW t \in Rebuilt, Holds(a, u, t), Rows(a, u) = <<>>, NEW b, NEW v
  PROVE  Holds(b, v, t)
<1>1. Keys(a, u) = {}
  BY MissingKeys DEF Keys, Rows
<1>2. DOMAIN Copied(t, Rows(start, t)) = {}
  BY <1>1, CopiedNothing DEF Holds
<1> QED
  BY <1>2 DEF Holds

(* A copy of the rows a table holds, holds them.                           *)
LEMMA CopyHolds ==
  ASSUME NEW a, NEW u, NEW t \in Rebuilt, Holds(a, u, t), NEW b, NEW v,
         Rows(b, v) = Copied(t, Rows(a, u))
  PROVE  Holds(b, v, t)
<1>1. DOMAIN Copied(t, Rows(start, t)) \subseteq DOMAIN Copied(t, Rows(a, u))
  <2>1. CASE Rows(a, u) = Rows(start, t)
    BY <2>1
  <2>2. CASE DOMAIN Copied(t, Rows(start, t)) \subseteq Keys(a, u)
    <3>1. DOMAIN Copied(t, Rows(start, t)) \subseteq DOMAIN Rows(a, u)
      BY <2>2 DEF Keys, Rows
    <3> QED
      BY <3>1, CopiedTwice
  <2> QED
    BY <2>1, <2>2 DEF Holds
<1>2. Keys(b, v) = DOMAIN Copied(t, Rows(a, u))
  BY DEF Keys, Rows
<1> QED
  BY <1>1, <1>2 DEF Holds

-----------------------------------------------------------------------------
(* The migrator *)

(* A statement of a rebuild loses nothing if the tables of the rebuild end *)
(* where the next statement expects them.                                  *)
LEMMA RebuildUnharmed ==
  ASSUME Unharmed, UNCHANGED <<saves, start>>, NEW t \in Rebuilt, t = Rebuilding,
         \A u \in Tables \ Homes(t) : Form(disk', u) = Form(disk, u) /\ Rows(disk', u) = Rows(disk, u),
         \A u \in Homes(t) : Form(disk', u) = "missing" => Rows(disk', u) = <<>>,
         migrator'.stage \in {"create", "copy", "drop", "restore"} => Rebuilding' = t,
         NEW home \in Holders(t)', Holds(disk', home, t),
         migrator'.stage = "copy" => Exists(disk', NewOf[t])
  PROVE  Unharmed'
<1>1. MissingIsEmpty(disk)'
  BY DEF Unharmed, MissingIsEmpty, Exists, Form
<1>2. Holds(disk, home, t)'
  BY DEF Holds
<1>3. ASSUME NEW v \in Rebuilt, v # t
      PROVE  \E u \in Holders(v)' : Holds(disk, u, v)'
  <2>1. PICK u \in Homes(v) : Holds(disk, u, v)
    BY <1>3 DEF Unharmed, Holders
  <2>2. u \in Tables \ Homes(t)
    BY <1>3, HomesApart
  <2>3. Holds(disk', u, v)
    BY <2>1, <2>2, HoldsLike
  <2>4. Holds(disk, u, v)'
    BY <2>3 DEF Holds
  <2>5. Holders(v)' = Homes(v)
    BY <1>3 DEF Holders, Homes
  <2> QED
    BY <2>4, <2>5
<1>4. migrator'.stage = "copy" => Exists(disk', NewOf[Rebuilding'])
  OBVIOUS
<1> QED
  BY <1>1, <1>2, <1>3, <1>4 DEF Unharmed

(* What every statement of a rebuild starts from.                          *)
LEMMA RebuildFrom ==
  ASSUME OpsInv, Unharmed, migrator.stage \in {"rename", "create", "copy", "drop", "restore"}
  PROVE  /\ Rebuilding \in Rebuilt /\ Homes(Rebuilding) \subseteq Tables /\ IsDatabase(disk)
         /\ Rebuilding # LegacyOf[Rebuilding] /\ Rebuilding # NewOf[Rebuilding]
         /\ LegacyOf[Rebuilding] # NewOf[Rebuilding]
         /\ \A u \in Tables : Form(disk, u) = "missing" => Rows(disk, u) = <<>>
         /\ \E u \in Holders(Rebuilding) : Holds(disk, u, Rebuilding)
         /\ \A s : Stage(s) => migrator'.stage = s /\ Rebuilding' = Rebuilding
<1>1. /\ Rebuilding \in Rebuilt /\ IsDatabase(disk)
      /\ Rebuilding # LegacyOf[Rebuilding] /\ Rebuilding # NewOf[Rebuilding]
      /\ LegacyOf[Rebuilding] # NewOf[Rebuilding]
  BY RebuildOf
<1>2. \A u \in Tables : Form(disk, u) = "missing" => Rows(disk, u) = <<>>
  BY DEF Unharmed, MissingIsEmpty, Exists, Form
<1>3. \A s : Stage(s) => migrator'.stage = s /\ migrator'.tables = migrator.tables
  BY DEF Stage, OpsInv, LocalType
<1>4. \A s : Stage(s) => migrator'.stage = s /\ Rebuilding' = Rebuilding
  BY <1>3 DEF Rebuilding
<1> HIDE DEF Rebuilding
<1> QED
  BY <1>1, <1>2, <1>4, HomesApart DEF Unharmed

(* The old table is set aside with its rows.                               *)
LEMMA RenameAwayUnharmed ==
  ASSUME OpsInv, Unharmed, RenameAway, UNCHANGED start
  PROVE  Unharmed'
<1>1. PICK t : t = Rebuilding
  OBVIOUS
<1>2. /\ migrator.stage = "rename" /\ Stage("create")
      /\ Execute(Rename(disk, t, LegacyOf[t])) /\ ~Exists(disk, LegacyOf[t])
  BY <1>1 DEF RenameAway
<1>3. /\ t \in Rebuilt /\ Homes(t) \subseteq Tables /\ IsDatabase(disk)
      /\ t # LegacyOf[t] /\ t # NewOf[t] /\ LegacyOf[t] # NewOf[t]
      /\ \A u \in Tables : Form(disk, u) = "missing" => Rows(disk, u) = <<>>
      /\ \E u \in Holders(t) : Holds(disk, u, t)
      /\ migrator'.stage = "create" /\ Rebuilding' = t
  BY <1>1, <1>2, RebuildFrom
<1>4. disk' = Rename(disk, t, LegacyOf[t]) /\ UNCHANGED saves
  BY <1>2, MigratorWrites
<1>5. t \in Tables /\ LegacyOf[t] \in Tables /\ NewOf[t] \in Tables
  BY <1>3 DEF Homes
<1>6. /\ Form(disk', LegacyOf[t]) = Form(disk, t) /\ Rows(disk', LegacyOf[t]) = Rows(disk, t)
      /\ Form(disk', t) = "missing" /\ Rows(disk', t) = <<>>
      /\ \A u \in Tables \ {t, LegacyOf[t]} : Form(disk', u) = Form(disk, u) /\ Rows(disk', u) = Rows(disk, u)
  BY <1>3, <1>4, <1>5, RenameIs
<1>7. /\ \A u \in Tables \ Homes(t) : Form(disk', u) = Form(disk, u) /\ Rows(disk', u) = Rows(disk, u)
      /\ \A u \in Homes(t) : Form(disk', u) = "missing" => Rows(disk', u) = <<>>
  BY <1>3, <1>5, <1>6 DEF Homes
<1>8. \E u \in {NewOf[t], LegacyOf[t]} : Holds(disk', u, t)
  <2>1. PICK u \in Homes(t) : Holds(disk, u, t)
    BY <1>2, <1>3 DEF Holders
  <2>2. CASE u = t
    BY <1>6, <2>1, <2>2, HoldsLike
  <2>3. CASE u = NewOf[t]
    BY <1>3, <1>5, <1>6, <2>1, <2>3, HoldsLike
  <2>4. CASE u = LegacyOf[t]
    <3>1. Rows(disk, u) = <<>>
      BY <1>2, <1>3, <1>5, <2>4 DEF Exists, Form
    <3> QED
      BY <1>3, <2>1, <3>1, NothingToHold
  <2> QED
    BY <2>1, <2>2, <2>3, <2>4 DEF Homes
<1>9. PICK home \in Holders(t)' : Holds(disk', home, t)
  BY <1>3, <1>8 DEF Holders
<1> QED
  BY <1>1, <1>3, <1>7, <1>9, <1>4, RebuildUnharmed

(* The new table is created next to it.                                    *)
LEMMA CreateNewUnharmed ==
  ASSUME OpsInv, Unharmed, CreateNew, UNCHANGED start
  PROVE  Unharmed'
<1>1. PICK t : t = Rebuilding
  OBVIOUS
<1>2. /\ migrator.stage = "create" /\ Stage("copy")
      /\ Execute(SetTable(disk, NewOf[t], [form |-> "new", rows |-> <<>>])) /\ ~Exists(disk, NewOf[t])
  BY <1>1 DEF CreateNew, Empty
<1>3. /\ t \in Rebuilt /\ Homes(t) \subseteq Tables /\ IsDatabase(disk)
      /\ t # LegacyOf[t] /\ t # NewOf[t] /\ LegacyOf[t] # NewOf[t]
      /\ \A u \in Tables : Form(disk, u) = "missing" => Rows(disk, u) = <<>>
      /\ \E u \in Holders(t) : Holds(disk, u, t)
      /\ migrator'.stage = "copy" /\ Rebuilding' = t
  BY <1>1, <1>2, RebuildFrom
<1>4. disk' = SetTable(disk, NewOf[t], [form |-> "new", rows |-> <<>>]) /\ UNCHANGED saves
  BY <1>2, MigratorWrites
<1>5. t \in Tables /\ LegacyOf[t] \in Tables /\ NewOf[t] \in Tables
  BY <1>3 DEF Homes
<1>6. /\ Form(disk', NewOf[t]) = "new"
      /\ \A u \in Tables \ {NewOf[t]} : Form(disk', u) = Form(disk, u) /\ Rows(disk', u) = Rows(disk, u)
  BY <1>3, <1>4, <1>5, SetTableIs
<1>7. /\ \A u \in Tables \ Homes(t) : Form(disk', u) = Form(disk, u) /\ Rows(disk', u) = Rows(disk, u)
      /\ \A u \in Homes(t) : Form(disk', u) = "missing" => Rows(disk', u) = <<>>
      /\ Exists(disk', NewOf[t])
  BY <1>3, <1>5, <1>6 DEF Homes, Exists, Form
<1>8. Holds(disk', LegacyOf[t], t)
  <2>1. PICK u \in {NewOf[t], LegacyOf[t]} : Holds(disk, u, t)
    BY <1>1, <1>2, <1>3 DEF Holders
  <2>2. CASE u = LegacyOf[t]
    BY <1>3, <1>5, <1>6, <2>1, <2>2, HoldsLike
  <2>3. CASE u = NewOf[t]
    <3>1. Rows(disk, u) = <<>>
      BY <1>2, <1>3, <1>5, <2>3 DEF Exists, Form
    <3> QED
      BY <1>3, <2>1, <3>1, NothingToHold
  <2> QED
    BY <2>1, <2>2, <2>3
<1>9. LegacyOf[t] \in Holders(t)'
  BY <1>3 DEF Holders
<1> QED
  BY <1>1, <1>3, <1>7, <1>8, <1>9, <1>4, RebuildUnharmed

(* The rows are copied into it; the table set aside keeps them.            *)
LEMMA CopyRowsUnharmed ==
  ASSUME OpsInv, Unharmed, CopyRows, UNCHANGED start
  PROVE  Unharmed'
<1>1. PICK t : t = Rebuilding
  OBVIOUS
<1>2. /\ migrator.stage = "copy"
      /\ \E rows : /\ Execute(SetRows(disk, NewOf[t], rows))
                   /\ UNCHANGED migrator \/ (Stage("drop") /\ rows = Copied(t, Rows(disk, LegacyOf[t])))
  BY <1>1 DEF CopyRows
<1>3. PICK rows : /\ Execute(SetRows(disk, NewOf[t], rows))
                  /\ UNCHANGED migrator \/ (Stage("drop") /\ rows = Copied(t, Rows(disk, LegacyOf[t])))
  BY <1>2
<1>4. /\ t \in Rebuilt /\ Homes(t) \subseteq Tables /\ IsDatabase(disk)
      /\ t # LegacyOf[t] /\ t # NewOf[t] /\ LegacyOf[t] # NewOf[t]
      /\ \A u \in Tables : Form(disk, u) = "missing" => Rows(disk, u) = <<>>
      /\ \E u \in Holders(t) : Holds(disk, u, t)
      /\ \A s : Stage(s) => migrator'.stage = s /\ Rebuilding' = t
  BY <1>1, <1>2, RebuildFrom
<1>5. disk' = SetRows(disk, NewOf[t], rows) /\ UNCHANGED saves
  BY <1>3, MigratorWrites
<1>6. t \in Tables /\ LegacyOf[t] \in Tables /\ NewOf[t] \in Tables
  BY <1>4 DEF Homes
<1>7. /\ Rows(disk', NewOf[t]) = rows
      /\ \A u \in Tables : Form(disk', u) = Form(disk, u)
      /\ \A u \in Tables \ {NewOf[t]} : Rows(disk', u) = Rows(disk, u)
  BY <1>4, <1>5, <1>6, SetRowsIs
<1>8. Form(disk, NewOf[t]) # "missing"
  BY <1>1, <1>2 DEF Unharmed, Exists, Form
<1>9. /\ \A u \in Tables \ Homes(t) : Form(disk', u) = Form(disk, u) /\ Rows(disk', u) = Rows(disk, u)
      /\ \A u \in Homes(t) : Form(disk', u) = "missing" => Rows(disk', u) = <<>>
      /\ Exists(disk', NewOf[t])
  BY <1>4, <1>6, <1>7, <1>8 DEF Homes, Exists, Form
<1>10. Holds(disk, LegacyOf[t], t)
  BY <1>1, <1>2, <1>4 DEF Holders
<1>11. CASE UNCHANGED migrator
  <2>1. Holds(disk', LegacyOf[t], t)
    BY <1>4, <1>6, <1>7, <1>10, HoldsLike
  <2>2. LegacyOf[t] \in Holders(t)' /\ Rebuilding' = t
    BY <1>1, <1>2, <1>11 DEF Holders, Rebuilding
  <2> QED
    BY <1>1, <1>4, <1>9, <2>1, <2>2, <1>5, RebuildUnharmed
<1>12. CASE Stage("drop") /\ rows = Copied(t, Rows(disk, LegacyOf[t]))
  <2>1. Holds(disk', NewOf[t], t)
    BY <1>4, <1>7, <1>10, <1>12, CopyHolds
  <2>2. NewOf[t] \in Holders(t)' /\ Rebuilding' = t
    BY <1>4, <1>12 DEF Holders
  <2> QED
    BY <1>1, <1>4, <1>9, <2>1, <2>2, <1>5, RebuildUnharmed
<1> QED
  BY <1>3, <1>11, <1>12

(* The table set aside is dropped.                                         *)
LEMMA DropLegacyUnharmed ==
  ASSUME OpsInv, Unharmed, DropLegacy, UNCHANGED start
  PROVE  Unharmed'
<1>1. PICK t : t = Rebuilding
  OBVIOUS
<1>2. /\ migrator.stage = "drop" /\ Stage("restore")
      /\ Execute(SetTable(disk, LegacyOf[t], [form |-> "missing", rows |-> <<>>]))
  BY <1>1 DEF DropLegacy, Missing
<1>3. /\ t \in Rebuilt /\ Homes(t) \subseteq Tables /\ IsDatabase(disk)
      /\ t # LegacyOf[t] /\ t # NewOf[t] /\ LegacyOf[t] # NewOf[t]
      /\ \A u \in Tables : Form(disk, u) = "missing" => Rows(disk, u) = <<>>
      /\ \E u \in Holders(t) : Holds(disk, u, t)
      /\ migrator'.stage = "restore" /\ Rebuilding' = t
  BY <1>1, <1>2, RebuildFrom
<1>4. disk' = SetTable(disk, LegacyOf[t], [form |-> "missing", rows |-> <<>>]) /\ UNCHANGED saves
  BY <1>2, MigratorWrites
<1>5. t \in Tables /\ LegacyOf[t] \in Tables /\ NewOf[t] \in Tables
  BY <1>3 DEF Homes
<1>6. /\ Rows(disk', LegacyOf[t]) = <<>>
      /\ \A u \in Tables \ {LegacyOf[t]} : Form(disk', u) = Form(disk, u) /\ Rows(disk', u) = Rows(disk, u)
  BY <1>3, <1>4, <1>5, SetTableIs
<1>7. /\ \A u \in Tables \ Homes(t) : Form(disk', u) = Form(disk, u) /\ Rows(disk', u) = Rows(disk, u)
      /\ \A u \in Homes(t) : Form(disk', u) = "missing" => Rows(disk', u) = <<>>
  BY <1>3, <1>5, <1>6 DEF Homes
<1>8. Holds(disk, NewOf[t], t)
  BY <1>1, <1>2, <1>3 DEF Holders
<1>9. Holds(disk', NewOf[t], t)
  BY <1>3, <1>5, <1>6, <1>8, HoldsLike
<1>10. NewOf[t] \in Holders(t)'
  BY <1>3 DEF Holders
<1> QED
  BY <1>1, <1>3, <1>7, <1>9, <1>10, <1>4, RebuildUnharmed

(* The new table takes its name.                                           *)
LEMMA RenameBackUnharmed ==
  ASSUME OpsInv, Unharmed, RenameBack, UNCHANGED start
  PROVE  Unharmed'
<1>1. PICK t : t = Rebuilding
  OBVIOUS
<1>2. /\ migrator.stage = "restore" /\ migrator'.stage \in {"finish", "rename"}
      /\ Execute(Rename(disk, NewOf[t], t))
  BY <1>1 DEF RenameBack, OpsInv, LocalType
<1>3. /\ t \in Rebuilt /\ Homes(t) \subseteq Tables /\ IsDatabase(disk)
      /\ t # LegacyOf[t] /\ t # NewOf[t] /\ LegacyOf[t] # NewOf[t]
      /\ \A u \in Tables : Form(disk, u) = "missing" => Rows(disk, u) = <<>>
      /\ \E u \in Holders(t) : Holds(disk, u, t)
  BY <1>1, <1>2, RebuildFrom
<1>4. disk' = Rename(disk, NewOf[t], t) /\ UNCHANGED saves
  BY <1>2, MigratorWrites
<1>5. t \in Tables /\ LegacyOf[t] \in Tables /\ NewOf[t] \in Tables
  BY <1>3 DEF Homes
<1>6. /\ Form(disk', t) = Form(disk, NewOf[t]) /\ Rows(disk', t) = Rows(disk, NewOf[t])
      /\ Form(disk', NewOf[t]) = "missing" /\ Rows(disk', NewOf[t]) = <<>>
      /\ \A u \in Tables \ {t, NewOf[t]} : Form(disk', u) = Form(disk, u) /\ Rows(disk', u) = Rows(disk, u)
  BY <1>3, <1>4, <1>5, RenameIs
<1>7. /\ \A u \in Tables \ Homes(t) : Form(disk', u) = Form(disk, u) /\ Rows(disk', u) = Rows(disk, u)
      /\ \A u \in Homes(t) : Form(disk', u) = "missing" => Rows(disk', u) = <<>>
  BY <1>3, <1>5, <1>6 DEF Homes
<1>8. Holds(disk, NewOf[t], t)
  BY <1>1, <1>2, <1>3 DEF Holders
<1>9. Holds(disk', t, t)
  BY <1>6, <1>8, HoldsLike
<1>10. t \in Holders(t)'
  BY <1>2 DEF Holders, Homes
<1> QED
  BY <1>1, <1>2, <1>3, <1>7, <1>9, <1>10, <1>4, RebuildUnharmed

(* A table that is created has no rows yet.                                *)
LEMMA CreateLosesNothing ==
  ASSUME NEW db, IsDatabase(db), MissingIsEmpty(db), NEW t \in Tables
  PROVE  LET new == CreateIfMissing(db, t) IN
         MissingIsEmpty(new) /\ \A u \in Tables : Rows(new, u) = Rows(db, u)
<1> DEFINE made == SetTable(db, t, [form |-> "new", rows |-> <<>>])
<1>1. CASE Exists(db, t)
  BY <1>1 DEF CreateIfMissing
<1>2. CASE ~Exists(db, t)
  <2>1. CreateIfMissing(db, t) = made
    BY <1>2 DEF CreateIfMissing, Empty
  <2>2. /\ Form(made, t) = "new" /\ Rows(made, t) = <<>>
        /\ \A u \in Tables \ {t} : Form(made, u) = Form(db, u) /\ Rows(made, u) = Rows(db, u)
    BY SetTableIs
  <2> HIDE DEF made
  <2>3. Rows(db, t) = <<>>
    BY <1>2 DEF MissingIsEmpty
  <2>4. MissingIsEmpty(made)
    BY <2>2 DEF MissingIsEmpty, Exists, Form
  <2> QED
    BY <2>1, <2>2, <2>3, <2>4
<1> QED
  BY <1>1, <1>2

(* Archiving drafts loses no case.                                         *)
LEMMA ArchivingLosesNothing ==
  ASSUME NEW db, IsDatabase(db), MissingIsEmpty(db)
  PROVE  LET new == [Archived(db) EXCEPT !.index = TRUE] IN
         /\ MissingIsEmpty(new)
         /\ \A t \in Tables \ {"cases"} : Rows(new, t) = Rows(db, t)
         /\ Keys(new, "cases") = Keys(db, "cases")
<1> DEFINE kept(id) ==
             LET row == Rows(db, "cases")[id] IN
             IF \E other \in DraftsOf(db, row.subject) : id \in Drafts(db) /\ other < id
             THEN [row EXCEPT !.status = "duplicate_archived"] ELSE row
           rows == [id \in Keys(db, "cases") |-> kept(id)]
           mid == SetRows(db, "cases", rows)
           new == [mid EXCEPT !.index = TRUE]
<1>1. Archived(db) = mid
  BY DEF Archived
<1> HIDE DEF kept
<1>2. DOMAIN rows = Keys(db, "cases") /\ (Keys(db, "cases") = {} => rows = <<>>)
  OBVIOUS
<1> HIDE DEF rows
<1>3. "cases" \in Tables
  BY LeftoverNames
<1>4. /\ IsDatabase(mid) /\ Rows(mid, "cases") = rows
      /\ \A t \in Tables : Form(mid, t) = Form(db, t)
      /\ \A t \in Tables \ {"cases"} : Rows(mid, t) = Rows(db, t)
  BY <1>3, SetRowsIs
<1> HIDE DEF mid
<1>5. new.table = mid.table
  BY <1>4 DEF IsDatabase
<1> HIDE DEF new
<1>6. \A t : Form(new, t) = Form(mid, t) /\ Rows(new, t) = Rows(mid, t)
  BY <1>5 DEF Form, Rows
<1>7. Keys(new, "cases") = Keys(db, "cases")
  BY <1>2, <1>4, <1>6 DEF Keys, Rows
<1>8. MissingIsEmpty(new)
  <2> SUFFICES ASSUME NEW t \in Tables, Form(new, t) = "missing"
               PROVE  Rows(new, t) = <<>>
    BY DEF MissingIsEmpty, Exists, Form
  <2>1. Rows(db, t) = <<>>
    BY <1>4, <1>6 DEF MissingIsEmpty, Exists, Form
  <2>2. CASE t # "cases"
    BY <1>4, <1>6, <2>1, <2>2
  <2>3. CASE t = "cases"
    <3>1. Keys(db, "cases") = {}
      BY <2>1, <2>3, MissingKeys DEF Keys, Rows
    <3> QED
      BY <1>4, <1>6, <1>2, <2>3, <3>1
  <2> QED
    BY <2>2, <2>3
<1> QED
  BY <1>1, <1>4, <1>6, <1>7, <1>8 DEF new

(* What ends a migration loses nothing.                                    *)
LEMMA FinishingLosesNothing ==
  ASSUME NEW db, IsDatabase(db), MissingIsEmpty(db), NEW i \in Migrations
  PROVE  /\ MissingIsEmpty(Finished(i, db)) /\ Finished(i, db).applied = db.applied
         /\ \A t \in Tables \ {"cases"} : Rows(Finished(i, db), t) = Rows(db, t)
         /\ Keys(Finished(i, db), "cases") = Keys(db, "cases")
<1> DEFINE new == Finished(i, db)
<1>1. HardenCases = 9 /\ EnforceUniqueness = 10 /\ NormalizeIntake = 11 /\ CreateRegistry = 12
        /\ i \in 1 .. 12
  BY DEF HardenCases, EnforceUniqueness, NormalizeIntake, CreateRegistry, Migrations
<1>2. {"cases", "practices"} \subseteq Tables /\ \A j \in 1 .. 8 : CreatedBy[j] \in Tables
  BY DEF CreatedBy, Tables, Rebuilt, LegacyOf
<1>3. \A t \in Tables : CreateIfMissing(db, t).applied = db.applied
  BY DEF CreateIfMissing, SetTable, IsDatabase
<1>4. CASE \E t \in Tables : new = CreateIfMissing(db, t)
  <2>1. PICK t \in Tables : new = CreateIfMissing(db, t)
    BY <1>4
  <2> QED
    BY <1>2, <1>3, <2>1, CreateLosesNothing DEF Keys, Rows
<1>5. CASE i = 10
  <2>1. new = [Archived(db) EXCEPT !.index = TRUE]
    BY <1>1, <1>5 DEF Finished
  <2>2. [Archived(db) EXCEPT !.index = TRUE].applied = db.applied
    BY DEF Archived, SetRows, IsDatabase
  <2> QED
    BY <2>1, <2>2, ArchivingLosesNothing
<1>6. CASE i = 11
  <2>1. new = db
    BY <1>1, <1>6 DEF Finished
  <2> QED
    BY <2>1
<1>7. CASE i < 9
  <2>1. new = CreateIfMissing(db, CreatedBy[i]) /\ i \in 1 .. 8
    BY <1>1, <1>7 DEF Finished
  <2> QED
    BY <1>2, <1>4, <2>1
<1>8. CASE i = 9 \/ i = 12
  <2>1. new = CreateIfMissing(db, "cases") \/ new = CreateIfMissing(db, "practices")
    BY <1>1, <1>8 DEF Finished
  <2> QED
    BY <1>2, <1>4, <2>1
<1> QED
  BY <1>1, <1>5, <1>6, <1>7, <1>8

(* The rest of a migration.                                                *)
LEMMA FinishMigrationUnharmed ==
  ASSUME OpsInv, Unharmed, FinishMigration, UNCHANGED start
  PROVE  Unharmed' /\ ~AllApplied(disk')
<1>1. /\ migrator.stage = "finish" /\ migrator'.stage = "record"
      /\ Execute(Finished(Current, disk))
  BY DEF FinishMigration, Stage, OpsInv, LocalType
<1>2. /\ disk' = Finished(Current, disk) /\ IsDatabase(disk) /\ Current \in Migrations
      /\ ~AllApplied(disk) /\ UNCHANGED saves
  BY <1>1, MigratorWrites, MigratingIs
<1>3. /\ MissingIsEmpty(disk') /\ disk'.applied = disk.applied
      /\ \A t \in Tables \ {"cases"} : Rows(disk', t) = Rows(disk, t)
      /\ Keys(disk', "cases") = Keys(disk, "cases")
  BY <1>2, FinishingLosesNothing DEF Unharmed
<1>4. ASSUME NEW t \in Rebuilt
      PROVE  \E u \in Holders(t)' : Holds(disk, u, t)'
  <2>1. PICK u \in Homes(t) : Holds(disk, u, t)
    BY <1>1 DEF Unharmed, Holders
  <2>2. Holds(disk', u, t)
    <3>1. CASE u # "cases"
      BY <1>3, <2>1, <3>1, HomesApart, HoldsLike
    <3>2. CASE u = "cases"
      <4>1. t = "cases"
        BY <2>1, <3>2, LeftoverNames DEF Homes
      <4>2. DOMAIN Copied(t, Rows(start, t)) \subseteq Keys(disk, u)
        BY <2>1, <4>1, CopiedKeys DEF Holds, Keys, Rows
      <4> QED
        BY <1>3, <3>2, <4>2 DEF Holds
    <3> QED
      BY <3>1, <3>2
  <2>3. Holders(t)' = Homes(t) /\ Holds(disk, u, t)'
    BY <1>1, <2>2 DEF Holders, Homes, Holds
  <2> QED
    BY <2>1, <2>3
<1> QED
  BY <1>1, <1>2, <1>3, <1>4 DEF Unharmed, MissingIsEmpty, AllApplied, Pending

(* A step of the migrator that leaves the database alone.                  *)
LEMMA ReadingUnharmed ==
  ASSUME Unharmed, UNCHANGED <<disk, saves, start>>, migrator'.stage \in {"idle", "start", "rename", "finish"},
         migrator.stage \in {"idle", "start"} \/ migrator'.stage = "idle"
  PROVE  Unharmed'
<1>1. ASSUME NEW t \in Rebuilt
      PROVE  \E u \in Holders(t)' : Holds(disk, u, t)'
  <2>1. PICK u \in Homes(t) : Holds(disk, u, t)
    BY DEF Unharmed, Holders, Homes
  <2>2. Holders(t)' = Homes(t) /\ Holds(disk, u, t)'
    BY <2>1 DEF Holders, Homes, Holds
  <2> QED
    BY <2>1, <2>2
<1> QED
  BY <1>1 DEF Unharmed, MissingIsEmpty

(* The record of a migration; that of the last one ends the upgrade.       *)
LEMMA RecordMigrationUnharmed ==
  ASSUME OpsInv, Unharmed, RecordMigration, UNCHANGED start
  PROVE  UpgradeInv'
<1>1. /\ migrator.stage = "record" /\ Execute([disk EXCEPT !.applied = @ \cup {Current}])
      /\ migrator'.stage \in {"idle", "start"}
  BY DEF RecordMigration, NotMigrating
<1>2. /\ disk' = [disk EXCEPT !.applied = @ \cup {Current}] /\ pending' = disk' /\ saves' = saves
      /\ IsDatabase(disk)
  BY <1>1, MigratorWrites, MigratingIs
<1>3. disk'.table = disk.table
  BY <1>2 DEF IsDatabase
<1>4. \A t : Form(disk', t) = Form(disk, t) /\ Rows(disk', t) = Rows(disk, t) /\ Keys(disk', t) = Keys(disk, t)
  BY <1>3 DEF Form, Rows, Keys
<1>5. \A t \in Rebuilt : \E u \in Homes(t) : Holds(disk', u, t)
  BY <1>1, <1>4, HoldsLike DEF Unharmed, Holders
<1>6. CASE AllApplied(disk')
  <2>1. Kept' = {disk'}
    <3>1. \A c \in Connections : Range(saves[c]) = {}
      BY DEF Unharmed, Range
    <3> QED
      BY <1>2, <3>1 DEF Kept
  <2>2. Preserves(disk)'
    BY <1>5 DEF Preserves, Holds, Homes, Keys, Rows
  <2> QED
    BY <1>6, <2>1, <2>2 DEF UpgradeInv, Preserves
<1>7. CASE ~AllApplied(disk')
  <2>1. MissingIsEmpty(disk)'
    BY <1>4 DEF Unharmed, MissingIsEmpty, Exists, Form
  <2>2. \A t \in Rebuilt : Holders(t)' = Homes(t)
    BY <1>1 DEF Holders, Homes
  <2>3. \A t \in Rebuilt : \E u \in Homes(t) : Holds(disk, u, t)'
    BY <1>5 DEF Holds
  <2> QED
    BY <1>1, <1>2, <1>7, <2>1, <2>2, <2>3 DEF UpgradeInv, Unharmed
<1> QED
  BY <1>6, <1>7

(* Every step of the migrator preserves the rows.                          *)
LEMMA MigratorPreserves ==
  ASSUME OpsInv, UpgradeInv, MigratorStep
  PROVE  UpgradeInv'
<1>1. ~AllApplied(disk)
  <2>1. migrator.stage = "idle" => ~AllApplied(disk)
    BY DEF MigratorStep, Migrate, StartMigrating, StartMigration, RenameAway, CreateNew, CopyRows,
      DropLegacy, RenameBack, FinishMigration, RecordMigration, MigratorDies
  <2> QED
    BY <2>1, MigratingIs
<1>2. Unharmed /\ UNCHANGED start
  BY <1>1 DEF UpgradeInv, MigratorStep
<1>3. CASE StartMigrating \/ StartMigration \/ MigratorDies
  <2>1. UNCHANGED <<disk, saves>>
    BY <1>3 DEF StartMigrating, StartMigration, MigratorDies, txVars
  <2>2. /\ migrator.stage \in {"idle", "start"} \/ migrator'.stage = "idle"
        /\ migrator'.stage \in {"idle", "start", "rename", "finish"}
    <3>1. CASE StartMigrating
      BY <3>1 DEF StartMigrating
    <3>2. CASE StartMigration
      BY <3>2 DEF StartMigration, OpsInv, LocalType
    <3>3. CASE MigratorDies
      BY <3>3 DEF MigratorDies, NotMigrating
    <3> QED
      BY <1>3, <3>1, <3>2, <3>3
  <2>3. Unharmed'
    BY <1>2, <2>1, <2>2, ReadingUnharmed
  <2> QED
    BY <1>1, <2>1, <2>3 DEF UpgradeInv
<1>4. CASE RenameAway \/ CreateNew \/ CopyRows \/ DropLegacy \/ RenameBack
  <2>1. Unharmed'
    BY <1>2, <1>4, RenameAwayUnharmed, CreateNewUnharmed, CopyRowsUnharmed, DropLegacyUnharmed,
       RenameBackUnharmed
  <2>2. disk'.applied = disk.applied
    <3>1. migrator.stage \in {"rename", "create", "copy", "drop", "restore"}
      BY <1>4 DEF RenameAway, CreateNew, CopyRows, DropLegacy, RenameBack
    <3>2. IsDatabase(disk)
      BY <3>1, RebuildOf
    <3>3. /\ \A t, content : SetTable(disk, t, content).applied = disk.applied
          /\ \A t, rows : SetRows(disk, t, rows).applied = disk.applied
          /\ \A t, u : Rename(disk, t, u).applied = disk.applied
      BY <3>2 DEF SetTable, SetRows, Rename, IsDatabase
    <3>4. PICK content : Execute(content) /\ content.applied = disk.applied
      BY <1>4, <3>3 DEF RenameAway, CreateNew, CopyRows, DropLegacy, RenameBack
    <3> QED
      BY <3>4, MigratorWrites
  <2> QED
    BY <1>1, <2>1, <2>2 DEF UpgradeInv, AllApplied, Pending
<1>5. CASE FinishMigration
  BY <1>2, <1>5, FinishMigrationUnharmed DEF UpgradeInv
<1>6. CASE RecordMigration
  BY <1>2, <1>6, RecordMigrationUnharmed
<1> QED
  BY <1>3, <1>4, <1>5, <1>6 DEF MigratorStep, Migrate

-----------------------------------------------------------------------------
(* The processes that serve a migrated database *)

(* A content that has every row of another one, maybe changed.             *)
Grows(a, b) ==
  /\ b.applied = a.applied
  /\ \A t \in Tables : Keys(a, t) \subseteq Keys(b, t)

(* A statement puts a row into table t: a case is the first draft of its   *)
(* client, and the state of a questionnaire is written by the runtime.     *)
Puts(c, t, key, row) ==
  /\ Write(c, SetRows(View(c), t, Put(Rows(View(c), t), key, row)))
  /\ t = "cases" => View(c) = disk /\ key \in Clients /\ DraftsOf(disk, key) = {}
  /\ t = "intake_states" => At("state")

(* A step of a connection that removes no row.                             *)
Serves(c) ==
  \/ UNCHANGED txVars
  \/ Read(c) \/ BeginRead(c) \/ Close(c) \/ Enter(c) \/ EnterFails(c) \/ Leave(c) \/ Unwind(c)
  \/ Write(c, View(c))
  \/ \E t \in Tables : \E key, row : Puts(c, t, key, row)

(* INSERT and UPSERT remove no row.                                        *)
LEMMA PutGrows ==
  ASSUME NEW db, IsDatabase(db), NEW t \in Tables, NEW key, NEW row
  PROVE  Grows(db, SetRows(db, t, Put(Rows(db, t), key, row)))
<1> DEFINE rows == Put(Rows(db, t), key, row)
           new == SetRows(db, t, rows)
<1>1. DOMAIN Rows(db, t) \subseteq DOMAIN rows
  BY DEF Put
<1> HIDE DEF rows
<1>2. /\ Rows(new, t) = rows /\ new.applied = db.applied
      /\ \A u \in Tables \ {t} : Rows(new, u) = Rows(db, u)
  BY SetRowsIs
<1> HIDE DEF new
<1>3. Grows(db, new)
  BY <1>1, <1>2 DEF Grows, Keys, Rows
<1> QED
  BY <1>3 DEF new, rows

(* What a connection sees is a database.                                   *)
LEMMA ViewIs ==
  ASSUME OpsInv, NEW c
  PROVE  View(c) \in Kept /\ IsDatabase(View(c)) /\ Grows(View(c), View(c))
BY DEF OpsInv, Kept, View, Grows

(* After such a step every content there is has grown from one there was.  *)
LEMMA ServingGrows ==
  ASSUME OpsInv, NEW c \in Connections, Serves(c)
  PROVE  \A db \in Kept' : \E a \in Kept : Grows(a, db)
<1>1. \A db : Grows(db, db)
  BY DEF Grows
<1>2. CASE UNCHANGED txVars
  <2>1. Kept' = Kept
    BY <1>2 DEF Kept, txVars
  <2> QED
    BY <1>1, <2>1
<1>3. CASE Read(c) \/ BeginRead(c) \/ Close(c) \/ Enter(c) \/ EnterFails(c) \/ Leave(c) \/ Unwind(c)
  <2>1. Kept' \subseteq Kept
    BY <1>3, KeptOtherwise DEF OpsInv
  <2> QED
    BY <1>1, <2>1
<1>4. CASE Write(c, View(c)) \/ \E t \in Tables : \E key, row : Puts(c, t, key, row)
  <2>1. PICK content : Write(c, content) /\ Grows(View(c), content)
    <3>1. CASE Write(c, View(c))
      BY <1>1, <3>1
    <3>2. CASE \E t \in Tables : \E key, row : Puts(c, t, key, row)
      <4>1. PICK t \in Tables : \E key, row : Puts(c, t, key, row)
        BY <3>2
      <4>2. PICK key, row : Puts(c, t, key, row)
        BY <4>1
      <4>3. Grows(View(c), SetRows(View(c), t, Put(Rows(View(c), t), key, row)))
        BY ViewIs, PutGrows
      <4> QED
        BY <4>2, <4>3 DEF Puts
    <3> QED
      BY <1>4, <3>1, <3>2
  <2>2. Kept' \subseteq Kept \cup {content}
    BY <2>1, KeptByWrite
  <2> QED
    BY <1>1, <2>1, <2>2, ViewIs
<1> QED
  BY <1>2, <1>3, <1>4 DEF Serves

(* The commands remove no row.                                             *)
LEMMA OperatorServes ==
  ASSUME OpsInv, OperatorStep
  PROVE  AllApplied(disk) /\ \E o \in Operators : Serves(o)
<1>1. PICK o \in Operators :
        (\E s \in Clients : RunCommand(o, s)) \/ CreateCase(o)
        \/ CaseStatementThrows(o) \/ OperatorDies(o)
  BY DEF OperatorStep
<1>2. AllApplied(disk)
  <2>1. operator[o].pc = "idle" => \E s \in Clients : RunCommand(o, s)
    BY <1>1 DEF CreateCase, BeginCase, BeginCaseRefused, CheckIntake, OpenSavepoint, InsertCase,
      AppendCaseAudit, ReleaseSavepoint, AppendHitAudit, CommitCase, CommitCaseRefused, UnwindCase,
      OperatorAt, CaseStatementThrows, OperatorDies
  <2> QED
    BY <2>1 DEF RunCommand, OpsInv, MigratesAlone
<1> SUFFICES Serves(o)
  BY <1>2
<1>3. {"cases", "audit_events"} \subseteq Tables
  BY LeftoverNames
<1>4. ASSUME NEW key, NEW row,
             Write(o, SetRows(View(o), "audit_events", Put(Rows(View(o), "audit_events"), key, row)))
      PROVE  Serves(o)
  <2>1. Puts(o, "audit_events", key, row)
    BY <1>4 DEF Puts
  <2> QED
    BY <1>3, <2>1 DEF Serves
<1>5. CASE (\E s \in Clients : RunCommand(o, s)) \/ CaseStatementThrows(o) \/ BeginCaseRefused(o)
           \/ CommitCaseRefused(o)
  BY <1>5 DEF Serves, RunCommand, CaseStatementThrows, BeginCaseRefused, CommitCaseRefused
<1>6. CASE BeginCase(o) \/ CheckIntake(o) \/ OpenSavepoint(o) \/ ReleaseSavepoint(o) \/ CommitCase(o)
           \/ UnwindCase(o) \/ OperatorDies(o)
  BY <1>6 DEF Serves, BeginCase, CheckIntake, OpenSavepoint, ReleaseSavepoint, CommitCase,
    UnwindCase, OperatorDies
<1>7. CASE InsertCase(o)
  <2>1. CASE UNCHANGED txVars
    BY <2>1 DEF Serves
  <2>2. CASE ~UNCHANGED txVars
    <3>1. /\ Write(o, SetRows(View(o), "cases", Put(Rows(View(o), "cases"), operator[o].subject, NewCase(o))))
          /\ operator[o].pc = "insert"
      BY <1>7, <2>2 DEF InsertCase, OperatorAt
    <3>2. pending = disk /\ DraftsOf(disk, operator[o].subject) = {} /\ operator[o].subject \in Clients
      BY <3>1 DEF OpsInv, OperatorWork, OperatorCalls, Justified
    <3>3. View(o) = disk
      BY <3>2 DEF View
    <3>4. Puts(o, "cases", operator[o].subject, NewCase(o))
      BY <3>1, <3>2, <3>3 DEF Puts
    <3> QED
      BY <1>3, <3>4 DEF Serves
  <2> QED
    BY <2>1, <2>2
<1>8. CASE AppendCaseAudit(o)
  <2>1. Write(o, SetRows(View(o), "audit_events",
                         Put(Rows(View(o), "audit_events"),
                             <<"case_created_from_intake", operator[o].subject>>, operator[o].subject)))
    BY <1>8 DEF AppendCaseAudit, AppendAudit
  <2> QED
    BY <1>4, <2>1
<1>9. CASE AppendHitAudit(o)
  <2>1. PICK id : Write(o, SetRows(View(o), "audit_events",
                                   Put(Rows(View(o), "audit_events"),
                                       <<"case_create_from_intake_idempotent_hit", id>>, id)))
    BY <1>9 DEF AppendHitAudit, AppendAudit
  <2> QED
    BY <1>4, <2>1
<1> QED
  BY <1>1, <1>5, <1>6, <1>7, <1>8, <1>9 DEF CreateCase

(* Neither does the runtime.                                               *)
LEMMA RuntimeServes ==
  ASSUME OpsInv, RuntimeStep
  PROVE  AllApplied(disk) /\ Serves(Runtime)
<1>1. Database = View(Runtime)
  BY DEF Database
<1>2. AllApplied(disk)
  <2>1. At("down") => AllApplied(disk)
    BY DEF At, RuntimeStep, Serve, ServeBadly, StartRuntime, TakeMessage, SetConsentState,
      AppendConsentEvent, ResolveIntake, SetIntakeState, SetIntakeField, AppendIntakeEvent, BeginPractice,
      BeginPracticeRefused, CheckPractice, InsertPractice, CommitPractice, CommitPracticeRefused,
      UnwindPractice, RuntimeLocked, TableIsMissing, RuntimeStatementThrows, RuntimeDies
  <2> QED
    BY <2>1 DEF At, OpsInv, MigratesAlone
<1> SUFFICES Serves(Runtime)
  BY <1>2
<1>3. {"consent_states", "intake_states", "intake_fields", "practices"} \subseteq Tables
  BY LeftoverNames DEF Tables
<1>4. ASSUME NEW t \in {"consent_states", "intake_states", "intake_fields", "practices"}, NEW key, NEW row,
             Change(SetRows(Database, t, Put(Rows(Database, t), key, row))),
             t = "intake_states" => At("state")
      PROVE  Serves(Runtime)
  <2>1. Puts(Runtime, t, key, row)
    BY <1>1, <1>4 DEF Puts, Change
  <2> QED
    BY <1>3, <2>1 DEF Serves
<1>5. Change(Database) => Serves(Runtime)
  BY <1>1 DEF Serves, Change
<1>6. CASE Read(Runtime) \/ Enter(Runtime) \/ EnterFails(Runtime) \/ Leave(Runtime) \/ Unwind(Runtime)
           \/ Close(Runtime) \/ UNCHANGED txVars
  BY <1>6 DEF Serves
<1>7. CASE SetConsentState
  <2>1. CASE Read(Runtime)
    BY <1>6, <2>1
  <2>2. CASE ~Read(Runtime)
    <3>1. Change(SetRows(Database, "consent_states", Put(Rows(Database, "consent_states"), Client, NewConsent)))
      BY <1>7, <2>2 DEF SetConsentState
    <3> QED
      BY <1>4, <3>1
  <2> QED
    BY <2>1, <2>2
<1>8. CASE AppendConsentEvent \/ AppendIntakeEvent
  BY <1>5, <1>8 DEF AppendConsentEvent, AppendIntakeEvent
<1>9. CASE SetIntakeState \/ SetIntakeField \/ InsertPractice
  BY <1>4, <1>9 DEF SetIntakeState, SetIntakeField, InsertPractice
<1>10. CASE ServeBadly \/ StartRuntime \/ TakeMessage \/ ResolveIntake \/ BeginPractice
            \/ BeginPracticeRefused \/ CheckPractice \/ CommitPractice \/ CommitPracticeRefused
            \/ UnwindPractice
  BY <1>6, <1>10 DEF ServeBadly, RuntimeLocked, TableIsMissing, RuntimeStatementThrows, RuntimeDies,
    StartRuntime, TakeMessage, ResolveIntake, BeginPractice, BeginPracticeRefused, CheckPractice,
    CommitPractice, CommitPracticeRefused, UnwindPractice
<1> QED
  BY <1>7, <1>8, <1>9, <1>10 DEF RuntimeStep, Serve

(* And the backup reads only.                                              *)
LEMMA BackupServes ==
  ASSUME OpsInv, BackupStep
  PROVE  AllApplied(disk) /\ Serves(Backup)
<1>1. Backup \in Connections
  BY ConnectionsAssumption
<1> QED
  BY <1>1 DEF BackupStep, StartBackup, EndBackup, Serves, OpsInv, MigratesAlone

(* What has grown still has the rows there were at the start.              *)
LEMMA GrownPreserves ==
  ASSUME OpsInv, UpgradeInv, AllApplied(disk), UNCHANGED start,
         \A db \in Kept' : \E a \in Kept : Grows(a, db)
  PROVE  UpgradeInv'
<1>1. ASSUME NEW a, NEW db, Preserves(a), Grows(a, db)
      PROVE  Preserves(db)
  <2> SUFFICES ASSUME NEW t \in Rebuilt
               PROVE  \E u \in Homes(t) : \/ Keys(start, t) \subseteq Keys(db, u)
                                          \/ DOMAIN Copied(t, Rows(start, t)) \subseteq Keys(db, u)
    BY DEF Preserves
  <2>1. PICK u \in Homes(t) : \/ Keys(start, t) \subseteq Keys(a, u)
                              \/ DOMAIN Copied(t, Rows(start, t)) \subseteq Keys(a, u)
    BY <1>1 DEF Preserves
  <2>2. Keys(a, u) \subseteq Keys(db, u)
    BY <1>1, HomesApart DEF Grows
  <2> QED
    BY <2>1, <2>2
<1>2. \A db \in Kept' : AllApplied(db) /\ Preserves(db)
  <2> SUFFICES ASSUME NEW db \in Kept'
               PROVE  AllApplied(db) /\ Preserves(db)
    OBVIOUS
  <2>1. PICK a \in Kept : Grows(a, db)
    OBVIOUS
  <2>2. AllApplied(a) /\ Preserves(a)
    BY DEF UpgradeInv
  <2> QED
    BY <1>1, <2>1, <2>2 DEF AllApplied, Pending, Grows
<1>3. disk' \in Kept'
  BY DEF Kept
<1>4. \A db : Preserves(db) => Preserves(db)'
  BY DEF Preserves
<1> QED
  BY <1>2, <1>3 DEF UpgradeInv, Preserves

-----------------------------------------------------------------------------
(* The theorem *)

(* Every row is where it was at the start.                                 *)
LEMMA InitUpgradeInv ==
  ASSUME Init
  PROVE  UpgradeInv
<1>1. /\ disk = start /\ pending = start /\ saves = [c \in Connections |-> <<>>]
      /\ migrator.stage = "idle" /\ MissingIsEmpty(start)
  BY StartAssumption DEF Init, InitTx, NotMigrating, AtRest, MissingIsEmpty
<1>2. CASE AllApplied(disk)
  <2>1. Kept = {start}
    BY <1>1 DEF Kept, Range
  <2>2. Preserves(start)
    BY DEF Preserves, Homes
  <2> QED
    BY <1>1, <1>2, <2>1, <2>2 DEF UpgradeInv
<1>3. CASE ~AllApplied(disk)
  <2>1. \A t \in Rebuilt : t \in Holders(t) /\ Holds(disk, t, t)
    BY <1>1 DEF Holders, Homes, Holds
  <2> QED
    BY <1>1, <1>3, <2>1 DEF UpgradeInv, Unharmed
<1> QED
  BY <1>2, <1>3

(* Every step preserves the rows.                                          *)
LEMMA UpgradeInvStep ==
  ASSUME OpsInv, UpgradeInv, [Next]_vars
  PROVE  UpgradeInv'
<1>1. CASE UNCHANGED vars
  <2> USE <1>1 DEF vars, txVars
  <2>1. CASE AllApplied(disk)
    <3>1. \A db \in Kept' : \E a \in Kept : Grows(a, db)
      BY DEF Kept, Grows
    <3> QED
      BY <2>1, <3>1, GrownPreserves
  <2>2. CASE ~AllApplied(disk)
    BY <2>2 DEF UpgradeInv, Unharmed, Holders, Holds, Rebuilding
  <2> QED
    BY <2>1, <2>2
<1>2. CASE MigratorStep
  BY <1>2, MigratorPreserves
<1>3. CASE OperatorStep \/ RuntimeStep \/ BackupStep
  <2>1. AllApplied(disk) /\ \E c \in Connections : Serves(c)
    BY <1>3, ConnectionsAssumption, OperatorServes, RuntimeServes, BackupServes
  <2>2. \A db \in Kept' : \E a \in Kept : Grows(a, db)
    BY <2>1, ServingGrows
  <2>3. UNCHANGED start
    BY <1>3 DEF OperatorStep, RuntimeStep, BackupStep
  <2> QED
    BY <2>1, <2>2, <2>3, GrownPreserves
<1> QED
  BY <1>1, <1>2, <1>3 DEF Next

(* The rows of the database the upgrade started from stay where they were, *)
(* set aside or copied.                                                    *)
THEOREM UpgradePreserves == Spec => []UpgradeInv
<1>1. Init => UpgradeInv
  BY InitUpgradeInv
<1>2. OpsInv /\ UpgradeInv /\ [Next]_vars => UpgradeInv'
  BY UpgradeInvStep
<1> QED
  BY <1>1, <1>2, OperationsInvariant, PTL DEF Spec

(* No row is destroyed by an upgrade, interrupted wherever and however     *)
(* often, nor by what is done with the database afterwards.                *)
THEOREM RowsSurvive == Spec => []NothingDestroyed
<1>1. UpgradeInv => NothingDestroyed
  <2>1. CASE AllApplied(disk)
    BY <2>1 DEF UpgradeInv, Kept, Preserves, Homes, NothingDestroyed
  <2>2. CASE ~AllApplied(disk)
    BY <2>2 DEF UpgradeInv, Unharmed, Holders, Homes, Holds, Keys, Rows, NothingDestroyed
  <2> QED
    BY <2>1, <2>2
<1> QED
  BY <1>1, UpgradePreserves, PTL

-----------------------------------------------------------------------------
(* An upgrade that leaves nothing aside *)

(* The tables that the rebuild under way has set aside or made.            *)
InHand ==
  CASE migrator.stage = "create" -> {LegacyOf[Rebuilding]}
    [] migrator.stage \in {"copy", "drop"} -> {LegacyOf[Rebuilding], NewOf[Rebuilding]}
    [] migrator.stage = "restore" -> {NewOf[Rebuilding]}
    [] OTHER -> {}

(* Nothing else is left aside: no rebuild was interrupted.                 *)
Tidy == \A u \in Leftovers \ InHand : ~Exists(disk, u)

(* The table that has the rows of table t.                                 *)
Home(t) ==
  CASE migrator.stage \in {"create", "copy"} /\ t = Rebuilding -> LegacyOf[t]
    [] migrator.stage \in {"drop", "restore"} /\ t = Rebuilding -> NewOf[t]
    [] OTHER -> t

LateDraft(rows, id) ==
  /\ rows[id].status = "draft"
  /\ \E d \in DOMAIN rows : /\ rows[d].status = "draft" /\ rows[d].subject = rows[id].subject
                            /\ d < id

(* The cases after the duplicate drafts are archived.                      *)
Archive(rows) ==
  [id \in DOMAIN rows |-> IF LateDraft(rows, id) THEN [rows[id] EXCEPT !.status = "duplicate_archived"]
                          ELSE rows[id]]

(* The old rows of a questionnaire table are converted.                    *)
Converted(t, old, rows) ==
  /\ t = "intake_states" => rows = Copied(t, old)
  /\ t = "intake_fields" => DOMAIN Copied(t, old) \subseteq DOMAIN rows

(* This may have become of the old rows of table t in the given form.      *)
Faithful(t, old, form, rows) ==
  /\ t = "cases" => rows \in {old, Archive(old)}
  /\ t \in {"intake_states", "intake_fields"} =>
       Converted(t, old, rows) \/ (form # "new" /\ rows = old)

(* Migration i has ended, recorded or not.                                 *)
Over(i) == i \in disk.applied \/ (migrator.stage = "record" /\ Current = i)

(* What an upgrade without an interrupted rebuild has come to.             *)
Exact ==
  /\ \A t \in Rebuilt : Faithful(t, Rows(start, t), Form(disk, Home(t)), Rows(disk, Home(t)))
  /\ \A t \in Tables \ Leftovers : Form(disk, t) \in {"missing", "new"} \/ (t \in Rebuilt /\ Form(disk, t) = "old")
  /\ migrator.stage \in {"create", "copy"} => Exists(disk, LegacyOf[Rebuilding])
  /\ migrator.stage \in {"copy", "drop", "restore"} => Form(disk, NewOf[Rebuilding]) = "new"
  /\ \A i \in 1 .. 8 : Over(i) => Exists(disk, Home(CreatedBy[i]))
  /\ migrator.stage = "finish" /\ Current = HardenCases => Form(disk, "cases") # "old"
  /\ Over(HardenCases) => Form(disk, "cases") = "new"
  /\ Over(EnforceUniqueness) => Rows(disk, "cases") = Archive(Rows(start, "cases"))
  /\ migrator.stage \in {"rename", "create", "copy", "drop", "restore"} /\ Current = CreateRegistry =>
       \A t \in IntakeTables \ migrator.tables : Form(disk, t) = "new"
  /\ Over(CreateRegistry) \/ (migrator.stage = "finish" /\ Current = CreateRegistry) => IntakeIsNormalized(disk)
  /\ Over(CreateRegistry) => Exists(disk, "practices")

(* The upgraded database.                                                  *)
Upgraded(db) ==
  /\ \A t \in Tables \ Leftovers : Form(db, t) = "new"
  /\ \A id \in Keys(start, "cases") :
       LET row == Rows(start, "cases")[id] IN
       /\ id \in Keys(db, "cases")
       /\ Rows(db, "cases")[id].subject = row.subject
       /\ Rows(db, "cases")[id].status =
            IF row.status = "draft" /\ \E d \in DraftsOf(start, row.subject) \ {id} : d < id
            THEN "duplicate_archived" ELSE row.status
  /\ DOMAIN Copied("intake_fields", Rows(start, "intake_fields")) \subseteq Keys(db, "intake_fields")
  /\ budget.message = 0 => Rows(db, "intake_states") = Copied("intake_states", Rows(start, "intake_states"))

FaithInv ==
  /\ start \in StartDatabases /\ budget \in [Events -> Nat]
  /\ budget.message = 0 => runtime.pc \in {"down", "idle"}
  /\ IF AllApplied(disk) THEN \A db \in Kept : NoLeftovers(db) => Upgraded(db)
     ELSE start.applied \subseteq disk.applied /\ (Tidy => Exact)

-----------------------------------------------------------------------------
(* Faithful rows *)

(* A row of the cases of an older release.                                 *)
IsRow(row) == row = [subject |-> row.subject, status |-> row.status, summary |-> row.summary]

(* Archived once, the duplicate drafts stay as they are.                   *)
LEMMA ArchiveTwice ==
  ASSUME NEW rows, \A id \in DOMAIN rows : IsRow(rows[id])
  PROVE  Archive(Archive(rows)) = Archive(rows)
<1> DEFINE a == Archive(rows)
<1>1. /\ DOMAIN a = DOMAIN rows
      /\ \A id \in DOMAIN rows : a[id] = IF LateDraft(rows, id) THEN [rows[id] EXCEPT !.status = "duplicate_archived"]
                                 ELSE rows[id]
      /\ a = [id \in DOMAIN a |-> a[id]]
  BY DEF Archive
<1> HIDE DEF a
<1>2. ASSUME NEW id \in DOMAIN rows, LateDraft(rows, id)
      PROVE  a[id].status = "duplicate_archived"
  BY <1>1, <1>2 DEF IsRow
<1>3. \A id \in DOMAIN rows : a[id].status = "draft" => a[id] = rows[id] /\ ~LateDraft(rows, id)
  BY <1>1, <1>2
<1>4. \A id \in DOMAIN a : ~LateDraft(a, id)
  BY <1>1, <1>3 DEF LateDraft
<1>5. Archive(a) = [id \in DOMAIN a |-> a[id]]
  BY <1>4 DEF Archive
<1> QED
  BY <1>1, <1>5 DEF a

(* The cases that EnforceUniqueness leaves.                                *)
LEMMA ArchivedRows ==
  ASSUME NEW db, IsDatabase(db)
  PROVE  LET new == [Archived(db) EXCEPT !.index = TRUE] IN
         /\ Rows(new, "cases") = Archive(Rows(db, "cases"))
         /\ \A t \in Tables : Form(new, t) = Form(db, t)
<1> DEFINE kept(id) ==
             LET row == Rows(db, "cases")[id] IN
             IF \E other \in DraftsOf(db, row.subject) : id \in Drafts(db) /\ other < id
             THEN [row EXCEPT !.status = "duplicate_archived"] ELSE row
           rows == [id \in Keys(db, "cases") |-> kept(id)]
           mid == SetRows(db, "cases", rows)
           new == [mid EXCEPT !.index = TRUE]
<1>1. Archived(db) = mid
  BY DEF Archived
<1>2. rows = Archive(Rows(db, "cases"))
  <2>1. ASSUME NEW id \in Keys(db, "cases")
        PROVE  LateDraft(Rows(db, "cases"), id) <=>
                 \E other \in DraftsOf(db, Rows(db, "cases")[id].subject) : id \in Drafts(db) /\ other < id
    BY <2>1 DEF LateDraft, DraftsOf, Drafts, Keys, Rows
  <2>2. Keys(db, "cases") = DOMAIN Rows(db, "cases")
    BY DEF Keys, Rows
  <2> QED
    BY <2>1, <2>2 DEF Archive
<1> HIDE DEF kept, rows
<1>3. "cases" \in Tables
  BY LeftoverNames
<1>4. /\ IsDatabase(mid) /\ Rows(mid, "cases") = rows
      /\ \A t \in Tables : Form(mid, t) = Form(db, t)
  BY <1>3, SetRowsIs
<1> HIDE DEF mid
<1>5. new.table = mid.table
  BY <1>4 DEF IsDatabase
<1> HIDE DEF new
<1>6. \A t : Form(new, t) = Form(mid, t) /\ Rows(new, t) = Rows(mid, t)
  BY <1>5 DEF Form, Rows
<1> QED
  BY <1>1, <1>2, <1>4, <1>6 DEF new

(* Rows that a table may have, may be copied into its successor.           *)
LEMMA CopyFaithful ==
  ASSUME NEW t \in Rebuilt, NEW old, NEW form, NEW rows, Faithful(t, old, form, rows)
  PROVE  Faithful(t, old, "new", Copied(t, rows))
<1>1. CASE t = "cases"
  BY <1>1 DEF Faithful, Copied, Converted
<1>2. CASE t = "intake_states"
  <2>1. CASE rows = old
    BY <1>2, <2>1 DEF Faithful, Converted
  <2>2. CASE rows = Copied(t, old)
    <3>1. \A s \in DOMAIN old : CopiedState(CopiedState(old[s])) = CopiedState(old[s])
      BY DEF CopiedState
    <3>2. Copied(t, old) = [s \in DOMAIN old |-> CopiedState(old[s])]
      BY <1>2 DEF Copied
    <3>3. Copied(t, rows) = [s \in DOMAIN rows |-> CopiedState(rows[s])]
      BY <1>2 DEF Copied
    <3>4. Copied(t, rows) = rows
      BY <2>2, <3>1, <3>2, <3>3
    <3> QED
      BY <1>2, <2>2, <3>4 DEF Faithful, Converted
  <2> QED
    BY <1>2, <2>1, <2>2 DEF Faithful, Converted
<1>3. CASE t = "intake_fields"
  <2>1. CASE rows = old
    BY <1>3, <2>1 DEF Faithful, Converted
  <2>2. CASE DOMAIN Copied(t, old) \subseteq DOMAIN rows
    <3>1. DOMAIN Copied(t, old) \subseteq DOMAIN Copied(t, rows)
      BY <2>2, CopiedTwice
    <3> QED
      BY <1>3, <3>1 DEF Faithful, Converted
  <2> QED
    BY <1>3, <2>1, <2>2 DEF Faithful, Converted
<1>4. CASE t = "intake_events"
  BY <1>4 DEF Faithful, Converted
<1> QED
  BY <1>1, <1>2, <1>3, <1>4, LeftoverNames

(* A table without rows may be created.                                    *)
LEMMA EmptyFaithful ==
  ASSUME NEW t \in Rebuilt, NEW old, NEW form, Faithful(t, old, form, <<>>), NEW other
  PROVE  Faithful(t, old, other, <<>>)
<1>1. CASE t = "intake_states" /\ old = <<>>
  <2>1. Copied(t, <<>>) = <<>>
    BY <1>1, MissingKeys DEF Copied
  <2> QED
    BY <1>1, <2>1 DEF Faithful, Converted
<1>2. CASE t = "intake_fields" /\ old = <<>>
  BY <1>2, CopiedNothing DEF Faithful, Converted
<1>3. CASE t \in {"cases", "intake_events"} \/ old # <<>>
  BY <1>3 DEF Faithful, Converted
<1> QED
  BY <1>1, <1>2, <1>3, LeftoverNames

-----------------------------------------------------------------------------
(* The migrator leaves nothing aside *)

HandStages == {"create", "copy", "drop", "restore"}

(* A table that is not in hand is at home.                                 *)
LEMMA HomeIs ==
  ASSUME NEW t
  PROVE  /\ Home(t) \in Homes(t)
         /\ migrator.stage \notin HandStages \/ t # Rebuilding => Home(t) = t
BY DEF Home, Homes, HandStages

(* While migrations are pending a migration is over if it is recorded, or  *)
(* the current one.                                                        *)
LEMMA PendingIs ==
  ASSUME OpsInv, ~AllApplied(disk)
  PROVE  /\ CreateRegistry \notin disk.applied
         /\ EnforceUniqueness \in disk.applied => HardenCases \in disk.applied
<1>1. HardenCases = 9 /\ EnforceUniqueness = 10 /\ CreateRegistry = 12 /\ Migrations = 1 .. 12
  BY DEF HardenCases, EnforceUniqueness, CreateRegistry, Migrations
<1>2. \A i \in disk.applied : 1 .. i \subseteq disk.applied
  BY DEF OpsInv, CommittedCases
<1>3. ~(1 .. 12 \subseteq disk.applied)
  BY <1>1 DEF AllApplied, Pending
<1> QED
  BY <1>1, <1>2, <1>3

(* A statement of a rebuild keeps what an upgrade comes to.                *)
LEMMA RebuildExact ==
  ASSUME OpsInv, Exact, UNCHANGED start, NEW t \in Rebuilt, t = Rebuilding,
         migrator.stage \in {"rename"} \cup HandStages,
         disk'.applied = disk.applied,
         \A u \in Tables \ Homes(t) : Form(disk', u) = Form(disk, u) /\ Rows(disk', u) = Rows(disk, u),
         Form(disk', t) \in {"missing", "new", "old"},
         NEW stage \in {"rename", "finish"} \cup HandStages, NEW tables,
         migrator' = [stage |-> stage, left |-> migrator.left, tables |-> tables],
         stage \in HandStages => tables = migrator.tables /\ Rebuilding' = t,
         stage \notin HandStages => tables = migrator.tables \ {t} /\ Form(disk', t) = "new",
         stage = "finish" => tables = {},
         NEW home \in Homes(t), home = Home(t)',
         Faithful(t, Rows(start, t), Form(disk', home), Rows(disk', home)), Exists(disk', home),
         stage \in {"create", "copy"} => Exists(disk', LegacyOf[t]),
         stage \in {"copy", "drop", "restore"} => Form(disk', NewOf[t]) = "new"
  PROVE  Exact'
<1>1. /\ migrator'.stage = stage /\ migrator'.tables = tables /\ Current' = Current
      /\ stage # "record" /\ migrator.stage # "record" /\ migrator.stage # "idle"
      /\ migrator.stage # "finish"
  BY DEF Current, HandStages
<1>2. \A i : (Over(i))' <=> i \in disk.applied
  BY <1>1 DEF Over
<1>3. \A i : i \in disk.applied => Over(i)
  BY DEF Over
<1>4. /\ ~AllApplied(disk) /\ Current \notin disk.applied /\ t \in migrator.tables
      /\ \A v \in migrator.tables : v = "cases" <=> Current = HardenCases
  BY <1>1, MigratingIs, RebuildOf DEF HandStages, OpsInv, MigratorWork
<1>5. \A v : v # t => Home(v)' = v /\ Home(v) = v
  <2>1. \A v : v # t => Home(v) = v
    BY HomeIs
  <2>2. \A v : v # t => Home(v)' = v
    BY <1>1 DEF Home, HandStages
  <2> QED
    BY <2>1, <2>2
<1>6. /\ \A v \in Rebuilt \ {t} : v \in Tables \ Homes(t)
      /\ \A v \in Tables \ (Rebuilt \cup Leftovers) : v \in Tables \ Homes(t)
      /\ Rebuilt \subseteq Tables
  BY HomesApart, LeftoverNames DEF Homes
<1>7. ASSUME NEW v \in Rebuilt
      PROVE  Faithful(v, Rows(start, v), Form(disk, Home(v)), Rows(disk, Home(v)))'
  <2>1. CASE v = t
    BY <2>1 DEF Form, Rows
  <2>2. CASE v # t
    <3>1. Faithful(v, Rows(start, v), Form(disk', v), Rows(disk', v)) /\ Home(v)' = v
      BY <1>5, <1>6, <2>2 DEF Exact
    <3> QED
      BY <3>1 DEF Form, Rows
  <2> QED
    BY <2>1, <2>2
<1>8. ASSUME NEW v \in Tables \ Leftovers
      PROVE  Form(disk', v) \in {"missing", "new"} \/ (v \in Rebuilt /\ Form(disk', v) = "old")
  <2>1. CASE v = t
    BY <2>1
  <2>2. CASE v # t
    BY <1>6, <2>2 DEF Exact
  <2> QED
    BY <2>1, <2>2
<1>9. ASSUME NEW i \in 1 .. 8, i \in disk.applied
      PROVE  Exists(disk', Home(CreatedBy[i])')
  <2>1. CreatedBy[i] \in Tables \ Leftovers
    BY DEF CreatedBy, Tables, Rebuilt, Leftovers, LegacyOf, NewOf
  <2>2. CASE CreatedBy[i] = t
    BY <2>2
  <2>3. CASE CreatedBy[i] # t
    <3>1. Exists(disk, CreatedBy[i]) /\ Home(CreatedBy[i])' = CreatedBy[i]
      BY <1>3, <1>5, <1>9, <2>3 DEF Exact
    <3>2. Form(disk', CreatedBy[i]) = Form(disk, CreatedBy[i])
      BY <1>6, <2>1, <2>3
    <3> QED
      BY <3>1, <3>2 DEF Exists, Form
  <2> QED
    BY <2>2, <2>3
<1>10. ASSUME stage = "finish", Current = HardenCases
       PROVE  Form(disk', "cases") # "old"
  BY <1>4, <1>10 DEF HandStages
<1>11. ASSUME HardenCases \in disk.applied
       PROVE  /\ Form(disk', "cases") = "new"
              /\ EnforceUniqueness \in disk.applied => Rows(disk', "cases") = Archive(Rows(start, "cases"))
  <2>1. t # "cases"
    BY <1>4, <1>11
  <2>2. Form(disk', "cases") = Form(disk, "cases") /\ Rows(disk', "cases") = Rows(disk, "cases")
    BY <1>6, <2>1, LeftoverNames
  <2> QED
    BY <1>3, <1>11, <2>2 DEF Exact
<1>12. ASSUME Current = CreateRegistry, NEW v \in IntakeTables \ tables
       PROVE  Form(disk', v) = "new"
  <2>1. CASE v = t
    BY <1>4, <2>1, <1>12
  <2>2. CASE v # t
    <3>1. v \in IntakeTables \ migrator.tables
      BY <1>12, <2>2
    <3>2. Form(disk, v) = "new"
      BY <1>12, <3>1 DEF Exact, HandStages
    <3> QED
      BY <1>6, <2>2, <3>1, <3>2, LeftoverNames DEF IntakeTables
  <2> QED
    BY <2>1, <2>2
<1>13. ASSUME stage = "finish", Current = CreateRegistry
       PROVE  IntakeIsNormalized(disk')
  BY <1>12, <1>13 DEF IntakeIsNormalized
<1>14. CreateRegistry \notin disk.applied /\ (EnforceUniqueness \in disk.applied => HardenCases \in disk.applied)
  BY <1>4, PendingIs
<1>15. stage \in HandStages => Rebuilding' = t
  OBVIOUS
<1>16. /\ stage \in {"create", "copy"} => Exists(disk', LegacyOf[Rebuilding'])
       /\ stage \in {"copy", "drop", "restore"} => Form(disk', NewOf[Rebuilding']) = "new"
  BY <1>15 DEF HandStages
<1> HIDE DEF Rebuilding, Current
<1> QED
  BY <1>1, <1>2, <1>7, <1>8, <1>9, <1>10, <1>11, <1>12, <1>13, <1>14, <1>16
  DEF Exact, Exists, Form, Rows, IntakeIsNormalized

(* Unless something else was left aside after the step, nothing was before. *)
LEMMA TidyBefore ==
  ASSUME Tidy', NEW S, \A u \in Leftovers \ S : Form(disk', u) = Form(disk, u),
         S \cap Leftovers \subseteq InHand \cup {u \in Leftovers : ~Exists(disk, u)}, InHand' \subseteq S
  PROVE  Tidy
<1> SUFFICES ASSUME NEW u \in Leftovers \ InHand
             PROVE  ~Exists(disk, u)
  BY DEF Tidy
<1>1. CASE u \in S
  BY <1>1
<1>2. CASE u \notin S
  <2>1. ~Exists(disk', u)
    BY <1>2 DEF Tidy
  <2> QED
    BY <1>2, <2>1 DEF Exists, Form
<1> QED
  BY <1>1, <1>2

(* A table is set aside.                                                   *)
LEMMA RenameAwayExact ==
  ASSUME OpsInv, Unharmed, Tidy => Exact, RenameAway, UNCHANGED start, Tidy'
  PROVE  Exact'
<1>1. PICK t : t = Rebuilding
  OBVIOUS
<1>2. /\ migrator.stage = "rename" /\ Stage("create") /\ Exists(disk, t)
      /\ Execute(Rename(disk, t, LegacyOf[t])) /\ ~Exists(disk, LegacyOf[t])
  BY <1>1 DEF RenameAway
<1>3. /\ t \in Rebuilt /\ Homes(t) \subseteq Tables /\ IsDatabase(disk)
      /\ t # LegacyOf[t] /\ t # NewOf[t] /\ LegacyOf[t] # NewOf[t]
      /\ migrator'.stage = "create" /\ Rebuilding' = t
      /\ migrator' = [stage |-> "create", left |-> migrator.left, tables |-> migrator.tables]
  BY <1>1, <1>2, RebuildFrom, RebuildOf DEF Stage
<1>4. disk' = Rename(disk, t, LegacyOf[t])
  BY <1>2, MigratorWrites
<1>5. t \in Tables /\ LegacyOf[t] \in Tables /\ NewOf[t] \in Tables /\ t \notin Leftovers /\ Leftovers \subseteq Tables
  BY <1>3, LeftoverNames DEF Homes, Leftovers
<1>6. /\ Form(disk', LegacyOf[t]) = Form(disk, t) /\ Rows(disk', LegacyOf[t]) = Rows(disk, t)
      /\ Form(disk', t) = "missing" /\ disk'.applied = disk.applied
      /\ \A u \in Tables \ {t, LegacyOf[t]} : Form(disk', u) = Form(disk, u) /\ Rows(disk', u) = Rows(disk, u)
  <2>1. PICK legacy \in Tables : legacy = LegacyOf[t] /\ legacy # t
    BY <1>3, <1>5
  <2>2. PICK before : before = disk
    OBVIOUS
  <2>3. PICK after : after = Rename(before, t, legacy)
    OBVIOUS
  <2>4. disk' = after
    BY <1>4, <2>1, <2>2, <2>3
  <2>5. IsDatabase(before) /\ t \in Tables
    BY <1>3, <1>5, <2>2
  <2>6. /\ Form(after, legacy) = Form(before, t) /\ Rows(after, legacy) = Rows(before, t)
        /\ Form(after, t) = "missing" /\ after.applied = before.applied
        /\ \A u \in Tables \ {t, legacy} : Form(after, u) = Form(before, u) /\ Rows(after, u) = Rows(before, u)
    BY <2>1, <2>3, <2>5, RenameIs
  <2> QED
    BY <2>1, <2>2, <2>4, <2>6
<1>7. \A u \in Tables \ Homes(t) : Form(disk', u) = Form(disk, u) /\ Rows(disk', u) = Rows(disk, u)
  BY <1>6 DEF Homes
<1>8. InHand' = {LegacyOf[t]} /\ Home(t)' = LegacyOf[t] /\ Home(t) = t
  BY <1>2, <1>3 DEF InHand, Home
<1>9. Tidy
  <2>1. \A u \in Leftovers \ {LegacyOf[t]} : Form(disk', u) = Form(disk, u)
    BY <1>5, <1>6
  <2> QED
    BY <1>2, <1>8, <2>1, TidyBefore
<1>10. Faithful(t, Rows(start, t), Form(disk', LegacyOf[t]), Rows(disk', LegacyOf[t]))
  BY <1>3, <1>6, <1>8, <1>9 DEF Exact
<1>11. Exists(disk', LegacyOf[t]) /\ LegacyOf[t] \in Homes(t)
  BY <1>2, <1>6 DEF Exists, Form, Homes
<1> HIDE DEF Rebuilding
<1> QED
  BY <1>1, <1>2, <1>3, <1>6, <1>7, <1>8, <1>9, <1>10, <1>11, RebuildExact DEF HandStages

(* The new table is created next to it.                                    *)
LEMMA CreateNewExact ==
  ASSUME OpsInv, Unharmed, Tidy => Exact, CreateNew, UNCHANGED start, Tidy'
  PROVE  Exact'
<1>1. PICK t : t = Rebuilding
  OBVIOUS
<1>2. /\ migrator.stage = "create" /\ Stage("copy")
      /\ Execute(SetTable(disk, NewOf[t], [form |-> "new", rows |-> <<>>])) /\ ~Exists(disk, NewOf[t])
  BY <1>1 DEF CreateNew, Empty
<1>3. /\ t \in Rebuilt /\ Homes(t) \subseteq Tables /\ IsDatabase(disk)
      /\ t # LegacyOf[t] /\ t # NewOf[t] /\ LegacyOf[t] # NewOf[t]
      /\ migrator'.stage = "copy" /\ Rebuilding' = t
      /\ migrator' = [stage |-> "copy", left |-> migrator.left, tables |-> migrator.tables]
  BY <1>1, <1>2, RebuildFrom, RebuildOf DEF Stage
<1>4. disk' = SetTable(disk, NewOf[t], [form |-> "new", rows |-> <<>>])
  BY <1>2, MigratorWrites
<1>5. /\ t \in Tables /\ LegacyOf[t] \in Tables /\ NewOf[t] \in Tables
      /\ t \notin Leftovers /\ Leftovers \subseteq Tables
  BY <1>3, LeftoverNames DEF Homes, Leftovers
<1>6. /\ Form(disk', NewOf[t]) = "new" /\ disk'.applied = disk.applied
      /\ \A u \in Tables \ {NewOf[t]} : Form(disk', u) = Form(disk, u) /\ Rows(disk', u) = Rows(disk, u)
  BY <1>3, <1>4, <1>5, SetTableIs
<1>7. \A u \in Tables \ Homes(t) : Form(disk', u) = Form(disk, u) /\ Rows(disk', u) = Rows(disk, u)
  BY <1>6 DEF Homes
<1>8. /\ InHand = {LegacyOf[t]} /\ InHand' = {LegacyOf[t], NewOf[t]}
      /\ Home(t)' = LegacyOf[t] /\ Home(t) = LegacyOf[t]
  BY <1>1, <1>2, <1>3 DEF InHand, Home
<1>9. Exact
  <2>1. \A u \in Leftovers \ {LegacyOf[t], NewOf[t]} : Form(disk', u) = Form(disk, u)
    BY <1>5, <1>6
  <2> QED
    BY <1>2, <1>8, <2>1, TidyBefore
<1>10. /\ Faithful(t, Rows(start, t), Form(disk', LegacyOf[t]), Rows(disk', LegacyOf[t]))
       /\ Exists(disk, LegacyOf[t]) /\ Form(disk, t) \in {"missing", "new", "old"}
  BY <1>1, <1>2, <1>3, <1>5, <1>6, <1>8, <1>9 DEF Exact
<1>11. /\ Exists(disk', LegacyOf[t]) /\ LegacyOf[t] \in Homes(t)
       /\ Form(disk', t) \in {"missing", "new", "old"}
  BY <1>3, <1>5, <1>6, <1>10 DEF Exists, Form, Homes
<1> HIDE DEF Rebuilding
<1> QED
  BY <1>1, <1>2, <1>3, <1>6, <1>7, <1>8, <1>9, <1>10, <1>11, RebuildExact DEF HandStages

(* The rows are copied into it.                                            *)
LEMMA CopyRowsExact ==
  ASSUME OpsInv, Unharmed, Tidy => Exact, CopyRows, UNCHANGED start, Tidy'
  PROVE  Exact'
<1>1. PICK t : t = Rebuilding
  OBVIOUS
<1>2. /\ migrator.stage = "copy"
      /\ \E rows : /\ Execute(SetRows(disk, NewOf[t], rows))
                   /\ UNCHANGED migrator \/ (Stage("drop") /\ rows = Copied(t, Rows(disk, LegacyOf[t])))
  BY <1>1 DEF CopyRows
<1>3. PICK rows : /\ Execute(SetRows(disk, NewOf[t], rows))
                  /\ UNCHANGED migrator \/ (Stage("drop") /\ rows = Copied(t, Rows(disk, LegacyOf[t])))
  BY <1>2
<1>4. /\ t \in Rebuilt /\ Homes(t) \subseteq Tables /\ IsDatabase(disk)
      /\ t # LegacyOf[t] /\ t # NewOf[t] /\ LegacyOf[t] # NewOf[t]
      /\ \A s : Stage(s) => migrator'.stage = s /\ Rebuilding' = t
  BY <1>1, <1>2, RebuildFrom
<1>5. disk' = SetRows(disk, NewOf[t], rows)
  BY <1>3, MigratorWrites
<1>6. /\ t \in Tables /\ LegacyOf[t] \in Tables /\ NewOf[t] \in Tables
      /\ t \notin Leftovers /\ Leftovers \subseteq Tables
  BY <1>4, LeftoverNames DEF Homes, Leftovers
<1>7. /\ Rows(disk', NewOf[t]) = rows /\ disk'.applied = disk.applied
      /\ \A u \in Tables : Form(disk', u) = Form(disk, u)
      /\ \A u \in Tables \ {NewOf[t]} : Rows(disk', u) = Rows(disk, u)
  BY <1>4, <1>5, <1>6, SetRowsIs
<1>8. \A u \in Tables \ Homes(t) : Form(disk', u) = Form(disk, u) /\ Rows(disk', u) = Rows(disk, u)
  BY <1>7 DEF Homes
<1>9. PICK stage \in {"copy", "drop"} :
        /\ migrator' = [stage |-> stage, left |-> migrator.left, tables |-> migrator.tables]
        /\ Rebuilding' = t
        /\ stage = "drop" => rows = Copied(t, Rows(disk, LegacyOf[t]))
  <2>1. CASE UNCHANGED migrator
    <3>1. migrator = [stage |-> "copy", left |-> migrator.left, tables |-> migrator.tables]
      BY <1>2 DEF OpsInv, LocalType
    <3>2. Rebuilding' = t
      BY <1>1, <2>1 DEF Rebuilding
    <3> QED
      BY <2>1, <3>1, <3>2
  <2>2. CASE Stage("drop") /\ rows = Copied(t, Rows(disk, LegacyOf[t]))
    BY <1>2, <1>4, <2>2, RebuildOf DEF Stage
  <2> QED
    BY <1>3, <2>1, <2>2
<1>10. /\ InHand = {LegacyOf[t], NewOf[t]} /\ InHand' = {LegacyOf[t], NewOf[t]}
       /\ Home(t) = LegacyOf[t] /\ Home(t)' = IF stage = "copy" THEN LegacyOf[t] ELSE NewOf[t]
  BY <1>1, <1>2, <1>9 DEF InHand, Home
<1>11. Exact
  <2>1. \A u \in Leftovers \ {LegacyOf[t], NewOf[t]} : Form(disk', u) = Form(disk, u)
    BY <1>6, <1>7
  <2> QED
    BY <1>10, <2>1, TidyBefore
<1>12. /\ Faithful(t, Rows(start, t), Form(disk, LegacyOf[t]), Rows(disk, LegacyOf[t]))
       /\ Form(disk, NewOf[t]) = "new" /\ Form(disk, t) \in {"missing", "new", "old"}
  BY <1>1, <1>2, <1>4, <1>6, <1>10, <1>11 DEF Exact
<1>13. Form(disk', NewOf[t]) = "new" /\ Form(disk', t) \in {"missing", "new", "old"}
  BY <1>6, <1>7, <1>12
<1>14. PICK home \in Homes(t) :
         /\ home = Home(t)' /\ Exists(disk', home) /\ (stage = "copy" => home = LegacyOf[t])
         /\ Faithful(t, Rows(start, t), Form(disk', home), Rows(disk', home))
  <2>1. CASE stage = "copy"
    <3>1. Exists(disk, LegacyOf[t])
      BY <1>1, <1>2, <1>11 DEF Exact
    <3> QED
      BY <1>4, <1>6, <1>7, <1>10, <1>12, <2>1, <3>1 DEF Exists, Form, Homes
  <2>2. CASE stage = "drop"
    <3>1. Faithful(t, Rows(start, t), "new", rows)
      BY <1>4, <1>9, <1>12, <2>2, CopyFaithful
    <3> QED
      BY <1>7, <1>10, <1>13, <2>2, <3>1 DEF Exists, Form, Homes
  <2> QED
    BY <2>1, <2>2
<1> HIDE DEF Rebuilding
<1> QED
  BY <1>1, <1>2, <1>4, <1>7, <1>8, <1>9, <1>11, <1>13, <1>14, RebuildExact DEF HandStages

(* The table set aside is dropped.                                         *)
LEMMA DropLegacyExact ==
  ASSUME OpsInv, Unharmed, Tidy => Exact, DropLegacy, UNCHANGED start, Tidy'
  PROVE  Exact'
<1>1. PICK t : t = Rebuilding
  OBVIOUS
<1>2. /\ migrator.stage = "drop" /\ Stage("restore")
      /\ Execute(SetTable(disk, LegacyOf[t], [form |-> "missing", rows |-> <<>>]))
  BY <1>1 DEF DropLegacy, Missing
<1>3. /\ t \in Rebuilt /\ Homes(t) \subseteq Tables /\ IsDatabase(disk)
      /\ t # LegacyOf[t] /\ t # NewOf[t] /\ LegacyOf[t] # NewOf[t]
      /\ migrator'.stage = "restore" /\ Rebuilding' = t
      /\ migrator' = [stage |-> "restore", left |-> migrator.left, tables |-> migrator.tables]
  BY <1>1, <1>2, RebuildFrom, RebuildOf DEF Stage
<1>4. disk' = SetTable(disk, LegacyOf[t], [form |-> "missing", rows |-> <<>>])
  BY <1>2, MigratorWrites
<1>5. /\ t \in Tables /\ LegacyOf[t] \in Tables /\ NewOf[t] \in Tables
      /\ t \notin Leftovers /\ Leftovers \subseteq Tables
  BY <1>3, LeftoverNames DEF Homes, Leftovers
<1>6. /\ disk'.applied = disk.applied
      /\ \A u \in Tables \ {LegacyOf[t]} : Form(disk', u) = Form(disk, u) /\ Rows(disk', u) = Rows(disk, u)
  BY <1>3, <1>4, <1>5, SetTableIs
<1>7. \A u \in Tables \ Homes(t) : Form(disk', u) = Form(disk, u) /\ Rows(disk', u) = Rows(disk, u)
  BY <1>6 DEF Homes
<1>8. /\ InHand = {LegacyOf[t], NewOf[t]} /\ InHand' = {NewOf[t]}
      /\ Home(t)' = NewOf[t] /\ Home(t) = NewOf[t]
  BY <1>1, <1>2, <1>3 DEF InHand, Home
<1>9. Exact
  <2>1. \A u \in Leftovers \ {LegacyOf[t], NewOf[t]} : Form(disk', u) = Form(disk, u)
    BY <1>5, <1>6
  <2> QED
    BY <1>8, <2>1, TidyBefore
<1>10. /\ Faithful(t, Rows(start, t), Form(disk, NewOf[t]), Rows(disk, NewOf[t]))
       /\ Form(disk, NewOf[t]) = "new" /\ Form(disk, t) \in {"missing", "new", "old"}
  BY <1>1, <1>2, <1>3, <1>5, <1>8, <1>9 DEF Exact
<1>11. /\ Faithful(t, Rows(start, t), Form(disk', NewOf[t]), Rows(disk', NewOf[t]))
       /\ Form(disk', NewOf[t]) = "new" /\ Form(disk', t) \in {"missing", "new", "old"}
       /\ Exists(disk', NewOf[t]) /\ NewOf[t] \in Homes(t)
  BY <1>3, <1>5, <1>6, <1>10 DEF Exists, Form, Homes
<1> HIDE DEF Rebuilding
<1> QED
  BY <1>1, <1>2, <1>3, <1>6, <1>7, <1>8, <1>9, <1>11, RebuildExact DEF HandStages

(* The new table takes its name.                                           *)
LEMMA RenameBackExact ==
  ASSUME OpsInv, Unharmed, Tidy => Exact, RenameBack, UNCHANGED start, Tidy'
  PROVE  Exact'
<1>1. PICK t : t = Rebuilding
  OBVIOUS
<1>2. PICK tables : tables = migrator.tables \ {t}
  OBVIOUS
<1>3. PICK stage \in {"finish", "rename"} : stage = IF tables = {} THEN "finish" ELSE "rename"
  OBVIOUS
<1>4. /\ migrator.stage = "restore"
      /\ migrator' = [stage |-> stage, left |-> migrator.left, tables |-> tables]
      /\ Execute(Rename(disk, NewOf[t], t))
  BY <1>1, <1>2, <1>3 DEF RenameBack, OpsInv, LocalType
<1>5. /\ t \in Rebuilt /\ Homes(t) \subseteq Tables /\ IsDatabase(disk)
      /\ t # LegacyOf[t] /\ t # NewOf[t] /\ LegacyOf[t] # NewOf[t]
  BY <1>1, <1>4, RebuildFrom
<1>6. disk' = Rename(disk, NewOf[t], t)
  BY <1>4, MigratorWrites
<1>7. /\ t \in Tables /\ LegacyOf[t] \in Tables /\ NewOf[t] \in Tables
      /\ t \notin Leftovers /\ Leftovers \subseteq Tables
  BY <1>5, LeftoverNames DEF Homes, Leftovers
<1>8. /\ Form(disk', t) = Form(disk, NewOf[t]) /\ Rows(disk', t) = Rows(disk, NewOf[t])
      /\ disk'.applied = disk.applied
      /\ \A u \in Tables \ {t, NewOf[t]} : Form(disk', u) = Form(disk, u) /\ Rows(disk', u) = Rows(disk, u)
  <2>1. PICK new \in Tables : new = NewOf[t] /\ new # t
    BY <1>5, <1>7
  <2>2. PICK before : before = disk
    OBVIOUS
  <2>3. PICK after : after = Rename(before, new, t)
    OBVIOUS
  <2>4. disk' = after
    BY <1>6, <2>1, <2>2, <2>3
  <2>5. IsDatabase(before) /\ t \in Tables
    BY <1>5, <1>7, <2>2
  <2>6. /\ Form(after, t) = Form(before, new) /\ Rows(after, t) = Rows(before, new)
        /\ after.applied = before.applied
        /\ \A u \in Tables \ {new, t} : Form(after, u) = Form(before, u) /\ Rows(after, u) = Rows(before, u)
    BY <2>1, <2>3, <2>5, RenameIs
  <2> QED
    BY <2>1, <2>2, <2>4, <2>6
<1>9. \A u \in Tables \ Homes(t) : Form(disk', u) = Form(disk, u) /\ Rows(disk', u) = Rows(disk, u)
  BY <1>8 DEF Homes
<1>10. InHand = {NewOf[t]} /\ InHand' = {} /\ Home(t)' = t /\ Home(t) = NewOf[t]
  BY <1>1, <1>4 DEF InHand, Home
<1>11. Exact
  <2>1. \A u \in Leftovers \ {NewOf[t]} : Form(disk', u) = Form(disk, u)
    BY <1>7, <1>8
  <2> QED
    BY <1>10, <2>1, TidyBefore
<1>12. /\ Faithful(t, Rows(start, t), Form(disk, NewOf[t]), Rows(disk, NewOf[t]))
       /\ Form(disk, NewOf[t]) = "new"
  BY <1>1, <1>4, <1>5, <1>10, <1>11 DEF Exact
<1>13. /\ Faithful(t, Rows(start, t), Form(disk', t), Rows(disk', t))
       /\ Form(disk', t) = "new" /\ Exists(disk', t) /\ t \in Homes(t)
  BY <1>8, <1>12 DEF Exists, Form, Homes
<1> HIDE DEF Rebuilding
<1> QED
  BY <1>1, <1>2, <1>3, <1>4, <1>5, <1>8, <1>9, <1>10, <1>11, <1>13, RebuildExact DEF HandStages

(* A migration that is interrupted leaves a table aside.                   *)
LEMMA DyingExact ==
  ASSUME OpsInv, Tidy => Exact, MigratorDies, UNCHANGED start, Tidy'
  PROVE  Exact'
<1>1. UNCHANGED disk /\ migrator'.stage = "idle" /\ migrator.stage # "idle"
  BY DEF MigratorDies, txVars, NotMigrating
<1>2. \A u \in Leftovers : ~Exists(disk, u)
  BY <1>1 DEF Tidy, InHand
<1>3. Exact
  BY <1>2 DEF Tidy
<1>4. migrator.stage \notin HandStages
  <2> SUFFICES ASSUME migrator.stage \in HandStages
               PROVE  FALSE
    OBVIOUS
  <2>1. Rebuilding \in Rebuilt
    BY RebuildOf DEF HandStages
  <2>2. Exists(disk, LegacyOf[Rebuilding]) \/ Exists(disk, NewOf[Rebuilding])
    BY <1>3 DEF Exact, HandStages, Exists, Form
  <2> QED
    BY <1>2, <2>1, <2>2, LeftoverNames
<1>5. \A t : Home(t) = t /\ Home(t)' = t
  BY <1>1, <1>4 DEF Home, HandStages
<1>6. \A i : Over(i)' => Over(i)
  BY <1>1 DEF Over
<1>7. ASSUME NEW i \in 1 .. 8, Over(i)'
      PROVE  Exists(disk', Home(CreatedBy[i])')
  BY <1>1, <1>3, <1>5, <1>6, <1>7 DEF Exact
<1> QED
  BY <1>1, <1>3, <1>5, <1>6, <1>7 DEF Exact, IntakeIsNormalized, Form, Rows, Exists

(* CREATE TABLE IF NOT EXISTS makes an empty table or nothing.             *)
LEMMA CreatedIfMissing ==
  ASSUME NEW db, IsDatabase(db), NEW t \in Tables
  PROVE  LET new == CreateIfMissing(db, t) IN
         /\ Exists(new, t) /\ new.applied = db.applied
         /\ \A u \in Tables : \/ Form(new, u) = Form(db, u) /\ Rows(new, u) = Rows(db, u)
                              \/ u = t /\ ~Exists(db, u) /\ Form(new, u) = "new" /\ Rows(new, u) = <<>>
<1> DEFINE made == SetTable(db, t, [form |-> "new", rows |-> <<>>])
<1>1. CASE Exists(db, t)
  BY <1>1 DEF CreateIfMissing
<1>2. CASE ~Exists(db, t)
  <2>1. CreateIfMissing(db, t) = made
    BY <1>2 DEF CreateIfMissing, Empty
  <2>2. /\ Form(made, t) = "new" /\ Rows(made, t) = <<>> /\ made.applied = db.applied
        /\ \A u \in Tables \ {t} : Form(made, u) = Form(db, u) /\ Rows(made, u) = Rows(db, u)
    BY SetTableIs
  <2> HIDE DEF made
  <2>3. Exists(made, t)
    BY <2>2 DEF Exists, Form
  <2> QED
    BY <1>2, <2>1, <2>2, <2>3
<1> QED
  BY <1>1, <1>2

(* What the last statements of a migration do to the tables.               *)
LEMMA FinishedForms ==
  ASSUME NEW db, IsDatabase(db), NEW i \in Migrations
  PROVE  LET new == Finished(i, db) IN
         /\ new.applied = db.applied
         /\ \A u \in Leftovers : Form(new, u) = Form(db, u)
         /\ \A u \in Tables : \/ Form(new, u) = Form(db, u)
                              \/ ~Exists(db, u) /\ Form(new, u) = "new"
         /\ \A u \in Tables : \/ Form(new, u) = Form(db, u) /\ Rows(new, u) = Rows(db, u)
                              \/ ~Exists(db, u) /\ Rows(new, u) = <<>>
                              \/ i = EnforceUniqueness /\ u = "cases"
         /\ i \in 1 .. 8 => Exists(new, CreatedBy[i])
         /\ i = HardenCases => Exists(new, "cases")
         /\ i = CreateRegistry => Exists(new, "practices")
         /\ i = EnforceUniqueness => Rows(new, "cases") = Archive(Rows(db, "cases"))
<1> DEFINE new == Finished(i, db)
<1>1. HardenCases = 9 /\ EnforceUniqueness = 10 /\ NormalizeIntake = 11 /\ CreateRegistry = 12
        /\ i \in 1 .. 12
  BY DEF HardenCases, EnforceUniqueness, NormalizeIntake, CreateRegistry, Migrations
<1>2. /\ "cases" \in Tables \ Leftovers /\ "practices" \in Tables \ Leftovers
      /\ \A j \in 1 .. 8 : CreatedBy[j] \in Tables \ Leftovers
      /\ Leftovers \subseteq Tables
  BY DEF Tables, Rebuilt, LegacyOf, NewOf, Leftovers, CreatedBy
<1>3. CASE i = 10
  <2>1. new = [Archived(db) EXCEPT !.index = TRUE]
    BY <1>1, <1>3 DEF Finished
  <2>2. Rows(new, "cases") = Archive(Rows(db, "cases")) /\ \A t \in Tables : Form(new, t) = Form(db, t)
    BY <2>1, ArchivedRows, Zenon
  <2>3. new.applied = db.applied /\ \A u \in Tables \ {"cases"} : Rows(new, u) = Rows(db, u)
    <3> DEFINE rows == Archived(db).table["cases"].rows
               mid == SetRows(db, "cases", rows)
    <3>1. PICK some : Archived(db) = SetRows(db, "cases", some)
      BY DEF Archived
    <3>2. PICK made : made = SetRows(db, "cases", some)
      OBVIOUS
    <3>3. /\ IsDatabase(made) /\ made.applied = db.applied
          /\ \A u \in Tables \ {"cases"} : Rows(made, u) = Rows(db, u)
      BY <1>2, <3>2, SetRowsIs
    <3>4. new = [made EXCEPT !.index = TRUE]
      BY <2>1, <3>1, <3>2
    <3>5. new.table = made.table /\ new.applied = made.applied
      BY <3>3, <3>4 DEF IsDatabase
    <3> QED
      BY <3>3, <3>5 DEF Rows
  <2> QED
    BY <1>1, <1>2, <1>3, <2>2, <2>3
<1>4. CASE i = 11
  <2>1. new = db
    BY <1>1, <1>4 DEF Finished
  <2> QED
    BY <1>1, <1>4, <2>1
<1>5. ASSUME NEW t \in Tables \ Leftovers, new = CreateIfMissing(db, t), i # 10, i # 11,
             i \in 1 .. 8 => t = CreatedBy[i], i = 9 => t = "cases", i = 12 => t = "practices"
      PROVE  /\ new.applied = db.applied
             /\ \A u \in Leftovers : Form(new, u) = Form(db, u)
             /\ \A u \in Tables : \/ Form(new, u) = Form(db, u)
                                  \/ ~Exists(db, u) /\ Form(new, u) = "new"
             /\ \A u \in Tables : \/ Form(new, u) = Form(db, u) /\ Rows(new, u) = Rows(db, u)
                                  \/ ~Exists(db, u) /\ Rows(new, u) = <<>>
                                  \/ i = EnforceUniqueness /\ u = "cases"
             /\ i \in 1 .. 8 => Exists(new, CreatedBy[i])
             /\ i = HardenCases => Exists(new, "cases")
             /\ i = CreateRegistry => Exists(new, "practices")
             /\ i = EnforceUniqueness => Rows(new, "cases") = Archive(Rows(db, "cases"))
  <2>1. /\ Exists(new, t) /\ new.applied = db.applied
        /\ \A u \in Tables : \/ Form(new, u) = Form(db, u) /\ Rows(new, u) = Rows(db, u)
                             \/ u = t /\ ~Exists(db, u) /\ Form(new, u) = "new" /\ Rows(new, u) = <<>>
    BY <1>5, CreatedIfMissing
  <2> HIDE DEF new
  <2> QED
    BY <1>1, <1>2, <1>5, <2>1
<1>6. CASE i \in 1 .. 8
  <2>1. new = CreateIfMissing(db, CreatedBy[i])
    BY <1>1, <1>6 DEF Finished
  <2> QED
    BY <1>2, <1>5, <1>6, <2>1
<1>7. CASE i = 9
  <2>1. new = CreateIfMissing(db, "cases")
    BY <1>1, <1>7 DEF Finished
  <2> QED
    BY <1>2, <1>5, <1>7, <2>1
<1>8. CASE i = 12
  <2>1. new = CreateIfMissing(db, "practices")
    BY <1>1, <1>8 DEF Finished
  <2> QED
    BY <1>2, <1>5, <1>8, <2>1
<1> QED
  BY <1>1, <1>3, <1>4, <1>6, <1>7, <1>8

(* What follows holds while migrations are pending.                        *)
LEMMA FinishMigrationExact ==
  ASSUME OpsInv, Unharmed, Tidy => Exact, FinishMigration, UNCHANGED start, Numbered(start), Tidy'
  PROVE  Exact'
<1> USE DEF HandStages
<1>1. PICK i : i = Current
  OBVIOUS
<1>2. /\ migrator.stage = "finish" /\ Stage("record") /\ Execute(Finished(i, disk))
  BY <1>1 DEF FinishMigration
<1>3. /\ ~AllApplied(disk) /\ IsDatabase(disk) /\ i \in Migrations \ disk.applied
  BY <1>1, <1>2, MigratingIs
<1>4. disk' = Finished(i, disk)
  BY <1>2, MigratorWrites
<1>5. /\ disk'.applied = disk.applied
      /\ \A u \in Leftovers : Form(disk', u) = Form(disk, u)
      /\ \A u \in Tables : \/ Form(disk', u) = Form(disk, u)
                           \/ ~Exists(disk, u) /\ Form(disk', u) = "new"
      /\ \A u \in Tables : \/ Form(disk', u) = Form(disk, u) /\ Rows(disk', u) = Rows(disk, u)
                           \/ ~Exists(disk, u) /\ Rows(disk', u) = <<>>
                           \/ i = EnforceUniqueness /\ u = "cases"
      /\ i \in 1 .. 8 => Exists(disk', CreatedBy[i])
      /\ i = HardenCases => Exists(disk', "cases")
      /\ i = CreateRegistry => Exists(disk', "practices")
      /\ i = EnforceUniqueness => Rows(disk', "cases") = Archive(Rows(disk, "cases"))
  BY <1>3, <1>4, FinishedForms
<1>6. migrator' = [stage |-> "record", left |-> migrator.left, tables |-> migrator.tables]
  BY <1>2 DEF Stage, OpsInv, LocalType
<1>7. migrator'.stage = "record" /\ Current' = i
  BY <1>1, <1>6 DEF Current
<1>8. \A j : (Over(j)' <=> j \in disk.applied \/ j = i) /\ (Over(j) <=> j \in disk.applied)
  BY <1>2, <1>5, <1>7 DEF Over
<1>9. \A t : Home(t) = t /\ Home(t)' = t
  BY <1>2, <1>7 DEF Home
<1>10. Exact
  <2>1. InHand = {} /\ InHand' = {}
    BY <1>2, <1>7 DEF InHand
  <2> QED
    BY <1>5, <2>1, TidyBefore
<1>11. /\ HardenCases = 9 /\ EnforceUniqueness = 10 /\ CreateRegistry = 12
       /\ \A j \in 1 .. 8 : CreatedBy[j] \in Tables
       /\ {"cases", "practices"} \subseteq Tables /\ IntakeTables \subseteq Tables \ {"cases"}
       /\ Tables \ Leftovers \subseteq Tables /\ Rebuilt \subseteq Tables
       /\ "cases" \in Tables \ Leftovers
  BY DEF HardenCases, EnforceUniqueness, CreateRegistry, CreatedBy, Tables, Rebuilt, LegacyOf, NewOf,
    Leftovers, IntakeTables
<1>12. \A u \in Tables : Exists(disk, u) => Exists(disk', u)
  BY <1>5 DEF Exists, Form
<1>13. MissingIsEmpty(disk)
  BY DEF Unharmed
<1>14. ASSUME NEW t \in Rebuilt
       PROVE  Faithful(t, Rows(start, t), Form(disk', t), Rows(disk', t))
  <2>1. Faithful(t, Rows(start, t), Form(disk, t), Rows(disk, t))
    BY <1>9, <1>10 DEF Exact
  <2>2. CASE Form(disk', t) = Form(disk, t) /\ Rows(disk', t) = Rows(disk, t)
    BY <2>1, <2>2
  <2>3. CASE ~Exists(disk, t) /\ Rows(disk', t) = <<>>
    <3>1. Rows(disk, t) = <<>>
      BY <1>11, <1>13, <2>3 DEF MissingIsEmpty
    <3> QED
      BY <2>1, <2>3, <3>1, EmptyFaithful
  <2>4. CASE i = EnforceUniqueness /\ t = "cases"
    <3>1. \A id \in DOMAIN Rows(start, "cases") : IsRow(Rows(start, "cases")[id])
      BY DEF Numbered, IsRow, Keys, Rows
    <3>2. Rows(disk', "cases") = Archive(Rows(start, "cases"))
      BY <1>5, <2>1, <2>4, <3>1, ArchiveTwice DEF Faithful
    <3> QED
      BY <2>4, <3>2 DEF Faithful
  <2> QED
    BY <1>5, <1>11, <2>2, <2>3, <2>4
<1>15. ASSUME NEW t \in Tables \ Leftovers
       PROVE  Form(disk', t) \in {"missing", "new"} \/ (t \in Rebuilt /\ Form(disk', t) = "old")
  BY <1>5, <1>10, <1>11 DEF Exact
<1>16. ASSUME NEW j \in 1 .. 8, j \in disk.applied \/ j = i
       PROVE  Exists(disk', CreatedBy[j])
  <2>1. CASE j \in disk.applied
    BY <1>8, <1>9, <1>10, <1>11, <1>12, <2>1 DEF Exact
  <2>2. CASE j = i
    BY <1>5, <2>2
  <2> QED
    BY <1>16, <2>1, <2>2
<1>17. HardenCases \in disk.applied \/ HardenCases = i => Form(disk', "cases") = "new"
  <2>1. CASE HardenCases \in disk.applied
    <3>1. Form(disk, "cases") = "new"
      BY <1>8, <1>10, <2>1 DEF Exact
    <3> QED
      BY <1>5, <1>11, <3>1
  <2>2. CASE HardenCases = i
    <3>1. Form(disk, "cases") \in {"missing", "new"}
      BY <1>1, <1>2, <1>10, <1>11, <2>2 DEF Exact
    <3>2. Exists(disk', "cases")
      BY <1>5, <2>2
    <3> QED
      BY <1>5, <1>11, <3>1, <3>2 DEF Exists, Form
  <2> QED
    BY <2>1, <2>2
<1>18. EnforceUniqueness \in disk.applied \/ EnforceUniqueness = i =>
         Rows(disk', "cases") = Archive(Rows(start, "cases"))
  <2>1. CASE EnforceUniqueness \in disk.applied
    <3>1. Form(disk, "cases") = "new" /\ Rows(disk, "cases") = Archive(Rows(start, "cases"))
      BY <1>3, <1>8, <1>10, <2>1, PendingIs DEF Exact
    <3>2. i # EnforceUniqueness /\ Exists(disk, "cases")
      BY <1>3, <2>1, <3>1 DEF Exists, Form
    <3> QED
      BY <1>5, <1>11, <3>1, <3>2
  <2>2. CASE EnforceUniqueness = i
    <3>1. \A id \in DOMAIN Rows(start, "cases") : IsRow(Rows(start, "cases")[id])
      BY DEF Numbered, IsRow, Keys, Rows
    <3>2. Rows(disk, "cases") \in {Rows(start, "cases"), Archive(Rows(start, "cases"))}
      BY <1>9, <1>10, LeftoverNames DEF Exact, Faithful
    <3> QED
      BY <1>5, <2>2, <3>1, <3>2, ArchiveTwice
  <2> QED
    BY <2>1, <2>2
<1>19. CreateRegistry \in disk.applied \/ CreateRegistry = i =>
         IntakeIsNormalized(disk') /\ Exists(disk', "practices")
  <2>1. CreateRegistry \notin disk.applied
    BY <1>3, PendingIs
  <2>2. CASE CreateRegistry = i
    <3>1. IntakeIsNormalized(disk)
      BY <1>1, <1>2, <1>10, <2>2 DEF Exact
    <3>2. IntakeIsNormalized(disk')
      BY <1>5, <1>11, <3>1 DEF IntakeIsNormalized, Exists, Form
    <3> QED
      BY <1>5, <2>2, <3>2
  <2> QED
    BY <2>1, <2>2
<1> HIDE DEF Current, Rebuilding
<1> QED
  BY <1>7, <1>8, <1>9, <1>14, <1>15, <1>16, <1>17, <1>18, <1>19
  DEF Exact, Exists, Form, Rows, IntakeIsNormalized

(* A migration is recorded.                                                *)
LEMMA RecordMigrationExact ==
  ASSUME OpsInv, Unharmed, Tidy => Exact, RecordMigration, UNCHANGED start, Tidy'
  PROVE  Exact' /\ migrator'.stage \in {"idle", "start"}
<1> USE DEF HandStages
<1>1. PICK i : i = Current
  OBVIOUS
<1>2. /\ migrator.stage = "record" /\ Execute([disk EXCEPT !.applied = @ \cup {i}])
      /\ migrator'.stage \in {"idle", "start"}
  BY <1>1 DEF RecordMigration, NotMigrating
<1>3. disk' = [disk EXCEPT !.applied = @ \cup {i}] /\ IsDatabase(disk)
  BY <1>2, MigratorWrites, MigratingIs
<1>4. disk'.table = disk.table /\ disk'.applied = disk.applied \cup {i}
  BY <1>3 DEF IsDatabase
<1>5. \A j : Over(j)' <=> Over(j)
  BY <1>1, <1>2, <1>4 DEF Over
<1>6. \A t : Home(t) = t /\ Home(t)' = t
  BY <1>2 DEF Home
<1>7. \A t : Form(disk', t) = Form(disk, t) /\ Rows(disk', t) = Rows(disk, t)
  BY <1>4 DEF Form, Rows
<1>8. Exact
  <2>1. InHand = {} /\ InHand' = {}
    BY <1>2 DEF InHand
  <2> QED
    BY <1>7, <2>1, TidyBefore
<1>9. \A j \in 1 .. 8 : Over(j)' => Exists(disk', Home(CreatedBy[j])')
  BY <1>5, <1>6, <1>7, <1>8 DEF Exact, Exists, Form
<1> HIDE DEF Current, Rebuilding
<1> QED
  BY <1>2, <1>5, <1>6, <1>7, <1>8, <1>9 DEF Exact, Exists, Form, Rows, IntakeIsNormalized

(* The command begins.                                                     *)
LEMMA StartMigratingExact ==
  ASSUME OpsInv, Tidy => Exact, StartMigrating, UNCHANGED start, Tidy'
  PROVE  Exact'
<1>1. migrator.stage = "idle" /\ migrator'.stage = "start" /\ UNCHANGED disk
  BY DEF StartMigrating, txVars
<1>2. \A j : Over(j)' <=> Over(j)
  BY <1>1 DEF Over
<1>3. \A t : Home(t) = t /\ Home(t)' = t
  BY <1>1 DEF Home
<1>4. Exact
  BY <1>1 DEF Tidy, InHand, Exists
<1>5. \A j \in 1 .. 8 : Over(j)' => Exists(disk', Home(CreatedBy[j])')
  BY <1>1, <1>2, <1>3, <1>4 DEF Exact
<1> HIDE DEF Current, Rebuilding
<1> QED
  BY <1>1, <1>2, <1>3, <1>4, <1>5 DEF Exact, Exists, Form, Rows, IntakeIsNormalized

(* A migration begins: the tables to rebuild are those in an old form.     *)
LEMMA StartMigrationExact ==
  ASSUME OpsInv, Tidy => Exact, StartMigration, UNCHANGED start, Tidy'
  PROVE  Exact'
<1> DEFINE tables == RebuiltBy(Current, disk)
<1>1. PICK stage \in {"finish", "rename"} : stage = IF tables = {} THEN "finish" ELSE "rename"
  OBVIOUS
<1>2. /\ migrator.stage = "start" /\ UNCHANGED disk
      /\ migrator' = [stage |-> stage, left |-> migrator.left, tables |-> tables]
  BY <1>1 DEF StartMigration, txVars, OpsInv, LocalType
<1>3. migrator'.stage = stage /\ migrator'.tables = tables /\ Current' = Current
  BY <1>2 DEF Current
<1>4. \A j : Over(j)' <=> Over(j)
  BY <1>1, <1>2, <1>3 DEF Over
<1>5. \A t : Home(t) = t /\ Home(t)' = t
  BY <1>1, <1>2, <1>3 DEF Home
<1>6. Exact
  <2>1. InHand = {} /\ InHand' = {}
    BY <1>1, <1>2, <1>3 DEF InHand
  <2> QED
    BY <1>2, <2>1 DEF Tidy, Exists
<1>7. stage = "finish" /\ Current = HardenCases => Form(disk, "cases") # "old"
  <2> SUFFICES ASSUME tables = {}, Current = HardenCases
               PROVE  Form(disk, "cases") # "old"
    BY <1>1
  <2>1. tables = {t \in {"cases"} : Form(disk, t) = "old"}
    BY DEF RebuiltBy, HardenCases, NormalizeIntake, CreateRegistry
  <2> QED
    BY <2>1
<1>8. ASSUME Current = CreateRegistry
      PROVE  IF stage = "finish" THEN IntakeIsNormalized(disk) ELSE IntakeTables \subseteq tables
  <2>1. HardenCases = 9 /\ NormalizeIntake = 11 /\ CreateRegistry = 12
    BY DEF HardenCases, NormalizeIntake, CreateRegistry
  <2>2. 6 \in disk.applied /\ 7 \in disk.applied /\ 8 \in disk.applied
    <3>1. \A j \in Migrations \ disk.applied : 12 <= j
      BY <1>2, <1>8, <2>1, MigratingIs
    <3> QED
      BY <3>1 DEF Migrations
  <2>3. CreatedBy[6] = "intake_states" /\ CreatedBy[7] = "intake_fields" /\ CreatedBy[8] = "intake_events"
    BY DEF CreatedBy
  <2>4. Exists(disk, "intake_states") /\ Exists(disk, "intake_fields") /\ Exists(disk, "intake_events")
    BY <1>5, <1>6, <2>2, <2>3 DEF Exact, Over
  <2>5. tables = {t \in IntakeTables : Exists(disk, t) /\ Exists(disk, "intake_states") /\ ~IntakeIsNormalized(disk)}
    BY <1>8, <2>1 DEF RebuiltBy
  <2>6. \A t \in IntakeTables : Exists(disk, t)
    BY <2>4 DEF IntakeTables
  <2>7. tables = IF IntakeIsNormalized(disk) THEN {} ELSE IntakeTables
    BY <2>4, <2>5, <2>6
  <2>8. IntakeTables # {}
    BY DEF IntakeTables
  <2> QED
    BY <1>1, <2>7, <2>8
<1>9. \A j \in 1 .. 8 : Over(j)' => Exists(disk', Home(CreatedBy[j])')
  BY <1>2, <1>4, <1>5, <1>6 DEF Exact
<1> HIDE DEF Current, Rebuilding, tables
<1> QED
  BY <1>1, <1>2, <1>3, <1>4, <1>5, <1>6, <1>7, <1>8, <1>9 DEF Exact, Exists, Form, Rows, IntakeIsNormalized

-----------------------------------------------------------------------------
(* The upgraded database *)

(* When every migration is recorded and nothing is left aside, the upgrade *)
(* did what it says.                                                       *)
LEMMA ExactIsUpgraded ==
  ASSUME NEW db, Numbered(start),
         \A t \in Rebuilt : Faithful(t, Rows(start, t), Form(db, t), Rows(db, t)),
         \A t \in Tables \ Leftovers : Form(db, t) \in {"missing", "new"} \/ (t \in Rebuilt /\ Form(db, t) = "old"),
         \A i \in 1 .. 8 : Exists(db, CreatedBy[i]),
         Form(db, "cases") = "new", Rows(db, "cases") = Archive(Rows(start, "cases")),
         IntakeIsNormalized(db), Exists(db, "practices")
  PROVE  Upgraded(db)
<1>1. ASSUME NEW t \in Tables \ Leftovers
      PROVE  Form(db, t) = "new"
  <2>1. t \in {"cases"} \cup IntakeTables \cup
              {"processed_messages", "audit_events", "consent_states", "consent_events", "practices"}
    BY DEF Tables, Rebuilt, LegacyOf, IntakeTables
  <2>2. CASE t \in {"cases"} \cup IntakeTables
    BY <2>2 DEF IntakeIsNormalized
  <2>3. CASE t \in {"processed_messages", "audit_events", "consent_states", "consent_events", "practices"}
    <3>1. Exists(db, t)
      <4>1. CreatedBy[2] = "processed_messages" /\ CreatedBy[3] = "audit_events"
              /\ CreatedBy[4] = "consent_states" /\ CreatedBy[5] = "consent_events"
        BY DEF CreatedBy
      <4>2. Exists(db, CreatedBy[2]) /\ Exists(db, CreatedBy[3]) /\ Exists(db, CreatedBy[4])
              /\ Exists(db, CreatedBy[5])
        OBVIOUS
      <4> QED
        BY <2>3, <4>1, <4>2
    <3>2. t \notin Rebuilt
      BY <2>3, LeftoverNames
    <3> QED
      BY <3>1, <3>2 DEF Exists, Form
  <2> QED
    BY <2>1, <2>2, <2>3
<1>2. ASSUME NEW id \in Keys(start, "cases")
      PROVE  LET row == Rows(start, "cases")[id] IN
             /\ id \in Keys(db, "cases")
             /\ Rows(db, "cases")[id].subject = row.subject
             /\ Rows(db, "cases")[id].status =
                  IF row.status = "draft" /\ \E d \in DraftsOf(start, row.subject) \ {id} : d < id
                  THEN "duplicate_archived" ELSE row.status
  <2> DEFINE row == Rows(start, "cases")[id]
  <2>1. /\ Keys(db, "cases") = DOMAIN Rows(db, "cases") /\ Keys(start, "cases") = DOMAIN Rows(start, "cases")
    BY DEF Keys, Rows
  <2>2. /\ id \in Keys(db, "cases")
        /\ Rows(db, "cases")[id] = IF LateDraft(Rows(start, "cases"), id)
                                   THEN [row EXCEPT !.status = "duplicate_archived"] ELSE row
    BY <1>2, <2>1 DEF Archive
  <2>3. IsRow(row)
    BY <1>2 DEF Numbered, IsRow
  <2>4. LateDraft(Rows(start, "cases"), id) <=>
          row.status = "draft" /\ \E d \in DraftsOf(start, row.subject) \ {id} : d < id
    <3>1. \A k \in Keys(start, "cases") : k \in Nat
      BY DEF Numbered
    <3>2. \A d \in Keys(start, "cases") : d < id => d # id
      BY <1>2, <3>1
    <3>3. \A d : d \in DraftsOf(start, row.subject) <=>
                   /\ d \in DOMAIN Rows(start, "cases")
                   /\ Rows(start, "cases")[d].status = "draft" /\ Rows(start, "cases")[d].subject = row.subject
      BY <2>1 DEF DraftsOf, Drafts
    <3> QED
      BY <2>1, <3>2, <3>3 DEF LateDraft
  <2> HIDE DEF row
  <2>5. /\ [row EXCEPT !.status = "duplicate_archived"].subject = row.subject
        /\ [row EXCEPT !.status = "duplicate_archived"].status = "duplicate_archived"
    BY <2>3 DEF IsRow
  <2> QED
    BY <2>2, <2>4, <2>5 DEF row
<1>3. DOMAIN Copied("intake_fields", Rows(start, "intake_fields")) \subseteq Keys(db, "intake_fields")
  <2>1. Form(db, "intake_fields") = "new"
    BY DEF IntakeIsNormalized, IntakeTables
  <2> QED
    BY <2>1, LeftoverNames DEF Faithful, Converted, Keys, Rows
<1>4. Rows(db, "intake_states") = Copied("intake_states", Rows(start, "intake_states"))
  <2>1. Form(db, "intake_states") = "new"
    BY DEF IntakeIsNormalized, IntakeTables
  <2> QED
    BY <2>1, LeftoverNames DEF Faithful, Converted
<1> QED
  BY <1>1, <1>2, <1>3, <1>4 DEF Upgraded

(* While migrations are pending the ids of the first cases are numbers.    *)
LEMMA StartIs ==
  ASSUME FaithInv, OpsInv, ~AllApplied(disk)
  PROVE  Numbered(start)
<1>1. AtRest(start) /\ start.applied \subseteq disk.applied
  BY StartAssumption DEF FaithInv
<1>2. ~AllApplied(start)
  BY <1>1 DEF AllApplied, Pending
<1> QED
  BY <1>1, <1>2 DEF AtRest

(* The counts of events only grow.                                         *)
LEMMA BudgetGrows ==
  ASSUME budget \in [Events -> Nat], [Next]_vars
  PROVE  budget' \in [Events -> Nat] /\ (budget'.message = 0 => budget.message = 0)
<1>1. "message" \in Events
  BY DEF Events
<1>2. ASSUME NEW what \in Events, Spend(what)
      PROVE  budget' \in [Events -> Nat] /\ (budget'.message = 0 => budget.message = 0)
  <2>1. budget' = [budget EXCEPT ![what] = @ + 1]
    BY <1>2 DEF Spend
  <2> QED
    BY <1>1, <2>1
<1>3. {"interruption", "fault", "message", "command", "backup"} \subseteq Events
  BY DEF Events
<1>4. CASE UNCHANGED budget
  BY <1>4
<1>5. CASE MigratorStep
  BY <1>2, <1>3, <1>4, <1>5 DEF MigratorStep
<1>6. CASE OperatorStep
  BY <1>2, <1>3, <1>4, <1>6 DEF OperatorStep
<1>7. CASE RuntimeStep
  <2>1. UNCHANGED budget \/ Spend("message") \/ Spend("fault")
    BY <1>7 DEF RuntimeStep, Serve, ServeBadly, StartRuntime, TakeMessage, SetConsentState,
      AppendConsentEvent, ResolveIntake, SetIntakeState, SetIntakeField, AppendIntakeEvent, BeginPractice,
      BeginPracticeRefused, CheckPractice, InsertPractice, CommitPractice, CommitPracticeRefused,
      UnwindPractice, RuntimeLocked, TableIsMissing, RuntimeStatementThrows, RuntimeDies
  <2> QED
    BY <1>2, <1>3, <1>4, <2>1
<1>8. CASE BackupStep
  BY <1>2, <1>3, <1>4, <1>8 DEF BackupStep, StartBackup, EndBackup
<1>9. CASE UNCHANGED vars
  BY <1>4, <1>9 DEF vars
<1> QED
  BY <1>5, <1>6, <1>7, <1>8, <1>9 DEF Next

(* The runtime that has taken no message writes nothing.                   *)
LEMMA RuntimeRests ==
  ASSUME FaithInv, RuntimeStep, budget'.message = 0
  PROVE  runtime'.pc \in {"down", "idle"}
<1>1. [Next]_vars /\ budget \in [Events -> Nat] /\ "message" \in Events
  BY DEF Next, FaithInv, Events
<1>2. runtime.pc \in {"down", "idle"}
  BY <1>1, BudgetGrows DEF FaithInv
<1>3. ~TakeMessage
  <2> SUFFICES ASSUME Spend("message")
               PROVE  FALSE
    BY DEF TakeMessage
  <2>1. budget' = [budget EXCEPT !["message"] = @ + 1]
    BY DEF Spend
  <2> QED
    BY <1>1, <2>1
<1>4. StartRuntime \/ RuntimeDies
  BY <1>2, <1>3 DEF At, RuntimeStep, Serve, ServeBadly, SetConsentState,
    AppendConsentEvent, ResolveIntake, SetIntakeState, SetIntakeField, AppendIntakeEvent, BeginPractice,
    BeginPracticeRefused, CheckPractice, InsertPractice, CommitPractice, CommitPracticeRefused,
    UnwindPractice, RuntimeLocked, TableIsMissing, RuntimeStatementThrows
<1> QED
  BY <1>4 DEF StartRuntime, RuntimeDies, Ready, Down

(* A case that is created takes no place of one there was at the start.    *)
LEMMA NewCaseIsNew ==
  ASSUME start \in StartDatabases, NEW db, Upgraded(db), NEW s \in Clients, DraftsOf(db, s) = {}
  PROVE  s \notin Keys(start, "cases")
<1> SUFFICES ASSUME s \in Keys(start, "cases")
             PROVE  FALSE
  OBVIOUS
<1> DEFINE row == Rows(start, "cases")[s]
<1>1. AtRest(start) /\ s \notin Nat
  BY StartAssumption
<1>2. row.subject = s /\ row.status = "draft"
  BY <1>1 DEF AtRest, CasesOfClients
<1>3. AllApplied(start)
  BY <1>1 DEF AtRest, Numbered
<1>4. OneDraftEach(start)
  <2>1. EnforceUniqueness \in start.applied
    BY <1>3 DEF AllApplied, Pending, EnforceUniqueness, Migrations
  <2> QED
    BY <1>1, <2>1 DEF AtRest
<1>5. s \in DraftsOf(start, s)
  BY <1>2 DEF DraftsOf, Drafts
<1>6. DraftsOf(start, row.subject) \ {s} = {}
  BY <1>2, <1>4, <1>5 DEF OneDraftEach
<1>7. /\ s \in Keys(db, "cases") /\ Rows(db, "cases")[s].subject = row.subject
      /\ Rows(db, "cases")[s].status =
           IF row.status = "draft" /\ \E d \in DraftsOf(start, row.subject) \ {s} : d < s
           THEN "duplicate_archived" ELSE row.status
  BY DEF Upgraded
<1> HIDE DEF row
<1>8. Rows(db, "cases")[s].subject = s /\ Rows(db, "cases")[s].status = "draft"
  BY <1>2, <1>6, <1>7
<1> QED
  BY <1>7, <1>8 DEF DraftsOf, Drafts

(* A row that is put into an upgraded database leaves it upgraded.         *)
LEMMA PutUpgraded ==
  ASSUME start \in StartDatabases, NEW db, IsDatabase(db), Upgraded(db),
         NEW t \in Tables, NEW key, NEW row,
         t = "cases" => key \in Clients /\ DraftsOf(db, key) = {},
         t = "intake_states" => budget.message # 0
  PROVE  /\ Upgraded(SetRows(db, t, Put(Rows(db, t), key, row)))
         /\ NoLeftovers(SetRows(db, t, Put(Rows(db, t), key, row))) => NoLeftovers(db)
<1> DEFINE rows == Put(Rows(db, t), key, row)
           new == SetRows(db, t, rows)
<1>1. /\ DOMAIN Rows(db, t) \subseteq DOMAIN rows
      /\ \A k \in DOMAIN Rows(db, t) \ {key} : rows[k] = Rows(db, t)[k]
  BY DEF Put
<1> HIDE DEF rows
<1>2. /\ Rows(new, t) = rows
      /\ \A u \in Tables : Form(new, u) = Form(db, u)
      /\ \A u \in Tables \ {t} : Rows(new, u) = Rows(db, u)
  BY SetRowsIs
<1> HIDE DEF new
<1>3. {"cases", "intake_fields", "intake_states"} \subseteq Tables /\ Leftovers \subseteq Tables
  BY LeftoverNames
<1>4. \A u \in Tables : Keys(db, u) \subseteq Keys(new, u)
  BY <1>1, <1>2 DEF Keys, Rows
<1>5. \A id \in Keys(start, "cases") :
        id \in Keys(db, "cases") => Rows(new, "cases")[id] = Rows(db, "cases")[id]
  <2>1. CASE t # "cases"
    BY <1>2, <1>3, <2>1
  <2>2. CASE t = "cases"
    <3>1. key \notin Keys(start, "cases")
      BY <2>2, NewCaseIsNew
    <3>2. Keys(db, "cases") = DOMAIN Rows(db, "cases")
      BY DEF Keys, Rows
    <3> QED
      BY <1>1, <1>2, <2>2, <3>1, <3>2
  <2> QED
    BY <2>1, <2>2
<1>6. budget.message = 0 => Rows(new, "intake_states") = Rows(db, "intake_states")
  BY <1>2, <1>3
<1>7. Upgraded(new)
  BY <1>2, <1>3, <1>4, <1>5, <1>6 DEF Upgraded
<1>8. NoLeftovers(new) => NoLeftovers(db)
  BY <1>2, <1>3 DEF NoLeftovers, Exists, Form
<1> QED
  BY <1>7, <1>8 DEF new, rows

-----------------------------------------------------------------------------
(* The upgrade is faithful *)

(* Whoever serves an upgraded database leaves it upgraded.                 *)
LEMMA ServingFaithful ==
  ASSUME OpsInv, FaithInv, AllApplied(disk), NEW c \in Connections, Serves(c)
  PROVE  \A db \in Kept' : NoLeftovers(db) => Upgraded(db)
<1>1. \A db \in Kept : NoLeftovers(db) => Upgraded(db)
  BY DEF FaithInv
<1>2. CASE UNCHANGED txVars
  <2>1. Kept' = Kept
    BY <1>2 DEF Kept, txVars
  <2> QED
    BY <1>1, <2>1
<1>3. CASE Read(c) \/ BeginRead(c) \/ Close(c) \/ Enter(c) \/ EnterFails(c) \/ Leave(c) \/ Unwind(c)
  <2>1. Kept' \subseteq Kept
    BY <1>3, KeptOtherwise DEF OpsInv
  <2> QED
    BY <1>1, <2>1
<1>4. View(c) \in Kept /\ IsDatabase(View(c))
  BY ViewIs
<1>5. CASE Write(c, View(c))
  <2>1. Kept' \subseteq Kept
    BY <1>4, <1>5, KeptByWrite
  <2> QED
    BY <1>1, <2>1
<1>6. CASE \E t \in Tables : \E key, row : Puts(c, t, key, row)
  <2>1. PICK t \in Tables : \E key, row : Puts(c, t, key, row)
    BY <1>6
  <2>2. PICK key, row : Puts(c, t, key, row)
    BY <2>1
  <2>3. PICK db : db = View(c)
    OBVIOUS
  <2>4. PICK new : new = SetRows(db, t, Put(Rows(db, t), key, row))
    OBVIOUS
  <2>5. /\ Write(c, new) /\ db \in Kept /\ IsDatabase(db)
        /\ t = "cases" => key \in Clients /\ DraftsOf(db, key) = {}
        /\ t = "intake_states" => budget.message # 0
    BY <1>4, <2>2, <2>3, <2>4 DEF Puts, FaithInv, At
  <2>6. Kept' \subseteq Kept \cup {new}
    BY <2>5, KeptByWrite
  <2>7. ASSUME NoLeftovers(new)
        PROVE  Upgraded(new)
    <3>1. \A u \in Tables : Form(new, u) = Form(db, u)
      BY <2>4, <2>5, SetRowsIs
    <3>2. NoLeftovers(db)
      BY <2>7, <3>1, LeftoverNames DEF NoLeftovers, Exists, Form
    <3>3. Upgraded(db)
      BY <1>1, <2>5, <3>2
    <3> QED
      BY <2>4, <2>5, <3>3, PutUpgraded DEF FaithInv
  <2> QED
    BY <1>1, <2>6, <2>7
<1> QED
  BY <1>2, <1>3, <1>5, <1>6 DEF Serves

(* What is upgraded stays so.                                              *)
LEMMA UpgradedStays ==
  ASSUME UNCHANGED start, budget'.message = 0 => budget.message = 0, NEW db, Upgraded(db)
  PROVE  Upgraded(db)'
BY DEF Upgraded, Keys, Rows, Drafts, DraftsOf

(* While migrations are pending an upgrade that leaves nothing aside comes *)
(* to what it says.                                                        *)
LEMMA MigratorExact ==
  ASSUME OpsInv, Unharmed, Tidy => Exact, MigratorStep, Numbered(start), Tidy'
  PROVE  Exact'
<1>1. UNCHANGED start
  BY DEF MigratorStep
<1> QED
  BY <1>1, StartMigratingExact, StartMigrationExact, RenameAwayExact, CreateNewExact, CopyRowsExact,
     DropLegacyExact, RenameBackExact, FinishMigrationExact, RecordMigrationExact, DyingExact
  DEF MigratorStep, Migrate

(* The recorded migrations stay recorded; the last step is a record.       *)
LEMMA MigratorRecords ==
  ASSUME OpsInv, MigratorStep
  PROVE  /\ ~AllApplied(disk)
         /\ RecordMigration \/ disk'.applied = disk.applied
         /\ disk.applied \subseteq disk'.applied
<1>1. ~AllApplied(disk)
  <2>1. migrator.stage = "idle" => ~AllApplied(disk)
    BY DEF MigratorStep, Migrate, StartMigrating, StartMigration, RenameAway, CreateNew, CopyRows,
      DropLegacy, RenameBack, FinishMigration, RecordMigration, MigratorDies
  <2> QED
    BY <2>1, MigratingIs
<1>2. CASE StartMigrating \/ StartMigration \/ MigratorDies
  BY <1>1, <1>2 DEF StartMigrating, StartMigration, MigratorDies, txVars
<1>3. CASE RenameAway \/ CreateNew \/ CopyRows \/ DropLegacy \/ RenameBack
  <2>1. migrator.stage \in {"rename", "create", "copy", "drop", "restore"}
    BY <1>3 DEF RenameAway, CreateNew, CopyRows, DropLegacy, RenameBack
  <2>2. IsDatabase(disk)
    BY <2>1, RebuildOf
  <2>3. /\ \A t, content : SetTable(disk, t, content).applied = disk.applied
        /\ \A t, rows : SetRows(disk, t, rows).applied = disk.applied
        /\ \A t, u : Rename(disk, t, u).applied = disk.applied
    BY <2>2 DEF SetTable, SetRows, Rename, IsDatabase
  <2>4. PICK content : Execute(content) /\ content.applied = disk.applied
    BY <1>3, <2>3 DEF RenameAway, CreateNew, CopyRows, DropLegacy, RenameBack
  <2> QED
    BY <1>1, <2>4, MigratorWrites
<1>4. CASE FinishMigration
  <2>1. Execute(Finished(Current, disk)) /\ migrator.stage = "finish"
    BY <1>4 DEF FinishMigration
  <2>2. IsDatabase(disk) /\ Current \in Migrations
    BY <2>1, MigratingIs
  <2>3. Finished(Current, disk).applied = disk.applied
    BY <2>2, FinishedForms
  <2> QED
    BY <1>1, <2>1, <2>3, MigratorWrites
<1>5. CASE RecordMigration
  <2>1. Execute([disk EXCEPT !.applied = @ \cup {Current}]) /\ migrator.stage = "record"
    BY <1>5 DEF RecordMigration
  <2>2. disk' = [disk EXCEPT !.applied = @ \cup {Current}] /\ IsDatabase(disk)
    BY <2>1, MigratorWrites, MigratingIs
  <2>3. disk'.applied = disk.applied \cup {Current}
    BY <2>2 DEF IsDatabase
  <2> QED
    BY <1>1, <1>5, <2>3
<1> QED
  BY <1>2, <1>3, <1>4, <1>5 DEF MigratorStep, Migrate

(* The step that records the last migration ends the upgrade.              *)
LEMMA LastMigrationUpgrades ==
  ASSUME OpsInv, Unharmed, Tidy => Exact, RecordMigration, UNCHANGED start, Numbered(start),
         AllApplied(disk')
  PROVE  \A db \in Kept' : NoLeftovers(db) => Upgraded(db)
<1>1. Execute([disk EXCEPT !.applied = @ \cup {Current}])
  BY DEF RecordMigration
<1>2. Kept' = {disk'}
  <2>1. pending' = disk' /\ saves' = saves
    BY <1>1, MigratorWrites
  <2> QED
    BY <2>1 DEF Kept, Unharmed, Range
<1> SUFFICES ASSUME NoLeftovers(disk')
             PROVE  Upgraded(disk')
  BY <1>2
<1>3. Tidy'
  BY DEF NoLeftovers, Tidy, Exists
<1>4. Exact' /\ migrator'.stage \in {"idle", "start"}
  BY <1>3, RecordMigrationExact
<1>5. \A t : Home(t)' = t
  BY <1>4 DEF Home
<1>6. \A i \in 1 .. 12 : i \in disk'.applied
  BY DEF AllApplied, Pending, Migrations
<1>7. /\ \A i \in 1 .. 8 : Over(i)'
      /\ Over(HardenCases)' /\ Over(EnforceUniqueness)' /\ Over(CreateRegistry)'
  BY <1>6 DEF Over, HardenCases, EnforceUniqueness, CreateRegistry
<1>8. \A t \in Rebuilt : Faithful(t, Rows(start, t), Form(disk', t), Rows(disk', t))
  BY <1>4, <1>5 DEF Exact, Form, Rows
<1>9. \A i \in 1 .. 8 : Exists(disk', CreatedBy[i])
  BY <1>4, <1>5, <1>7 DEF Exact, Exists
<1>10. /\ \A t \in Tables \ Leftovers : Form(disk', t) \in {"missing", "new"} \/ (t \in Rebuilt /\ Form(disk', t) = "old")
       /\ Form(disk', "cases") = "new" /\ Rows(disk', "cases") = Archive(Rows(start, "cases"))
       /\ IntakeIsNormalized(disk') /\ Exists(disk', "practices")
  BY <1>4, <1>7 DEF Exact, Form, Rows, Exists, IntakeIsNormalized
<1> QED
  BY <1>8, <1>9, <1>10, ExactIsUpgraded

(* The migrator keeps the upgrade faithful.                                *)
LEMMA MigratorFaithful ==
  ASSUME OpsInv, UpgradeInv, FaithInv, MigratorStep
  PROVE  FaithInv'
<1>1. /\ ~AllApplied(disk)
      /\ RecordMigration \/ disk'.applied = disk.applied
      /\ disk.applied \subseteq disk'.applied
      /\ UNCHANGED <<start, runtime>>
  BY MigratorRecords DEF MigratorStep
<1>2. Unharmed /\ (Tidy => Exact) /\ start.applied \subseteq disk.applied /\ Numbered(start)
  BY <1>1, StartIs DEF UpgradeInv, FaithInv
<1>3. Tidy' => Exact'
  BY <1>2, MigratorExact
<1>4. budget' \in [Events -> Nat] /\ (budget'.message = 0 => budget.message = 0)
  BY BudgetGrows DEF FaithInv, Next
<1>5. AllApplied(disk') => RecordMigration
  BY <1>1 DEF AllApplied, Pending
<1>6. AllApplied(disk') => \A db \in Kept' : NoLeftovers(db) => Upgraded(db)
  BY <1>1, <1>2, <1>5, LastMigrationUpgrades
<1>7. AllApplied(disk') => \A db \in Kept' : NoLeftovers(db) => Upgraded(db)'
  BY <1>1, <1>4, <1>6, UpgradedStays
<1>8. start \in StartDatabases /\ (budget.message = 0 => runtime.pc \in {"down", "idle"})
  BY DEF FaithInv
<1>9. start'.applied \subseteq disk'.applied /\ start' \in StartDatabases
        /\ (budget'.message = 0 => runtime'.pc \in {"down", "idle"})
  BY <1>1, <1>2, <1>4, <1>8
<1> QED
  BY <1>3, <1>4, <1>7, <1>9 DEF FaithInv

(* The tables of a questionnaire in its present form need no conversion.   *)
LEMMA ConstrainedIsConverted ==
  ASSUME NEW db, AtRest(db), NEW t \in {"intake_states", "intake_fields"}, Form(db, t) = "new"
  PROVE  Converted(t, Rows(db, t), Rows(db, t))
<1>1. t \in Tables /\ Rows(db, t) = [k \in Keys(db, t) |-> Rows(db, t)[k]] /\ Constrained(db)
  BY LeftoverNames DEF AtRest
<1>2. Keys(db, t) = DOMAIN Rows(db, t)
  BY DEF Keys, Rows
<1>3. CASE t = "intake_states"
  <2>1. \A s \in DOMAIN Rows(db, t) : CopiedState(Rows(db, t)[s]) = Rows(db, t)[s]
    BY <1>1, <1>2, <1>3 DEF Constrained, StateOf, CopiedState
  <2>2. Copied(t, Rows(db, t)) = [s \in DOMAIN Rows(db, t) |-> CopiedState(Rows(db, t)[s])]
    BY <1>3 DEF Copied
  <2> QED
    BY <1>1, <1>2, <1>3, <2>1, <2>2 DEF Converted
<1>4. CASE t = "intake_fields"
  <2> SUFFICES ASSUME NEW k \in DOMAIN Copied("intake_fields", Rows(db, t))
               PROVE  k \in DOMAIN Rows(db, t)
    BY <1>4 DEF Converted
  <2>1. PICK old \in DOMAIN Rows(db, t) : \E f \in CopiedFields(old[2], Rows(db, t)[old]) : k = <<old[1], f>>
    BY CopiedFieldKeys
  <2>2. old[2] \in FieldNames /\ old = <<old[1], old[2]>>
    BY <1>1, <1>2, <1>4 DEF Constrained
  <2> QED
    BY <2>1, <2>2 DEF CopiedFields
<1> QED
  BY <1>3, <1>4

(* Where a client has one draft at most, nothing is left to archive.       *)
LEMMA NothingToArchive ==
  ASSUME NEW db, AtRest(db), OneDraftEach(db), Numbered(db)
  PROVE  Archive(Rows(db, "cases")) = Rows(db, "cases")
<1>1. Keys(db, "cases") = DOMAIN Rows(db, "cases")
  BY DEF Keys, Rows
<1>2. ASSUME NEW id \in DOMAIN Rows(db, "cases")
      PROVE  ~LateDraft(Rows(db, "cases"), id)
  <2> SUFFICES ASSUME LateDraft(Rows(db, "cases"), id)
               PROVE  FALSE
    OBVIOUS
  <2> DEFINE s == Rows(db, "cases")[id].subject
  <2>1. s \in Clients
    BY <1>1 DEF AtRest, CasesOfClients
  <2>2. PICK d \in DOMAIN Rows(db, "cases") :
          Rows(db, "cases")[d].status = "draft" /\ Rows(db, "cases")[d].subject = s /\ d < id
    BY DEF LateDraft
  <2>3. d \in DraftsOf(db, s) /\ id \in DraftsOf(db, s)
    BY <1>1, <2>2 DEF LateDraft, DraftsOf, Drafts
  <2>4. d = id
    BY <2>1, <2>3 DEF OneDraftEach
  <2>5. d \in Nat
    BY <1>1 DEF Numbered
  <2> QED
    BY <2>2, <2>4, <2>5
<1>3. "cases" \in Tables
  BY LeftoverNames
<1>4. Rows(db, "cases") = [id \in DOMAIN Rows(db, "cases") |-> Rows(db, "cases")[id]]
  BY <1>1, <1>3 DEF AtRest
<1> QED
  BY <1>2, <1>4 DEF Archive

(* A database that was upgraded before is upgraded.                        *)
LEMMA StartIsUpgraded ==
  ASSUME AtRest(start), AllApplied(start), NoLeftovers(start)
  PROVE  Upgraded(start)
<1>1. \A i \in 1 .. 12 : i \in start.applied
  BY DEF AllApplied, Pending, Migrations
<1>2. /\ \A i \in 1 .. 8 : Exists(start, CreatedBy[i])
      /\ Form(start, "cases") = "new" /\ IntakeIsNormalized(start) /\ Exists(start, "practices")
      /\ OneDraftEach(start)
  BY <1>1 DEF AtRest, WellShaped, HardenCases, EnforceUniqueness, CreateRegistry
<1>3. ASSUME NEW t \in Tables \ Leftovers
      PROVE  Form(start, t) = "new"
  <2>1. t \in {"cases"} \cup IntakeTables \cup
              {"processed_messages", "audit_events", "consent_states", "consent_events", "practices"}
    BY DEF Tables, Rebuilt, LegacyOf, IntakeTables
  <2>2. CASE t \in {"cases"} \cup IntakeTables
    BY <1>2, <2>2 DEF IntakeIsNormalized
  <2>3. CASE t \in {"processed_messages", "audit_events", "consent_states", "consent_events", "practices"}
    <3>1. Exists(start, t)
      <4>1. CreatedBy[2] = "processed_messages" /\ CreatedBy[3] = "audit_events"
              /\ CreatedBy[4] = "consent_states" /\ CreatedBy[5] = "consent_events"
        BY DEF CreatedBy
      <4>2. Exists(start, CreatedBy[2]) /\ Exists(start, CreatedBy[3]) /\ Exists(start, CreatedBy[4])
              /\ Exists(start, CreatedBy[5])
        BY <1>2
      <4> QED
        BY <1>2, <2>3, <4>1, <4>2
    <3>2. t \notin Rebuilt
      BY <2>3, LeftoverNames
    <3> QED
      BY <1>3, <3>1, <3>2 DEF AtRest, Exists, Form
  <2> QED
    BY <2>1, <2>2, <2>3
<1>4. ASSUME NEW id \in Keys(start, "cases")
      PROVE  DraftsOf(start, Rows(start, "cases")[id].subject) \ {id} = {} \/ Rows(start, "cases")[id].status # "draft"
  <2>1. Rows(start, "cases")[id].subject \in Clients
    BY DEF AtRest, CasesOfClients
  <2>2. Rows(start, "cases")[id].status = "draft" => id \in DraftsOf(start, Rows(start, "cases")[id].subject)
    BY DEF DraftsOf, Drafts
  <2> QED
    BY <1>2, <2>1, <2>2 DEF OneDraftEach
<1>5. Form(start, "intake_states") = "new" /\ Form(start, "intake_fields") = "new"
  BY <1>2 DEF IntakeIsNormalized, IntakeTables
<1>6. /\ Converted("intake_states", Rows(start, "intake_states"), Rows(start, "intake_states"))
      /\ Converted("intake_fields", Rows(start, "intake_fields"), Rows(start, "intake_fields"))
  BY <1>5, ConstrainedIsConverted
<1>7. DOMAIN Rows(start, "intake_fields") = Keys(start, "intake_fields")
  BY DEF Keys, Rows
<1> QED
  BY <1>3, <1>4, <1>6, <1>7 DEF Upgraded, Converted

(* An interrupted upgrade that left nothing aside has come to something.   *)
LEMMA StartIsExact ==
  ASSUME AtRest(start), ~AllApplied(start), NoLeftovers(start), disk = start, migrator.stage = "idle"
  PROVE  Exact
<1>1. \A t : Home(t) = t
  BY DEF Home
<1>2. \A i : Over(i) <=> i \in start.applied
  BY DEF Over
<1>3. WellShaped(start) /\ Numbered(start) /\ start.applied \subseteq Migrations
  BY DEF AtRest, IsDatabase
<1>4. ASSUME NEW t \in Rebuilt
      PROVE  Faithful(t, Rows(start, t), Form(start, t), Rows(start, t))
  BY ConstrainedIsConverted DEF Faithful
<1>5. HardenCases = 9 /\ EnforceUniqueness = 10 /\ CreateRegistry = 12
  BY DEF HardenCases, EnforceUniqueness, CreateRegistry
<1>6. \A i \in 1 .. 8 : i \in start.applied => Exists(start, CreatedBy[i])
  BY <1>3, <1>5 DEF WellShaped
<1>7. EnforceUniqueness \in start.applied => Rows(start, "cases") = Archive(Rows(start, "cases"))
  BY <1>3, NothingToArchive DEF AtRest
<1>8. \A t \in Tables \ Leftovers : Form(start, t) \in {"missing", "new"} \/ (t \in Rebuilt /\ Form(start, t) = "old")
  BY DEF AtRest
<1> HIDE DEF Current, Rebuilding
<1> QED
  BY <1>1, <1>2, <1>3, <1>4, <1>6, <1>7, <1>8 DEF Exact, WellShaped

(* At first nothing has been done.                                         *)
LEMMA InitFaithInv ==
  ASSUME Init
  PROVE  FaithInv
<1>1. /\ disk = start /\ pending = start /\ saves = [c \in Connections |-> <<>>]
      /\ migrator.stage = "idle" /\ runtime.pc = "down" /\ budget \in [Events -> Nat]
      /\ start \in StartDatabases /\ AtRest(start)
  BY StartAssumption DEF Init, InitTx, NotMigrating, Down, Ready
<1>2. CASE AllApplied(disk)
  <2>1. Kept = {start}
    BY <1>1 DEF Kept, Range
  <2> QED
    BY <1>1, <1>2, <2>1, StartIsUpgraded DEF FaithInv
<1>3. CASE ~AllApplied(disk)
  <2>1. Tidy => NoLeftovers(start)
    BY <1>1 DEF Tidy, InHand, NoLeftovers
  <2> QED
    BY <1>1, <1>3, <2>1, StartIsExact DEF FaithInv
<1> QED
  BY <1>2, <1>3

(* Once every migration is recorded, it stays so.                          *)
LEMMA AppliedStays ==
  ASSUME OpsInv, UpgradeInv, OperatorStep \/ RuntimeStep \/ BackupStep
  PROVE  /\ AllApplied(disk) /\ AllApplied(disk')
         /\ \E c \in Connections : Serves(c)
<1>1. AllApplied(disk) /\ \E c \in Connections : Serves(c)
  BY ConnectionsAssumption, OperatorServes, RuntimeServes, BackupServes
<1>2. disk \in Kept /\ disk' \in Kept'
  BY DEF Kept
<1>3. \A db \in Kept' : \E a \in Kept : Grows(a, db)
  BY <1>1, ServingGrows
<1>4. PICK a \in Kept : Grows(a, disk')
  BY <1>2, <1>3
<1> QED
  BY <1>1, <1>4 DEF UpgradeInv, AllApplied, Pending, Grows

(* Every step keeps an upgrade faithful.                                   *)
LEMMA FaithInvStep ==
  ASSUME OpsInv, UpgradeInv, FaithInv, [Next]_vars
  PROVE  FaithInv'
<1>1. CASE UNCHANGED vars
  <2> USE <1>1 DEF vars, txVars
  <2>1. UNCHANGED <<start, budget, runtime, disk, migrator>> /\ Kept' = Kept
    BY DEF Kept
  <2>2. Tidy' = Tidy /\ (Exact => Exact')
    <3>1. Rebuilding' = Rebuilding /\ Current' = Current
      BY DEF Rebuilding, Current
    <3>2. InHand' = InHand /\ \A t : Home(t)' = Home(t)
      BY <3>1 DEF InHand, Home
    <3>3. \A i : Over(i)' = Over(i)
      BY <3>1 DEF Over
    <3>4. Tidy' = Tidy
      BY <3>2 DEF Tidy
    <3> HIDE DEF Rebuilding, Current
    <3>5. Exact => Exact'
      BY <3>1, <3>2, <3>3 DEF Exact
    <3> QED
      BY <3>4, <3>5
  <2>3. \A db : Upgraded(db) => Upgraded(db)'
    BY UpgradedStays
  <2> QED
    BY <2>1, <2>2, <2>3 DEF FaithInv
<1>2. CASE MigratorStep
  BY <1>2, MigratorFaithful
<1>3. CASE OperatorStep \/ RuntimeStep \/ BackupStep
  <2>1. AllApplied(disk) /\ AllApplied(disk') /\ \E c \in Connections : Serves(c)
    BY <1>3, AppliedStays
  <2>2. UNCHANGED start /\ (RuntimeStep \/ UNCHANGED runtime)
    BY <1>3 DEF OperatorStep, RuntimeStep, BackupStep
  <2>3. budget' \in [Events -> Nat] /\ (budget'.message = 0 => budget.message = 0)
    BY BudgetGrows DEF FaithInv
  <2>4. budget'.message = 0 => runtime'.pc \in {"down", "idle"}
    BY <2>2, <2>3, RuntimeRests DEF FaithInv
  <2>5. \A db \in Kept' : NoLeftovers(db) => Upgraded(db)'
    BY <2>1, <2>2, <2>3, ServingFaithful, UpgradedStays
  <2> QED
    BY <2>1, <2>2, <2>3, <2>4, <2>5 DEF FaithInv
<1> QED
  BY <1>1, <1>2, <1>3 DEF Next

(* When every migration is recorded and no table was left aside, all       *)
(* tables are in their present form with all their rows, of several drafts *)
(* of a client the earliest is still one and the others are archived, and  *)
(* no questionnaire has lost its place.                                    *)
THEOREM UpgradeFaithful == Spec => []UninterruptedUpgradeIsFaithful
<1>1. Init => FaithInv
  BY InitFaithInv
<1>2. OpsInv /\ UpgradeInv /\ FaithInv /\ [Next]_vars => FaithInv'
  BY FaithInvStep
<1>3. FaithInv => UninterruptedUpgradeIsFaithful
  <2> SUFFICES ASSUME FaithInv, AllApplied(disk), NoLeftovers(disk)
               PROVE  UninterruptedUpgradeIsFaithful
    BY DEF UninterruptedUpgradeIsFaithful
  <2>1. Upgraded(disk)
    BY DEF FaithInv, Kept
  <2>2. Copied("intake_states", Rows(start, "intake_states")) =
          [s \in Keys(start, "intake_states") |->
             IF StateOf(start, s) = "asking_name" THEN "asking_identity" ELSE StateOf(start, s)]
    BY DEF Copied, CopiedState, StateOf, Keys, Rows
  <2> QED
    BY <2>1, <2>2 DEF Upgraded, UninterruptedUpgradeIsFaithful, UpToDate
<1> QED
  BY <1>1, <1>2, <1>3, OperationsInvariant, UpgradePreserves, PTL DEF Spec
=============================================================================
