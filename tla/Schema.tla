------------------------------- MODULE Schema -------------------------------
(***************************************************************************)
(* The content of the database file and the statements the migrations run  *)
(* on it (persistence/sqlite/migrations.ts), as functions from a content   *)
(* to the next one.                                                        *)
(*                                                                         *)
(* A table is its form, "old" before the migration that rebuilds it and    *)
(* "new" after it, and its rows, a function from primary keys to rows.     *)
(* Column names and types, time stamps and metadata are left out.          *)
(***************************************************************************)
EXTENDS ClientDialogue, Integers, Sequences

CONSTANTS
  SeveralWords   (* the stored names that have a first and a last name     *)

Missing == [form |-> "missing", rows |-> <<>>]
Empty == [form |-> "new", rows |-> <<>>]

(* What rebuilding a table leaves beside it when it is interrupted.        *)
LegacyOf ==
  [cases |-> "cases__m17_legacy", intake_states |-> "intake_states__m26_legacy",
   intake_fields |-> "intake_fields__m26_legacy", intake_events |-> "intake_events__m26_legacy"]
NewOf ==
  [cases |-> "cases__m17_new", intake_states |-> "intake_states__m26_new",
   intake_fields |-> "intake_fields__m26_new", intake_events |-> "intake_events__m26_new"]

Rebuilt == DOMAIN LegacyOf
Leftovers == {LegacyOf[t] : t \in Rebuilt} \cup {NewOf[t] : t \in Rebuilt}

Tables == Rebuilt \cup Leftovers \cup
  {"processed_messages", "audit_events", "consent_states", "consent_events", "practices"}

(* The migrations, by number.                                              *)
HardenCases == 9
EnforceUniqueness == 10
NormalizeIntake == 11
CreateRegistry == 12
Migrations == 1 .. 12

(* The tables of migrations 1 to 8.                                        *)
CreatedBy ==
  <<"cases", "processed_messages", "audit_events", "consent_states", "consent_events",
    "intake_states", "intake_fields", "intake_events">>

-----------------------------------------------------------------------------
Exists(db, t) == db.table[t].form # "missing"

Form(db, t) == db.table[t].form
Rows(db, t) == db.table[t].rows
Keys(db, t) == DOMAIN db.table[t].rows

SetTable(db, t, content) == [db EXCEPT !.table[t] = content]
SetRows(db, t, rows) == [db EXCEPT !.table[t].rows = rows]

(* INSERT or UPSERT of one row.                                            *)
Put(rows, key, row) == [k \in DOMAIN rows \cup {key} |-> IF k = key THEN row ELSE rows[k]]

(* ALTER TABLE t RENAME TO u                                               *)
Rename(db, t, u) == [db EXCEPT !.table[u] = db.table[t], !.table[t] = Missing]

(* CREATE TABLE IF NOT EXISTS                                              *)
CreateIfMissing(db, t) == IF Exists(db, t) THEN db ELSE SetTable(db, t, Empty)

(* A content of the file.                                                  *)
IsDatabase(db) ==
  /\ db = [table |-> db.table, index |-> db.index, applied |-> db.applied]
  /\ db.table = [t \in Tables |-> [form |-> Form(db, t), rows |-> Rows(db, t)]]
  /\ db.applied \subseteq Migrations

-----------------------------------------------------------------------------
(* INSERT ... SELECT of a rebuild                                          *)

CopiedState(state) == IF state = "asking_name" THEN "asking_identity" ELSE state

(* The fields a row of the old table becomes: a name is split in two, a    *)
(* field that is not supported any more is dropped.                        *)
CopiedFields(field, value) ==
  IF field \in FieldNames THEN {field}
  ELSE IF field # "name" THEN {}
  ELSE IF value \in SeveralWords THEN {"firstName", "lastName"} ELSE {"firstName"}

(* The rows of t once its old rows are copied.  (Only releases without a   *)
(* firstName wrote a name: no client has both, which the plain INSERT at   *)
(* migrations.ts:195 would refuse.)                                        *)
Copied(t, rows) ==
  CASE t = "intake_states" -> [s \in DOMAIN rows |-> CopiedState(rows[s])]
    [] t = "intake_fields" ->
         [k \in UNION {{<<old[1], f>> : f \in CopiedFields(old[2], rows[old])} : old \in DOMAIN rows} |->
            IF k \in DOMAIN rows THEN rows[k] ELSE rows[<<k[1], "name">>]]
    [] OTHER -> rows

-----------------------------------------------------------------------------
Drafts(db) == {id \in Keys(db, "cases") : Rows(db, "cases")[id].status = "draft"}
DraftsOf(db, s) == {id \in Drafts(db) : Rows(db, "cases")[id].subject = s}

(* Mutant: the latest draft is the one that stays.                         *)
ArchivedButLatest(db) ==
  SetRows(db, "cases", [id \in Keys(db, "cases") |->
    LET row == Rows(db, "cases")[id] IN
    IF \E other \in DraftsOf(db, row.subject) : id \in Drafts(db) /\ other > id
    THEN [row EXCEPT !.status = "duplicate_archived"] ELSE row])

(* remediateDuplicateDraftCases: of the drafts of a client the earliest    *)
(* stays one.  (Before the registry of practices the ids of the cases are  *)
(* numbers in the order of creation.)                                      *)
Archived(db) ==
  SetRows(db, "cases", [id \in Keys(db, "cases") |->
    LET row == Rows(db, "cases")[id] IN
    IF \E other \in DraftsOf(db, row.subject) : id \in Drafts(db) /\ other < id
    THEN [row EXCEPT !.status = "duplicate_archived"] ELSE row])

(* The tables normalizeIntakeSchema looks at.                              *)
IntakeTables == {"intake_states", "intake_fields", "intake_events"}

IntakeIsNormalized(db) == \A t \in IntakeTables : Form(db, t) = "new"

(* Mutant: a table that is missing is not left out.                        *)
RebuiltByAll(i, db) ==
  CASE i = HardenCases -> {t \in {"cases"} : Form(db, t) # "new"}
    [] i \in {NormalizeIntake, CreateRegistry} -> IF IntakeIsNormalized(db) THEN {} ELSE IntakeTables
    [] OTHER -> {}

(* The tables migration i takes away, copies and puts back.                *)
RebuiltBy(i, db) ==
  CASE i = HardenCases -> {t \in {"cases"} : Form(db, t) = "old"}
    [] i \in {NormalizeIntake, CreateRegistry} ->
         {t \in IntakeTables : Exists(db, t) /\ Exists(db, "intake_states") /\ ~IntakeIsNormalized(db)}
    [] OTHER -> {}

(* The order in which it does so.                                          *)
RebuildRank == [cases |-> 1, intake_states |-> 2, intake_fields |-> 3, intake_events |-> 4]

(* What else it does, in one statement or one transaction.                 *)
Finished(i, db) ==
  CASE i < HardenCases        -> CreateIfMissing(db, CreatedBy[i])
    [] i = HardenCases       -> CreateIfMissing(db, "cases")
    [] i = EnforceUniqueness -> [Archived(db) EXCEPT !.index = TRUE]
    [] i = NormalizeIntake   -> db
    [] i = CreateRegistry    -> CreateIfMissing(db, "practices")

-----------------------------------------------------------------------------
Pending(db) == Migrations \ db.applied
AllApplied(db) == Pending(db) = {}

(* No rebuild was ever interrupted.                                        *)
NoLeftovers(db) == \A t \in Leftovers : ~Exists(db, t)

(* Every table the program uses is there, in its present form.             *)
UpToDate(db) == \A t \in Tables \ Leftovers : Form(db, t) = "new"
=============================================================================
