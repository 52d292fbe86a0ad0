----------------------------- MODULE Migrations -----------------------------
(***************************************************************************)
(* The migration runner (persistence/sqlite/migrationRunner.ts), run by    *)
(* npm run db:migrate.  The pending migrations are read once and applied   *)
(* in order; each statement commits on its own and the record of a         *)
(* migration is a statement too, so the process may die, or a statement    *)
(* throw, between any two of them.  No other process holds a lock          *)
(* meanwhile: all of them refuse a file with pending migrations.           *)
(***************************************************************************)
EXTENDS Schema, TransactionRunner, FiniteSets

CONSTANTS
  Migrator   (* the connection of the command                              *)

VARIABLES
  migrator   (* the local state of the command                             *)

(* left: the pending migrations still to apply, in the order of their      *)
(* numbers; tables: the tables the first of them still has to rebuild;     *)
(* stage: the statement to run next.                                       *)
Stages == {"idle", "start", "rename", "create", "copy", "drop", "restore", "finish", "record"}

NotMigrating == [stage |-> "idle", left |-> {}, tables |-> {}]

Stage(s) == migrator' = [migrator EXCEPT !.stage = s]

Current == CHOOSE i \in migrator.left : \A j \in migrator.left : i <= j
Rebuilding ==
  CHOOSE t \in migrator.tables : \A u \in migrator.tables : RebuildRank[t] <= RebuildRank[u]

Execute(content) == Write(Migrator, content)

-----------------------------------------------------------------------------
(* The command opens the file, which creates it, and lists what is         *)
(* pending.  With nothing pending it changes nothing, and so it does when  *)
(* DATABASE_MIGRATIONS_ENABLED is false; both are left out.                *)
StartMigrating ==
  /\ migrator.stage = "idle"
  /\ ~AllApplied(disk)
  /\ migrator' = [stage |-> "start", left |-> Pending(disk), tables |-> {}]
  /\ UNCHANGED txVars

(* Mutant: a migration is recorded before its statements run.              *)
StartMigrationRecorded ==
  /\ migrator.stage = "start"
  /\ LET tables == RebuiltBy(Current, disk) IN
     migrator' = [migrator EXCEPT !.tables = tables,
                                  !.stage = IF tables = {} THEN "finish" ELSE "rename"]
  /\ Execute([disk EXCEPT !.applied = @ \cup {Current}])

StartMigration ==
  /\ migrator.stage = "start"
  /\ LET tables == RebuiltBy(Current, disk) IN
     migrator' = [migrator EXCEPT !.tables = tables,
                                  !.stage = IF tables = {} THEN "finish" ELSE "rename"]
  /\ UNCHANGED txVars

RenameAway ==
  /\ migrator.stage = "rename"
  /\ Exists(disk, Rebuilding) /\ ~Exists(disk, LegacyOf[Rebuilding])
  /\ Execute(Rename(disk, Rebuilding, LegacyOf[Rebuilding]))
  /\ Stage("create")

(* Mutant: the old table is dropped before its rows are copied.            *)
CreateNewDropping ==
  /\ migrator.stage = "create"
  /\ ~Exists(disk, NewOf[Rebuilding])
  /\ Execute([SetTable(disk, NewOf[Rebuilding], Empty)
                EXCEPT !.table[LegacyOf[Rebuilding]].rows = <<>>])
  /\ Stage("copy")

CreateNew ==
  /\ migrator.stage = "create"
  /\ ~Exists(disk, NewOf[Rebuilding])
  /\ Execute(SetTable(disk, NewOf[Rebuilding], Empty))
  /\ Stage("copy")

(* The fields are inserted one by one, the rows of the other tables by one *)
(* statement.                                                              *)
CopyRows ==
  LET copied == Copied(Rebuilding, Rows(disk, LegacyOf[Rebuilding]))
      done   == Rows(disk, NewOf[Rebuilding])
  IN
  /\ migrator.stage = "copy"
  /\ IF Rebuilding = "intake_fields" /\ DOMAIN done # DOMAIN copied
     THEN /\ \E key \in DOMAIN copied \ DOMAIN done :
               Execute(SetRows(disk, NewOf[Rebuilding], Put(done, key, copied[key])))
          /\ UNCHANGED migrator
     ELSE /\ Execute(SetRows(disk, NewOf[Rebuilding], copied))
          /\ Stage("drop")

DropLegacy ==
  /\ migrator.stage = "drop"
  /\ Execute(SetTable(disk, LegacyOf[Rebuilding], Missing))
  /\ Stage("restore")

RenameBack ==
  /\ migrator.stage = "restore"
  /\ ~Exists(disk, Rebuilding)
  /\ Execute(Rename(disk, NewOf[Rebuilding], Rebuilding))
  /\ LET tables == migrator.tables \ {Rebuilding} IN
     migrator' = [migrator EXCEPT !.tables = tables,
                                  !.stage = IF tables = {} THEN "finish" ELSE "rename"]

FinishMigration ==
  /\ migrator.stage = "finish"
  /\ Execute(Finished(Current, disk))
  /\ Stage("record")

(* INSERT INTO schema_migrations                                           *)
RecordMigration ==
  /\ migrator.stage = "record"
  /\ Execute([disk EXCEPT !.applied = @ \cup {Current}])
  /\ LET left == migrator.left \ {Current} IN
     migrator' = IF left = {} THEN NotMigrating ELSE [stage |-> "start", left |-> left, tables |-> {}]

Migrate ==
  \/ StartMigrating \/ StartMigration
  \/ RenameAway \/ CreateNew \/ CopyRows \/ DropLegacy \/ RenameBack
  \/ FinishMigration \/ RecordMigration

(* The process dies or a statement throws: run() is left where it is, the  *)
(* connection is closed, and the next db:migrate starts from what is       *)
(* committed.                                                              *)
MigratorDies ==
  /\ migrator.stage # "idle"
  /\ migrator' = NotMigrating
  /\ UNCHANGED txVars
=============================================================================
