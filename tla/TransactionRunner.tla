------------------------- MODULE TransactionRunner -------------------------
(***************************************************************************)
(* The transactions of the persistence service                             *)
(* (persistence/sqlite/transactionRunner.ts) on one SQLite file that       *)
(* several processes have open.                                            *)
(*                                                                         *)
(* The file is used in its default journal mode and with no busy timeout:  *)
(* a statement that meets a lock throws at once.  A connection that writes *)
(* holds the write lock, a connection that has read within a transaction   *)
(* holds a shared lock, and a commit is refused while another connection   *)
(* holds any lock.  What the database contains is left to the modules that *)
(* extend this one.                                                        *)
(*                                                                         *)
(* runInTransaction counts its nesting depth per connection: the outermost *)
(* call runs BEGIN IMMEDIATE, the others a SAVEPOINT.  The depth is raised *)
(* before the statement and lowered only in the finally clause of the try  *)
(* that follows it, so a BEGIN that throws leaves it raised: from then on  *)
(* the connection's outermost calls are savepoints, hence deferred         *)
(* transactions that a RELEASE commits.                                    *)
(***************************************************************************)
EXTENDS Integers, Sequences

CONSTANT Connections

VARIABLES
  disk,      (* the committed content of the file                          *)
  pending,   (* the content as the holder of the write lock sees it, and   *)
             (* the committed one when there is no holder                  *)
  lock,      (* the lock of each connection                                *)
  open,      (* its transaction, or the long statement it executes         *)
  saves,     (* what each savepoint within the transaction would restore   *)
  depth,     (* transactionDepth                                           *)
  calls,     (* the calls of runInTransaction under way                    *)
  seen       (* history: the committed content when the lock was taken, as *)
             (* a set that is empty without a lock                         *)

files  == <<disk, pending, lock, open, saves, seen>>
txVars == <<disk, pending, lock, open, saves, depth, calls, seen>>

Locks == {"none", "shared", "reserved"}
Opened == {"none", "reading", "deferred", "immediate"}

Others(c) == Connections \ {c}

(* No other connection holds the write lock.                               *)
Writable(c) == \A o \in Others(c) : lock[o] # "reserved"

(* Mutant: a reader keeps nobody from committing, as when database.ts set  *)
(* the journal mode to WAL.                                                *)
AloneButReaders(c) == Writable(c)

(* No other connection holds any lock.                                     *)
Alone(c) == \A o \in Others(c) : lock[o] = "none"

View(c) == IF lock[c] = "reserved" THEN pending ELSE disk

(* What the file contains once c gives up what it has not committed.       *)
WithoutPending(c) == IF lock[c] = "reserved" THEN disk ELSE pending

InitTx(start) ==
  /\ disk = start /\ pending = start
  /\ lock  = [c \in Connections |-> "none"]
  /\ open  = [c \in Connections |-> "none"]
  /\ saves = [c \in Connections |-> <<>>]
  /\ depth = [c \in Connections |-> 0]
  /\ calls = [c \in Connections |-> 0]
  /\ seen  = [c \in Connections |-> {}]

-----------------------------------------------------------------------------
(* Statements *)

(* A query within a transaction takes a shared lock; any other one reads   *)
(* the committed content and leaves nothing behind.                        *)
Read(c) ==
  /\ IF open[c] # "none" /\ lock[c] = "none"
     THEN /\ lock' = [lock EXCEPT ![c] = "shared"]
          /\ seen' = [seen EXCEPT ![c] = {disk}]
     ELSE UNCHANGED <<lock, seen>>
  /\ UNCHANGED <<disk, pending, open, saves, depth, calls>>

(* A change throws when another connection has the write lock and, outside *)
(* a transaction, where it commits at once, when another one has any lock. *)
CanWrite(c) == IF open[c] = "none" THEN Alone(c) ELSE Writable(c)

Write(c, content) ==
  /\ CanWrite(c)
  /\ pending' = content
  /\ IF open[c] = "none"
     THEN disk' = content /\ UNCHANGED <<lock, seen>>
     ELSE /\ lock' = [lock EXCEPT ![c] = "reserved"]
          /\ seen' = IF lock[c] = "none" THEN [seen EXCEPT ![c] = {disk}] ELSE seen
          /\ UNCHANGED disk
  /\ UNCHANGED <<open, saves, depth, calls>>

(* A statement that reads the whole file, VACUUM INTO, keeps its shared    *)
(* lock until it ends.                                                     *)
BeginRead(c) ==
  /\ open[c] = "none"
  /\ open' = [open EXCEPT ![c] = "reading"]
  /\ lock' = [lock EXCEPT ![c] = "shared"]
  /\ seen' = [seen EXCEPT ![c] = {disk}]
  /\ UNCHANGED <<disk, pending, saves, depth, calls>>

(* The connection is closed or its process dies: what it has not committed *)
(* is rolled back, and the runner's counter goes with the process.         *)
Close(c) ==
  /\ pending' = WithoutPending(c)
  /\ lock'  = [lock EXCEPT ![c] = "none"]
  /\ open'  = [open EXCEPT ![c] = "none"]
  /\ saves' = [saves EXCEPT ![c] = <<>>]
  /\ depth' = [depth EXCEPT ![c] = 0]
  /\ calls' = [calls EXCEPT ![c] = 0]
  /\ seen'  = [seen EXCEPT ![c] = {}]
  /\ UNCHANGED disk

-----------------------------------------------------------------------------
(* runInTransaction *)

(* BEGIN IMMEDIATE at depth 0.  At any other depth a SAVEPOINT, which      *)
(* opens a transaction where none is open.                                 *)
Enter(c) ==
  /\ open[c] # "reading"
  /\ depth' = [depth EXCEPT ![c] = @ + 1]
  /\ calls' = [calls EXCEPT ![c] = @ + 1]
  /\ \/ /\ depth[c] = 0
        /\ Writable(c)
        /\ open' = [open EXCEPT ![c] = "immediate"]
        /\ lock' = [lock EXCEPT ![c] = "reserved"]
        /\ seen' = [seen EXCEPT ![c] = {disk}]
        /\ UNCHANGED saves
     \/ /\ depth[c] > 0
        /\ IF open[c] = "none"
           THEN open' = [open EXCEPT ![c] = "deferred"] /\ UNCHANGED saves
           ELSE saves' = [saves EXCEPT ![c] = Append(@, View(c))] /\ UNCHANGED open
        /\ UNCHANGED <<lock, seen>>
  /\ UNCHANGED <<disk, pending>>

(* BEGIN IMMEDIATE throws: the depth stays raised.                         *)
EnterFails(c) ==
  /\ depth[c] = 0
  /\ ~Writable(c)
  /\ depth' = [depth EXCEPT ![c] = @ + 1]
  /\ UNCHANGED <<files, calls>>

(* The COMMIT or RELEASE of the innermost call commits the file when there *)
(* is no savepoint around it, and is refused next to another lock.         *)
Commits(c) == saves[c] = <<>>
CanLeave(c) == Commits(c) /\ lock[c] = "reserved" => Alone(c)

(* Mutant: the depth is lowered before the COMMIT and in the finally clause. *)
DoneTwice(c) ==
  /\ depth' = [depth EXCEPT ![c] = @ - 2]
  /\ calls' = [calls EXCEPT ![c] = @ - 1]

Done(c) ==
  /\ depth' = [depth EXCEPT ![c] = @ - 1]
  /\ calls' = [calls EXCEPT ![c] = @ - 1]

Ended(c) ==
  /\ lock' = [lock EXCEPT ![c] = "none"]
  /\ open' = [open EXCEPT ![c] = "none"]
  /\ seen' = [seen EXCEPT ![c] = {}]

Pop(s) == SubSeq(s, 1, Len(s) - 1)

Leave(c) ==
  /\ calls[c] > 0
  /\ CanLeave(c)
  /\ IF Commits(c)
     THEN disk' = View(c) /\ Ended(c) /\ UNCHANGED saves
     ELSE saves' = [saves EXCEPT ![c] = Pop(@)] /\ UNCHANGED <<disk, lock, open, seen>>
  /\ Done(c)
  /\ UNCHANGED pending

(* Mutant: a savepoint is released but not rolled back.                    *)
UnwindReleasing(c) ==
  /\ calls[c] > 0
  /\ IF Commits(c)
     THEN disk' = View(c) /\ Ended(c) /\ UNCHANGED <<saves, pending>>
     ELSE /\ saves' = [saves EXCEPT ![c] = Pop(@)]
          /\ UNCHANGED <<disk, pending, lock, open, seen>>
  /\ Done(c)

(* Mutant: a refused COMMIT is not followed by a ROLLBACK.                 *)
UnwindWithoutRollback(c) ==
  /\ calls[c] > 0
  /\ IF Commits(c)
     THEN UNCHANGED <<pending, lock, open, saves, seen>>
     ELSE /\ pending' = IF lock[c] = "reserved" THEN saves[c][Len(saves[c])] ELSE pending
          /\ saves' = [saves EXCEPT ![c] = Pop(@)]
          /\ UNCHANGED <<lock, open, seen>>
  /\ Done(c)
  /\ UNCHANGED disk

(* The catch and finally clauses, entered by an exception of the operation *)
(* or by a refused COMMIT or RELEASE.  A BEGIN is rolled back; a savepoint *)
(* is rolled back and released, and where that RELEASE would commit it may *)
(* be refused again: the connection stays in the transaction.              *)
Unwind(c) ==
  /\ calls[c] > 0
  /\ \/ /\ Commits(c)
        /\ pending' = WithoutPending(c)
        /\ IF open[c] = "immediate" \/ CanLeave(c)
           THEN Ended(c)
           ELSE UNCHANGED <<lock, open, seen>>
        /\ UNCHANGED saves
     \/ /\ ~Commits(c)
        /\ pending' = IF lock[c] = "reserved" THEN saves[c][Len(saves[c])] ELSE pending
        /\ saves' = [saves EXCEPT ![c] = Pop(@)]
        /\ UNCHANGED <<lock, open, seen>>
  /\ Done(c)
  /\ UNCHANGED disk

-----------------------------------------------------------------------------
(* A step of one connection on any content, and of any connection.         *)
StepOf(c) ==
  \/ Read(c) \/ BeginRead(c) \/ Close(c)
  \/ Enter(c) \/ EnterFails(c) \/ Leave(c) \/ Unwind(c)
  \/ \E content : Write(c, content)

NextTx == \E c \in Connections : StepOf(c)

(* One connection at most holds the write lock; a transaction rests on the *)
(* committed content it first looked at.                                   *)
OneWriter == \A c, d \in Connections : lock[c] = "reserved" /\ lock[d] = "reserved" => c = d

(* As long as the depth counts the calls under way, a connection has a     *)
(* transaction open exactly while a call runs: none survives its call.     *)
NoOrphanUnlessLeaked ==
  \A c \in Connections :
    depth[c] = calls[c] => (calls[c] > 0 <=> open[c] \in {"deferred", "immediate"})

(* The content a transaction rests on is still the committed one: nothing  *)
(* was committed next to it, so its commit overwrites nobody's.            *)
NothingCommittedUnseen == \A c \in Connections : seen[c] = IF lock[c] = "none" THEN {} ELSE {disk}
=============================================================================
