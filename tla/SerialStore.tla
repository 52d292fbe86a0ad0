----------------------------- MODULE SerialStore -----------------------------
(***************************************************************************)
(* What the transactions of the persistence service promise, without       *)
(* locks, savepoints and counters: a change is committed only by someone   *)
(* who has seen the content it replaces, or in one indivisible step, and   *)
(* never while somebody else goes by the content it replaces.              *)
(***************************************************************************)
CONSTANT Connections

VARIABLES
  content,   (* the committed content                                      *)
  looked     (* what each connection has looked at: a content, or nothing  *)

vars == <<content, looked>>

Init == looked = [c \in Connections |-> {}]

Look(c) ==
  /\ looked' = [looked EXCEPT ![c] = {content}]
  /\ UNCHANGED content

Forget(c) ==
  /\ looked' = [looked EXCEPT ![c] = {}]
  /\ UNCHANGED content

(* What a transaction has looked at stays what it is until it ends.        *)
UnseenBy(others) == content' # content => \A c \in others : looked[c] = {}

(* A transaction commits over the content it has looked at and no other.   *)
Commit(c) ==
  /\ looked[c] = {content}
  /\ looked' = [looked EXCEPT ![c] = {}]
  /\ UnseenBy(Connections \ {c})

(* A single statement reads and writes in one step.                        *)
Statement ==
  /\ UNCHANGED looked
  /\ UnseenBy(Connections)

Next ==
  \/ Statement
  \/ \E c \in Connections : Look(c) \/ Forget(c) \/ Commit(c)

Spec == Init /\ [][Next]_vars
=============================================================================
