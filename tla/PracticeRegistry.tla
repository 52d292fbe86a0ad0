-------------------------- MODULE PracticeRegistry --------------------------
(***************************************************************************)
(* What the registry of practices promises, without the machinery behind   *)
(* it: a completed questionnaire opens at most one practice per message,   *)
(* codes are handed out in sequence with no gap, the practice belongs to   *)
(* the author of the message, and an opened practice stays as it is.       *)
(***************************************************************************)
EXTENDS Integers

CONSTANTS
  Messages,   (* the messages that may open a practice                     *)
  Subjects,   (* the clients                                               *)
  Owner,      (* the author of each message                                *)
  Start,      (* the practices on file at start                            *)
  StartLast,  (* the last code handed out by then                          *)
  MaxCode     (* how many codes there are                                  *)

VARIABLES
  registry,   (* the practices: [code, subject, source]                    *)
  last        (* the last code handed out                                  *)

vars == <<registry, last>>

Init ==
  /\ registry = Start
  /\ last = StartLast

Open(m) ==
  /\ Owner[m] \in Subjects
  /\ \A p \in registry : p.source # m
  /\ last < MaxCode
  /\ last' = last + 1
  /\ registry' = registry \cup {[code |-> last', subject |-> Owner[m], source |-> m]}

Next == \E m \in Messages : Open(m)

Spec == Init /\ [][Next]_vars

-----------------------------------------------------------------------------
(* The codes in use are exactly 1..last: none is skipped, lost or reused.  *)
CodesAreGapless == {p.code : p \in registry} = 1 .. last

(* A code, and likewise a message, identifies at most one practice.        *)
CodesAreUnique == \A p, q \in registry : p.code = q.code => p = q
SourcesAreUnique == \A p, q \in registry : p.source = q.source => p = q
=============================================================================
