---------------------------- MODULE MCOperations ----------------------------
(* Databases to start from and messages for the runs of Operations.        *)
EXTENDS Operations

CONSTANTS c1, c2, o1, o2

full == "Mario Rossi"

Table(rows) == [form |-> "new", rows |-> rows]
OldTable(rows) == [form |-> "old", rows |-> rows]

Nowhere == [t \in Tables |-> Missing]

(* The file does not exist.                                                *)
Fresh == [table |-> Nowhere, index |-> FALSE, applied |-> {}]

Row(s, status) == [subject |-> s, status |-> status, summary |-> 0]

(* A release from before M17: three cases, two of them drafts of the same  *)
(* client; one client was asked for his name, the other has completed.     *)
BeforeM17 ==
  [table |->
     [t \in Tables |->
        CASE t \in Leftovers \cup {"practices"} -> Missing
          [] t = "cases" -> OldTable(<<Row(c1, "draft"), Row(c1, "draft"), Row(c2, "closed")>>)
          [] t = "consent_states" -> Table([s \in Clients |-> "granted"])
          [] t = "intake_states" ->
               OldTable([s \in Clients |-> IF s = c1 THEN "asking_name" ELSE "intake_complete"])
          [] t = "intake_fields" ->
               OldTable([k \in {<<c2, "name">>, <<c2, "problemSummary">>} |->
                           IF k[2] = "name" THEN full ELSE 0])
          [] t = "intake_events" -> OldTable(<<c1, c2>>)
          [] OTHER -> Table(<<>>)],
   index |-> FALSE, applied |-> 1 .. 8]

(* A release between M17 and M26: the cases are in their present form, the *)
(* questionnaires are not.                                                 *)
BeforeM26 ==
  [BeforeM17 EXCEPT !.table["cases"] = Table(<<Row(c1, "draft"), Row(c1, "closed"), Row(c2, "draft")>>),
                    !.index = TRUE, !.applied = 1 .. 10]

(* The present release: of both clients only the attachments are missing.  *)
InUse ==
  [table |->
     [t \in Tables |->
        CASE t \in Leftovers -> Missing
          [] t = "consent_states" -> Table([s \in Clients |-> "granted"])
          [] t = "intake_states" -> Table([s \in Clients |-> "asking_attachments"])
          [] t = "intake_fields" -> Table([k \in Clients \X CaseFields |-> 0])
          [] OTHER -> Table(<<>>)],
   index |-> TRUE, applied |-> Migrations]

(* The same, before the first client has said what he needs.               *)
Answering ==
  [InUse EXCEPT !.table["intake_states"].rows[c1] = "asking_problem_summary",
                !.table["intake_fields"].rows =
                   [k \in (Clients \X CaseFields) \ {<<c1, "problemSummary">>} |-> 0]]

Says(consent, summary, skip) ==
  [blank |-> FALSE, consent |-> consent, extracts |-> {}, overrides |-> {},
   summary |-> summary, skip |-> skip, files |-> FALSE]

MCChoices == {Says("granted", TRUE, TRUE)}

MCBound == [interruption |-> 2, fault |-> 2, message |-> 2, command |-> 2, backup |-> 1]

(* One interruption and nothing else.                                      *)
MCInterruptions == [e \in Events |-> IF e = "interruption" THEN 1 ELSE 0]

MCStart == {Fresh, BeforeM17, BeforeM26, InUse, Answering}
MCStartOld == {BeforeM17}
MCConnections == {Migrator, Runtime, Backup} \cup Operators
MCSeveralWords == {full}
=============================================================================
