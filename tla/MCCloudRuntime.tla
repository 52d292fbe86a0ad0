--------------------------- MODULE MCCloudRuntime ---------------------------
(* Small instances of CloudRuntime for TLC.                                *)
EXTENDS CloudRuntime, TLC

CONSTANTS anna, bruno, studio, h1, h2

-----------------------------------------------------------------------------
(* What clients write, as the parsers see it.                              *)
Text == [blank |-> FALSE, consent |-> "unknown", extracts |-> {}, overrides |-> {},
         summary |-> TRUE, skip |-> FALSE, files |-> FALSE]

(* "Acconsento" and "Non acconsento"; two words read as a name.            *)
Grant  == [Text EXCEPT !.consent = "granted"]
Refuse == [Text EXCEPT !.consent = "denied", !.extracts = {"firstName", "lastName"}]
(* "Mario Rossi", then "Mario, Rossi, 01/01/1980, Roma".                   *)
Name     == [Text EXCEPT !.extracts = {"firstName", "lastName"}]
Identity == [Text EXCEPT !.extracts = IdentityFields, !.overrides = IdentityFields]
(* A description of some words, one of more than 500 characters.           *)
Issue == [Text EXCEPT !.extracts = {"firstName", "lastName", "city"}]
Long  == [Text EXCEPT !.summary = FALSE]
Salta == [Text EXCEPT !.skip = TRUE]
Photo == [Text EXCEPT !.files = TRUE]
Blank == [Text EXCEPT !.blank = TRUE, !.summary = FALSE]

(* A questionnaire answered in an earlier life of the database: prior      *)
(* message ids are negative.                                               *)
Answered(state, m) ==
  [state |-> state, fields |-> [f \in FieldNames |-> IF f = "attachmentMetadata" THEN NoFiles ELSE m]]

PriorPractice(s, code, m) ==
  [code |-> code, subject |-> s, source |-> m, fields |-> Answered("intake_complete", m).fields]

HandlerSymmetry == Permutations(Handlers)

-----------------------------------------------------------------------------
(* Anna comes for the first time, Bruno is back for a second practice, and *)
(* the lawyer asks for the list in the same webhook as one of Anna's.      *)
QuietSender == [m \in 1 .. 7 |-> CASE m \in {1, 2, 3, 5} -> anna [] m \in {4, 6} -> bruno [] OTHER -> studio]
QuietBatches == <<<<1>>, <<2, 7>>, <<3>>, <<4>>, <<5>>, <<6>>>>
QuietChoices ==
  <<{Grant, Refuse}, {Identity, Name}, {Issue, Long}, {Issue}, {Salta, Photo}, {Salta, Blank}, {Text}>>
QuietFiles == anna :> EmptyFile @@ bruno :> Answered("asking_problem_summary", -1)
QuietPractices == {PriorPractice(bruno, 1, -1)}
-----------------------------------------------------------------------------
(* Anna's first conversation while things fail, with a returning Bruno     *)
(* whose practice leaves a single code, so that the codes may run out.     *)
FaultSender == [m \in 1 .. 5 |-> IF m = 4 THEN bruno ELSE anna]
FaultBatches == <<<<1, 2>>, <<3, 4>>, <<5>>>>
FaultChoices ==
  <<{Grant, Refuse}, {Identity}, {Issue, Grant, Refuse}, {Salta}, {Salta}>>
FaultFiles == anna :> EmptyFile @@ bruno :> Answered("asking_attachments", -1)
FaultPractices == {PriorPractice(bruno, 1, -1)}
-----------------------------------------------------------------------------
(* Anna asks for a second practice: two webhooks, two faults, one delivery *)
(* given up.  Small enough for the liveness check.                         *)
RetrySender == [m \in 1 .. 3 |-> IF m = 3 THEN studio ELSE anna]
RetryBatches == <<<<1, 3>>, <<2>>>>
RetryChoices == <<{Issue}, {Salta}, {Text}>>
RetryFiles == anna :> Answered("asking_problem_summary", -1)
RetryPractices == {PriorPractice(anna, 1, -1)}
-----------------------------------------------------------------------------
(* The shortest conversations that a fault spoils: the identity and the    *)
(* attachment step, and the attachment step alone.                         *)
ShortSender == [m \in 1 .. 2 |-> anna]
ShortBatches == <<<<1>>, <<2>>>>
ShortChoices == <<{Identity}, {Salta}>>
IdentityAsked == anna :> [EmptyFile EXCEPT !.state = "asking_identity"]
AttachmentsAsked == anna :> Answered("asking_attachments", -1)
NoPractices == {}
=============================================================================
