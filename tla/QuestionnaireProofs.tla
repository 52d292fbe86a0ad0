------------------------- MODULE QuestionnaireProofs -------------------------
(***************************************************************************)
(* What the operator's reports say of a questionnaire is so, for every     *)
(* database to start from: who can get a case is on the list of completed  *)
(* questionnaires, and an alarm of business:check has one of two reasons.  *)
(*                                                                         *)
(* A questionnaire is written field by field, after its state, and the     *)
(* runtime may be stopped, locked out or rolled back between two of these  *)
(* statements.                                                             *)
(***************************************************************************)
EXTENDS UpgradeProofs

-----------------------------------------------------------------------------
(* The inductive invariant *)

Complete(db, s) == StateOf(db, s) = "intake_complete"

HasCaseFields(fields) == \A f \in CaseFields : fields[f] # Absent

(* A client is in the books in as far as he has consented,                 *)
Consented(db, s) == Complete(db, s) \/ DraftsOf(db, s) # {} => ConsentOf(db, s) = "granted"

(* and answered what he was asked before the attachments.                  *)
Answered(db, s) ==
  StateOf(db, s) \in {"asking_attachments", "intake_complete"} => HasCaseFields(FieldsOf(db, s))

(* Whom a case can be made for is listed.                                  *)
Listed(db, s) ==
  Complete(db, s) /\ HasCaseFields(FieldsOf(db, s)) => FieldsOf(db, s)["attachmentMetadata"] # Absent

(* The promises for clients who were in order at the start concern files   *)
(* on which no table was left aside.                                       *)
Promised(db, s) == InOrder(start, s) /\ NoLeftovers(db)

(* A questionnaire that is not being written.                              *)
Settled(db, s) ==
  /\ AttachmentsAnswered(start, s) => Listed(db, s)
  /\ Promised(db, s) => Answered(db, s)

(* While migrations are pending: the rows of the questionnaires are those  *)
(* of the start, or copies of them, or there is none.                      *)
Follows(t, old, rows) ==
  /\ t = "intake_states" => /\ DOMAIN rows = DOMAIN old
                            /\ \A s \in DOMAIN old : rows[s] \in {old[s], CopiedState(old[s])}
  /\ t = "intake_fields" =>
       /\ \A k \in DOMAIN rows : k = <<k[1], k[2]>>
       /\ \A s : \A f \in FieldNames :
            /\ <<s, f>> \in DOMAIN old => <<s, f>> \in DOMAIN rows /\ rows[<<s, f>>] = old[<<s, f>>]
            /\ <<s, f>> \in DOMAIN rows => <<s, f>> \in DOMAIN old \/ f \in {"firstName", "lastName"}

Descends(t, rows) == DOMAIN rows = {} \/ Follows(t, Rows(start, t), rows)

Questionnaires == {"intake_states", "intake_fields"}

Carried ==
  /\ \A t \in Questionnaires : /\ Descends(t, Rows(disk, Home(t)))
                               /\ Home(t) # t => Keys(disk, t) = {}
  /\ Rows(disk, "consent_states") = Rows(start, "consent_states")

(* The record that the runtime writes into db, in a state r of its own.    *)
Writes(label) == label \in {"state", "field", "event"}

Written(db, r) ==
  /\ r.left \subseteq FieldNames /\ (r.pc = "field" => r.left # {})
  /\ r.pc # "state" => StateOf(db, r.client) = r.next.state
  /\ \A f \in FieldNames \ r.left : FieldsOf(db, r.client)[f] = r.next.fields[f]
  /\ r.next.state = "intake_complete" =>
       r.next.fields["attachmentMetadata"] # Absent /\ r.left \subseteq {"attachmentMetadata"}

Writing(db, r, gone) ==
  /\ r.pc \notin {"down", "idle"} => r.client \in Clients
  /\ (r.pc = "consentEvent" /\ r.justGranted) \/ r.pc = "intake" \/ Writes(r.pc) =>
       ConsentOf(db, r.client) = "granted"
  /\ Writes(r.pc) =>
       /\ Written(db, r)
       /\ r.client \notin gone /\ Promised(db, r.client)
            /\ r.next.state \in {"asking_attachments", "intake_complete"} => HasCaseFields(r.next.fields)

InWork(r, s) == s = r.client /\ r.pc \in {"field", "event"}

(* Once no migration is pending: db is committed, the runtime reads view,  *)
(* has the savepoints in kept and is in a transaction or not; the clients  *)
(* in gone have a message that was not processed to its end.               *)
Orders(db, view, kept, within, r, gone) ==
  /\ \A d \in {db, view} \cup kept : \A s \in Clients : Promised(d, s) => Consented(d, s)
  /\ \A s \in Clients \ gone :
       /\ InWork(r, s) \/ Settled(view, s)
       /\ within => Settled(db, s)
       /\ \A d \in kept : Settled(d, s)
  /\ Writing(view, r, gone)

Orderly == Orders(disk, Database, Range(saves[Runtime]), open[Runtime] # "none", runtime, abandoned)

RuntimeShape ==
  runtime = [pc |-> runtime.pc, client |-> runtime.client, content |-> runtime.content,
             justGranted |-> runtime.justGranted, next |-> runtime.next, left |-> runtime.left]

QuestInv ==
  /\ RuntimeShape
  /\ IF AllApplied(disk) THEN Orderly ELSE Carried

-----------------------------------------------------------------------------
(* What is read of a file *)

(* What is read of a client depends on four tables.                        *)
LEMMA ReadAlike ==
  ASSUME NEW a, NEW b
  PROVE  /\ Rows(a, "consent_states") = Rows(b, "consent_states") => \A s : ConsentOf(a, s) = ConsentOf(b, s)
         /\ Rows(a, "intake_states") = Rows(b, "intake_states") => \A s : StateOf(a, s) = StateOf(b, s)
         /\ Rows(a, "intake_fields") = Rows(b, "intake_fields") => \A s : FieldsOf(a, s) = FieldsOf(b, s)
         /\ Rows(a, "cases") = Rows(b, "cases") => \A s : DraftsOf(a, s) = DraftsOf(b, s)
BY DraftsIn DEF ConsentOf, StateOf, FieldsOf, Keys, Rows

(* Which tables are left aside is a matter of their forms.                 *)
LEMMA LeftAlike ==
  ASSUME NEW a, NEW b, \A t \in Tables : Form(a, t) = Form(b, t)
  PROVE  /\ NoLeftovers(a) <=> NoLeftovers(b)
         /\ \A s : Promised(a, s) <=> Promised(b, s)
BY LeftoverNames DEF NoLeftovers, Exists, Form, Promised

(* Of a client who has the same state and fields, the same is promised.    *)
LEMMA SettledAlike ==
  ASSUME NEW a, NEW b, \A t \in Tables : Form(a, t) = Form(b, t),
         NEW s, StateOf(a, s) = StateOf(b, s), FieldsOf(a, s) = FieldsOf(b, s)
  PROVE  Settled(a, s) <=> Settled(b, s)
<1>1. Promised(a, s) <=> Promised(b, s)
  BY LeftAlike
<1> QED
  BY <1>1 DEF Settled, Listed, Answered, Complete

(* And so it is of one who has the same state, consent and drafts.         *)
LEMMA ConsentedAlike ==
  ASSUME NEW a, NEW b, NEW s, StateOf(a, s) = StateOf(b, s), ConsentOf(a, s) = ConsentOf(b, s),
         DraftsOf(a, s) = DraftsOf(b, s)
  PROVE  Consented(a, s) <=> Consented(b, s)
BY DEF Consented, Complete

(* The UPSERT of the state of a questionnaire.                             *)
LEMMA StateWritten ==
  ASSUME NEW db, IsDatabase(db), NEW c, NEW state
  PROVE  LET new == SetRows(db, "intake_states", Put(Rows(db, "intake_states"), c, state)) IN
         /\ IsDatabase(new) /\ SameCases(new, db)
         /\ StateOf(new, c) = state /\ \A s : s # c => StateOf(new, s) = StateOf(db, s)
         /\ \A s : /\ ConsentOf(new, s) = ConsentOf(db, s) /\ FieldsOf(new, s) = FieldsOf(db, s)
                   /\ DraftsOf(new, s) = DraftsOf(db, s)
<1> DEFINE rows == Put(Rows(db, "intake_states"), c, state)
           new == SetRows(db, "intake_states", rows)
<1>1. IsDatabase(new) /\ SameCases(new, db)
  BY RuntimeTables
<1>2. Rows(new, "intake_states") = rows
  BY SetRowsIs, LeftoverNames
<1>3. Rows(new, "consent_states") = Rows(db, "consent_states") /\ Rows(new, "intake_fields") = Rows(db, "intake_fields")
  <2>1. {"intake_states", "consent_states", "intake_fields"} \subseteq Tables
    BY DEF Tables, Rebuilt, LegacyOf
  <2> HIDE DEF rows
  <2> QED
    BY <2>1, SetRowsIs
<1>4. /\ DOMAIN rows = Keys(db, "intake_states") \cup {c} /\ rows[c] = state
      /\ \A s \in Keys(db, "intake_states") : s # c => rows[s] = Rows(db, "intake_states")[s]
  BY DEF Put, Keys, Rows
<1> HIDE DEF rows
<1>5. Keys(new, "intake_states") = Keys(db, "intake_states") \cup {c}
  BY <1>2, <1>4 DEF Keys, Rows
<1> HIDE DEF new
<1>6. StateOf(new, c) = state /\ \A s : s # c => StateOf(new, s) = StateOf(db, s)
  BY <1>2, <1>4, <1>5 DEF StateOf
<1>7. Rows(new, "cases") = Rows(db, "cases")
  BY <1>1 DEF SameCases
<1>8. \A s : /\ ConsentOf(new, s) = ConsentOf(db, s) /\ FieldsOf(new, s) = FieldsOf(db, s)
             /\ DraftsOf(new, s) = DraftsOf(db, s)
  BY <1>3, <1>7, ReadAlike
<1> QED
  BY <1>1, <1>6, <1>8 DEF new, rows

(* The UPSERT of a field.                                                  *)
LEMMA FieldWritten ==
  ASSUME NEW db, IsDatabase(db), NEW c, NEW f \in FieldNames, NEW value
  PROVE  LET new == SetRows(db, "intake_fields", Put(Rows(db, "intake_fields"), <<c, f>>, value)) IN
         /\ IsDatabase(new) /\ SameCases(new, db)
         /\ FieldsOf(new, c)[f] = value
         /\ \A g \in FieldNames \ {f} : FieldsOf(new, c)[g] = FieldsOf(db, c)[g]
         /\ \A s : s # c => FieldsOf(new, s) = FieldsOf(db, s)
         /\ \A s : /\ ConsentOf(new, s) = ConsentOf(db, s) /\ StateOf(new, s) = StateOf(db, s)
                   /\ DraftsOf(new, s) = DraftsOf(db, s)
<1> DEFINE old == Rows(db, "intake_fields")
           rows == Put(old, <<c, f>>, value)
           new == SetRows(db, "intake_fields", rows)
<1>1. IsDatabase(new) /\ SameCases(new, db)
  BY RuntimeTables
<1>2. Rows(new, "intake_fields") = rows
  BY SetRowsIs, LeftoverNames
<1>3. Rows(new, "consent_states") = Rows(db, "consent_states") /\ Rows(new, "intake_states") = Rows(db, "intake_states")
  <2>1. {"intake_states", "consent_states", "intake_fields"} \subseteq Tables
    BY DEF Tables, Rebuilt, LegacyOf
  <2> HIDE DEF rows
  <2> QED
    BY <2>1, SetRowsIs
<1>4. /\ DOMAIN rows = DOMAIN old \cup {<<c, f>>} /\ rows[<<c, f>>] = value
      /\ \A k \in DOMAIN old : k # <<c, f>> => rows[k] = old[k]
  BY DEF Put
<1> HIDE DEF rows, old
<1>5. Keys(new, "intake_fields") = DOMAIN rows /\ Keys(db, "intake_fields") = DOMAIN old
  BY <1>2 DEF Keys, Rows, old
<1> HIDE DEF new
<1>6. \A s : \A g \in FieldNames :
        /\ FieldsOf(new, s)[g] = IF <<s, g>> \in DOMAIN rows THEN rows[<<s, g>>] ELSE Absent
        /\ FieldsOf(db, s)[g] = IF <<s, g>> \in DOMAIN old THEN old[<<s, g>>] ELSE Absent
  BY <1>2, <1>5 DEF FieldsOf, old
<1>7. FieldsOf(new, c)[f] = value
  BY <1>4, <1>6
<1>8. ASSUME NEW s, NEW g \in FieldNames, <<s, g>> # <<c, f>>
      PROVE  FieldsOf(new, s)[g] = FieldsOf(db, s)[g]
  <2>1. <<s, g>> \in DOMAIN rows <=> <<s, g>> \in DOMAIN old
    BY <1>4, <1>8
  <2>2. <<s, g>> \in DOMAIN old => rows[<<s, g>>] = old[<<s, g>>]
    BY <1>4, <1>8
  <2> QED
    BY <1>6, <2>1, <2>2
<1>9. ASSUME NEW s, s # c
      PROVE  FieldsOf(new, s) = FieldsOf(db, s)
  <2>1. \A g \in FieldNames : FieldsOf(new, s)[g] = FieldsOf(db, s)[g]
    BY <1>8, <1>9
  <2>2. /\ FieldsOf(new, s) = [g \in FieldNames |-> FieldsOf(new, s)[g]]
        /\ FieldsOf(db, s) = [g \in FieldNames |-> FieldsOf(db, s)[g]]
    BY DEF FieldsOf
  <2> HIDE DEF FieldsOf
  <2> QED
    BY <2>1, <2>2
<1>10. Rows(new, "cases") = Rows(db, "cases")
  BY <1>1 DEF SameCases
<1>11. \A s : /\ ConsentOf(new, s) = ConsentOf(db, s) /\ StateOf(new, s) = StateOf(db, s)
              /\ DraftsOf(new, s) = DraftsOf(db, s)
  BY <1>3, <1>10, ReadAlike
<1>12. \A g \in FieldNames \ {f} : FieldsOf(new, c)[g] = FieldsOf(db, c)[g]
  BY <1>8
<1> QED
  BY <1>1, <1>7, <1>9, <1>11, <1>12 DEF new, rows, old

(* The UPSERT of a consent.                                                *)
LEMMA ConsentWritten ==
  ASSUME NEW db, IsDatabase(db), NEW c, NEW consent
  PROVE  LET new == SetRows(db, "consent_states", Put(Rows(db, "consent_states"), c, consent)) IN
         /\ IsDatabase(new) /\ SameCases(new, db)
         /\ ConsentOf(new, c) = consent /\ \A s : s # c => ConsentOf(new, s) = ConsentOf(db, s)
         /\ \A s : /\ StateOf(new, s) = StateOf(db, s) /\ FieldsOf(new, s) = FieldsOf(db, s)
                   /\ DraftsOf(new, s) = DraftsOf(db, s)
<1> DEFINE rows == Put(Rows(db, "consent_states"), c, consent)
           new == SetRows(db, "consent_states", rows)
<1>1. IsDatabase(new) /\ SameCases(new, db)
  BY RuntimeTables
<1>2. {"intake_states", "consent_states", "intake_fields"} \subseteq Tables
  BY DEF Tables, Rebuilt, LegacyOf
<1>3. /\ DOMAIN rows = Keys(db, "consent_states") \cup {c} /\ rows[c] = consent
      /\ \A s \in Keys(db, "consent_states") : s # c => rows[s] = Rows(db, "consent_states")[s]
  BY DEF Put, Keys, Rows
<1> HIDE DEF rows
<1>4. /\ Rows(new, "consent_states") = rows /\ Rows(new, "intake_states") = Rows(db, "intake_states")
      /\ Rows(new, "intake_fields") = Rows(db, "intake_fields")
  BY <1>2, SetRowsIs
<1>5. Keys(new, "consent_states") = Keys(db, "consent_states") \cup {c}
  BY <1>3, <1>4 DEF Keys, Rows
<1> HIDE DEF new
<1>6. ConsentOf(new, c) = consent /\ \A s : s # c => ConsentOf(new, s) = ConsentOf(db, s)
  BY <1>3, <1>4, <1>5 DEF ConsentOf
<1>7. Rows(new, "cases") = Rows(db, "cases")
  BY <1>1 DEF SameCases
<1>8. \A s : /\ StateOf(new, s) = StateOf(db, s) /\ FieldsOf(new, s) = FieldsOf(db, s)
             /\ DraftsOf(new, s) = DraftsOf(db, s)
  BY <1>4, <1>7, ReadAlike
<1> QED
  BY <1>1, <1>6, <1>8 DEF new, rows

-----------------------------------------------------------------------------
(* The migrator *)

(* What is copied of the rows of the start, or of a copy, is a copy.       *)
LEMMA CopyDescends ==
  ASSUME NEW t \in Questionnaires, NEW rows, Descends(t, rows)
  PROVE  Descends(t, Copied(t, rows))
<1> DEFINE old == Rows(start, t)
<1>1. t \in Rebuilt
  BY LeftoverNames DEF Questionnaires
<1>2. CASE DOMAIN rows = {}
  <2>1. CASE t = "intake_states"
    BY <1>1, <1>2, <2>1, CopiedKeys DEF Descends
  <2>2. CASE t = "intake_fields"
    BY <1>2, <2>2, CopiedFieldKeys DEF Descends
  <2> QED
    BY <2>1, <2>2 DEF Questionnaires
<1>3. CASE Follows(t, old, rows)
  <2>1. CASE t = "intake_states"
    <3>1. Copied(t, rows) = [s \in DOMAIN rows |-> CopiedState(rows[s])]
      BY <2>1 DEF Copied
    <3>2. \A state : CopiedState(CopiedState(state)) = CopiedState(state)
      BY DEF CopiedState
    <3>3. Follows(t, old, Copied(t, rows))
      BY <1>3, <2>1, <3>1, <3>2 DEF Follows
    <3> QED
      BY <3>3 DEF Descends
  <2>2. CASE t = "intake_fields"
    <3>1. PICK new : new = Copied("intake_fields", rows)
      OBVIOUS
    <3>2. \A k : k \in DOMAIN new <=>
            \E o \in DOMAIN rows : \E f \in CopiedFields(o[2], rows[o]) : k = <<o[1], f>>
      BY <3>1, CopiedFieldKeys
    <3>3. \A k \in DOMAIN rows \cap DOMAIN new : new[k] = rows[k]
      BY <3>1 DEF Copied
    <3>4. \A k \in DOMAIN new : k = <<k[1], k[2]>>
      BY <3>2
    <3>5. ASSUME NEW s, NEW f \in FieldNames, <<s, f>> \in DOMAIN old
          PROVE  <<s, f>> \in DOMAIN new /\ new[<<s, f>>] = old[<<s, f>>]
      <4>1. <<s, f>> \in DOMAIN rows /\ rows[<<s, f>>] = old[<<s, f>>]
        BY <1>3, <2>2, <3>5 DEF Follows
      <4>2. f \in CopiedFields(<<s, f>>[2], rows[<<s, f>>])
        BY DEF CopiedFields
      <4>3. <<s, f>> \in DOMAIN new
        BY <3>2, <4>1, <4>2
      <4> QED
        BY <3>3, <4>1, <4>3
    <3>6. ASSUME NEW s, NEW f \in FieldNames, <<s, f>> \in DOMAIN new, f \notin {"firstName", "lastName"}
          PROVE  <<s, f>> \in DOMAIN old
      <4>1. PICK o \in DOMAIN rows : \E g \in CopiedFields(o[2], rows[o]) : <<s, f>> = <<o[1], g>>
        BY <3>2, <3>6
      <4>2. s = o[1] /\ f \in CopiedFields(o[2], rows[o])
        BY <4>1
      <4>3. f = o[2]
        BY <3>6, <4>2 DEF CopiedFields
      <4>4. <<s, f>> \in DOMAIN rows
        BY <1>3, <2>2, <4>1, <4>2, <4>3 DEF Follows
      <4> QED
        BY <1>3, <2>2, <3>6, <4>4 DEF Follows
    <3>7. Follows(t, old, new)
      BY <2>2, <3>4, <3>5, <3>6 DEF Follows
    <3> QED
      BY <2>2, <3>1, <3>7 DEF Descends
  <2> QED
    BY <2>1, <2>2 DEF Questionnaires
<1> QED
  BY <1>2, <1>3 DEF Descends

(* A statement of a rebuild carries the questionnaires on if the table it  *)
(* rebuilds is where the next statement expects it.                        *)
LEMMA RebuildCarries ==
  ASSUME Carried, UNCHANGED start, NEW t \in Rebuilt, t = Rebuilding,
         \A u \in Tables \ Homes(t) : Rows(disk', u) = Rows(disk, u),
         migrator'.stage \in HandStages => Rebuilding' = t,
         NEW home, home = Home(t)',
         t \in Questionnaires => Descends(t, Rows(disk', home)) /\ (home # t => Keys(disk', t) = {})
  PROVE  Carried'
<1>1. Questionnaires \subseteq Rebuilt /\ "consent_states" \in Tables \ Homes(t)
  BY LeftoverNames DEF Questionnaires, Homes, Tables, Rebuilt, LegacyOf, NewOf
<1>2. ASSUME NEW v \in Questionnaires, v # t
      PROVE  /\ Descends(v, Rows(disk', Home(v)')) /\ Home(v)' = v
  <2>1. Home(v) = v
    BY <1>2 DEF Home
  <2>2. Home(v)' = v
    BY <1>2 DEF Home, HandStages
  <2>3. v \in Tables \ Homes(t)
    BY <1>1, <1>2, HomesApart DEF Homes
  <2> QED
    BY <2>1, <2>2, <2>3 DEF Carried
<1>3. Rows(disk', "consent_states") = Rows(disk, "consent_states")
  BY <1>1
<1>4. ASSUME NEW v \in Questionnaires
      PROVE  /\ Descends(v, Rows(disk', Home(v)'))
             /\ Home(v)' # v => Keys(disk', v) = {}
  BY <1>2
<1> HIDE DEF Rebuilding
<1> QED
  BY <1>3, <1>4 DEF Carried, Descends

(* The old table is set aside.                                             *)
LEMMA RenameAwayCarries ==
  ASSUME OpsInv, Unharmed, Carried, RenameAway, UNCHANGED start
  PROVE  Carried'
<1>1. PICK t : t = Rebuilding
  OBVIOUS
<1>2. migrator.stage = "rename" /\ Stage("create") /\ Execute(Rename(disk, t, LegacyOf[t]))
  BY <1>1 DEF RenameAway
<1>3. /\ t \in Rebuilt /\ Homes(t) \subseteq Tables /\ IsDatabase(disk)
      /\ t # LegacyOf[t] /\ migrator'.stage = "create" /\ Rebuilding' = t
  BY <1>1, <1>2, RebuildFrom
<1>4. disk' = Rename(disk, t, LegacyOf[t])
  BY <1>2, MigratorWrites
<1>5. t \in Tables /\ LegacyOf[t] \in Tables
  BY <1>3 DEF Homes
<1>6. /\ Rows(disk', LegacyOf[t]) = Rows(disk, t) /\ Rows(disk', t) = <<>>
      /\ \A u \in Tables \ {t, LegacyOf[t]} : Rows(disk', u) = Rows(disk, u)
  BY <1>3, <1>4, <1>5, RenameIs
<1>7. \A u \in Tables \ Homes(t) : Rows(disk', u) = Rows(disk, u)
  BY <1>6 DEF Homes
<1>8. Home(t) = t /\ LegacyOf[t] = Home(t)'
  BY <1>2, <1>3 DEF Home
<1>9. t \in Questionnaires => Descends(t, Rows(disk', LegacyOf[t])) /\ Keys(disk', t) = {}
  BY <1>6, <1>8, MissingKeys DEF Carried, Keys, Rows
<1> QED
  BY <1>1, <1>3, <1>7, <1>8, <1>9, RebuildCarries

(* The new one is created.                                                 *)
LEMMA CreateNewCarries ==
  ASSUME OpsInv, Unharmed, Carried, CreateNew, UNCHANGED start
  PROVE  Carried'
<1>1. PICK t : t = Rebuilding
  OBVIOUS
<1>2. /\ migrator.stage = "create" /\ Stage("copy")
      /\ Execute(SetTable(disk, NewOf[t], [form |-> "new", rows |-> <<>>]))
  BY <1>1 DEF CreateNew, Empty
<1>3. /\ t \in Rebuilt /\ Homes(t) \subseteq Tables /\ IsDatabase(disk)
      /\ t # LegacyOf[t] /\ t # NewOf[t] /\ LegacyOf[t] # NewOf[t]
      /\ migrator'.stage = "copy" /\ Rebuilding' = t
  BY <1>1, <1>2, RebuildFrom
<1>4. disk' = SetTable(disk, NewOf[t], [form |-> "new", rows |-> <<>>])
  BY <1>2, MigratorWrites
<1>5. t \in Tables /\ LegacyOf[t] \in Tables /\ NewOf[t] \in Tables
  BY <1>3 DEF Homes
<1>6. \A u \in Tables \ {NewOf[t]} : Rows(disk', u) = Rows(disk, u)
  BY <1>3, <1>4, <1>5, SetTableIs
<1>7. \A u \in Tables \ Homes(t) : Rows(disk', u) = Rows(disk, u)
  BY <1>6 DEF Homes
<1>8. Home(t) = LegacyOf[t] /\ LegacyOf[t] = Home(t)'
  BY <1>1, <1>2, <1>3 DEF Home
<1>9. Rows(disk', LegacyOf[t]) = Rows(disk, LegacyOf[t]) /\ Rows(disk', t) = Rows(disk, t)
  BY <1>3, <1>5, <1>6
<1>10. t \in Questionnaires => Descends(t, Rows(disk', LegacyOf[t])) /\ Keys(disk', t) = {}
  BY <1>3, <1>8, <1>9 DEF Carried, Keys, Rows
<1> QED
  BY <1>1, <1>3, <1>7, <1>8, <1>10, RebuildCarries

(* The rows are copied.                                                    *)
LEMMA CopyRowsCarries ==
  ASSUME OpsInv, Unharmed, Carried, CopyRows, UNCHANGED start
  PROVE  Carried'
<1>1. PICK t : t = Rebuilding
  OBVIOUS
<1>2. /\ migrator.stage = "copy"
      /\ \E rows : /\ Execute(SetRows(disk, NewOf[t], rows))
                   /\ UNCHANGED migrator \/ (Stage("drop") /\ rows = Copied(t, Rows(disk, LegacyOf[t])))
  BY <1>1 DEF CopyRows
<1>3. PICK rows : /\ Execute(SetRows(disk, NewOf[t], rows))
                  /\ UNCHANGED migrator \/ (Stage("drop") /\ rows = Copied(t, Rows(disk, LegacyOf[t])))
  BY <1>2
<1>4. /\ t \in Rebuilt /\ Homes(t) \subseteq Tables /\ IsDatabase(disk)
      /\ t # LegacyOf[t] /\ t # NewOf[t] /\ LegacyOf[t] # NewOf[t]
      /\ \A s : Stage(s) => migrator'.stage = s /\ Rebuilding' = t
  BY <1>1, <1>2, RebuildFrom
<1>5. disk' = SetRows(disk, NewOf[t], rows)
  BY <1>3, MigratorWrites
<1>6. t \in Tables /\ LegacyOf[t] \in Tables /\ NewOf[t] \in Tables
  BY <1>4 DEF Homes
<1>7. /\ Rows(disk', NewOf[t]) = rows
      /\ \A u \in Tables \ {NewOf[t]} : Rows(disk', u) = Rows(disk, u)
  BY <1>4, <1>5, <1>6, SetRowsIs
<1>8. \A u \in Tables \ Homes(t) : Rows(disk', u) = Rows(disk, u)
  BY <1>7 DEF Homes
<1>9. Home(t) = LegacyOf[t]
  BY <1>1, <1>2 DEF Home
<1>10. Rows(disk', LegacyOf[t]) = Rows(disk, LegacyOf[t]) /\ Rows(disk', t) = Rows(disk, t)
  BY <1>4, <1>6, <1>7
<1>11. t \in Questionnaires => Descends(t, Rows(disk, LegacyOf[t])) /\ Keys(disk', t) = {}
  BY <1>4, <1>9, <1>10 DEF Carried, Keys, Rows
<1>12. CASE UNCHANGED migrator
  <2>1. Rebuilding' = t /\ LegacyOf[t] = Home(t)'
    BY <1>1, <1>2, <1>12 DEF Home, Rebuilding
  <2> QED
    BY <1>1, <1>4, <1>8, <1>10, <1>11, <2>1, RebuildCarries
<1>13. CASE Stage("drop") /\ rows = Copied(t, Rows(disk, LegacyOf[t]))
  <2>1. Rebuilding' = t /\ NewOf[t] = Home(t)'
    BY <1>4, <1>13 DEF Home
  <2>2. t \in Questionnaires => Descends(t, Rows(disk', NewOf[t]))
    BY <1>7, <1>11, <1>13, CopyDescends
  <2> QED
    BY <1>1, <1>4, <1>8, <1>11, <2>1, <2>2, RebuildCarries
<1> QED
  BY <1>3, <1>12, <1>13

(* The table set aside is dropped.                                         *)
LEMMA DropLegacyCarries ==
  ASSUME OpsInv, Unharmed, Carried, DropLegacy, UNCHANGED start
  PROVE  Carried'
<1>1. PICK t : t = Rebuilding
  OBVIOUS
<1>2. /\ migrator.stage = "drop" /\ Stage("restore")
      /\ Execute(SetTable(disk, LegacyOf[t], [form |-> "missing", rows |-> <<>>]))
  BY <1>1 DEF DropLegacy, Missing
<1>3. /\ t \in Rebuilt /\ Homes(t) \subseteq Tables /\ IsDatabase(disk)
      /\ t # LegacyOf[t] /\ t # NewOf[t] /\ LegacyOf[t] # NewOf[t]
      /\ migrator'.stage = "restore" /\ Rebuilding' = t
  BY <1>1, <1>2, RebuildFrom
<1>4. disk' = SetTable(disk, LegacyOf[t], [form |-> "missing", rows |-> <<>>])
  BY <1>2, MigratorWrites
<1>5. t \in Tables /\ LegacyOf[t] \in Tables /\ NewOf[t] \in Tables
  BY <1>3 DEF Homes
<1>6. \A u \in Tables \ {LegacyOf[t]} : Rows(disk', u) = Rows(disk, u)
  BY <1>3, <1>4, <1>5, SetTableIs
<1>7. \A u \in Tables \ Homes(t) : Rows(disk', u) = Rows(disk, u)
  BY <1>6 DEF Homes
<1>8. Home(t) = NewOf[t] /\ NewOf[t] = Home(t)'
  BY <1>1, <1>2, <1>3 DEF Home
<1>9. Rows(disk', NewOf[t]) = Rows(disk, NewOf[t]) /\ Rows(disk', t) = Rows(disk, t)
  BY <1>3, <1>5, <1>6
<1>10. t \in Questionnaires => Descends(t, Rows(disk', NewOf[t])) /\ Keys(disk', t) = {}
  BY <1>3, <1>8, <1>9 DEF Carried, Keys, Rows
<1> QED
  BY <1>1, <1>3, <1>7, <1>8, <1>10, RebuildCarries

(* The new table takes its name.                                           *)
LEMMA RenameBackCarries ==
  ASSUME OpsInv, Unharmed, Carried, RenameBack, UNCHANGED start
  PROVE  Carried'
<1>1. PICK t : t = Rebuilding
  OBVIOUS
<1>2. /\ migrator.stage = "restore" /\ migrator'.stage \in {"finish", "rename"}
      /\ Execute(Rename(disk, NewOf[t], t))
  BY <1>1 DEF RenameBack, OpsInv, LocalType
<1>3. /\ t \in Rebuilt /\ Homes(t) \subseteq Tables /\ IsDatabase(disk) /\ t # NewOf[t]
  BY <1>1, <1>2, RebuildFrom
<1>4. disk' = Rename(disk, NewOf[t], t)
  BY <1>2, MigratorWrites
<1>5. t \in Tables /\ NewOf[t] \in Tables
  BY <1>3 DEF Homes
<1>6. /\ Rows(disk', t) = Rows(disk, NewOf[t])
      /\ \A u \in Tables \ {t, NewOf[t]} : Rows(disk', u) = Rows(disk, u)
  BY <1>3, <1>4, <1>5, RenameIs
<1>7. \A u \in Tables \ Homes(t) : Rows(disk', u) = Rows(disk, u)
  BY <1>6 DEF Homes
<1>8. Home(t) = NewOf[t] /\ t = Home(t)' /\ migrator'.stage \notin HandStages
  BY <1>1, <1>2 DEF Home, HandStages
<1>9. t \in Questionnaires => Descends(t, Rows(disk', t))
  BY <1>6, <1>8 DEF Carried
<1> QED
  BY <1>1, <1>3, <1>7, <1>8, <1>9, RebuildCarries

(* A step that leaves the rows of the questionnaires alone.                *)
LEMMA ElseCarries ==
  ASSUME Carried, UNCHANGED start, migrator'.stage \notin HandStages,
         \A t \in Questionnaires \cup {"consent_states"} : Rows(disk', t) = Rows(disk, t)
  PROVE  Carried'
<1>1. ASSUME NEW t \in Questionnaires
      PROVE  Descends(t, Rows(disk, t))
  <2>1. CASE Home(t) = t
    BY <2>1 DEF Carried
  <2>2. CASE Home(t) # t
    BY <2>2 DEF Carried, Descends, Keys, Rows
  <2> QED
    BY <2>1, <2>2
<1>2. \A t : Home(t)' = t
  BY DEF Home, HandStages
<1>3. \A t \in Questionnaires : Descends(t, Rows(disk', t))
  BY <1>1
<1> QED
  BY <1>2, <1>3 DEF Carried, Descends

(* The migrator carries the questionnaires on.                             *)
LEMMA MigratorCarries ==
  ASSUME OpsInv, Unharmed, Carried, MigratorStep
  PROVE  Carried'
<1>1. UNCHANGED start
  BY DEF MigratorStep
<1>2. Questionnaires \cup {"consent_states"} \subseteq Tables \ {"cases"}
  BY LeftoverNames DEF Questionnaires, Tables
<1>3. CASE StartMigrating \/ StartMigration \/ MigratorDies
  <2>1. UNCHANGED disk
    BY <1>3 DEF StartMigrating, StartMigration, MigratorDies, txVars
  <2>2. migrator'.stage \in {"start", "idle", "finish", "rename"}
    <3>1. CASE StartMigration
      BY <3>1 DEF StartMigration, OpsInv, LocalType
    <3>2. CASE StartMigrating \/ MigratorDies
      BY <3>2 DEF StartMigrating, MigratorDies, NotMigrating
    <3> QED
      BY <1>3, <3>1, <3>2
  <2> QED
    BY <1>1, <2>1, <2>2, ElseCarries DEF HandStages
<1>4. CASE FinishMigration
  <2>1. /\ migrator.stage = "finish" /\ migrator'.stage = "record" /\ Execute(Finished(Current, disk))
    BY <1>4 DEF FinishMigration, Stage, OpsInv, LocalType
  <2>2. disk' = Finished(Current, disk) /\ IsDatabase(disk) /\ Current \in Migrations /\ MissingIsEmpty(disk)
    BY <2>1, MigratorWrites, MigratingIs DEF Unharmed
  <2>3. \A t \in Tables \ {"cases"} : Rows(disk', t) = Rows(disk, t)
    BY <2>2, FinishingLosesNothing
  <2> QED
    BY <1>1, <1>2, <2>1, <2>3, ElseCarries DEF HandStages
<1>5. CASE RecordMigration
  <2>1. /\ migrator.stage = "record" /\ Execute([disk EXCEPT !.applied = @ \cup {Current}])
        /\ migrator'.stage \in {"idle", "start"}
    BY <1>5 DEF RecordMigration, NotMigrating
  <2>2. disk' = [disk EXCEPT !.applied = @ \cup {Current}] /\ IsDatabase(disk)
    BY <2>1, MigratorWrites, MigratingIs
  <2>3. \A t : Rows(disk', t) = Rows(disk, t)
    BY <2>2 DEF IsDatabase, Rows
  <2> QED
    BY <1>1, <2>1, <2>3, ElseCarries DEF HandStages
<1> QED
  BY <1>1, <1>3, <1>4, <1>5, RenameAwayCarries, CreateNewCarries, CopyRowsCarries, DropLegacyCarries,
     RenameBackCarries
  DEF MigratorStep, Migrate

-----------------------------------------------------------------------------
(* The upgrade ends *)

(* What the migrations have made of a questionnaire.                       *)
LEMMA DescendedReads ==
  ASSUME NEW db, \A t \in Questionnaires : Descends(t, Rows(db, t)), NEW s
  PROVE  /\ StateOf(db, s) \in {"asking_attachments", "intake_complete"} => StateOf(start, s) = StateOf(db, s)
         /\ \A f \in FieldNames \ {"firstName", "lastName"} :
              FieldsOf(db, s)[f] # Absent => FieldsOf(start, s)[f] # Absent
         /\ Keys(db, "intake_fields") # {} => \A f \in FieldNames :
              FieldsOf(start, s)[f] # Absent => FieldsOf(db, s)[f] # Absent
<1> DEFINE states == Rows(db, "intake_states")
           fields == Rows(db, "intake_fields")
           old == Rows(start, "intake_fields")
<1>1. Descends("intake_states", states) /\ Descends("intake_fields", fields)
  BY DEF Questionnaires
<1>2. /\ Keys(db, "intake_states") = DOMAIN states /\ Keys(db, "intake_fields") = DOMAIN fields
      /\ Keys(start, "intake_states") = DOMAIN Rows(start, "intake_states")
      /\ Keys(start, "intake_fields") = DOMAIN old
  BY DEF Keys, Rows
<1>3. \A f \in FieldNames :
        /\ FieldsOf(db, s)[f] = IF <<s, f>> \in DOMAIN fields THEN fields[<<s, f>>] ELSE Absent
        /\ FieldsOf(start, s)[f] = IF <<s, f>> \in DOMAIN old THEN old[<<s, f>>] ELSE Absent
  BY <1>2 DEF FieldsOf
<1> HIDE DEF fields, old
<1>4. StateOf(db, s) \in {"asking_attachments", "intake_complete"} => StateOf(start, s) = StateOf(db, s)
  BY <1>1, <1>2 DEF Descends, Follows, StateOf, CopiedState
<1>5. DOMAIN fields = {} \/ Follows("intake_fields", old, fields)
  BY <1>1 DEF Descends, old
<1>6. \A f \in FieldNames \ {"firstName", "lastName"} :
        FieldsOf(db, s)[f] # Absent => FieldsOf(start, s)[f] # Absent
  <2> SUFFICES ASSUME NEW f \in FieldNames \ {"firstName", "lastName"}, FieldsOf(db, s)[f] # Absent
               PROVE  FieldsOf(start, s)[f] # Absent
    OBVIOUS
  <2>1. <<s, f>> \in DOMAIN fields
    BY <1>3
  <2>2. <<s, f>> \in DOMAIN old /\ fields[<<s, f>>] = old[<<s, f>>]
    BY <1>5, <2>1 DEF Follows
  <2> QED
    BY <1>3, <2>1, <2>2
<1>7. Keys(db, "intake_fields") # {} => \A f \in FieldNames :
        FieldsOf(start, s)[f] # Absent => FieldsOf(db, s)[f] # Absent
  <2> SUFFICES ASSUME DOMAIN fields # {}, NEW f \in FieldNames, FieldsOf(start, s)[f] # Absent
               PROVE  FieldsOf(db, s)[f] # Absent
    BY <1>2
  <2>1. <<s, f>> \in DOMAIN old
    BY <1>3
  <2>2. <<s, f>> \in DOMAIN fields /\ fields[<<s, f>>] = old[<<s, f>>]
    BY <1>5, <2>1 DEF Follows
  <2> QED
    BY <1>3, <2>1, <2>2
<1> QED
  BY <1>4, <1>6, <1>7

(* The questionnaires the migrations have carried through are settled, and *)
(* on a file with no table left aside they are in order if they were.      *)
LEMMA CarriedIsSettled ==
  ASSUME NEW db, \A t \in Questionnaires : Descends(t, Rows(db, t)),
         Rows(db, "consent_states") = Rows(start, "consent_states"),
         NoLeftovers(db) =>
           /\ DOMAIN Copied("intake_fields", Rows(start, "intake_fields")) \subseteq Keys(db, "intake_fields")
           /\ \A s : DraftsOf(db, s) \subseteq DraftsOf(start, s),
         NEW s
  PROVE  Settled(db, s) /\ (Promised(db, s) => Consented(db, s))
<1>1. /\ StateOf(db, s) \in {"asking_attachments", "intake_complete"} => StateOf(start, s) = StateOf(db, s)
      /\ \A f \in FieldNames \ {"firstName", "lastName"} :
           FieldsOf(db, s)[f] # Absent => FieldsOf(start, s)[f] # Absent
      /\ Keys(db, "intake_fields") # {} => \A f \in FieldNames :
           FieldsOf(start, s)[f] # Absent => FieldsOf(db, s)[f] # Absent
  BY DescendedReads
<1>2. CaseFields \subseteq FieldNames /\ "problemSummary" \in CaseFields \ {"firstName", "lastName"}
        /\ "attachmentMetadata" \in FieldNames
  BY DEF CaseFields, FieldNames, IdentityFields
<1>3. ASSUME NEW d, NEW f \in FieldNames, FieldsOf(d, s)[f] # Absent
      PROVE  <<s, f>> \in Keys(d, "intake_fields")
  BY <1>3 DEF FieldsOf
<1>4. ASSUME AttachmentsAnswered(start, s), Complete(db, s), HasCaseFields(FieldsOf(db, s))
      PROVE  FieldsOf(db, s)["attachmentMetadata"] # Absent
  <2>1. Keys(db, "intake_fields") # {}
    BY <1>2, <1>3, <1>4 DEF HasCaseFields
  <2>2. StateOf(start, s) = "intake_complete" /\ \A f \in CaseFields \ {"firstName", "lastName"} : FieldsOf(start, s)[f] # Absent
    BY <1>1, <1>2, <1>4 DEF Complete, HasCaseFields
  <2>3. FieldsOf(start, s)["attachmentMetadata"] # Absent
    BY <1>4, <2>2 DEF AttachmentsAnswered
  <2> QED
    BY <1>1, <1>2, <2>1, <2>3
<1>5. ASSUME Promised(db, s), StateOf(db, s) \in {"asking_attachments", "intake_complete"}
      PROVE  HasCaseFields(FieldsOf(db, s))
  <2>1. \A f \in CaseFields : FieldsOf(start, s)[f] # Absent
    BY <1>1, <1>5 DEF Promised, InOrder
  <2>2. <<s, "problemSummary">> \in DOMAIN Rows(start, "intake_fields")
    BY <1>2, <1>3, <2>1 DEF Keys, Rows
  <2>3. "problemSummary" \in CopiedFields(<<s, "problemSummary">>[2], Rows(start, "intake_fields")[<<s, "problemSummary">>])
    BY <1>2 DEF CopiedFields
  <2>4. <<s, "problemSummary">> \in DOMAIN Copied("intake_fields", Rows(start, "intake_fields"))
    BY <2>2, <2>3, CopiedFieldKeys
  <2>5. Keys(db, "intake_fields") # {}
    BY <1>5, <2>4 DEF Promised
  <2> QED
    BY <1>1, <1>2, <2>1, <2>5 DEF HasCaseFields
<1>6. ASSUME Promised(db, s), Complete(db, s) \/ DraftsOf(db, s) # {}
      PROVE  ConsentOf(db, s) = "granted"
  <2>1. StateOf(start, s) = "intake_complete" \/ DraftsOf(start, s) # {}
    BY <1>1, <1>6 DEF Complete, Promised
  <2>2. ConsentOf(start, s) = "granted"
    BY <1>6, <2>1 DEF Promised, InOrder
  <2> QED
    BY <2>2, ReadAlike
<1> QED
  BY <1>4, <1>5, <1>6 DEF Settled, Listed, Answered, Consented

(* A draft that is not archived was one.                                   *)
LEMMA ArchivedDrafts ==
  ASSUME NEW db, Numbered(start), Rows(db, "cases") = Archive(Rows(start, "cases")), NEW s
  PROVE  DraftsOf(db, s) \subseteq DraftsOf(start, s)
<1> DEFINE old == Rows(start, "cases")
<1>1. \A id \in DOMAIN old : IsRow(old[id])
  BY DEF Numbered, Keys, Rows, IsRow
<1>2. /\ \A d : DraftsOf(start, d) = {id \in DOMAIN old : old[id].status = "draft" /\ old[id].subject = d}
      /\ DraftsOf(db, s) = {id \in DOMAIN Archive(old) : Archive(old)[id].status = "draft" /\ Archive(old)[id].subject = s}
  BY DEF DraftsOf, Drafts, Keys, Rows
<1> HIDE DEF old
<1>3. ASSUME NEW id \in DOMAIN old
      PROVE  /\ id \in DOMAIN Archive(old) /\ Archive(old)[id].subject = old[id].subject
             /\ Archive(old)[id].status = "draft" => old[id].status = "draft"
  BY <1>1, <1>3 DEF Archive, IsRow
<1>4. DOMAIN Archive(old) = DOMAIN old
  BY DEF Archive
<1> QED
  BY <1>2, <1>3, <1>4

(* So are they when the last migration is recorded.                        *)
LEMMA LastMigrationSettles ==
  ASSUME OpsInv, Unharmed, Tidy => Exact, Carried', RecordMigration, UNCHANGED start, Numbered(start),
         AllApplied(disk'), NEW s
  PROVE  Settled(disk', s) /\ (Promised(disk', s) => Consented(disk', s))
<1>1. migrator'.stage \in {"idle", "start"}
  BY DEF RecordMigration, NotMigrating
<1>2. \A t : Home(t)' = t
  BY <1>1 DEF Home
<1>3. /\ \A t \in Questionnaires : Descends(t, Rows(disk', t))
      /\ Rows(disk', "consent_states") = Rows(start, "consent_states")
  BY <1>2 DEF Carried, Descends
<1>4. ASSUME NoLeftovers(disk')
      PROVE  /\ DOMAIN Copied("intake_fields", Rows(start, "intake_fields")) \subseteq Keys(disk', "intake_fields")
             /\ \A d : DraftsOf(disk', d) \subseteq DraftsOf(start, d)
  <2>1. Upgraded(disk')
    BY <1>4, LastMigrationUpgrades DEF Kept
  <2>2. Exact'
    BY <1>4, RecordMigrationExact DEF NoLeftovers, Tidy, Exists
  <2>3. EnforceUniqueness \in disk'.applied
    BY DEF AllApplied, Pending, Migrations, EnforceUniqueness
  <2>4. Rows(disk', "cases") = Archive(Rows(start, "cases"))
    BY <2>2, <2>3 DEF Exact, Over, Rows
  <2>5. \A d : DraftsOf(disk', d) \subseteq DraftsOf(start, d)
    BY <2>4, ArchivedDrafts
  <2> QED
    BY <2>1, <2>5 DEF Upgraded
<1> QED
  BY <1>3, <1>4, CarriedIsSettled

-----------------------------------------------------------------------------
(* The other processes *)

(* What a step must establish.                                             *)
LEMMA OrderlyNext ==
  ASSUME UNCHANGED start,
         NEW db, db = disk', NEW view, view = Database', NEW kept, kept = Range(saves'[Runtime]),
         NEW within, within <=> open'[Runtime] # "none", NEW r, r = runtime', NEW gone, gone = abandoned',
         Orders(db, view, kept, within, r, gone)
  PROVE  Orderly'
<1> HIDE DEF Database
<1> QED
  BY DEF Orderly, Orders, Settled, Promised, Writing

(* A case and an audit event leave the questionnaires and consents alone.  *)
LEMMA CaseTables ==
  ASSUME NEW db, IsDatabase(db), NEW t \in {"cases", "audit_events"}, NEW rows
  PROVE  LET new == SetRows(db, t, rows) IN
         /\ IsDatabase(new) /\ Rows(new, t) = rows
         /\ \A u \in Tables : Form(new, u) = Form(db, u)
         /\ t # "cases" => Rows(new, "cases") = Rows(db, "cases")
         /\ \A s : /\ StateOf(new, s) = StateOf(db, s) /\ ConsentOf(new, s) = ConsentOf(db, s)
                   /\ FieldsOf(new, s) = FieldsOf(db, s)
<1> DEFINE new == SetRows(db, t, rows)
<1>1. {"cases", "audit_events", "intake_states", "consent_states", "intake_fields"} \subseteq Tables
  BY DEF Tables, Rebuilt, LegacyOf
<1>2. /\ IsDatabase(new) /\ Rows(new, t) = rows
      /\ \A u \in Tables : Form(new, u) = Form(db, u)
      /\ \A u \in Tables \ {t} : Rows(new, u) = Rows(db, u)
  BY <1>1, SetRowsIs
<1> HIDE DEF new
<1>3. \A u \in {"intake_states", "consent_states", "intake_fields"} : Rows(new, u) = Rows(db, u)
  BY <1>1, <1>2
<1>4. \A s : /\ StateOf(new, s) = StateOf(db, s) /\ ConsentOf(new, s) = ConsentOf(db, s)
             /\ FieldsOf(new, s) = FieldsOf(db, s)
  BY <1>3, ReadAlike
<1> QED
  BY <1>1, <1>2, <1>4 DEF new

(* What a command commits: nobody gets a draft without consent.            *)
LEMMA CommandReads ==
  ASSUME OpsInv, NEW o \in Operators, CommitCase(o)
  PROVE  /\ \A t \in Tables : Form(disk', t) = Form(disk, t)
         /\ \A s : /\ StateOf(disk', s) = StateOf(disk, s) /\ ConsentOf(disk', s) = ConsentOf(disk, s)
                   /\ FieldsOf(disk', s) = FieldsOf(disk, s)
                   /\ DraftsOf(disk', s) # {} => DraftsOf(disk, s) # {} \/ ConsentOf(disk, s) = "granted"
<1> DEFINE c == operator[o].subject
           mid == WithCase(disk, o)
<1>1. /\ AllApplied(disk)
      /\ \/ Justified(o) /\ disk' = WithAudit(mid, "case_created_from_intake", c)
         \/ \E id \in DraftsOf(disk, c) : disk' = WithAudit(disk, "case_create_from_intake_idempotent_hit", id)
  BY CommitWrites
<1>2. IsDatabase(disk)
  BY <1>1, Migrated
<1>3. ASSUME NEW id \in DraftsOf(disk, c), disk' = WithAudit(disk, "case_create_from_intake_idempotent_hit", id)
      PROVE  /\ \A t \in Tables : Form(disk', t) = Form(disk, t)
             /\ Rows(disk', "cases") = Rows(disk, "cases")
             /\ \A s : /\ StateOf(disk', s) = StateOf(disk, s) /\ ConsentOf(disk', s) = ConsentOf(disk, s)
                       /\ FieldsOf(disk', s) = FieldsOf(disk, s)
  BY <1>2, <1>3, CaseTables DEF WithAudit
<1>4. ASSUME Justified(o), disk' = WithAudit(mid, "case_created_from_intake", c)
      PROVE  /\ \A t \in Tables : Form(disk', t) = Form(disk, t)
             /\ Rows(disk', "cases") = Put(Rows(disk, "cases"), c, NewCase(o))
             /\ \A s : /\ StateOf(disk', s) = StateOf(disk, s) /\ ConsentOf(disk', s) = ConsentOf(disk, s)
                       /\ FieldsOf(disk', s) = FieldsOf(disk, s)
  <2>1. /\ IsDatabase(mid) /\ Rows(mid, "cases") = Put(Rows(disk, "cases"), c, NewCase(o))
        /\ \A t \in Tables : Form(mid, t) = Form(disk, t)
        /\ \A s : /\ StateOf(mid, s) = StateOf(disk, s) /\ ConsentOf(mid, s) = ConsentOf(disk, s)
                  /\ FieldsOf(mid, s) = FieldsOf(disk, s)
    BY <1>2, CaseTables DEF WithCase
  <2> HIDE DEF mid
  <2>2. /\ \A t \in Tables : Form(disk', t) = Form(mid, t)
        /\ Rows(disk', "cases") = Rows(mid, "cases")
        /\ \A s : /\ StateOf(disk', s) = StateOf(mid, s) /\ ConsentOf(disk', s) = ConsentOf(mid, s)
                  /\ FieldsOf(disk', s) = FieldsOf(mid, s)
    BY <1>4, <2>1, CaseTables DEF WithAudit
  <2> QED
    BY <2>1, <2>2
<1>5. ASSUME Rows(disk', "cases") = Rows(disk, "cases"), NEW s, DraftsOf(disk', s) # {}
      PROVE  DraftsOf(disk, s) # {}
  BY <1>5, ReadAlike
<1>6. ASSUME Justified(o), Rows(disk', "cases") = Put(Rows(disk, "cases"), c, NewCase(o)),
             NEW s, DraftsOf(disk', s) # {}
      PROVE  DraftsOf(disk, s) # {} \/ ConsentOf(disk, s) = "granted"
  <2>1. ConsentOf(disk, c) = "granted"
    BY <1>6 DEF Justified, CanCreateCase
  <2>2. PICK id \in DraftsOf(disk', s) : TRUE
    BY <1>6
  <2>3. /\ id \in DOMAIN Put(Rows(disk, "cases"), c, NewCase(o))
        /\ Put(Rows(disk, "cases"), c, NewCase(o))[id].subject = s
        /\ Put(Rows(disk, "cases"), c, NewCase(o))[id].status = "draft"
    BY <1>6, <2>2 DEF DraftsOf, Drafts, Keys, Rows
  <2>4. CASE id = c
    <3>1. s = c
      BY <2>3, <2>4 DEF Put, NewCase
    <3> QED
      BY <2>1, <3>1
  <2>5. CASE id # c
    <3>1. id \in Keys(disk, "cases") /\ Rows(disk, "cases")[id].subject = s /\ Rows(disk, "cases")[id].status = "draft"
      BY <2>3, <2>5 DEF Put, Keys, Rows
    <3> QED
      BY <3>1 DEF DraftsOf, Drafts
  <2> QED
    BY <2>4, <2>5
<1> QED
  BY <1>1, <1>3, <1>4, <1>5, <1>6

(* The steps of the other processes find and leave things in order.        *)
LEMMA OthersOrderly ==
  ASSUME OpsInv, AllApplied(disk), Orderly, OperatorStep \/ BackupStep
  PROVE  Orderly'
<1>1. UNCHANGED <<runtime, abandoned, start>>
  BY DEF OperatorStep, BackupStep
<1>2. PICK c \in Connections \ {Runtime} : [StepOf(c)]_txVars
  BY OperatorIsTx, BackupIsTx, ConnectionsAssumption DEF OperatorStep, BackupStep
<1>3. TxInv /\ Runtime \in Connections
  BY ConnectionsAssumption DEF OpsInv
<1>4. lock'[Runtime] = lock[Runtime] /\ open'[Runtime] = open[Runtime] /\ saves'[Runtime] = saves[Runtime]
  BY <1>2, <1>3, OthersKeep
<1>5. CASE disk' = disk
  <2>1. lock[Runtime] = "reserved" => pending' = pending
    BY <1>2, <1>3, OthersWait
  <2>2. Database' = Database
    BY <1>4, <1>5, <2>1 DEF Database, View
  <2> HIDE DEF Database
  <2> QED
    BY <1>1, <1>4, <1>5, <2>2, OrderlyNext DEF Orderly
<1>6. ASSUME NEW o \in Operators, CommitCase(o), disk' # disk
      PROVE  Orderly'
  <2>1. lock[Runtime] # "reserved"
    BY <1>2, <1>3, <1>6, OthersWait
  <2>2. Database = disk /\ Database' = disk'
    BY <1>4, <2>1 DEF Database, View
  <2>3. Range(saves[Runtime]) = {}
    <3>1. saves[Runtime] = <<>>
      BY <2>1 DEF OpsInv, RuntimeWork
    <3> QED
      BY <3>1 DEF Range
  <2> DEFINE within == open[Runtime] # "none"
  <2>4. Orders(disk, disk, {}, within, runtime, abandoned)
    BY <2>2, <2>3 DEF Orderly
  <2>5. PICK db : db = disk'
    OBVIOUS
  <2>6. /\ \A t \in Tables : Form(db, t) = Form(disk, t)
        /\ \A s : /\ StateOf(db, s) = StateOf(disk, s) /\ ConsentOf(db, s) = ConsentOf(disk, s)
                  /\ FieldsOf(db, s) = FieldsOf(disk, s)
                  /\ DraftsOf(db, s) # {} => DraftsOf(disk, s) # {} \/ ConsentOf(disk, s) = "granted"
    BY <1>6, <2>5, CommandReads
  <2>7. \A s : (Promised(db, s) <=> Promised(disk, s)) /\ (Settled(db, s) <=> Settled(disk, s))
    BY <2>6, LeftAlike, SettledAlike
  <2>8. \A s : Consented(disk, s) => Consented(db, s)
    BY <2>6 DEF Consented, Complete
  <2>9. Writing(db, runtime, abandoned)
    BY <2>4, <2>6, <2>7 DEF Orders, Writing, Written
  <2>10. Orders(db, db, {}, within, runtime, abandoned)
    BY <2>4, <2>7, <2>8, <2>9 DEF Orders
  <2> HIDE DEF Database
  <2> QED
    BY <1>1, <1>4, <2>2, <2>3, <2>5, <2>10, OrderlyNext
<1>7. disk' = disk \/ \E o \in Operators : CommitCase(o)
  <2>1. CASE OperatorStep
    BY <2>1, OperatorCommits
  <2>2. CASE BackupStep
    BY <2>2 DEF BackupStep, StartBackup, EndBackup, BeginRead, Close
  <2> QED
    BY <2>1, <2>2
<1> QED
  BY <1>5, <1>6, <1>7

-----------------------------------------------------------------------------
(* The runtime *)

(* What the runtime sees beside what is committed.                         *)
LEMMA RuntimeSees ==
  ASSUME OpsInv
  PROVE  /\ Runtime \in Connections
         /\ open[Runtime] = "none" => lock[Runtime] = "none"
         /\ lock[Runtime] # "reserved" => Database = disk /\ saves[Runtime] = <<>>
         /\ lock[Runtime] = "reserved" => Database = pending
         /\ IsDatabase(Database) /\ \A t \in Tables : Form(Database, t) = Form(disk, t)
         /\ Range(<<>>) = {}
<1>1. Runtime \in Connections /\ Range(<<>>) = {}
  BY ConnectionsAssumption DEF Range
<1>2. open[Runtime] = "none" => lock[Runtime] = "none"
  BY <1>1 DEF OpsInv, TxInv, NoLockOutside
<1>3. lock[Runtime] # "reserved" => Database = disk /\ saves[Runtime] = <<>>
  BY DEF OpsInv, RuntimeWork, Database, View
<1>4. lock[Runtime] = "reserved" => Database = pending /\ SameCases(pending, disk)
  BY DEF OpsInv, RuntimeWork, Database, View
<1> HIDE DEF Database
<1> QED
  BY <1>1, <1>2, <1>3, <1>4, DatabaseIs DEF SameCases

(* Of a client whose answer is not being written, every content there is   *)
(* has a settled questionnaire.                                            *)
LEMMA EverywhereSettled ==
  ASSUME OpsInv, Orderly, NEW s \in Clients \ abandoned, ~InWork(runtime, s),
         NEW d \in {disk, Database} \cup Range(saves[Runtime])
  PROVE  Settled(d, s)
<1>1. Settled(Database, s) /\ \A e \in Range(saves[Runtime]) : Settled(e, s)
  BY DEF Orderly, Orders
<1>2. open[Runtime] # "none" => Settled(disk, s)
  BY DEF Orderly, Orders
<1>3. open[Runtime] = "none" => Database = disk
  BY RuntimeSees
<1> HIDE DEF Database
<1> QED
  BY <1>1, <1>2, <1>3

(* A step after which there is nothing new to be read.                     *)
LEMMA RestOrderly ==
  ASSUME OpsInv, Orderly, UNCHANGED start, abandoned \subseteq abandoned',
         disk' \in {disk, Database}, Database' \in {disk, Database} \cup Range(saves[Runtime]),
         Range(saves'[Runtime]) \subseteq {Database} \cup Range(saves[Runtime]),
         \A s \in Clients \ abandoned' : ~InWork(runtime, s),
         NEW view, view = Database', NEW r, r = runtime', NEW gone, gone = abandoned',
         Writing(view, r, gone)
  PROVE  Orderly'
<1>1. PICK db, kept : db = disk' /\ kept = Range(saves'[Runtime])
  OBVIOUS
<1>2. {db, view} \cup kept \subseteq {disk, Database} \cup Range(saves[Runtime])
  BY <1>1
<1>3. \A s \in Clients \ gone : \A d \in {db, view} \cup kept : Settled(d, s)
  BY <1>2, EverywhereSettled
<1>4. \A d \in {db, view} \cup kept : \A s \in Clients : Promised(d, s) => Consented(d, s)
  BY <1>2 DEF Orderly, Orders
<1> DEFINE within == open'[Runtime] # "none"
<1>5. Orders(db, view, kept, within, r, gone)
  <2> HIDE DEF within
  <2> QED
    BY <1>3, <1>4 DEF Orders
<1> HIDE DEF Database
<1> QED
  BY <1>1, <1>5, OrderlyNext

(* What a change of the database leaves.                                   *)
LEMMA ChangeIs ==
  ASSUME OpsInv, NEW content, Change(content)
  PROVE  /\ Database' = content /\ open'[Runtime] = open[Runtime] /\ saves'[Runtime] = saves[Runtime]
         /\ open[Runtime] = "none" => disk' = content /\ saves[Runtime] = <<>>
         /\ open[Runtime] # "none" => disk' = disk
<1>1. /\ Runtime \in Connections /\ (open[Runtime] = "none" => lock[Runtime] = "none" /\ saves[Runtime] = <<>>)
      /\ TxType
  BY RuntimeSees DEF OpsInv, TxInv
<1>2. /\ pending' = content /\ UNCHANGED <<open, saves>>
      /\ open[Runtime] = "none" => disk' = content /\ lock' = lock
      /\ open[Runtime] # "none" => disk' = disk /\ lock'[Runtime] = "reserved"
  BY <1>1 DEF Change, Write, TxType
<1>3. Database' = content
  BY <1>1, <1>2 DEF Database, View
<1> HIDE DEF Database
<1> QED
  BY <1>1, <1>2, <1>3

(* A step that changes it.                                                 *)
LEMMA WriteOrderly ==
  ASSUME OpsInv, Orderly, UNCHANGED <<start, abandoned>>, NEW content, Change(content),
         \A s \in Clients : Promised(content, s) => Consented(content, s),
         NEW r, r = runtime',
         \A s \in Clients \ abandoned : InWork(r, s) \/ Settled(content, s),
         Writing(content, r, abandoned)
  PROVE  Orderly'
<1>1. PICK db, kept : db = disk' /\ kept = Range(saves[Runtime])
  OBVIOUS
<1>2. /\ Database' = content /\ open'[Runtime] = open[Runtime] /\ saves'[Runtime] = saves[Runtime]
      /\ open[Runtime] = "none" => db = content /\ kept = {}
      /\ open[Runtime] # "none" => db = disk
  BY <1>1, ChangeIs, RuntimeSees
<1> DEFINE within == open[Runtime] # "none"
<1>3. Orders(db, content, kept, within, r, abandoned)
  <2>1. Orders(disk, Database, kept, within, runtime, abandoned)
    BY <1>1 DEF Orderly
  <2>2. within => db = disk
    BY <1>2
  <2>3. ~within => db = content /\ kept = {}
    BY <1>2
  <2> HIDE DEF within, Database
  <2> QED
    BY <2>1, <2>2, <2>3 DEF Orders
<1> HIDE DEF Database
<1> QED
  BY <1>1, <1>2, <1>3, OrderlyNext

(* Where it goes.                                                          *)
LEMMA GoingShape ==
  ASSUME RuntimeShape, NEW label, Goto(label)
  PROVE  /\ RuntimeShape' /\ runtime'.pc = label /\ runtime'.client = runtime.client
         /\ runtime'.justGranted = runtime.justGranted
         /\ runtime'.next = runtime.next /\ runtime'.left = runtime.left
BY DEF RuntimeShape, Goto

LEMMA RestingShape ==
  ASSUME runtime' \in {Ready, Down}
  PROVE  RuntimeShape' /\ runtime'.pc \in {"down", "idle"}
BY DEF RuntimeShape, Ready, Down

(* Where it has nothing in hand.                                           *)
Calm(r) ==
  \/ r.pc \in {"down", "idle"}
  \/ r.client \in Clients /\ r.pc \in {"consent", "begin", "check", "create", "commit", "unwind"}

LEMMA CalmWriting ==
  ASSUME NEW db, NEW r, NEW gone, Calm(r)
  PROVE  Writing(db, r, gone) /\ \A s : ~InWork(r, s)
BY DEF Calm, Writing, Writes, InWork

(* A query changes nothing that is seen.                                   *)
LEMMA SeenAlike ==
  ASSUME OpsInv, Read(Runtime) \/ UNCHANGED txVars \/ EnterFails(Runtime)
  PROVE  disk' = disk /\ Database' = Database /\ saves'[Runtime] = saves[Runtime]
<1>1. Runtime \in Connections /\ TxType
  BY RuntimeSees DEF OpsInv, TxInv
<1>2. UNCHANGED <<disk, pending, saves>> /\ (lock'[Runtime] = "reserved" <=> lock[Runtime] = "reserved")
  BY <1>1 DEF Read, txVars, EnterFails, files, TxType
<1> QED
  BY <1>2 DEF Database, View

(* The steps of a message that write nothing and have nothing in hand.     *)
LEMMA CalmOrderly ==
  ASSUME OpsInv, RuntimeShape, Orderly, UNCHANGED <<start, abandoned>>,
         StartRuntime \/ TakeMessage \/ BeginPracticeRefused \/ CheckPractice \/ CommitPracticeRefused
  PROVE  RuntimeShape' /\ Orderly'
<1>1. disk' = disk /\ Database' = Database /\ saves'[Runtime] = saves[Runtime]
  <2>1. Read(Runtime) \/ UNCHANGED txVars \/ EnterFails(Runtime)
    BY DEF StartRuntime, TakeMessage, BeginPracticeRefused, CheckPractice, CommitPracticeRefused
  <2> QED
    BY <2>1, SeenAlike
<1>2. Calm(runtime) /\ RuntimeShape' /\ Calm(runtime')
  <2>1. CASE StartRuntime \/ BeginPracticeRefused
    <3>1. runtime.pc \in {"down", "begin"} /\ runtime' = Ready
      BY <2>1 DEF StartRuntime, BeginPracticeRefused, At
    <3> QED
      BY <3>1, RestingShape DEF Calm, Orderly, Orders, Writing
  <2>2. CASE TakeMessage
    <3>1. PICK s \in Clients, content \in Choices :
            runtime' = [Ready EXCEPT !.pc = "consent", !.client = s, !.content = {content}]
      BY <2>2 DEF TakeMessage
    <3>2. RuntimeShape' /\ runtime'.pc = "consent" /\ runtime'.client \in Clients
      BY <3>1 DEF RuntimeShape, Ready
    <3> QED
      BY <2>2, <3>2 DEF TakeMessage, At, Calm
  <2>3. CASE CheckPractice \/ CommitPracticeRefused
    <3>1. runtime.pc \in {"check", "commit"} /\ \E label \in {"create", "unwind"} : Goto(label)
      BY <2>3 DEF CheckPractice, CommitPracticeRefused, At
    <3>2. Calm(runtime) /\ runtime.client \in Clients
      BY <3>1 DEF Calm, Orderly, Orders, Writing
    <3> QED
      BY <3>1, <3>2, GoingShape DEF Calm
  <2> QED
    BY <2>1, <2>2, <2>3
<1>3. Writing(Database', runtime', abandoned') /\ \A s : ~InWork(runtime, s)
  BY <1>2, CalmWriting
<1> HIDE DEF Database
<1> QED
  BY <1>1, <1>2, <1>3, RestOrderly

(* A message that is abandoned.                                            *)
LEMMA AbandonedOrderly ==
  ASSUME OpsInv, RuntimeShape, Orderly, UNCHANGED start, RuntimeLocked \/ TableIsMissing \/ RuntimeStatementThrows
  PROVE  RuntimeShape' /\ Orderly'
<1>1. /\ UNCHANGED txVars /\ Abandon
      /\ runtime.pc \in {"consentEvent", "state", "field", "event", "create", "consent", "intake"}
  BY DEF RuntimeLocked, TableIsMissing, RuntimeStatementThrows, At
<1>2. disk' = disk /\ Database' = Database /\ saves'[Runtime] = saves[Runtime]
  BY <1>1, SeenAlike
<1>3. runtime.client \in Clients
  BY <1>1 DEF Orderly, Orders, Writing
<1>4. RuntimeShape' /\ Calm(runtime')
  <2>1. CASE runtime' = Ready
    BY <2>1, RestingShape DEF Calm
  <2>2. CASE Goto("unwind")
    BY <1>3, <2>2, GoingShape DEF Calm
  <2> QED
    BY <1>1, <2>1, <2>2 DEF Abandon
<1>5. abandoned' = abandoned \cup {runtime.client}
  BY <1>1 DEF Abandon, Client
<1>6. \A s \in Clients \ abandoned' : ~InWork(runtime, s)
  BY <1>5 DEF InWork
<1>7. Writing(Database', runtime', abandoned')
  BY <1>4, CalmWriting
<1> HIDE DEF Database
<1> QED
  BY <1>2, <1>4, <1>5, <1>6, <1>7, RestOrderly

(* The runtime dies.                                                       *)
LEMMA DeathOrderly ==
  ASSUME OpsInv, RuntimeShape, Orderly, UNCHANGED start, RuntimeDies
  PROVE  RuntimeShape' /\ Orderly'
<1>1. /\ runtime.pc # "down" /\ Close(Runtime) /\ runtime' = Down
      /\ abandoned' = abandoned \cup ({runtime.client} \ {NoClient})
  BY DEF RuntimeDies, At, Client
<1>2. Runtime \in Connections /\ TxType /\ Range(<<>>) = {}
  BY RuntimeSees DEF OpsInv, TxInv
<1>3. lock'[Runtime] = "none" /\ saves'[Runtime] = <<>> /\ disk' = disk
  BY <1>1, <1>2 DEF Close, TxType
<1>4. Database' = disk
  BY <1>3 DEF Database, View
<1>5. RuntimeShape' /\ Calm(runtime')
  BY <1>1, RestingShape DEF Calm
<1>6. \A s \in Clients \ abandoned' : ~InWork(runtime, s)
  BY <1>1, NamesAssumption DEF InWork
<1>7. Writing(Database', runtime', abandoned')
  BY <1>5, CalmWriting
<1> HIDE DEF Database
<1> QED
  BY <1>1, <1>2, <1>3, <1>4, <1>5, <1>6, <1>7, RestOrderly

(* The practice transaction begins, is committed or rolled back.           *)
LEMMA PracticeOrderly ==
  ASSUME OpsInv, RuntimeShape, Orderly, UNCHANGED <<start, abandoned>>,
         BeginPractice \/ CommitPractice \/ UnwindPractice
  PROVE  RuntimeShape' /\ Orderly'
<1>1. /\ Runtime \in Connections /\ TxType /\ Range(<<>>) = {} /\ (\E S : saves[Runtime] \in Seq(S))
      /\ open[Runtime] = "none" => lock[Runtime] = "none"
      /\ lock[Runtime] # "reserved" => Database = disk /\ saves[Runtime] = <<>>
      /\ lock[Runtime] = "reserved" => Database = pending
  BY RuntimeSees DEF OpsInv, TxInv, TxType
<1>2. Calm(runtime) /\ RuntimeShape' /\ Calm(runtime')
  <2>1. CASE BeginPractice
    <3>1. runtime.pc = "begin" /\ Goto("check")
      BY <2>1 DEF BeginPractice, At
    <3>2. Calm(runtime) /\ runtime.client \in Clients
      BY <3>1 DEF Calm, Orderly, Orders, Writing
    <3> QED
      BY <3>1, <3>2, GoingShape DEF Calm
  <2>2. CASE CommitPractice \/ UnwindPractice
    <3>1. runtime.pc \in {"commit", "unwind"} /\ runtime' = Ready
      BY <2>2 DEF CommitPractice, UnwindPractice, At
    <3> QED
      BY <3>1, RestingShape DEF Calm, Orderly, Orders, Writing
  <2> QED
    BY <2>1, <2>2
<1>3. ASSUME BeginPractice
      PROVE  /\ disk' = disk /\ Database' = Database
             /\ Range(saves'[Runtime]) \subseteq {Database} \cup Range(saves[Runtime])
  <2>1. Enter(Runtime) /\ UNCHANGED <<disk, pending>>
    BY <1>3 DEF BeginPractice, Enter
  <2>2. CASE depth[Runtime] = 0
    <3>1. Writable(Runtime) /\ lock' = [lock EXCEPT ![Runtime] = "reserved"] /\ UNCHANGED saves
      BY <1>1, <2>1, <2>2 DEF Enter
    <3>2. lock[Runtime] # "reserved" => pending = disk
      BY <3>1 DEF Writable, Others, OpsInv, TxInv, NothingPending
    <3>3. lock'[Runtime] = "reserved"
      BY <1>1, <3>1 DEF TxType
    <3>4. Database' = pending
      BY <2>1, <3>3 DEF Database, View
    <3> HIDE DEF Database
    <3> QED
      BY <1>1, <2>1, <3>1, <3>2, <3>4
  <2>3. CASE depth[Runtime] # 0
    <3>1. /\ UNCHANGED lock
          /\ saves'[Runtime] = saves[Runtime] \/ saves'[Runtime] = Append(saves[Runtime], Database)
      BY <1>1, <2>1, <2>3 DEF Enter, TxType, Database
    <3>2. Database' = Database
      BY <2>1, <3>1 DEF Database, View
    <3>3. Range(Append(saves[Runtime], Database)) = Range(saves[Runtime]) \cup {Database}
      BY <1>1, SavesRange
    <3> HIDE DEF Database
    <3> QED
      BY <2>1, <3>1, <3>2, <3>3
  <2> QED
    BY <2>2, <2>3
<1>4. ASSUME CommitPractice
      PROVE  disk' \in {disk, Database} /\ Database' = Database /\ Range(saves'[Runtime]) = {}
  <2>1. Leave(Runtime)
    BY <1>4 DEF CommitPractice
  <2>2. CASE saves[Runtime] = <<>>
    <3>1. disk' = Database /\ lock' = [lock EXCEPT ![Runtime] = "none"] /\ saves' = saves
      BY <2>1, <2>2 DEF Leave, Commits, Ended, Database
    <3>2. lock'[Runtime] = "none"
      BY <1>1, <3>1 DEF TxType
    <3>3. Database' = disk'
      BY <3>2 DEF Database, View
    <3> HIDE DEF Database
    <3> QED
      BY <1>1, <2>2, <3>1, <3>3
  <2>3. CASE saves[Runtime] # <<>>
    <3>1. saves' = [saves EXCEPT ![Runtime] = Pop(@)] /\ UNCHANGED <<disk, pending, lock>>
      BY <2>1, <2>3 DEF Leave, Commits
    <3>2. saves'[Runtime] = <<>>
      BY <1>1, <2>3, <3>1, LastSave DEF TxType
    <3>3. Database' = Database
      BY <3>1 DEF Database, View
    <3> HIDE DEF Database
    <3> QED
      BY <1>1, <3>1, <3>2, <3>3
  <2> QED
    BY <2>2, <2>3
<1>5. ASSUME UnwindPractice
      PROVE  disk' = disk /\ Database' \in {disk} \cup Range(saves[Runtime]) /\ Range(saves'[Runtime]) = {}
  <2>1. Unwind(Runtime) /\ UNCHANGED disk
    BY <1>5 DEF UnwindPractice, Unwind
  <2>2. CASE saves[Runtime] = <<>>
    <3>1. /\ saves' = saves /\ pending' = WithoutPending(Runtime)
          /\ lock' = lock \/ lock' = [lock EXCEPT ![Runtime] = "none"]
      BY <2>1, <2>2 DEF Unwind, Commits, Ended
    <3>2. lock'[Runtime] \in {lock[Runtime], "none"}
      BY <1>1, <3>1 DEF TxType
    <3>3. Database' = disk
      BY <2>1, <3>1, <3>2 DEF Database, View, WithoutPending
    <3> HIDE DEF Database
    <3> QED
      BY <1>1, <2>1, <2>2, <3>1, <3>3
  <2>3. CASE saves[Runtime] # <<>>
    <3>1. /\ saves' = [saves EXCEPT ![Runtime] = Pop(@)] /\ UNCHANGED lock
          /\ lock[Runtime] = "reserved" => pending' = saves[Runtime][Len(saves[Runtime])]
      BY <2>1, <2>3 DEF Unwind, Commits
    <3>2. /\ saves'[Runtime] = <<>> /\ lock[Runtime] = "reserved"
          /\ saves[Runtime][Len(saves[Runtime])] \in Range(saves[Runtime])
      BY <1>1, <2>3, <3>1, LastSave DEF TxType
    <3>3. Database' \in Range(saves[Runtime])
      BY <3>1, <3>2 DEF Database, View
    <3> HIDE DEF Database
    <3> QED
      BY <1>1, <2>1, <3>2, <3>3
  <2> QED
    BY <2>2, <2>3
<1>6. Writing(Database', runtime', abandoned') /\ \A s : ~InWork(runtime, s)
  BY <1>2, CalmWriting
<1>7. /\ disk' \in {disk, Database} /\ Database' \in {disk, Database} \cup Range(saves[Runtime])
      /\ Range(saves'[Runtime]) \subseteq {Database} \cup Range(saves[Runtime])
  <2> HIDE DEF Database
  <2> QED
    BY <1>3, <1>4, <1>5
<1> HIDE DEF Database
<1> QED
  BY <1>2, <1>6, <1>7, RestOrderly

(* The UPSERT of a practice.                                               *)
LEMMA PracticeWritten ==
  ASSUME NEW db, IsDatabase(db), NEW rows
  PROVE  LET new == SetRows(db, "practices", rows) IN
         /\ \A t \in Tables : Form(new, t) = Form(db, t)
         /\ \A s : /\ StateOf(new, s) = StateOf(db, s) /\ ConsentOf(new, s) = ConsentOf(db, s)
                   /\ FieldsOf(new, s) = FieldsOf(db, s) /\ DraftsOf(new, s) = DraftsOf(db, s)
<1> DEFINE new == SetRows(db, "practices", rows)
<1>1. {"practices", "consent_states", "intake_states", "intake_fields", "cases"} \subseteq Tables
  BY DEF Tables, Rebuilt, LegacyOf
<1>2. /\ \A u \in Tables : Form(new, u) = Form(db, u)
      /\ \A u \in Tables \ {"practices"} : Rows(new, u) = Rows(db, u)
  BY <1>1, SetRowsIs
<1> HIDE DEF new
<1>3. \A u \in {"consent_states", "intake_states", "intake_fields", "cases"} : Rows(new, u) = Rows(db, u)
  BY <1>1, <1>2
<1>4. \A s : /\ StateOf(new, s) = StateOf(db, s) /\ ConsentOf(new, s) = ConsentOf(db, s)
             /\ FieldsOf(new, s) = FieldsOf(db, s) /\ DraftsOf(new, s) = DraftsOf(db, s)
  BY <1>3, ReadAlike
<1> QED
  BY <1>2, <1>4 DEF new

(* What the runtime has of its database.                                   *)
LEMMA OrderlyIs ==
  ASSUME Orderly
  PROVE  /\ \A s \in Clients : Promised(Database, s) => Consented(Database, s)
         /\ \A s \in Clients \ abandoned : InWork(runtime, s) \/ Settled(Database, s)
         /\ Writing(Database, runtime, abandoned)
BY DEF Orderly, Orders

(* A change after which everybody has the state and the fields he had.     *)
LEMMA SameOrderly ==
  ASSUME OpsInv, Orderly, UNCHANGED <<start, abandoned>>, NEW content, Change(content),
         \A t \in Tables : Form(content, t) = Form(Database, t),
         \A s : StateOf(content, s) = StateOf(Database, s) /\ FieldsOf(content, s) = FieldsOf(Database, s),
         \A s \in Clients : Consented(Database, s) => Consented(content, s),
         NEW r, r = runtime',
         \A s \in Clients \ abandoned : InWork(runtime, s) => InWork(r, s) \/ Settled(content, s),
         Writing(content, r, abandoned)
  PROVE  Orderly'
<1>1. \A s : (Promised(content, s) <=> Promised(Database, s)) /\ (Settled(content, s) <=> Settled(Database, s))
  <2> HIDE DEF Database
  <2> QED
    BY LeftAlike, SettledAlike
<1>2. \A s \in Clients : Promised(content, s) => Consented(content, s)
  BY <1>1, OrderlyIs
<1>3. \A s \in Clients \ abandoned : InWork(r, s) \/ Settled(content, s)
  BY <1>1, OrderlyIs
<1> QED
  BY <1>2, <1>3, WriteOrderly

(* The consent is decided.                                                 *)
LEMMA ConsentOrderly ==
  ASSUME OpsInv, RuntimeShape, Orderly, UNCHANGED <<start, abandoned>>, SetConsentState
  PROVE  RuntimeShape' /\ Orderly'
<1> DEFINE c == runtime.client
<1>1. /\ runtime.pc = "consent" /\ c \in Clients /\ \A s : ~InWork(runtime, s)
      /\ OldConsent = ConsentOf(Database, c)
  BY DEF SetConsentState, At, Orderly, Orders, Writing, InWork, OldConsent, Client
<1>2. CASE NewConsent = OldConsent
  <2>1. Read(Runtime) /\ ((Goto("intake") /\ OldConsent = "granted") \/ runtime' = Ready)
    BY <1>2 DEF SetConsentState
  <2>2. disk' = disk /\ Database' = Database /\ saves'[Runtime] = saves[Runtime]
    BY <2>1, SeenAlike
  <2>3. RuntimeShape' /\ Writing(Database, runtime', abandoned)
    <3>1. CASE Goto("intake") /\ OldConsent = "granted"
      <4>1. RuntimeShape' /\ runtime'.pc = "intake" /\ runtime'.client = c
        BY <3>1, GoingShape
      <4> QED
        BY <1>1, <3>1, <4>1 DEF Writing, Writes
    <3>2. CASE runtime' = Ready
      BY <3>2, RestingShape, CalmWriting DEF Calm
    <3> QED
      BY <2>1, <3>1, <3>2
  <2> HIDE DEF Database
  <2> QED
    BY <1>1, <2>2, <2>3, RestOrderly
<1>3. CASE NewConsent # OldConsent
  <2> DEFINE content == SetRows(Database, "consent_states", Put(Rows(Database, "consent_states"), c, NewConsent))
  <2>1. Change(content)
    BY <1>3 DEF SetConsentState, Client
  <2>2. OldConsent # "granted"
    BY <1>3 DEF NewConsent, ConsentDecision
  <2>3. /\ \A t \in Tables : Form(content, t) = Form(Database, t)
        /\ ConsentOf(content, c) = NewConsent /\ \A s : s # c => ConsentOf(content, s) = ConsentOf(Database, s)
        /\ \A s : /\ StateOf(content, s) = StateOf(Database, s) /\ FieldsOf(content, s) = FieldsOf(Database, s)
                  /\ DraftsOf(content, s) = DraftsOf(Database, s)
    <3> HIDE DEF Database
    <3> QED
      BY RuntimeSees, ConsentWritten DEF SameCases
  <2> HIDE DEF content
  <2>4. ASSUME NEW s \in Clients, Consented(Database, s)
        PROVE  Consented(content, s)
    <3>1. CASE s = c
      BY <1>1, <2>2, <2>3, <2>4, <3>1 DEF Consented, Complete
    <3>2. CASE s # c
      BY <2>3, <2>4, <3>2, ConsentedAlike
    <3> QED
      BY <3>1, <3>2
  <2>5. RuntimeShape' /\ Writing(content, runtime', abandoned)
    <3>1. \/ NewConsent \in {"granted", "denied"}
             /\ runtime' = [runtime EXCEPT !.pc = "consentEvent", !.justGranted = NewConsent = "granted"]
          \/ runtime' = Ready
      BY <1>3 DEF SetConsentState
    <3>2. CASE runtime' = [runtime EXCEPT !.pc = "consentEvent", !.justGranted = NewConsent = "granted"]
      <4> DEFINE granted == NewConsent = "granted"
      <4>1. runtime' = [runtime EXCEPT !.pc = "consentEvent", !.justGranted = granted]
        BY <3>2
      <4> HIDE DEF granted
      <4>2. RuntimeShape' /\ runtime'.pc = "consentEvent" /\ runtime'.client = c /\ runtime'.justGranted = granted
        BY <4>1 DEF RuntimeShape
      <4>3. runtime'.justGranted => ConsentOf(content, c) = "granted"
        BY <2>3, <4>2 DEF granted
      <4> QED
        BY <1>1, <4>2, <4>3 DEF Writing, Writes
    <3>3. CASE runtime' = Ready
      BY <3>3, RestingShape, CalmWriting DEF Calm
    <3> QED
      BY <3>1, <3>2, <3>3
  <2> HIDE DEF Database
  <2> QED
    BY <1>1, <2>1, <2>3, <2>4, <2>5, SameOrderly
<1> QED
  BY <1>2, <1>3

(* The event of the consent, and the practice.                             *)
LEMMA RecordOrderly ==
  ASSUME OpsInv, RuntimeShape, Orderly, UNCHANGED <<start, abandoned>>, AppendConsentEvent \/ InsertPractice
  PROVE  RuntimeShape' /\ Orderly'
<1> DEFINE c == runtime.client
<1>1. /\ runtime.pc \in {"consentEvent", "create"} /\ c \in Clients /\ \A s : ~InWork(runtime, s)
      /\ runtime.pc = "consentEvent" /\ runtime.justGranted => ConsentOf(Database, c) = "granted"
  BY DEF AppendConsentEvent, InsertPractice, At, Orderly, Orders, Writing, InWork
<1>2. CASE AppendConsentEvent
  <2>1. Change(Database) /\ ((Goto("intake") /\ ConsentOf(Database, c) = "granted") \/ runtime' = Ready)
    BY <1>1, <1>2 DEF AppendConsentEvent, At
  <2>2. RuntimeShape' /\ Writing(Database, runtime', abandoned)
    <3>1. CASE Goto("intake") /\ ConsentOf(Database, c) = "granted"
      <4>1. RuntimeShape' /\ runtime'.pc = "intake" /\ runtime'.client = c
        BY <3>1, GoingShape
      <4> QED
        BY <1>1, <3>1, <4>1 DEF Writing, Writes
    <3>2. CASE runtime' = Ready
      BY <3>2, RestingShape, CalmWriting DEF Calm
    <3> QED
      BY <2>1, <3>1, <3>2
  <2> HIDE DEF Database
  <2> QED
    BY <1>1, <2>1, <2>2, SameOrderly
<1>3. CASE InsertPractice
  <2>1. runtime.pc = "create" /\ Goto("commit") /\ \E rows : Change(SetRows(Database, "practices", rows))
    BY <1>3 DEF InsertPractice, At
  <2>2. PICK rows : Change(SetRows(Database, "practices", rows))
    BY <2>1
  <2>3. PICK content : content = SetRows(Database, "practices", rows)
    OBVIOUS
  <2>4. /\ \A t \in Tables : Form(content, t) = Form(Database, t)
        /\ \A s : /\ StateOf(content, s) = StateOf(Database, s) /\ ConsentOf(content, s) = ConsentOf(Database, s)
                  /\ FieldsOf(content, s) = FieldsOf(Database, s) /\ DraftsOf(content, s) = DraftsOf(Database, s)
    <3> HIDE DEF Database
    <3> QED
      BY <2>3, RuntimeSees, PracticeWritten
  <2>5. \A s : Consented(Database, s) => Consented(content, s)
    BY <2>4, ConsentedAlike
  <2>6. RuntimeShape' /\ runtime'.pc = "commit" /\ runtime'.client = c
    BY <2>1, GoingShape
  <2>7. Writing(content, runtime', abandoned)
    BY <1>1, <2>6, CalmWriting DEF Calm
  <2> HIDE DEF Database
  <2> QED
    BY <1>1, <2>2, <2>3, <2>4, <2>5, <2>6, <2>7, SameOrderly
<1> QED
  BY <1>2, <1>3

(* An answer takes no field away.  It completes a questionnaire that asked *)
(* for the attachments, with these and nothing else; for them it asks a    *)
(* client who has given the rest.                                          *)
LEMMA NextRecordsIs ==
  ASSUME NEW file, file = [state |-> file.state, fields |-> file.fields],
         file.fields = [f \in FieldNames |-> file.fields[f]],
         NEW content, NEW justGranted, NEW m \in Nat, NEW next \in NextRecords(file, content, justGranted, m)
  PROVE  /\ \A f \in FieldNames : next.fields[f] = Absent => file.fields[f] = Absent
         /\ next.state = "intake_complete" =>
              /\ file.state = "asking_attachments" /\ next.fields["attachmentMetadata"] # Absent
              /\ \A f \in FieldNames \ {"attachmentMetadata"} : next.fields[f] = file.fields[f]
         /\ next.state = "asking_attachments" => HasCaseFields(next.fields)
<1>1. /\ m # Absent /\ NoFiles # Absent
      /\ CaseFields = IdentityFields \cup {"problemSummary"}
      /\ FieldNames = CaseFields \cup {"attachmentMetadata"} /\ "attachmentMetadata" \notin CaseFields
      /\ "problemSummary" \notin IdentityFields
  BY NamesAssumption DEF CaseFields, FieldNames, IdentityFields
<1>2. CASE next = [file EXCEPT !.state = "asking_problem_summary"] \/ next = [file EXCEPT !.state = "asking_identity"]
  BY <1>2
<1>3. CASE next \in AnswerIdentity(file, content, m)
  <2>1. PICK new : new = ExtractIdentity(file.fields, content, m)
    OBVIOUS
  <2>2. \A f \in FieldNames : new[f] \in {m, file.fields[f]}
    BY <2>1 DEF ExtractIdentity
  <2>3. /\ next.fields = new
        /\ \/ next.state \in {"asking_problem_summary", "asking_identity"}
           \/ next.state = "asking_attachments" /\ HasCompleteIdentity(new) /\ new["problemSummary"] # Absent
    BY <1>3, <2>1 DEF AnswerIdentity
  <2> QED
    BY <1>1, <2>2, <2>3 DEF HasCaseFields, HasCompleteIdentity
<1>4. CASE file.state = "asking_attachments" /\ next \in AnswerAttachments(file, content, m)
  <2> DEFINE value == IF content.files THEN m ELSE NoFiles
  <2>1. next.fields = [file.fields EXCEPT !["attachmentMetadata"] = value]
    BY <1>4 DEF AnswerAttachments
  <2>2. next.state = "intake_complete"
    BY <1>4 DEF AnswerAttachments
  <2>3. value # Absent
    BY <1>1
  <2> HIDE DEF value
  <2>4. /\ next.fields["attachmentMetadata"] = value
        /\ \A f \in FieldNames \ {"attachmentMetadata"} : next.fields[f] = file.fields[f]
    BY <1>1, <2>1
  <2> QED
    BY <1>4, <2>2, <2>3, <2>4
<1>5. CASE next \in AnswerProblemSummary(file, content, m)
  BY <1>1, <1>2, <1>5 DEF AnswerProblemSummary, HasCaseFields, HasCompleteIdentity
<1> QED
  BY <1>2, <1>3, <1>4, <1>5 DEF NextRecords

(* The answer is decided.                                                  *)
LEMMA AnswerOrderly ==
  ASSUME OpsInv, FaithInv, RuntimeShape, Orderly, UNCHANGED <<start, abandoned>>, ResolveIntake
  PROVE  RuntimeShape' /\ Orderly'
<1> DEFINE c == runtime.client
<1>1. /\ runtime.pc = "intake" /\ c \in Clients /\ \A s : ~InWork(runtime, s)
      /\ ConsentOf(Database, c) = "granted" /\ (c \in abandoned \/ Settled(Database, c))
  BY DEF ResolveIntake, At, Orderly, Orders, Writing, InWork
<1>2. disk' = disk /\ Database' = Database /\ saves'[Runtime] = saves[Runtime]
  BY SeenAlike DEF ResolveIntake
<1>3. PICK file : file = FileIn(Database, Client)
  OBVIOUS
<1>4. /\ file = [state |-> file.state, fields |-> file.fields]
      /\ file.state = StateOf(Database, c) /\ file.fields = FieldsOf(Database, c)
      /\ file.fields = [f \in FieldNames |-> file.fields[f]] /\ Message \in Nat
  BY <1>3 DEF FileIn, Client, FieldsOf, FaithInv, Message, Events
<1> DEFINE records == NextRecords(file, Content, runtime.justGranted, Message)
           leftOf(next) == {f \in FieldNames : next.fields[f] \notin {Absent, file.fields[f]}}
           labelOf(next) == IF next.state # file.state THEN "state" ELSE AfterWriting(next, leftOf(next))
<1>5. \/ runtime' = Ready
      \/ \E next \in records :
           runtime' = [runtime EXCEPT !.pc = labelOf(next), !.next = next, !.left = leftOf(next),
                                      !.content = {}, !.justGranted = FALSE]
  <2> DEFINE found == FileIn(Database, Client)
             all == NextRecords(found, Content, runtime.justGranted, Message)
             due(next) == {f \in FieldNames : next.fields[f] \notin {Absent, found.fields[f]}}
             goes(next) == IF next.state # found.state THEN "state" ELSE AfterWriting(next, due(next))
  <2>1. \/ runtime' = Ready
        \/ \E next \in all :
             runtime' = [runtime EXCEPT !.pc = goes(next), !.next = next, !.left = due(next),
                                        !.content = {}, !.justGranted = FALSE]
    BY DEF ResolveIntake
  <2>2. all = records /\ \A next : due(next) = leftOf(next)
    BY <1>3
  <2>3. \A next : goes(next) = labelOf(next)
    <3> HIDE DEF due, leftOf
    <3> QED
      BY <1>3, <2>2
  <2> HIDE DEF due, leftOf, goes, labelOf, all, records
  <2> QED
    BY <2>1, <2>2, <2>3
<1>6. CASE runtime' = Ready
  <2>1. RuntimeShape' /\ Writing(Database, runtime', abandoned)
    BY <1>6, RestingShape, CalmWriting DEF Calm
  <2> HIDE DEF Database
  <2> QED
    BY <1>1, <1>2, <2>1, RestOrderly
<1>7. ASSUME NEW next \in records,
             runtime' = [runtime EXCEPT !.pc = labelOf(next), !.next = next, !.left = leftOf(next),
                                        !.content = {}, !.justGranted = FALSE]
      PROVE  RuntimeShape' /\ Orderly'
  <2>1. PICK left, label : left = leftOf(next) /\ label = labelOf(next)
    OBVIOUS
  <2>2. /\ RuntimeShape' /\ runtime'.pc = label /\ runtime'.client = c
        /\ runtime'.next = next /\ runtime'.left = left
    <3> HIDE DEF leftOf, labelOf
    <3> QED
      BY <1>7, <2>1 DEF RuntimeShape
  <2>3. /\ \A f \in FieldNames : next.fields[f] = Absent => file.fields[f] = Absent
        /\ next.state = "intake_complete" =>
             /\ file.state = "asking_attachments" /\ next.fields["attachmentMetadata"] # Absent
             /\ \A f \in FieldNames \ {"attachmentMetadata"} : next.fields[f] = file.fields[f]
        /\ next.state = "asking_attachments" => HasCaseFields(next.fields)
    BY <1>4, NextRecordsIs
  <2>4. /\ left \subseteq FieldNames /\ \A f \in FieldNames \ left : file.fields[f] = next.fields[f]
        /\ next.state = "intake_complete" => left \subseteq {"attachmentMetadata"}
    BY <2>1, <2>3
  <2>5. /\ label = "field" => left # {}
        /\ label # "state" => next.state = file.state
        /\ label \in {"state", "field", "begin", "idle"}
    BY <2>1 DEF AfterWriting
  <2>6. ASSUME c \notin abandoned, Promised(Database, c), next.state \in {"asking_attachments", "intake_complete"}
        PROVE  HasCaseFields(next.fields)
    <3>1. CASE next.state = "intake_complete"
      <4>1. HasCaseFields(file.fields)
        BY <1>1, <1>4, <2>3, <2>6, <3>1 DEF Settled, Answered
      <4>2. CaseFields \subseteq FieldNames \ {"attachmentMetadata"}
        BY DEF CaseFields, FieldNames, IdentityFields
      <4> QED
        BY <2>3, <3>1, <4>1, <4>2 DEF HasCaseFields
    <3> QED
      BY <2>3, <2>6, <3>1
  <2>7. Writing(Database, runtime', abandoned)
    <3>1. CASE label \in {"begin", "idle"}
      BY <1>1, <2>2, <3>1, CalmWriting DEF Calm
    <3>2. CASE label \in {"state", "field"}
      <4>1. Written(Database, runtime')
        BY <1>4, <2>2, <2>3, <2>4, <2>5 DEF Written
      <4> QED
        BY <1>1, <2>2, <2>6, <3>2, <4>1 DEF Writing, Writes
    <3> QED
      BY <2>5, <3>1, <3>2
  <2> HIDE DEF Database
  <2> QED
    BY <1>1, <1>2, <2>2, <2>7, RestOrderly
<1> QED
  BY <1>5, <1>6, <1>7

(* Of the fields still to be written one comes first.                      *)
LEMMA FirstField ==
  ASSUME NEW S, S \subseteq FieldNames, S # {}
  PROVE  (CHOOSE f \in S : \A g \in S : FieldRank[f] <= FieldRank[g]) \in S
<1>1. /\ FieldRank["firstName"] = 1 /\ FieldRank["lastName"] = 2 /\ FieldRank["birthDate"] = 3
      /\ FieldRank["city"] = 4 /\ FieldRank["problemSummary"] = 5 /\ FieldRank["attachmentMetadata"] = 6
  BY DEF FieldRank
<1>2. S \subseteq {"firstName", "lastName", "birthDate", "city", "problemSummary", "attachmentMetadata"}
  BY DEF FieldNames, IdentityFields
<1>3. \E f \in S : \A g \in S : FieldRank[f] <= FieldRank[g]
  <2>1. CASE "firstName" \in S
    BY <1>1, <1>2, <2>1
  <2>2. CASE "firstName" \notin S /\ "lastName" \in S
    BY <1>1, <1>2, <2>2
  <2>3. CASE S \cap {"firstName", "lastName"} = {} /\ "birthDate" \in S
    BY <1>1, <1>2, <2>3
  <2>4. CASE S \cap {"firstName", "lastName", "birthDate"} = {} /\ "city" \in S
    BY <1>1, <1>2, <2>4
  <2>5. CASE S \cap {"firstName", "lastName", "birthDate", "city"} = {} /\ "problemSummary" \in S
    BY <1>1, <1>2, <2>5
  <2>6. CASE S = {"attachmentMetadata"}
    BY <1>1, <2>6
  <2> QED
    BY <1>2, <2>1, <2>2, <2>3, <2>4, <2>5, <2>6
<1> QED
  BY <1>3

(* What the runtime that writes an answer goes by.                         *)
LEMMA WritingIs ==
  ASSUME Orderly, Writes(runtime.pc)
  PROVE  /\ runtime.client \in Clients /\ ConsentOf(Database, runtime.client) = "granted"
         /\ Written(Database, runtime)
         /\ runtime.client \notin abandoned /\ Promised(Database, runtime.client)
              /\ runtime.next.state \in {"asking_attachments", "intake_complete"} =>
              HasCaseFields(runtime.next.fields)
BY DEF Orderly, Orders, Writing, Writes

(* The state is written.                                                   *)
LEMMA StateOrderly ==
  ASSUME OpsInv, RuntimeShape, Orderly, UNCHANGED <<start, abandoned>>, SetIntakeState
  PROVE  RuntimeShape' /\ Orderly'
<1> DEFINE c == runtime.client
           state == runtime.next.state
           content == SetRows(Database, "intake_states", Put(Rows(Database, "intake_states"), c, state))
<1>1. runtime.pc = "state" /\ Goto("event") /\ Change(content)
  BY DEF SetIntakeState, At, Client
<1>2. /\ c \in Clients /\ ConsentOf(Database, c) = "granted" /\ Written(Database, runtime)
      /\ c \notin abandoned /\ Promised(Database, c) /\ state \in {"asking_attachments", "intake_complete"} =>
           HasCaseFields(runtime.next.fields)
  BY <1>1, WritingIs DEF Writes
<1>3. /\ \A t \in Tables : Form(content, t) = Form(Database, t)
      /\ StateOf(content, c) = state /\ \A s : s # c => StateOf(content, s) = StateOf(Database, s)
      /\ \A s : /\ ConsentOf(content, s) = ConsentOf(Database, s) /\ FieldsOf(content, s) = FieldsOf(Database, s)
                /\ DraftsOf(content, s) = DraftsOf(Database, s)
  <2> HIDE DEF Database
  <2> QED
    BY RuntimeSees, StateWritten DEF SameCases
<1> HIDE DEF content
<1>4. /\ RuntimeShape' /\ runtime'.pc = "event" /\ runtime'.client = c
      /\ runtime'.next = runtime.next /\ runtime'.left = runtime.left
  BY <1>1, GoingShape
<1>5. \A s : Promised(content, s) <=> Promised(Database, s)
  <2> HIDE DEF Database
  <2> QED
    BY <1>3, LeftAlike
<1>6. ASSUME NEW s \in Clients, Promised(content, s)
      PROVE  Consented(content, s)
  <2>1. CASE s = c
    BY <1>2, <1>3, <2>1 DEF Consented
  <2>2. CASE s # c
    BY <1>3, <1>5, <1>6, <2>2, OrderlyIs, ConsentedAlike
  <2> QED
    BY <2>1, <2>2
<1>7. ASSUME NEW s \in Clients \ abandoned, ~InWork(runtime', s)
      PROVE  Settled(content, s)
  <2>1. s # c
    BY <1>4, <1>7 DEF InWork
  <2>2. Settled(Database, s)
    BY <1>1, OrderlyIs DEF InWork
  <2> HIDE DEF Database
  <2> QED
    BY <1>3, <2>1, <2>2, SettledAlike
<1>8. Writing(content, runtime', abandoned)
  <2>1. Written(content, runtime')
    BY <1>1, <1>2, <1>3, <1>4 DEF Written
  <2> QED
    BY <1>2, <1>3, <1>4, <1>5, <2>1 DEF Writing, Writes
<1> QED
  BY <1>1, <1>4, <1>6, <1>7, <1>8, WriteOrderly

(* A field is written.                                                     *)
LEMMA FieldOrderly ==
  ASSUME OpsInv, RuntimeShape, Orderly, UNCHANGED <<start, abandoned>>, SetIntakeField
  PROVE  RuntimeShape' /\ Orderly'
<1>1. PICK f : f = CHOOSE h \in runtime.left : \A g \in runtime.left : FieldRank[h] <= FieldRank[g]
  OBVIOUS
<1> DEFINE c == runtime.client
           value == runtime.next.fields[f]
           content == SetRows(Database, "intake_fields", Put(Rows(Database, "intake_fields"), <<c, f>>, value))
<1>2. runtime.pc = "field" /\ runtime' = [runtime EXCEPT !.pc = "event", !.left = @ \ {f}] /\ Change(content)
  BY <1>1 DEF SetIntakeField, At, Client
<1>3. /\ c \in Clients /\ ConsentOf(Database, c) = "granted" /\ Written(Database, runtime)
      /\ c \notin abandoned /\ Promised(Database, c)
           /\ runtime.next.state \in {"asking_attachments", "intake_complete"} =>
           HasCaseFields(runtime.next.fields)
  BY <1>2, WritingIs DEF Writes
<1>4. f \in FieldNames /\ f \in runtime.left
  BY <1>1, <1>2, <1>3, FirstField DEF Written
<1>5. /\ \A t \in Tables : Form(content, t) = Form(Database, t)
      /\ FieldsOf(content, c)[f] = value
      /\ \A g \in FieldNames \ {f} : FieldsOf(content, c)[g] = FieldsOf(Database, c)[g]
      /\ \A s : s # c => FieldsOf(content, s) = FieldsOf(Database, s)
      /\ \A s : /\ ConsentOf(content, s) = ConsentOf(Database, s) /\ StateOf(content, s) = StateOf(Database, s)
                /\ DraftsOf(content, s) = DraftsOf(Database, s)
  <2> HIDE DEF Database
  <2> QED
    <3>1. PICK db : db = Database
      OBVIOUS
    <3>2. IsDatabase(db)
      BY <3>1, RuntimeSees
    <3>3. content = SetRows(db, "intake_fields", Put(Rows(db, "intake_fields"), <<c, f>>, value))
      BY <3>1
    <3> HIDE DEF content, c, value
    <3>4. /\ SameCases(content, db) /\ FieldsOf(content, c)[f] = value
          /\ \A g \in FieldNames \ {f} : FieldsOf(content, c)[g] = FieldsOf(db, c)[g]
          /\ \A s : s # c => FieldsOf(content, s) = FieldsOf(db, s)
          /\ \A s : /\ ConsentOf(content, s) = ConsentOf(db, s) /\ StateOf(content, s) = StateOf(db, s)
                    /\ DraftsOf(content, s) = DraftsOf(db, s)
      BY <1>4, <3>2, <3>3, FieldWritten
    <3>5. \A t \in Tables : Form(content, t) = Form(db, t)
      BY <3>4 DEF SameCases
    <3> QED
      BY <3>1, <3>4, <3>5
<1> HIDE DEF content
<1>6. /\ RuntimeShape' /\ runtime'.pc = "event" /\ runtime'.client = c
      /\ runtime'.next = runtime.next /\ runtime'.left = runtime.left \ {f}
  BY <1>2 DEF RuntimeShape
<1>7. \A s : Promised(content, s) <=> Promised(Database, s)
  <2> HIDE DEF Database
  <2> QED
    BY <1>5, LeftAlike
<1>8. \A s \in Clients : Promised(content, s) => Consented(content, s)
  BY <1>5, <1>7, OrderlyIs, ConsentedAlike
<1>9. ASSUME NEW s \in Clients \ abandoned, ~InWork(runtime', s)
      PROVE  Settled(content, s)
  <2>1. s # c
    BY <1>6, <1>9 DEF InWork
  <2>2. Settled(Database, s)
    BY <2>1, OrderlyIs DEF InWork
  <2> HIDE DEF Database
  <2> QED
    BY <1>5, <2>1, <2>2, SettledAlike
<1>10. Writing(content, runtime', abandoned)
  <2>1. Written(content, runtime')
    BY <1>2, <1>3, <1>5, <1>6 DEF Written
  <2> QED
    BY <1>3, <1>5, <1>6, <1>7, <2>1 DEF Writing, Writes
<1> QED
  BY <1>2, <1>6, <1>8, <1>9, <1>10, WriteOrderly

(* The event of it.  When it was the last, the questionnaire is settled.   *)
LEMMA EventOrderly ==
  ASSUME OpsInv, RuntimeShape, Orderly, UNCHANGED <<start, abandoned>>, AppendIntakeEvent
  PROVE  RuntimeShape' /\ Orderly'
<1> DEFINE c == runtime.client
           next == runtime.next
           left == runtime.left
<1>1. PICK label : label = AfterWriting(next, left)
  OBVIOUS
<1>2. /\ runtime.pc = "event" /\ Change(Database)
      /\ IF label = "idle" THEN runtime' = Ready ELSE Goto(label)
  BY <1>1 DEF AppendIntakeEvent, At
<1>3. /\ c \in Clients /\ ConsentOf(Database, c) = "granted" /\ Written(Database, runtime)
      /\ c \notin abandoned /\ Promised(Database, c) /\ next.state \in {"asking_attachments", "intake_complete"} =>
           HasCaseFields(next.fields)
  BY <1>2, WritingIs DEF Writes
<1>4. CASE label = "field"
  <2>1. left # {}
    BY <1>1, <1>4 DEF AfterWriting
  <2>2. /\ RuntimeShape' /\ runtime'.pc = "field" /\ runtime'.client = c
        /\ runtime'.next = next /\ runtime'.left = left
    BY <1>2, <1>4, GoingShape
  <2>3. Written(Database, runtime')
    BY <1>2, <1>3, <2>1, <2>2 DEF Written
  <2>4. Writing(Database, runtime', abandoned)
    BY <1>3, <2>2, <2>3 DEF Writing, Writes
  <2>5. \A s \in Clients : InWork(runtime, s) => InWork(runtime', s)
    BY <2>2 DEF InWork
  <2> HIDE DEF Database
  <2> QED
    BY <1>2, <2>2, <2>4, <2>5, SameOrderly
<1>5. CASE label \in {"begin", "idle"}
  <2>1. left = {}
    BY <1>1, <1>5 DEF AfterWriting
  <2>2. StateOf(Database, c) = next.state /\ \A f \in FieldNames : FieldsOf(Database, c)[f] = next.fields[f]
    BY <1>2, <1>3, <2>1 DEF Written
  <2>3. CaseFields \subseteq FieldNames /\ "attachmentMetadata" \in FieldNames
    BY DEF CaseFields, FieldNames, IdentityFields
  <2>4. next.state = "intake_complete" => next.fields["attachmentMetadata"] # Absent
    BY <1>3 DEF Written
  <2>5. c \notin abandoned => Settled(Database, c)
    BY <1>3, <2>2, <2>3, <2>4 DEF Settled, Listed, Answered, Complete, HasCaseFields
  <2>6. RuntimeShape' /\ Calm(runtime')
    BY <1>2, <1>3, <1>5, GoingShape, RestingShape DEF Calm
  <2>7. Writing(Database, runtime', abandoned)
    BY <2>6, CalmWriting
  <2>8. \A s \in Clients \ abandoned : InWork(runtime, s) => Settled(Database, s)
    BY <2>5 DEF InWork
  <2> HIDE DEF Database
  <2> QED
    BY <1>2, <2>6, <2>7, <2>8, SameOrderly
<1> QED
  BY <1>1, <1>4, <1>5 DEF AfterWriting

(* Every step of the runtime.                                              *)
LEMMA RuntimeOrderly ==
  ASSUME OpsInv, FaithInv, RuntimeShape, Orderly, RuntimeStep
  PROVE  RuntimeShape' /\ Orderly'
<1>1. UNCHANGED start
  BY DEF RuntimeStep
<1>2. CASE Serve
  <2>1. UNCHANGED <<start, abandoned>>
    BY <1>1, <1>2 DEF Serve
  <2> QED
    BY <1>2, <2>1, CalmOrderly, ConsentOrderly, RecordOrderly, AnswerOrderly, StateOrderly, FieldOrderly,
       EventOrderly, PracticeOrderly DEF Serve
<1>3. CASE ServeBadly
  BY <1>1, <1>3, AbandonedOrderly, DeathOrderly DEF ServeBadly
<1> QED
  BY <1>2, <1>3 DEF RuntimeStep

-----------------------------------------------------------------------------
(* The theorems *)

(* At first everything is as it was.                                       *)
LEMMA InitQuestInv ==
  ASSUME Init
  PROVE  QuestInv
<1>1. /\ disk = start /\ pending = start /\ saves = [c \in Connections |-> <<>>]
      /\ open = [c \in Connections |-> "none"] /\ lock = [c \in Connections |-> "none"]
      /\ migrator.stage = "idle" /\ runtime = Down /\ AtRest(start) /\ Runtime \in Connections
  BY StartAssumption, ConnectionsAssumption DEF Init, InitTx, NotMigrating
<1>2. RuntimeShape /\ Calm(runtime)
  BY <1>1 DEF RuntimeShape, Calm, Down, Ready
<1>3. CASE AllApplied(disk)
  <2>1. Database = start
    BY <1>1 DEF Database, View
  <2>2. Range(saves[Runtime]) = {}
    BY <1>1 DEF Range
  <2>3. ASSUME NEW s
        PROVE  Settled(start, s) /\ (Promised(start, s) => Consented(start, s))
    BY DEF Settled, Listed, Answered, Complete, HasCaseFields, Consented, Promised, InOrder, AttachmentsAnswered
  <2>4. Writing(start, runtime, abandoned)
    BY <1>2, CalmWriting
  <2> HIDE DEF Database
  <2>5. Orderly
    BY <1>1, <2>1, <2>2, <2>3, <2>4 DEF Orderly, Orders
  <2> QED
    BY <1>2, <1>3, <2>5 DEF QuestInv
<1>4. CASE ~AllApplied(disk)
  <2>1. \A t : Home(t) = t
    BY <1>1 DEF Home
  <2>2. Follows("intake_states", Rows(start, "intake_states"), Rows(start, "intake_states"))
    BY DEF Follows
  <2>3. \A k \in DOMAIN Rows(start, "intake_fields") : k = <<k[1], k[2]>>
    BY <1>1 DEF AtRest, Constrained, Keys, Rows
  <2>4. Follows("intake_fields", Rows(start, "intake_fields"), Rows(start, "intake_fields"))
    BY <2>3 DEF Follows
  <2>5. Carried
    BY <1>1, <2>1, <2>2, <2>4 DEF Carried, Descends, Questionnaires
  <2> QED
    BY <1>2, <1>4, <2>5 DEF QuestInv
<1> QED
  BY <1>3, <1>4

(* The migrator carries the questionnaires on, and leaves them in order.   *)
LEMMA MigratorSettles ==
  ASSUME OpsInv, UpgradeInv, FaithInv, QuestInv, MigratorStep
  PROVE  QuestInv'
<1>1. /\ ~AllApplied(disk) /\ UNCHANGED <<start, runtime, abandoned>>
      /\ RecordMigration \/ disk'.applied = disk.applied
  BY MigratorRecords DEF MigratorStep
<1>2. RuntimeShape' /\ Carried'
  BY <1>1, MigratorCarries DEF QuestInv, UpgradeInv, RuntimeShape
<1>3. CASE AllApplied(disk')
  <2>1. RecordMigration
    BY <1>1, <1>3 DEF AllApplied, Pending
  <2>2. PICK db : db = disk'
    OBVIOUS
  <2>3. \A s : Settled(db, s) /\ (Promised(db, s) => Consented(db, s))
    BY <1>1, <1>2, <1>3, <2>1, <2>2, StartIs, LastMigrationSettles DEF UpgradeInv, FaithInv
  <2>4. /\ Runtime \in Connections \ {Migrator} /\ Migrator \in Connections /\ [StepOf(Migrator)]_txVars
        /\ open[Runtime] = "none" /\ runtime.pc = "down" /\ TxInv
    BY <1>1, MigratorIsTx, ConnectionsAssumption DEF MigratorStep, OpsInv, MigratesAlone
  <2>5. lock'[Runtime] = "none" /\ open'[Runtime] = "none" /\ saves'[Runtime] = <<>>
    BY <2>4, OthersKeep, RuntimeSees
  <2>6. Database' = db
    BY <2>2, <2>5 DEF Database, View
  <2>7. Range(saves'[Runtime]) = {}
    BY <2>5, RuntimeSees
  <2>8. Writing(db, runtime, abandoned)
    BY <2>4, CalmWriting DEF Calm
  <2> DEFINE within == open'[Runtime] # "none"
  <2>9. Orders(db, db, {}, within, runtime, abandoned)
    BY <2>3, <2>5, <2>8 DEF Orders
  <2> HIDE DEF Database
  <2>10. Orderly'
    BY <1>1, <2>2, <2>6, <2>7, <2>9, OrderlyNext
  <2> QED
    BY <1>2, <1>3, <2>10 DEF QuestInv
<1> QED
  BY <1>2, <1>3 DEF QuestInv

(* Every step keeps the questionnaires in order.                           *)
LEMMA QuestInvStep ==
  ASSUME OpsInv, UpgradeInv, FaithInv, QuestInv, [Next]_vars
  PROVE  QuestInv'
<1>1. CASE UNCHANGED vars
  <2>1. UNCHANGED <<start, runtime, abandoned, disk, pending, lock, open, saves, migrator>>
    BY <1>1 DEF vars, txVars
  <2>2. RuntimeShape'
    BY <2>1 DEF QuestInv, RuntimeShape
  <2>3. Database' = Database
    BY <2>1 DEF Database, View
  <2>4. Orderly => Orderly'
    <3> HIDE DEF Database
    <3> QED
      BY <2>1, <2>3, OrderlyNext DEF Orderly
  <2>5. Carried => Carried'
    <3>1. \A t : Home(t)' = Home(t)
      BY <2>1 DEF Home, Rebuilding
    <3> QED
      BY <2>1, <3>1 DEF Carried, Descends
  <2> QED
    BY <2>1, <2>2, <2>4, <2>5 DEF QuestInv
<1>2. CASE MigratorStep
  BY <1>2, MigratorSettles
<1>3. CASE OperatorStep \/ RuntimeStep \/ BackupStep
  <2>1. AllApplied(disk) /\ AllApplied(disk')
    BY <1>3, AppliedStays
  <2>2. RuntimeShape /\ Orderly
    BY <2>1 DEF QuestInv
  <2>3. CASE OperatorStep \/ BackupStep
    <3>1. UNCHANGED runtime
      BY <2>3 DEF OperatorStep, BackupStep
    <3>2. RuntimeShape'
      BY <2>2, <3>1 DEF RuntimeShape
    <3> QED
      BY <2>1, <2>2, <2>3, <3>2, OthersOrderly DEF QuestInv
  <2> QED
    BY <1>3, <2>1, <2>2, <2>3, RuntimeOrderly DEF QuestInv
<1> QED
  BY <1>1, <1>2, <1>3 DEF Next

(* The questionnaires are kept in order.                                   *)
THEOREM QuestionnairesKept == Spec => [](OpsInv /\ UpgradeInv /\ FaithInv /\ QuestInv)
<1>1. Init => FaithInv /\ QuestInv
  BY InitFaithInv, InitQuestInv
<1>2. OpsInv /\ UpgradeInv /\ FaithInv /\ [Next]_vars => FaithInv'
  BY FaithInvStep
<1>3. OpsInv /\ UpgradeInv /\ FaithInv /\ QuestInv /\ [Next]_vars => QuestInv'
  BY QuestInvStep
<1> QED
  BY <1>1, <1>2, <1>3, OperationsInvariant, UpgradePreserves, PTL DEF Spec

(* Whoever meets the preconditions of case:create-from-intake is on the    *)
(* list of intake:list-ready, unless his answer is being written or a      *)
(* message of his was not processed to its end, or an earlier one before   *)
(* the start (businessPersistenceService.ts:104).                          *)
THEOREM CompletedListed == Spec => []CompletedIsListed
<1>1. OpsInv /\ QuestInv => CompletedIsListed
  <2> SUFFICES ASSUME OpsInv, QuestInv, AllApplied(disk), NEW s \in Clients \ (abandoned \cup {runtime.client}),
                      AttachmentsAnswered(start, s), CanCreateCase(disk, s)
               PROVE  s \in ReadyIntakes(disk)
    BY DEF CompletedIsListed
  <2>1. Settled(disk, s)
    BY EverywhereSettled DEF QuestInv, InWork
  <2>2. FieldsOf(disk, s)["attachmentMetadata"] # Absent
    BY <2>1 DEF Settled, Listed, Complete, HasCaseFields, CanCreateCase
  <2>3. FieldNames = CaseFields \cup {"attachmentMetadata"}
    BY DEF FieldNames, CaseFields
  <2> QED
    BY <2>2, <2>3 DEF ReadyIntakes, CanCreateCase
<1> QED
  BY <1>1, QuestionnairesKept, PTL

(* On a database whose upgrade was not interrupted business:check raises   *)
(* two alarms only: a client with a draft case who has begun a new         *)
(* request, and one whose questionnaire lacks a field because a message of *)
(* his was not processed to its end.  Clients who were not in order at the *)
(* start are left aside.                                                   *)
THEOREM AlarmsExplained == Spec => []AlarmsAreExplained
<1>1. OpsInv /\ QuestInv => AlarmsAreExplained
  <2> SUFFICES ASSUME OpsInv, QuestInv, AllApplied(disk), NoLeftovers(disk),
                      NEW s \in Clients, InOrder(start, s)
               PROVE  CheckErrorsOf(disk, s) \subseteq
                        {"draft_case_without_completed_intake"} \cup
                        (IF s \in abandoned THEN {"completed_intake_missing_required_fields"} ELSE {})
    BY DEF AlarmsAreExplained
  <2>1. Orderly /\ Promised(disk, s)
    BY DEF QuestInv, Promised
  <2>2. Consented(disk, s)
    BY <2>1 DEF Orderly, Orders
  <2>3. \A c, d \in DraftsOf(disk, s) : c = d
    BY Migrated DEF OneDraftEach
  <2>4. ASSUME s \notin abandoned, Complete(disk, s)
        PROVE  HasCaseFields(FieldsOf(disk, s))
    <3>1. CASE ~InWork(runtime, s) \/ open[Runtime] # "none"
      <4>1. Settled(disk, s)
        BY <2>1, <2>4, <3>1, EverywhereSettled DEF Orderly, Orders
      <4> QED
        BY <2>1, <2>4, <4>1 DEF Settled, Answered, Complete
    <3>2. CASE InWork(runtime, s) /\ open[Runtime] = "none"
      <4>1. s = runtime.client /\ runtime.pc \in {"field", "event"} /\ Database = disk
        BY <3>2, RuntimeSees DEF InWork
      <4>2. /\ Written(disk, runtime)
            /\ runtime.next.state \in {"asking_attachments", "intake_complete"} => HasCaseFields(runtime.next.fields)
        <5> HIDE DEF Database
        <5> QED
          BY <2>1, <2>4, <4>1, WritingIs DEF Writes
      <4>3. runtime.next.state = "intake_complete"
        BY <2>4, <4>1, <4>2 DEF Written, Complete
      <4>4. CaseFields \subseteq FieldNames \ {"attachmentMetadata"}
        BY DEF CaseFields, FieldNames, IdentityFields
      <4>5. \A f \in CaseFields : FieldsOf(disk, s)[f] = runtime.next.fields[f]
        BY <4>1, <4>2, <4>3, <4>4 DEF Written
      <4> QED
        BY <4>2, <4>3, <4>5 DEF HasCaseFields
    <3> QED
      BY <3>1, <3>2
  <2> QED
    BY <2>2, <2>3, <2>4 DEF CheckErrorsOf, Consented, Complete, HasCaseFields
<1> QED
  BY <1>1, QuestionnairesKept, PTL
=============================================================================
