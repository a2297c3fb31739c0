--------------------------- MODULE PresenceSources ---------------------------
(***************************************************************************)
(* The editor for a user's presence sources: the page lists one row per    *)
(* source and NewRows blank ones, its script hides saved rows and removes  *)
(* new ones, the browser sends the rows that are left as parallel lists,   *)
(* _parse_presence_source_rows puts them together again by position, and   *)
(* users.presence_sources carries them out with one RPC per row.  An RPC   *)
(* may be refused (a deletion: unheard), or fail with or without having    *)
(* been applied; after the error page the same form may be sent again, and *)
(* another administrator may delete a source at any time.  Confidences     *)
(* travel like references and are left out.                                *)
(***************************************************************************)
EXTENDS Naturals, Sequences, FiniteSets

CONSTANTS
    Types,    \* _PRESENCE_SOURCE_TYPES; each has a reference field of its own
    Refs,     \* references
    NoRef,    \* an empty reference field
    NewRows,  \* _PRESENCE_SOURCE_NEW_ROWS
    Stored,   \* sources the user has at first
    MaxId,    \* bound: ids Core gives
    MaxEdits, \* bound: changes made in forms
    MaxSends  \* bound: times one form is sent

ASSUME NoRefAssumption == NoRef \notin Refs
ASSUME TypesAssumption == Types # {}
ASSUME CountAssumption == NewRows \in Nat /\ Stored \in Nat /\ MaxId \in Nat
ASSUME BoundAssumption == MaxEdits \in Nat /\ MaxSends \in Nat

VARIABLES
    sources, \* Core's sources of the user, by id
    lastId,  \* the id given last
    stage,   \* where the form is: closed, editing, sending, failed, saved
    form,    \* the rows in the page, hidden ones included
    todo,    \* the rows the handler has still to carry out
    warned,  \* the handler queued a "danger" message
    edits,   \* changes made in forms
    sends,   \* times the form has been sent
    gone,    \* history: ids deleted elsewhere since the form was opened
    made,    \* history: ids created for each row of the form
    kept     \* history: ids whose deletion Core refused in this sending

vars == <<sources, lastId, stage, form, todo, warned, edits, sends, gone, made, kept>>
-------------------------------------------------------------------------------
(* The page. *)

\* id 0 is a new row; box is the i of the row's checkbox ps_enabled_{i}, counted
\* from 1 and given when the page is rendered.
Rows == [id : Nat, box : Nat \ {0}, type : Types, ref : [Types -> Refs \cup {NoRef}],
         enabled : BOOLEAN]

Source == [type : Types, ref : Refs, enabled : BOOLEAN]

NoRefs == [t \in Types |-> NoRef]
FirstType == CHOOSE t \in Types : TRUE
Reference(row) == row.ref[row.type]

\* The ids of the sources in the order of Core's answer, as the page lists them.
Listed ==
    CHOOSE ids \in [1..Cardinality(DOMAIN sources) -> DOMAIN sources] :
        \A i, j \in DOMAIN ids : i # j => ids[i] # ids[j]

Rendered ==
    LET n == Len(Listed) IN
    [i \in 1..(n + NewRows) |->
        IF i <= n
        THEN LET s == sources[Listed[i]] IN
             [id |-> Listed[i], box |-> i, type |-> s.type,
              ref |-> [NoRefs EXCEPT ![s.type] = s.ref], enabled |-> s.enabled]
        ELSE [id |-> 0, box |-> i, type |-> FirstType, ref |-> NoRefs, enabled |-> TRUE]]

Init ==
    /\ sources \in [1..Stored -> Source]
    /\ lastId = Stored
    /\ stage = "closed"
    /\ form = <<>>
    /\ todo = {}
    /\ warned = FALSE
    /\ edits = 0
    /\ sends = 0
    /\ gone = {}
    /\ made = <<>>
    /\ kept = {}

Open ==
    /\ stage \in {"closed", "failed", "saved"}
    /\ stage' = "editing"
    /\ form' = Rendered
    /\ sends' = 0
    /\ gone' = {}
    /\ made' = [box \in 1..Len(form') |-> {}]
    /\ kept' = {}
    /\ UNCHANGED <<sources, lastId, todo, warned, edits>>

Edited(rows) ==
    /\ stage = "editing"
    /\ edits < MaxEdits
    /\ edits' = edits + 1
    /\ form' = rows
    /\ UNCHANGED <<sources, lastId, stage, todo, warned, sends, gone, made, kept>>

\* Choosing a type only shows the other field: what was in the first stays there.
ChooseType(i) == \E t \in Types : Edited([form EXCEPT ![i].type = t])

EnterReference(i) ==
    \E r \in Refs \cup {NoRef} : Edited([form EXCEPT ![i].ref[form[i].type] = r])

Tick(i) == Edited([form EXCEPT ![i].enabled = ~@])

\* The remove button: a saved row is emptied and hidden, a new one leaves the page.
RemoveRow(i) ==
    IF form[i].id # 0 THEN Edited([form EXCEPT ![i].ref = NoRefs])
    ELSE Edited([j \in 1..(Len(form) - 1) |-> form[IF j < i THEN j ELSE j + 1]])
-------------------------------------------------------------------------------
(* The handler. *)

\* Mutant: the box of the row before.
TickedBefore(rows, i) == \E j \in DOMAIN rows : rows[j].box + 1 = i /\ rows[j].enabled

\* form.get(f"ps_enabled_{i}") == "on": browsers send ticked boxes only.
TickedAt(rows, i) == \E j \in DOMAIN rows : rows[j].box = i /\ rows[j].enabled

\* Mutant: blank rows do not count.
IdAmongUsed(rows, i) ==
    LET used == SelectSeq(rows, LAMBDA row : Reference(row) # NoRef)
    IN IF i <= Len(used) THEN used[i].id ELSE 0

IdAt(rows, i) == rows[i].id

\* Mutant: unused rows are created, too.
WhatUnused(id, ref) ==
    IF id = 0 THEN "create" ELSE IF ref # NoRef THEN "update" ELSE "delete"

\* An empty reference marks a row as unused or, if it has an id, to be deleted.
What(id, ref) ==
    IF ref # NoRef THEN IF id # 0 THEN "update" ELSE "create"
    ELSE IF id # 0 THEN "delete" ELSE "skip"

\* The i-th row put together from the parallel lists.
Parsed(rows, i) ==
    [what |-> What(IdAt(rows, i), Reference(rows[i])), id |-> IdAt(rows, i), row |-> rows[i].box,
     type |-> rows[i].type, ref |-> Reference(rows[i]), enabled |-> TickedAt(rows, i)]

\* Unused rows are left out.
Used(rows) == {i \in DOMAIN rows : Parsed(rows, i).what # "skip"}

\* "Speichern", or the same form sent again after the error page.
Send ==
    /\ stage \in {"editing", "failed"}
    /\ sends < MaxSends
    /\ sends' = sends + 1
    /\ stage' = "sending"
    /\ todo' = Used(form)
    /\ warned' = FALSE
    /\ kept' = {}
    /\ UNCHANGED <<sources, lastId, form, edits, gone, made>>

Without(id) == [x \in DOMAIN sources \ {id} |-> sources[x]]

With(id, o) ==
    [x \in DOMAIN sources \cup {id} |->
        IF x = id THEN [type |-> o.type, ref |-> o.ref, enabled |-> o.enabled] ELSE sources[x]]

\* What Core does for a row.
Carried(o) ==
    \/ /\ o.what = "delete"
       /\ sources' = Without(o.id)
       /\ UNCHANGED <<lastId, made>>
    \/ /\ o.what = "update"
       /\ o.id \in DOMAIN sources
       /\ sources' = With(o.id, o)
       /\ UNCHANGED <<lastId, made>>
    \/ /\ o.what = "create"
       /\ lastId < MaxId
       /\ lastId' = lastId + 1
       /\ sources' = With(lastId', o)
       /\ made' = [made EXCEPT ![o.row] = @ \cup {lastId'}]

\* The rows are carried out one after the other, in the order of the form.
Turn(i) == stage = "sending" /\ i \in todo /\ \A j \in todo : i <= j

RowDone(i) ==
    /\ Turn(i)
    /\ Carried(Parsed(form, i))
    /\ todo' = todo \ {i}
    /\ UNCHANGED <<stage, form, warned, edits, sends, gone, kept>>

\* Core refuses a row, a missing source among others; the next row follows.  The
\* result of delete_presence_source is ignored: a refused deletion warns nobody.
RowRefused(i) ==
    /\ Turn(i)
    /\ todo' = todo \ {i}
    /\ \/ /\ Parsed(form, i).what = "delete"
          /\ kept' = kept \cup {Parsed(form, i).id}
          /\ UNCHANGED warned
       \/ /\ Parsed(form, i).what # "delete"
          /\ warned' = TRUE
          /\ UNCHANGED kept
    /\ UNCHANGED <<sources, lastId, stage, form, edits, sends, gone, made>>

\* Mutant: a failed RPC is tried again at once.
RowRetried(i) ==
    /\ Turn(i)
    /\ Carried(Parsed(form, i)) \/ UNCHANGED <<sources, lastId, made>>
    /\ UNCHANGED <<stage, form, todo, warned, edits, sends, gone, kept>>

\* The RPC fails: the error page, and the rows after it are not carried out.
RowFailed(i) ==
    /\ Turn(i)
    /\ Carried(Parsed(form, i)) \/ UNCHANGED <<sources, lastId, made>>
    /\ stage' = "failed"
    /\ todo' = {}
    /\ kept' = {}
    /\ UNCHANGED <<form, warned, edits, sends, gone>>

Saved ==
    /\ stage = "sending" /\ todo = {}
    /\ stage' = "saved"
    /\ UNCHANGED <<sources, lastId, form, todo, warned, edits, sends, gone, made, kept>>

\* Another administrator deletes a source.
DeletedElsewhere ==
    \E id \in DOMAIN sources :
        /\ sources' = Without(id)
        /\ gone' = gone \cup {id}
        /\ UNCHANGED <<lastId, stage, form, todo, warned, edits, sends, made, kept>>

Next ==
    \/ Open \/ Send \/ Saved \/ DeletedElsewhere
    \/ \E i \in DOMAIN form :
          \/ ChooseType(i) \/ EnterReference(i) \/ Tick(i) \/ RemoveRow(i)
          \/ RowDone(i) \/ RowRefused(i) \/ RowFailed(i)

Spec == Init /\ [][Next]_vars
-------------------------------------------------------------------------------
(* Properties. *)

\* Every variable has its type: a source always has a reference.
TypeOK ==
    /\ DOMAIN sources \subseteq 1..lastId /\ \A id \in DOMAIN sources : sources[id] \in Source
    /\ lastId \in Nat
    /\ stage \in {"closed", "editing", "sending", "failed", "saved"}
    /\ form \in Seq(Rows)
    /\ todo \subseteq DOMAIN form
    /\ warned \in BOOLEAN
    /\ edits \in Nat /\ sends \in Nat
    /\ gone \subseteq 1..lastId
    /\ \A box \in DOMAIN made : made[box] \subseteq 1..lastId
    /\ kept \subseteq 1..lastId

\* id holds what the row shows.
Shows(row, id) ==
    /\ id \in DOMAIN sources
    /\ sources[id] = [type |-> row.type, ref |-> Reference(row), enabled |-> row.enabled]

AsShown(row) ==
    IF row.id # 0
    THEN IF Reference(row) = NoRef THEN row.id \notin DOMAIN sources \/ row.id \in kept
         ELSE row.id \in gone \/ Shows(row, row.id)
    ELSE Reference(row) = NoRef \/ \E id \in made[row.box] : id \in gone \/ Shows(row, id)

SavedQuietly == stage = "saved" /\ ~warned

\* The promise of the page's script, that a new row "can simply be removed from the
\* DOM": after a save without a message Core holds every row as the page showed it.
SavedAsShown == SavedQuietly => \A i \in DOMAIN form : AsShown(form[i])

\* What holds of it: every row still at the place it was rendered at, and so every
\* saved row, is stored (or deleted) as shown, however often rows failed in between
\* and the form was sent again.  The one thing a save is silent about is a deletion
\* that Core refused (kept).
SavedInPlace ==
    SavedQuietly => \A i \in DOMAIN form : form[i].id # 0 \/ form[i].box = i => AsShown(form[i])

\* Sending the form again is harmless for updates and deletions, but a row whose
\* creation had been applied is created once more: at most one source per sending.
OnePerSending ==
    \A box \in DOMAIN made : Cardinality(made[box]) <= sends

\* However rows are hidden and removed, an RPC for a source comes from the row
\* that shows it: only an emptied row deletes, and only its own source changes.
RowsKeepTheirSource ==
    [][stage = "sending" => \A id \in DOMAIN sources :
          (id \notin DOMAIN sources' \/ sources'[id] # sources[id]) =>
              \/ id \in gone'
              \/ \E i \in DOMAIN form :
                    /\ form[i].id = id
                    /\ (id \notin DOMAIN sources') <=> Reference(form[i]) = NoRef]_vars

===============================================================================
