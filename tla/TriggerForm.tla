----------------------------- MODULE TriggerForm -----------------------------
(***************************************************************************)
(* The trigger editor.  A trigger has conditions (when), each with further *)
(* conditions (also, combined by and/or) and exceptions (unless), and      *)
(* actions (then).  The page shows four blocks of rows; its script gives   *)
(* every row a device list or free text, and a value input that fits the   *)
(* chosen device.  The browser sends what is not disabled, one list per    *)
(* field name; the handler puts the lists together by position, attaches   *)
(* one also and one unless to every condition, and replaces the trigger in *)
(* Core, with everything in it that the form has no input for.  Inputs     *)
(* that are always sent travel with the text of their row (days, target,   *)
(* presence state) or are left out (ask, satellite, delay, rephrase).      *)
(***************************************************************************)
EXTENDS Naturals, Sequences, FiniteSets, SequencesExt

CONSTANTS
    Devices,    \* states the device lists offer
    Writable,   \* those offered for actions
    WidgetOf,   \* data-widget of a device
    EnumOf,     \* data-enum of a device: the values, in order
    OtherIds,   \* states that no device offers
    Numbers,    \* values a number input holds
    Words,      \* values only text and enum inputs hold
    Texts,      \* times, phrases, announcements, residents
    Residents,  \* residents Core lists
    NewRows,    \* blank rows rendered in each block
    Cooldowns,  \* seconds between two firings, 0 among them
    DefaultCooldown, \* the hour an emptied input stands for
    Triggers,   \* triggers Core holds at first, or another user makes
    MaxEdits    \* bound: changes made in forms

Blocks == {"when", "also", "unless", "then"}
Widgets == {"text", "number", "bool", "enum"}
CmpKeys == {"value", "above", "below"}
Bools == {"true", "false"}
Unshown == {"say", "cancel_when"}  \* parts of a trigger that the form has no input for
Values == Bools \cup Numbers \cup Words

ASSUME DevicesAssumption ==
    /\ Writable \subseteq Devices
    /\ Devices \cap OtherIds = {}
    /\ "" \notin Devices \cup OtherIds \cup Values \cup Texts
    /\ Residents \subseteq Texts
    /\ WidgetOf \in [Devices -> Widgets]
    /\ \A d \in Devices : EnumOf[d] \in Seq(Values)

\* What the cooldown input holds: it can be emptied.
CooldownTexts == Cooldowns \cup {""}

ASSUME CooldownsAssumption == DefaultCooldown \in Cooldowns /\ "" \notin Cooldowns
ASSUME RowsAssumption == NewRows \in [Blocks -> Nat] /\ MaxEdits \in Nat

\* Types other than "state", with a text of their own.
OtherKinds(b) ==
    CASE b = "when" -> {"time", "phrase"} [] b = "then" -> {"say", "presence"} [] OTHER -> {}

\* Actions have no comparison.
CmpsOf(b) == IF b = "then" THEN {"value"} ELSE CmpKeys

\* Conditions and actions an engine can use: a state compared with a value, or a text.
CondsOf(b) ==
    [kind : {"state"}, what : Devices \cup OtherIds, cmp : CmpsOf(b), value : Values]
    \cup [kind : OtherKinds(b), what : Texts, cmp : {"value"}, value : {""}]

\* An operator is stored with the conditions it combines.
Whens ==
    {w \in [cond : CondsOf("when"), also : Seq(CondsOf("also")), op : {"and", "or"},
            unless : Seq(CondsOf("unless"))] : w.also = <<>> => w.op = "and"}

\* What Core holds of a trigger that is there, or of none.
TriggersIn(there) ==
    [there : there, when : Seq(Whens), then : Seq(CondsOf("then")), cooldown : Cooldowns,
     unshown : SUBSET Unshown]

ASSUME TriggersAssumption == Triggers \subseteq TriggersIn({TRUE})

VARIABLES
    trigger, \* the trigger in Core
    stage,   \* closed, editing, failed (error page) or saved
    target,  \* what the form was opened for: new, edit
    page,    \* the form: its four blocks of rows, also_op, cooldown, the response rules
    edits    \* changes made in forms

vars == <<trigger, stage, target, page, edits>>
-------------------------------------------------------------------------------
(* Rows and what the page's script does to them. *)

Offered(b) == IF b = "then" THEN Writable ELSE Devices

WidgetFor(d) == IF d = "" THEN "text" ELSE WidgetOf[d]

\* The one value input that is not disabled.
Active(row) == IF row.mode = "free" THEN "text" ELSE WidgetFor(row.device)

\* The comparisons other than "=" are disabled unless the device is numeric.
AllCmps(row) == row.mode = "free" \/ Active(row) = "number"

\* What an input can hold besides nothing.
Fitting(w, d) ==
    CASE w = "text" -> Values [] w = "number" -> Numbers [] w = "bool" -> Bools
      [] w = "enum" -> ToSet(EnumOf[d])

FirstOption(d) == IF EnumOf[d] = <<>> THEN "" ELSE Head(EnumOf[d])

\* Mutant: the value is assigned whatever the input.
TakenAny(w, d, v) == v

\* el.value = v: a number input refuses other text, a select without that option
\* is left with nothing selected.
Taken(w, d, v) == IF v \in Fitting(w, d) THEN v ELSE ""

\* Mutant: the value is not carried over.
SwitchEmpty(row, new) == new

\* applyDeviceChange and setMode: the enum's options are made anew, then the value of
\* the input that was active is carried over to the one that is now.
Switch(row, new) ==
    LET w == Active(new)
        filled == IF w = "enum" THEN [row.value EXCEPT !["enum"] = FirstOption(new.device)]
                  ELSE row.value
        prev == filled[Active(row)]
    IN [new EXCEPT !.value =
            IF prev = "" THEN filled ELSE [filled EXCEPT ![w] = Taken(w, new.device, prev)]]

\* A row as the template renders it.
Row(b, kind, id, cmp, v, text) ==
    [kind |-> kind, mode |-> "dropdown", device |-> "", typed |-> id, cmp |-> cmp,
     value |-> [w \in Widgets |->
                  CASE w = "text" -> v [] w = "number" -> IF v \in Numbers THEN v ELSE ""
                    [] w = "bool" -> IF v = "false" THEN v ELSE "true" [] w = "enum" -> ""],
     text |-> [k \in OtherKinds(b) |-> IF k = kind THEN text ELSE ""]]

\* Each row when the page is loaded: a known state selects its device, any other is free text.
Loaded(b, row) ==
    IF row.typed = "" THEN row
    ELSE IF row.typed \in Offered(b) THEN Switch(row, [row EXCEPT !.device = row.typed])
    ELSE Switch(row, [row EXCEPT !.mode = "free"])

BlankRow(b) == Row(b, IF b = "then" THEN "say" ELSE "state", "", "value", "", "")

\* _condition_to_row, _state_condition_to_row, _action_to_row.  The list of residents
\* falls back to its empty option.
ToRow(b, c) ==
    IF c.kind = "state" THEN Loaded(b, Row(b, "state", c.what, c.cmp, c.value, ""))
    ELSE Row(b, c.kind, "", "value", "",
             IF c.kind = "presence" /\ c.what \notin Residents THEN "" ELSE c.what)

RowsOf(b, conds) ==
    [i \in 1..(Len(conds) + NewRows[b]) |->
        IF i <= Len(conds) THEN ToRow(b, conds[i]) ELSE BlankRow(b)]

-------------------------------------------------------------------------------
(* Opening the form. *)

\* The new trigger's form shows the default cooldown.
NoTrigger ==
    [there |-> FALSE, when |-> <<>>, then |-> <<>>, cooldown |-> DefaultCooldown,
     unshown |-> {}]

\* _extract_also_unless: the first condition that has some.
AlsoOf(when) ==
    LET some == {i \in DOMAIN when : when[i].also # <<>>} IN
    IF some = {} THEN [conds |-> <<>>, op |-> "and"]
    ELSE [conds |-> when[Min(some)].also, op |-> when[Min(some)].op]

UnlessOf(when) ==
    LET some == {i \in DOMAIN when : when[i].unless # <<>>} IN
    IF some = {} THEN <<>> ELSE when[Min(some)].unless

Rendered(t) ==
    [rows |-> [b \in Blocks |->
        CASE b = "when" -> RowsOf(b, [i \in DOMAIN t.when |-> t.when[i].cond])
          [] b = "also" -> RowsOf(b, AlsoOf(t.when).conds)
          [] b = "unless" -> RowsOf(b, UnlessOf(t.when))
          [] b = "then" -> RowsOf(b, t.then)],
     op |-> AlsoOf(t.when).op, cooldown |-> t.cooldown, rules |-> TRUE]

Init ==
    /\ trigger \in Triggers \cup {NoTrigger}
    /\ stage = "closed"
    /\ target = "new"
    /\ page = Rendered(NoTrigger)
    /\ edits = 0

Show(what, t) ==
    /\ stage' = "editing"
    /\ target' = what
    /\ page' = Rendered(t)

New ==
    /\ stage \in {"closed", "failed", "saved"}
    /\ Show("new", NoTrigger)
    /\ UNCHANGED <<trigger, edits>>

Edit ==
    /\ stage \in {"closed", "failed", "saved"}
    /\ trigger.there
    /\ Show("edit", trigger)
    /\ UNCHANGED <<trigger, edits>>
-------------------------------------------------------------------------------
(* Changes in the form. *)

Changed(new) ==
    /\ stage = "editing"
    /\ edits < MaxEdits /\ new # page
    /\ edits' = edits + 1
    /\ page' = new
    /\ UNCHANGED <<trigger, stage, target>>

Put(b, i, row) == Changed([page EXCEPT !.rows[b][i] = row])

ChooseType(b, i) ==
    \E k \in {"state"} \cup OtherKinds(b) : Put(b, i, [page.rows[b][i] EXCEPT !.kind = k])

EnterText(b, i) ==
    LET row == page.rows[b][i] IN
    /\ row.kind # "state"
    /\ \E t \in {""} \cup (IF row.kind = "presence" THEN Residents ELSE Texts) :
          Put(b, i, [row EXCEPT !.text[row.kind] = t])

ChooseDevice(b, i) ==
    LET row == page.rows[b][i] IN
    /\ row.kind = "state" /\ row.mode = "dropdown"
    /\ \E d \in Offered(b) \cup {""} : Put(b, i, Switch(row, [row EXCEPT !.device = d]))

Toggle(b, i) ==
    LET row == page.rows[b][i] IN
    /\ row.kind = "state"
    /\ Put(b, i, Switch(row, [row EXCEPT !.mode = IF @ = "free" THEN "dropdown" ELSE "free"]))

EnterState(b, i) ==
    LET row == page.rows[b][i] IN
    /\ row.kind = "state" /\ row.mode = "free"
    /\ \E id \in OtherIds \cup Devices \cup {""} : Put(b, i, [row EXCEPT !.typed = id])

ChooseCmp(b, i) ==
    LET row == page.rows[b][i] IN
    /\ b # "then" /\ row.kind = "state"
    /\ \E c \in CmpKeys :
          /\ c = "value" \/ AllCmps(row)
          /\ Put(b, i, [row EXCEPT !.cmp = c])

EnterValue(b, i) ==
    LET row == page.rows[b][i]
        w == Active(row) IN
    /\ row.kind = "state"
    /\ \E v \in Fitting(w, row.device) \cup (IF w \in {"text", "number"} THEN {""} ELSE {}) :
          Put(b, i, [row EXCEPT !.value[w] = v])

RemoveRow(b, i) == Changed([page EXCEPT !.rows[b] = RemoveAt(@, i)])

ChooseOp == \E op \in {"and", "or"} : Changed([page EXCEPT !.op = op])

EnterCooldown == \E c \in CooldownTexts : Changed([page EXCEPT !.cooldown = c])

EnterRules == Changed([page EXCEPT !.rules = ~@])

InForm ==
    \/ ChooseOp \/ EnterCooldown \/ EnterRules
    \/ \E b \in Blocks : \E i \in DOMAIN page.rows[b] :
          \/ ChooseType(b, i) \/ EnterText(b, i) \/ ChooseDevice(b, i) \/ Toggle(b, i)
          \/ EnterState(b, i) \/ ChooseCmp(b, i) \/ EnterValue(b, i) \/ RemoveRow(b, i)
-------------------------------------------------------------------------------
(* What is sent, and how it is put together again. *)

\* The k-th of a set of positions.
Nth(U, k) == CHOOSE i \in U : Cardinality({j \in U : j <= i}) = k

\* The elements of s at the positions in U, in their order.
Kept(s, U) == [k \in 1..Cardinality(U) |-> s[Nth(U, k)]]

\* The hidden state of the device list or the free text: the other one is disabled.
StateShown(row) == IF row.mode = "free" THEN row.typed ELSE row.device

\* A selected option that has become disabled is not sent, nor is a select with
\* nothing selected.
SendsCmp(row) == row.cmp = "value" \/ AllCmps(row)
SendsValue(row) == Active(row) \in {"text", "number"} \/ row.value[Active(row)] # ""

\* Mutant: the free text is never disabled.
SentBothStates(rows) ==
    FlattenSeq([i \in DOMAIN rows |->
        IF rows[i].mode = "free" THEN <<rows[i].typed>> ELSE <<rows[i].typed, rows[i].device>>])

SentStates(rows) == [i \in DOMAIN rows |-> StateShown(rows[i])]

SentCmps(rows) ==
    LET sending == Kept(rows, {i \in DOMAIN rows : SendsCmp(rows[i])})
    IN [i \in DOMAIN sending |-> sending[i].cmp]

SentValues(rows) ==
    LET sending == Kept(rows, {i \in DOMAIN rows : SendsValue(rows[i])})
    IN [i \in DOMAIN sending |-> sending[i].value[Active(sending[i])]]

\* Mutant: the value of the row before.
AtBefore(list, i, default) == IF i - 1 \in DOMAIN list THEN list[i - 1] ELSE default

\* list[i] if i < len(list) else default
At(list, i, default) == IF i \in DOMAIN list THEN list[i] ELSE default

OrTrue(v) == IF v = "" THEN "true" ELSE v

Condition(id, cmp, v) == [kind |-> "state", what |-> id, cmp |-> cmp, value |-> OrTrue(v)]
Plain(kind, text) == [kind |-> kind, what |-> text, cmp |-> "value", value |-> ""]

\* The i-th row put together from the parallel lists; actions have no comparison.
Parsed(rows, i) ==
    IF rows[i].kind = "state"
    THEN Condition(At(SentStates(rows), i, ""), At(SentCmps(rows), i, "value"),
                   At(SentValues(rows), i, ""))
    ELSE Plain(rows[i].kind, rows[i].text[rows[i].kind])

Used(c) == c.what # ""

\* _parse_when_rows, _parse_state_condition_rows, _parse_trigger_action_rows.
Parse(rows) ==
    Kept([i \in DOMAIN rows |-> Parsed(rows, i)], {i \in DOMAIN rows : Used(Parsed(rows, i))})

\* Mutant: the exceptions go to the first condition only.
AttachedOnce(conds, also, op, unless) ==
    [i \in DOMAIN conds |->
        [cond |-> conds[i], also |-> also, op |-> IF also = <<>> THEN "and" ELSE op,
         unless |-> IF i = 1 THEN unless ELSE <<>>]]

\* _attach_also_unless; _parse_also sends an operator only with conditions.
Attached(conds, also, op, unless) ==
    [i \in DOMAIN conds |->
        [cond |-> conds[i], also |-> also, op |-> IF also = <<>> THEN "and" ELSE op,
         unless |-> unless]]

\* Whatever the trigger had for them, cancel_when is None and say is empty; a 0 in the
\* cooldown input is the text "0" and stays, only an emptied input is the default.
Sent(p) ==
    [there |-> TRUE, then |-> Parse(p.rows["then"]),
     when |-> Attached(Parse(p.rows["when"]), Parse(p.rows["also"]), p.op, Parse(p.rows["unless"])),
     cooldown |-> IF p.cooldown = "" THEN DefaultCooldown ELSE p.cooldown,
     unshown |-> {}]
-------------------------------------------------------------------------------
(* Sending the form, also once more from the error page. *)

Sending == stage \in {"editing", "failed"}

Answered(next) ==
    /\ stage' = next
    /\ UNCHANGED <<target, page>>

\* create_trigger gives an id that is free, update_trigger replaces the trigger.
Accepted ==
    /\ Sending /\ page.rules
    /\ trigger.there <=> target = "edit"
    /\ trigger' = Sent(page)
    /\ Answered("saved")
    /\ UNCHANGED edits

\* Core refuses: a new trigger's form is opened again, blank.
Refused ==
    /\ Sending /\ page.rules
    /\ IF target = "new" THEN Show("new", NoTrigger) ELSE Answered("closed")
    /\ UNCHANGED <<trigger, edits>>

\* The RPC fails, applied or not.
Failed ==
    /\ Sending /\ page.rules
    /\ \/ /\ trigger.there <=> target = "edit"
          /\ trigger' = Sent(page)
       \/ UNCHANGED trigger
    /\ Answered("failed")
    /\ UNCHANGED edits

\* Response rules that are no JSON: the form is opened again, without the changes.
BadRules ==
    /\ Sending /\ ~page.rules
    /\ IF target = "edit" /\ ~trigger.there THEN Answered("closed")
       ELSE Show(target, IF target = "new" THEN NoTrigger ELSE trigger)
    /\ UNCHANGED <<trigger, edits>>

\* An id without letters or digits: back to the list, nothing is created.
EmptySlug ==
    /\ Sending /\ target = "new"
    /\ Answered("closed")
    /\ UNCHANGED <<trigger, edits>>

Delete ==
    /\ stage \in {"closed", "saved"}
    /\ trigger' = NoTrigger
    /\ Answered("closed")
    /\ UNCHANGED edits

\* Another user saves or deletes the trigger meanwhile.
ChangedElsewhere ==
    /\ trigger' \in Triggers \cup {NoTrigger}
    /\ Answered(IF stage = "saved" THEN "closed" ELSE stage)
    /\ UNCHANGED edits

Next ==
    \/ New \/ Edit \/ InForm \/ Accepted \/ Refused \/ Failed \/ BadRules
    \/ EmptySlug \/ Delete \/ ChangedElsewhere

Spec == Init /\ [][Next]_vars
-------------------------------------------------------------------------------
(* Properties. *)

\* A row: every input holds what it can show, whether or not it is shown now.
RowsIn(b) ==
    {row \in [kind : {"state"} \cup OtherKinds(b), mode : {"dropdown", "free"},
              device : Offered(b) \cup {""}, typed : Devices \cup OtherIds \cup {""},
              cmp : CmpsOf(b), value : [Widgets -> Values \cup {""}],
              text : [OtherKinds(b) -> Texts \cup {""}]] :
        /\ row.value["number"] \in Numbers \cup {""}
        /\ row.value["bool"] \in Bools \cup {""}}

\* Every variable has its type: the trigger in Core has conditions of the known kinds
\* with values an engine can compare, and an input holds only what it can show.
TypeOK ==
    /\ trigger \in TriggersIn(BOOLEAN)
    /\ stage \in {"closed", "editing", "failed", "saved"}
    /\ target \in {"new", "edit"}
    /\ page = [rows |-> [b \in Blocks |-> page.rows[b]], op |-> page.op,
                cooldown |-> page.cooldown, rules |-> page.rules]
    /\ \A b \in Blocks : page.rows[b] \in Seq(RowsIn(b))
    /\ page.cooldown \in CooldownTexts
    /\ page.op \in {"and", "or"} /\ page.rules \in BOOLEAN
    /\ edits \in 0..MaxEdits

\* What one row says, read off the row itself.
Meant(row) ==
    IF row.kind = "state" THEN Condition(StateShown(row), row.cmp, row.value[Active(row)])
    ELSE Plain(row.kind, row.text[row.kind])

MeantAll(rows) ==
    Kept([i \in DOMAIN rows |-> Meant(rows[i])], {i \in DOMAIN rows : Used(Meant(rows[i]))})

\* The conditions Core has got for a block: one list, or one for each condition.
StoredFor(b) ==
    CASE b = "when" -> {[i \in DOMAIN trigger.when |-> trigger.when[i].cond]}
      [] b = "then" -> {trigger.then}
      [] OTHER -> {trigger.when[i][b] : i \in DOMAIN trigger.when}

Complete(row) == SendsCmp(row) /\ SendsValue(row)

\* Up to the first row that leaves something out, whatever was chosen, hidden,
\* toggled or removed, every row of a block is stored as the page shows it, in every
\* condition it applies to, and no row in another block disturbs it.
StoredAsShown ==
    stage = "saved" =>
        \A b \in Blocks : LET rows == page.rows[b] IN
            \A n \in 0..Len(rows) : (\A i \in 1..n : Complete(rows[i])) =>
                \A conds \in StoredFor(b) : IsPrefix(MeantAll(SubSeq(rows, 1, n)), conds)

Named(conds) == [i \in DOMAIN conds |-> <<conds[i].kind, conds[i].what>>]

\* Even then no condition is lost, invented or given another row's state or text:
\* only comparisons and values can end up in the wrong row.
NothingLost ==
    stage = "saved" =>
        \A b \in Blocks : \A conds \in StoredFor(b) : Named(conds) = Named(MeantAll(page.rows[b]))

\* What the form can show: values the device's input offers, residents that exist,
\* one also and one unless for all conditions.
Fits(b, c) ==
    /\ c.kind = "state" /\ c.what \in Offered(b) =>
          /\ c.value \in Fitting(WidgetOf[c.what], c.what)
          /\ c.cmp = "value" \/ WidgetOf[c.what] = "number"
    /\ c.kind = "presence" => c.what \in Residents

Representable(t) ==
    /\ \A i \in DOMAIN t.when :
          /\ Fits("when", t.when[i].cond)
          /\ \A j \in DOMAIN t.when[i].also : Fits("also", t.when[i].also[j])
          /\ \A j \in DOMAIN t.when[i].unless : Fits("unless", t.when[i].unless[j])
          /\ t.when[i].also = t.when[1].also /\ t.when[i].op = t.when[1].op
          /\ t.when[i].unless = t.when[1].unless
    /\ \A j \in DOMAIN t.then : Fits("then", t.then[j])

\* Opening a trigger and saving the form as it is changes nothing that the form shows:
\* reading into rows, the script's set-up, sending, parsing and attaching are inverse to
\* each other.  It is not harmless, though: a trigger with a say or a cancel_when of its
\* own loses it, and that is all it loses.
UntouchedSaveKeeps ==
    [][stage' = "saved" /\ target = "edit" /\ page = Rendered(trigger) /\ Representable(trigger)
         => trigger' = [trigger EXCEPT !.unshown = {}]]_vars

\* The claim in the macro that needs "no change on the parsing side": whatever is
\* stored for a row is its own comparison and value, or the default.
RowsKeepTheirValues ==
    stage = "saved" =>
        \A b \in Blocks : \A conds \in StoredFor(b) :
            LET meant == MeantAll(page.rows[b]) IN
            Len(conds) = Len(meant) =>
                \A i \in DOMAIN conds :
                    /\ conds[i].cmp \in {meant[i].cmp, "value"}
                    /\ conds[i].value \in {meant[i].value, "true"}

===============================================================================
