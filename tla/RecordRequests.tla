---------------------------- MODULE RecordRequests ----------------------------
(***************************************************************************)
(* The forms and buttons that change one record of Core: an alarm, a       *)
(* satellite, a group, a car, a BLE tag, a setting, or the accounts linked *)
(* to one user.  A page shows the record as it was read, a click posts to  *)
(* a handler in a gunicorn worker, and the handler makes one or two RPCs,  *)
(* some after reading the record again.  There is no version check; Core   *)
(* may refuse an RPC, not every handler says so; an RPC may fail with or   *)
(* without having been applied, the error page lets the same form be sent  *)
(* again; a worker that waits too long is killed.                          *)
(*                                                                         *)
(* Each behaviour follows one record: requests about others write others.  *)
(***************************************************************************)
EXTENDS Naturals, Sequences, FiniteSets

CONSTANTS
    Slots,       \* open pages and requests under way
    Workers,     \* number of gunicorn worker processes
    Users,       \* users who may own a satellite, a car or a tag
    Nobody,      \* user id 0
    Values,      \* contents of a field
    Tokens,      \* what secrets.token_urlsafe may draw
    Blank,       \* an empty text, a missing link, no satellite
    Ragged,      \* text with spaces around it, a setting with blank or repeated entries
    Tidy,        \* what tidying makes of it
    Nested,      \* a setting only the raw JSON editor can show
    Originals,   \* the records at the start, by kind
    MaxRequests, \* bound: pages opened
    MaxElsewhere \* bound: changes made outside these forms

ASSUME WorkersAssumption == Workers \in Nat \ {0}
ASSUME BoundAssumption == MaxRequests \in Nat /\ MaxElsewhere \in Nat

VARIABLES
    kind,     \* what the record is
    exists,   \* it is in Core
    record,   \* its points in Core
    active,   \* the users Core has as active
    req,      \* the pages and requests
    waiting,  \* posted requests no worker has accepted yet
    requests, \* number of pages opened
    elsewhere \* number of changes made outside these forms

vars == <<kind, exists, record, active, req, waiting, requests, elsewhere>>
-------------------------------------------------------------------------------
\* The parts of a record that handlers write apart or treat apart: an owner is one
\* user; each user is or is not an owner of a car; "setup" is all of an alarm but
\* its switch, "text" the text fields of a car or tag.
PointsOf == [alarm     |-> {"setup", "enabled"},
             satellite |-> {"name", "room", "owner", "followup"},
             group     |-> {"name", "members"},
             car       |-> {"text"} \cup Users,
             ble_tag   |-> {"text", "owner"},
             setting   |-> {"value"},
             links     |-> {"telegram", "entra", "residents", "webchat"}]

Kinds    == DOMAIN PointsOf
Points   == PointsOf[kind]
Switches == {"enabled", "followup"} \cup Users

\* Mutant: the button's label instead of the switch position.
FlippedToLabel(v) == IF v = "on" THEN "Aus" ELSE "An"

Flip(v) == IF v = "on" THEN "off" ELSE "on"

\* What a point may be set to.  No room, no satellites, no account, a car without a
\* name or a tag without an address or a label will do; no name, half an alarm will not.
Fits(p) ==
    CASE p \in Switches         -> {"on", "off"}
      [] p = "owner"            -> Users \cup {Nobody}
      [] p \in {"setup", "name"} -> Values
      [] p = "webchat"          -> Tokens
      [] p = "value"            -> Values \cup {Blank, Ragged, Nested}
      [] OTHER                  -> Values \cup {Blank}

\* What a record of kind k can hold: a satellite comes without a name, a user without a
\* chat token.
CanHold(k, p) ==
    IF p = "webchat" \/ (k = "satellite" /\ p = "name") THEN Fits(p) \cup {Blank} ELSE Fits(p)

Contents == {"on", "off"} \cup Users \cup {Nobody} \cup Values \cup Tokens
                \cup {Blank, Ragged, Nested}

ASSUME UsersAssumption ==
    \A k \in DOMAIN PointsOf \ {"car"} : Users \cap PointsOf[k] = {}
ASSUME TidyAssumption == Tidy \in Values
ASSUME RaggedAssumption ==
    /\ Ragged \notin {"on", "off", Nobody, Blank, Nested}
    /\ Ragged \notin Users \cup Values \cup Tokens
ASSUME OriginalsAssumption ==
    \A k \in Kinds : Originals[k] \subseteq {r \in [PointsOf[k] -> Contents] :
                                       \A p \in PointsOf[k] : r[p] \in CanHold(k, p)}

\* What each page can post.
OpsOf == [alarm     |-> {"toggle_alarm", "delete_alarm"},
          satellite |-> {"set_satellite_name", "set_satellite_room", "set_satellite_owner",
                         "set_satellite_followup", "delete_satellite"},
          group     |-> {"create_group", "save_group", "delete_group"},
          car       |-> {"save_car", "delete_car"},
          ble_tag   |-> {"edit_ble_tag", "delete_ble_tag"},
          setting   |-> {"update_setting"},
          links     |-> {"telegram_callback", "telegram_unlink", "entra_unlink",
                         "link_resident", "unlink_resident", "chat_authorize"}]

Ops     == UNION {OpsOf[k] : k \in Kinds}
Toggles == {"toggle_alarm", "set_satellite_followup"}

\* A running request's phase is the RPC its handler waits for.
RPCs == {"get_alarms", "update_alarm", "delete_alarm", "get_satellites",
         "set_satellite_display_name", "set_satellite_room", "set_satellite_owner",
         "set_satellite_followup", "delete_satellite", "create_group", "update_group",
         "set_group_satellites", "delete_group", "update_car", "delete_car",
         "update_ble_tag", "delete_ble_tag", "update_setting", "get_residents",
         "link_account", "unlink_account"}
Phases == {"idle", "page", "posted", "done", "failed"} \cup RPCs

\* entered: the inputs, as shown and then as sent; write: what the handler is going
\* to send to Core; hidden: users the page did not offer; raw: the setting is shown
\* as JSON; warned: a "danger" message was queued.
\* History: asked, the points the click was to change; foreign, the points others
\* changed since the values entered or written were read; blurred, the points the
\* page could not show as they were; refused, the points Core refused to change;
\* slipped, an earlier attempt was applied although it failed.
Requests == [phase : Phases, op : Ops \cup {"none"}, entered : [Points -> Contents],
             write : [Points -> Contents], hidden : SUBSET Users, raw : BOOLEAN,
             warned : BOOLEAN, asked : SUBSET Points, foreign : SUBSET Points,
             blurred : SUBSET Points, refused : SUBSET Points, slipped : BOOLEAN]

Nothing == [p \in Points |-> Blank]

Idle == [phase |-> "idle", op |-> "none", entered |-> Nothing, write |-> Nothing,
         hidden |-> {}, raw |-> FALSE, warned |-> FALSE, asked |-> {}, foreign |-> {},
         blurred |-> {}, refused |-> {}, slipped |-> FALSE]

Init ==
    /\ kind \in Kinds
    /\ exists = TRUE
    /\ record \in Originals[kind]
    /\ active = Users
    /\ req = [s \in Slots |-> Idle]
    /\ waiting = <<>>
    /\ requests = 0
    /\ elsewhere = 0

In(s, phase) == req[s].phase = phase
Running == {s \in Slots : req[s].phase \in RPCs}

\* The page that follows: of the form, what the click asked for is remembered.
Done(r) ==
    [r EXCEPT !.phase = "done", !.write = Nothing, !.blurred = {},
              !.entered = [p \in Points |-> IF p \in r.asked THEN @[p] ELSE Blank],
              !.foreign = @ \cap r.asked, !.refused = @ \cap r.asked]

\* An attempt is applied that fails; it matters for the retry of a toggle.
Slipped(r) == [r EXCEPT !.slipped = r.op \in Toggles]

\* The error page, after which the form can be sent again.
Failed(r) == [r EXCEPT !.phase = "failed", !.write = Nothing, !.warned = FALSE, !.refused = {}]

\* What others are told of a change: nothing, it only makes their values old.
News(t, changed) ==
    CASE In(t, "idle") -> req[t]
      [] In(t, "done") -> [req[t] EXCEPT !.foreign = @ \cup (changed \cap req[t].asked)]
      [] OTHER         -> [req[t] EXCEPT !.foreign = @ \cup changed]

\* Slot s goes on as r.
Goes(s, r) ==
    LET changed == IF exists' = exists THEN {p \in Points : record'[p] # record[p]} ELSE Points
    IN  req' = [t \in Slots |-> IF t = s THEN r ELSE News(t, changed)]

Core == <<exists, record>>
Rest == <<kind, active, requests, elsewhere>>
-------------------------------------------------------------------------------
(* The pages. *)

\* An owner is selected among the active users; another one shows as no owner.
SelectedOwner(v) == IF v \in active THEN v ELSE Nobody

\* Active users have a checkbox; leaving one out means the user is no owner.
Ticked(u) == IF u \in active THEN record[u] ELSE "off"

\* The value has no typed editor.
RawEditor(v) == v = Nested

Shown(p) ==
    CASE p = "owner"  -> SelectedOwner(record[p])
      [] p \in Users -> Ticked(p)
      [] OTHER        -> record[p]

\* Texts, list items, keys and values are stripped, blank items and keys are dropped,
\* of a repeated key the last value stays.
Tidied(v) == IF v = Ragged THEN Tidy ELSE v

\* What a handler makes of an input; the raw editor's JSON stays as it is.
Sent(r, p) == IF r.raw THEN r.entered[p] ELSE Tidied(r.entered[p])

\* GET of the page; one without the record can only create a group.  Slots are only
\* names: a page takes a fixed one of the free ones.
OpenPage(s) ==
    /\ In(s, "idle")
    /\ s = CHOOSE t \in Slots : In(t, "idle")
    /\ requests < MaxRequests
    /\ exists \/ kind = "group"
    /\ requests' = requests + 1
    /\ UNCHANGED <<Core, kind, active, waiting, elsewhere>>
    /\ Goes(s, IF exists
               THEN [Idle EXCEPT !.phase = "page", !.hidden = Users \ active,
                        !.entered = [p \in Points |-> Shown(p)],
                        !.raw = kind = "setting" /\ RawEditor(record["value"]),
                        !.blurred = {p \in Points : Tidied(Shown(p)) # record[p]}]
               ELSE [Idle EXCEPT !.phase = "page"])

\* The points a form has inputs for.
Edits(op) ==
    CASE op = "toggle_alarm"           -> {"enabled"}
      [] op = "set_satellite_followup" -> {"followup"}
      [] op = "set_satellite_name"     -> {"name"}
      [] op = "set_satellite_room"     -> {"room"}
      [] op = "set_satellite_owner"    -> {"owner"}
      [] op = "create_group"           -> {"name"}
      [] op \in {"telegram_callback", "telegram_unlink"} -> {"telegram"}
      [] op = "entra_unlink"           -> {"entra"}
      [] op \in {"link_resident", "unlink_resident"} -> {"residents"}
      [] op = "chat_authorize"         -> {"webchat"}
      [] op \in {"save_group", "save_car", "edit_ble_tag", "update_setting"} -> Points
      [] OTHER -> {}

\* What can be entered for a point.  A text input can be emptied, or typed in raggedly;
\* spaces alone stand for Blank, so "required" does not keep a group's name.
Choices(r, op, p) ==
    CASE op \in Toggles -> {Flip(r.entered[p])}
      [] op \in {"telegram_unlink", "entra_unlink", "unlink_resident", "chat_authorize"} -> {Blank}
      [] op \in {"telegram_callback", "link_resident"} -> Values
      [] p \in {"name", "text"} -> Values \cup {Blank, Ragged}
      [] p = "owner"    -> {Nobody} \cup (Users \ r.hidden)
      [] p \in r.hidden -> {"off"}
      [] p = "value" /\ ~r.raw -> Values \cup {Blank, Ragged}
      [] OTHER -> Fits(p)

Inputs(r, op) ==
    {w \in [Edits(op) -> UNION {Choices(r, op, p) : p \in Edits(op)}] :
        \A p \in Edits(op) : w[p] \in Choices(r, op, p)}

\* The form is changed and posted, or a button is pressed; a new group is asked for by
\* any name.
Click(s) ==
    LET r == req[s] IN
    /\ In(s, "page")
    /\ UNCHANGED <<Core, Rest>>
    /\ waiting' = Append(waiting, s)
    /\ \E op \in OpsOf[kind] :
         /\ kind = "group" /\ r.entered = Nothing => op = "create_group"
         /\ \E w \in Inputs(r, op) :
              Goes(s, [r EXCEPT !.phase = "posted", !.op = op, !.hidden = {},
                          !.entered = [p \in Points |-> IF p \in Edits(op) THEN w[p] ELSE @[p]],
                          !.asked = {p \in Edits(op) : op = "create_group" \/ w[p] # r.entered[p]}])

\* The same form is sent again after the error page.
Resubmit(s) ==
    /\ In(s, "failed")
    /\ UNCHANGED <<Core, Rest>>
    /\ waiting' = Append(waiting, s)
    /\ Goes(s, [req[s] EXCEPT !.phase = "posted"])

\* Another page is turned to.
Leave(s) ==
    /\ req[s].phase \in {"failed", "done"}
    /\ UNCHANGED <<Core, Rest, waiting>>
    /\ Goes(s, Idle)
-------------------------------------------------------------------------------
(* What handlers do. *)

\* A free worker accepts the longest waiting request, which goes on as r.
Accepts(s, r) ==
    /\ waiting # <<>>
    /\ s = Head(waiting)
    /\ Cardinality(Running) < Workers
    /\ waiting' = Tail(waiting)
    /\ UNCHANGED <<Core, Rest>>
    /\ Goes(s, r)

\* The handler gets as far as its first RPC, with the values the form sent.
Calls(s, rpc) ==
    In(s, "posted") /\ Accepts(s, [req[s] EXCEPT !.phase = rpc,
                                   !.write = [p \in Points |-> Sent(req[s], p)]])

Moves(r, next) == IF next = "done" THEN Done(r) ELSE [r EXCEPT !.phase = next]

\* An RPC that reads; the handler goes on as r if it finds the record, else it ends
\* without a message.
Reads(s, rpc, r) ==
    /\ In(s, rpc)
    /\ UNCHANGED <<Core, Rest, waiting>>
    /\ \/ exists /\ Goes(s, r)
       \/ ~exists /\ Goes(s, Done(req[s]))
       \/ Goes(s, Failed(req[s]))

\* Mutant: nobody is told.
RefusedSilently(r, points, reported) == [r EXCEPT !.refused = @ \cup points]

\* Core's answer ok = False: a message, or the result is ignored.
Refused(r, points, reported) ==
    [r EXCEPT !.refused = @ \cup points, !.warned = @ \/ reported]

\* An RPC that sets points: applied or refused, and answered or failed.
Sets(s, rpc, points, reported, next) ==
    LET r == req[s] IN
    /\ In(s, rpc)
    /\ UNCHANGED <<exists, Rest, waiting>>
    /\ \/ /\ exists
          /\ record' = [p \in Points |-> IF p \in points THEN r.write[p] ELSE record[p]]
          /\ Goes(s, Moves(r, next)) \/ Goes(s, Failed(Slipped(r)))
       \/ /\ record' = record
          /\ Goes(s, Moves(Refused(r, points, reported), next)) \/ Goes(s, Failed(r))

\* An RPC that deletes the record.
Deletes(s, rpc, reported) ==
    LET r == req[s] IN
    /\ In(s, rpc)
    /\ UNCHANGED <<record, Rest, waiting>>
    /\ \/ /\ exists
          /\ exists' = FALSE
          /\ Goes(s, Done(r)) \/ Goes(s, Failed(r))
       \/ /\ exists' = exists
          /\ Goes(s, Done(Refused(r, {}, reported))) \/ Goes(s, Failed(r))
===============================================================================
