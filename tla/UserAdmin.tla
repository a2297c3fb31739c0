------------------------------ MODULE UserAdmin ------------------------------
(***************************************************************************)
(* Two people write the same user's record: an administrator through the   *)
(* edit form (users.edit_user), which sends every field back as it was     *)
(* shown unless changed, and through three separate RPCs; the user through *)
(* the password form (me.update_my_password), which reads the record and   *)
(* sends it back with a new password.  There is no version check, Core may *)
(* refuse any of the RPCs, an RPC may fail with or without having been     *)
(* applied, and whoever sees the error page may send the form again.       *)
(*                                                                         *)
(* The record of one user: requests about other users write other records. *)
(* "profile" stands for display_name, email, type and active, which        *)
(* update_user always carries together.                                    *)
(***************************************************************************)
EXTENDS Naturals

CONSTANTS
    Slots,       \* open forms and requests under way
    Values,      \* values of a field
    Blank,       \* an input left empty
    Original,    \* the record at the start
    MaxRequests  \* bound: forms opened and passwords sent

ASSUME BlankAssumption == Blank \notin Values
ASSUME OriginalAssumption ==
    Original \in [{"profile", "password", "trust", "sysmsg"} -> Values]
ASSUME BoundAssumption == MaxRequests \in Nat

VARIABLES
    exists,   \* the user is in Core
    record,   \* the user's record in Core
    req,      \* the requests
    requests  \* number of requests begun

vars == <<exists, record, req, requests>>
-------------------------------------------------------------------------------
Fields == {"profile", "password", "trust", "sysmsg"}
Phases == {"idle", "form", "arrived", "update", "trust", "sysmsg", "done", "failed"}
Kinds  == {"edit", "password"}
Inputs == Values \cup {Blank}

\* entered: the inputs of the form, as shown and then as sent; write: what the
\* handler is going to send to Core; warned: a "danger" message was queued.
\* History: asked, the fields its author set to something else than shown;
\* foreign, the fields others changed since the values entered or written were read;
\* refused, the fields whose own RPC Core refused, of which nobody is told.
Requests == [phase : Phases, kind : Kinds, entered : [Fields -> Inputs],
             write : [Fields -> Inputs], asked : SUBSET Fields,
             foreign : SUBSET Fields, refused : SUBSET {"trust", "sysmsg"}, warned : BOOLEAN]

Nothing == [f \in Fields |-> Blank]

Idle == [phase |-> "idle", kind |-> "edit", entered |-> Nothing, write |-> Nothing,
         asked |-> {}, foreign |-> {}, refused |-> {}, warned |-> FALSE]

Init ==
    /\ exists = TRUE
    /\ record = Original
    /\ req = [s \in Slots |-> Idle]
    /\ requests = 0

\* The error page: what the handler had read is gone, the form can be sent again.
Failed(r) ==
    [r EXCEPT !.phase = "failed", !.write = Nothing, !.refused = {}, !.warned = FALSE]

\* The answer to a request that came through: the form is gone.
Done(r) == [r EXCEPT !.phase = "done", !.entered = Nothing, !.asked = {}]

In(s, phase) == req[s].phase = phase

\* Slot s goes on as r; what changed in the record is news to every other slot.
Goes(s, r) ==
    LET changed == {f \in Fields : record'[f] # record[f]} IN
    req' = [t \in Slots |->
               IF t = s THEN r
               ELSE IF In(t, "idle") THEN req[t]
               ELSE [req[t] EXCEPT !.foreign = @ \cup changed]]
-------------------------------------------------------------------------------
(* The forms. *)

\* GET /users/<id>/edit: everything but the password is filled in.
OpenForm(s) ==
    /\ In(s, "idle")
    /\ UNCHANGED <<exists, record>>
    /\ exists
    /\ requests < MaxRequests
    /\ requests' = requests + 1
    /\ Goes(s, [Idle EXCEPT !.phase = "form", !.entered = [record EXCEPT !["password"] = Blank]])

\* The administrator changes what they like; the trust level may be emptied.
Submit(s) ==
    /\ In(s, "form")
    /\ UNCHANGED <<exists, record, requests>>
    /\ \E w \in [Fields -> Inputs] :
         /\ w["profile"] # Blank /\ w["sysmsg"] # Blank
         /\ Goes(s, [req[s] EXCEPT !.phase = "arrived", !.entered = w,
                        !.asked = {f \in Fields : w[f] \notin {Blank, req[s].entered[f]}}])

\* POST /me/password; empty and unequal passwords are answered without any RPC.
SubmitPassword(s) ==
    /\ In(s, "idle")
    /\ UNCHANGED <<exists, record>>
    /\ requests < MaxRequests
    /\ requests' = requests + 1
    /\ \E v \in Values :
         Goes(s, [Idle EXCEPT !.phase = "arrived", !.kind = "password", !.asked = {"password"},
                              !.entered = [Nothing EXCEPT !["password"] = v]])

\* The same form is sent again after the error page.
Resubmit(s) ==
    /\ In(s, "failed")
    /\ UNCHANGED <<exists, record, requests>>
    /\ Goes(s, [req[s] EXCEPT !.phase = "arrived"])

\* The page is left.
Leave(s) ==
    /\ req[s].phase \in {"form", "failed", "done"}
    /\ UNCHANGED <<exists, record, requests>>
    /\ Goes(s, Idle)
-------------------------------------------------------------------------------
(* The handlers. *)

\* The fields the handler takes from the record it has just read.
TakenFrom(r) ==
    IF r.kind = "password" THEN {"profile"}
    ELSE {f \in {"trust"} : r.entered[f] = Blank}

\* Mutant: an empty trust level becomes a default.
FilledWithDefault(r, found) ==
    [f \in Fields |-> IF f \in TakenFrom(r) THEN CHOOSE v \in Values : TRUE ELSE r.entered[f]]

\* What is sent to Core, given the record found.
Filled(r, found) ==
    [f \in Fields |-> IF f \in TakenFrom(r) THEN found[f] ELSE r.entered[f]]

\* get_users; a missing user ends the request, the edit form's without a message.
Find(s) ==
    LET r == req[s] IN
    /\ In(s, "arrived")
    /\ UNCHANGED <<exists, record, requests>>
    /\ \/ /\ exists
          /\ Goes(s, [r EXCEPT !.phase = "update", !.write = Filled(r, record),
                               !.foreign = @ \ TakenFrom(r), !.warned = FALSE])
       \/ /\ ~exists
          /\ Goes(s, [Done(r) EXCEPT !.warned = (r.kind = "password")])
       \/ Goes(s, Failed(r))

\* Mutant: an empty input is stored.
StoredBlank(r, fields) ==
    record' = [f \in Fields |-> IF f \in fields THEN r.write[f] ELSE record[f]]

\* Core takes the fields over; an empty password means no change.
Stored(r, fields) ==
    record' = [f \in Fields |->
                  IF f \in fields /\ r.write[f] # Blank THEN r.write[f] ELSE record[f]]

\* Mutant: a refused update ends like an accepted one.
AfterUpdateSilent(r, ok) ==
    IF r.kind = "edit" THEN [r EXCEPT !.phase = "trust"] ELSE Done(r)

\* A refusal is reported, and the edit goes on with the other two RPCs.
AfterUpdate(r, ok) ==
    LET reported == [r EXCEPT !.warned = ~ok] IN
    IF r.kind = "edit" THEN [reported EXCEPT !.phase = "trust"] ELSE Done(reported)

\* update_user; Core may refuse a user that exists, and refuses one that does not.
Update(s) ==
    LET r == req[s] IN
    /\ In(s, "update")
    /\ \/ /\ exists
          /\ Stored(r, {"profile", "password"})
          /\ Goes(s, AfterUpdate(r, TRUE)) \/ Goes(s, Failed(r))
       \/ /\ record' = record
          /\ Goes(s, AfterUpdate(r, FALSE)) \/ Goes(s, Failed(r))
    /\ UNCHANGED <<exists, requests>>

\* One of the two RPCs that set a single field.  Core may refuse either, a user that
\* exists or not; the result is ignored, so the handler goes on the same way.
SetField(s, field, r) ==
    /\ In(s, field)
    /\ \/ /\ exists
          /\ Stored(req[s], {field})
          /\ Goes(s, r) \/ Goes(s, Failed(req[s]))
       \/ /\ record' = record
          /\ Goes(s, [r EXCEPT !.refused = @ \cup {field}]) \/ Goes(s, Failed(req[s]))
    /\ UNCHANGED <<exists, requests>>

SetTrustLevel(s) == SetField(s, "trust", [req[s] EXCEPT !.phase = "sysmsg"])
SetSystemMessages(s) == SetField(s, "sysmsg", Done(req[s]))

\* delete_user of some administrator.
Delete ==
    /\ exists
    /\ exists' = FALSE
    /\ UNCHANGED <<record, req, requests>>

Next ==
    \/ \E s \in Slots :
          \/ OpenForm(s) \/ Submit(s) \/ SubmitPassword(s) \/ Resubmit(s) \/ Leave(s)
          \/ Find(s) \/ Update(s) \/ SetTrustLevel(s) \/ SetSystemMessages(s)
    \/ Delete

Spec == Init /\ [][Next]_vars
-------------------------------------------------------------------------------
(* Properties. *)

\* Every variable has its type: nothing but real values reaches Core.
TypeOK ==
    /\ exists \in BOOLEAN
    /\ record \in [Fields -> Values]
    /\ req \in [Slots -> Requests]
    /\ requests \in Nat

Sent(kind) == IF kind = "edit" THEN Fields ELSE {"profile", "password"}

\* A save that ends without a warning has stored every field it sent, through all
\* three RPCs and any number of retries, except fields others changed since, a user
\* deleted meanwhile, and a trust level or message flag Core refused: that is the one
\* loss edit_user is silent about.  What update_user carries is never lost silently.
SilentMeansStored ==
    \A s \in Slots : In(s, "done") /\ ~req[s].warned /\ exists =>
        \A f \in Sent(req[s].kind) \ (req[s].foreign \cup req[s].refused) :
            req[s].write[f] \in {Blank, record[f]}

\* No save undoes what another one stored unless the two overlapped: a request
\* changes a field its author left alone only if somebody else changed that field
\* since the form was shown (for what the handler fills in: since it read the record).
UndoneOnlyByOverlap ==
    [][\A s \in Slots : req'[s].phase # req[s].phase =>
          \A f \in Fields : record'[f] # record[f] => f \in req[s].asked \cup req[s].foreign]_vars

===============================================================================
