------------------------------ MODULE RecordForms ------------------------------
(***************************************************************************)
(* The handlers behind the forms of me.py, satellites.py, groups.py,       *)
(* cars.py, ble_tags.py, settings.py and chat.py that change one record of *)
(* Core, the RPCs they make, and what else changes the record meanwhile.   *)
(* RecordRequests says how a request goes through page, queue and RPC.     *)
(***************************************************************************)
EXTENDS RecordRequests
-------------------------------------------------------------------------------
(* The RPCs of grpc_client.py: what each one carries to Core. *)

get_alarms(s, r)     == Reads(s, "get_alarms", r)
get_satellites(s, r) == Reads(s, "get_satellites", r)
update_alarm(s, reported) == Sets(s, "update_alarm", {"setup", "enabled"}, reported, "done")
delete_alarm_rpc(s, reported) == Deletes(s, "delete_alarm", reported)
set_satellite_display_name(s, reported) ==
    Sets(s, "set_satellite_display_name", {"name"}, reported, "done")
set_satellite_room_rpc(s, reported) == Sets(s, "set_satellite_room", {"room"}, reported, "done")
set_satellite_owner_rpc(s, reported) == Sets(s, "set_satellite_owner", {"owner"}, reported, "done")
set_satellite_followup_rpc(s, reported) ==
    Sets(s, "set_satellite_followup", {"followup"}, reported, "done")
delete_satellite_rpc(s, reported) == Deletes(s, "delete_satellite", reported)
update_group(s, reported, next) == Sets(s, "update_group", {"name"}, reported, next)
set_group_satellites(s, reported) ==
    Sets(s, "set_group_satellites", {"members"}, reported, "done")
delete_group_rpc(s, reported) == Deletes(s, "delete_group", reported)
update_car(s, reported) == Sets(s, "update_car", {"text"} \cup Users, reported, "done")
delete_car_rpc(s, reported) == Deletes(s, "delete_car", reported)
update_ble_tag(s, reported) == Sets(s, "update_ble_tag", {"text", "owner"}, reported, "done")
delete_ble_tag_rpc(s, reported) == Deletes(s, "delete_ble_tag", reported)
update_setting_rpc(s, reported) == Sets(s, "update_setting", {"value"}, reported, "done")
link_account(s, service, reported) == Sets(s, "link_account", {service}, reported, "done")
unlink_account(s, service, reported) == Sets(s, "unlink_account", {service}, reported, "done")

\* CreateGroup: Core refuses an id it has, and may refuse others.
create_group_rpc(s, reported) ==
    LET r == req[s] IN
    /\ In(s, "create_group")
    /\ UNCHANGED <<Rest, waiting>>
    /\ \/ /\ ~exists
          /\ exists' = TRUE
          /\ record' = [Nothing EXCEPT !["name"] = r.write["name"]]
          /\ Goes(s, Done(r)) \/ Goes(s, Failed(Slipped(r)))
       \/ /\ UNCHANGED Core
          /\ Goes(s, Done(Refused(r, {"name"}, reported))) \/ Goes(s, Failed(r))
-------------------------------------------------------------------------------
(* The handlers.  Each is all it does from the worker's acceptance to the answer. *)

By(s, op) == req[s].op = op

\* Nothing to send: the handler ends before any RPC.
Ends(s) == In(s, "posted") /\ Accepts(s, Done(req[s]))

\* Mutant: only the switch is sent, the rest is left to defaults.
NegatedAlone(s, p) ==
    [req[s] EXCEPT !.write = [q \in Points |-> IF q = p THEN Flip(record[q]) ELSE Tidy],
                   !.foreign = @ \cap {p}]

\* What is sent back by the handlers that negate the value they have just read.
Negated(s, p) ==
    [req[s] EXCEPT !.write = [record EXCEPT ![p] = Flip(@)], !.foreign = @ \cap {p}]

toggle_alarm(s) ==
    /\ By(s, "toggle_alarm")
    /\ \/ Calls(s, "get_alarms")
       \/ get_alarms(s, [Negated(s, "enabled") EXCEPT !.phase = "update_alarm"])
       \/ update_alarm(s, TRUE)

delete_alarm(s) ==
    /\ By(s, "delete_alarm")
    /\ \/ Calls(s, "get_alarms")
       \/ get_alarms(s, [req[s] EXCEPT !.phase = "delete_alarm"])
       \/ delete_alarm_rpc(s, FALSE)

set_satellite_room(s) ==
    /\ By(s, "set_satellite_room")
    /\ Calls(s, "set_satellite_room") \/ set_satellite_room_rpc(s, TRUE)

\* A blank name is dropped without a message.
set_satellite_name(s) ==
    /\ By(s, "set_satellite_name")
    /\ \/ req[s].entered["name"] = Blank /\ Ends(s)
       \/ req[s].entered["name"] # Blank /\ Calls(s, "set_satellite_display_name")
       \/ set_satellite_display_name(s, TRUE)

delete_satellite(s) ==
    By(s, "delete_satellite") /\ (Calls(s, "delete_satellite") \/ delete_satellite_rpc(s, TRUE))

set_satellite_owner(s) ==
    /\ By(s, "set_satellite_owner")
    /\ Calls(s, "set_satellite_owner") \/ set_satellite_owner_rpc(s, TRUE)

set_satellite_followup(s) ==
    /\ By(s, "set_satellite_followup")
    /\ \/ Calls(s, "get_satellites")
       \/ get_satellites(s, [Negated(s, "followup") EXCEPT !.phase = "set_satellite_followup"])
       \/ set_satellite_followup_rpc(s, TRUE)

\* The id is the slug of the name; the group followed here is the one of that slug.
create_group(s) ==
    /\ By(s, "create_group")
    /\ \/ req[s].entered["name"] = Blank /\ Ends(s)
       \/ req[s].entered["name"] # Blank /\ Calls(s, "create_group")
       \/ create_group_rpc(s, FALSE)

\* Mutant: the blank name is sent.
SaveGroupUnchecked(s) ==
    /\ By(s, "save_group")
    /\ \/ Calls(s, "update_group")
       \/ update_group(s, FALSE, "set_group_satellites")
       \/ set_group_satellites(s, FALSE)

\* A blank name is not sent; both results are ignored.
save_group(s) ==
    /\ By(s, "save_group")
    /\ \/ req[s].entered["name"] = Blank /\ Calls(s, "set_group_satellites")
       \/ req[s].entered["name"] # Blank /\ Calls(s, "update_group")
       \/ update_group(s, FALSE, "set_group_satellites")
       \/ set_group_satellites(s, FALSE)

delete_group(s) ==
    By(s, "delete_group") /\ (Calls(s, "delete_group") \/ delete_group_rpc(s, FALSE))

save_car(s) ==
    By(s, "save_car") /\ (Calls(s, "update_car") \/ update_car(s, TRUE))

delete_car(s) ==
    By(s, "delete_car") /\ (Calls(s, "delete_car") \/ delete_car_rpc(s, FALSE))

edit_ble_tag(s) ==
    By(s, "edit_ble_tag") /\ (Calls(s, "update_ble_tag") \/ update_ble_tag(s, TRUE))

delete_ble_tag(s) ==
    By(s, "delete_ble_tag") /\ (Calls(s, "delete_ble_tag") \/ delete_ble_tag_rpc(s, FALSE))

update_setting(s) ==
    By(s, "update_setting") /\ (Calls(s, "update_setting") \/ update_setting_rpc(s, TRUE))

\* The widget's answer may be forged or older than five minutes: a message.
telegram_callback(s) ==
    /\ By(s, "telegram_callback")
    /\ \/ In(s, "posted") /\ Accepts(s, Done([req[s] EXCEPT !.warned = TRUE]))
       \/ Calls(s, "link_account")
       \/ link_account(s, "telegram", TRUE)

\* "getrennt" is announced whatever Core answered.
telegram_unlink(s) ==
    By(s, "telegram_unlink") /\ (Calls(s, "unlink_account") \/ unlink_account(s, "telegram", FALSE))

entra_unlink(s) ==
    By(s, "entra_unlink") /\ (Calls(s, "unlink_account") \/ unlink_account(s, "entra", FALSE))

\* A resident Core does not know any more ends the request without a message.
link_resident(s) ==
    LET r == req[s] IN
    /\ By(s, "link_resident")
    /\ \/ Calls(s, "get_residents")
       \/ /\ In(s, "get_residents")
          /\ UNCHANGED <<Core, Rest, waiting>>
          /\ \/ Goes(s, [r EXCEPT !.phase = "link_account"])
             \/ Goes(s, Done(Refused(r, {"residents"}, FALSE)))
             \/ Goes(s, Failed(r))
       \/ link_account(s, "residents", FALSE)

unlink_resident(s) ==
    /\ By(s, "unlink_resident")
    /\ Calls(s, "unlink_account") \/ unlink_account(s, "residents", FALSE)

\* A new token for each request; the chat window stores it whatever Core answered.
chat_authorize(s) ==
    /\ By(s, "chat_authorize")
    /\ \/ /\ In(s, "posted")
          /\ \E token \in Tokens \ {record["webchat"]} :
               /\ \A t \in Slots \ {s} : req[t].entered["webchat"] # token
               /\ LET drawn == [req[s].entered EXCEPT !["webchat"] = token] IN
                  Accepts(s, [req[s] EXCEPT !.phase = "link_account", !.asked = {"webchat"},
                                 !.entered = drawn, !.write = drawn])
       \/ link_account(s, "webchat", FALSE)

Handler(s) ==
    \/ toggle_alarm(s) \/ delete_alarm(s)
    \/ set_satellite_room(s) \/ set_satellite_name(s) \/ delete_satellite(s)
    \/ set_satellite_owner(s) \/ set_satellite_followup(s)
    \/ create_group(s) \/ save_group(s) \/ delete_group(s)
    \/ save_car(s) \/ delete_car(s) \/ edit_ble_tag(s) \/ delete_ble_tag(s)
    \/ update_setting(s)
    \/ telegram_callback(s) \/ telegram_unlink(s) \/ entra_unlink(s)
    \/ link_resident(s) \/ unlink_resident(s) \/ chat_authorize(s)
-------------------------------------------------------------------------------
(* The surroundings. *)

\* Mutant: timeout = 0, which switches gunicorn's supervision off.
NoTimeout(s) == s \in {} /\ UNCHANGED vars

\* gunicorn kills a worker that has been silent for "timeout" seconds and starts
\* another one; the browser shows that the connection was reset.
KillWorker(s) ==
    /\ s \in Running
    /\ UNCHANGED <<Core, Rest, waiting>>
    /\ Goes(s, Failed(req[s]))

\* Core, a voice command or another form of this UI changes a point.
ChangedElsewhere ==
    /\ exists
    /\ elsewhere < MaxElsewhere
    /\ elsewhere' = elsewhere + 1
    /\ \E p \in Points : \E v \in Fits(p) \ {record[p]} :
         /\ record' = [record EXCEPT ![p] = v]
         /\ req' = [t \in Slots |-> News(t, {p})]
    /\ UNCHANGED <<kind, exists, active, waiting, requests>>

\* users.edit_user sets or clears "active".
UserActivation ==
    /\ kind \in {"satellite", "car", "ble_tag"}
    /\ elsewhere < MaxElsewhere
    /\ elsewhere' = elsewhere + 1
    /\ \E u \in Users : active' = IF u \in active THEN active \ {u} ELSE active \cup {u}
    /\ UNCHANGED <<kind, Core, req, waiting, requests>>

Next ==
    \/ \E s \in Slots : \/ OpenPage(s) \/ Click(s) \/ Resubmit(s) \/ Leave(s)
                       \/ Handler(s) \/ KillWorker(s)
    \/ ChangedElsewhere
    \/ UserActivation

Spec == Init /\ [][Next]_vars

\* A free worker accepts the next connection, and gunicorn's timeout always strikes.
\* Core owes nothing: an RPC has no deadline and may never be answered.
Fairness ==
    \A s \in Slots : /\ WF_vars(In(s, "posted") /\ Handler(s))
                     /\ WF_vars(KillWorker(s))

FairSpec == Spec /\ Fairness
-------------------------------------------------------------------------------
(* Properties. *)

\* Every variable has its type.
TypeOK ==
    /\ kind \in Kinds
    /\ exists \in BOOLEAN
    /\ record \in [Points -> Contents]
    /\ active \subseteq Users
    /\ req \in [Slots -> Requests]
    /\ waiting \in Seq(Slots)
    /\ requests \in Nat
    /\ elsewhere \in Nat

\* Whatever a form left empty, had spaces typed in or was sent twice, a handler stores
\* only what fits a point: never a blank name or half an alarm (a room, an address or
\* the satellites may be blank), and nothing ragged but from the raw editor.
StoresWhatFits ==
    [][\A s \in Slots : req'[s].phase # req[s].phase /\ exists' =>
          \A p \in Points : record'[p] # record[p] \/ ~exists =>
              record'[p] \in Fits(p) /\ (record'[p] = Ragged => req[s].raw)]_vars

\* No click has side effects: whatever is sent back unread, stale or twice, a
\* handler's step changes only points its click was to change, or that others
\* changed since they were read, or that the page could not show (an inactive owner,
\* a ragged setting).
ChangesWereAsked ==
    [][\A s \in Slots : req'[s].phase # req[s].phase /\ exists /\ exists' =>
          \A p \in Points : record'[p] # record[p] =>
              p \in req[s].asked \cup req[s].foreign \cup req[s].blurred]_vars

\* The handlers that ignore Core's answer.
Ignoring == {"create_group", "save_group", "telegram_unlink", "entra_unlink", "link_resident",
             "unlink_resident", "chat_authorize"}

Unheard(r) == IF r.op \in Ignoring THEN r.refused ELSE {}

\* A click that ends without a warning holds, after any retries: what it asked for is
\* in Core, exactly as entered but for the tidying of typed inputs.  The exceptions are
\* points others changed since the page was read, a refusal that one of the handlers
\* above ignores (no other may), a blank name, and a retried toggle that undid its own
\* first attempt.
ClicksHold ==
    \A s \in Slots : LET r == req[s] IN
        In(s, "done") /\ exists /\ ~r.warned /\ ~(r.op \in Toggles /\ r.slipped) =>
            \A p \in r.asked \ (r.foreign \cup Unheard(r)) :
                record[p] = Sent(r, p) \/ (p = "name" /\ r.entered[p] = Blank)

\* A Core that never answers does not hang the UI for good: every posted request
\* comes to an end, although all workers may be waiting for Core.
EveryClickAnswered ==
    \A s \in Slots : In(s, "posted") ~> (In(s, "done") \/ In(s, "failed"))

===============================================================================
