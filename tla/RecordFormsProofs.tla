--------------------------- MODULE RecordFormsProofs ---------------------------
(***************************************************************************)
(* Proofs about RecordForms.  The invariant says of each request what its  *)
(* page, its form and its handler still know: an input that was neither    *)
(* changed by the user nor touched by others is what Core holds (Shown),   *)
(* a handler carries what was entered, tidied (Carried), or, if it negates, *)
(* what it has read (Negates), and what a finished click asked for holds    *)
(* (Held).                                                                 *)
(***************************************************************************)
EXTENDS RecordForms, TLAPS

\* There is a form, or a handler at work with it.
Live(r) == r.phase \notin {"idle", "done"}

\* v may be entered for p; of a handler's own draw nothing is entered.
Enterable(p, v) ==
    v \in Fits(p) \/ (p = "name" /\ v = Blank) \/ (p \in {"name", "text"} /\ v = Ragged)

\* A page has no click yet, a click asks for points of its form.
ClickedOn(r) ==
    /\ r.phase = "page" => /\ r.op = "none" /\ r.asked = {}
                           /\ \/ kind = "group" /\ r.entered = Nothing
                              \/ \A p \in Points : r.entered[p] \in CanHold(kind, p)
                           /\ r.blurred \cap {"enabled", "followup"} = {}
    /\ Live(r) => r.raw = FALSE \/ kind = "setting"
    /\ Live(r) /\ r.phase # "page" =>
          /\ r.op \in OpsOf[kind]
          /\ r.asked \subseteq Edits(r.op)
          /\ r.op # "chat_authorize" => \A p \in Edits(r.op) : Enterable(p, r.entered[p])

\* Outside the raw editor, what is ragged was shown so or typed in.
Combed(r) ==
    Live(r) /\ ~r.raw =>
        \A p \in Points : r.entered[p] # Ragged \/ p \in r.blurred \cup r.asked

\* What nobody touched is in Core as it stands in the form.
ShownStill(r, rec, ex) ==
    Live(r) /\ ex /\ r.op \notin Toggles \cup {"create_group"} =>
        \A p \in Points \ (r.asked \cup r.foreign \cup r.blurred) : r.entered[p] = rec[p]

\* A handler that does not negate sends what was entered, tidied, and that fits; the
\* blank name of save_group is in write, but not sent.
Carried(r) ==
    r.phase \in RPCs /\ r.op \notin Toggles =>
        /\ \A p \in Points : r.write[p] \in {r.entered[p], Sent(r, p)}
        /\ \A p \in Edits(r.op) : r.write[p] = Sent(r, p)
        /\ \A p \in Edits(r.op) \ {"name"} : r.write[p] \in Fits(p)

\* The RPCs that carry a name are reached with one only.
Named(r) ==
    r.phase \in {"update_group", "create_group", "set_satellite_display_name"} =>
        r.write["name"] \in Fits("name")

\* A toggle asks for the other position than Core holds, ...
TogglesAway(r, rec, ex) ==
    Live(r) /\ r.op \in Toggles =>
        /\ r.asked = Edits(r.op)
        /\ \A p \in Edits(r.op) :
              /\ r.entered[p] \in {"on", "off"}
              /\ ex /\ ~r.slipped /\ p \notin r.foreign => rec[p] = Flip(r.entered[p])

\* ... and its handler sends that, and the rest as it has read it.
Negates(r, rec, ex) ==
    r.op \in Toggles /\ r.phase \in {"update_alarm", "set_satellite_followup"} =>
        /\ \A p \in Points : /\ r.write[p] \in CanHold(kind, p)
                             /\ ex /\ p \notin r.asked \cup r.foreign => r.write[p] = rec[p]
        /\ \A p \in Edits(r.op) :
              ex /\ ~r.slipped /\ p \notin r.foreign => r.write[p] = r.entered[p]

\* Between its two RPCs a save has stored the name.
HalfSaved(r, rec, ex) ==
    r.phase = "set_group_satellites" /\ ex /\ "name" \in r.asked \ (r.foreign \cup Unheard(r)) =>
        rec["name"] = Sent(r, "name") \/ r.entered["name"] = Blank

\* ClicksHold of one request.
Held(r, rec, ex) ==
    r.phase = "done" /\ ex /\ ~r.warned /\ ~(r.op \in Toggles /\ r.slipped) =>
        \A p \in r.asked \ (r.foreign \cup Unheard(r)) :
            rec[p] = Sent(r, p) \/ (p = "name" /\ r.entered[p] = Blank)

Sound(r, rec, ex) ==
    /\ ClickedOn(r)
    /\ Combed(r)
    /\ ShownStill(r, rec, ex)
    /\ Carried(r)
    /\ Named(r)
    /\ TogglesAway(r, rec, ex)
    /\ Negates(r, rec, ex)
    /\ HalfSaved(r, rec, ex)
    /\ Held(r, rec, ex)

\* Core's record is one of its kind.
RecordHolds == \A p \in Points : record[p] \in CanHold(kind, p)

IInv ==
    /\ TypeOK
    /\ RecordHolds
    /\ \A s \in Slots : Sound(req[s], record, exists)
-------------------------------------------------------------------------------
(* The other requests. *)

\* A request that is told of every change stays sound.
LEMMA ToldKeeps ==
    ASSUME NEW r \in Requests, NEW q \in Requests, NEW changed \in SUBSET Points,
           NEW rec, NEW ex, NEW new, NEW there, Sound(r, rec, ex),
           \/ there = ex /\ \A p \in Points \ changed : new[p] = rec[p]
           \/ changed = Points,
           /\ q.phase = r.phase /\ q.op = r.op /\ q.entered = r.entered /\ q.write = r.write
           /\ q.hidden = r.hidden /\ q.raw = r.raw /\ q.warned = r.warned /\ q.asked = r.asked
           /\ q.blurred = r.blurred /\ q.refused = r.refused /\ q.slipped = r.slipped
           /\ r.foreign \subseteq q.foreign,
           Live(r) => changed \subseteq q.foreign,
           r.phase = "done" => changed \cap r.asked \subseteq q.foreign
    PROVE  Sound(q, new, there)
  <1> r.asked \subseteq Points
    BY DEF Requests
  <1>1. ClickedOn(q) /\ Combed(q) /\ Carried(q) /\ Named(q)
    BY DEF Sound, ClickedOn, Combed, Carried, Named, Live, Sent
  <1>2. ShownStill(q, new, there)
    BY DEF Sound, ShownStill, Live
  <1>3. Edits(r.op) \subseteq Points \/ r.op \notin Toggles \/ ~Live(r)
    BY DEF Sound, TogglesAway
  <1>4. TogglesAway(q, new, there)
    BY <1>3 DEF Sound, TogglesAway, Live
  <1>5. Negates(q, new, there)
    BY <1>3 DEF Sound, Negates, Live
  <1>6. HalfSaved(q, new, there)
    BY DEF Sound, HalfSaved, Live, Sent, Unheard
  <1>7. Held(q, new, there)
    BY DEF Sound, Held, Sent, Unheard
  <1>8. QED
    BY <1>1, <1>2, <1>4, <1>5, <1>6, <1>7 DEF Sound

\* So does the one News makes of it.
LEMMA NewsKeeps ==
    ASSUME NEW t \in Slots, req[t] \in Requests, NEW changed \in SUBSET Points,
           NEW rec, NEW ex, NEW new, NEW there, Sound(req[t], rec, ex),
           \/ there = ex /\ \A p \in Points \ changed : new[p] = rec[p]
           \/ changed = Points
    PROVE  News(t, changed) \in Requests /\ Sound(News(t, changed), new, there)
  <1>1. PICK r \in Requests : r = req[t]
    OBVIOUS
  <1>2. PICK q : q = News(t, changed)
    OBVIOUS
  <1>3. CASE r.phase = "idle"
    <2>1. q = r
      BY <1>1, <1>2, <1>3 DEF News, In
    <2>2. Sound(q, new, there)
      BY <1>1, <1>3, <2>1, ToldKeeps DEF Live
    <2>3. QED
      BY <1>2, <2>1, <2>2
  <1>4. CASE r.phase = "done"
    <2>1. q = [r EXCEPT !.foreign = r.foreign \cup (changed \cap r.asked)]
      BY <1>1, <1>2, <1>4 DEF News, In
    <2>2. q \in Requests /\ q.foreign = r.foreign \cup (changed \cap r.asked)
      BY <2>1 DEF Requests
    <2>3. /\ q.phase = r.phase /\ q.op = r.op /\ q.entered = r.entered /\ q.write = r.write
          /\ q.hidden = r.hidden /\ q.raw = r.raw /\ q.warned = r.warned /\ q.asked = r.asked
          /\ q.blurred = r.blurred /\ q.refused = r.refused /\ q.slipped = r.slipped
      BY <2>1 DEF Requests
    <2>4. Sound(q, new, there)
      BY <1>1, <1>4, <2>2, <2>3, ToldKeeps DEF Live
    <2>5. QED
      BY <1>2, <2>2, <2>4
  <1>5. CASE r.phase \notin {"idle", "done"}
    <2>1. q = [r EXCEPT !.foreign = r.foreign \cup changed]
      BY <1>1, <1>2, <1>5 DEF News, In
    <2>2. q \in Requests /\ q.foreign = r.foreign \cup changed
      BY <2>1 DEF Requests
    <2>3. /\ q.phase = r.phase /\ q.op = r.op /\ q.entered = r.entered /\ q.write = r.write
          /\ q.hidden = r.hidden /\ q.raw = r.raw /\ q.warned = r.warned /\ q.asked = r.asked
          /\ q.blurred = r.blurred /\ q.refused = r.refused /\ q.slipped = r.slipped
      BY <2>1 DEF Requests
    <2>4. Sound(q, new, there)
      BY <1>1, <1>5, <2>2, <2>3, ToldKeeps DEF Live
    <2>5. QED
      BY <1>2, <2>2, <2>4
  <1>6. QED
    BY <1>3, <1>4, <1>5

\* The points depend on the kind only, which never changes.
LEMMA SoundNext ==
    ASSUME kind' = kind, NEW s \in Slots, Sound(req'[s], record', exists')
    PROVE  Sound(req[s], record, exists)'
  <1>1. ClickedOn(req[s])'
    BY DEF Sound, ClickedOn, Live, Edits, Points, Nothing, Enterable, Fits, CanHold
  <1>2. Combed(req[s])' /\ ShownStill(req[s], record, exists)'
    BY DEF Sound, Combed, ShownStill, Live, Points
  <1>3. Carried(req[s])' /\ Named(req[s])'
    BY DEF Sound, Carried, Named, Edits, Points, Fits, Sent
  <1>4. TogglesAway(req[s], record, exists)'
    BY DEF Sound, TogglesAway, Live, Edits, Points
  <1>5. Negates(req[s], record, exists)'
    BY DEF Sound, Negates, Edits, Points, Fits, CanHold
  <1>6. HalfSaved(req[s], record, exists)' /\ Held(req[s], record, exists)'
    BY DEF Sound, HalfSaved, Held, Sent, Unheard
  <1>7. QED
    BY <1>1, <1>2, <1>3, <1>4, <1>5, <1>6 DEF Sound

LEMMA InvNext ==
    ASSUME kind \in Kinds, kind' = kind, exists' \in BOOLEAN, record' \in [Points -> Contents],
           active' \subseteq Users, req' \in [Slots -> Requests], waiting' \in Seq(Slots),
           requests' \in Nat, elsewhere' \in Nat,
           \A p \in Points : record'[p] \in CanHold(kind, p),
           \A s \in Slots : Sound(req'[s], record', exists')
    PROVE  IInv'
  <1>1. TypeOK'
    BY DEF TypeOK, Requests, Points
  <1>2. RecordHolds'
    BY DEF RecordHolds, Points, CanHold, Fits
  <1>3. \A s \in Slots : Sound(req[s], record, exists)'
    BY SoundNext
  <1>4. QED
    BY <1>1, <1>2, <1>3 DEF IInv

\* A step of one slot needs to be looked at in that slot only.
LEMMA GoesKeeps ==
    ASSUME IInv, NEW s \in Slots, NEW r, r \in Requests, Goes(s, r), kind' = kind,
           exists' \in BOOLEAN, record' \in [Points -> Contents], active' = active,
           waiting' \in Seq(Slots), requests' \in Nat, elsewhere' = elsewhere,
           \A p \in Points : record'[p] \in CanHold(kind, p), Sound(r, record', exists')
    PROVE  IInv'
  <1> DEFINE changed == IF exists' = exists THEN {p \in Points : record'[p] # record[p]} ELSE Points
  <1>1. req' = [t \in Slots |-> IF t = s THEN r ELSE News(t, changed)]
    BY DEF Goes
  <1>2. changed \in SUBSET Points
    OBVIOUS
  <1>3. \/ exists' = exists /\ \A p \in Points \ changed : record'[p] = record[p]
        \/ changed = Points
    OBVIOUS
  <1> HIDE DEF changed
  <1>4. ASSUME NEW t \in Slots
        PROVE  req'[t] \in Requests /\ Sound(req'[t], record', exists')
    <2>1. req[t] \in Requests /\ Sound(req[t], record, exists)
      BY DEF IInv, TypeOK
    <2>2. CASE t = s
      BY <1>1, <2>2
    <2>3. CASE t # s
      <3>1. req'[t] = News(t, changed)
        BY <1>1, <2>3
      <3>2. News(t, changed) \in Requests /\ Sound(News(t, changed), record', exists')
        BY <1>2, <1>3, <2>1, NewsKeeps
      <3>3. QED
        BY <3>1, <3>2
    <2>4. QED
      BY <2>2, <2>3
  <1>5. req' \in [Slots -> Requests]
    BY <1>1, <1>4
  <1>6. QED
    BY <1>4, <1>5, InvNext DEF IInv, TypeOK
-------------------------------------------------------------------------------
(* Where a request can go. *)

LEMMA IdleSound ==
    ASSUME NEW rec, NEW ex
    PROVE  Idle \in Requests /\ Sound(Idle, rec, ex)
  <1>1. Nothing \in [Points -> Contents]
    BY DEF Nothing, Contents
  <1>2. Idle \in Requests
    BY <1>1 DEF Idle, Requests, Phases
  <1>3. Idle.phase = "idle" /\ Idle.op = "none"
    BY DEF Idle
  <1>4. "idle" \notin RPCs /\ "none" \notin Toggles
    BY DEF RPCs, Toggles
  <1>5. QED
    BY <1>2, <1>3, <1>4 DEF Sound, ClickedOn, Combed, ShownStill, Carried, Named, TogglesAway,
         Negates, HalfSaved, Held, Live

\* The page that follows remembers no more than ClicksHold is about.
LEMMA DoneSound ==
    ASSUME NEW r \in Requests, NEW rec, NEW ex,
           ex /\ ~r.warned /\ ~(r.op \in Toggles /\ r.slipped) =>
               \A p \in r.asked \ (r.foreign \cup Unheard(r)) :
                   rec[p] = Sent(r, p) \/ (p = "name" /\ r.entered[p] = Blank)
    PROVE  Done(r) \in Requests /\ Sound(Done(r), rec, ex)
  <1>1. PICK q : q = Done(r)
    OBVIOUS
  <1>2. Nothing \in [Points -> Contents] /\ Blank \in Contents
    BY DEF Nothing, Contents
  <1>3. q \in Requests
    BY <1>1, <1>2 DEF Done, Requests, Phases
  <1>4. /\ q.phase = "done" /\ q.op = r.op /\ q.warned = r.warned /\ q.asked = r.asked
        /\ q.slipped = r.slipped /\ q.raw = r.raw
        /\ q.foreign = r.foreign \cap r.asked /\ q.refused = r.refused \cap r.asked
        /\ q.entered = [p \in Points |-> IF p \in r.asked THEN r.entered[p] ELSE Blank]
    BY <1>1 DEF Done, Requests
  <1>5. r.asked \subseteq Points
    BY DEF Requests
  <1>sent. \A p \in r.asked : q.entered[p] = r.entered[p] /\ Sent(q, p) = Sent(r, p)
    BY <1>4, <1>5 DEF Sent
  <1>heard. r.asked \cap Unheard(r) \subseteq Unheard(q)
    BY <1>4 DEF Unheard
  <1>6. Held(q, rec, ex)
    BY <1>4, <1>sent, <1>heard DEF Held
  <1>7. "done" \notin RPCs
    BY DEF RPCs
  <1>8. QED
    BY <1>1, <1>3, <1>4, <1>6, <1>7 DEF Sound, ClickedOn, Combed, ShownStill, Carried, Named,
         TogglesAway, Negates, HalfSaved, Live

\* What nobody touched is sent as it stands in the form and in Core.
LEMMA UntouchedIsSent ==
    ASSUME NEW r \in Requests, r.phase \in RPCs, NEW rec, NEW ex, Sound(r, rec, ex), ex,
           r.op \notin Toggles \cup {"create_group"}
    PROVE  \A p \in Points \ (r.asked \cup r.foreign \cup r.blurred) :
               r.write[p] = r.entered[p] /\ rec[p] = r.entered[p]
  <1> SUFFICES ASSUME NEW p \in Points \ (r.asked \cup r.foreign \cup r.blurred)
               PROVE  r.write[p] = r.entered[p] /\ rec[p] = r.entered[p]
    OBVIOUS
  <1>1. Live(r)
    BY DEF Live, RPCs
  <1>2. rec[p] = r.entered[p]
    BY <1>1 DEF Sound, ShownStill
  <1>3. r.raw \/ r.entered[p] # Ragged
    BY <1>1 DEF Sound, Combed
  <1>4. Sent(r, p) = r.entered[p]
    BY <1>3 DEF Sent, Tidied
  <1>5. r.write[p] \in {r.entered[p], Sent(r, p)}
    BY DEF Sound, Carried
  <1>6. QED
    BY <1>2, <1>4, <1>5

\* The error page keeps the form.  An applied attempt that failed has either slipped, if
\* it was a toggle, or stored what was entered.
LEMMA FailedSound ==
    ASSUME NEW r \in Requests, r.phase \in RPCs, NEW rec, NEW ex, NEW new, Sound(r, rec, ex)
    PROVE  /\ Failed(r) \in Requests
           /\ Sound(Failed(r), rec, ex)
           /\ Failed(Slipped(r)) \in Requests
           /\ (\A p \in Points : new[p] = rec[p] \/ new[p] = r.write[p]) =>
                  Sound(Failed(Slipped(r)), new, ex)
  <1>1. PICK q : q = Failed(r)
    OBVIOUS
  <1>2. PICK u : u = Failed(Slipped(r))
    OBVIOUS
  <1>3. Nothing \in [Points -> Contents]
    BY DEF Nothing, Contents
  <1>4. r.phase \notin {"idle", "page", "posted", "done", "failed"} /\ "failed" \notin RPCs
    BY DEF RPCs
  <1>5. /\ q \in Requests
        /\ q.phase = "failed" /\ q.op = r.op /\ q.entered = r.entered /\ q.asked = r.asked
        /\ q.foreign = r.foreign /\ q.blurred = r.blurred /\ q.raw = r.raw
        /\ q.slipped = r.slipped
    BY <1>1, <1>3 DEF Failed, Requests, Phases
  <1>6. PICK w : w = Slipped(r)
    OBVIOUS
  <1>7. /\ w \in Requests
        /\ w.phase = r.phase /\ w.op = r.op /\ w.entered = r.entered /\ w.asked = r.asked
        /\ w.foreign = r.foreign /\ w.blurred = r.blurred /\ w.raw = r.raw
        /\ w.slipped = (r.op \in Toggles)
    <2> DEFINE b == r.op \in Toggles
    <2>1. b \in BOOLEAN /\ w = [r EXCEPT !.slipped = b]
      BY <1>6 DEF Slipped
    <2> HIDE DEF b
    <2>2. /\ w \in Requests
          /\ w.phase = r.phase /\ w.op = r.op /\ w.entered = r.entered /\ w.asked = r.asked
          /\ w.foreign = r.foreign /\ w.blurred = r.blurred /\ w.raw = r.raw
          /\ w.slipped = b
      BY <2>1 DEF Requests
    <2>3. QED
      BY <2>2 DEF b
  <1>8. u = Failed(w)
    BY <1>2, <1>6
  <1>9. /\ u \in Requests
        /\ u.phase = "failed" /\ u.op = r.op /\ u.entered = r.entered /\ u.asked = r.asked
        /\ u.foreign = r.foreign /\ u.blurred = r.blurred /\ u.raw = r.raw
        /\ u.slipped = (r.op \in Toggles)
    BY <1>3, <1>7, <1>8 DEF Failed, Requests, Phases
  <1>10. ClickedOn(q) /\ Combed(q) /\ ClickedOn(u) /\ Combed(u)
    BY <1>4, <1>5, <1>9 DEF Sound, ClickedOn, Combed, Live
  <1>11. Sound(q, rec, ex)
    BY <1>4, <1>5, <1>10 DEF Sound, ShownStill, Carried, Named, TogglesAway, Negates, HalfSaved,
         Held, Live
  <1>12. ASSUME \A p \in Points : new[p] = rec[p] \/ new[p] = r.write[p]
         PROVE  Sound(u, new, ex)
    <2>1. ShownStill(u, new, ex)
      <3>1. Live(r) /\ Live(u)
        BY <1>4, <1>9 DEF Live
      <3>2. SUFFICES ASSUME ex, r.op \notin Toggles \cup {"create_group"},
                            NEW p \in Points \ (r.asked \cup r.foreign \cup r.blurred)
                     PROVE  r.entered[p] = new[p]
        BY <1>9 DEF ShownStill
      <3>3. r.write[p] = r.entered[p] /\ rec[p] = r.entered[p]
        BY <3>1, <3>2, UntouchedIsSent
      <3>4. QED
        BY <1>12, <3>3
    <2>2. TogglesAway(u, new, ex)
      BY <1>4, <1>9 DEF Sound, TogglesAway, Live
    <2>3. QED
      BY <1>4, <1>9, <1>10, <2>1, <2>2 DEF Sound, Carried, Named, Negates, HalfSaved, Held
  <1>13. QED
    BY <1>1, <1>2, <1>5, <1>9, <1>11, <1>12

\* About a record that is gone there is nothing to be sure of.
LEMMA GoneSound ==
    ASSUME NEW r, NEW rec, NEW ex, NEW new, Sound(r, rec, ex)
    PROVE  Sound(r, new, FALSE)
  <1>1. Negates(r, new, FALSE) /\ TogglesAway(r, new, FALSE)
    BY DEF Sound, Negates, TogglesAway
  <1>2. QED
    BY <1>1 DEF Sound, ShownStill, HalfSaved, Held

\* A refusal is remembered, and told unless the handler is one that ignores it.
LEMMA RefusedFields ==
    ASSUME NEW r \in Requests, NEW points \in SUBSET Points, NEW reported \in BOOLEAN
    PROVE  LET w == Refused(r, points, reported) IN
           /\ w \in Requests
           /\ w.phase = r.phase /\ w.op = r.op /\ w.entered = r.entered /\ w.write = r.write
           /\ w.hidden = r.hidden /\ w.raw = r.raw /\ w.asked = r.asked
           /\ w.foreign = r.foreign /\ w.blurred = r.blurred /\ w.slipped = r.slipped
           /\ w.refused = r.refused \cup points
           /\ w.warned = (r.warned \/ reported)
  <1> PICK w : w = Refused(r, points, reported)
    OBVIOUS
  <1>1. PICK told \in BOOLEAN : told = (r.warned \/ reported)
    BY DEF Requests
  <1>2. w = [r EXCEPT !.refused = r.refused \cup points, !.warned = told]
    BY <1>1 DEF Refused
  <1>3. /\ w \in Requests
        /\ w.phase = r.phase /\ w.op = r.op /\ w.entered = r.entered /\ w.write = r.write
        /\ w.hidden = r.hidden /\ w.raw = r.raw /\ w.asked = r.asked
        /\ w.foreign = r.foreign /\ w.blurred = r.blurred /\ w.slipped = r.slipped
        /\ w.refused = r.refused \cup points /\ w.warned = told
    BY <1>2 DEF Requests
  <1>4. QED
    BY <1>1, <1>3
-------------------------------------------------------------------------------
(* What the generic steps of a handler do to the invariant. *)

\* The points of an operation are points of the record its page is for.
LEMMA EditsArePoints ==
    ASSUME kind \in Kinds, NEW op \in OpsOf[kind]
    PROVE  Edits(op) \subseteq Points
  <1>1. CASE op \in {"save_group", "save_car", "edit_ble_tag", "update_setting"}
    BY <1>1 DEF Edits
  <1>2. CASE op \notin {"save_group", "save_car", "edit_ble_tag", "update_setting"}
    BY <1>2 DEF Edits, Points, PointsOf, Kinds, OpsOf
  <1>3. QED
    BY <1>1, <1>2

\* A request a handler is at work for has been posted with a click.
LEMMA AtWork ==
    ASSUME IInv, NEW s \in Slots, req[s].phase \in RPCs \cup {"posted"}
    PROVE  /\ req[s] \in Requests /\ Sound(req[s], record, exists)
           /\ Live(req[s]) /\ req[s].phase # "page"
           /\ req[s].op \in OpsOf[kind] /\ Edits(req[s].op) \subseteq Points
           /\ req[s].asked \subseteq Edits(req[s].op)
           /\ req[s].raw = FALSE \/ kind = "setting"
           /\ req[s].op # "chat_authorize" =>
                  \A p \in Edits(req[s].op) : Enterable(p, req[s].entered[p])
           /\ kind \in Kinds /\ exists \in BOOLEAN /\ record \in [Points -> Contents]
           /\ waiting \in Seq(Slots) /\ requests \in Nat
           /\ \A p \in Points : record[p] \in CanHold(kind, p)
  <1>1. /\ req[s] \in Requests /\ Sound(req[s], record, exists)
        /\ kind \in Kinds /\ exists \in BOOLEAN /\ record \in [Points -> Contents]
        /\ waiting \in Seq(Slots) /\ requests \in Nat
        /\ \A p \in Points : record[p] \in CanHold(kind, p)
    BY DEF IInv, TypeOK, RecordHolds
  <1>2. req[s].phase \notin {"idle", "done", "page"}
    BY DEF RPCs
  <1>3. Live(req[s]) /\ ClickedOn(req[s])
    BY <1>1, <1>2 DEF Sound, Live
  <1>4. QED
    BY <1>1, <1>2, <1>3, EditsArePoints DEF ClickedOn

\* A worker takes the request and goes on with q.
LEMMA AcceptsKeeps ==
    ASSUME IInv, NEW s \in Slots, NEW q \in Requests, Accepts(s, q), Sound(q, record, exists)
    PROVE  IInv'
  <1>1. /\ waiting # <<>> /\ waiting' = Tail(waiting) /\ Goes(s, q)
        /\ exists' = exists /\ record' = record /\ kind' = kind /\ active' = active
        /\ requests' = requests /\ elsewhere' = elsewhere
    BY DEF Accepts, Core, Rest
  <1>2. /\ exists \in BOOLEAN /\ record \in [Points -> Contents] /\ waiting \in Seq(Slots)
        /\ requests \in Nat /\ \A p \in Points : record[p] \in CanHold(kind, p)
    BY DEF IInv, TypeOK, RecordHolds
  <1>3. waiting' \in Seq(Slots)
    BY <1>1, <1>2
  <1>4. QED
    BY <1>1, <1>2, <1>3, GoesKeeps

\* The record stays, and so do the posted requests.
LEMMA StaysKeeps ==
    ASSUME IInv, NEW s \in Slots, NEW q \in Requests, UNCHANGED <<Core, Rest, waiting>>,
           Goes(s, q), Sound(q, record, exists)
    PROVE  IInv'
  <1>1. /\ exists' = exists /\ record' = record /\ kind' = kind /\ active' = active
        /\ requests' = requests /\ elsewhere' = elsewhere /\ waiting' = waiting
    BY DEF Core, Rest
  <1>2. /\ exists \in BOOLEAN /\ record \in [Points -> Contents] /\ waiting \in Seq(Slots)
        /\ requests \in Nat /\ \A p \in Points : record[p] \in CanHold(kind, p)
    BY DEF IInv, TypeOK, RecordHolds
  <1>3. QED
    BY <1>1, <1>2, GoesKeeps

\* What a request is at an RPC that carries write.
LEMMA CarryingSound ==
    ASSUME NEW r \in Requests, r.phase = "posted", Sound(r, record, exists),
           NEW rpc \in RPCs, NEW write \in [Points -> Contents],
           r.op \in Toggles => rpc \notin {"update_alarm", "set_satellite_followup"},
           r.op \notin Toggles =>
               /\ \A p \in Points : write[p] \in {r.entered[p], Sent(r, p)}
               /\ \A p \in Edits(r.op) : write[p] = Sent(r, p)
               /\ \A p \in Edits(r.op) \ {"name"} : write[p] \in Fits(p),
           rpc \in {"update_group", "create_group", "set_satellite_display_name"} =>
               write["name"] \in Fits("name"),
           rpc = "set_group_satellites" => r.entered["name"] = Blank
    PROVE  /\ [r EXCEPT !.phase = rpc, !.write = write] \in Requests
           /\ Sound([r EXCEPT !.phase = rpc, !.write = write], record, exists)
  <1>1. PICK q : q = [r EXCEPT !.phase = rpc, !.write = write]
    OBVIOUS
  <1>2. /\ q \in Requests
        /\ q.phase = rpc /\ q.op = r.op /\ q.entered = r.entered /\ q.asked = r.asked
        /\ q.write = write /\ q.refused = r.refused
        /\ q.foreign = r.foreign /\ q.blurred = r.blurred /\ q.raw = r.raw
        /\ q.slipped = r.slipped
    BY <1>1 DEF Requests, Phases
  <1>3. rpc \notin {"idle", "page", "posted", "done", "failed"}
    BY DEF RPCs
  <1>4. ClickedOn(q) /\ Combed(q)
    BY <1>2, <1>3 DEF Sound, ClickedOn, Combed, Live
  <1>5. ShownStill(q, record, exists)
    BY <1>2, <1>3 DEF Sound, ShownStill, Live
  <1>6. Carried(q) /\ Named(q)
    BY <1>2 DEF Carried, Named, Sent
  <1>7. TogglesAway(q, record, exists)
    BY <1>2, <1>3 DEF Sound, TogglesAway, Live
  <1>8. Negates(q, record, exists) /\ HalfSaved(q, record, exists) /\ Held(q, record, exists)
    BY <1>2, <1>3 DEF Negates, HalfSaved, Held
  <1>9. QED
    BY <1>1, <1>2, <1>4, <1>5, <1>6, <1>7, <1>8 DEF Sound

\* What a form without a blank name or a draw sends, fits.
LEMMA TidiedFits ==
    ASSUME kind \in Kinds, NEW r, r.raw = FALSE \/ kind = "setting",
           NEW p \in Points, Enterable(p, r.entered[p]), p = "name" => r.entered[p] # Blank
    PROVE  Sent(r, p) \in Fits(p)
  <1>1. {"name", "text"} \cap Users = {}
    BY UsersAssumption DEF PointsOf
  <1>2. Fits("name") = Values /\ Fits("text") = Values \cup {Blank}
    BY <1>1 DEF Fits, Switches
  <1>3. CASE p \in {"name", "text"}
    <2>1. r.raw = FALSE
      BY <1>3 DEF Points, PointsOf
    <2>2. r.entered[p] \in Fits(p) \cup {Ragged}
      BY <1>2, <1>3 DEF Enterable
    <2>3. Sent(r, p) = Tidied(r.entered[p])
      BY <2>1 DEF Sent
    <2>4. QED
      BY <1>2, <1>3, <2>2, <2>3, TidyAssumption DEF Tidied
  <1>4. CASE p \notin {"name", "text"}
    <2>1. r.entered[p] \in Fits(p)
      BY <1>4 DEF Enterable
    <2>2. r.entered[p] = Ragged => Values \subseteq Fits(p)
      BY <1>4, <2>1, RaggedAssumption DEF Fits, Switches
    <2>3. QED
      BY <2>1, <2>2, TidyAssumption DEF Sent, Tidied
  <1>5. QED
    BY <1>3, <1>4

LEMMA CallsKeeps ==
    ASSUME IInv, NEW s \in Slots, NEW rpc \in RPCs, Calls(s, rpc),
           req[s].op # "chat_authorize",
           req[s].op \in Toggles => rpc \notin {"update_alarm", "set_satellite_followup"},
           rpc \in {"update_group", "create_group", "set_satellite_display_name"} =>
               req[s].entered["name"] # Blank /\ "name" \in Edits(req[s].op),
           rpc = "set_group_satellites" => req[s].entered["name"] = Blank
    PROVE  IInv'
  <1>1. PICK r : r = req[s]
    OBVIOUS
  <1>2. PICK write : write = [p \in Points |-> Sent(r, p)]
    OBVIOUS
  <1>3. PICK q : q = [r EXCEPT !.phase = rpc, !.write = write]
    OBVIOUS
  <1>4. r.phase = "posted" /\ Accepts(s, q)
    BY <1>1, <1>2, <1>3 DEF Calls, In
  <1>5. /\ r \in Requests /\ Sound(r, record, exists) /\ kind \in Kinds
        /\ Edits(r.op) \subseteq Points
    BY <1>1, <1>4, AtWork
  <1>6. \A p \in Edits(r.op) : Enterable(p, r.entered[p])
    BY <1>1, <1>4, AtWork
  <1>7. write \in [Points -> Contents]
    BY <1>2, <1>5, TidyAssumption DEF Requests, Sent, Tidied, Contents
  <1>8. r.raw = FALSE \/ kind = "setting"
    BY <1>1, <1>4, AtWork
  <1>9. ASSUME NEW p \in Edits(r.op), p = "name" => r.entered[p] # Blank
        PROVE  write[p] \in Fits(p)
    <2>1. Sent(r, p) \in Fits(p)
      BY <1>5, <1>6, <1>8, <1>9, TidiedFits
    <2>2. QED
      BY <1>2, <1>5, <2>1
  <1>10. q \in Requests /\ Sound(q, record, exists)
    BY <1>1, <1>2, <1>3, <1>4, <1>5, <1>7, <1>9, CarryingSound
  <1>11. QED
    BY <1>4, <1>10, AcceptsKeeps

\* A handler ends at once: nothing was asked for but a blank name, or it warns.
LEMMA EndsKeeps ==
    ASSUME IInv, NEW s \in Slots, NEW q \in Requests, Accepts(s, Done(q)),
           q.warned \/ (q.asked \subseteq {"name"} /\ q.entered["name"] = Blank)
    PROVE  IInv'
  <1>1. Done(q) \in Requests /\ Sound(Done(q), record, exists)
    BY DoneSound
  <1>2. QED
    BY <1>1, AcceptsKeeps

\* After a read the handler goes on as q, ends without the record, or fails.
LEMMA ReadsKeeps ==
    ASSUME IInv, NEW s \in Slots, NEW rpc \in RPCs, NEW q, Reads(s, rpc, q),
           exists => q \in Requests /\ Sound(q, record, exists)
    PROVE  IInv'
  <1>1. In(s, rpc) /\ UNCHANGED <<Core, Rest, waiting>>
    BY DEF Reads
  <1>2. req[s].phase \in RPCs
    BY <1>1 DEF In
  <1>3. req[s] \in Requests /\ Sound(req[s], record, exists)
    BY <1>2, AtWork
  <1>4. CASE exists /\ Goes(s, q)
    BY <1>1, <1>4, StaysKeeps
  <1>5. CASE ~exists /\ Goes(s, Done(req[s]))
    <2>1. Done(req[s]) \in Requests /\ Sound(Done(req[s]), record, exists)
      BY <1>3, <1>5, DoneSound
    <2>2. QED
      BY <1>1, <1>5, <2>1, StaysKeeps
  <1>6. CASE Goes(s, Failed(req[s]))
    <2>1. Failed(req[s]) \in Requests /\ Sound(Failed(req[s]), record, exists)
      BY <1>2, <1>3, FailedSound
    <2>2. QED
      BY <1>1, <1>6, <2>1, StaysKeeps
  <1>7. QED
    BY <1>4, <1>5, <1>6 DEF Reads

\* What reaches Core fits.
LEMMA SentFits ==
    ASSUME NEW r \in Requests, r.phase \in RPCs, Sound(r, record, exists),
           NEW points \in SUBSET Points,
           IF r.op \in Toggles
           THEN /\ r.phase \in {"update_alarm", "set_satellite_followup"}
                /\ points \subseteq {"setup", "enabled", "followup"}
           ELSE points \subseteq Edits(r.op),
           "name" \in points => r.phase \in {"update_group", "set_satellite_display_name"}
    PROVE  \A p \in points : r.write[p] \in Fits(p)
  <1>1. CASE r.op \in Toggles
    BY <1>1 DEF Sound, Negates, CanHold
  <1>2. CASE r.op \notin Toggles
    BY <1>2 DEF Sound, Carried, Named
  <1>3. QED
    BY <1>1, <1>2

\* An RPC that sets points, the last one of its handler or the first one of save_group.
LEMMA SetsKeeps ==
    ASSUME IInv, NEW s \in Slots, NEW rpc \in RPCs, NEW points \in SUBSET Points,
           NEW reported \in BOOLEAN, NEW next, Sets(s, rpc, points, reported, next),
           IF req[s].op \in Toggles
           THEN /\ rpc \in {"update_alarm", "set_satellite_followup"}
                /\ points \subseteq {"setup", "enabled", "followup"}
           ELSE points \subseteq Edits(req[s].op),
           reported \/ req[s].op \in Ignoring,
           "name" \in points => rpc \in {"update_group", "set_satellite_display_name"},
           \/ next = "done" /\ Edits(req[s].op) \subseteq points
           \/ /\ next = "done" /\ rpc = "set_group_satellites"
              /\ Edits(req[s].op) \subseteq points \cup {"name"}
           \/ /\ next = "set_group_satellites" /\ "name" \in points
              /\ req[s].op \notin Toggles /\ ~reported
    PROVE  IInv'
  <1>1. PICK r : r = req[s]
    OBVIOUS
  <1>2. /\ r.phase = rpc
        /\ exists' = exists /\ kind' = kind /\ active' = active /\ waiting' = waiting
        /\ requests' = requests /\ elsewhere' = elsewhere
    BY <1>1 DEF Sets, In, Rest
  <1>3. /\ r \in Requests /\ Sound(r, record, exists) /\ Live(r)
        /\ r.asked \subseteq Edits(r.op)
        /\ exists \in BOOLEAN /\ record \in [Points -> Contents] /\ waiting \in Seq(Slots)
        /\ requests \in Nat /\ \A p \in Points : record[p] \in CanHold(kind, p)
    BY <1>1, <1>2, AtWork
  <1>4. \A p \in points : r.write[p] \in Fits(p)
    BY <1>1, <1>2, <1>3, SentFits
  <1>fit. \A p \in points : r.write[p] \in CanHold(kind, p)
    BY <1>4 DEF CanHold
  <1>5. r.write \in [Points -> Contents] /\ r.asked \subseteq Points
    BY <1>3 DEF Requests
  <1>6. ASSUME record' = record \/ record' = [p \in Points |-> IF p \in points THEN r.write[p]
                                                             ELSE record[p]],
               NEW q \in Requests, Goes(s, q), Sound(q, record', exists)
        PROVE  IInv'
    <2>1. record' \in [Points -> Contents] /\ \A p \in Points : record'[p] \in CanHold(kind, p)
      BY <1>3, <1>fit, <1>5, <1>6
    <2>2. QED
      BY <1>2, <1>3, <1>6, <2>1, GoesKeeps
  <1>7. CASE /\ exists
             /\ record' = [p \in Points |-> IF p \in points THEN r.write[p] ELSE record[p]]
             /\ Goes(s, Moves(r, next))
    <2>1. CASE next = "done"
      <3>1. r.op \in Toggles =>
                \A p \in Edits(r.op) : ~r.slipped /\ p \notin r.foreign => r.write[p] = Sent(r, p)
        <4>1. r.op \in Toggles =>
                  \A p \in Edits(r.op) : /\ r.entered[p] \in {"on", "off"}
                                         /\ ~r.slipped /\ p \notin r.foreign =>
                                                r.write[p] = r.entered[p]
          BY <1>1, <1>2, <1>3, <1>7 DEF Sound, Negates, TogglesAway
        <4>2. QED
          BY <4>1, RaggedAssumption DEF Sent, Tidied
      <3>2. r.op \notin Toggles => \A p \in r.asked : r.write[p] = Sent(r, p)
        BY <1>2, <1>3, <1>5 DEF Sound, Carried
      <3>3. \A p \in points : record'[p] = r.write[p]
        BY <1>7
      <3>4. CASE r.asked \subseteq points
        <4>1. ~(r.op \in Toggles /\ r.slipped) =>
                  \A p \in r.asked \ (r.foreign \cup Unheard(r)) : record'[p] = Sent(r, p)
          BY <1>3, <3>1, <3>2, <3>3, <3>4
        <4>2. Done(r) \in Requests /\ Sound(Done(r), record', exists)
          BY <1>3, <4>1, DoneSound
        <4>3. QED
          BY <1>6, <1>7, <2>1, <4>2 DEF Moves
      <3>5. CASE ~(r.asked \subseteq points)
        <4>1. rpc = "set_group_satellites" /\ r.asked \subseteq points \cup {"name"}
          BY <1>1, <1>3, <2>1, <3>5
        <4>2. "name" \notin points /\ r.op \notin Toggles
          BY <1>1, <4>1
        <4>3. "name" \in r.asked \ (r.foreign \cup Unheard(r)) =>
                  record["name"] = Sent(r, "name") \/ r.entered["name"] = Blank
          BY <1>2, <1>3, <1>7, <4>1 DEF Sound, HalfSaved
        <4>4. "name" \in Points => record'["name"] = record["name"]
          BY <1>7, <4>2
        <4>5. \A p \in r.asked \ (r.foreign \cup Unheard(r)) :
                  record'[p] = Sent(r, p) \/ (p = "name" /\ r.entered[p] = Blank)
          BY <1>5, <3>2, <3>3, <4>1, <4>2, <4>3, <4>4
        <4>6. Done(r) \in Requests /\ Sound(Done(r), record', exists)
          BY <1>3, <4>5, DoneSound
        <4>7. QED
          BY <1>6, <1>7, <2>1, <4>6 DEF Moves
      <3>6. QED
        BY <3>4, <3>5
    <2>2. CASE next = "set_group_satellites"
      <3>1. "name" \in points /\ r.op \notin Toggles
        BY <1>1, <2>2
      <3>2. PICK q : q = [r EXCEPT !.phase = "set_group_satellites"]
        OBVIOUS
      <3>3. /\ q \in Requests
            /\ q.phase = "set_group_satellites" /\ q.op = r.op /\ q.entered = r.entered
            /\ q.asked = r.asked /\ q.write = r.write /\ q.refused = r.refused
            /\ q.foreign = r.foreign /\ q.blurred = r.blurred /\ q.raw = r.raw
            /\ \A p \in Points : Sent(q, p) = Sent(r, p)
        BY <1>3, <3>2 DEF Requests, Phases, RPCs, Sent
      <3>4. r.phase \notin {"idle", "page", "posted", "done", "failed"}
        BY <1>2 DEF RPCs
      <3>5. ClickedOn(q) /\ Combed(q) /\ Carried(q)
        BY <1>2, <1>3, <3>3, <3>4 DEF Sound, ClickedOn, Combed, Carried, Live, RPCs, Sent
      <3>6. Named(q) /\ TogglesAway(q, record', exists) /\ Negates(q, record', exists)
            /\ Held(q, record', exists)
        BY <3>1, <3>3 DEF Named, TogglesAway, Negates, Held
      <3>7. r.op # "create_group" =>
                \A p \in Points \ (r.asked \cup r.foreign \cup r.blurred) :
                    r.write[p] = r.entered[p] /\ record[p] = r.entered[p]
        <4>1. r.phase \in RPCs /\ exists
          BY <1>2, <1>7
        <4>2. SUFFICES ASSUME r.op # "create_group"
                       PROVE  \A p \in Points \ (r.asked \cup r.foreign \cup r.blurred) :
                                  r.write[p] = r.entered[p] /\ record[p] = r.entered[p]
          OBVIOUS
        <4>3. r.op \notin Toggles \cup {"create_group"}
          BY <3>1, <4>2
        <4>4. r \in Requests /\ Sound(r, record, exists)
          BY <1>3
        <4>5. QED
          BY <4>1, <4>2, <4>3, <4>4, UntouchedIsSent
      <3>8. ShownStill(q, record', exists)
        BY <1>7, <3>3, <3>7 DEF ShownStill
      <3>9. HalfSaved(q, record', exists)
        <4>1. "name" \in Edits(r.op)
          BY <1>1, <3>1
        <4>2. r.write["name"] = Sent(r, "name") /\ record'["name"] = r.write["name"]
          BY <1>2, <1>3, <1>7, <3>1, <4>1 DEF Sound, Carried
        <4>3. QED
          BY <3>3, <4>2 DEF HalfSaved, Sent
      <3>10. Sound(q, record', exists)
        BY <3>5, <3>6, <3>8, <3>9 DEF Sound
      <3>11. Goes(s, q)
        BY <1>7, <2>2, <3>2 DEF Moves
      <3>12. QED
        BY <1>6, <1>7, <3>3, <3>10, <3>11
    <2>3. QED
      BY <2>1, <2>2
  <1>8. CASE /\ exists
             /\ record' = [p \in Points |-> IF p \in points THEN r.write[p] ELSE record[p]]
             /\ Goes(s, Failed(Slipped(r)))
    <2>1. \A p \in Points : record'[p] = record[p] \/ record'[p] = r.write[p]
      BY <1>8
    <2>2. Failed(Slipped(r)) \in Requests /\ Sound(Failed(Slipped(r)), record', exists)
      BY <1>2, <1>3, <2>1, FailedSound
    <2>3. QED
      BY <1>6, <1>8, <2>2
  <1>9. CASE record' = record /\ Goes(s, Moves(Refused(r, points, reported), next))
    <2>1. PICK w : w = Refused(r, points, reported)
      OBVIOUS
    <2>in. r \in Requests
      BY <1>3
    <2>fields.
          /\ w \in Requests
          /\ w.phase = r.phase /\ w.op = r.op /\ w.entered = r.entered /\ w.write = r.write
          /\ w.raw = r.raw /\ w.asked = r.asked
          /\ w.foreign = r.foreign /\ w.blurred = r.blurred /\ w.slipped = r.slipped
          /\ w.refused = r.refused \cup points
          /\ w.warned = (r.warned \/ reported)
      BY <2>1, <2>in, RefusedFields
    <2>heard.
          /\ r.op \in Ignoring => points \subseteq Unheard(w)
          /\ Unheard(r) \subseteq Unheard(w)
      BY <2>fields DEF Unheard
    <2>told. w.warned \/ points \subseteq Unheard(w)
      BY <1>1, <2>fields, <2>heard
    <2>2. /\ w \in Requests
          /\ w.phase = r.phase /\ w.op = r.op /\ w.entered = r.entered /\ w.write = r.write
          /\ w.raw = r.raw /\ w.asked = r.asked
          /\ w.foreign = r.foreign /\ w.blurred = r.blurred /\ w.slipped = r.slipped
          /\ \A p \in Points : Sent(w, p) = Sent(r, p)
      BY <2>fields DEF Sent
    <2>3. CASE next = "done"
      <3>1. CASE r.asked \subseteq points
        <4>1. Done(w) \in Requests /\ Sound(Done(w), record, exists)
          BY <2>2, <2>told, <3>1, DoneSound
        <4>2. QED
          BY <1>6, <1>9, <2>1, <2>3, <4>1 DEF Moves
      <3>2. CASE ~(r.asked \subseteq points)
        <4>1. rpc = "set_group_satellites" /\ r.asked \subseteq points \cup {"name"}
          BY <1>1, <1>3, <2>3, <3>2
        <4>2. exists /\ "name" \in r.asked \ (r.foreign \cup Unheard(r)) =>
                  record["name"] = Sent(r, "name") \/ r.entered["name"] = Blank
          BY <1>2, <1>3, <4>1 DEF Sound, HalfSaved
        <4>3. exists /\ ~w.warned => \A p \in w.asked \ (w.foreign \cup Unheard(w)) :
                  record[p] = Sent(w, p) \/ (p = "name" /\ w.entered[p] = Blank)
          BY <1>5, <2>2, <2>told, <2>heard, <4>1, <4>2
        <4>4. Done(w) \in Requests /\ Sound(Done(w), record, exists)
          BY <2>2, <4>3, DoneSound
        <4>5. QED
          BY <1>6, <1>9, <2>1, <2>3, <4>4 DEF Moves
      <3>3. QED
        BY <3>1, <3>2
    <2>4. CASE next = "set_group_satellites"
      <3>1. "name" \in points /\ r.op \notin Toggles /\ ~reported
        BY <1>1, <2>4
      <3>2. PICK q : q = [w EXCEPT !.phase = "set_group_satellites"]
        OBVIOUS
      <3>3. /\ q \in Requests
            /\ q.phase = "set_group_satellites" /\ q.op = r.op /\ q.entered = r.entered
            /\ q.asked = r.asked /\ q.write = r.write /\ q.refused = w.refused
            /\ q.foreign = r.foreign /\ q.blurred = r.blurred /\ q.raw = r.raw
        BY <2>2, <3>2 DEF Requests, Phases, RPCs
      <3>4. r.phase \notin {"idle", "page", "posted", "done", "failed"}
        BY <1>2 DEF RPCs
      <3>5. ClickedOn(q) /\ Combed(q) /\ Carried(q)
        BY <1>2, <1>3, <3>3, <3>4 DEF Sound, ClickedOn, Combed, Carried, Live, RPCs, Sent
      <3>6. Named(q) /\ TogglesAway(q, record, exists) /\ Negates(q, record, exists)
            /\ Held(q, record, exists)
        BY <3>1, <3>3 DEF Named, TogglesAway, Negates, Held
      <3>7. ShownStill(q, record, exists)
        BY <1>3, <3>3, <3>4 DEF Sound, ShownStill, Live
      <3>8. "name" \in Unheard(w)
        BY <1>1, <2>heard, <3>1
      <3>9. Unheard(q) = Unheard(w)
        BY <2>2, <3>3 DEF Unheard
      <3>10. HalfSaved(q, record, exists)
        BY <3>8, <3>9 DEF HalfSaved
      <3>11. Sound(q, record, exists)
        BY <3>5, <3>6, <3>7, <3>10 DEF Sound
      <3>12. Goes(s, q)
        BY <1>9, <2>1, <2>4, <3>2 DEF Moves
      <3>13. QED
        BY <1>6, <1>9, <3>3, <3>11, <3>12
    <2>5. QED
      BY <2>3, <2>4
  <1>10. CASE record' = record /\ Goes(s, Failed(r))
    <2>1. Failed(r) \in Requests /\ Sound(Failed(r), record, exists)
      BY <1>2, <1>3, FailedSound
    <2>2. QED
      BY <1>6, <1>10, <2>1
  <1>11. QED
    BY <1>1, <1>7, <1>8, <1>9, <1>10 DEF Sets

\* An RPC that deletes: nothing was asked for that could be missing.
LEMMA DeletesKeeps ==
    ASSUME IInv, NEW s \in Slots, NEW rpc \in RPCs, NEW reported \in BOOLEAN,
           Deletes(s, rpc, reported), Edits(req[s].op) = {}
    PROVE  IInv'
  <1>1. PICK r : r = req[s]
    OBVIOUS
  <1>2. /\ r.phase = rpc
        /\ record' = record /\ kind' = kind /\ active' = active /\ waiting' = waiting
        /\ requests' = requests /\ elsewhere' = elsewhere
    BY <1>1 DEF Deletes, In, Rest
  <1>3. /\ r \in Requests /\ Sound(r, record, exists) /\ r.asked = {}
        /\ exists \in BOOLEAN /\ record \in [Points -> Contents] /\ waiting \in Seq(Slots)
        /\ requests \in Nat /\ \A p \in Points : record[p] \in CanHold(kind, p)
    BY <1>1, <1>2, AtWork
  <1>4. ASSUME exists' \in BOOLEAN, NEW q \in Requests, Goes(s, q), Sound(q, record, exists')
        PROVE  IInv'
    BY <1>2, <1>3, <1>4, GoesKeeps
  <1>5. CASE exists' = FALSE /\ (Goes(s, Done(r)) \/ Goes(s, Failed(r)))
    <2>1. Sound(r, record, FALSE)
      BY <1>3, GoneSound
    <2>2. Done(r) \in Requests /\ Sound(Done(r), record, FALSE)
      BY <1>3, DoneSound
    <2>3. Failed(r) \in Requests /\ Sound(Failed(r), record, FALSE)
      BY <1>2, <1>3, <2>1, FailedSound
    <2>4. QED
      BY <1>4, <1>5, <2>2, <2>3
  <1>6. CASE exists' = exists /\ Goes(s, Done(Refused(r, {}, reported)))
    <2>1. PICK w : w = Refused(r, {}, reported)
      OBVIOUS
    <2>2. r \in Requests /\ {} \in SUBSET Points
      BY <1>3
    <2>3. w \in Requests /\ w.asked = r.asked
      BY <2>1, <2>2, RefusedFields
    <2>4. w.asked = {}
      BY <1>3, <2>3
    <2>5. Done(w) \in Requests /\ Sound(Done(w), record, exists)
      BY <2>3, <2>4, DoneSound
    <2>6. QED
      BY <1>3, <1>4, <1>6, <2>1, <2>3, <2>5
  <1>7. CASE exists' = exists /\ Goes(s, Failed(r))
    <2>1. Failed(r) \in Requests /\ Sound(Failed(r), record, exists)
      BY <1>2, <1>3, FailedSound
    <2>2. QED
      BY <1>3, <1>4, <1>7, <2>1
  <1>8. QED
    BY <1>1, <1>5, <1>6, <1>7 DEF Deletes

\* The new group has the name that was entered, and no members.
LEMMA CreateKeeps ==
    ASSUME IInv, NEW s \in Slots, req[s].op = "create_group", create_group_rpc(s, FALSE)
    PROVE  IInv'
  <1>1. PICK r : r = req[s]
    OBVIOUS
  <1>2. /\ r.phase = "create_group" /\ r.op = "create_group" /\ r.phase \in RPCs
        /\ kind' = kind /\ active' = active /\ waiting' = waiting
        /\ requests' = requests /\ elsewhere' = elsewhere
    BY <1>1 DEF create_group_rpc, In, Rest, RPCs
  <1>3. /\ r \in Requests /\ Sound(r, record, exists) /\ r.op \in OpsOf[kind]
        /\ r.asked \subseteq Edits(r.op) /\ Edits(r.op) \subseteq Points /\ kind \in Kinds
        /\ exists \in BOOLEAN /\ record \in [Points -> Contents] /\ waiting \in Seq(Slots)
        /\ requests \in Nat /\ \A p \in Points : record[p] \in CanHold(kind, p)
    BY <1>1, <1>2, AtWork
  <1>4. kind = "group" /\ Points = {"name", "members"} /\ r.op \notin Toggles
    BY <1>2, <1>3 DEF Kinds, PointsOf, OpsOf, Points, Toggles
  <1>5. Edits(r.op) = {"name"}
    BY <1>2 DEF Edits
  <1>6. "name" \notin Users /\ "members" \notin Users
    BY UsersAssumption DEF PointsOf
  <1>7. r.write["name"] \in Fits("name") /\ r.asked \subseteq {"name"}
        /\ r.write["name"] = Sent(r, "name")
    BY <1>2, <1>3, <1>4, <1>5 DEF Sound, Carried, Named
  <1>8. CASE /\ exists' = TRUE
             /\ record' = [Nothing EXCEPT !["name"] = r.write["name"]]
             /\ Goes(s, Done(r)) \/ Goes(s, Failed(Slipped(r)))
    <2>1. record' = [p \in Points |-> IF p = "name" THEN r.write["name"] ELSE Blank]
      BY <1>8 DEF Nothing
    <2>2. record' \in [Points -> Contents]
      BY <1>3, <1>4, <2>1 DEF Requests, Contents
    <2>3. Blank \in Fits("members")
      BY <1>6 DEF Fits, Switches
    <2>4. \A p \in Points : record'[p] \in CanHold(kind, p)
      BY <1>4, <1>7, <2>1, <2>3 DEF CanHold
    <2>5. \A p \in r.asked \ (r.foreign \cup Unheard(r)) : record'[p] = Sent(r, p)
      BY <1>4, <1>7, <2>1
    <2>6. Done(r) \in Requests /\ Sound(Done(r), record', TRUE)
      BY <1>3, <2>5, DoneSound
    <2>7. Sound(r, record', exists')
      BY <1>2, <1>3, <1>4, <1>8 DEF Sound, ShownStill, TogglesAway, Negates, HalfSaved, Held
    <2>8. Failed(Slipped(r)) \in Requests /\ Sound(Failed(Slipped(r)), record', exists')
      BY <1>2, <1>3, <2>7, FailedSound
    <2>9. QED
      BY <1>2, <1>3, <1>8, <2>2, <2>4, <2>6, <2>8, GoesKeeps
  <1>9. CASE UNCHANGED Core /\ Goes(s, Done(Refused(r, {"name"}, FALSE)))
    <2>1. PICK w : w = Refused(r, {"name"}, FALSE)
      OBVIOUS
    <2>2. r \in Requests /\ {"name"} \in SUBSET Points
      BY <1>3, <1>4
    <2>named. /\ w \in Requests /\ w.op = r.op /\ w.asked = r.asked
              /\ w.refused = r.refused \cup {"name"}
      <3>1. PICK points \in SUBSET Points : points = {"name"}
        BY <2>2
      <3>2. PICK reported \in BOOLEAN : w = Refused(r, points, reported)
        BY <2>1, <3>1
      <3>3. w \in Requests /\ w.op = r.op /\ w.asked = r.asked /\ w.refused = r.refused \cup points
        BY <2>2, <3>2, RefusedFields
      <3>4. QED
        BY <3>1, <3>3
    <2>3. w.asked \subseteq Unheard(w)
      BY <1>2, <1>7, <2>named DEF Unheard, Ignoring
    <2>4. Done(w) \in Requests /\ Sound(Done(w), record, exists)
      BY <2>named, <2>3, DoneSound
    <2>5. UNCHANGED <<Core, Rest, waiting>>
      BY <1>2, <1>9 DEF Rest
    <2>6. QED
      BY <1>9, <2>1, <2>4, <2>5, StaysKeeps
  <1>10. CASE UNCHANGED Core /\ Goes(s, Failed(r))
    <2>1. Failed(r) \in Requests /\ Sound(Failed(r), record, exists)
      BY <1>2, <1>3, FailedSound
    <2>2. UNCHANGED <<Core, Rest, waiting>>
      BY <1>2, <1>10 DEF Rest
    <2>3. QED
      BY <1>10, <2>1, <2>2, StaysKeeps
  <1>11. QED
    BY <1>1, <1>8, <1>9, <1>10 DEF create_group_rpc
-------------------------------------------------------------------------------
(* Pages, killed workers and what else happens. *)

\* What a page shows fits, and it is what Core holds or is marked as blurred.
LEMMA ShownFits ==
    ASSUME IInv, NEW p \in Points
    PROVE  /\ Shown(p) \in CanHold(kind, p) /\ Shown(p) \in Contents
           /\ Fits(p) \subseteq Contents /\ Fits(p) \subseteq CanHold(kind, p)
  <1>1. /\ record \in [Points -> Contents] /\ record[p] \in CanHold(kind, p)
        /\ active \subseteq Users
    BY DEF IInv, TypeOK, RecordHolds
  <1>2. Fits(p) \subseteq Contents /\ Fits(p) \subseteq CanHold(kind, p)
    BY DEF Fits, Contents, CanHold
  <1>3. CASE p = "owner"
    <2>1. p \notin Switches /\ p \notin Users
      BY <1>3, UsersAssumption DEF PointsOf, Switches
    <2>2. Fits(p) = Users \cup {Nobody}
      BY <1>3, <2>1 DEF Fits
    <2>3. QED
      BY <1>1, <1>2, <1>3, <2>1, <2>2 DEF Shown, SelectedOwner, CanHold
  <1>4. CASE p # "owner" /\ p \in Users
    <2>1. p \notin {"owner", "text", "setup", "name", "room", "webchat", "value"}
      BY <1>4, UsersAssumption DEF PointsOf
    <2>2. Fits(p) = {"on", "off"}
      BY <1>4, <2>1 DEF Fits, Switches
    <2>3. Shown(p) = Ticked(p)
      BY <1>4, <2>1 DEF Shown
    <2>4. QED
      BY <1>1, <1>2, <2>1, <2>2, <2>3 DEF Ticked, CanHold
  <1>5. CASE p # "owner" /\ p \notin Users
    BY <1>1, <1>2, <1>5 DEF Shown
  <1>6. QED
    BY <1>3, <1>4, <1>5

LEMMA OpenPageKeeps ==
    ASSUME IInv, NEW s \in Slots, OpenPage(s)
    PROVE  IInv'
  <1>1. /\ exists' = exists /\ record' = record /\ kind' = kind /\ active' = active
        /\ requests' = requests + 1 /\ elsewhere' = elsewhere /\ waiting' = waiting
    BY DEF OpenPage, Core
  <1>2. /\ exists \in BOOLEAN /\ record \in [Points -> Contents] /\ waiting \in Seq(Slots)
        /\ requests \in Nat /\ \A p \in Points : record[p] \in CanHold(kind, p)
        /\ kind \in Kinds /\ active \subseteq Users
    BY DEF IInv, TypeOK, RecordHolds
  <1>3. ASSUME NEW q \in Requests, Goes(s, q), Sound(q, record, exists)
        PROVE  IInv'
    BY <1>1, <1>2, <1>3, GoesKeeps
  <1>4. Idle \in Requests /\ "page" \in Phases /\ "page" \notin RPCs /\ "none" \notin Toggles
    BY IdleSound DEF Phases, RPCs, Toggles
  <1>5. CASE exists
    <2>1. PICK e : e = [p \in Points |-> Shown(p)]
      OBVIOUS
    <2>2. PICK b : b = {p \in Points : Tidied(Shown(p)) # record[p]}
      OBVIOUS
    <2>3. PICK raw \in BOOLEAN : raw = (kind = "setting" /\ RawEditor(record["value"]))
      OBVIOUS
    <2>4. PICK q : q = [Idle EXCEPT !.phase = "page", !.hidden = Users \ active, !.entered = e,
                            !.raw = raw, !.blurred = b]
      OBVIOUS
    <2>5. /\ e \in [Points -> Contents] /\ b \subseteq Points
          /\ \A p \in Points : e[p] \in CanHold(kind, p)
      BY <2>1, <2>2, ShownFits
    <2>6. q \in Requests
      BY <1>4, <2>4, <2>5 DEF Requests
    <2>7. /\ q.phase = "page" /\ q.op = "none" /\ q.entered = e /\ q.asked = {} /\ q.foreign = {}
          /\ q.blurred = b /\ q.raw = raw
      BY <1>4, <2>4 DEF Requests, Idle
    <2>8. \A p \in Points : e[p] # Ragged \/ p \in b
      <3>1. \A v : SelectedOwner(v) # Ragged
        BY <1>2, RaggedAssumption DEF SelectedOwner
      <3>2. ASSUME NEW p \in Points, Shown(p) = Ragged
            PROVE  record[p] = Ragged
        BY <3>1, <3>2, UsersAssumption, RaggedAssumption DEF Shown, Ticked, PointsOf
      <3>3. Tidy # Ragged
        BY TidyAssumption, RaggedAssumption
      <3>4. QED
        BY <2>1, <2>2, <3>2, <3>3 DEF Tidied
    <2>9. \A p \in Points \ b : e[p] = record[p]
      BY <2>1, <2>2, <2>8 DEF Tidied
    <2>10. b \cap {"enabled", "followup"} = {}
      <3>1. ASSUME NEW p \in Points, p \in {"enabled", "followup"}
            PROVE  Shown(p) = record[p] /\ record[p] # Ragged
        <4>1. p \notin Users
          BY <3>1, UsersAssumption DEF PointsOf
        <4>2. record[p] \in {"on", "off"}
          BY <1>2, <3>1 DEF Fits, Switches, CanHold
        <4>3. QED
          BY <3>1, <4>1, <4>2, RaggedAssumption DEF Shown
      <3>2. QED
        BY <2>2, <3>1 DEF Tidied
    <2>11. ClickedOn(q) /\ Combed(q) /\ ShownStill(q, record, exists)
      BY <2>3, <2>5, <2>7, <2>8, <2>9, <2>10 DEF ClickedOn, Combed, ShownStill
    <2>12. Sound(q, record, exists)
      BY <1>4, <2>7, <2>11 DEF Sound, Carried, Named, TogglesAway, Negates, HalfSaved, Held
    <2>13. Goes(s, q)
      BY <1>5, <2>1, <2>2, <2>3, <2>4 DEF OpenPage
    <2>14. QED
      BY <1>3, <2>6, <2>12, <2>13
  <1>6. CASE ~exists
    <2>1. PICK q : q = [Idle EXCEPT !.phase = "page"]
      OBVIOUS
    <2>2. q \in Requests
      BY <1>4, <2>1 DEF Requests
    <2>3. /\ q.phase = "page" /\ q.op = "none" /\ q.entered = Nothing /\ q.asked = {}
          /\ q.blurred = {} /\ ~q.raw /\ kind = "group" /\ Goes(s, q)
      BY <1>4, <1>6, <2>1 DEF Requests, Idle, OpenPage
    <2>4. \A p \in Points : q.entered[p] # Ragged
      BY <2>3, RaggedAssumption DEF Nothing
    <2>5. ClickedOn(q) /\ Combed(q) /\ ShownStill(q, record, exists)
      BY <1>6, <2>3, <2>4 DEF ClickedOn, Combed, ShownStill
    <2>6. Sound(q, record, exists)
      BY <1>4, <2>3, <2>5 DEF Sound, Carried, Named, TogglesAway, Negates, HalfSaved, Held
    <2>7. QED
      BY <1>3, <2>2, <2>3, <2>6
  <1>7. QED
    BY <1>2, <1>5, <1>6

\* What can be chosen is what may be entered; a toggle asks for the other position.
LEMMA ChosenFits ==
    ASSUME kind \in Kinds, NEW op \in OpsOf[kind], NEW r \in Requests, NEW p \in Edits(op),
           NEW v \in Choices(r, op, p)
    PROVE  /\ op # "chat_authorize" => Enterable(p, v)
           /\ v \in Contents
           /\ op \in Toggles => v = Flip(r.entered[p])
  <1>1. p \in Points /\ r.hidden \subseteq Users
    BY EditsArePoints DEF Requests
  <1>2. Users \cap {"setup", "enabled", "name", "room", "owner", "followup", "members", "text",
                    "value", "telegram", "entra", "residents", "webchat"} = {}
    BY UsersAssumption DEF PointsOf
  <1>3. /\ Fits(p) \subseteq Contents /\ "on" \in Contents /\ "off" \in Contents
        /\ Blank \in Contents /\ Ragged \in Contents
    BY DEF Fits, Contents
  <1>4. \A x \in Fits(p) : Enterable(p, x) /\ x \in Contents
    BY <1>3 DEF Enterable
  <1>5. CASE op \in Toggles
    <2>1. p \in {"enabled", "followup"} /\ Fits(p) = {"on", "off"}
      BY <1>2, <1>5 DEF Toggles, Edits, Fits, Switches
    <2>2. v = Flip(r.entered[p]) /\ v \in {"on", "off"}
      BY <1>1, <1>2, <1>5, <2>1 DEF Choices, Toggles, Flip
    <2>3. QED
      BY <1>4, <2>1, <2>2
  <1>6. CASE op \in {"telegram_unlink", "entra_unlink", "unlink_resident", "chat_authorize"}
    <2>1. p \in {"telegram", "entra", "residents", "webchat"}
      BY <1>6 DEF Edits
    <2>2. v = Blank /\ (op # "chat_authorize" => Blank \in Fits(p))
      BY <1>1, <1>2, <1>6, <2>1 DEF Choices, Toggles, Fits, Switches, Edits
    <2>3. QED
      BY <1>3, <1>4, <1>6, <2>2 DEF Toggles
  <1>7. CASE op \in {"telegram_callback", "link_resident"}
    <2>1. p \in {"telegram", "residents"}
      BY <1>7 DEF Edits
    <2>2. v \in Values /\ Values \subseteq Fits(p)
      BY <1>1, <1>2, <1>7, <2>1 DEF Choices, Toggles, Fits, Switches
    <2>3. QED
      BY <1>4, <1>7, <2>2 DEF Toggles
  <1> DEFINE linking == {"telegram_unlink", "entra_unlink", "unlink_resident", "chat_authorize",
                         "telegram_callback", "link_resident"}
  <1>8. CASE op \notin Toggles \cup linking /\ p \in {"name", "text"}
    <2>1. v \in Values \cup {Blank, Ragged}
      BY <1>1, <1>2, <1>8 DEF Choices
    <2>2. Values \subseteq Fits(p) /\ (p = "text" => Blank \in Fits(p))
      BY <1>2, <1>8 DEF Fits, Switches
    <2>3. QED
      BY <1>3, <1>4, <1>8, <2>1, <2>2 DEF Enterable
  <1>9. CASE op \notin Toggles \cup linking /\ p = "owner"
    <2>1. v \in {Nobody} \cup Users
      BY <1>1, <1>2, <1>9 DEF Choices
    <2>2. Fits(p) = Users \cup {Nobody}
      BY <1>2, <1>9 DEF Fits, Switches
    <2>3. QED
      BY <1>4, <1>9, <2>1, <2>2
  <1>10. CASE op \notin Toggles \cup linking /\ p \in r.hidden
    <2>1. v = "off" /\ Fits(p) = {"on", "off"}
      BY <1>1, <1>2, <1>10 DEF Choices, Fits, Switches
    <2>2. QED
      BY <1>4, <1>10, <2>1
  <1>11. CASE op \notin Toggles \cup linking /\ p = "value"
    <2>1. Fits(p) = Values \cup {Blank, Ragged, Nested}
      BY <1>2, <1>11 DEF Fits, Switches
    <2>2. v \in Fits(p)
      BY <1>1, <1>2, <1>11, <2>1 DEF Choices
    <2>3. QED
      BY <1>4, <1>11, <2>2
  <1>12. CASE /\ op \notin Toggles \cup linking
              /\ p \notin {"name", "text", "owner", "value"} \cup r.hidden
    <2>1. v \in Fits(p)
      BY <1>12 DEF Choices
    <2>2. QED
      BY <1>4, <1>12, <2>1
  <1>13. QED
    BY <1>5, <1>6, <1>7, <1>8, <1>9, <1>10, <1>11, <1>12

LEMMA ClickKeeps ==
    ASSUME IInv, NEW s \in Slots, Click(s)
    PROVE  IInv'
  <1>1. PICK r : r = req[s]
    OBVIOUS
  <1>2. /\ r \in Requests /\ r.phase = "page" /\ Sound(r, record, exists) /\ Live(r)
        /\ exists' = exists /\ record' = record /\ kind' = kind /\ active' = active
        /\ requests' = requests /\ elsewhere' = elsewhere /\ waiting' = Append(waiting, s)
        /\ exists \in BOOLEAN /\ record \in [Points -> Contents] /\ waiting \in Seq(Slots)
        /\ requests \in Nat /\ kind \in Kinds /\ \A p \in Points : record[p] \in CanHold(kind, p)
    BY <1>1 DEF Click, In, Core, Rest, IInv, TypeOK, RecordHolds, Live
  <1> DEFINE Entered(op, w) ==
                 [r EXCEPT !.phase = "posted", !.op = op, !.hidden = {},
                     !.entered = [p \in Points |-> IF p \in Edits(op) THEN w[p] ELSE r.entered[p]],
                     !.asked = {p \in Edits(op) : op = "create_group" \/ w[p] # r.entered[p]}]
  <1>3. PICK op \in OpsOf[kind] :
            /\ kind = "group" /\ r.entered = Nothing => op = "create_group"
            /\ \E w \in Inputs(r, op) : Goes(s, Entered(op, w))
    BY <1>1 DEF Click
  <1>chosen. PICK w \in Inputs(r, op) : Goes(s, Entered(op, w))
    BY <1>3
  <1>4. PICK e : e = [p \in Points |-> IF p \in Edits(op) THEN w[p] ELSE r.entered[p]]
    OBVIOUS
  <1>5. PICK a : a = {p \in Edits(op) : op = "create_group" \/ w[p] # r.entered[p]}
    OBVIOUS
  <1>6. PICK q : q = [r EXCEPT !.phase = "posted", !.op = op, !.hidden = {}, !.entered = e,
                               !.asked = a]
    OBVIOUS
  <1>7. Edits(op) \subseteq Points
    BY <1>2, EditsArePoints
  <1>8. /\ r.op = "none" /\ r.asked = {} /\ r.blurred \cap {"enabled", "followup"} = {}
        /\ kind # "group" \/ r.entered # Nothing =>
               \A p \in Points : r.entered[p] \in CanHold(kind, p)
        /\ r.raw = FALSE \/ kind = "setting"
    BY <1>2 DEF Sound, ClickedOn
  <1>9. ASSUME NEW p \in Edits(op)
        PROVE  /\ e[p] = w[p] /\ w[p] \in Contents
               /\ op # "chat_authorize" => Enterable(p, w[p])
               /\ op \in Toggles => w[p] = Flip(r.entered[p])
    <2>1. w[p] \in Choices(r, op, p)
      BY DEF Inputs
    <2>2. e[p] = w[p]
      BY <1>4, <1>7
    <2>3. QED
      BY <1>2, <2>1, <2>2, ChosenFits
  <1>10. e \in [Points -> Contents] /\ a \subseteq Points
    BY <1>2, <1>4, <1>5, <1>7, <1>9 DEF Requests
  <1>known. op \in Ops
    BY <1>2 DEF Ops
  <1>11. /\ q \in Requests
         /\ q.phase = "posted" /\ q.op = op /\ q.entered = e /\ q.asked = a
         /\ q.foreign = r.foreign /\ q.blurred = r.blurred /\ q.raw = r.raw
         /\ q.slipped = r.slipped
    BY <1>2, <1>6, <1>10, <1>known DEF Requests, Phases
  <1>12. "posted" \notin RPCs /\ Live(q)
    BY <1>11 DEF RPCs, Live
  <1>13. ClickedOn(q)
    BY <1>5, <1>8, <1>9, <1>11 DEF ClickedOn
  <1>14. \A p \in Points \ Edits(op) : e[p] = r.entered[p] /\ p \notin a
    BY <1>4, <1>5
  <1>15. ~r.raw => \A p \in Points : r.entered[p] # Ragged \/ p \in r.blurred
    BY <1>2, <1>8 DEF Sound, Combed
  <1>16. Combed(q)
    BY <1>5, <1>9, <1>11, <1>14, <1>15 DEF Combed
  <1>17. r.op \notin Toggles \cup {"create_group"}
    BY <1>8 DEF Toggles
  <1>18. exists => \A p \in Points \ (r.foreign \cup r.blurred) : r.entered[p] = record[p]
    BY <1>2, <1>8, <1>17 DEF Sound, ShownStill
  <1>19. ShownStill(q, record, exists)
    BY <1>5, <1>9, <1>11, <1>14, <1>18 DEF ShownStill
  <1>20. TogglesAway(q, record, exists)
    <2>1. SUFFICES ASSUME op \in Toggles
                   PROVE  /\ a = Edits(op)
                          /\ \A p \in Edits(op) :
                                /\ e[p] \in {"on", "off"}
                                /\ exists /\ p \notin r.foreign => record[p] = Flip(e[p])
      BY <1>11 DEF TogglesAway
    <2>2. \A p \in Edits(op) : e[p] = Flip(r.entered[p]) /\ w[p] = e[p]
      BY <1>9, <2>1
    <2>3. \A v : Flip(v) # v /\ Flip(v) \in {"on", "off"}
      BY DEF Flip
    <2>4. kind # "group" /\ Edits(op) \subseteq {"enabled", "followup"}
      BY <1>2, <2>1 DEF Toggles, Edits, OpsOf, Kinds, PointsOf
    <2>5. \A p \in Edits(op) : r.entered[p] \in {"on", "off"}
      BY <1>7, <1>8, <2>4 DEF CanHold, Fits, Switches
    <2>6. \A p \in Edits(op) : exists /\ p \notin r.foreign => record[p] = r.entered[p]
      BY <1>7, <1>8, <1>18, <2>4
    <2>7. QED
      BY <1>5, <2>2, <2>3, <2>5, <2>6 DEF Flip
  <1>21. Sound(q, record, exists)
    BY <1>11, <1>12, <1>13, <1>16, <1>19, <1>20 DEF Sound, Carried, Named, Negates, HalfSaved, Held
  <1>22. Goes(s, q)
    BY <1>chosen, <1>4, <1>5, <1>6
  <1>23. waiting' \in Seq(Slots)
    BY <1>2
  <1>24. QED
    BY <1>2, <1>11, <1>21, <1>22, <1>23, GoesKeeps

LEMMA ResubmitKeeps ==
    ASSUME IInv, NEW s \in Slots, Resubmit(s)
    PROVE  IInv'
  <1>1. PICK r : r = req[s]
    OBVIOUS
  <1>2. /\ r \in Requests /\ r.phase = "failed" /\ Sound(r, record, exists) /\ Live(r)
        /\ exists' = exists /\ record' = record /\ kind' = kind /\ active' = active
        /\ requests' = requests /\ elsewhere' = elsewhere /\ waiting' = Append(waiting, s)
        /\ exists \in BOOLEAN /\ record \in [Points -> Contents] /\ waiting \in Seq(Slots)
        /\ requests \in Nat /\ \A p \in Points : record[p] \in CanHold(kind, p)
    BY <1>1 DEF Resubmit, In, Core, Rest, IInv, TypeOK, RecordHolds, Live
  <1>3. PICK q : q = [r EXCEPT !.phase = "posted"]
    OBVIOUS
  <1>4. /\ q \in Requests
        /\ q.phase = "posted" /\ q.op = r.op /\ q.entered = r.entered /\ q.asked = r.asked
        /\ q.foreign = r.foreign /\ q.blurred = r.blurred /\ q.raw = r.raw
        /\ q.slipped = r.slipped
    BY <1>2, <1>3 DEF Requests, Phases
  <1>5. "posted" \notin RPCs
    BY DEF RPCs
  <1>6. /\ ClickedOn(q) /\ Combed(q) /\ ShownStill(q, record, exists)
        /\ TogglesAway(q, record, exists)
    BY <1>2, <1>4 DEF Sound, ClickedOn, Combed, ShownStill, TogglesAway, Live
  <1>7. Sound(q, record, exists)
    BY <1>4, <1>5, <1>6 DEF Sound, Carried, Named, Negates, HalfSaved, Held
  <1>8. Goes(s, q) /\ waiting' \in Seq(Slots)
    BY <1>1, <1>2, <1>3 DEF Resubmit
  <1>9. QED
    BY <1>2, <1>4, <1>7, <1>8, GoesKeeps

LEMMA LeaveKeeps ==
    ASSUME IInv, NEW s \in Slots, Leave(s)
    PROVE  IInv'
  BY IdleSound, StaysKeeps DEF Leave

LEMMA KillWorkerKeeps ==
    ASSUME IInv, NEW s \in Slots, KillWorker(s)
    PROVE  IInv'
  <1>1. req[s].phase \in RPCs
    BY DEF KillWorker, Running
  <1>2. req[s] \in Requests /\ Sound(req[s], record, exists)
    BY <1>1, AtWork
  <1>3. Failed(req[s]) \in Requests /\ Sound(Failed(req[s]), record, exists)
    BY <1>1, <1>2, FailedSound
  <1>4. QED
    BY <1>3, StaysKeeps DEF KillWorker

LEMMA ChangedElsewhereKeeps ==
    ASSUME IInv, ChangedElsewhere
    PROVE  IInv'
  <1>1. /\ kind' = kind /\ exists' = exists /\ active' = active /\ waiting' = waiting
        /\ requests' = requests /\ elsewhere' = elsewhere + 1
    BY DEF ChangedElsewhere
  <1>2. PICK p \in Points : \E v \in Fits(p) \ {record[p]} :
            /\ record' = [record EXCEPT ![p] = v]
            /\ req' = [t \in Slots |-> News(t, {p})]
    BY DEF ChangedElsewhere
  <1>3. /\ kind \in Kinds /\ exists \in BOOLEAN /\ record \in [Points -> Contents]
        /\ active \subseteq Users /\ waiting \in Seq(Slots) /\ requests \in Nat
        /\ elsewhere \in Nat /\ (\A x \in Points : record[x] \in CanHold(kind, x))
        /\ Fits(p) \subseteq Contents /\ Fits(p) \subseteq CanHold(kind, p)
    BY <1>2, ShownFits DEF IInv, TypeOK, RecordHolds
  <1>4. record' \in [Points -> Contents] /\ \A x \in Points : record'[x] \in CanHold(kind, x)
    BY <1>2, <1>3
  <1>5. ASSUME NEW t \in Slots
        PROVE  req'[t] \in Requests /\ Sound(req'[t], record', exists')
    <2>1. req[t] \in Requests /\ Sound(req[t], record, exists)
      BY DEF IInv, TypeOK
    <2>2. exists' = exists /\ \A x \in Points \ {p} : record'[x] = record[x]
      BY <1>1, <1>2, <1>3
    <2>3. {p} \in SUBSET Points
      BY <1>2
    <2>4. News(t, {p}) \in Requests /\ Sound(News(t, {p}), record', exists')
      BY <2>1, <2>2, <2>3, NewsKeeps
    <2>5. req'[t] = News(t, {p})
      BY <1>2
    <2>6. QED
      BY <2>4, <2>5
  <1>6. req' \in [Slots -> Requests]
    BY <1>2, <1>5
  <1>7. QED
    BY <1>1, <1>3, <1>4, <1>5, <1>6, InvNext

LEMMA UserActivationKeeps ==
    ASSUME IInv, UserActivation
    PROVE  IInv'
  <1>1. /\ kind' = kind /\ exists' = exists /\ record' = record /\ waiting' = waiting
        /\ req' = req /\ requests' = requests /\ elsewhere' = elsewhere + 1
    BY DEF UserActivation, Core
  <1>2. /\ kind \in Kinds /\ exists \in BOOLEAN /\ record \in [Points -> Contents]
        /\ active \subseteq Users /\ waiting \in Seq(Slots) /\ requests \in Nat
        /\ elsewhere \in Nat /\ req \in [Slots -> Requests]
        /\ (\A x \in Points : record[x] \in CanHold(kind, x))
        /\ \A s \in Slots : Sound(req[s], record, exists)
    BY DEF IInv, TypeOK, RecordHolds
  <1>3. active' \subseteq Users
    BY <1>2 DEF UserActivation
  <1>4. \A s \in Slots : Sound(req'[s], record', exists')
    BY <1>1, <1>2
  <1>5. QED
    BY <1>1, <1>2, <1>3, <1>4, InvNext
-------------------------------------------------------------------------------
(* The handlers. *)

\* The handlers that read the record first and send it back with a switch negated.
LEMMA NegatedSound ==
    ASSUME IInv, NEW s \in Slots, req[s].phase \in RPCs, exists, NEW p, Edits(req[s].op) = {p},
           p \in {"enabled", "followup"}, req[s].op \in Toggles,
           NEW rpc \in {"update_alarm", "set_satellite_followup"}
    PROVE  LET q == [Negated(s, p) EXCEPT !.phase = rpc] IN
           q \in Requests /\ Sound(q, record, exists)
  <1>1. PICK r : r = req[s]
    OBVIOUS
  <1>2. /\ r \in Requests /\ Sound(r, record, exists) /\ Live(r) /\ r.phase # "page"
        /\ p \in Points /\ record \in [Points -> Contents]
        /\ \A x \in Points : record[x] \in CanHold(kind, x)
    BY <1>1, AtWork
  <1>3. PICK new : new = [record EXCEPT ![p] = Flip(record[p])]
    OBVIOUS
  <1>4. PICK q : q = [Negated(s, p) EXCEPT !.phase = rpc]
    OBVIOUS
  <1>5. \A v : Flip(v) \in {"on", "off"}
    BY DEF Flip
  <1>6. Fits(p) = {"on", "off"}
    BY UsersAssumption DEF PointsOf, Fits, Switches
  <1>7. new \in [Points -> Contents]
    BY <1>2, <1>3, <1>5 DEF Contents
  <1>8. q = [r EXCEPT !.write = new, !.foreign = r.foreign \cap {p}, !.phase = rpc]
    BY <1>1, <1>2, <1>3, <1>4 DEF Negated, Requests
  <1>9. /\ q \in Requests
        /\ q.phase = rpc /\ q.op = r.op /\ q.entered = r.entered /\ q.asked = r.asked
        /\ q.write = new /\ q.foreign = r.foreign \cap {p} /\ q.blurred = r.blurred
        /\ q.raw = r.raw /\ q.slipped = r.slipped
    BY <1>2, <1>7, <1>8 DEF Requests, Phases, RPCs
  <1>10. rpc \notin {"idle", "done", "page", "posted"} /\ Live(q)
    BY <1>9 DEF Live
  <1>11. ClickedOn(q) /\ Combed(q)
    BY <1>2, <1>9, <1>10 DEF Sound, ClickedOn, Combed
  <1>12. TogglesAway(q, record, exists)
    BY <1>1, <1>2, <1>9 DEF Sound, TogglesAway
  <1>13. Negates(q, record, exists)
    <2>1. r.asked = {p} /\ r.entered[p] \in {"on", "off"}
          /\ (~r.slipped /\ p \notin r.foreign => record[p] = Flip(r.entered[p]))
      BY <1>1, <1>2 DEF Sound, TogglesAway
    <2>2. \A x \in Points \ {p} : new[x] = record[x]
      BY <1>2, <1>3
    <2>3. new[p] = Flip(record[p])
      BY <1>2, <1>3
    <2>4. Flip(Flip(r.entered[p])) = r.entered[p]
      BY <2>1 DEF Flip
    <2>5. \A x \in Points : new[x] \in CanHold(kind, x)
      BY <1>2, <1>5, <1>6, <2>2, <2>3 DEF CanHold
    <2>6. \A x \in Edits(q.op) : ~q.slipped /\ x \notin q.foreign => q.write[x] = q.entered[x]
      BY <1>1, <1>9, <2>1, <2>3, <2>4
    <2>7. QED
      BY <1>1, <1>9, <2>1, <2>2, <2>5, <2>6 DEF Negates
  <1>14. Sound(q, record, exists)
    BY <1>1, <1>9, <1>10, <1>11, <1>12, <1>13 DEF Sound, ShownStill, Carried, Named, HalfSaved, Held
  <1>15. QED
    BY <1>4, <1>9, <1>14

LEMMA ToggleAlarmKeeps ==
    ASSUME IInv, NEW s \in Slots, toggle_alarm(s)
    PROVE  IInv'
  <1>1. req[s].op = "toggle_alarm" /\ Edits(req[s].op) = {"enabled"} /\ req[s].op \in Toggles
    BY DEF toggle_alarm, By, Edits, Toggles
  <1>2. CASE Calls(s, "get_alarms")
    BY <1>1, <1>2, CallsKeeps DEF RPCs
  <1>3. CASE get_alarms(s, [Negated(s, "enabled") EXCEPT !.phase = "update_alarm"])
    <2>1. Reads(s, "get_alarms", [Negated(s, "enabled") EXCEPT !.phase = "update_alarm"])
      BY <1>3 DEF get_alarms
    <2>2. req[s].phase \in RPCs /\ "get_alarms" \in RPCs
      BY <2>1 DEF Reads, In, RPCs
    <2>3. PICK q : q = [Negated(s, "enabled") EXCEPT !.phase = "update_alarm"]
      OBVIOUS
    <2>4. exists => q \in Requests /\ Sound(q, record, exists)
      BY <1>1, <2>2, <2>3, NegatedSound
    <2>5. QED
      BY <2>1, <2>2, <2>3, <2>4, ReadsKeeps
  <1>4. CASE update_alarm(s, TRUE)
    <2>1. Sets(s, "update_alarm", {"setup", "enabled"}, TRUE, "done")
      BY <1>4 DEF update_alarm
    <2>2. req[s].phase \in RPCs /\ "update_alarm" \in RPCs
      BY <2>1 DEF Sets, In, RPCs
    <2>3. kind \in Kinds /\ req[s].op \in OpsOf[kind]
      BY <2>2, AtWork
    <2>4. {"setup", "enabled"} \subseteq Points
      BY <1>1, <2>3 DEF Kinds, PointsOf, OpsOf, Points
    <2>5. QED
      BY <1>1, <2>1, <2>2, <2>4, SetsKeeps
  <1>5. QED
    BY <1>2, <1>3, <1>4 DEF toggle_alarm

LEMMA SetSatelliteFollowupKeeps ==
    ASSUME IInv, NEW s \in Slots, set_satellite_followup(s)
    PROVE  IInv'
  <1>1. /\ req[s].op = "set_satellite_followup" /\ Edits(req[s].op) = {"followup"}
        /\ req[s].op \in Toggles
    BY DEF set_satellite_followup, By, Edits, Toggles
  <1>2. CASE Calls(s, "get_satellites")
    BY <1>1, <1>2, CallsKeeps DEF RPCs
  <1>3. CASE get_satellites(s, [Negated(s, "followup") EXCEPT !.phase = "set_satellite_followup"])
    <2>1. PICK q : q = [Negated(s, "followup") EXCEPT !.phase = "set_satellite_followup"]
      OBVIOUS
    <2>2. Reads(s, "get_satellites", q)
      BY <1>3, <2>1 DEF get_satellites
    <2>3. req[s].phase \in RPCs /\ "get_satellites" \in RPCs
      BY <2>2 DEF Reads, In, RPCs
    <2>4. exists => q \in Requests /\ Sound(q, record, exists)
      BY <1>1, <2>1, <2>3, NegatedSound
    <2>5. QED
      BY <2>2, <2>3, <2>4, ReadsKeeps
  <1>4. CASE set_satellite_followup_rpc(s, TRUE)
    <2>1. Sets(s, "set_satellite_followup", {"followup"}, TRUE, "done")
      BY <1>4 DEF set_satellite_followup_rpc
    <2>2. req[s].phase \in RPCs /\ "set_satellite_followup" \in RPCs
      BY <2>1 DEF Sets, In, RPCs
    <2>3. {"followup"} \subseteq Points
      BY <1>1, <2>2, AtWork
    <2>4. QED
      BY <1>1, <2>1, <2>2, <2>3, SetsKeeps
  <1>5. QED
    BY <1>2, <1>3, <1>4 DEF set_satellite_followup

LEMMA DeleteAlarmKeeps ==
    ASSUME IInv, NEW s \in Slots, delete_alarm(s)
    PROVE  IInv'
  <1>1. req[s].op = "delete_alarm" /\ Edits(req[s].op) = {} /\ req[s].op \notin Toggles
    BY DEF delete_alarm, By, Edits, Toggles
  <1>2. CASE Calls(s, "get_alarms")
    BY <1>1, <1>2, CallsKeeps DEF RPCs
  <1>3. CASE get_alarms(s, [req[s] EXCEPT !.phase = "delete_alarm"])
    <2>1. PICK r : r = req[s]
      OBVIOUS
    <2>2. PICK q : q = [r EXCEPT !.phase = "delete_alarm"]
      OBVIOUS
    <2>3. Reads(s, "get_alarms", q)
      BY <1>3, <2>1, <2>2 DEF get_alarms
    <2>4. r.phase = "get_alarms" /\ r.phase \in RPCs /\ "delete_alarm" \in RPCs
      BY <2>1, <2>3 DEF Reads, In, RPCs
    <2>5. r \in Requests /\ Sound(r, record, exists) /\ Live(r)
      BY <2>1, <2>4, AtWork
    <2>6. /\ q \in Requests
          /\ q.phase = "delete_alarm" /\ q.op = r.op /\ q.entered = r.entered
          /\ q.asked = r.asked /\ q.write = r.write /\ q.refused = r.refused
          /\ q.foreign = r.foreign /\ q.blurred = r.blurred /\ q.raw = r.raw
      BY <2>2, <2>5 DEF Requests, Phases, RPCs
    <2>7. ClickedOn(q) /\ Combed(q) /\ ShownStill(q, record, exists) /\ Carried(q)
      BY <1>1, <2>1, <2>4, <2>5, <2>6 DEF Sound, ClickedOn, Combed, ShownStill, Carried, Live, Sent
    <2>8. Sound(q, record, exists)
      BY <1>1, <2>1, <2>6, <2>7 DEF Sound, Named, TogglesAway, Negates, HalfSaved, Held
    <2>9. QED
      BY <2>3, <2>4, <2>6, <2>8, ReadsKeeps
  <1>4. CASE delete_alarm_rpc(s, FALSE)
    BY <1>1, <1>4, DeletesKeeps DEF delete_alarm_rpc, RPCs
  <1>5. QED
    BY <1>2, <1>3, <1>4 DEF delete_alarm

\* An RPC that sets all the points of its form.
LEMMA SetsAllKeeps ==
    ASSUME IInv, NEW s \in Slots, NEW rpc \in RPCs, NEW points, NEW reported \in BOOLEAN,
           Sets(s, rpc, points, reported, "done"), req[s].op \notin Toggles,
           Edits(req[s].op) = points, reported \/ req[s].op \in Ignoring,
           "name" \in points => rpc \in {"update_group", "set_satellite_display_name"}
    PROVE  IInv'
  <1>1. req[s].phase \in RPCs
    BY DEF Sets, In
  <1>2. points \in SUBSET Points
    BY <1>1, AtWork
  <1>3. QED
    BY <1>2, SetsKeeps

\* The handlers that make one such RPC.
LEMMA OneRPCKeeps ==
    ASSUME IInv, NEW s \in Slots,
           \/ set_satellite_room(s) \/ set_satellite_owner(s)
           \/ telegram_unlink(s) \/ entra_unlink(s) \/ unlink_resident(s)
    PROVE  IInv'
  <1>1. CASE set_satellite_room(s)
    <2>1. req[s].op = "set_satellite_room" /\ Edits(req[s].op) = {"room"} /\ req[s].op \notin Toggles
      BY <1>1 DEF set_satellite_room, By, Edits, Toggles
    <2>2. CASE Calls(s, "set_satellite_room")
      BY <2>1, <2>2, CallsKeeps DEF RPCs
    <2>3. CASE set_satellite_room_rpc(s, TRUE)
      BY <2>1, <2>3, SetsAllKeeps DEF set_satellite_room_rpc, RPCs
    <2>4. QED
      BY <1>1, <2>2, <2>3 DEF set_satellite_room
  <1>2. CASE set_satellite_owner(s)
    <2>1. req[s].op = "set_satellite_owner" /\ Edits(req[s].op) = {"owner"} /\ req[s].op \notin Toggles
      BY <1>2 DEF set_satellite_owner, By, Edits, Toggles
    <2>2. CASE Calls(s, "set_satellite_owner")
      BY <2>1, <2>2, CallsKeeps DEF RPCs
    <2>3. CASE set_satellite_owner_rpc(s, TRUE)
      BY <2>1, <2>3, SetsAllKeeps DEF set_satellite_owner_rpc, RPCs
    <2>4. QED
      BY <1>2, <2>2, <2>3 DEF set_satellite_owner
  <1>3. CASE telegram_unlink(s)
    <2>1. req[s].op = "telegram_unlink" /\ Edits(req[s].op) = {"telegram"} /\ req[s].op \notin Toggles
      BY <1>3 DEF telegram_unlink, By, Edits, Toggles
    <2>2. CASE Calls(s, "unlink_account")
      BY <2>1, <2>2, CallsKeeps DEF RPCs
    <2>3. CASE unlink_account(s, "telegram", FALSE)
      BY <2>1, <2>3, SetsAllKeeps DEF unlink_account, RPCs, Ignoring
    <2>4. QED
      BY <1>3, <2>2, <2>3 DEF telegram_unlink
  <1>4. CASE entra_unlink(s)
    <2>1. req[s].op = "entra_unlink" /\ Edits(req[s].op) = {"entra"} /\ req[s].op \notin Toggles
      BY <1>4 DEF entra_unlink, By, Edits, Toggles
    <2>2. CASE Calls(s, "unlink_account")
      BY <2>1, <2>2, CallsKeeps DEF RPCs
    <2>3. CASE unlink_account(s, "entra", FALSE)
      BY <2>1, <2>3, SetsAllKeeps DEF unlink_account, RPCs, Ignoring
    <2>4. QED
      BY <1>4, <2>2, <2>3 DEF entra_unlink
  <1>5. CASE unlink_resident(s)
    <2>1. req[s].op = "unlink_resident" /\ Edits(req[s].op) = {"residents"} /\ req[s].op \notin Toggles
      BY <1>5 DEF unlink_resident, By, Edits, Toggles
    <2>2. CASE Calls(s, "unlink_account")
      BY <2>1, <2>2, CallsKeeps DEF RPCs
    <2>3. CASE unlink_account(s, "residents", FALSE)
      BY <2>1, <2>3, SetsAllKeeps DEF unlink_account, RPCs, Ignoring
    <2>4. QED
      BY <1>5, <2>2, <2>3 DEF unlink_resident
  <1>6. QED
    BY <1>1, <1>2, <1>3, <1>4, <1>5

\* The handlers that make one RPC that deletes.
LEMMA DeletionsKeep ==
    ASSUME IInv, NEW s \in Slots,
           delete_satellite(s) \/ delete_group(s) \/ delete_car(s) \/ delete_ble_tag(s)
    PROVE  IInv'
  <1>1. CASE delete_satellite(s)
    <2>1. req[s].op = "delete_satellite" /\ Edits(req[s].op) = {} /\ req[s].op \notin Toggles
      BY <1>1 DEF delete_satellite, By, Edits, Toggles
    <2>2. CASE Calls(s, "delete_satellite")
      BY <2>1, <2>2, CallsKeeps DEF RPCs
    <2>3. CASE delete_satellite_rpc(s, TRUE)
      BY <2>1, <2>3, DeletesKeeps DEF delete_satellite_rpc, RPCs
    <2>4. QED
      BY <1>1, <2>2, <2>3 DEF delete_satellite
  <1>2. CASE delete_group(s)
    <2>1. req[s].op = "delete_group" /\ Edits(req[s].op) = {} /\ req[s].op \notin Toggles
      BY <1>2 DEF delete_group, By, Edits, Toggles
    <2>2. CASE Calls(s, "delete_group")
      BY <2>1, <2>2, CallsKeeps DEF RPCs
    <2>3. CASE delete_group_rpc(s, FALSE)
      BY <2>1, <2>3, DeletesKeeps DEF delete_group_rpc, RPCs
    <2>4. QED
      BY <1>2, <2>2, <2>3 DEF delete_group
  <1>3. CASE delete_car(s)
    <2>1. req[s].op = "delete_car" /\ Edits(req[s].op) = {} /\ req[s].op \notin Toggles
      BY <1>3 DEF delete_car, By, Edits, Toggles
    <2>2. CASE Calls(s, "delete_car")
      BY <2>1, <2>2, CallsKeeps DEF RPCs
    <2>3. CASE delete_car_rpc(s, FALSE)
      BY <2>1, <2>3, DeletesKeeps DEF delete_car_rpc, RPCs
    <2>4. QED
      BY <1>3, <2>2, <2>3 DEF delete_car
  <1>4. CASE delete_ble_tag(s)
    <2>1. req[s].op = "delete_ble_tag" /\ Edits(req[s].op) = {} /\ req[s].op \notin Toggles
      BY <1>4 DEF delete_ble_tag, By, Edits, Toggles
    <2>2. CASE Calls(s, "delete_ble_tag")
      BY <2>1, <2>2, CallsKeeps DEF RPCs
    <2>3. CASE delete_ble_tag_rpc(s, FALSE)
      BY <2>1, <2>3, DeletesKeeps DEF delete_ble_tag_rpc, RPCs
    <2>4. QED
      BY <1>4, <2>2, <2>3 DEF delete_ble_tag
  <1>5. QED
    BY <1>1, <1>2, <1>3, <1>4

\* The forms of a car, a tag or a setting are sent as a whole.
LEMMA WholeForms ==
    ASSUME IInv, NEW s \in Slots, req[s].phase \in RPCs \cup {"posted"}
    PROVE  /\ req[s].op = "save_car" => Points = {"text"} \cup Users
           /\ req[s].op = "edit_ble_tag" => Points = {"text", "owner"}
           /\ req[s].op = "update_setting" => Points = {"value"}
           /\ req[s].op = "save_group" => Points = {"name", "members"}
           /\ req[s].op \in {"save_car", "edit_ble_tag", "update_setting", "save_group"} =>
                  Edits(req[s].op) = Points /\ req[s].op \notin Toggles
  <1>1. kind \in Kinds /\ req[s].op \in OpsOf[kind]
    BY AtWork
  <1>2. req[s].op \in {"save_car", "edit_ble_tag", "update_setting", "save_group"} =>
            Edits(req[s].op) = Points /\ req[s].op \notin Toggles
    BY DEF Edits, Toggles
  <1>3. QED
    BY <1>1, <1>2 DEF Kinds, OpsOf, PointsOf, Points

LEMMA SaveCarKeeps ==
    ASSUME IInv, NEW s \in Slots, save_car(s)
    PROVE  IInv'
  <1>1. CASE Calls(s, "update_car")
    BY <1>1, CallsKeeps DEF RPCs, save_car, By, Toggles
  <1>2. CASE update_car(s, TRUE)
    <2>1. Sets(s, "update_car", {"text"} \cup Users, TRUE, "done") /\ req[s].op = "save_car"
      BY <1>2 DEF update_car, save_car, By
    <2>2. req[s].phase \in RPCs /\ "update_car" \in RPCs
      BY <2>1 DEF Sets, In, RPCs
    <2>3. Edits(req[s].op) = {"text"} \cup Users /\ req[s].op \notin Toggles
      BY <2>1, <2>2, WholeForms
    <2>4. "name" \notin {"text"} \cup Users
      BY UsersAssumption DEF PointsOf
    <2>5. QED
      BY <2>1, <2>2, <2>3, <2>4, SetsAllKeeps
  <1>3. QED
    BY <1>1, <1>2 DEF save_car

LEMMA EditBleTagKeeps ==
    ASSUME IInv, NEW s \in Slots, edit_ble_tag(s)
    PROVE  IInv'
  <1>1. CASE Calls(s, "update_ble_tag")
    BY <1>1, CallsKeeps DEF RPCs, edit_ble_tag, By, Toggles
  <1>2. CASE update_ble_tag(s, TRUE)
    <2>1. Sets(s, "update_ble_tag", {"text", "owner"}, TRUE, "done") /\ req[s].op = "edit_ble_tag"
      BY <1>2 DEF update_ble_tag, edit_ble_tag, By
    <2>2. req[s].phase \in RPCs /\ "update_ble_tag" \in RPCs
      BY <2>1 DEF Sets, In, RPCs
    <2>3. Edits(req[s].op) = {"text", "owner"} /\ req[s].op \notin Toggles
      BY <2>1, <2>2, WholeForms
    <2>4. QED
      BY <2>1, <2>2, <2>3, SetsAllKeeps
  <1>3. QED
    BY <1>1, <1>2 DEF edit_ble_tag

LEMMA UpdateSettingKeeps ==
    ASSUME IInv, NEW s \in Slots, update_setting(s)
    PROVE  IInv'
  <1>1. CASE Calls(s, "update_setting")
    BY <1>1, CallsKeeps DEF RPCs, update_setting, By, Toggles
  <1>2. CASE update_setting_rpc(s, TRUE)
    <2>1. Sets(s, "update_setting", {"value"}, TRUE, "done") /\ req[s].op = "update_setting"
      BY <1>2 DEF update_setting_rpc, update_setting, By
    <2>2. req[s].phase \in RPCs /\ "update_setting" \in RPCs
      BY <2>1 DEF Sets, In, RPCs
    <2>3. Edits(req[s].op) = {"value"} /\ req[s].op \notin Toggles
      BY <2>1, <2>2, WholeForms
    <2>4. QED
      BY <2>1, <2>2, <2>3, SetsAllKeeps
  <1>3. QED
    BY <1>1, <1>2 DEF update_setting

LEMMA SaveGroupKeeps ==
    ASSUME IInv, NEW s \in Slots, save_group(s)
    PROVE  IInv'
  <1>1. req[s].op = "save_group" /\ req[s].op \notin Toggles
    BY DEF save_group, By, Toggles
  <1>2. CASE \/ req[s].entered["name"] = Blank /\ Calls(s, "set_group_satellites")
             \/ req[s].entered["name"] # Blank /\ Calls(s, "update_group")
    <2>1. req[s].phase \in RPCs \cup {"posted"}
      BY <1>2 DEF Calls, In
    <2>2. "name" \in Edits(req[s].op)
      BY <1>1, <2>1, WholeForms
    <2>3. QED
      BY <1>1, <1>2, <2>2, CallsKeeps DEF RPCs
  <1>3. CASE update_group(s, FALSE, "set_group_satellites")
    <2>1. Sets(s, "update_group", {"name"}, FALSE, "set_group_satellites")
      BY <1>3 DEF update_group
    <2>2. req[s].phase \in RPCs /\ "update_group" \in RPCs
      BY <2>1 DEF Sets, In, RPCs
    <2>3. Edits(req[s].op) = {"name", "members"} /\ {"name"} \in SUBSET Points
      BY <1>1, <2>2, WholeForms
    <2>4. QED
      BY <1>1, <2>1, <2>2, <2>3, SetsKeeps DEF Ignoring
  <1>4. CASE set_group_satellites(s, FALSE)
    <2>1. Sets(s, "set_group_satellites", {"members"}, FALSE, "done")
      BY <1>4 DEF set_group_satellites
    <2>2. req[s].phase \in RPCs /\ "set_group_satellites" \in RPCs
      BY <2>1 DEF Sets, In, RPCs
    <2>3. Edits(req[s].op) = {"name", "members"} /\ {"members"} \in SUBSET Points
      BY <1>1, <2>2, WholeForms
    <2>4. QED
      BY <1>1, <2>1, <2>2, <2>3, SetsKeeps DEF Ignoring
  <1>5. QED
    BY <1>2, <1>3, <1>4 DEF save_group

LEMMA SetSatelliteNameKeeps ==
    ASSUME IInv, NEW s \in Slots, set_satellite_name(s)
    PROVE  IInv'
  <1>1. /\ req[s].op = "set_satellite_name" /\ Edits(req[s].op) = {"name"}
        /\ req[s].op \notin Toggles
    BY DEF set_satellite_name, By, Edits, Toggles
  <1>2. CASE req[s].entered["name"] = Blank /\ Ends(s)
    <2>1. req[s].phase \in RPCs \cup {"posted"} /\ Accepts(s, Done(req[s]))
      BY <1>2 DEF Ends, In
    <2>2. req[s] \in Requests /\ req[s].asked \subseteq {"name"}
      BY <1>1, <2>1, AtWork
    <2>3. QED
      BY <1>2, <2>1, <2>2, EndsKeeps
  <1>3. CASE req[s].entered["name"] # Blank /\ Calls(s, "set_satellite_display_name")
    BY <1>1, <1>3, CallsKeeps DEF RPCs
  <1>4. CASE set_satellite_display_name(s, TRUE)
    BY <1>1, <1>4, SetsAllKeeps DEF set_satellite_display_name, RPCs
  <1>5. QED
    BY <1>2, <1>3, <1>4 DEF set_satellite_name

LEMMA CreateGroupKeeps ==
    ASSUME IInv, NEW s \in Slots, create_group(s)
    PROVE  IInv'
  <1>1. /\ req[s].op = "create_group" /\ Edits(req[s].op) = {"name"}
        /\ req[s].op \notin Toggles
    BY DEF create_group, By, Edits, Toggles
  <1>2. CASE req[s].entered["name"] = Blank /\ Ends(s)
    <2>1. req[s].phase \in RPCs \cup {"posted"} /\ Accepts(s, Done(req[s]))
      BY <1>2 DEF Ends, In
    <2>2. req[s] \in Requests /\ req[s].asked \subseteq {"name"}
      BY <1>1, <2>1, AtWork
    <2>3. QED
      BY <1>2, <2>1, <2>2, EndsKeeps
  <1>3. CASE req[s].entered["name"] # Blank /\ Calls(s, "create_group")
    BY <1>1, <1>3, CallsKeeps DEF RPCs
  <1>4. CASE create_group_rpc(s, FALSE)
    BY <1>1, <1>4, CreateKeeps
  <1>5. QED
    BY <1>2, <1>3, <1>4 DEF create_group

LEMMA TelegramCallbackKeeps ==
    ASSUME IInv, NEW s \in Slots, telegram_callback(s)
    PROVE  IInv'
  <1>1. /\ req[s].op = "telegram_callback" /\ Edits(req[s].op) = {"telegram"}
        /\ req[s].op \notin Toggles
    BY DEF telegram_callback, By, Edits, Toggles
  <1>2. CASE In(s, "posted") /\ Accepts(s, Done([req[s] EXCEPT !.warned = TRUE]))
    <2>1. PICK q : q = [req[s] EXCEPT !.warned = TRUE]
      OBVIOUS
    <2>2. req[s] \in Requests
      BY DEF IInv, TypeOK
    <2>3. q \in Requests /\ q.warned
      BY <2>1, <2>2 DEF Requests
    <2>4. QED
      BY <1>2, <2>1, <2>3, EndsKeeps
  <1>3. CASE Calls(s, "link_account")
    BY <1>1, <1>3, CallsKeeps DEF RPCs
  <1>4. CASE link_account(s, "telegram", TRUE)
    BY <1>1, <1>4, SetsAllKeeps DEF link_account, RPCs
  <1>5. QED
    BY <1>2, <1>3, <1>4 DEF telegram_callback

LEMMA LinkResidentKeeps ==
    ASSUME IInv, NEW s \in Slots, link_resident(s)
    PROVE  IInv'
  <1>1. /\ req[s].op = "link_resident" /\ Edits(req[s].op) = {"residents"}
        /\ req[s].op \notin Toggles
    BY DEF link_resident, By, Edits, Toggles
  <1>2. CASE Calls(s, "get_residents")
    BY <1>1, <1>2, CallsKeeps DEF RPCs
  <1>3. CASE /\ In(s, "get_residents")
             /\ UNCHANGED <<Core, Rest, waiting>>
             /\ \/ Goes(s, [req[s] EXCEPT !.phase = "link_account"])
                \/ Goes(s, Done(Refused(req[s], {"residents"}, FALSE)))
                \/ Goes(s, Failed(req[s]))
    <2>1. PICK r : r = req[s]
      OBVIOUS
    <2>2. r.phase = "get_residents" /\ r.phase \in RPCs
      BY <1>3, <2>1 DEF In, RPCs
    <2>3. /\ r \in Requests /\ Sound(r, record, exists) /\ Live(r) /\ r.phase # "page"
          /\ r.asked \subseteq {"residents"} /\ "residents" \in Points
      BY <1>1, <2>1, <2>2, AtWork
    <2>4. CASE Goes(s, [r EXCEPT !.phase = "link_account"])
      <3>1. PICK q : q = [r EXCEPT !.phase = "link_account"]
        OBVIOUS
      <3>2. /\ q \in Requests
            /\ q.phase = "link_account" /\ q.op = r.op /\ q.entered = r.entered
            /\ q.asked = r.asked /\ q.write = r.write /\ q.refused = r.refused
            /\ q.foreign = r.foreign /\ q.blurred = r.blurred /\ q.raw = r.raw
        BY <2>3, <3>1 DEF Requests, Phases, RPCs
      <3>3. ClickedOn(q) /\ Combed(q) /\ ShownStill(q, record, exists) /\ Carried(q)
        BY <2>2, <2>3, <3>2 DEF Sound, ClickedOn, Combed, ShownStill, Carried, Live, Sent
      <3>4. Sound(q, record, exists)
        BY <1>1, <2>1, <3>2, <3>3 DEF Sound, Named, TogglesAway, Negates, HalfSaved, Held
      <3>5. QED
        BY <1>3, <2>4, <3>1, <3>2, <3>4, StaysKeeps
    <2>5. CASE Goes(s, Done(Refused(r, {"residents"}, FALSE)))
      <3>1. PICK w : w = Refused(r, {"residents"}, FALSE)
        OBVIOUS
      <3>2. r \in Requests /\ {"residents"} \in SUBSET Points
        BY <2>3
      <3>3. /\ w \in Requests /\ w.op = r.op /\ w.asked = r.asked
            /\ w.refused = r.refused \cup {"residents"}
        <4>1. PICK points \in SUBSET Points : points = {"residents"}
          BY <3>2
        <4>2. PICK reported \in BOOLEAN : w = Refused(r, points, reported)
          BY <3>1, <4>1
        <4>3. /\ w \in Requests /\ w.op = r.op /\ w.asked = r.asked
              /\ w.refused = r.refused \cup points
          BY <3>2, <4>2, RefusedFields
        <4>4. QED
          BY <4>1, <4>3
      <3>4. w.asked \subseteq Unheard(w)
        BY <1>1, <2>1, <2>3, <3>3 DEF Unheard, Ignoring
      <3>5. Done(w) \in Requests /\ Sound(Done(w), record, exists)
        BY <3>3, <3>4, DoneSound
      <3>6. QED
        BY <1>3, <2>5, <3>1, <3>5, StaysKeeps
    <2>6. CASE Goes(s, Failed(r))
      <3>1. Failed(r) \in Requests /\ Sound(Failed(r), record, exists)
        BY <2>2, <2>3, FailedSound
      <3>2. QED
        BY <1>3, <2>6, <3>1, StaysKeeps
    <2>7. QED
      BY <1>3, <2>1, <2>4, <2>5, <2>6
  <1>4. CASE link_account(s, "residents", FALSE)
    BY <1>1, <1>4, SetsAllKeeps DEF link_account, RPCs, Ignoring
  <1>5. QED
    BY <1>2, <1>3, <1>4 DEF link_resident

\* What the click is to store is drawn by the handler.
LEMMA ChatAuthorizeKeeps ==
    ASSUME IInv, NEW s \in Slots, chat_authorize(s)
    PROVE  IInv'
  <1>1. PICK r : r = req[s]
    OBVIOUS
  <1>2. /\ r.op = "chat_authorize" /\ Edits(r.op) = {"webchat"} /\ r.op \notin Toggles
        /\ r.op # "create_group"
    BY <1>1 DEF chat_authorize, By, Edits, Toggles
  <1>3. CASE In(s, "posted") /\ \E token \in Tokens :
                 Accepts(s, [r EXCEPT !.phase = "link_account", !.asked = {"webchat"},
                                !.entered = [r.entered EXCEPT !["webchat"] = token],
                                !.write = [r.entered EXCEPT !["webchat"] = token]])
    <2>1. PICK token \in Tokens :
                 Accepts(s, [r EXCEPT !.phase = "link_account", !.asked = {"webchat"},
                                !.entered = [r.entered EXCEPT !["webchat"] = token],
                                !.write = [r.entered EXCEPT !["webchat"] = token]])
      BY <1>3
    <2>2. PICK drawn : drawn = [r.entered EXCEPT !["webchat"] = token]
      OBVIOUS
    <2>3. r.phase = "posted"
      BY <1>1, <1>3 DEF In
    <2>4. /\ r \in Requests /\ Sound(r, record, exists) /\ Live(r) /\ r.phase # "page"
          /\ "webchat" \in Points /\ r.asked \subseteq {"webchat"}
      BY <1>1, <1>2, <2>3, AtWork
    <2>5. drawn \in [Points -> Contents]
      BY <2>2, <2>4 DEF Requests, Contents
    <2>6. drawn["webchat"] = token /\ \A p \in Points \ {"webchat"} : drawn[p] = r.entered[p]
      BY <2>2, <2>4 DEF Requests
    <2>7. token \in Fits("webchat") /\ token # Ragged
      BY UsersAssumption, RaggedAssumption DEF Fits, Switches, PointsOf
    <2>8. PICK d : d = [r EXCEPT !.asked = {"webchat"}, !.entered = drawn]
      OBVIOUS
    <2>9. /\ d \in Requests
          /\ d.phase = "posted" /\ d.op = r.op /\ d.entered = drawn /\ d.asked = {"webchat"}
          /\ d.foreign = r.foreign /\ d.blurred = r.blurred /\ d.raw = r.raw
      BY <2>3, <2>4, <2>5, <2>8 DEF Requests
    <2>10. "posted" \notin RPCs
      BY DEF RPCs
    <2>11. ClickedOn(d) /\ Combed(d) /\ ShownStill(d, record, exists)
      BY <1>2, <2>3, <2>4, <2>6, <2>7, <2>9
         DEF Sound, ClickedOn, Combed, ShownStill, Live
    <2>12. Sound(d, record, exists)
      BY <1>2, <2>9, <2>10, <2>11
         DEF Sound, Carried, Named, TogglesAway, Negates, HalfSaved, Held
    <2>13. PICK q : q = [d EXCEPT !.phase = "link_account", !.write = drawn]
      OBVIOUS
    <2>14. \A p \in Edits(d.op) : drawn[p] = Sent(d, p) /\ drawn[p] \in Fits(p)
      BY <1>2, <2>6, <2>7, <2>9 DEF Sent, Tidied
    <2>15. "link_account" \in RPCs
      BY DEF RPCs
    <2>16. q \in Requests /\ Sound(q, record, exists)
      BY <2>5, <2>9, <2>12, <2>13, <2>14, <2>15, CarryingSound
    <2>17. q = [r EXCEPT !.phase = "link_account", !.asked = {"webchat"}, !.entered = drawn,
                         !.write = drawn]
      BY <2>4, <2>8, <2>13 DEF Requests
    <2>18. QED
      BY <2>1, <2>2, <2>16, <2>17, AcceptsKeeps
  <1>4. CASE link_account(s, "webchat", FALSE)
    BY <1>1, <1>2, <1>4, SetsAllKeeps DEF link_account, RPCs, Ignoring
  <1>5. QED
    BY <1>1, <1>3, <1>4 DEF chat_authorize

LEMMA HandlerKeeps ==
    ASSUME IInv, NEW s \in Slots, Handler(s)
    PROVE  IInv'
  BY ToggleAlarmKeeps, SetSatelliteFollowupKeeps, DeleteAlarmKeeps, OneRPCKeeps, DeletionsKeep,
     SaveCarKeeps, EditBleTagKeeps, UpdateSettingKeeps, SaveGroupKeeps, SetSatelliteNameKeeps,
     CreateGroupKeeps, TelegramCallbackKeeps, LinkResidentKeeps, ChatAuthorizeKeeps DEF Handler
-------------------------------------------------------------------------------
(* The theorems. *)

LEMMA InitInv == Init => IInv
  <1>1. ASSUME Init
        PROVE  IInv
    <2>1. kind \in Kinds /\ record \in Originals[kind] /\ exists = TRUE
      BY <1>1 DEF Init
    <2>2. record \in [Points -> Contents] /\ \A p \in Points : record[p] \in CanHold(kind, p)
      BY <2>1, OriginalsAssumption DEF Points
    <2>3. Idle \in Requests /\ Sound(Idle, record, exists)
      BY IdleSound
    <2>4. req = [s \in Slots |-> Idle] /\ waiting = <<>> /\ active = Users
          /\ requests = 0 /\ elsewhere = 0
      BY <1>1 DEF Init
    <2>5. TypeOK
      BY <2>1, <2>2, <2>3, <2>4 DEF TypeOK
    <2>6. QED
      BY <2>2, <2>3, <2>4, <2>5 DEF IInv, RecordHolds
  <1>2. QED
    BY <1>1

LEMMA NextKeeps == IInv /\ [Next]_vars => IInv'
  <1>1. ASSUME IInv, Next
        PROVE  IInv'
    BY <1>1, OpenPageKeeps, ClickKeeps, ResubmitKeeps, LeaveKeeps, HandlerKeeps, KillWorkerKeeps,
       ChangedElsewhereKeeps, UserActivationKeeps DEF Next
  <1>2. ASSUME IInv, UNCHANGED vars
        PROVE  IInv'
    <2>1. /\ kind' = kind /\ exists' = exists /\ record' = record /\ active' = active
          /\ req' = req /\ waiting' = waiting /\ requests' = requests /\ elsewhere' = elsewhere
      BY <1>2 DEF vars
    <2>2. /\ kind \in Kinds /\ exists \in BOOLEAN /\ record \in [Points -> Contents]
          /\ active \subseteq Users /\ req \in [Slots -> Requests] /\ waiting \in Seq(Slots)
          /\ requests \in Nat /\ elsewhere \in Nat
          /\ (\A p \in Points : record[p] \in CanHold(kind, p))
          /\ \A s \in Slots : Sound(req[s], record, exists)
      BY <1>2 DEF IInv, TypeOK, RecordHolds
    <2>3. \A s \in Slots : Sound(req'[s], record', exists')
      BY <2>1, <2>2
    <2>4. QED
      BY <2>1, <2>2, <2>3, InvNext
  <1>3. QED
    BY <1>1, <1>2

THEOREM RecordInvariant == Spec => []IInv
  BY InitInv, NextKeeps, PTL DEF Spec

\* Every variable has its type, for any number of pages, workers, users and values.
THEOREM RecordTypeCorrect == Spec => []TypeOK
  <1>1. IInv => TypeOK
    BY DEF IInv
  <1>2. QED
    BY RecordInvariant, <1>1, PTL

\* A click that ends without a warning is in Core, but for the exceptions ClicksHold names.
THEOREM UnwarnedClicksHold == Spec => []ClicksHold
  <1>1. IInv => ClicksHold
    BY DEF IInv, Sound, Held, ClicksHold, In
  <1>2. QED
    BY RecordInvariant, <1>1, PTL
-------------------------------------------------------------------------------
(* What a step changes. *)

\* The step formula of ChangesWereAsked.
Asked ==
    \A s \in Slots : req'[s].phase # req[s].phase /\ exists /\ exists' =>
        \A p \in Points : record'[p] # record[p] =>
            p \in req[s].asked \cup req[s].foreign \cup req[s].blurred

\* News changes no phase.
LEMMA OthersStay ==
    ASSUME IInv, NEW t \in Slots, NEW changed
    PROVE  News(t, changed).phase = req[t].phase
  <1>1. req[t] \in Requests
    BY DEF IInv, TypeOK
  <1>2. CASE In(t, "idle")
    BY <1>2 DEF News, In
  <1>3. CASE In(t, "done")
    BY <1>1, <1>3 DEF News, In, Requests
  <1>4. CASE ~In(t, "idle") /\ ~In(t, "done")
    BY <1>1, <1>4 DEF News, Requests
  <1>5. QED
    BY <1>2, <1>3, <1>4

\* A handler sends back what it was asked to change, or what Core holds.
LEMMA SetsAsked ==
    ASSUME IInv, NEW s \in Slots, NEW rpc \in RPCs, NEW points, NEW reported, NEW next,
           Sets(s, rpc, points, reported, next), req[s].op # "create_group",
           req[s].op \in Toggles => rpc \in {"update_alarm", "set_satellite_followup"}
    PROVE  Asked
  <1>1. PICK r : r = req[s]
    OBVIOUS
  <1>2. r.phase = rpc /\ exists' = exists
    BY <1>1 DEF Sets, In
  <1>3. r \in Requests /\ Sound(r, record, exists) /\ Live(r)
    BY <1>1, <1>2, AtWork
  <1>4. PICK q : Goes(s, q)
    BY DEF Sets
  <1>5. \A t \in Slots \ {s} : req'[t].phase = req[t].phase
    BY <1>4, OthersStay DEF Goes
  <1>6. record' = record
        \/ (exists /\ record' = [p \in Points |-> IF p \in points THEN r.write[p] ELSE record[p]])
    BY <1>1 DEF Sets
  <1>7. exists => \A p \in Points \ (r.asked \cup r.foreign \cup r.blurred) : r.write[p] = record[p]
    <2>1. CASE r.op \in Toggles
      BY <1>1, <1>2, <1>3, <2>1 DEF Sound, Negates
    <2>2. CASE r.op \notin Toggles
      <3>1. r.phase \in RPCs /\ r.op \notin Toggles \cup {"create_group"}
        BY <1>1, <1>2, <2>2
      <3>2. QED
        BY <1>3, <3>1, UntouchedIsSent
    <2>3. QED
      BY <2>1, <2>2
  <1>8. QED
    BY <1>1, <1>5, <1>6, <1>7 DEF Asked

\* The other steps of a handler leave the record alone, or there is none before or after.
LEMMA OtherStepsAsk ==
    ASSUME NEW s \in Slots, NEW rpc, NEW q, NEW reported,
           \/ Calls(s, rpc) \/ Accepts(s, q) \/ Reads(s, rpc, q) \/ Deletes(s, rpc, reported)
           \/ create_group_rpc(s, reported)
    PROVE  Asked
  <1>1. record' = record \/ ~exists
    BY DEF Calls, Accepts, Reads, Deletes, create_group_rpc, Core
  <1>2. QED
    BY <1>1 DEF Asked

LEMMA HandlerAsked ==
    ASSUME IInv, NEW s \in Slots, Handler(s)
    PROVE  Asked
  <1>1. CASE toggle_alarm(s) \/ delete_alarm(s)
    BY <1>1, SetsAsked, OtherStepsAsk
       DEF toggle_alarm, delete_alarm, get_alarms, update_alarm, delete_alarm_rpc, By, RPCs
  <1>2. CASE set_satellite_followup(s)
    BY <1>2, SetsAsked, OtherStepsAsk
       DEF set_satellite_followup, get_satellites, set_satellite_followup_rpc, By, RPCs
  <1>3. CASE set_satellite_room(s) \/ set_satellite_owner(s)
    BY <1>3, SetsAsked, OtherStepsAsk
       DEF set_satellite_room, set_satellite_owner, set_satellite_room_rpc,
           set_satellite_owner_rpc, By, RPCs, Toggles
  <1>4. CASE set_satellite_name(s) \/ delete_satellite(s)
    BY <1>4, SetsAsked, OtherStepsAsk
       DEF set_satellite_name, Ends, set_satellite_display_name, delete_satellite,
           delete_satellite_rpc, By, RPCs, Toggles
  <1>5. CASE create_group(s) \/ delete_group(s)
    BY <1>5, OtherStepsAsk DEF create_group, Ends, delete_group, delete_group_rpc
  <1>6. CASE save_group(s)
    BY <1>6, SetsAsked, OtherStepsAsk
       DEF save_group, update_group, set_group_satellites, By, RPCs, Toggles
  <1>7. CASE save_car(s) \/ delete_car(s)
    BY <1>7, SetsAsked, OtherStepsAsk
       DEF save_car, delete_car, update_car, delete_car_rpc, By, RPCs, Toggles
  <1>8. CASE edit_ble_tag(s) \/ delete_ble_tag(s)
    BY <1>8, SetsAsked, OtherStepsAsk
       DEF edit_ble_tag, delete_ble_tag, update_ble_tag, delete_ble_tag_rpc, By, RPCs, Toggles
  <1>9. CASE update_setting(s)
    BY <1>9, SetsAsked, OtherStepsAsk DEF update_setting, update_setting_rpc, By, RPCs, Toggles
  <1>10. CASE telegram_callback(s)
    BY <1>10, SetsAsked, OtherStepsAsk DEF telegram_callback, link_account, By, RPCs, Toggles
  <1>11. CASE telegram_unlink(s) \/ entra_unlink(s) \/ unlink_resident(s)
    BY <1>11, SetsAsked, OtherStepsAsk
       DEF telegram_unlink, entra_unlink, unlink_resident, unlink_account, By, RPCs, Toggles
  <1>12. CASE link_resident(s)
    <2>1. CASE UNCHANGED <<Core, Rest, waiting>>
      BY <2>1 DEF Core, Asked
    <2>2. CASE Calls(s, "get_residents") \/ link_account(s, "residents", FALSE)
      BY <1>12, <2>2, SetsAsked, OtherStepsAsk DEF link_resident, link_account, By, RPCs, Toggles
    <2>3. QED
      BY <1>12, <2>1, <2>2 DEF link_resident
  <1>13. CASE chat_authorize(s)
    BY <1>13, SetsAsked, OtherStepsAsk DEF chat_authorize, link_account, By, RPCs, Toggles
  <1>14. QED
    BY <1>1, <1>2, <1>3, <1>4, <1>5, <1>6, <1>7, <1>8, <1>9, <1>10, <1>11, <1>12, <1>13
       DEF Handler

LEMMA NextAsked ==
    ASSUME IInv, Next
    PROVE  Asked
  <1>1. CASE \E s \in Slots : OpenPage(s) \/ Click(s) \/ Resubmit(s) \/ Leave(s) \/ KillWorker(s)
    BY <1>1 DEF OpenPage, Click, Resubmit, Leave, KillWorker, Core, Asked
  <1>2. CASE \E s \in Slots : Handler(s)
    BY <1>2, HandlerAsked
  <1>3. CASE ChangedElsewhere
    <2>1. \A t \in Slots : req'[t].phase = req[t].phase
      BY <1>3, OthersStay DEF ChangedElsewhere
    <2>2. QED
      BY <2>1 DEF Asked
  <1>4. CASE UserActivation
    BY <1>4 DEF UserActivation, Core, Asked
  <1>5. QED
    BY <1>1, <1>2, <1>3, <1>4 DEF Next

\* No click has side effects: a step of a handler changes only what its click was to
\* change, what others changed since it was read, or what the page could not show.
THEOREM NoSideEffects == Spec => ChangesWereAsked
  <1>1. IInv /\ [Next]_vars => [Asked]_vars
    BY NextAsked
  <1>2. Spec => [][Asked]_vars
    BY RecordInvariant, <1>1, PTL DEF Spec
  <1>3. QED
    BY <1>2 DEF ChangesWereAsked, Asked
-------------------------------------------------------------------------------
(* What a step stores. *)

\* The step formula of StoresWhatFits.
Stored ==
    \A s \in Slots : req'[s].phase # req[s].phase /\ exists' =>
        \A p \in Points : record'[p] # record[p] \/ ~exists =>
            record'[p] \in Fits(p) /\ (record'[p] = Ragged => req[s].raw)

\* What a handler sends is tidy, but for the raw editor's JSON.
LEMMA SetsStored ==
    ASSUME IInv, NEW s \in Slots, NEW rpc \in RPCs, NEW points \in SUBSET Points, NEW reported,
           NEW next, Sets(s, rpc, points, reported, next),
           IF req[s].op \in Toggles
           THEN /\ rpc \in {"update_alarm", "set_satellite_followup"}
                /\ points \subseteq {"setup", "enabled", "followup"}
           ELSE points \subseteq Edits(req[s].op),
           "name" \in points => rpc \in {"update_group", "set_satellite_display_name"}
    PROVE  Stored
  <1>1. PICK r : r = req[s]
    OBVIOUS
  <1>2. r.phase = rpc /\ exists' = exists
    BY <1>1 DEF Sets, In
  <1>3. r \in Requests /\ Sound(r, record, exists)
    BY <1>1, <1>2, AtWork
  <1>4. PICK q : Goes(s, q)
    BY DEF Sets
  <1>5. \A t \in Slots \ {s} : req'[t].phase = req[t].phase
    BY <1>4, OthersStay DEF Goes
  <1>6. record' = record
        \/ (exists /\ record' = [p \in Points |-> IF p \in points THEN r.write[p] ELSE record[p]])
    BY <1>1 DEF Sets
  <1>7. \A p \in points : r.write[p] \in Fits(p)
    BY <1>1, <1>2, <1>3, SentFits
  <1>8. ASSUME NEW p \in points, r.write[p] = Ragged
        PROVE  r.raw
    <2>1. CASE r.op \in Toggles
      <3>1. Fits(p) \subseteq {"on", "off"} \cup Values
        BY <1>1, <2>1, UsersAssumption DEF Fits, Switches, PointsOf
      <3>2. QED
        BY <1>7, <1>8, <3>1, RaggedAssumption
    <2>2. CASE r.op \notin Toggles
      <3>1. r.write[p] = Sent(r, p)
        BY <1>1, <1>2, <1>3, <2>2 DEF Sound, Carried
      <3>2. Tidy # Ragged
        BY TidyAssumption, RaggedAssumption
      <3>3. QED
        BY <1>8, <3>1, <3>2 DEF Sent, Tidied
    <2>3. QED
      BY <2>1, <2>2
  <1>9. \A p \in Points : record'[p] # record[p] => p \in points /\ record'[p] = r.write[p]
    BY <1>6
  <1>10. QED
    BY <1>1, <1>2, <1>5, <1>6, <1>7, <1>8, <1>9 DEF Stored

\* The new group has a name, and no members.
LEMMA CreateStored ==
    ASSUME IInv, NEW s \in Slots, req[s].op = "create_group", create_group_rpc(s, FALSE)
    PROVE  Stored
  <1>1. PICK r : r = req[s]
    OBVIOUS
  <1>2. r.phase = "create_group" /\ r.op = "create_group" /\ r.phase \in RPCs
    BY <1>1 DEF create_group_rpc, In, RPCs
  <1>3. /\ r \in Requests /\ Sound(r, record, exists) /\ r.op \in OpsOf[kind] /\ kind \in Kinds
    BY <1>1, <1>2, AtWork
  <1>4. Points = {"name", "members"}
    BY <1>2, <1>3 DEF Kinds, PointsOf, OpsOf, Points
  <1>5. "name" \notin Users /\ "members" \notin Users
    BY UsersAssumption DEF PointsOf
  <1>6. r.write["name"] \in Fits("name") /\ Fits("name") = Values /\ Blank \in Fits("members")
    BY <1>2, <1>3, <1>5 DEF Sound, Named, Fits, Switches
  <1>7. PICK q : Goes(s, q)
    BY DEF create_group_rpc
  <1>8. \A t \in Slots \ {s} : req'[t].phase = req[t].phase
    BY <1>7, OthersStay DEF Goes
  <1>9. CASE ~exists /\ record' = [Nothing EXCEPT !["name"] = r.write["name"]]
    <2>1. record'["name"] = r.write["name"] /\ record'["members"] = Blank
      BY <1>4, <1>9 DEF Nothing
    <2>2. QED
      BY <1>4, <1>6, <1>8, <2>1, RaggedAssumption DEF Stored
  <1>10. CASE UNCHANGED Core
    BY <1>10 DEF Core, Stored
  <1>11. QED
    BY <1>1, <1>9, <1>10 DEF create_group_rpc

\* The other steps of a handler leave what is in Core alone, or delete it.
LEMMA OtherStepsStore ==
    ASSUME NEW s \in Slots, NEW rpc, NEW q, NEW reported,
           \/ Calls(s, rpc) \/ Accepts(s, q) \/ Reads(s, rpc, q) \/ Deletes(s, rpc, reported)
    PROVE  Stored
  <1>1. record' = record /\ (exists' => exists)
    BY DEF Calls, Accepts, Reads, Deletes, Core
  <1>2. QED
    BY <1>1 DEF Stored

\* An RPC that sets points of the form.
LEMMA SetsFormStored ==
    ASSUME IInv, NEW s \in Slots, NEW rpc \in RPCs, NEW points, NEW reported, NEW next,
           Sets(s, rpc, points, reported, next), req[s].op \notin Toggles,
           points \subseteq Edits(req[s].op),
           "name" \in points => rpc \in {"update_group", "set_satellite_display_name"}
    PROVE  Stored
  <1>1. req[s].phase \in RPCs
    BY DEF Sets, In
  <1>2. points \in SUBSET Points
    BY <1>1, AtWork
  <1>3. QED
    BY <1>2, SetsStored

\* The two that negate.
LEMMA TogglesStored ==
    ASSUME IInv, NEW s \in Slots,
           \/ req[s].op = "toggle_alarm" /\ update_alarm(s, TRUE)
           \/ req[s].op = "set_satellite_followup" /\ set_satellite_followup_rpc(s, TRUE)
    PROVE  Stored
  <1>1. PICK rpc \in {"update_alarm", "set_satellite_followup"} : In(s, rpc)
    BY DEF update_alarm, set_satellite_followup_rpc, Sets
  <1>2. req[s].phase \in RPCs
    BY <1>1 DEF In, RPCs
  <1>3. kind \in Kinds /\ req[s].op \in OpsOf[kind] /\ req[s].op \in Toggles
    BY <1>2, AtWork DEF Toggles
  <1>4. CASE req[s].op = "toggle_alarm" /\ update_alarm(s, TRUE)
    <2>1. {"setup", "enabled"} \in SUBSET Points
      BY <1>3, <1>4 DEF Kinds, PointsOf, OpsOf, Points
    <2>2. QED
      BY <1>3, <1>4, <2>1, SetsStored DEF update_alarm, RPCs
  <1>5. CASE req[s].op = "set_satellite_followup" /\ set_satellite_followup_rpc(s, TRUE)
    <2>1. {"followup"} \in SUBSET Points
      BY <1>3, <1>5 DEF Kinds, PointsOf, OpsOf, Points
    <2>2. QED
      BY <1>3, <1>5, <2>1, SetsStored DEF set_satellite_followup_rpc, RPCs
  <1>6. QED
    BY <1>4, <1>5

\* The forms that are sent as a whole.
LEMMA WholeFormsStored ==
    ASSUME IInv, NEW s \in Slots,
           \/ req[s].op = "save_car" /\ update_car(s, TRUE)
           \/ req[s].op = "edit_ble_tag" /\ update_ble_tag(s, TRUE)
           \/ req[s].op = "update_setting" /\ update_setting_rpc(s, TRUE)
           \/ req[s].op = "save_group" /\ update_group(s, FALSE, "set_group_satellites")
           \/ req[s].op = "save_group" /\ set_group_satellites(s, FALSE)
    PROVE  Stored
  <1>1. req[s].phase \in RPCs
    BY DEF update_car, update_ble_tag, update_setting_rpc, update_group, set_group_satellites,
           Sets, In, RPCs
  <1>2. /\ req[s].op = "save_car" => Points = {"text"} \cup Users
        /\ req[s].op = "edit_ble_tag" => Points = {"text", "owner"}
        /\ req[s].op = "update_setting" => Points = {"value"}
        /\ req[s].op = "save_group" => Points = {"name", "members"}
        /\ Edits(req[s].op) = Points /\ req[s].op \notin Toggles
    BY <1>1, WholeForms
  <1>3. "name" \notin Users
    BY UsersAssumption DEF PointsOf
  <1>4. CASE req[s].op = "save_car" /\ update_car(s, TRUE)
    BY <1>2, <1>3, <1>4, SetsFormStored DEF update_car, RPCs
  <1>5. CASE req[s].op = "edit_ble_tag" /\ update_ble_tag(s, TRUE)
    BY <1>2, <1>5, SetsFormStored DEF update_ble_tag, RPCs
  <1>6. CASE req[s].op = "update_setting" /\ update_setting_rpc(s, TRUE)
    BY <1>2, <1>6, SetsFormStored DEF update_setting_rpc, RPCs
  <1>7. CASE req[s].op = "save_group" /\ update_group(s, FALSE, "set_group_satellites")
    BY <1>2, <1>7, SetsFormStored DEF update_group, RPCs
  <1>8. CASE req[s].op = "save_group" /\ set_group_satellites(s, FALSE)
    BY <1>2, <1>8, SetsFormStored DEF set_group_satellites, RPCs
  <1>9. QED
    BY <1>4, <1>5, <1>6, <1>7, <1>8

LEMMA HandlerStored ==
    ASSUME IInv, NEW s \in Slots, Handler(s)
    PROVE  Stored
  <1>1. CASE toggle_alarm(s) \/ delete_alarm(s)
    BY <1>1, TogglesStored, OtherStepsStore
       DEF toggle_alarm, delete_alarm, get_alarms, delete_alarm_rpc, By
  <1>2. CASE set_satellite_followup(s)
    BY <1>2, TogglesStored, OtherStepsStore DEF set_satellite_followup, get_satellites, By
  <1>3. CASE set_satellite_room(s) \/ set_satellite_owner(s)
    BY <1>3, SetsFormStored, OtherStepsStore
       DEF set_satellite_room, set_satellite_owner, set_satellite_room_rpc,
           set_satellite_owner_rpc, By, RPCs, Toggles, Edits
  <1>4. CASE set_satellite_name(s) \/ delete_satellite(s)
    BY <1>4, SetsFormStored, OtherStepsStore
       DEF set_satellite_name, Ends, set_satellite_display_name, delete_satellite,
           delete_satellite_rpc, By, RPCs, Toggles, Edits
  <1>5. CASE create_group(s) \/ delete_group(s)
    BY <1>5, CreateStored, OtherStepsStore
       DEF create_group, Ends, delete_group, delete_group_rpc, By
  <1>6. CASE save_group(s)
    BY <1>6, WholeFormsStored, OtherStepsStore DEF save_group, By
  <1>7. CASE save_car(s) \/ delete_car(s)
    BY <1>7, WholeFormsStored, OtherStepsStore DEF save_car, delete_car, delete_car_rpc, By
  <1>8. CASE edit_ble_tag(s) \/ delete_ble_tag(s)
    BY <1>8, WholeFormsStored, OtherStepsStore
       DEF edit_ble_tag, delete_ble_tag, delete_ble_tag_rpc, By
  <1>9. CASE update_setting(s)
    BY <1>9, WholeFormsStored, OtherStepsStore DEF update_setting, By
  <1>10. CASE telegram_callback(s)
    BY <1>10, SetsFormStored, OtherStepsStore
       DEF telegram_callback, link_account, By, RPCs, Toggles, Edits
  <1>11. CASE telegram_unlink(s) \/ entra_unlink(s) \/ unlink_resident(s)
    BY <1>11, SetsFormStored, OtherStepsStore
       DEF telegram_unlink, entra_unlink, unlink_resident, unlink_account, By, RPCs, Toggles, Edits
  <1>12. CASE link_resident(s)
    <2>1. CASE UNCHANGED <<Core, Rest, waiting>>
      BY <2>1 DEF Core, Stored
    <2>2. CASE Calls(s, "get_residents") \/ link_account(s, "residents", FALSE)
      BY <1>12, <2>2, SetsFormStored, OtherStepsStore
         DEF link_resident, link_account, By, RPCs, Toggles, Edits
    <2>3. QED
      BY <1>12, <2>1, <2>2 DEF link_resident
  <1>13. CASE chat_authorize(s)
    BY <1>13, SetsFormStored, OtherStepsStore
       DEF chat_authorize, link_account, By, RPCs, Toggles, Edits
  <1>14. QED
    BY <1>1, <1>2, <1>3, <1>4, <1>5, <1>6, <1>7, <1>8, <1>9, <1>10, <1>11, <1>12, <1>13
       DEF Handler

LEMMA NextStored ==
    ASSUME IInv, Next
    PROVE  Stored
  <1>1. CASE \E s \in Slots : OpenPage(s) \/ Click(s) \/ Resubmit(s) \/ Leave(s) \/ KillWorker(s)
    BY <1>1 DEF OpenPage, Click, Resubmit, Leave, KillWorker, Core, Stored
  <1>2. CASE \E s \in Slots : Handler(s)
    BY <1>2, HandlerStored
  <1>3. CASE ChangedElsewhere
    <2>1. \A t \in Slots : req'[t].phase = req[t].phase
      BY <1>3, OthersStay DEF ChangedElsewhere
    <2>2. QED
      BY <2>1 DEF Stored
  <1>4. CASE UserActivation
    BY <1>4 DEF UserActivation, Core, Stored
  <1>5. QED
    BY <1>1, <1>2, <1>3, <1>4 DEF Next

\* Whatever was left empty, typed in raggedly, sent twice or failed half-way, a handler
\* stores only what fits, and nothing ragged but the raw editor's JSON.
THEOREM OnlyWhatFits == Spec => StoresWhatFits
  <1>1. IInv /\ [Next]_vars => [Stored]_vars
    BY NextStored
  <1>2. Spec => [][Stored]_vars
    BY RecordInvariant, <1>1, PTL DEF Spec
  <1>3. QED
    BY <1>2 DEF StoresWhatFits, Stored
===============================================================================
