--------------------------- MODULE UserAdminProofs ---------------------------
(***************************************************************************)
(* Proofs about UserAdmin for any number of concurrent requests and any    *)
(* values: a save without a warning is complete, and no save undoes        *)
(* another one it did not overlap with.                                    *)
(***************************************************************************)
EXTENDS UserAdmin, TLAPS

-------------------------------------------------------------------------------
(* The inductive invariant, of one request r against the record rec. *)

\* v is either not stored or what the record holds.
Agrees(v, x) == v = Blank \/ v = x

\* Fields update_user carries, and the handler's fields still to be sent.
Carried == {"profile", "password"}

ToSend(phase) ==
    IF phase = "update" THEN Fields
    ELSE IF phase = "trust" THEN {"trust", "sysmsg"}
    ELSE IF phase = "sysmsg" THEN {"sysmsg"} ELSE {}

HasSent(r) ==
    IF r.phase = "trust" THEN Carried
    ELSE IF r.phase = "sysmsg" THEN Carried \cup {"trust"}
    ELSE IF r.phase = "done" THEN Sent(r.kind) ELSE {}

\* Who is where, and what a form or a password request can hold.
ShapeOK(r) ==
    /\ r.phase \in {"form", "trust", "sysmsg"} => r.kind = "edit"
    /\ r.phase \in {"idle", "form"} => r.asked = {}
    /\ r.kind = "password" => r.entered["profile"] = Blank

\* A field left alone is on the form as it is in the record, unless others changed it.
FormOK(r, rec) ==
    r.phase \notin {"idle", "done"} =>
        \A f \in Fields \ (r.asked \cup r.foreign) : Agrees(r.entered[f], rec[f])

\* So is what the handler has yet to send.
PendingOK(r, rec) ==
    \A f \in ToSend(r.phase) \ (r.asked \cup r.foreign) : Agrees(r.write[f], rec[f])

\* What it has sent without a warning is stored.
SentOK(r, rec, there) ==
    ~r.warned /\ there =>
        \A f \in HasSent(r) \ (r.foreign \cup r.refused) : Agrees(r.write[f], rec[f])

RequestOK(r, rec, there) ==
    ShapeOK(r) /\ FormOK(r, rec) /\ PendingOK(r, rec) /\ SentOK(r, rec, there)

AdminInv == TypeOK /\ \A s \in Slots : RequestOK(req[s], record, exists)
-------------------------------------------------------------------------------
\* A request that is told of every change stays in order.
LEMMA ToldKeepsOrder ==
    ASSUME NEW r \in Requests, NEW rec, NEW new, NEW there,
           RequestOK(r, rec, there)
    PROVE  RequestOK([r EXCEPT !.foreign = @ \cup {f \in Fields : new[f] # rec[f]}], new, there)
  <1> DEFINE changed == {f \in Fields : new[f] # rec[f]}
  <1>1. PICK q : q = [r EXCEPT !.foreign = @ \cup changed]
    OBVIOUS
  <1>2. /\ q.phase = r.phase /\ q.kind = r.kind /\ q.entered = r.entered /\ q.write = r.write
        /\ q.asked = r.asked /\ q.warned = r.warned /\ q.refused = r.refused
        /\ q.foreign = r.foreign \cup changed
    BY <1>1 DEF Requests
  <1>3. \A f \in Fields \ q.foreign : new[f] = rec[f] /\ f \notin r.foreign
    BY <1>2
  <1>4. ToSend(q.phase) = ToSend(r.phase) /\ HasSent(q) = HasSent(r)
    BY <1>2 DEF ToSend, HasSent
  <1>5. ToSend(r.phase) \subseteq Fields /\ HasSent(r) \subseteq Fields
    BY DEF ToSend, HasSent, Fields, Carried, Sent
  <1>6. ShapeOK(q)
    BY <1>2 DEF RequestOK, ShapeOK
  <1>7. FormOK(q, new)
    BY <1>2, <1>3 DEF RequestOK, FormOK
  <1>8. PendingOK(q, new)
    BY <1>2, <1>3, <1>4, <1>5 DEF RequestOK, PendingOK
  <1>9. SentOK(q, new, there)
    BY <1>2, <1>3, <1>4, <1>5 DEF RequestOK, SentOK
  <1>10. QED
    BY <1>1, <1>6, <1>7, <1>8, <1>9 DEF RequestOK

\* An idle request is in order whatever the record is.
LEMMA IdleOK ==
    ASSUME NEW r \in Requests, r.phase = "idle", NEW rec, NEW new, NEW there, RequestOK(r, rec, there)
    PROVE  RequestOK(r, new, there)
  BY DEF RequestOK, ShapeOK, FormOK, PendingOK, SentOK, ToSend, HasSent

\* A step of one slot needs to be looked at in that slot only.
LEMMA GoesKeeps ==
    ASSUME AdminInv, NEW s \in Slots, NEW r, r \in Requests, Goes(s, r),
           record' \in [Fields -> Values], exists' = exists, requests' \in Nat,
           RequestOK(r, record', exists)
    PROVE  AdminInv'
  <1> DEFINE changed == {f \in Fields : record'[f] # record[f]}
  <1>1. req' = [t \in Slots |->
                   IF t = s THEN r
                   ELSE IF In(t, "idle") THEN req[t]
                   ELSE [req[t] EXCEPT !.foreign = @ \cup changed]]
    BY DEF Goes
  <1>2. ASSUME NEW t \in Slots
        PROVE  req'[t] \in Requests /\ RequestOK(req'[t], record', exists)
    <2>1. req[t] \in Requests /\ RequestOK(req[t], record, exists)
      BY DEF AdminInv, TypeOK
    <2>2. CASE t = s
      BY <1>1, <2>2
    <2>3. CASE t # s /\ In(t, "idle")
      <3>1. req'[t] = req[t]
        BY <1>1, <2>3
      <3>2. req[t].phase = "idle"
        BY <2>3 DEF In
      <3>3. QED
        BY <2>1, <3>1, <3>2, IdleOK
    <2>4. CASE t # s /\ ~In(t, "idle")
      <3>1. req'[t] = [req[t] EXCEPT !.foreign = @ \cup changed]
        BY <1>1, <2>4
      <3>2. [req[t] EXCEPT !.foreign = @ \cup changed] \in Requests
        BY <2>1 DEF Requests
      <3>3. RequestOK([req[t] EXCEPT !.foreign = @ \cup changed], record', exists)
        BY <2>1, ToldKeepsOrder
      <3>4. QED
        BY <3>1, <3>2, <3>3
    <2>5. QED
      BY <2>2, <2>3, <2>4
  <1>3. req' \in [Slots -> Requests]
    BY <1>1, <1>2
  <1>4. TypeOK'
    BY <1>3 DEF TypeOK, AdminInv
  <1>5. QED
    BY <1>2, <1>4 DEF AdminInv
-------------------------------------------------------------------------------
(* The forms: the record stays as it is. *)

\* The record, as a form shows it, agrees with the record.
LEMMA OpenFormKeeps ==
    ASSUME AdminInv, NEW s \in Slots, OpenForm(s)
    PROVE  AdminInv'
  <1>1. PICK q : q = [Idle EXCEPT !.phase = "form", !.entered = [record EXCEPT !["password"] = Blank]]
    OBVIOUS
  <1>2. Goes(s, q) /\ UNCHANGED <<exists, record>> /\ requests' = requests + 1
    BY <1>1 DEF OpenForm
  <1>3. record \in [Fields -> Values] /\ requests \in Nat
    BY DEF AdminInv, TypeOK
  <1>4. [record EXCEPT !["password"] = Blank] \in [Fields -> Inputs]
    BY <1>3 DEF Inputs
  <1>5. /\ q.phase = "form" /\ q.kind = "edit" /\ q.write = Nothing /\ q.asked = {}
        /\ q.foreign = {} /\ q.warned = FALSE
        /\ q.entered = [record EXCEPT !["password"] = Blank]
    BY <1>1 DEF Idle
  <1>6. q \in Requests
    BY <1>1, <1>4 DEF Idle, Requests, Phases, Kinds, Nothing, Inputs
  <1>7. RequestOK(q, record', exists)
    <2>1. \A f \in Fields : Agrees(q.entered[f], record'[f])
      BY <1>2, <1>3, <1>5 DEF Agrees
    <2>2. ToSend(q.phase) = {} /\ HasSent(q) = {}
      BY <1>5 DEF ToSend, HasSent
    <2>3. QED
      BY <1>5, <2>1, <2>2 DEF RequestOK, ShapeOK, FormOK, PendingOK, SentOK
  <1>8. QED
    BY <1>2, <1>3, <1>6, <1>7, GoesKeeps

\* What is sent differs from what was shown where the author asked for it.
LEMMA SubmitKeeps ==
    ASSUME AdminInv, NEW s \in Slots, Submit(s)
    PROVE  AdminInv'
  <1> DEFINE r == req[s]
  <1>1. PICK w \in [Fields -> Inputs] :
          Goes(s, [r EXCEPT !.phase = "arrived", !.entered = w,
                      !.asked = {f \in Fields : w[f] \notin {Blank, r.entered[f]}}])
    BY DEF Submit
  <1>2. PICK q : q = [r EXCEPT !.phase = "arrived", !.entered = w,
                         !.asked = {f \in Fields : w[f] \notin {Blank, r.entered[f]}}]
    OBVIOUS
  <1>3. UNCHANGED <<exists, record, requests>> /\ r.phase = "form"
    BY DEF Submit, In
  <1>4. /\ record \in [Fields -> Values] /\ requests \in Nat /\ r \in Requests
        /\ RequestOK(r, record, exists)
    BY DEF AdminInv, TypeOK
  <1>5. /\ q.phase = "arrived" /\ q.kind = r.kind /\ q.entered = w /\ q.foreign = r.foreign
        /\ q.asked = {f \in Fields : w[f] \notin {Blank, r.entered[f]}}
    BY <1>2, <1>4 DEF Requests
  <1>6. q \in Requests
    BY <1>2, <1>4 DEF Requests, Phases
  <1>7. RequestOK(q, record', exists)
    <2>1. r.asked = {} /\ r.kind = "edit"
      BY <1>3, <1>4 DEF RequestOK, ShapeOK
    <2>2. \A f \in Fields \ r.foreign : Agrees(r.entered[f], record[f])
      BY <1>3, <1>4, <2>1 DEF RequestOK, FormOK
    <2>3. \A f \in Fields \ (q.asked \cup q.foreign) : Agrees(q.entered[f], record[f])
      BY <1>5, <2>2 DEF Agrees
    <2>4. ToSend(q.phase) = {} /\ HasSent(q) = {}
      BY <1>5 DEF ToSend, HasSent
    <2>5. QED
      BY <1>3, <1>5, <2>1, <2>3, <2>4 DEF RequestOK, ShapeOK, FormOK, PendingOK, SentOK
  <1>8. QED
    BY <1>1, <1>2, <1>3, <1>4, <1>6, <1>7, GoesKeeps

\* A password request asks for the password and leaves the rest blank.
LEMMA SubmitPasswordKeeps ==
    ASSUME AdminInv, NEW s \in Slots, SubmitPassword(s)
    PROVE  AdminInv'
  <1>1. PICK v \in Values :
          Goes(s, [Idle EXCEPT !.phase = "arrived", !.kind = "password", !.asked = {"password"},
                               !.entered = [Nothing EXCEPT !["password"] = v]])
    BY DEF SubmitPassword
  <1>2. PICK q : q = [Idle EXCEPT !.phase = "arrived", !.kind = "password", !.asked = {"password"},
                                  !.entered = [Nothing EXCEPT !["password"] = v]]
    OBVIOUS
  <1>3. UNCHANGED <<exists, record>> /\ requests' = requests + 1
    BY DEF SubmitPassword
  <1>4. record \in [Fields -> Values] /\ requests \in Nat
    BY DEF AdminInv, TypeOK
  <1>5. [Nothing EXCEPT !["password"] = v] \in [Fields -> Inputs]
    BY DEF Nothing, Inputs
  <1>6. /\ q.phase = "arrived" /\ q.kind = "password" /\ q.asked = {"password"}
        /\ q.foreign = {} /\ q.entered = [Nothing EXCEPT !["password"] = v]
    BY <1>2 DEF Idle
  <1>7. q \in Requests
    BY <1>2, <1>5 DEF Idle, Requests, Phases, Kinds, Nothing, Inputs, Fields
  <1>8. RequestOK(q, record', exists)
    <2>1. \A f \in Fields \ {"password"} : q.entered[f] = Blank
      BY <1>6 DEF Nothing
    <2>2. q.entered["profile"] = Blank
      BY <2>1 DEF Fields
    <2>3. ToSend(q.phase) = {} /\ HasSent(q) = {}
      BY <1>6 DEF ToSend, HasSent
    <2>4. QED
      BY <1>6, <2>1, <2>2, <2>3 DEF RequestOK, ShapeOK, FormOK, PendingOK, SentOK, Agrees
  <1>9. QED
    BY <1>1, <1>2, <1>3, <1>4, <1>7, <1>8, GoesKeeps

\* Sending again changes neither form nor record.
LEMMA ResubmitKeeps ==
    ASSUME AdminInv, NEW s \in Slots, Resubmit(s)
    PROVE  AdminInv'
  <1> DEFINE r == req[s]
  <1>1. PICK q : q = [r EXCEPT !.phase = "arrived"]
    OBVIOUS
  <1>2. UNCHANGED <<exists, record, requests>> /\ r.phase = "failed" /\ Goes(s, q)
    BY <1>1 DEF Resubmit, In
  <1>3. /\ record \in [Fields -> Values] /\ requests \in Nat /\ r \in Requests
        /\ RequestOK(r, record, exists)
    BY DEF AdminInv, TypeOK
  <1>4. /\ q.phase = "arrived" /\ q.kind = r.kind /\ q.entered = r.entered
        /\ q.foreign = r.foreign /\ q.asked = r.asked
    BY <1>1, <1>3 DEF Requests
  <1>5. q \in Requests
    BY <1>1, <1>3 DEF Requests, Phases
  <1>6. RequestOK(q, record', exists)
    <2>1. ToSend(q.phase) = {} /\ HasSent(q) = {}
      BY <1>4 DEF ToSend, HasSent
    <2>2. QED
      BY <1>2, <1>3, <1>4, <2>1 DEF RequestOK, ShapeOK, FormOK, PendingOK, SentOK
  <1>7. QED
    BY <1>2, <1>3, <1>5, <1>6, GoesKeeps

\* An idle slot is in order.
LEMMA LeaveKeeps ==
    ASSUME AdminInv, NEW s \in Slots, Leave(s)
    PROVE  AdminInv'
  <1>1. UNCHANGED <<exists, record, requests>> /\ Goes(s, Idle)
    BY DEF Leave
  <1>2. record \in [Fields -> Values] /\ requests \in Nat
    BY DEF AdminInv, TypeOK
  <1>3. Idle \in Requests
    BY DEF Idle, Requests, Phases, Kinds, Nothing, Inputs
  <1>4. RequestOK(Idle, record', exists)
    BY DEF Idle, RequestOK, ShapeOK, FormOK, PendingOK, SentOK, ToSend, HasSent
  <1>5. QED
    BY <1>1, <1>2, <1>3, <1>4, GoesKeeps
-------------------------------------------------------------------------------
(* The handlers. *)

\* What storing does to the record: fields nobody asked for stay as they are.
LEMMA StoredFields ==
    ASSUME NEW r \in Requests, NEW fields \in SUBSET ToSend(r.phase),
           record \in [Fields -> Values], PendingOK(r, record), Stored(r, fields)
    PROVE  /\ record' \in [Fields -> Values]
           /\ \A f \in Fields \ (r.asked \cup r.foreign) : record'[f] = record[f]
           /\ \A f \in Fields \ fields : record'[f] = record[f]
           /\ \A f \in fields : Agrees(r.write[f], record'[f])
  <1>1. ToSend(r.phase) \subseteq Fields
    BY DEF ToSend, Fields
  <1>2. \A f \in Fields : r.write[f] \in Inputs
    BY DEF Requests
  <1>3. record' = [f \in Fields |->
                      IF f \in fields /\ r.write[f] # Blank THEN r.write[f] ELSE record[f]]
    BY DEF Stored
  <1>4. \A f \in Fields : record'[f] \in Values
    BY <1>2, <1>3 DEF Inputs
  <1>5. record' \in [Fields -> Values]
    BY <1>3, <1>4
  <1>6. \A f \in Fields \ fields : record'[f] = record[f]
    BY <1>3
  <1>7. \A f \in fields : Agrees(r.write[f], record'[f])
    BY <1>1, <1>3 DEF Agrees
  <1>8. \A f \in Fields \ (r.asked \cup r.foreign) : record'[f] = record[f]
    BY <1>3 DEF PendingOK, Agrees
  <1>9. QED
    BY <1>5, <1>6, <1>7, <1>8

\* The error page keeps the form in order, if only fields asked for were touched.
LEMMA FailedOK ==
    ASSUME NEW r \in Requests, NEW rec, NEW new, NEW there, RequestOK(r, rec, there),
           r.phase \in {"arrived", "update", "trust", "sysmsg"},
           \A f \in Fields \ (r.asked \cup r.foreign) : new[f] = rec[f]
    PROVE  Failed(r) \in Requests /\ RequestOK(Failed(r), new, there)
  <1>1. PICK q : q = Failed(r)
    OBVIOUS
  <1>2. /\ q.phase = "failed" /\ q.kind = r.kind /\ q.entered = r.entered
        /\ q.foreign = r.foreign /\ q.asked = r.asked
    BY <1>1 DEF Failed, Requests
  <1>3. Nothing \in [Fields -> Inputs]
    BY DEF Nothing, Inputs
  <1>4. q \in Requests
    BY <1>1, <1>3 DEF Failed, Requests, Phases
  <1>5. ToSend(q.phase) = {} /\ HasSent(q) = {}
    BY <1>2 DEF ToSend, HasSent
  <1>6. FormOK(q, new)
    BY <1>2 DEF RequestOK, FormOK
  <1>7. QED
    BY <1>1, <1>2, <1>4, <1>5, <1>6 DEF RequestOK, ShapeOK, PendingOK, SentOK

\* The record found agrees with what is filled in from it.
LEMMA FindKeeps ==
    ASSUME AdminInv, NEW s \in Slots, Find(s)
    PROVE  AdminInv'
  <1> DEFINE r == req[s]
  <1>1. UNCHANGED <<exists, record, requests>> /\ r.phase = "arrived"
    BY DEF Find, In
  <1>2. /\ record \in [Fields -> Values] /\ requests \in Nat /\ exists \in BOOLEAN
        /\ r \in Requests /\ RequestOK(r, record, exists)
    BY DEF AdminInv, TypeOK
  <1>3. CASE Goes(s, Failed(r))
    BY <1>1, <1>2, <1>3, FailedOK, GoesKeeps
  <1>4. CASE ~exists /\ Goes(s, [Done(r) EXCEPT !.warned = (r.kind = "password")])
    <2>1. PICK q : q = [Done(r) EXCEPT !.warned = (r.kind = "password")]
      OBVIOUS
    <2>2. /\ q.phase = "done" /\ q.kind = r.kind /\ q.entered = Nothing /\ q.asked = {}
      BY <1>2, <2>1 DEF Done, Requests
    <2>3. Nothing \in [Fields -> Inputs] /\ (r.kind = "password") \in BOOLEAN
      BY DEF Nothing, Inputs
    <2>4. q \in Requests
      BY <1>2, <2>1, <2>3 DEF Done, Requests, Phases
    <2>5. RequestOK(q, record', exists)
      <3>1. ToSend(q.phase) = {}
        BY <2>2 DEF ToSend
      <3>2. q.entered["profile"] = Blank
        BY <2>2 DEF Nothing, Fields
      <3>3. QED
        BY <1>4, <2>2, <3>1, <3>2 DEF RequestOK, ShapeOK, FormOK, PendingOK, SentOK
    <2>6. QED
      BY <1>1, <1>2, <1>4, <2>1, <2>4, <2>5, GoesKeeps
  <1>5. CASE exists /\ Goes(s, [r EXCEPT !.phase = "update", !.write = Filled(r, record),
                                         !.foreign = @ \ TakenFrom(r), !.warned = FALSE])
    <2>1. PICK q : q = [r EXCEPT !.phase = "update", !.write = Filled(r, record),
                                 !.foreign = @ \ TakenFrom(r), !.warned = FALSE]
      OBVIOUS
    <2>2. /\ q.phase = "update" /\ q.kind = r.kind /\ q.entered = r.entered
          /\ q.asked = r.asked /\ q.write = Filled(r, record)
          /\ q.foreign = r.foreign \ TakenFrom(r)
      BY <1>2, <2>1 DEF Requests
    <2>3. \A f \in TakenFrom(r) : f \in Fields /\ r.entered[f] = Blank
      BY <1>2 DEF TakenFrom, Fields, RequestOK, ShapeOK
    <2>4. /\ \A f \in Fields : Filled(r, record)[f] =
                 IF f \in TakenFrom(r) THEN record[f] ELSE r.entered[f]
          /\ Filled(r, record) \in [Fields -> Inputs]
      <3>1. \A f \in Fields : record[f] \in Inputs /\ r.entered[f] \in Inputs
        BY <1>2 DEF Requests, Inputs
      <3>2. QED
        BY <3>1 DEF Filled
    <2>5. q \in Requests
      BY <1>2, <2>1, <2>4 DEF Requests, Phases
    <2>6. FormOK(q, record)
      BY <1>1, <1>2, <2>2, <2>3 DEF RequestOK, FormOK, Agrees
    <2>7. PendingOK(q, record)
      <3>1. ToSend(q.phase) = Fields
        BY <2>2 DEF ToSend
      <3>2. ASSUME NEW f \in Fields \ (q.asked \cup q.foreign)
            PROVE  Agrees(q.write[f], record[f])
        <4>1. CASE f \in TakenFrom(r)
          BY <2>2, <2>4, <4>1 DEF Agrees
        <4>2. CASE f \notin TakenFrom(r)
          BY <2>2, <2>4, <2>6, <4>2 DEF FormOK, Agrees
        <4>3. QED
          BY <4>1, <4>2
      <3>3. QED
        BY <3>1, <3>2 DEF PendingOK
    <2>8. RequestOK(q, record', exists)
      <3>1. HasSent(q) = {}
        BY <2>2 DEF HasSent
      <3>2. QED
        BY <1>1, <1>2, <2>2, <2>6, <2>7, <3>1 DEF RequestOK, ShapeOK, SentOK
    <2>9. QED
      BY <1>1, <1>2, <1>5, <2>1, <2>5, <2>8, GoesKeeps
  <1>6. QED
    BY <1>3, <1>4, <1>5 DEF Find

\* After update_user: with a warning, or with its fields stored.
LEMMA AfterUpdateOK ==
    ASSUME NEW r \in Requests, NEW rec, NEW new, NEW there, RequestOK(r, rec, there),
           r.phase = "update", NEW ok \in BOOLEAN,
           \A f \in Fields \ (r.asked \cup r.foreign) : new[f] = rec[f],
           \A f \in Fields \ Carried : new[f] = rec[f],
           ok => \A f \in Carried : Agrees(r.write[f], new[f])
    PROVE  AfterUpdate(r, ok) \in Requests /\ RequestOK(AfterUpdate(r, ok), new, there)
  <1>1. PICK q : q = AfterUpdate(r, ok)
    OBVIOUS
  <1>2. Nothing \in [Fields -> Inputs] /\ r.kind \in Kinds /\ (~ok) \in BOOLEAN
    BY DEF Nothing, Inputs, Requests
  <1>3. CASE r.kind = "edit"
    <2>1. /\ q.phase = "trust" /\ q.kind = "edit" /\ q.entered = r.entered /\ q.write = r.write
          /\ q.asked = r.asked /\ q.foreign = r.foreign /\ q.warned = ~ok
      BY <1>1, <1>3 DEF AfterUpdate, Requests
    <2>2. q \in Requests
      BY <1>1, <1>2, <1>3 DEF AfterUpdate, Requests, Phases
    <2>3. FormOK(q, new)
      BY <2>1 DEF RequestOK, FormOK
    <2>4. PendingOK(q, new)
      <3>1. ToSend(q.phase) \subseteq Fields /\ ToSend(r.phase) = Fields
        BY <2>1 DEF ToSend, Fields
      <3>2. QED
        BY <2>1, <3>1 DEF RequestOK, PendingOK
    <2>5. SentOK(q, new, there)
      <3>1. HasSent(q) = Carried
        BY <2>1 DEF HasSent
      <3>2. QED
        BY <2>1, <3>1 DEF SentOK
    <2>6. QED
      BY <1>1, <2>1, <2>2, <2>3, <2>4, <2>5 DEF RequestOK, ShapeOK
  <1>4. CASE r.kind = "password"
    <2>1. /\ q.phase = "done" /\ q.kind = "password" /\ q.entered = Nothing
          /\ q.write = r.write /\ q.asked = {} /\ q.foreign = r.foreign /\ q.warned = ~ok
      BY <1>1, <1>4 DEF AfterUpdate, Done, Requests
    <2>2. q \in Requests
      BY <1>1, <1>2, <1>4 DEF AfterUpdate, Done, Requests, Phases
    <2>3. ToSend(q.phase) = {} /\ HasSent(q) = Carried
      BY <2>1 DEF ToSend, HasSent, Sent, Carried
    <2>4. q.entered["profile"] = Blank
      BY <2>1 DEF Nothing, Fields
    <2>5. QED
      BY <1>1, <2>1, <2>2, <2>3, <2>4 DEF RequestOK, ShapeOK, FormOK, PendingOK, SentOK
  <1>5. QED
    BY <1>2, <1>3, <1>4 DEF Kinds

\* update_user keeps every request in order.
LEMMA UpdateKeeps ==
    ASSUME AdminInv, NEW s \in Slots, Update(s)
    PROVE  AdminInv'
  <1> DEFINE r == req[s]
  <1>1. UNCHANGED <<exists, requests>> /\ r.phase = "update"
    BY DEF Update, In
  <1>2. /\ record \in [Fields -> Values] /\ requests \in Nat
        /\ r \in Requests /\ RequestOK(r, record, exists)
    BY DEF AdminInv, TypeOK
  <1>3. CASE /\ Stored(r, {"profile", "password"})
             /\ Goes(s, AfterUpdate(r, TRUE)) \/ Goes(s, Failed(r))
    <2>1. Carried \in SUBSET ToSend(r.phase) /\ Stored(r, Carried)
      BY <1>1, <1>3 DEF Carried, ToSend, Fields
    <2>2. /\ record' \in [Fields -> Values]
          /\ \A f \in Fields \ (r.asked \cup r.foreign) : record'[f] = record[f]
          /\ \A f \in Fields \ Carried : record'[f] = record[f]
          /\ \A f \in Carried : Agrees(r.write[f], record'[f])
      BY <1>2, <2>1, StoredFields DEF RequestOK
    <2>3. /\ Failed(r) \in Requests /\ RequestOK(Failed(r), record', exists)
          /\ AfterUpdate(r, TRUE) \in Requests /\ RequestOK(AfterUpdate(r, TRUE), record', exists)
      BY <1>1, <1>2, <2>2, FailedOK, AfterUpdateOK
    <2>4. QED
      BY <1>1, <1>2, <1>3, <2>2, <2>3, GoesKeeps
  <1>4. CASE /\ record' = record
             /\ Goes(s, AfterUpdate(r, FALSE)) \/ Goes(s, Failed(r))
    <2>1. /\ Failed(r) \in Requests /\ RequestOK(Failed(r), record', exists)
          /\ AfterUpdate(r, FALSE) \in Requests /\ RequestOK(AfterUpdate(r, FALSE), record', exists)
      BY <1>1, <1>2, <1>4, FailedOK, AfterUpdateOK
    <2>2. QED
      BY <1>1, <1>2, <1>4, <2>1, GoesKeeps
  <1>5. QED
    BY <1>3, <1>4 DEF Update

\* A refusal nobody hears of takes one more field off what is claimed.
LEMMA RefusedOK ==
    ASSUME NEW q \in Requests, NEW field \in {"trust", "sysmsg"}, NEW new, NEW there,
           ShapeOK(q), FormOK(q, new), PendingOK(q, new),
           SentOK([q EXCEPT !.refused = @ \cup {field}], new, there)
    PROVE  /\ [q EXCEPT !.refused = @ \cup {field}] \in Requests
           /\ RequestOK([q EXCEPT !.refused = @ \cup {field}], new, there)
  <1>1. PICK p : p = [q EXCEPT !.refused = @ \cup {field}]
    OBVIOUS
  <1>2. /\ p.phase = q.phase /\ p.kind = q.kind /\ p.entered = q.entered
        /\ p.write = q.write /\ p.asked = q.asked /\ p.foreign = q.foreign
    BY <1>1 DEF Requests
  <1>3. p \in Requests
    BY <1>1 DEF Requests
  <1>4. ShapeOK(p) /\ FormOK(p, new) /\ PendingOK(p, new)
    BY <1>2 DEF ShapeOK, FormOK, PendingOK
  <1>5. QED
    BY <1>1, <1>3, <1>4 DEF RequestOK

\* One of the two single-field RPCs, towards a request q that is in order afterwards,
\* whether the field was stored or refused.
LEMMA SetFieldKeeps ==
    ASSUME AdminInv, NEW s \in Slots, NEW field \in {"trust", "sysmsg"}, NEW q \in Requests,
           SetField(s, field, q),
           ASSUME NEW new \in [Fields -> Values],
                  \A f \in Fields \ (req[s].asked \cup req[s].foreign) : new[f] = record[f],
                  \A f \in Fields \ {field} : new[f] = record[f],
                  Agrees(req[s].write[field], new[field])
           PROVE  RequestOK(q, new, exists),
           LET p == [q EXCEPT !.refused = @ \cup {field}]
           IN  p \in Requests /\ RequestOK(p, record, exists)
    PROVE  AdminInv'
  <1> DEFINE r == req[s]
             p == [q EXCEPT !.refused = @ \cup {field}]
  <1>1. UNCHANGED <<exists, requests>> /\ r.phase = field
    BY DEF SetField, In
  <1>2. /\ record \in [Fields -> Values] /\ requests \in Nat
        /\ r \in Requests /\ RequestOK(r, record, exists)
    BY DEF AdminInv, TypeOK
  <1>3. CASE Stored(r, {field}) /\ (Goes(s, q) \/ Goes(s, Failed(r)))
    <2>1. {field} \in SUBSET ToSend(r.phase)
      BY <1>1 DEF ToSend
    <2>2. /\ record' \in [Fields -> Values]
          /\ \A f \in Fields \ (r.asked \cup r.foreign) : record'[f] = record[f]
          /\ \A f \in Fields \ {field} : record'[f] = record[f]
          /\ \A f \in {field} : Agrees(r.write[f], record'[f])
      BY <1>2, <1>3, <2>1, StoredFields DEF RequestOK
    <2>3. RequestOK(q, record', exists)
      BY <2>2
    <2>4. Failed(r) \in Requests /\ RequestOK(Failed(r), record', exists)
      BY <1>1, <1>2, <2>2, FailedOK
    <2>5. QED
      BY <1>1, <1>2, <1>3, <2>2, <2>3, <2>4, GoesKeeps
  <1>4. CASE record' = record /\ Goes(s, Failed(r))
    BY <1>1, <1>2, <1>4, FailedOK, GoesKeeps
  <1>5. CASE record' = record /\ Goes(s, p)
    <2>1. p \in Requests /\ RequestOK(p, record', exists)
      BY <1>5
    <2>2. QED
      BY <1>1, <1>2, <1>5, <2>1, GoesKeeps
  <1>6. QED
    BY <1>3, <1>4, <1>5 DEF SetField

\* So does set_trust_level.
LEMMA SetTrustLevelKeeps ==
    ASSUME AdminInv, NEW s \in Slots, SetTrustLevel(s)
    PROVE  AdminInv'
  <1> DEFINE r == req[s]
  <1>1. PICK q : q = [r EXCEPT !.phase = "sysmsg"]
    OBVIOUS
  <1>2. SetField(s, "trust", q) /\ r.phase = "trust"
    BY <1>1 DEF SetTrustLevel, SetField, In
  <1>3. r \in Requests /\ RequestOK(r, record, exists)
    BY DEF AdminInv, TypeOK
  <1>4. /\ q.phase = "sysmsg" /\ q.kind = r.kind /\ q.entered = r.entered /\ q.write = r.write
        /\ q.asked = r.asked /\ q.foreign = r.foreign /\ q.warned = r.warned
        /\ q.refused = r.refused
    BY <1>1, <1>3 DEF Requests
  <1>5. q \in Requests
    BY <1>1, <1>3 DEF Requests, Phases
  <1>6. ASSUME NEW new \in [Fields -> Values],
               \A f \in Fields \ (r.asked \cup r.foreign) : new[f] = record[f],
               \A f \in Fields \ {"trust"} : new[f] = record[f],
               Agrees(r.write["trust"], new["trust"])
        PROVE  RequestOK(q, new, exists)
    <2>1. ToSend(q.phase) = {"sysmsg"} /\ ToSend(r.phase) = {"trust", "sysmsg"}
      BY <1>2, <1>4 DEF ToSend
    <2>2. HasSent(q) = HasSent(r) \cup {"trust"} /\ HasSent(r) = Carried
      BY <1>2, <1>4 DEF HasSent
    <2>3. "sysmsg" \in Fields \ {"trust"} /\ Carried \subseteq Fields \ {"trust"}
      BY DEF Fields, Carried
    <2>4. FormOK(q, new)
      BY <1>2, <1>3, <1>4, <1>6 DEF RequestOK, FormOK
    <2>5. PendingOK(q, new)
      BY <1>3, <1>4, <1>6, <2>1, <2>3 DEF RequestOK, PendingOK
    <2>6. SentOK(q, new, exists)
      BY <1>3, <1>4, <1>6, <2>2, <2>3 DEF RequestOK, SentOK
    <2>7. QED
      BY <1>2, <1>3, <1>4, <2>4, <2>5, <2>6 DEF RequestOK, ShapeOK
  <1>7. PICK p : p = [q EXCEPT !.refused = @ \cup {"trust"}]
    OBVIOUS
  <1>8. p \in Requests /\ RequestOK(p, record, exists)
    <2>1. /\ p.phase = "sysmsg" /\ p.kind = r.kind /\ p.write = r.write
          /\ p.foreign = r.foreign /\ p.warned = r.warned
          /\ p.refused = r.refused \cup {"trust"}
      BY <1>4, <1>5, <1>7 DEF Requests
    <2>2. HasSent(p) = HasSent(r) \cup {"trust"}
      BY <1>2, <2>1 DEF HasSent
    <2>3. SentOK(p, record, exists)
      BY <1>3, <2>1, <2>2 DEF RequestOK, SentOK
    <2>4. ShapeOK(q) /\ FormOK(q, record)
      BY <1>2, <1>3, <1>4 DEF RequestOK, ShapeOK, FormOK
    <2>5. PendingOK(q, record)
      BY <1>2, <1>3, <1>4 DEF RequestOK, PendingOK, ToSend
    <2>6. QED
      BY <1>5, <1>7, <2>3, <2>4, <2>5, RefusedOK
  <1>9. QED
    BY <1>2, <1>5, <1>6, <1>7, <1>8, SetFieldKeeps

\* And set_system_messages, after which all four fields are sent.
LEMMA SetSystemMessagesKeeps ==
    ASSUME AdminInv, NEW s \in Slots, SetSystemMessages(s)
    PROVE  AdminInv'
  <1> DEFINE r == req[s]
  <1>1. PICK q : q = Done(r)
    OBVIOUS
  <1>2. SetField(s, "sysmsg", q) /\ r.phase = "sysmsg"
    BY <1>1 DEF SetSystemMessages, SetField, In
  <1>3. r \in Requests /\ RequestOK(r, record, exists)
    BY DEF AdminInv, TypeOK
  <1>4. /\ q.phase = "done" /\ q.kind = r.kind /\ q.entered = Nothing /\ q.write = r.write
        /\ q.asked = {} /\ q.foreign = r.foreign /\ q.warned = r.warned
        /\ q.refused = r.refused
    BY <1>1, <1>3 DEF Done, Requests
  <1>5. q \in Requests
    <2>1. Nothing \in [Fields -> Inputs]
      BY DEF Nothing, Inputs
    <2>2. QED
      BY <1>1, <1>3, <2>1 DEF Done, Requests, Phases
  <1>6. ASSUME NEW new \in [Fields -> Values],
               \A f \in Fields \ (r.asked \cup r.foreign) : new[f] = record[f],
               \A f \in Fields \ {"sysmsg"} : new[f] = record[f],
               Agrees(r.write["sysmsg"], new["sysmsg"])
        PROVE  RequestOK(q, new, exists)
    <2>1. r.kind = "edit"
      BY <1>2, <1>3 DEF RequestOK, ShapeOK
    <2>2. HasSent(q) = HasSent(r) \cup {"sysmsg"} /\ HasSent(r) \subseteq Fields \ {"sysmsg"}
      BY <1>2, <1>4, <2>1 DEF HasSent, Sent, Carried, Fields
    <2>3. SentOK(q, new, exists)
      BY <1>3, <1>4, <1>6, <2>2 DEF RequestOK, SentOK
    <2>4. ToSend(q.phase) = {}
      BY <1>4 DEF ToSend
    <2>5. QED
      BY <1>4, <2>1, <2>3, <2>4 DEF RequestOK, ShapeOK, FormOK, PendingOK
  <1>7. PICK p : p = [q EXCEPT !.refused = @ \cup {"sysmsg"}]
    OBVIOUS
  <1>8. p \in Requests /\ RequestOK(p, record, exists)
    <2>1. /\ p.phase = "done" /\ p.kind = "edit" /\ p.write = r.write
          /\ p.foreign = r.foreign /\ p.warned = r.warned
          /\ p.refused = r.refused \cup {"sysmsg"}
      BY <1>2, <1>3, <1>4, <1>5, <1>7 DEF Requests, RequestOK, ShapeOK
    <2>2. HasSent(p) = HasSent(r) \cup {"sysmsg"}
      BY <1>2, <2>1 DEF HasSent, Sent, Carried, Fields
    <2>3. SentOK(p, record, exists)
      BY <1>3, <2>1, <2>2 DEF RequestOK, SentOK
    <2>4. ShapeOK(q) /\ FormOK(q, record) /\ PendingOK(q, record)
      BY <1>3, <1>4 DEF ShapeOK, FormOK, PendingOK, ToSend, Nothing, Fields
    <2>5. QED
      BY <1>5, <1>7, <2>3, <2>4, RefusedOK
  <1>9. QED
    BY <1>2, <1>5, <1>6, <1>7, <1>8, SetFieldKeeps
-------------------------------------------------------------------------------
(* The invariant, and what follows from it. *)

\* It holds at the start.
LEMMA AdminInit == Init => AdminInv
  <1> SUFFICES ASSUME Init PROVE AdminInv
    OBVIOUS
  <1>1. Idle \in Requests
    BY DEF Idle, Requests, Phases, Kinds, Nothing, Inputs
  <1>2. TypeOK
    BY <1>1, OriginalAssumption DEF Init, TypeOK, Fields
  <1>3. RequestOK(Idle, record, exists)
    BY DEF Idle, RequestOK, ShapeOK, FormOK, PendingOK, SentOK, ToSend, HasSent
  <1>4. QED
    BY <1>2, <1>3 DEF Init, AdminInv

\* A deletion only weakens what is claimed.
LEMMA DeleteKeeps ==
    ASSUME AdminInv, Delete
    PROVE  AdminInv'
  <1>1. UNCHANGED <<record, req, requests>> /\ exists' = FALSE
    BY DEF Delete
  <1>2. TypeOK'
    BY <1>1 DEF AdminInv, TypeOK
  <1>3. ASSUME NEW s \in Slots PROVE RequestOK(req[s], record, FALSE)
    BY DEF AdminInv, RequestOK, SentOK
  <1>4. QED
    BY <1>1, <1>2, <1>3 DEF AdminInv

\* Every step keeps it.
LEMMA AdminStep == AdminInv /\ [Next]_vars => AdminInv'
  <1>1. ASSUME AdminInv, UNCHANGED vars PROVE AdminInv'
    BY <1>1 DEF vars, AdminInv, TypeOK
  <1>2. QED
    BY <1>1, OpenFormKeeps, SubmitKeeps, SubmitPasswordKeeps, ResubmitKeeps, LeaveKeeps,
       FindKeeps, UpdateKeeps, SetTrustLevelKeeps, SetSystemMessagesKeeps, DeleteKeeps DEF Next

\* It holds always.
LEMMA AdminAlways == Spec => []AdminInv
  BY AdminInit, AdminStep, PTL DEF Spec

\* Nothing but real values reaches Core: an empty password or trust level never does.
THEOREM RecordsTyped == Spec => []TypeOK
  <1>1. AdminInv => TypeOK
    BY DEF AdminInv
  <1>2. QED
    BY <1>1, AdminAlways, PTL

\* A save without a warning is stored whole, whatever was retried in between, up to
\* a level or flag refused by its own RPC.
THEOREM SilentSavesAreWhole == Spec => []SilentMeansStored
  <1>1. AdminInv => SilentMeansStored
    BY DEF AdminInv, RequestOK, SentOK, HasSent, SilentMeansStored, In, Agrees
  <1>2. QED
    BY <1>1, AdminAlways, PTL
-------------------------------------------------------------------------------
(* The record between two steps. *)

\* Only the slot that makes a step changes its phase.
LEMMA OthersStay ==
    ASSUME TypeOK, NEW s \in Slots, NEW t \in Slots, NEW r, Goes(t, r),
           req'[s].phase # req[s].phase
    PROVE  s = t
  <1>1. req[s] \in Requests
    BY DEF TypeOK
  <1>2. ASSUME s # t PROVE req'[s].phase = req[s].phase
    BY <1>1, <1>2 DEF Goes, Requests
  <1>3. QED
    BY <1>2

\* A slot changes only fields its author asked for, or that others changed before.
LEMMA SlotChanges ==
    ASSUME AdminInv, NEW s \in Slots, Update(s) \/ SetTrustLevel(s) \/ SetSystemMessages(s)
    PROVE  \A f \in Fields : record'[f] # record[f] => f \in req[s].asked \cup req[s].foreign
  <1> DEFINE r == req[s]
  <1>1. record \in [Fields -> Values] /\ r \in Requests /\ PendingOK(r, record)
    BY DEF AdminInv, TypeOK, RequestOK
  <1>2. CASE record' = record
    BY <1>2
  <1>3. ASSUME NEW fields \in SUBSET ToSend(r.phase), Stored(r, fields)
        PROVE  \A f \in Fields : record'[f] # record[f] => f \in r.asked \cup r.foreign
    BY <1>1, <1>3, StoredFields
  <1>4. CASE Update(s) /\ Stored(r, Carried)
    <2>1. Carried \in SUBSET ToSend(r.phase)
      BY <1>4 DEF Update, In, Carried, ToSend, Fields
    <2>2. QED
      BY <1>3, <1>4, <2>1
  <1>5. CASE SetTrustLevel(s) /\ Stored(r, {"trust"})
    <2>1. {"trust"} \in SUBSET ToSend(r.phase)
      BY <1>5 DEF SetTrustLevel, SetField, In, ToSend
    <2>2. QED
      BY <1>3, <1>5, <2>1
  <1>6. CASE SetSystemMessages(s) /\ Stored(r, {"sysmsg"})
    <2>1. {"sysmsg"} \in SUBSET ToSend(r.phase)
      BY <1>6 DEF SetSystemMessages, SetField, In, ToSend
    <2>2. QED
      BY <1>3, <1>6, <2>1
  <1>7. QED
    BY <1>2, <1>4, <1>5, <1>6 DEF Update, SetTrustLevel, SetSystemMessages, SetField, Carried

\* Every step of Next is one slot's, or leaves the record and the phases alone.
LEMMA ChangesOverlap ==
    ASSUME AdminInv, Next, NEW s \in Slots, req'[s].phase # req[s].phase,
           NEW f \in Fields, record'[f] # record[f]
    PROVE  f \in req[s].asked \cup req[s].foreign
  <1>0. TypeOK
    BY DEF AdminInv
  <1>1. PICK t \in Slots : Update(t) \/ SetTrustLevel(t) \/ SetSystemMessages(t)
    <2>1. record' # record
      OBVIOUS
    <2>2. QED
      BY <2>1 DEF Next, OpenForm, Submit, SubmitPassword, Resubmit, Leave, Find, Delete
  <1>2. \E r : Goes(t, r)
    BY <1>1 DEF Update, SetTrustLevel, SetSystemMessages, SetField
  <1>3. s = t
    BY <1>0, <1>2, OthersStay
  <1>4. QED
    BY <1>1, <1>3, SlotChanges

\* No save undoes another one it did not overlap with.
THEOREM NothingUndoneUnseen == Spec => UndoneOnlyByOverlap
  <1>1. AdminInv /\ [Next]_vars =>
          [\A s \in Slots : req'[s].phase # req[s].phase =>
              \A f \in Fields : record'[f] # record[f] =>
                  f \in req[s].asked \cup req[s].foreign]_vars
    BY ChangesOverlap
  <1>2. QED
    BY <1>1, AdminAlways, PTL DEF Spec, UndoneOnlyByOverlap
===============================================================================
