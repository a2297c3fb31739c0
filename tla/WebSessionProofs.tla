--------------------------- MODULE WebSessionProofs ---------------------------
(***************************************************************************)
(* Proofs about WebSession: type correctness, and that identities are      *)
(* never mixed, links go to the flow's starter, and nothing is resurrected *)
(* without an overtaken answer, for any number of users, flows, workers    *)
(* and overlapping requests.                                               *)
(***************************************************************************)
EXTENDS WebSession, TLAPS

-------------------------------------------------------------------------------
(* The inductive invariant. *)

\* A cookie wherever it may be: one identity, and a flow that was started by the
\* cookie's user unless a login crossed it.
CookieOK(c) ==
    /\ IF c.user = NoUser THEN c.login = 0 /\ c.trust = 0 /\ c.flow = NoFlow
       ELSE <<c.login, c.user, c.trust>> \in logins
    /\ c.flow # NoFlow => /\ flowState[c.flow] # "unused"
                          /\ starter[c.flow] = c.user \/ c.flow \in crossed

\* Everything but the order of answers: identities, flows, links and gates.
SafeInv ==
    /\ TypeOK
    /\ \A c \in Cookies : CookieOK(c)
    /\ \A l \in logins : l[1] # 0 /\ l[1] < nextLogin
    /\ \A l \in links : /\ flowState[l[1]] # "unused"
                        /\ starter[l[1]] = l[2] \/ l[1] \in crossed
    /\ \A s \in Slots : slot[s].served /\ slot[s].kind = "view" =>
           slot[s].sent.user # NoUser /\ slot[s].sent.trust >= AdminLevel

\* A login, or a flow, that so far exists in one answer under way and nowhere else.
NewLogin(s) ==
    LET l == slot[s].reply.login IN
    /\ l \notin ended /\ jar.login # l
    /\ \A x \in Slots : slot[x].sent.login # l /\ (x # s => slot[x].reply.login # l)

NewFlow(s) ==
    LET l == slot[s].reply.flow IN
    /\ l \notin spent /\ jar.flow # l
    /\ \A x \in Slots : slot[x].sent.flow # l /\ (x # s => slot[x].reply.flow # l)

\* An answer keeps, drops or renews what was sent, and drops what it ends.
AnswerOK(s) ==
    LET r == slot[s] IN
    /\ r.phase # "answered" => r.reply = Empty /\ ~r.served
    /\ r.phase = "answered" /\ r.kind = "logout" => r.modified /\ r.reply = Empty
    /\ r.served /\ r.kind = "callback" => r.modified /\ r.reply.flow = NoFlow
    /\ r.reply.login \in {0, r.sent.login} \/ NewLogin(s)
    /\ r.reply.flow \in {NoFlow, r.sent.flow} \/ NewFlow(s)

OrderInv ==
    /\ overtaken => ended = {} /\ spent = {}
    /\ \A n \in ended : n # 0 /\ n < nextLogin
    /\ \A f \in spent : flowState[f] # "unused"
    /\ \A s \in Slots : AnswerOK(s)
    /\ jar.login \notin ended /\ jar.flow \notin spent
-------------------------------------------------------------------------------
(* Cookies, sessions and answers. *)

\* What is signed into an answer carries the session's own entries.
LEMMA SignedFields ==
    ASSUME NEW session \in Sessions, NEW w \in Workers, TypeOK
    PROVE  LET c == Signed(session, w) IN
           /\ c \in Sessions
           /\ c.user = session.user /\ c.trust = session.trust
           /\ c.login = session.login /\ c.flow = session.flow
  <1>1. Empty \in Sessions
    BY DEF Empty, Sessions, Secrets
  <1>2. CASE [session EXCEPT !.secret = Unsigned] = Empty
    <2>1. Signed(session, w) = Empty
      BY <1>2 DEF Signed
    <2>2. QED
      BY <1>1, <1>2, <2>1 DEF Sessions, Empty
  <1>3. CASE [session EXCEPT !.secret = Unsigned] # Empty
    <2>1. Signed(session, w) = [session EXCEPT !.secret = SecretKey(w)]
      BY <1>3 DEF Signed
    <2>2. SecretKey(w) \in Secrets
      BY DEF SecretKey, Secrets
    <2>3. QED
      BY <2>1, <2>2 DEF Sessions
  <1>4. QED
    BY <1>2, <1>3

\* A handler sees the cookie that was sent, or an empty session.
LEMMA LoadedTyped ==
    ASSUME TypeOK, NEW s \in Slots, NEW w \in Workers
    PROVE  /\ Loaded(s, w) \in Sessions
           /\ Loaded(s, w) = slot[s].sent \/ Loaded(s, w) = Empty
           /\ Empty \in Sessions
           /\ slot[s] \in Requests
           /\ slot[s].sent \in Sessions
  BY DEF TypeOK, Loaded, Empty, Sessions, Secrets, Requests

\* What an answer does to the request table.
LEMMA ServedEffect ==
    ASSUME TypeOK, NEW s \in Slots, NEW w \in Workers, NEW modified \in BOOLEAN,
           NEW served \in BOOLEAN, NEW session \in Sessions,
           Served(s, w, modified, session, served)
    PROVE  /\ slot' \in [Slots -> Requests]
           /\ \A x \in Slots : x # s => slot'[x] = slot[x]
           /\ slot'[s].phase = "answered"
           /\ slot'[s].kind = slot[s].kind
           /\ slot'[s].sent = slot[s].sent
           /\ slot'[s].modified = modified
           /\ slot'[s].served = served
           /\ slot'[s].reply = IF modified THEN Signed(session, w) ELSE Empty
  <1>1. Signed(session, w) \in Sessions
    BY SignedFields
  <1>2. Empty \in Sessions /\ slot[s] \in Requests
    BY LoadedTyped
  <1>3. QED
    BY <1>1, <1>2 DEF Served, TypeOK, Requests
-------------------------------------------------------------------------------
(* What any handler does, once for all of them. *)

\* The shared part of a step: histories grow, flows are never forgotten.
Grows ==
    /\ logins \subseteq logins' /\ crossed \subseteq crossed'
    /\ nextLogin' \in {nextLogin, nextLogin + 1}
    /\ \A f \in Flows : flowState[f] # "unused" =>
           flowState'[f] # "unused" /\ starter'[f] = starter[f]

\* Of an answer that sets the cookie: it is a logout's, a successful login's, or
\* names who the request named.
KeepsLogin(r, session) ==
    \/ r.kind = "logout"
    \/ r.kind = "login" /\ LoggedIn(session)
    \/ Identity(session) = Identity(r.sent)

\* Handler (s, w) answers with "session", modified or not.
Summary(s, w, modified, served, session) ==
    /\ slot[s].phase = "sent"
    /\ Served(s, w, modified, session, served)
    /\ CookieOK(session)'
    /\ session.login \in {0, slot[s].sent.login, nextLogin}
    /\ session.flow \in {NoFlow, slot[s].sent.flow} \/ flowState[session.flow] = "unused"
    /\ session.login = nextLogin => nextLogin' = nextLogin + 1
    /\ session.flow \in Flows => flowState'[session.flow] # "unused"
    /\ slot[s].kind = "logout" => modified /\ session = Empty
    /\ served /\ slot[s].kind = "callback" => modified /\ session.flow = NoFlow
    /\ served /\ slot[s].kind = "view" =>
           slot[s].sent.user # NoUser /\ slot[s].sent.trust >= AdminLevel
    /\ modified => KeepsLogin(slot[s], session)

\* A cookie that is in order stays in order in a step that only adds history.
LEMMA CookieStays ==
    ASSUME TypeOK, NEW c \in Sessions, CookieOK(c), Grows
    PROVE  CookieOK(c)'
  BY DEF CookieOK, Grows, Sessions, TypeOK

\* The empty session is in order, now and later.
LEMMA EmptyOK == CookieOK(Empty) /\ CookieOK(Empty)'
  BY DEF CookieOK, Empty

\* A handler that leaves Core, flows and history alone and answers with the
\* session as loaded, or an empty one.
LEMMA SummaryOfKept ==
    ASSUME SafeInv, NEW s \in Slots, NEW w \in Workers,
           NEW modified \in BOOLEAN, NEW served \in BOOLEAN,
           slot[s].phase = "sent",
           NEW session \in {Loaded(s, w), Empty, Popped(Loaded(s, w))},
           Served(s, w, modified, session, served), Grows,
           modified => \/ slot[s].kind = "logout"
                       \/ session \in {slot[s].sent, Popped(slot[s].sent)},
           slot[s].kind = "logout" => modified /\ session = Empty,
           served /\ slot[s].kind = "callback" => modified /\ session.flow = NoFlow,
           served /\ slot[s].kind = "view" =>
               slot[s].sent.user # NoUser /\ slot[s].sent.trust >= AdminLevel
    PROVE  session \in Sessions /\ Summary(s, w, modified, served, session)
  <1>1. /\ slot[s].sent \in Sessions /\ CookieOK(slot[s].sent) /\ Empty \in Sessions
        /\ Loaded(s, w) \in {slot[s].sent, Empty}
    BY LoadedTyped DEF SafeInv, Cookies
  <1>2. Loaded(s, w) \in Sessions /\ CookieOK(Loaded(s, w))
    BY <1>1, EmptyOK
  <1>3. Popped(Loaded(s, w)) \in Sessions /\ CookieOK(Popped(Loaded(s, w)))
    BY <1>2, NamesAssumption DEF Popped, Sessions, CookieOK
  <1>4. session \in Sessions /\ CookieOK(session)
    BY <1>1, <1>2, <1>3, EmptyOK
  <1>5. CookieOK(session)'
    BY <1>4, CookieStays DEF SafeInv
  <1>6. /\ session.login \in {0, slot[s].sent.login}
        /\ session.flow \in {NoFlow, slot[s].sent.flow}
    BY <1>1, <1>2 DEF Empty, Popped, Sessions
  <1>7. session.login # nextLogin
    <2>1. session.login = 0 \/ session.login < nextLogin
      BY <1>4 DEF CookieOK, SafeInv
    <2>2. QED
      BY <2>1, <1>4 DEF SafeInv, TypeOK, Sessions
  <1>8. session.flow \in Flows => flowState'[session.flow] # "unused"
    BY <1>5, NamesAssumption DEF CookieOK
  <1>9. modified => KeepsLogin(slot[s], session)
    <2>1. Identity(Popped(slot[s].sent)) = Identity(slot[s].sent)
      BY <1>1 DEF Popped, Identity, Sessions
    <2>2. QED
      BY <2>1 DEF KeepsLogin
  <1>10. QED
    BY <1>4, <1>5, <1>6, <1>7, <1>8, <1>9 DEF Summary

\* A step that changes no cookie and no history keeps what is said of them.
LEMMA Unchanged ==
    ASSUME TypeOK, UNCHANGED <<flowState, loginVars, starter, crossed>>
    PROVE  Grows
  BY DEF Grows, loginVars, TypeOK

\* Every handler has such an answer and touches neither jar nor order histories.
LEMMA HandlerSummary ==
    ASSUME SafeInv, NEW s \in Slots, NEW w \in Workers, Handle(s, w)
    PROVE  /\ Grows
           /\ UNCHANGED <<jar, secretConfigured, historyVars>>
           /\ \E modified \in BOOLEAN, served \in BOOLEAN, session \in Sessions :
                  Summary(s, w, modified, served, session)
  <1> DEFINE ses == Loaded(s, w)
             sent == slot[s].sent
  <1>1. /\ sent \in Sessions /\ CookieOK(sent) /\ Empty \in Sessions
        /\ ses \in {sent, Empty} /\ ses \in Sessions
    BY LoadedTyped DEF SafeInv, Cookies
  <1>2. CookieOK(ses)
    BY <1>1, EmptyOK
  <1> DEFINE cookie(m) == m => ses = sent
  <1>a. LoggedIn(ses) => ses = sent
    BY <1>1 DEF LoggedIn, Empty
  <1>3. CASE View(s, w)
    <2>1. Grows
      BY <1>3, Unchanged DEF View, SafeInv
    <2>2. slot[s].phase = "sent" /\ slot[s].kind = "view"
      BY <1>3 DEF View, Pending
    <2>3. \E m \in BOOLEAN : cookie(m) /\ Served(s, w, m, ses, FALSE)
      BY <1>3 DEF View, RedirectToLogin, RenderPage, Answer
    <2>4. QED
      BY <1>3, <2>1, <2>2, <2>3, SummaryOfKept DEF View
  <1>4. CASE AdminView(s, w)
    <2>1. Grows
      BY <1>4, Unchanged DEF AdminView, SafeInv
    <2>2. slot[s].phase = "sent" /\ slot[s].kind = "view"
      BY <1>4 DEF AdminView, Pending
    <2>3. \/ \E m \in BOOLEAN : cookie(m) /\ Served(s, w, m, ses, FALSE)
          \/ /\ LoggedIn(ses) /\ Permitted(ses)
             /\ \E m \in BOOLEAN : Served(s, w, m, ses, TRUE)
      BY <1>4, <1>a DEF AdminView, RedirectToLogin, FlashAndRedirect, Answer
    <2>4. LoggedIn(ses) /\ Permitted(ses) => sent.user # NoUser /\ sent.trust >= AdminLevel
      BY <1>1 DEF LoggedIn, Permitted, Empty
    <2>5. QED
      BY <1>4, <1>a, <2>1, <2>2, <2>3, <2>4, SummaryOfKept DEF AdminView
  <1>5. CASE Logout(s, w)
    <2>1. Grows
      BY <1>5, Unchanged DEF Logout, SafeInv
    <2>2. slot[s].phase = "sent" /\ slot[s].kind = "logout"
      BY <1>5 DEF Logout, Pending
    <2>3. Served(s, w, TRUE, Empty, FALSE)
      BY <1>5 DEF Logout, Answer, Cleared
    <2>4. QED
      BY <1>5, <2>1, <2>2, <2>3, SummaryOfKept DEF Logout
  <1>6. CASE EntraCallback(s, w)
    <2>1. slot[s].phase = "sent" /\ slot[s].kind = "callback"
      BY <1>6 DEF EntraCallback, Pending
    <2>2. slot[s] \in Requests /\ slot[s].flow \in Flows \cup {NoFlow}
      BY LoadedTyped DEF SafeInv, Requests
    <2>3. /\ UNCHANGED <<loginVars, starter, crossed>>
          /\ UNCHANGED flowState \/ flowState' = [flowState EXCEPT ![slot[s].flow] = "redeemed"]
      BY <1>6 DEF EntraCallback
    <2>4. Grows
      BY <2>2, <2>3 DEF Grows, loginVars, SafeInv, TypeOK
    <2>5. \/ \E m \in BOOLEAN : cookie(m) /\ Served(s, w, m, ses, FALSE)
          \/ ses = sent /\ Served(s, w, TRUE, Popped(ses), TRUE)
      BY <1>6, <1>a DEF EntraCallback, RedirectToLogin, RenderPage, Answer
    <2>6. Popped(ses).flow = NoFlow
      BY <1>1 DEF Popped, Sessions
    <2>7. UNCHANGED <<jar, secretConfigured, historyVars>>
      BY <1>6 DEF EntraCallback
    <2>8. QED
      BY <2>1, <2>4, <2>5, <2>6, <2>7, SummaryOfKept
  <1>7. CASE Login(s, w)
    <2>1. slot[s].phase = "sent" /\ slot[s].kind = "login"
      BY <1>7 DEF Login, Pending
    <2>2. CASE RenderPage(s, w, ses) /\ UNCHANGED <<loginVars, crossed>>
      <3>0. \E m \in BOOLEAN : cookie(m) /\ Served(s, w, m, ses, FALSE)
        BY <2>2 DEF RenderPage, Answer
      <3>1. Grows
        BY <1>7, <2>2, Unchanged DEF Login, SafeInv
      <3>2. QED
        BY <1>7, <2>1, <3>0, <3>1, SummaryOfKept DEF Login
    <2>3. ASSUME NEW u \in Users, NEW t \in TrustLevels,
                 nextLogin' = nextLogin + 1,
                 Answer(s, w, TRUE, Identified(ses, u, t)),
                 logins' = logins \cup {<<nextLogin, u, t>>},
                 crossed' = IF LoggedIn(ses) /\ ses.flow # NoFlow /\ starter[ses.flow] # u
                            THEN crossed \cup {ses.flow} ELSE crossed
          PROVE  Grows /\ \E new \in Sessions : Summary(s, w, TRUE, FALSE, new)
      <3>1. UNCHANGED <<flowState, starter>>
        BY <1>7 DEF Login
      <3>2. Grows
        BY <2>3, <3>1 DEF Grows, SafeInv, TypeOK
      <3>3. PICK new \in Sessions : /\ new = Identified(ses, u, t)
                                    /\ new.user = u /\ new.trust = t
                                    /\ new.login = nextLogin /\ new.flow = ses.flow
        <4>1. LET i == Identified(ses, u, t) IN
              /\ i \in Sessions /\ i.user = u /\ i.trust = t
              /\ i.login = nextLogin /\ i.flow = ses.flow
          BY <1>1, LevelAssumption DEF Identified, Sessions, SafeInv, TypeOK
        <4>2. QED
          BY <4>1
      <3>4. new.flow # NoFlow => LoggedIn(ses)
        BY <1>2, <3>3 DEF CookieOK, LoggedIn
      <3>5. CookieOK(new)'
        <4>1. <<new.login, new.user, new.trust>> \in logins' /\ new.user # NoUser
          BY <2>3, <3>3, NamesAssumption
        <4>2. new.flow # NoFlow => flowState'[new.flow] # "unused"
          BY <1>2, <3>1, <3>3 DEF CookieOK
        <4>3. new.flow # NoFlow => starter'[new.flow] = new.user \/ new.flow \in crossed'
          BY <2>3, <3>1, <3>3, <3>4
        <4>4. QED
          BY <4>1, <4>2, <4>3 DEF CookieOK
      <3>6. /\ new.flow \in {NoFlow, sent.flow}
            /\ new.flow \in Flows => flowState'[new.flow] # "unused"
        BY <1>1, <3>3, <3>5, NamesAssumption DEF Empty, CookieOK
      <3>7. KeepsLogin(slot[s], new)
        BY <2>1, <3>3, NamesAssumption DEF KeepsLogin, LoggedIn
      <3>8. QED
        BY <2>1, <2>3, <3>2, <3>3, <3>5, <3>6, <3>7 DEF Summary, Answer
    <2>4. UNCHANGED <<jar, secretConfigured, historyVars>>
      BY <1>7 DEF Login
    <2>5. QED
      BY <1>7, <2>2, <2>3, <2>4 DEF Login
  <1>8. CASE EntraLogin(s, w)
    <2>1. slot[s].phase = "sent" /\ slot[s].kind = "entra_login"
      BY <1>8 DEF EntraLogin, Pending
    <2>2. /\ UNCHANGED <<jar, secretConfigured, historyVars>>
          /\ UNCHANGED <<loginVars, crossed>>
      BY <1>8 DEF EntraLogin
    <2>3. CASE /\ \E m \in BOOLEAN : cookie(m) /\ Served(s, w, m, ses, FALSE)
               /\ UNCHANGED <<flowState, starter>>
      <3>1. Grows
        BY <2>2, <2>3, Unchanged DEF SafeInv
      <3>2. QED
        BY <2>1, <2>2, <2>3, <3>1, SummaryOfKept
    <2>4. ASSUME NEW f \in Flows, LoggedIn(ses), flowState[f] = "unused",
                 flowState' = [flowState EXCEPT ![f] = "started"],
                 starter' = [starter EXCEPT ![f] = ses.user],
                 Answer(s, w, TRUE, [ses EXCEPT !.flow = f])
          PROVE  Grows /\ \E new \in Sessions : Summary(s, w, TRUE, FALSE, new)
      <3>1. Grows
        BY <2>2, <2>4 DEF Grows, loginVars, SafeInv, TypeOK
      <3>2. PICK new \in Sessions : /\ new = [ses EXCEPT !.flow = f]
                                    /\ new.user = ses.user /\ new.trust = ses.trust
                                    /\ new.login = ses.login /\ new.flow = f
        <4>1. LET i == [ses EXCEPT !.flow = f] IN
              /\ i \in Sessions /\ i.user = ses.user /\ i.trust = ses.trust
              /\ i.login = ses.login /\ i.flow = f
          BY <1>1 DEF Sessions
        <4>2. QED
          BY <4>1
      <3>3. flowState'[f] # "unused" /\ starter'[f] = ses.user
        BY <2>4 DEF SafeInv, TypeOK
      <3>4. CookieOK(new)'
        BY <1>2, <2>2, <2>4, <3>2, <3>3 DEF CookieOK, LoggedIn, loginVars
      <3>5. new.login \in {0, sent.login} /\ new.login # nextLogin
        <4>1. new.login = 0 \/ new.login < nextLogin
          BY <1>2, <3>2 DEF CookieOK, SafeInv
        <4>2. QED
          BY <1>1, <3>2, <4>1 DEF SafeInv, TypeOK, Sessions, Empty
      <3>6. KeepsLogin(slot[s], new)
        BY <1>a, <2>4, <3>2 DEF KeepsLogin, Identity
      <3>7. QED
        BY <2>1, <2>4, <3>1, <3>2, <3>3, <3>4, <3>5, <3>6 DEF Summary, Answer
    <2>5. QED
      BY <1>8, <1>a, <2>2, <2>3, <2>4 DEF EntraLogin, RedirectToLogin, FlashAndRedirect,
                                    RenderPage, Answer
  <1>9. QED
    BY <1>3, <1>4, <1>5, <1>6, <1>7, <1>8 DEF Handle
-------------------------------------------------------------------------------
(* Type correctness and the safety invariant. *)

\* Every cookie is a session record.
LEMMA CookiesTyped == TypeOK => Cookies \subseteq Sessions
  BY DEF TypeOK, Cookies, Requests

\* The state of Core and of the flows that a handler leaves behind.
LEMMA HandlerHistory ==
    ASSUME SafeInv, NEW s \in Slots, NEW w \in Workers, Handle(s, w)
    PROVE  /\ flowState' \in [Flows -> FlowStates]
           /\ links' \subseteq Flows \X Users
           /\ logins' \subseteq Nat \X Users \X TrustLevels
           /\ nextLogin' \in Nat \ {0}
           /\ starter' \in [Flows -> Users \cup {NoUser}]
           /\ crossed' \subseteq Flows
           /\ \A l \in logins' : l[1] # 0 /\ l[1] < nextLogin'
           /\ \A l \in links' : /\ flowState'[l[1]] # "unused"
                                /\ starter'[l[1]] = l[2] \/ l[1] \in crossed'
  <1> DEFINE ses == Loaded(s, w)
  <1>1. ses \in Sessions /\ slot[s] \in Requests
    BY LoadedTyped DEF SafeInv
  <1>2. CookieOK(ses)
    BY LoadedTyped, EmptyOK DEF SafeInv, Cookies
  <1>3. CASE UNCHANGED <<flowState, links, loginVars, starter, crossed>>
    BY <1>3 DEF SafeInv, TypeOK, loginVars
  <1>4. CASE Login(s, w)
    <2>1. UNCHANGED <<flowState, links, starter>>
      BY <1>4 DEF Login
    <2>2. CASE UNCHANGED <<loginVars, crossed>>
      BY <2>1, <2>2, <1>3
    <2>3. CASE \E u \in Users, t \in TrustLevels :
                 /\ nextLogin' = nextLogin + 1
                 /\ logins' = logins \cup {<<nextLogin, u, t>>}
                 /\ crossed' \in {crossed, crossed \cup {ses.flow}}
                 /\ crossed' # crossed => ses.flow \in Flows
      <3>1. PICK u \in Users, t \in TrustLevels :
                 /\ nextLogin' = nextLogin + 1
                 /\ logins' = logins \cup {<<nextLogin, u, t>>}
                 /\ crossed' \in {crossed, crossed \cup {ses.flow}}
                 /\ crossed' # crossed => ses.flow \in Flows
        BY <2>3
      <3>2. logins' \subseteq Nat \X Users \X TrustLevels /\ crossed' \subseteq Flows
        BY <3>1 DEF SafeInv, TypeOK
      <3>3. \A l \in logins' : l[1] # 0 /\ l[1] < nextLogin'
        <4>1. \A l \in logins : l[1] \in Nat /\ l[1] # 0 /\ l[1] < nextLogin
          BY DEF SafeInv, TypeOK
        <4>2. QED
          BY <4>1, <3>1 DEF SafeInv, TypeOK
      <3>4. nextLogin' \in Nat \ {0} /\ crossed \subseteq crossed'
        BY <3>1 DEF SafeInv, TypeOK
      <3>5. QED
        BY <2>1, <3>2, <3>3, <3>4 DEF SafeInv, TypeOK
    <2>4. QED
      BY <1>1, <1>4, <2>2, <2>3 DEF Login, Sessions
  <1>5. CASE EntraLogin(s, w)
    <2>1. UNCHANGED <<links, loginVars, crossed>>
      BY <1>5 DEF EntraLogin
    <2>2. CASE UNCHANGED <<flowState, starter>>
      BY <2>1, <2>2, <1>3
    <2>3. CASE \E f \in Flows : /\ flowState[f] = "unused"
                               /\ flowState' = [flowState EXCEPT ![f] = "started"]
                               /\ starter' = [starter EXCEPT ![f] = ses.user]
      BY <1>1, <2>1, <2>3 DEF SafeInv, TypeOK, loginVars, Sessions, FlowStates
    <2>4. QED
      BY <1>5, <2>2, <2>3 DEF EntraLogin
  <1>6. CASE EntraCallback(s, w)
    <2>1. UNCHANGED <<loginVars, starter, crossed>>
      BY <1>6 DEF EntraCallback
    <2>2. CASE UNCHANGED <<flowState, links>>
      BY <2>1, <2>2, <1>3
    <2>3. CASE /\ LoggedIn(ses) /\ ses.flow # NoFlow /\ ses.flow = slot[s].flow
               /\ flowState[slot[s].flow] = "authenticated"
               /\ flowState' = [flowState EXCEPT ![slot[s].flow] = "redeemed"]
               /\ links' \in {links, links \cup {<<slot[s].flow, ses.user>>}}
      <3>1. slot[s].flow \in Flows
        BY <1>1, <2>3 DEF Requests
      <3>2. ses.user \in Users
        BY <1>1, <2>3 DEF LoggedIn, Sessions
      <3>3. starter[slot[s].flow] = ses.user \/ slot[s].flow \in crossed
        BY <1>2, <2>3 DEF CookieOK
      <3>4. /\ flowState' \in [Flows -> FlowStates]
            /\ \A f \in Flows : flowState[f] # "unused" => flowState'[f] # "unused"
            /\ flowState'[slot[s].flow] # "unused"
        BY <2>3, <3>1 DEF SafeInv, TypeOK, FlowStates
      <3>5. links' \subseteq Flows \X Users
        BY <2>3, <3>1, <3>2 DEF SafeInv, TypeOK
      <3>6. ASSUME NEW l \in links'
            PROVE  flowState'[l[1]] # "unused" /\ (starter'[l[1]] = l[2] \/ l[1] \in crossed')
        <4>1. CASE l \in links
          <5>1. l[1] \in Flows
            BY <4>1 DEF SafeInv, TypeOK
          <5>2. QED
            BY <2>1, <3>4, <4>1, <5>1 DEF SafeInv
        <4>2. CASE l = <<slot[s].flow, ses.user>>
          BY <2>1, <3>3, <3>4, <4>2
        <4>3. QED
          BY <2>3, <4>1, <4>2
      <3>7. QED
        BY <2>1, <3>4, <3>5, <3>6 DEF SafeInv, TypeOK, loginVars
    <2>4. QED
      BY <1>6, <2>2, <2>3 DEF EntraCallback
  <1>7. QED
    BY <1>3, <1>4, <1>5, <1>6 DEF Handle, View, AdminView, Logout

\* If every cookie after the step is an old one, the empty one or in order, all are.
LEMMA CookiesStep ==
    ASSUME SafeInv, Grows,
           \A c \in Cookies' : c \in Cookies \/ c = Empty \/ CookieOK(c)'
    PROVE  \A c \in Cookies' : CookieOK(c)'
  <1>1. \A c \in Cookies : c \in Sessions /\ CookieOK(c)
    BY CookiesTyped DEF SafeInv
  <1>2. \A c \in Cookies : CookieOK(c)'
    BY <1>1, CookieStays DEF SafeInv
  <1>3. QED
    BY <1>2, EmptyOK

\* An idle slot carries nothing.
LEMMA IdleTyped ==
    Idle \in Requests /\ Idle.sent = Empty /\ Idle.reply = Empty /\ Idle.served = FALSE
  BY DEF Idle, Requests, Kinds, Sessions, Empty, Secrets

\* A request sent carries the jar.
LEMMA SendEffect ==
    ASSUME TypeOK, NEW s \in Slots, SendRequest(s) \/ SendCallback(s)
    PROVE  /\ UNCHANGED <<jar, secretConfigured, flowState, links, loginVars, starter,
                          crossed, historyVars>>
           /\ slot' \in [Slots -> Requests]
           /\ \A x \in Slots : x # s => slot'[x] = slot[x]
           /\ slot'[s].phase = "sent" /\ slot'[s].sent = jar
           /\ slot'[s].reply = Empty /\ slot'[s].served = FALSE
  <1>1. PICK kind \in Kinds, f \in Flows \cup {NoFlow} : Send(s, kind, f)
    BY DEF SendRequest, SendCallback, Kinds
  <1> DEFINE new == [Idle EXCEPT !.phase = "sent", !.kind = kind, !.flow = f, !.sent = jar]
  <1>2. /\ new \in Requests /\ new.phase = "sent" /\ new.sent = jar
        /\ new.reply = Empty /\ new.served = FALSE
    BY IdleTyped DEF Idle, Requests, TypeOK
  <1>3. slot' = [slot EXCEPT ![s] = new]
    BY <1>1 DEF Send
  <1>4. QED
    BY <1>1, <1>2, <1>3 DEF Send, TypeOK

\* Restarting a worker changes no entry of a cookie, only whether it verifies.
LEMMA VoidedKeeps ==
    ASSUME NEW c \in Sessions, NEW w \in Workers
    PROVE  /\ Voided(c, w) \in Sessions
           /\ Voided(c, w).user = c.user /\ Voided(c, w).trust = c.trust
           /\ Voided(c, w).login = c.login /\ Voided(c, w).flow = c.flow
           /\ c = Empty => Voided(c, w) = Empty
  BY SecretAssumption DEF Voided, Sessions, Secrets, Empty

\* A restart touches the secrets of cookies and nothing else in them.
LEMMA RestartEffect ==
    ASSUME TypeOK, NEW w \in Workers, RestartWorker(w)
    PROVE  /\ jar' = Voided(jar, w)
           /\ slot' \in [Slots -> Requests]
           /\ \A s \in Slots : /\ slot'[s].sent = Voided(slot[s].sent, w)
                               /\ slot'[s].reply = Voided(slot[s].reply, w)
                               /\ slot'[s].phase = slot[s].phase
                               /\ slot'[s].kind = slot[s].kind
                               /\ slot'[s].served = slot[s].served
                               /\ slot'[s].modified = slot[s].modified
           /\ UNCHANGED <<secretConfigured, flowState, links, loginVars, starter,
                          crossed, historyVars>>
  <1>1. \A s \in Slots : /\ slot[s] \in Requests
                         /\ Voided(slot[s].sent, w) \in Sessions
                         /\ Voided(slot[s].reply, w) \in Sessions
    BY VoidedKeeps DEF TypeOK, Requests
  <1>2. QED
    BY <1>1 DEF RestartWorker, Requests

\* Every step keeps identities, flows, links and gates in order.
THEOREM SafeStep == SafeInv /\ [Next]_vars => SafeInv'
  <1> SUFFICES ASSUME SafeInv, [Next]_vars PROVE SafeInv'
    OBVIOUS
  <1> USE DEF SafeInv
  <1>1. ASSUME NEW s \in Slots, NEW w \in Workers, Handle(s, w)
        PROVE  SafeInv'
    <2>1. /\ Grows /\ UNCHANGED <<jar, secretConfigured, historyVars>>
      BY <1>1, HandlerSummary
    <2>2. PICK m \in BOOLEAN, sv \in BOOLEAN, ses \in Sessions : Summary(s, w, m, sv, ses)
      BY <1>1, HandlerSummary
    <2>3. /\ slot' \in [Slots -> Requests]
          /\ \A x \in Slots : x # s => slot'[x] = slot[x]
          /\ slot'[s].kind = slot[s].kind /\ slot'[s].sent = slot[s].sent
          /\ slot'[s].served = sv
          /\ slot'[s].reply = IF m THEN Signed(ses, w) ELSE Empty
      BY <2>2, ServedEffect DEF Summary
    <2>4. TypeOK'
      BY <1>1, <2>1, <2>3, HandlerHistory DEF TypeOK, historyVars
    <2>5. CookieOK(Signed(ses, w))'
      <3>1. CookieOK(ses)'
        BY <2>2 DEF Summary
      <3>2. PICK c \in Sessions : c = Signed(ses, w)
        BY SignedFields
      <3>3. c.user = ses.user /\ c.trust = ses.trust /\ c.login = ses.login /\ c.flow = ses.flow
        BY <3>2, SignedFields
      <3>4. CookieOK(c)'
        BY <3>1, <3>3 DEF CookieOK
      <3>5. UNCHANGED secretConfigured
        BY <2>1
      <3>6. QED
        BY <3>2, <3>4, <3>5 DEF Signed, SecretKey
    <2>6. \A c \in Cookies' : CookieOK(c)'
      <3>1. \A c \in Cookies' : c \in Cookies \/ c = Empty \/ c = Signed(ses, w)
        BY <2>1, <2>3 DEF Cookies
      <3>2. UNCHANGED secretConfigured
        BY <2>1
      <3>3. Signed(ses, w)' = Signed(ses, w)
        BY <3>2 DEF Signed, SecretKey
      <3>4. QED
        BY <2>1, <2>5, <3>1, <3>3, CookiesStep
    <2>7. \A x \in Slots : slot'[x].served /\ slot'[x].kind = "view" =>
             slot'[x].sent.user # NoUser /\ slot'[x].sent.trust >= AdminLevel
      BY <2>2, <2>3 DEF Summary
    <2>8. QED
      BY <1>1, <2>4, <2>6, <2>7, HandlerHistory
  <1>2. ASSUME NEW s \in Slots, SendRequest(s) \/ SendCallback(s)
        PROVE  SafeInv'
    <2>1. Grows
      BY <1>2, SendEffect, Unchanged
    <2>2. TypeOK'
      BY <1>2, SendEffect DEF TypeOK, loginVars, historyVars
    <2>3. \A c \in Cookies' : c \in Cookies \/ c = Empty
      <3>1. /\ jar' = jar
            /\ \A x \in Slots : /\ slot'[x].sent \in {slot[x].sent, jar}
                               /\ slot'[x].reply \in {slot[x].reply, Empty}
        BY <1>2, SendEffect
      <3>2. QED
        BY <3>1 DEF Cookies
    <2>4. QED
      BY <1>2, <2>1, <2>2, <2>3, SendEffect, CookiesStep DEF loginVars
  <1>3. ASSUME NEW s \in Slots, Deliver(s)
        PROVE  SafeInv'
    <2>1. /\ UNCHANGED <<secretConfigured, links, loginVars, starter, crossed>>
          /\ slot' = [slot EXCEPT ![s] = Idle]
          /\ jar' \in {jar, slot[s].reply}
      BY <1>3 DEF Deliver
    <2>2. \A f \in Flows : flowState'[f] = flowState[f] \/ flowState'[f] = "offered"
      BY <1>3 DEF Deliver, TypeOK
    <2>3. Grows
      BY <2>1, <2>2 DEF Grows, loginVars, TypeOK
    <2>4. slot[s] \in Requests /\ slot[s].sent \in Sessions /\ slot[s].reply \in Sessions
      BY DEF TypeOK, Requests
    <2>5. TypeOK'
      <3>1. flowState' \in [Flows -> FlowStates]
        BY <1>3 DEF Deliver, TypeOK, FlowStates
      <3>2. ended' \subseteq Nat /\ spent' \subseteq Flows /\ overtaken' \in BOOLEAN
        BY <1>3, <2>4 DEF Deliver, TypeOK, Sessions
      <3>3. QED
        BY <2>1, <2>4, <3>1, <3>2, IdleTyped DEF TypeOK, loginVars
    <2>6. \A c \in Cookies' : c \in Cookies \/ c = Empty
      BY <2>1, IdleTyped DEF Cookies, TypeOK
    <2>7. \A l \in links' : flowState'[l[1]] # "unused"
      <3>1. \A l \in links : l[1] \in Flows /\ flowState[l[1]] # "unused"
        BY DEF TypeOK
      <3>2. QED
        BY <2>1, <2>2, <3>1
    <2>8. QED
      BY <2>1, <2>3, <2>5, <2>6, <2>7, IdleTyped, CookiesStep DEF TypeOK, loginVars
  <1>4. ASSUME NEW s \in Slots, Lose(s)
        PROVE  SafeInv'
    <2>1. /\ UNCHANGED <<jar, secretConfigured, flowState, links, loginVars, starter,
                         crossed, historyVars>>
          /\ slot' = [slot EXCEPT ![s] = Idle]
      BY <1>4 DEF Lose
    <2>2. Grows
      BY <2>1, Unchanged
    <2>3. TypeOK'
      BY <2>1, IdleTyped DEF TypeOK, loginVars, historyVars
    <2>4. \A c \in Cookies' : c \in Cookies \/ c = Empty
      BY <2>1, IdleTyped DEF Cookies, TypeOK
    <2>5. QED
      BY <2>1, <2>2, <2>3, <2>4, IdleTyped, CookiesStep DEF TypeOK, loginVars
  <1>5. ASSUME NEW f \in Flows, Authenticate(f)
        PROVE  SafeInv'
    <2>1. /\ UNCHANGED <<jar, slot, secretConfigured, links, loginVars, starter,
                         crossed, historyVars>>
          /\ flowState' = [flowState EXCEPT ![f] = "authenticated"]
      BY <1>5 DEF Authenticate
    <2>2. Grows
      BY <2>1 DEF Grows, loginVars, TypeOK
    <2>3. TypeOK'
      BY <2>1 DEF TypeOK, loginVars, historyVars, FlowStates
    <2>4. \A c \in Cookies' : c \in Cookies
      BY <2>1 DEF Cookies
    <2>5. \A l \in links' : flowState'[l[1]] # "unused"
      <3>1. \A l \in links : l[1] \in Flows /\ flowState[l[1]] # "unused"
        BY DEF TypeOK
      <3>2. QED
        BY <2>1, <2>2, <3>1 DEF Grows
    <2>6. QED
      BY <2>1, <2>2, <2>3, <2>4, <2>5, CookiesStep DEF loginVars
  <1>6. ASSUME NEW w \in Workers, RestartWorker(w)
        PROVE  SafeInv'
    <2>1. Grows
      BY <1>6, RestartEffect, Unchanged
    <2>2. TypeOK'
      BY <1>6, RestartEffect, VoidedKeeps DEF TypeOK, loginVars, historyVars
    <2>3. ASSUME NEW c \in Cookies' PROVE CookieOK(c)'
      <3>1. PICK d \in Cookies : c = Voided(d, w)
        BY <1>6, RestartEffect DEF Cookies
      <3>2. d \in Sessions /\ CookieOK(d)'
        BY <2>1, CookiesTyped, CookieStays
      <3>3. c.user = d.user /\ c.trust = d.trust /\ c.login = d.login /\ c.flow = d.flow
        BY <3>1, <3>2, VoidedKeeps
      <3>4. QED
        BY <3>2, <3>3 DEF CookieOK
    <2>4. \A s \in Slots : slot[s].sent \in Sessions
      BY DEF TypeOK, Requests
    <2>5. QED
      BY <1>6, <2>2, <2>3, <2>4, RestartEffect, VoidedKeeps DEF loginVars
  <1>7. CASE UNCHANGED vars
    BY <1>7 DEF vars, TypeOK, Cookies, CookieOK
  <1>8. QED
    BY <1>1, <1>2, <1>3, <1>4, <1>5, <1>6, <1>7 DEF Next

\* They are in order at the start.
LEMMA SafeInit == Init => SafeInv
  <1> SUFFICES ASSUME Init PROVE SafeInv
    OBVIOUS
  <1>1. TypeOK
    <2>1. jar \in Sessions
      BY DEF Init, Empty, Sessions, Secrets
    <2>2. slot \in [Slots -> Requests]
      BY IdleTyped DEF Init
    <2>3. flowState \in [Flows -> FlowStates]
      BY DEF Init, FlowStates
    <2>4. starter \in [Flows -> Users \cup {NoUser}]
      BY DEF Init
    <2>5. /\ nextLogin \in Nat \ {0}
          /\ logins \subseteq Nat \X Users \X TrustLevels
          /\ links \subseteq Flows \X Users
          /\ crossed \subseteq Flows /\ ended \subseteq Nat /\ spent \subseteq Flows
      BY DEF Init
    <2>6. secretConfigured \in BOOLEAN /\ overtaken \in BOOLEAN
      BY DEF Init
    <2>7. QED
      BY <2>1, <2>2, <2>3, <2>4, <2>5, <2>6 DEF TypeOK
  <1>2. \A c \in Cookies : c = Empty
    BY IdleTyped DEF Init, Cookies
  <1>3. QED
    BY <1>1, <1>2, EmptyOK, IdleTyped DEF Init, SafeInv

\* They are in order always.
LEMMA SafeAlways == Spec => []SafeInv
  BY SafeInit, SafeStep, PTL DEF Spec

\* Type correctness, for every instance.
THEOREM TypeCorrect == Spec => []TypeOK
  <1>1. SafeInv => TypeOK
    BY DEF SafeInv
  <1>2. QED
    BY <1>1, SafeAlways, PTL

\* Two identities are never mixed in one cookie, for every instance.
THEOREM IdentitiesNeverMix == Spec => []OneIdentityPerCookie
  <1>1. SafeInv => OneIdentityPerCookie
    BY DEF SafeInv, OneIdentityPerCookie, CookieOK
  <1>2. QED
    BY <1>1, SafeAlways, PTL

\* Gated views serve only identities Core gave the level to, for every instance.
THEOREM GatesHonest == Spec => []ServedTrustWasGiven
  <1>1. SafeInv => ServedTrustWasGiven
    <2> SUFFICES ASSUME SafeInv, NEW s \in Slots, slot[s].served, slot[s].kind = "view"
                 PROVE  \E t \in TrustLevels : /\ t >= AdminLevel
                          /\ <<slot[s].sent.login, slot[s].sent.user, t>> \in logins
      BY DEF ServedTrustWasGiven
    <2>1. /\ slot[s].sent.user # NoUser /\ slot[s].sent.trust >= AdminLevel
          /\ CookieOK(slot[s].sent)
      BY DEF SafeInv, Cookies
    <2>2. <<slot[s].sent.login, slot[s].sent.user, slot[s].sent.trust>> \in logins
      BY <2>1 DEF CookieOK
    <2>3. slot[s].sent.trust \in TrustLevels
      BY <2>2 DEF SafeInv, TypeOK
    <2>4. QED
      BY <2>1, <2>2, <2>3
  <1>2. QED
    BY <1>1, SafeAlways, PTL

\* Entra accounts go to the starter of their flow unless a login crossed it, for
\* every instance.
THEOREM LinksGoToStarter == Spec => []LinkedByStarter
  <1>1. SafeInv => LinkedByStarter
    BY DEF SafeInv, LinkedByStarter
  <1>2. QED
    BY <1>1, SafeAlways, PTL
-------------------------------------------------------------------------------
(* Nothing is resurrected. *)

\* All logins and flows anywhere are older than the next ones.
LEMMA CookiesOlder ==
    ASSUME SafeInv, NEW c \in Cookies
    PROVE  c.login # nextLogin /\ (c.flow # NoFlow => flowState[c.flow] # "unused")
  <1>1. c \in Sessions /\ CookieOK(c)
    BY CookiesTyped DEF SafeInv
  <1>2. c.login = 0 \/ c.login < nextLogin
    BY <1>1 DEF CookieOK, SafeInv
  <1>3. c.login # nextLogin
    BY <1>1, <1>2 DEF SafeInv, TypeOK, Sessions
  <1>4. QED
    BY <1>1, <1>3 DEF CookieOK

\* A handler keeps, drops or renews what it was sent.
LEMMA OrderHandle ==
    ASSUME SafeInv, OrderInv, NEW s \in Slots, NEW w \in Workers, Handle(s, w)
    PROVE  OrderInv'
  <1>1. Grows /\ UNCHANGED <<jar, secretConfigured, ended, spent, overtaken>>
    BY HandlerSummary DEF historyVars
  <1>2. PICK m \in BOOLEAN, sv \in BOOLEAN, ses \in Sessions : Summary(s, w, m, sv, ses)
    BY HandlerSummary
  <1>3. /\ slot' \in [Slots -> Requests]
        /\ \A x \in Slots : x # s => slot'[x] = slot[x]
        /\ slot'[s].phase = "answered"
        /\ slot'[s].kind = slot[s].kind /\ slot'[s].sent = slot[s].sent
        /\ slot'[s].served = sv /\ slot'[s].modified = m
        /\ slot'[s].reply = IF m THEN Signed(ses, w) ELSE Empty
    BY <1>2, ServedEffect DEF Summary, SafeInv
  <1>4. /\ slot'[s].reply.login \in {0, ses.login}
        /\ slot'[s].reply.flow \in {NoFlow, ses.flow}
        /\ ses = Empty => slot'[s].reply = Empty
    <2>1. /\ Signed(ses, w).login = ses.login /\ Signed(ses, w).flow = ses.flow
          /\ Empty.login = 0 /\ Empty.flow = NoFlow
      BY SignedFields DEF SafeInv, Empty
    <2>2. ses = Empty => Signed(ses, w) = Empty
      BY DEF Signed, Empty
    <2>3. QED
      BY <1>3, <2>1, <2>2
  <1>5. \A c \in Cookies : c.login # nextLogin /\ (c.flow # NoFlow => flowState[c.flow] # "unused")
    BY CookiesOlder
  <1>6. \A n \in ended' : n # 0 /\ n < nextLogin'
    <2>1. \A n \in ended : n # 0 /\ n < nextLogin /\ n \in Nat
      BY DEF OrderInv, SafeInv, TypeOK
    <2>2. QED
      BY <1>1, <2>1 DEF Grows, SafeInv, TypeOK
  <1>7. \A f \in spent' : flowState'[f] # "unused"
    BY <1>1 DEF Grows, OrderInv, SafeInv, TypeOK
  <1>8. ses.login = 0 \/ ses.login = slot[s].sent.login \/ ses.login = nextLogin
    BY <1>2 DEF Summary
  <1>9. nextLogin \notin ended
    BY DEF OrderInv, SafeInv, TypeOK
  <1>10. AnswerOK(s)'
    <2>1. /\ slot'[s].kind = "logout" => slot'[s].modified /\ slot'[s].reply = Empty
      BY <1>2, <1>3, <1>4 DEF Summary
    <2>2. slot'[s].served /\ slot'[s].kind = "callback" =>
              slot'[s].modified /\ slot'[s].reply.flow = NoFlow
      BY <1>2, <1>3, <1>4 DEF Summary
    <2>3. slot'[s].reply.login \in {0, slot'[s].sent.login} \/ NewLogin(s)'
      <3>1. CASE slot'[s].reply.login \in {0, slot[s].sent.login}
        BY <1>3, <3>1
      <3>2. CASE slot'[s].reply.login = nextLogin
        <4>1. \A x \in Slots : /\ slot[x].sent.login # nextLogin
                              /\ slot[x].reply.login # nextLogin
          BY <1>5 DEF Cookies
        <4>2. jar.login # nextLogin
          BY <1>5 DEF Cookies
        <4>3. QED
          BY <1>1, <1>3, <1>9, <3>2, <4>1, <4>2 DEF NewLogin
      <3>3. QED
        BY <1>4, <1>8, <3>1, <3>2
    <2>4. slot'[s].reply.flow \in {NoFlow, slot'[s].sent.flow} \/ NewFlow(s)'
      <3>1. CASE slot'[s].reply.flow \in {NoFlow, slot[s].sent.flow}
        BY <1>3, <3>1
      <3>2. CASE slot'[s].reply.flow # NoFlow /\ flowState[slot'[s].reply.flow] = "unused"
        <4> DEFINE f == slot'[s].reply.flow
        <4>1. \A x \in Slots : slot[x].sent.flow # f /\ slot[x].reply.flow # f
          BY <1>5, <3>2 DEF Cookies
        <4>2. jar.flow # f /\ f \notin spent
          BY <1>5, <3>2 DEF Cookies, OrderInv
        <4>3. QED
          BY <1>1, <1>3, <4>1, <4>2 DEF NewFlow
      <3>3. QED
        BY <1>2, <1>4, <3>1, <3>2 DEF Summary
    <2>5. QED
      BY <1>3, <2>1, <2>2, <2>3, <2>4 DEF AnswerOK
  <1>11. ASSUME NEW x \in Slots, x # s PROVE AnswerOK(x)'
    <2>1. AnswerOK(x) /\ slot'[x] = slot[x]
      BY <1>3, <1>11 DEF OrderInv
    <2>2. ASSUME NewLogin(x), slot[x].reply.login # 0 PROVE NewLogin(x)'
      <3> DEFINE n == slot[x].reply.login
      <3>1. n # nextLogin
        BY <1>5 DEF Cookies
      <3>2. n # slot'[s].reply.login
        BY <1>4, <1>8, <2>2, <3>1 DEF NewLogin
      <3>3. QED
        BY <1>1, <1>3, <2>1, <2>2, <3>2 DEF NewLogin
    <2>3. ASSUME NewFlow(x), slot[x].reply.flow # NoFlow PROVE NewFlow(x)'
      <3> DEFINE f == slot[x].reply.flow
      <3>1. flowState[f] # "unused"
        BY <1>5, <2>3 DEF Cookies
      <3>2. f # slot'[s].reply.flow
        BY <1>2, <1>4, <2>3, <3>1 DEF Summary, NewFlow
      <3>3. QED
        BY <1>1, <1>3, <2>1, <2>3, <3>2 DEF NewFlow
    <2>4. QED
      BY <2>1, <2>2, <2>3 DEF AnswerOK
  <1>12. QED
    BY <1>1, <1>6, <1>7, <1>10, <1>11 DEF OrderInv

\* Sending a request creates no login and no flow.
LEMMA OrderSend ==
    ASSUME SafeInv, OrderInv, NEW s \in Slots, SendRequest(s) \/ SendCallback(s)
    PROVE  OrderInv'
  <1>1. /\ UNCHANGED <<jar, flowState, nextLogin, ended, spent, overtaken>>
        /\ \A x \in Slots : x # s => slot'[x] = slot[x]
        /\ slot'[s].phase = "sent" /\ slot'[s].sent = jar
        /\ slot'[s].reply = Empty /\ slot'[s].served = FALSE
    BY SendEffect DEF SafeInv, loginVars, historyVars
  <1>2. Empty.login = 0 /\ Empty.flow = NoFlow
    BY DEF Empty
  <1>3. AnswerOK(s)'
    BY <1>1, <1>2 DEF AnswerOK
  <1>4. ASSUME NEW x \in Slots, x # s PROVE AnswerOK(x)'
    <2>1. AnswerOK(x) /\ slot'[x] = slot[x]
      BY <1>1, <1>4 DEF OrderInv
    <2>2. NewLogin(x) /\ slot[x].reply.login # 0 => NewLogin(x)'
      BY <1>1, <1>2, <2>1 DEF NewLogin
    <2>3. NewFlow(x) /\ slot[x].reply.flow # NoFlow => NewFlow(x)'
      BY <1>1, <1>2, <2>1 DEF NewFlow
    <2>4. QED
      BY <2>1, <2>2, <2>3 DEF AnswerOK
  <1>5. QED
    BY <1>1, <1>3, <1>4 DEF OrderInv

\* An answer arriving in order never brings back what was ended or spent.
LEMMA OrderDeliver ==
    ASSUME SafeInv, OrderInv, NEW s \in Slots, Deliver(s)
    PROVE  OrderInv'
  <1> DEFINE r == slot[s]
  <1>1. /\ slot' = [slot EXCEPT ![s] = Idle]
        /\ r.phase = "answered"
        /\ jar' = IF r.modified THEN r.reply ELSE jar
        /\ overtaken' = (overtaken \/ (r.modified /\ r.sent # jar))
        /\ ended' = IF overtaken' THEN {}
                    ELSE IF r.kind = "logout" THEN ended \cup ({r.sent.login} \ {0})
                    ELSE ended
        /\ spent' = IF overtaken' THEN {}
                    ELSE IF r.kind = "callback" /\ r.served
                    THEN spent \cup ({r.sent.flow} \ {NoFlow}) ELSE spent
        /\ nextLogin' = nextLogin
    BY DEF Deliver, loginVars
  <1>2. /\ slot'[s] = Idle
        /\ \A x \in Slots : x # s => slot'[x] = slot[x]
        /\ r \in Requests /\ r.sent \in Sessions
    BY <1>1 DEF SafeInv, TypeOK, Requests
  <1>3. \A f \in Flows : flowState[f] # "unused" => flowState'[f] # "unused"
    BY DEF Deliver, SafeInv, TypeOK
  <1>4. AnswerOK(s)
    BY DEF OrderInv
  <1>5. r.sent \in Cookies /\ r.reply \in Cookies /\ jar \in Cookies
    BY DEF Cookies
  <1>6. \A n \in ended' : n # 0 /\ n < nextLogin'
    <2>1. r.sent.login = 0 \/ r.sent.login < nextLogin
      BY <1>5 DEF SafeInv, CookieOK
    <2>2. QED
      BY <1>1, <2>1 DEF OrderInv
  <1>7. \A f \in spent' : flowState'[f] # "unused"
    <2>1. r.sent.flow # NoFlow => r.sent.flow \in Flows /\ flowState[r.sent.flow] # "unused"
      BY <1>2, <1>5, CookiesOlder DEF Sessions
    <2>2. \A f \in spent : f \in Flows /\ flowState[f] # "unused"
      BY DEF OrderInv, SafeInv, TypeOK
    <2>3. QED
      BY <1>1, <1>3, <2>1, <2>2
  <1>8. AnswerOK(s)'
    BY <1>2, IdleTyped DEF AnswerOK, Idle, Empty
  <1>9. ASSUME NEW x \in Slots, x # s PROVE AnswerOK(x)'
    <2>1. AnswerOK(x) /\ slot'[x] = slot[x]
      BY <1>2, <1>9 DEF OrderInv
    <2>2. Empty.login = 0 /\ Empty.flow = NoFlow
      BY DEF Empty
    <2>3. ASSUME NewLogin(x), slot[x].reply.login # 0 PROVE NewLogin(x)'
      <3>0. PICK n : n = slot[x].reply.login
        OBVIOUS
      <3>1. n \notin ended /\ jar.login # n /\ r.sent.login # n /\ r.reply.login # n
        BY <1>9, <2>3, <3>0 DEF NewLogin
      <3>2. n \notin ended' /\ jar'.login # n
        BY <1>1, <3>1
      <3>3. \A y \in Slots : /\ slot'[y].sent.login # n
                             /\ y # x => slot'[y].reply.login # n
        BY <1>2, <2>2, <2>3, <3>0, IdleTyped DEF NewLogin
      <3>4. n = slot'[x].reply.login
        BY <2>1, <3>0
      <3>5. QED
        BY <3>2, <3>3, <3>4 DEF NewLogin
    <2>4. ASSUME NewFlow(x), slot[x].reply.flow # NoFlow PROVE NewFlow(x)'
      <3>0. PICK f : f = slot[x].reply.flow
        OBVIOUS
      <3>1. f \notin spent /\ jar.flow # f /\ r.sent.flow # f /\ r.reply.flow # f
        BY <1>9, <2>4, <3>0 DEF NewFlow
      <3>2. f \notin spent' /\ jar'.flow # f
        BY <1>1, <3>1
      <3>3. \A y \in Slots : /\ slot'[y].sent.flow # f
                             /\ y # x => slot'[y].reply.flow # f
        BY <1>2, <2>2, <2>4, <3>0, IdleTyped DEF NewFlow
      <3>4. f = slot'[x].reply.flow
        BY <2>1, <3>0
      <3>5. QED
        BY <3>2, <3>3, <3>4 DEF NewFlow
    <2>5. QED
      BY <2>1, <2>3, <2>4 DEF AnswerOK
  <1>10. jar'.login \notin ended' /\ jar'.flow \notin spent'
    <2>1. CASE overtaken'
      BY <1>1, <2>1
    <2>2. CASE ~overtaken' /\ ~r.modified
      BY <1>1, <1>4, <2>2 DEF OrderInv, AnswerOK
    <2>3. CASE ~overtaken' /\ r.modified
      <3>1. r.sent = jar /\ jar' = r.reply
        BY <1>1, <2>3
      <3>2. r.reply.login \notin ended
        <4>1. 0 \notin ended
          BY DEF OrderInv
        <4>2. QED
          BY <1>4, <3>1, <4>1 DEF AnswerOK, NewLogin, OrderInv
      <3>3. r.reply.flow \notin spent
        <4>1. NoFlow \notin spent
          BY NamesAssumption DEF SafeInv, TypeOK
        <4>2. QED
          BY <1>4, <3>1, <4>1 DEF AnswerOK, NewFlow, OrderInv
      <3>4. r.kind = "logout" => r.reply.login = 0
        BY <1>1, <1>4 DEF AnswerOK, Empty
      <3>5. r.kind = "callback" /\ r.served => r.reply.flow = NoFlow
        BY <1>4 DEF AnswerOK
      <3>6. QED
        BY <1>1, <3>1, <3>2, <3>3, <3>4, <3>5
    <2>4. QED
      BY <2>1, <2>2, <2>3
  <1>11. overtaken' => ended' = {} /\ spent' = {}
    BY <1>1
  <1>12. QED
    BY <1>6, <1>7, <1>8, <1>9, <1>10, <1>11 DEF OrderInv

\* Losing a request or an answer brings nothing back.
LEMMA OrderLose ==
    ASSUME SafeInv, OrderInv, NEW s \in Slots, Lose(s)
    PROVE  OrderInv'
  <1>1. /\ UNCHANGED <<jar, flowState, nextLogin, ended, spent, overtaken>>
        /\ slot'[s] = Idle
        /\ \A x \in Slots : x # s => slot'[x] = slot[x]
    BY DEF Lose, SafeInv, TypeOK, loginVars, historyVars
  <1>2. Empty.login = 0 /\ Empty.flow = NoFlow
    BY DEF Empty
  <1>3. AnswerOK(s)'
    BY <1>1, IdleTyped DEF AnswerOK, Idle, Empty
  <1>4. ASSUME NEW x \in Slots, x # s PROVE AnswerOK(x)'
    <2>1. AnswerOK(x) /\ slot'[x] = slot[x]
      BY <1>1, <1>4 DEF OrderInv
    <2>2. NewLogin(x) /\ slot[x].reply.login # 0 => NewLogin(x)'
      BY <1>1, <1>2, <2>1, IdleTyped DEF NewLogin
    <2>3. NewFlow(x) /\ slot[x].reply.flow # NoFlow => NewFlow(x)'
      BY <1>1, <1>2, <2>1, IdleTyped DEF NewFlow
    <2>4. QED
      BY <2>1, <2>2, <2>3 DEF AnswerOK
  <1>5. QED
    BY <1>1, <1>3, <1>4 DEF OrderInv

\* Replacing a worker changes no login and no flow.
LEMMA OrderRestart ==
    ASSUME SafeInv, OrderInv, NEW w \in Workers, RestartWorker(w)
    PROVE  OrderInv'
  <1>1. /\ UNCHANGED <<flowState, nextLogin, ended, spent, overtaken>>
        /\ jar'.login = jar.login /\ jar'.flow = jar.flow
    BY RestartEffect, VoidedKeeps DEF SafeInv, TypeOK, loginVars, historyVars
  <1>2. \A s \in Slots :
            /\ slot'[s].sent.login = slot[s].sent.login
            /\ slot'[s].sent.flow = slot[s].sent.flow
            /\ slot'[s].reply.login = slot[s].reply.login
            /\ slot'[s].reply.flow = slot[s].reply.flow
            /\ slot[s].reply = Empty => slot'[s].reply = Empty
            /\ slot'[s].phase = slot[s].phase /\ slot'[s].kind = slot[s].kind
            /\ slot'[s].served = slot[s].served /\ slot'[s].modified = slot[s].modified
    <2>1. \A s \in Slots : slot[s].sent \in Sessions /\ slot[s].reply \in Sessions
      BY DEF SafeInv, TypeOK, Requests
    <2>2. QED
      BY <2>1, RestartEffect, VoidedKeeps DEF SafeInv
  <1>3. ASSUME NEW s \in Slots PROVE AnswerOK(s)'
    <2>1. AnswerOK(s)
      BY DEF OrderInv
    <2>2. NewLogin(s) => NewLogin(s)'
      BY <1>1, <1>2 DEF NewLogin
    <2>3. NewFlow(s) => NewFlow(s)'
      BY <1>1, <1>2 DEF NewFlow
    <2>4. QED
      BY <1>2, <2>1, <2>2, <2>3 DEF AnswerOK
  <1>4. QED
    BY <1>1, <1>3 DEF OrderInv

\* Every step keeps ended logins and spent flows out of the jar unless an answer overtook.
THEOREM OrderStep == SafeInv /\ OrderInv /\ [Next]_vars => OrderInv'
  <1> SUFFICES ASSUME SafeInv, OrderInv, [Next]_vars PROVE OrderInv'
    OBVIOUS
  <1>1. ASSUME NEW f \in Flows, Authenticate(f)
        PROVE  OrderInv'
    <2>1. UNCHANGED <<jar, slot, nextLogin, ended, spent, overtaken>>
      BY <1>1 DEF Authenticate, loginVars, historyVars
    <2>2. \A g \in Flows : flowState[g] # "unused" => flowState'[g] # "unused"
      BY <1>1 DEF Authenticate, SafeInv, TypeOK
    <2>3. \A g \in spent' : flowState'[g] # "unused"
      BY <2>1, <2>2 DEF OrderInv, SafeInv, TypeOK
    <2>4. \A s \in Slots : AnswerOK(s)'
      BY <2>1 DEF OrderInv, AnswerOK, NewLogin, NewFlow
    <2>5. QED
      BY <2>1, <2>3, <2>4 DEF OrderInv
  <1>2. CASE UNCHANGED vars
    BY <1>2 DEF vars, OrderInv, AnswerOK, NewLogin, NewFlow
  <1>3. QED
    BY <1>1, <1>2, OrderHandle, OrderSend, OrderDeliver, OrderLose, OrderRestart DEF Next

\* Nothing has ended or been spent at the start.
LEMMA OrderInit == Init => OrderInv
  <1> SUFFICES ASSUME Init PROVE OrderInv
    OBVIOUS
  <1>1. \A s \in Slots : slot[s] = Idle
    BY DEF Init
  <1>2. \A s \in Slots : AnswerOK(s)
    BY <1>1 DEF AnswerOK, Idle, Empty
  <1>3. QED
    BY <1>2 DEF Init, OrderInv, Empty

\* Without an overtaken answer a logout is final and a flow is used once, for every
\* instance: any number of tabs, workers, users and flows.
THEOREM NothingResurrected == Spec => []NoResurrection
  <1>1. OrderInv => NoResurrection
    BY DEF OrderInv, NoResurrection
  <1>2. QED
    BY <1>1, SafeInit, SafeStep, OrderInit, OrderStep, PTL DEF Spec
-------------------------------------------------------------------------------
(* Who is logged in. *)

\* An answer under way that sets the cookie keeps the login, or is one that may not.
LoginInv ==
    \A s \in Slots : slot[s].phase = "answered" /\ slot[s].modified =>
        KeepsLogin(slot[s], slot[s].reply)

\* Every step keeps it so.
LEMMA LoginStep == SafeInv /\ LoginInv /\ [Next]_vars => LoginInv'
  <1> SUFFICES ASSUME SafeInv, LoginInv, [Next]_vars PROVE LoginInv'
    OBVIOUS
  <1> USE DEF LoginInv
  <1>1. ASSUME NEW s \in Slots, NEW w \in Workers, Handle(s, w) PROVE LoginInv'
    <2>1. PICK m \in BOOLEAN, sv \in BOOLEAN, ses \in Sessions : Summary(s, w, m, sv, ses)
      BY <1>1, HandlerSummary
    <2>2. /\ \A x \in Slots : x # s => slot'[x] = slot[x]
          /\ slot'[s].kind = slot[s].kind
          /\ slot'[s].sent = slot[s].sent
          /\ slot'[s].modified = m
          /\ slot'[s].reply = IF m THEN Signed(ses, w) ELSE Empty
      BY <2>1, ServedEffect DEF Summary, SafeInv
    <2>3. PICK c : /\ c = Signed(ses, w)
                   /\ c.user = ses.user /\ c.trust = ses.trust /\ c.login = ses.login
      BY SignedFields DEF SafeInv
    <2>4. m => KeepsLogin(slot'[s], c)
      BY <2>1, <2>2, <2>3 DEF Summary, KeepsLogin, Identity, LoggedIn
    <2>5. QED
      BY <2>2, <2>3, <2>4
  <1>2. ASSUME NEW s \in Slots, SendRequest(s) \/ SendCallback(s) PROVE LoginInv'
    <2>1. slot'[s].phase = "sent" /\ \A x \in Slots : x # s => slot'[x] = slot[x]
      BY <1>2 DEF SendRequest, SendCallback, Send, SafeInv, TypeOK, Idle
    <2>2. QED
      BY <2>1
  <1>3. ASSUME NEW s \in Slots, Deliver(s) \/ Lose(s) PROVE LoginInv'
    <2>1. \A x \in Slots : slot'[x] = slot[x] \/ slot'[x] = Idle
      BY <1>3 DEF Deliver, Lose, SafeInv, TypeOK
    <2>2. QED
      BY <2>1 DEF Idle
  <1>4. ASSUME NEW f \in Flows, Authenticate(f) PROVE LoginInv'
    BY <1>4 DEF Authenticate
  <1>5. ASSUME NEW w \in Workers, RestartWorker(w) PROVE LoginInv'
    <2>1. ASSUME NEW s \in Slots PROVE /\ Identity(slot'[s].sent) = Identity(slot[s].sent)
                                      /\ Identity(slot'[s].reply) = Identity(slot[s].reply)
                                      /\ LoggedIn(slot'[s].reply) = LoggedIn(slot[s].reply)
      BY <1>5, RestartEffect, VoidedKeeps, LoadedTyped
         DEF SafeInv, Requests, Identity, LoggedIn
    <2>2. QED
      BY <1>5, <2>1, RestartEffect DEF SafeInv, KeepsLogin
  <1>6. CASE UNCHANGED vars
    BY <1>6 DEF vars
  <1>7. QED
    BY <1>1, <1>2, <1>3, <1>4, <1>5, <1>6 DEF Next

\* No step but a login, a logout or a late answer changes who is logged in, for any
\* number of workers and tabs, whichever secrets sign the cookies.
THEOREM LoginsKept == Spec => LoginKept
  <1> DEFINE Kept == Identity(jar') # Identity(jar) =>
                 \E s \in Slots :
                     /\ slot[s].phase = "answered" /\ slot'[s].phase = "idle"
                     /\ \/ slot[s].kind = "login" /\ LoggedIn(jar')
                        \/ slot[s].kind = "logout"
                        \/ Identity(slot[s].sent) # Identity(jar)
  <1>1. Init => LoginInv
    BY DEF Init, LoginInv, Idle
  <1>2. SafeInv /\ LoginInv /\ [Next]_vars => [Kept]_vars
    <2> SUFFICES ASSUME SafeInv, LoginInv, Next, Identity(jar') # Identity(jar)
                 PROVE  Kept
      OBVIOUS
    <2>1. CASE \E s \in Slots : Deliver(s)
      <3>1. PICK s \in Slots : Deliver(s)
        BY <2>1
      <3>2. /\ slot[s].phase = "answered" /\ slot'[s].phase = "idle"
            /\ slot[s].modified /\ jar' = slot[s].reply
        BY <3>1 DEF Deliver, SafeInv, TypeOK, Idle
      <3>3. KeepsLogin(slot[s], slot[s].reply)
        BY <3>2 DEF LoginInv
      <3>4. QED
        BY <3>2, <3>3 DEF KeepsLogin
    <2>2. CASE \E w \in Workers : RestartWorker(w)
      <3>1. PICK w \in Workers : jar' = Voided(jar, w)
        BY <2>2 DEF RestartWorker
      <3>2. Identity(jar') = Identity(jar)
        BY <3>1, VoidedKeeps DEF SafeInv, TypeOK, Identity
      <3>3. QED
        BY <3>2
    <2>3. CASE \E s \in Slots, w \in Workers : Handle(s, w)
      BY <2>3, HandlerSummary
    <2>4. CASE \/ \E s \in Slots : SendRequest(s) \/ SendCallback(s) \/ Lose(s)
               \/ \E f \in Flows : Authenticate(f)
      BY <2>4 DEF SendRequest, SendCallback, Send, Lose, Authenticate
    <2>5. QED
      BY <2>1, <2>2, <2>3, <2>4 DEF Next
  <1>3. QED
    BY <1>1, <1>2, SafeInit, SafeStep, LoginStep, PTL DEF Spec, LoginKept
===============================================================================
