------------------------------ MODULE WebSession ------------------------------
(***************************************************************************)
(* The login session of one browser.  Flask keeps no session on the        *)
(* server: the session is a signed cookie, a request carries the value the *)
(* jar held when it was sent, and an answer overwrites the jar as a whole  *)
(* if (and only if) the handler modified the session.  Requests of several *)
(* tabs overlap, are handled by different gunicorn workers and come back   *)
(* in any order, or not at all.                                            *)
(*                                                                         *)
(* Handlers: blueprints/auth.py, the Entra linking of blueprints/me.py, a  *)
(* page behind trust_level_required, and every other view.  Flash messages *)
(* also live in the session: queueing one, and rendering any page while    *)
(* some are queued (base.html), modifies it.  Their text is left out, that *)
(* they make an answer set the cookie is not.                              *)
(***************************************************************************)
EXTENDS Naturals, FiniteSets

CONSTANTS
    Users,       \* users known to Hannah Core
    NoUser,      \* no "user_id" in the session
    Flows,       \* Entra auth-code flows ("state" values) that may be started
    NoFlow,      \* no "entra_flow" in the session
    Workers,     \* gunicorn worker processes
    Configured,  \* the secret_key of config.yaml
    Lost,        \* any random secret whose process is gone
    Unsigned,    \* the secret of the empty session, which is never signed
    Slots,       \* concurrent requests of the browser
    TrustLevels, \* values Core stores for a user's trust level
    AdminLevel,  \* the level trust_level_required asks for
    MaxLogins    \* bound: successful logins

ASSUME NamesAssumption == NoUser \notin Users /\ NoFlow \notin Flows
ASSUME SecretAssumption ==
    /\ Workers \cap {Configured, Lost, Unsigned} = {}
    /\ Configured # Lost /\ Configured # Unsigned /\ Lost # Unsigned
ASSUME LevelAssumption == TrustLevels \subseteq Nat /\ AdminLevel \in Nat \ {0}
ASSUME BoundAssumption == MaxLogins \in Nat

VARIABLES
    jar,        \* the session cookie the browser holds
    slot,       \* the browser's requests and the answers under way
    secretConfigured, \* config.yaml has a secret_key
    flowState,  \* each flow as the identity provider and the browser know it
    links,      \* <<flow, user>>: Entra accounts linked through link_account
    logins,     \* <<n, user, trust>>: what Core answered to the n-th successful login
    nextLogin,  \* number of the next successful login
    starter,    \* history: who was logged in when a flow was started
    crossed,    \* history: flows a login of another user found in its session
    ended,      \* history: logins whose logout answer reached the browser
    spent,      \* history: flows whose callback answer reached the browser
    overtaken   \* history: an answer overwrote a jar its request had not seen

vars == <<jar, slot, secretConfigured, flowState, links,
          logins, nextLogin, starter, crossed, ended, spent, overtaken>>

loginVars == <<logins, nextLogin>>
historyVars == <<ended, spent, overtaken>>
-------------------------------------------------------------------------------
\* login: number of the login that wrote the identity (0 = none), a ghost.
\* secret: the key the cookie is signed with; a random one is named for its worker.
\* served: a gated view, or the callback, got past its entry checks to its work.
Secrets == Workers \cup {Configured, Lost, Unsigned}

Sessions == [user : Users \cup {NoUser}, trust : Nat, login : Nat,
             flow : Flows \cup {NoFlow}, secret : Secrets]

Empty == [user |-> NoUser, trust |-> 0, login |-> 0,
          flow |-> NoFlow, secret |-> Unsigned]

Kinds == {"view", "login", "logout", "entra_login", "callback"}

Requests == [phase : {"idle", "sent", "answered"}, kind : Kinds,
             flow : Flows \cup {NoFlow}, sent : Sessions,
             served : BOOLEAN, modified : BOOLEAN, reply : Sessions]

Idle == [phase |-> "idle", kind |-> "view", flow |-> NoFlow, sent |-> Empty,
         served |-> FALSE, modified |-> FALSE, reply |-> Empty]

FlowStates == {"unused", "started", "offered", "authenticated", "redeemed"}

Init ==
    /\ jar = Empty
    /\ slot = [s \in Slots |-> Idle]
    /\ secretConfigured \in BOOLEAN
    /\ flowState = [f \in Flows |-> "unused"]
    /\ links = {}
    /\ logins = {}
    /\ nextLogin = 1
    /\ starter = [f \in Flows |-> NoUser]
    /\ crossed = {}
    /\ ended = {}
    /\ spent = {}
    /\ overtaken = FALSE
-------------------------------------------------------------------------------
(* The browser. *)

Send(s, kind, f) ==
    /\ slot[s].phase = "idle"
    /\ slot' = [slot EXCEPT ![s] = [Idle EXCEPT !.phase = "sent", !.kind = kind,
                                                !.flow = f, !.sent = jar]]
    /\ UNCHANGED <<jar, secretConfigured, flowState, links, loginVars, starter,
                   crossed, historyVars>>

SendRequest(s) == \E kind \in Kinds \ {"callback"} : Send(s, kind, NoFlow)

\* The redirect back from Microsoft.  The user may have authenticated or
\* cancelled there, and may reload the callback's address later.
SendCallback(s) ==
    \E f \in Flows : /\ flowState[f] \in {"offered", "authenticated", "redeemed"}
                     /\ Send(s, "callback", f)

\* The answer arrives; Set-Cookie replaces the cookie as a whole.  The redirect
\* of an entra_login takes the user to the identity provider.
Deliver(s) ==
    LET r == slot[s] IN
    /\ r.phase = "answered"
    /\ slot' = [slot EXCEPT ![s] = Idle]
    /\ jar' = IF r.modified THEN r.reply ELSE jar
    /\ flowState' = [f \in Flows |->
           IF r.kind = "entra_login" /\ r.modified /\ r.reply.flow = f
              /\ flowState[f] = "started" THEN "offered" ELSE flowState[f]]
    /\ overtaken' = (overtaken \/ (r.modified /\ r.sent # jar))
    /\ ended' = IF overtaken' THEN {}
                ELSE IF r.kind = "logout" THEN ended \cup ({r.sent.login} \ {0}) ELSE ended
    /\ spent' = IF overtaken' THEN {}
                ELSE IF r.kind = "callback" /\ r.served THEN spent \cup ({r.sent.flow} \ {NoFlow}) ELSE spent
    /\ UNCHANGED <<secretConfigured, links, loginVars, starter, crossed>>

\* A request or its answer is lost: tab closed, connection reset, or the worker
\* killed by gunicorn's timeout.  What the handler did to Core stays done.
Lose(s) ==
    /\ slot[s].phase # "idle"
    /\ slot' = [slot EXCEPT ![s] = Idle]
    /\ UNCHANGED <<jar, secretConfigured, flowState, links, loginVars, starter,
                   crossed, historyVars>>
-------------------------------------------------------------------------------
(* Flask's session interface. *)

\* app.secret_key of the process: configured, or os.urandom(24) at create_app.
SecretKey(w) == IF secretConfigured THEN Configured ELSE w

\* A cookie whose signature does not verify loads as an empty session.
Loaded(s, w) == IF slot[s].sent.secret = SecretKey(w) THEN slot[s].sent ELSE Empty

\* The session as saved in the answer; an emptied one deletes the cookie.
Signed(session, w) ==
    IF [session EXCEPT !.secret = Unsigned] = Empty THEN Empty
    ELSE [session EXCEPT !.secret = SecretKey(w)]

Pending(s, kind) == slot[s].phase = "sent" /\ slot[s].kind = kind

Served(s, w, modified, session, served) ==
    slot' = [slot EXCEPT ![s].phase = "answered", ![s].modified = modified,
                         ![s].served = served,
                         ![s].reply = IF modified THEN Signed(session, w) ELSE Empty]

Answer(s, w, modified, session) == Served(s, w, modified, session, FALSE)

\* get_flashed_messages of base.html, which every page extends, removes the queued
\* messages: the session is modified if there were any (none can be read from a
\* cookie another worker signed).
RenderPage(s, w, session) ==
    \E queued \in BOOLEAN : /\ queued => Loaded(s, w) = slot[s].sent
                            /\ Answer(s, w, queued, session)

\* flash() always modifies the session.
FlashAndRedirect(s, w, session) == Answer(s, w, TRUE, session)

LoggedIn(session) == session.user # NoUser

\* Mutant: the redirect comes with a message, so the answer sets the cookie.
RedirectWithMessage(s, w) ==
    /\ ~LoggedIn(Loaded(s, w))
    /\ FlashAndRedirect(s, w, Loaded(s, w))

\* login_required: redirect to the login page, the session untouched.
RedirectToLogin(s, w) ==
    /\ ~LoggedIn(Loaded(s, w))
    /\ Answer(s, w, FALSE, Loaded(s, w))
-------------------------------------------------------------------------------
(* The handlers. *)

\* Any view that leaves identity and flow alone: it renders a page (the error page
\* when Core cannot be reached), or redirects with or without a message.
View(s, w) ==
    /\ Pending(s, "view")
    /\ RedirectToLogin(s, w) \/ RenderPage(s, w, Loaded(s, w))
    /\ UNCHANGED <<jar, secretConfigured, flowState, links, loginVars, starter,
                   crossed, historyVars>>

\* Mutant: the gate asks only for a login.
PermittedToAll(session) == LoggedIn(session)

\* The comparison of trust_level_required.
Permitted(session) == session.trust >= AdminLevel

\* A view under login_required and trust_level_required(AdminLevel).
AdminView(s, w) ==
    LET session == Loaded(s, w) IN
    /\ Pending(s, "view")
    /\ \/ RedirectToLogin(s, w)
       \/ /\ LoggedIn(session)
          /\ ~Permitted(session)
          /\ FlashAndRedirect(s, w, session)
       \/ /\ LoggedIn(session)
          /\ Permitted(session)
          /\ \E queued \in BOOLEAN : Served(s, w, queued, session, TRUE)
    /\ UNCHANGED <<jar, secretConfigured, flowState, links, loginVars, starter,
                   crossed, historyVars>>

\* Mutant: setdefault keeps the trust level of an open session.
IdentifiedKeepingTrust(session, u, t) ==
    [session EXCEPT !.user = u, !.login = nextLogin,
                    !.trust = IF LoggedIn(session) THEN session.trust ELSE t]

\* Mutant: the user's record instead of its id is put into the session.
IdentifiedByRecord(session, u, t) ==
    [session EXCEPT !.user = <<u, t>>, !.trust = t, !.login = nextLogin]

\* The session a successful login writes: the three identity keys are replaced,
\* whatever else the session holds stays.
Identified(session, u, t) ==
    [session EXCEPT !.user = u, !.trust = t, !.login = nextLogin]

\* Core recognises the credentials of some user and answers the trust level the
\* user has then (an administrator may change it later; no session is told), or
\* the form is shown again.
Login(s, w) ==
    LET session == Loaded(s, w) IN
    /\ Pending(s, "login")
    /\ \/ /\ RenderPage(s, w, session)
          /\ UNCHANGED <<loginVars, crossed>>
       \/ /\ nextLogin <= MaxLogins
          /\ nextLogin' = nextLogin + 1
          /\ \E u \in Users, t \in TrustLevels :
               /\ Answer(s, w, TRUE, Identified(session, u, t))
               /\ logins' = logins \cup {<<nextLogin, u, t>>}
               /\ crossed' = IF LoggedIn(session) /\ session.flow # NoFlow
                                /\ starter[session.flow] # u
                             THEN crossed \cup {session.flow} ELSE crossed
    /\ UNCHANGED <<jar, secretConfigured, flowState, links, starter,
                   historyVars>>

\* Mutant: only the identity keys are popped.
ClearedOfIdentity(session) == [session EXCEPT !.user = NoUser, !.trust = 0, !.login = 0]

\* session.clear()
Cleared(session) == Empty

\* Clearing marks the session modified even when it is empty.
Logout(s, w) ==
    /\ Pending(s, "logout")
    /\ Answer(s, w, TRUE, Cleared(Loaded(s, w)))
    /\ UNCHANGED <<jar, secretConfigured, flowState, links, loginVars, starter,
                   crossed, historyVars>>

\* Starts a flow; when Entra is not configured only a message, when its
\* discovery cannot be fetched the error page.
EntraLogin(s, w) ==
    LET session == Loaded(s, w) IN
    /\ Pending(s, "entra_login")
    /\ \/ /\ \/ RedirectToLogin(s, w)
             \/ LoggedIn(session) /\ FlashAndRedirect(s, w, session)
             \/ LoggedIn(session) /\ RenderPage(s, w, session)
          /\ UNCHANGED <<flowState, starter>>
       \/ /\ LoggedIn(session)
          /\ \E f \in Flows :
               /\ flowState[f] = "unused"
               /\ flowState' = [flowState EXCEPT ![f] = "started"]
               /\ starter' = [starter EXCEPT ![f] = session.user]
               /\ Answer(s, w, TRUE, [session EXCEPT !.flow = f])
    /\ UNCHANGED <<jar, secretConfigured, links, loginVars, crossed,
                   historyVars>>

\* Mutant: session.get instead of session.pop.
PoppedNot(session) == session

\* session.pop("entra_flow", None)
Popped(session) == [session EXCEPT !.flow = NoFlow]

\* The flow leaves the session first, whatever follows: refusal (no flow, foreign
\* state, code refused or provider unreachable), or redemption of the code, which
\* needs the session's own flow and a code not redeemed before.  Then the account
\* is linked to the user of the session, unless it is a foreign tenant's or Core
\* refuses or cannot be reached.
EntraCallback(s, w) ==
    LET session == Loaded(s, w)
        f       == slot[s].flow
        valid   == session.flow # NoFlow /\ session.flow = f /\ flowState[f] = "authenticated"
    IN
    /\ Pending(s, "callback")
    /\ \/ /\ \/ RedirectToLogin(s, w)
             \/ LoggedIn(session) /\ RenderPage(s, w, session)
          /\ UNCHANGED <<flowState, links>>
       \/ /\ LoggedIn(session)
          /\ Served(s, w, TRUE, Popped(session), TRUE)
          /\ UNCHANGED <<flowState, links>>
       \/ /\ LoggedIn(session)
          /\ valid
          /\ flowState' = [flowState EXCEPT ![f] = "redeemed"]
          /\ Served(s, w, TRUE, Popped(session), TRUE)
          /\ links' = links \cup {<<f, session.user>>} \/ UNCHANGED links
    /\ UNCHANGED <<jar, secretConfigured, loginVars, starter, crossed,
                   historyVars>>
-------------------------------------------------------------------------------
(* The surroundings. *)

\* The user signs in at Microsoft: an authorization code for the flow exists.
Authenticate(f) ==
    /\ flowState[f] = "offered"
    /\ flowState' = [flowState EXCEPT ![f] = "authenticated"]
    /\ UNCHANGED <<jar, slot, secretConfigured, links, loginVars, starter, crossed, historyVars>>

\* A worker is replaced and create_app runs in the new process: without a
\* configured secret it draws another one, and what the old one signed is void.
Voided(c, w) == IF c.secret = w THEN [c EXCEPT !.secret = Lost] ELSE c

RestartWorker(w) ==
    /\ ~secretConfigured
    /\ jar' = Voided(jar, w)
    /\ slot' = [s \in Slots |-> [slot[s] EXCEPT !.sent = Voided(slot[s].sent, w),
                                               !.reply = Voided(slot[s].reply, w)]]
    /\ UNCHANGED <<secretConfigured, flowState, links, loginVars,
                   starter, crossed, historyVars>>

Handle(s, w) ==
    \/ View(s, w) \/ AdminView(s, w) \/ Login(s, w) \/ Logout(s, w)
    \/ EntraLogin(s, w) \/ EntraCallback(s, w)

Next ==
    \/ \E s \in Slots : SendRequest(s) \/ SendCallback(s) \/ Deliver(s) \/ Lose(s)
    \/ \E s \in Slots, w \in Workers : Handle(s, w)
    \/ \E f \in Flows : Authenticate(f)
    \/ \E w \in Workers : RestartWorker(w)

Spec == Init /\ [][Next]_vars
-------------------------------------------------------------------------------
(* Properties. *)

Identity(c) == <<c.login, c.user, c.trust>>

Cookies == {jar} \cup {slot[s].sent : s \in Slots} \cup {slot[s].reply : s \in Slots}

\* Every variable has its type.
TypeOK ==
    /\ jar \in Sessions
    /\ slot \in [Slots -> Requests]
    /\ secretConfigured \in BOOLEAN
    /\ flowState \in [Flows -> FlowStates]
    /\ links \subseteq Flows \X Users
    /\ logins \subseteq Nat \X Users \X TrustLevels
    /\ nextLogin \in Nat \ {0}
    /\ starter \in [Flows -> Users \cup {NoUser}]
    /\ crossed \subseteq Flows
    /\ ended \subseteq Nat
    /\ spent \subseteq Flows
    /\ overtaken \in BOOLEAN

\* Logins, logouts and overlapping tabs never mix two identities: whatever cookie
\* is in the jar or under way carries user and trust level of one login, as Core
\* answered it, or no identity at all (auth.login writes three keys one by one
\* into a session it does not clear).
OneIdentityPerCookie ==
    \A c \in Cookies :
        IF c.user = NoUser THEN c.login = 0 /\ c.trust = 0 /\ c.flow = NoFlow
        ELSE <<c.login, c.user, c.trust>> \in logins

\* A view behind trust_level_required does its work only for an identity to which
\* Core gave that level at a login, however requests overlapped and whatever cookie
\* a late answer brought back.  (Core's present level may be lower.)
ServedTrustWasGiven ==
    \A s \in Slots : slot[s].served /\ slot[s].kind = "view" =>
        \E t \in TrustLevels : /\ t >= AdminLevel
                               /\ <<slot[s].sent.login, slot[s].sent.user, t>> \in logins

\* An Entra account is linked to the user who started the flow, although the
\* callback uses whoever the session names when it arrives, except if somebody
\* else logged in over the open session while the flow was in it (auth.login keeps
\* entra_flow).  Lost, late and resurrected cookies alone never misdirect a link.
LinkedByStarter ==
    \A l \in links : starter[l[1]] = l[2] \/ l[1] \in crossed

\* Sequential use behaves like a server-side session: as long as no answer has
\* overwritten a jar its request had not seen, a logout that reached the browser
\* stays a logout and a consumed flow does not come back.
NoResurrection ==
    ~overtaken => jar.login \notin ended /\ jar.flow \notin spent

\* Only logging in and out changes who is logged in: an answer gives the jar another
\* identity only if a login succeeded, if it is a logout, or if its request carried
\* another identity than the jar now holds.  So a request served by a worker that
\* cannot read the cookie (no secret_key configured) is sent to the login page
\* without costing the login, which the worker that signed it still accepts.
LoginKept ==
    [][Identity(jar') # Identity(jar) =>
           \E s \in Slots :
               /\ slot[s].phase = "answered" /\ slot'[s].phase = "idle"
               /\ \/ slot[s].kind = "login" /\ LoggedIn(jar')
                  \/ slot[s].kind = "logout"
                  \/ Identity(slot[s].sent) # Identity(jar)]_vars

===============================================================================
