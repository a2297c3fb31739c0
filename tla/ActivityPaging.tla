---------------------------- MODULE ActivityPaging ----------------------------
(***************************************************************************)
(* The activity log page ("Verlauf"): Core only offers the newest entries  *)
(* below a cursor, so the way back is kept in the URL as the list of       *)
(* cursors visited.  The links of a page were computed when it was loaded; *)
(* entries are logged and removed while the reader looks at it, and the    *)
(* browser may return to any URL it has been at.                           *)
(***************************************************************************)
EXTENDS Naturals, Sequences, FiniteSets

CONSTANTS
    Users,     \* users whose log can be shown
    Self,      \* the user who is logged in
    CanFilter, \* the session's trust level allows other users' logs
    PageSize,  \* _ACTIVITY_LOG_PAGE_SIZE
    MaxId,     \* bound: entries ever logged
    MaxUrls    \* bound: URLs the browser remembers

ASSUME SelfAssumption == Self \in Users
ASSUME FilterAssumption == CanFilter \in BOOLEAN
ASSUME SizeAssumption == PageSize \in Nat \ {0}
ASSUME BoundsAssumption == MaxId \in Nat /\ MaxUrls \in Nat

VARIABLES
    log,     \* the entries (their ids) in each user's log, in Core
    lastId,  \* id of the entry logged last
    url,     \* before_id, history and filter_user_id of the page on the screen
    entries, \* the entries on the screen
    more,    \* has_more of the page on the screen
    horizon, \* history: lastId when the newest page of this path was loaded
    urls,    \* history: the URLs the browser has been at, with their horizon
    seen     \* history: every entry that has been on the screen

vars == <<log, lastId, url, entries, more, horizon, urls, seen>>
coreVars == <<log, lastId>>
-------------------------------------------------------------------------------
(* Core's ListActivityLog. *)

\* Mutant: sorted the other way round.
OldestOf(ids) == {e \in ids : Cardinality({x \in ids : x < e}) < PageSize}

\* The newest PageSize members of a set of ids.
NewestOf(ids) == {e \in ids : Cardinality({x \in ids : x > e}) < PageSize}

\* Entries of a user below a cursor; 0 is no cursor.
Under(user, before) == {e \in log[user] : before = 0 \/ e < before}

\* filter_user_id counts only for a session that may filter; 0 means oneself.
Filtered(user) == IF CanFilter THEN user ELSE Self
-------------------------------------------------------------------------------
(* The page. *)

FirstPage(user) == [before |-> 0, history |-> <<>>, filter |-> user]

\* Mutant: one entry less than the last on the page.
DeeperByOne(u, low) ==
    [before |-> low - 1, history |-> Append(u.history, u.before), filter |-> u.filter]

\* Mutant: the cursor before the one returned to.
BackByOne(u) ==
    LET n == Len(u.history) IN
    IF n = 0 THEN FirstPage(u.filter)
    ELSE [before |-> u.history[n] - 1, history |-> SubSeq(u.history, 1, n - 1),
          filter |-> u.filter]

\* Mutant: the cursor returned to stays in the history.
BackUnpopped(u) ==
    LET n == Len(u.history) IN
    IF n = 0 THEN FirstPage(u.filter)
    ELSE [before |-> u.history[n], history |-> u.history, filter |-> u.filter]

\* older_history and prev_history of the view.
Deeper(u, low) ==
    [before |-> low, history |-> Append(u.history, u.before), filter |-> u.filter]

Back(u) ==
    LET n == Len(u.history) IN
    IF n = 0 THEN FirstPage(u.filter)
    ELSE [before |-> u.history[n], history |-> SubSeq(u.history, 1, n - 1), filter |-> u.filter]

Loaded(u, h) ==
    LET available == Under(Filtered(u.filter), u.before)
        shown     == NewestOf(available)
        top       == IF u.before = 0 THEN lastId ELSE h
    IN
    /\ url' = u
    /\ entries' = shown
    /\ more' = (available # shown)
    /\ horizon' = top
    /\ seen' = seen \cup shown
    /\ urls' = urls \cup {[url |-> u, horizon |-> top]}
    /\ Cardinality(urls') <= MaxUrls
    /\ UNCHANGED coreVars

Init ==
    /\ log = [u \in Users |-> {}]
    /\ lastId = 0
    /\ url = FirstPage(Self)
    /\ entries = {}
    /\ more = FALSE
    /\ horizon = 0
    /\ urls = {[url |-> FirstPage(Self), horizon |-> 0]}
    /\ seen = {}
-------------------------------------------------------------------------------
(* The reader. *)

\* "Ältere anzeigen": the link carries the last id of the page as it was loaded.
ShowOlder ==
    /\ more
    /\ \E low \in entries : /\ \A e \in entries : low <= e
                            /\ Loaded(Deeper(url, low), horizon)

\* "Vorherige Einträge"; a page without entries has no links at all.
ShowPrevious ==
    /\ entries # {}
    /\ url.before # 0
    /\ Loaded(Back(url), horizon)

\* The page is opened anew, or another user's log chosen.
ShowFirst ==
    \E user \in Users : /\ CanFilter \/ user = Self
                        /\ Loaded(FirstPage(user), 0)

\* Reload, or the browser's Back and Forward, which fetch the page again.
Revisit == \E v \in urls : Loaded(v.url, v.horizon)
-------------------------------------------------------------------------------
(* Core. *)

Logged(user) ==
    /\ lastId < MaxId
    /\ lastId' = lastId + 1
    /\ log' = [log EXCEPT ![user] = @ \cup {lastId'}]
    /\ UNCHANGED <<url, entries, more, horizon, urls, seen>>

Removed(user) ==
    /\ \E e \in log[user] : log' = [log EXCEPT ![user] = @ \ {e}]
    /\ UNCHANGED <<lastId, url, entries, more, horizon, urls, seen>>

Next ==
    \/ ShowOlder \/ ShowPrevious \/ ShowFirst \/ Revisit
    \/ \E user \in Users : Logged(user) \/ Removed(user)

Spec == Init /\ [][Next]_vars
-------------------------------------------------------------------------------
(* Properties. *)

Urls == [before : Nat, history : Seq(Nat), filter : Users]

\* Every variable has its type.
TypeOK ==
    /\ log \in [Users -> SUBSET Nat]
    /\ lastId \in Nat
    /\ url \in Urls
    /\ entries \in SUBSET Nat
    /\ more \in BOOLEAN
    /\ horizon \in Nat
    /\ urls \subseteq [url : Urls, horizon : Nat]
    /\ seen \in SUBSET Nat

Current == log[Filtered(url.filter)]

\* However entries come and go between two clicks, following "older" never jumps over
\* one: what is still in the log between the last entry on the screen and the newest
\* one there was when the path began has been on the screen.
NothingSkipped ==
    \A low \in entries, e \in Current : low <= e /\ e <= horizon => e \in seen

\* A page without "older" really is the end: all that is left of the log as it was when
\* the path began has been on the screen.
EndMeansAll ==
    ~more => \A e \in Current : e <= horizon => e \in seen

\* _parse_activity_log_history: the list of cursors in the URL works as the stack of
\* pages visited, strictly descending, and "previous" leads exactly one page back.
StackOf(u) == Append(u.history, u.before)

Pages == INSTANCE PageStack WITH
             stack   <- StackOf(url),
             visited <- {StackOf(v.url) : v \in urls}

PagesSpec == Pages!Spec

===============================================================================
