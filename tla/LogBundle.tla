------------------------------ MODULE LogBundle ------------------------------
(***************************************************************************)
(* The log bundle: a modal that loads the log collector's components when  *)
(* it is opened and downloads an archive with fetch(), and the two routes  *)
(* behind it.  Each request opens a channel of its own to the collector.   *)
(* Opening the modal again does not cancel what is under way, so answers   *)
(* of older loads arrive in any order.  The collector may refuse, break    *)
(* off or hang; gunicorn kills a worker that does not come back in time.   *)
(* Time ranges are right or wrong; of an archive only its chunks count.    *)
(* Times are the modal's, made by Date and so at most 8.64e15: a range     *)
(* beyond 64 bits, for which no ExportRequest can be built                 *)
(* (log_collector.py:55), takes a request no page of the UI sends.         *)
(***************************************************************************)
EXTENDS Naturals, FiniteSets

CONSTANTS
    Components, \* components with logs, in the order the modal lists them
    Chunks,     \* chunks of an archive
    Workers,    \* gunicorn's workers
    Loads,      \* bound: requests for the components
    Exports     \* bound: requests for an archive

ASSUME NumbersAssumption == Components \subseteq Nat /\ Chunks \in Nat
ASSUME WorkersAssumption == Workers \in Nat \ {0}
ASSUME RequestsAssumption ==
    Loads \cap Exports = {} /\ Loads \cup Exports \subseteq Nat \ {0}

Requests == Loads \cup Exports

VARIABLES
    session, \* the browser's session is good for the page
    tab,     \* the page is still open in the browser
    modal,   \* the modal is open
    list,    \* its components: what it shows, the boxes, those checked
    error,   \* it shows an error
    busy,    \* the export the disabled button waits for, or 0
    saved,   \* what the browser saved as hannah-logs.tar.gz last
    server,  \* each request in the server
    chan,    \* its channel to the collector
    answer,  \* what has come back of it
    got,     \* the components in the answer of a load
    sent,    \* chunks of an export that were sent
    ticked,  \* history: boxes ticked since the modal was opened
    overlap  \* history: a load was opened while another was under way

browser == <<tab, modal, list, error, busy, saved, ticked, overlap>>
vars == <<session, browser, server, chan, answer, got, sent>>

NoList == [shows |-> "text", boxes |-> {}, checked |-> {}, spoiled |-> FALSE]

Init ==
    /\ session = TRUE /\ tab = TRUE /\ modal = FALSE
    /\ list = NoList
    /\ error = FALSE
    /\ busy = 0
    /\ saved = "nothing"
    /\ server = [r \in Requests |-> "unused"]
    /\ chan = [r \in Requests |-> "none"]
    /\ answer = [r \in Requests |-> "none"]
    /\ got = [l \in Loads |-> {}]
    /\ sent = [e \in Exports |-> 0]
    /\ ticked = {} /\ overlap = FALSE
-------------------------------------------------------------------------------
(* The modal. *)

Pending == {l \in Loads : server[l] # "unused" /\ answer[l] # "seen"}

\* The next request of a kind, in the order of their numbers.
Requested(r, set) ==
    /\ server[r] = "unused" /\ \A x \in set : x < r => server[x] # "unused"
    /\ server' = [server EXCEPT ![r] = "arrived"]

\* Mutant: the old boxes stay until the answer is there.
LoadingKept == list

\* list.replaceChildren("Lade Komponenten...")
Loading == NoList

Open ==
    /\ tab /\ ~modal
    /\ \E l \in Loads : Requested(l, Loads)
    /\ modal' = TRUE
    /\ error' = FALSE
    /\ list' = Loading
    /\ ticked' = {}
    /\ overlap' = (Pending # {})
    /\ UNCHANGED <<session, tab, busy, saved, chan, answer, got, sent>>

Close ==
    /\ tab /\ modal
    /\ modal' = FALSE
    /\ UNCHANGED <<session, tab, list, error, busy, saved, ticked, overlap, server, chan, answer,
                   got, sent>>

Flip(set, c) == IF c \in set THEN set \ {c} ELSE set \cup {c}

Tick ==
    /\ tab /\ modal
    /\ \E c \in list.boxes :
          /\ list' = [list EXCEPT !.checked = Flip(@, c)]
          /\ ticked' = Flip(ticked, c)
    /\ UNCHANGED <<session, tab, modal, error, busy, saved, overlap, server, chan, answer, got, sent>>

\* Mutant: the button is not disabled, a second submit starts another download.
SubmitTwice ==
    /\ tab /\ modal
    /\ \E e \in Exports : Requested(e, Exports) /\ busy' = e
    /\ error' = FALSE
    /\ UNCHANGED <<session, tab, modal, list, saved, ticked, overlap, chan, answer, got, sent>>

Submit ==
    /\ tab /\ modal /\ busy = 0
    /\ \E e \in Exports : Requested(e, Exports) /\ busy' = e
    /\ error' = FALSE
    /\ UNCHANGED <<session, tab, modal, list, saved, ticked, overlap, chan, answer, got, sent>>

\* list.firstChild.textContent = ...: after another answer the first child is a label,
\* and its box is gone.
Overwritten ==
    LET first == {c \in list.boxes : ~list.spoiled /\ \A d \in list.boxes : c <= d}
    IN [list EXCEPT !.boxes = @ \ first, !.checked = @ \ first, !.spoiled = TRUE]

\* loadComponents goes on: boxes, "no logs yet", or the error.
LoadSeen ==
    /\ tab
    /\ \E l \in Loads :
          /\ answer[l] \in {"ok", "error", "page", "cut"}
          /\ answer' = [answer EXCEPT ![l] = "seen"]
          /\ list' = IF answer[l] = "ok" /\ got[l] # {}
                     THEN [shows |-> "boxes", boxes |-> got[l], checked |-> {}, spoiled |-> FALSE]
                     ELSE Overwritten
          /\ error' = (error \/ answer[l] # "ok")
    /\ UNCHANGED <<session, tab, modal, busy, saved, ticked, overlap, server, chan, got, sent>>

\* Mutant: an error leaves the button disabled.
ButtonKept(e) == IF answer[e] \in {"end", "page"} THEN 0 ELSE busy

\* finally: the button is enabled again, whatever came.
Button(e) == 0

\* The submit handler goes on: resp.ok is all it asks for, a redirect was followed.
ExportSeen ==
    /\ tab
    /\ \E e \in Exports :
          /\ busy = e
          /\ answer[e] \in {"end", "page", "error", "cut"}
          /\ answer' = [answer EXCEPT ![e] = "seen"]
          /\ busy' = Button(e)
          /\ IF answer[e] \in {"end", "page"}
             THEN /\ saved' = IF answer[e] = "page" THEN "page"
                              ELSE IF sent[e] = Chunks THEN "whole" ELSE "part"
                  /\ modal' = FALSE
                  /\ UNCHANGED error
             ELSE /\ error' = TRUE
                  /\ UNCHANGED <<saved, modal>>
    /\ UNCHANGED <<session, tab, list, ticked, overlap, server, chan, got, sent>>

\* The page is left; nobody waits for the answers.
Leave ==
    /\ tab' = FALSE
    /\ tab
    /\ UNCHANGED <<session, modal, list, error, busy, saved, ticked, overlap, server, chan, answer,
                   got, sent>>

\* A logout in another tab, or a cookie that is void after a restart.
SessionGone ==
    /\ session' = FALSE
    /\ session
    /\ UNCHANGED <<browser, server, chan, answer, got, sent>>
-------------------------------------------------------------------------------
(* The routes. *)

Working(r) == server[r] \in {"calling", "streaming"}

\* A worker takes the request up.
Taken(r) ==
    /\ server[r] = "arrived"
    /\ Cardinality({x \in Requests : Working(x)}) < Workers

Ended(r, what) ==
    /\ server' = [server EXCEPT ![r] = "ended"]
    /\ answer' = [answer EXCEPT ![r] = what]
    /\ UNCHANGED <<session, browser>>

\* login_required or trust_level_required redirects, and fetch() follows.
Gate(r) ==
    /\ Taken(r) /\ ~session
    /\ Ended(r, "page")
    /\ UNCHANGED <<chan, got, sent>>

\* A wrong time range, or no collector announced: an error without a channel.
NotCalled(r) ==
    /\ Taken(r) /\ session
    /\ Ended(r, "error")
    /\ UNCHANGED <<chan, got, sent>>

Call(r) ==
    /\ Taken(r) /\ session
    /\ server' = [server EXCEPT ![r] = "calling"]
    /\ chan' = [chan EXCEPT ![r] = "open"]
    /\ UNCHANGED <<session, browser, answer, got, sent>>

\* Mutant: without the finally of sources(): closed for exports only.
ClosedForExports(r) == [chan EXCEPT ![r] = IF r \in Exports THEN "closed" ELSE @]

Closed(r) == [chan EXCEPT ![r] = "closed"]

\* RpcError before there is an answer: 502.
Unreachable(r) ==
    /\ server[r] = "calling"
    /\ chan' = Closed(r)
    /\ Ended(r, "error")
    /\ UNCHANGED <<got, sent>>

Sources(l) ==
    /\ server[l] = "calling"
    /\ chan' = Closed(l)
    /\ \E set \in SUBSET Components : got' = [got EXCEPT ![l] = set]
    /\ Ended(l, "ok")
    /\ UNCHANGED sent

\* next(chunks, b""): the first chunk, or none at all.
First(e) ==
    /\ server[e] = "calling"
    /\ server' = [server EXCEPT ![e] = "streaming"]
    /\ sent' = [sent EXCEPT ![e] = IF Chunks = 0 THEN 0 ELSE 1]
    /\ UNCHANGED <<session, browser, chan, answer, got>>

\* Mutant: chunks are sent without end.
ChunkAgain(e) ==
    /\ server[e] = "streaming" /\ tab
    /\ sent' = [sent EXCEPT ![e] = @ + 1]
    /\ UNCHANGED <<session, browser, server, chan, answer, got>>

Chunk(e) ==
    /\ server[e] = "streaming" /\ tab
    /\ sent[e] < Chunks
    /\ sent' = [sent EXCEPT ![e] = @ + 1]
    /\ UNCHANGED <<session, browser, server, chan, answer, got>>

StreamEnds(e) ==
    /\ server[e] = "streaming" /\ tab
    /\ sent[e] = Chunks
    /\ chan' = Closed(e)
    /\ Ended(e, "end")
    /\ UNCHANGED <<got, sent>>

\* Mutant: the stream catches the error and ends as if all was sent.
BreakCaught(e) == "end"

\* The answer is cut off before its last chunk, which fetch() reports.
Broken(e) == "cut"

\* RpcError in the middle, or nobody there to write to.
StreamBreaks(e) ==
    /\ server[e] = "streaming"
    /\ chan' = Closed(e)
    /\ Ended(e, Broken(e))
    /\ UNCHANGED <<got, sent>>

\* The worker is killed for its timeout; its channels are gone with it.
Killed(r) ==
    /\ Working(r)
    /\ server' = [server EXCEPT ![r] = "killed"]
    /\ chan' = [chan EXCEPT ![r] = "gone"]
    /\ answer' = [answer EXCEPT ![r] = "cut"]
    /\ UNCHANGED <<session, browser, got, sent>>

Handler(r) == Gate(r) \/ NotCalled(r) \/ Call(r)

Next ==
    \/ Open \/ Close \/ Tick \/ Submit \/ LoadSeen \/ ExportSeen \/ Leave \/ SessionGone
    \/ \E r \in Requests : Handler(r) \/ Unreachable(r) \/ Killed(r)
    \/ \E l \in Loads : Sources(l)
    \/ \E e \in Exports : First(e) \/ Chunk(e) \/ StreamEnds(e) \/ StreamBreaks(e)

\* Handlers start when a worker is free, the master kills a worker after its timeout,
\* the browser goes on with an answer.  Nothing is assumed of the collector.
Fairness ==
    /\ \A r \in Requests : WF_vars(Handler(r)) /\ WF_vars(Killed(r))
    /\ WF_vars(LoadSeen) /\ WF_vars(ExportSeen)

Spec == Init /\ [][Next]_vars /\ Fairness
-------------------------------------------------------------------------------
(* Properties. *)

\* Every variable has its type; checked boxes are there.
TypeOK ==
    /\ {session, tab, modal, error, overlap} \subseteq BOOLEAN
    /\ list \in [shows : {"text", "boxes"}, boxes : SUBSET Components,
                checked : SUBSET Components, spoiled : BOOLEAN]
    /\ list.checked \subseteq list.boxes
    /\ ticked \subseteq Components
    /\ busy \in Exports \cup {0}
    /\ saved \in {"nothing", "whole", "part", "page"}
    /\ server \in [Requests -> {"unused", "arrived", "calling", "streaming", "ended", "killed"}]
    /\ chan \in [Requests -> {"none", "open", "closed", "gone"}]
    /\ answer \in [Requests -> {"none", "ok", "error", "page", "cut", "end", "seen"}]
    /\ got \in [Loads -> SUBSET Components] /\ sent \in [Exports -> 0..Chunks]

\* A channel is open exactly while its request is worked on: every way out of the two
\* routes (error, end, break, client gone) closes it, and none uses it afterwards.
ChannelsClosed == \A r \in Requests : chan[r] = "open" <=> Working(r)

\* The browser never saves an archive that was broken off: a break after the
\* answer has begun reaches the modal as an error.
NeverPart == saved # "part"

\* The boxes the user ticked are the ones an export would send, and no component is
\* missing, unless the modal was opened while an earlier load was under way.
TicksKept ==
    modal /\ ~overlap =>
        /\ list.checked = ticked
        /\ list.shows = "boxes" => ~list.spoiled

\* The button is disabled exactly while a download's answer is awaited: closing and opening
\* the modal neither frees it nor forgets the download, and there are never two at once.
OneDownload == \A e \in Exports : busy = e <=> server[e] # "unused" /\ answer[e] # "seen"

\* The button comes back, even if the collector hangs.
ButtonReturns == \A e \in Exports : (busy = e /\ tab) ~> (busy # e \/ ~tab)

\* The modal's promise that errors stay in it: nothing but an archive is saved.
ErrorsStay == saved # "page"

===============================================================================
