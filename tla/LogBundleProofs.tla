--------------------------- MODULE LogBundleProofs ---------------------------
(***************************************************************************)
(* The safety properties of the log bundle, for any number of loads and    *)
(* downloads, workers, components and chunks.                              *)
(***************************************************************************)
EXTENDS LogBundle, TLAPS

\* What an answer says of its request: there is one only after the request was made,
\* and an archive that ended was sent as a whole and is over.
AnswersTrue ==
    /\ \A r \in Requests : answer[r] # "none" => server[r] \in {"ended", "killed"}
    /\ \A e \in Exports : answer[e] = "end" => sent[e] = Chunks

\* Without overlap at most one load is under way, the list is then still empty, and
\* the boxes checked are those ticked.
ListOfOneLoad ==
    ~overlap =>
        /\ \A l, m \in Pending : l = m
        /\ Pending # {} => list = NoList /\ ticked = {}
        /\ list.checked = ticked
        /\ list.shows = "boxes" => ~list.spoiled

BundleInv == TypeOK /\ ChannelsClosed /\ AnswersTrue /\ NeverPart /\ OneDownload /\ ListOfOneLoad

USE NumbersAssumption, RequestsAssumption
-------------------------------------------------------------------------------
LEMMA BundleInit == Init => BundleInv
<1> SUFFICES ASSUME Init PROVE BundleInv
  OBVIOUS
<1> USE DEF Init
<1>1. /\ NoList \in [shows : {"text", "boxes"}, boxes : SUBSET Components,
                    checked : SUBSET Components, spoiled : BOOLEAN]
      /\ NoList.checked = {} /\ NoList.boxes = {} /\ NoList.shows = "text"
  BY DEF NoList
<1>2. TypeOK
  <2>1. sent \in [Exports -> 0..Chunks]
    BY DEF NumbersAssumption
  <2>2. /\ server \in [Requests -> {"unused", "arrived", "calling", "streaming", "ended", "killed"}]
        /\ chan \in [Requests -> {"none", "open", "closed", "gone"}]
        /\ answer \in [Requests -> {"none", "ok", "error", "page", "cut", "end", "seen"}]
        /\ got \in [Loads -> SUBSET Components]
    OBVIOUS
  <2> QED
    BY <1>1, <2>1, <2>2 DEF TypeOK
<1>3. ChannelsClosed /\ AnswersTrue /\ NeverPart /\ OneDownload
  BY DEF ChannelsClosed, AnswersTrue, NeverPart, OneDownload, Requests, Working
<1>4. Pending = {}
  BY DEF Pending, Requests
<1>5. ListOfOneLoad
  BY <1>1, <1>4 DEF ListOfOneLoad
<1> QED
  BY <1>2, <1>3, <1>5 DEF BundleInv

\* Steps of the browser.
LEMMA OpenStep == BundleInv /\ Open => BundleInv'
<1> SUFFICES ASSUME BundleInv, Open PROVE BundleInv'
  OBVIOUS
<1> USE DEF BundleInv
<1>1. PICK l \in Loads : Requested(l, Loads)
  BY DEF Open
<1>2. TypeOK'
  BY <1>1 DEF Open, TypeOK, Requested, Loading, NoList, Requests
<1>3. ChannelsClosed' /\ AnswersTrue' /\ NeverPart' /\ OneDownload'
  BY <1>1 DEF Open, TypeOK, Requested, Requests, ChannelsClosed, AnswersTrue, NeverPart, OneDownload, Working
<1>4. Pending' = Pending \cup {l}
  BY <1>1 DEF Open, TypeOK, Requested, Requests, Pending, AnswersTrue
<1>5. ListOfOneLoad'
  BY <1>4 DEF Open, ListOfOneLoad, Loading, NoList
<1> QED
  BY <1>2, <1>3, <1>5

LEMMA TickStep == BundleInv /\ Tick => BundleInv'
<1> SUFFICES ASSUME BundleInv, Tick PROVE BundleInv'
  OBVIOUS
<1> USE DEF BundleInv
<1>1. PICK c \in list.boxes : /\ list' = [list EXCEPT !.checked = Flip(@, c)]
                              /\ ticked' = Flip(ticked, c)
  BY DEF Tick
<1>2. TypeOK'
  BY <1>1 DEF Tick, TypeOK, Flip
<1>3. ChannelsClosed' /\ AnswersTrue' /\ NeverPart' /\ OneDownload' /\ Pending' = Pending
  BY DEF Tick, ChannelsClosed, AnswersTrue, NeverPart, OneDownload, Working, Pending
<1>4. ListOfOneLoad'
  BY <1>1, <1>3 DEF Tick, TypeOK, ListOfOneLoad, NoList
<1> QED
  BY <1>2, <1>3, <1>4

LEMMA SubmitStep == BundleInv /\ Submit => BundleInv'
<1> SUFFICES ASSUME BundleInv, Submit PROVE BundleInv'
  OBVIOUS
<1> USE DEF BundleInv
<1>1. PICK e \in Exports : Requested(e, Exports) /\ busy' = e
  BY DEF Submit
<1>2. TypeOK'
  BY <1>1 DEF Submit, TypeOK, Requested, Requests
<1>3. ChannelsClosed' /\ AnswersTrue' /\ NeverPart' /\ OneDownload'
  BY <1>1 DEF Submit, TypeOK, Requested, Requests, ChannelsClosed, AnswersTrue, NeverPart, OneDownload, Working
<1>4. Pending' = Pending
  BY <1>1 DEF Submit, TypeOK, Requested, Requests, Pending
<1>5. ListOfOneLoad'
  BY <1>4 DEF Submit, ListOfOneLoad
<1> QED
  BY <1>2, <1>3, <1>5

LEMMA LoadSeenStep == BundleInv /\ LoadSeen => BundleInv'
<1> SUFFICES ASSUME BundleInv, LoadSeen PROVE BundleInv'
  OBVIOUS
<1> USE DEF BundleInv
<1>1. PICK l \in Loads :
          /\ answer[l] \in {"ok", "error", "page", "cut"}
          /\ answer' = [answer EXCEPT ![l] = "seen"]
          /\ list' = IF answer[l] = "ok" /\ got[l] # {}
                     THEN [shows |-> "boxes", boxes |-> got[l], checked |-> {}, spoiled |-> FALSE]
                     ELSE Overwritten
          /\ error' = (error \/ answer[l] # "ok")
  BY DEF LoadSeen
<1>2. TypeOK'
  BY <1>1 DEF LoadSeen, TypeOK, Overwritten, Requests
<1>3. ChannelsClosed' /\ AnswersTrue' /\ NeverPart' /\ OneDownload'
  BY <1>1 DEF LoadSeen, TypeOK, Requests, ChannelsClosed, AnswersTrue, NeverPart, OneDownload, Working
<1>4. l \in Pending /\ Pending' = Pending \ {l}
  BY <1>1 DEF LoadSeen, TypeOK, Requests, Pending, AnswersTrue
<1>5. ASSUME ~overlap PROVE list = NoList /\ ticked = {} /\ Pending' = {}
  BY <1>4, <1>5 DEF ListOfOneLoad
<1>6. ASSUME list = NoList PROVE Overwritten.checked = {} /\ Overwritten.shows = "text"
  BY <1>6 DEF Overwritten, NoList
<1>7. ListOfOneLoad'
  BY <1>1, <1>5, <1>6 DEF LoadSeen, ListOfOneLoad
<1> QED
  BY <1>2, <1>3, <1>7

LEMMA ExportSeenStep == BundleInv /\ ExportSeen => BundleInv'
<1> SUFFICES ASSUME BundleInv, ExportSeen PROVE BundleInv'
  OBVIOUS
<1> USE DEF BundleInv
<1>1. PICK e \in Exports :
          /\ answer[e] \in {"end", "page", "error", "cut"}
          /\ answer' = [answer EXCEPT ![e] = "seen"]
          /\ busy' = 0
          /\ IF answer[e] \in {"end", "page"}
             THEN /\ saved' = IF answer[e] = "page" THEN "page"
                              ELSE IF sent[e] = Chunks THEN "whole" ELSE "part"
                  /\ modal' = FALSE
                  /\ UNCHANGED error
             ELSE error' = TRUE /\ UNCHANGED <<saved, modal>>
  BY DEF ExportSeen, Button
<1>2. TypeOK'
  BY <1>1 DEF ExportSeen, TypeOK, Requests
<1>3. NeverPart'
  BY <1>1 DEF AnswersTrue, NeverPart
<1>4. ChannelsClosed' /\ AnswersTrue' /\ OneDownload'
  BY <1>1 DEF ExportSeen, TypeOK, Requests, ChannelsClosed, AnswersTrue, OneDownload, Working
<1>5. Pending' = Pending
  BY <1>1 DEF ExportSeen, TypeOK, Requests, Pending
<1>6. ListOfOneLoad'
  BY <1>5 DEF ExportSeen, ListOfOneLoad
<1> QED
  BY <1>2, <1>3, <1>4, <1>6

\* Closing, leaving, the session's end: nothing the invariant speaks of but flags.
LEMMA QuietStep == BundleInv /\ (Close \/ Leave \/ SessionGone \/ UNCHANGED vars) => BundleInv'
<1> SUFFICES ASSUME BundleInv, Close \/ Leave \/ SessionGone \/ UNCHANGED vars PROVE BundleInv'
  OBVIOUS
<1>1. /\ UNCHANGED <<list, error, busy, saved, ticked, overlap, server, chan, answer, got, sent>>
      /\ {session', tab', modal'} \subseteq BOOLEAN
  BY DEF Close, Leave, SessionGone, vars, browser, BundleInv, TypeOK
<1>2. TypeOK'
  BY <1>1 DEF BundleInv, TypeOK
<1>3. ChannelsClosed' /\ AnswersTrue' /\ NeverPart' /\ OneDownload'
  BY <1>1 DEF BundleInv, ChannelsClosed, AnswersTrue, NeverPart, OneDownload, Working
<1>4. Pending' = Pending
  BY <1>1 DEF Pending
<1>5. ListOfOneLoad'
  BY <1>1, <1>4 DEF BundleInv, ListOfOneLoad
<1> QED
  BY <1>2, <1>3, <1>5 DEF BundleInv
-------------------------------------------------------------------------------
\* What every step of a route has in common: it moves one request that is not over, and leaves
\* the browser alone.
RouteStep(r) ==
    /\ UNCHANGED browser
    /\ session' = session
    /\ server[r] \in {"arrived", "calling", "streaming"}
    /\ server' \in [Requests -> {"unused", "arrived", "calling", "streaming", "ended", "killed"}]
    /\ server'[r] # "unused"
    /\ \A x \in Requests \ {r} :
          server'[x] = server[x] /\ chan'[x] = chan[x] /\ answer'[x] = answer[x]
    /\ answer'[r] # "seen"
    /\ chan' \in [Requests -> {"none", "open", "closed", "gone"}]
    /\ answer' \in [Requests -> {"none", "ok", "error", "page", "cut", "end", "seen"}]
    /\ got' \in [Loads -> SUBSET Components] /\ sent' \in [Exports -> 0..Chunks]
    /\ chan'[r] = "open" <=> server'[r] \in {"calling", "streaming"}
    /\ answer'[r] # "none" => server'[r] \in {"ended", "killed"}
    /\ \A e \in Exports : answer'[e] = "end" => sent'[e] = Chunks

LEMMA RouteStepKeeps ==
    ASSUME BundleInv, NEW r \in Requests, RouteStep(r) PROVE BundleInv'
<1> USE DEF BundleInv, RouteStep
<1>1. TypeOK'
  BY DEF TypeOK, browser
<1>2. ChannelsClosed' /\ AnswersTrue' /\ NeverPart'
  BY DEF ChannelsClosed, AnswersTrue, NeverPart, Working, browser
<1>3. answer[r] = "none"
  BY DEF AnswersTrue, TypeOK
<1>6. OneDownload'
  BY <1>3 DEF OneDownload, Requests, browser
<1>4. Pending' = Pending
  BY <1>3 DEF Pending, Requests
<1>5. ListOfOneLoad'
  BY <1>4 DEF ListOfOneLoad, browser
<1> QED
  BY <1>1, <1>2, <1>5, <1>6

LEMMA RouteSteps ==
    ASSUME BundleInv, NEW r \in Requests,
           \/ Handler(r) \/ Unreachable(r) \/ Killed(r)
           \/ r \in Loads /\ Sources(r)
           \/ r \in Exports /\ (First(r) \/ Chunk(r) \/ StreamEnds(r) \/ StreamBreaks(r))
    PROVE  BundleInv'
<1> USE DEF BundleInv, TypeOK, Requests, ChannelsClosed, AnswersTrue, RouteStep, Working, Ended, Closed
<1>1. CASE Gate(r) \/ NotCalled(r)
  <2>1. RouteStep(r)
    BY <1>1 DEF Gate, NotCalled, Taken
  <2> QED BY <2>1, RouteStepKeeps
<1>2. CASE Call(r)
  <2>1. RouteStep(r)
    BY <1>2 DEF Call, Taken
  <2> QED BY <2>1, RouteStepKeeps
<1>3. CASE Unreachable(r) \/ Killed(r)
  <2>1. RouteStep(r)
    BY <1>3 DEF Unreachable, Killed
  <2> QED BY <2>1, RouteStepKeeps
<1>4. CASE r \in Loads /\ Sources(r)
  <2>1. RouteStep(r)
    BY <1>4 DEF Sources
  <2> QED BY <2>1, RouteStepKeeps
<1>5. CASE r \in Exports /\ (First(r) \/ Chunk(r))
  <2>1. RouteStep(r)
    BY <1>5 DEF First, Chunk
  <2> QED BY <2>1, RouteStepKeeps
<1>6. CASE r \in Exports /\ StreamEnds(r)
  <2>1. RouteStep(r)
    BY <1>6 DEF StreamEnds
  <2> QED BY <2>1, RouteStepKeeps
<1>7. CASE r \in Exports /\ StreamBreaks(r)
  <2>1. RouteStep(r)
    BY <1>7 DEF StreamBreaks, Broken
  <2> QED BY <2>1, RouteStepKeeps
<1> QED
  BY <1>1, <1>2, <1>3, <1>4, <1>5, <1>6, <1>7 DEF Handler
-------------------------------------------------------------------------------
LEMMA BundleStep == BundleInv /\ [Next]_vars => BundleInv'
<1> SUFFICES ASSUME BundleInv, [Next]_vars PROVE BundleInv'
  OBVIOUS
<1>1. CASE Open \/ Tick \/ Submit \/ LoadSeen \/ ExportSeen
  BY <1>1, OpenStep, TickStep, SubmitStep, LoadSeenStep, ExportSeenStep
<1>2. CASE Close \/ Leave \/ SessionGone \/ UNCHANGED vars
  BY <1>2, QuietStep
<1>3. ASSUME NEW r \in Requests, Handler(r) \/ Unreachable(r) \/ Killed(r) PROVE BundleInv'
  BY <1>3, RouteSteps
<1>4. ASSUME NEW l \in Loads, Sources(l) PROVE BundleInv'
  BY <1>4, RouteSteps DEF Requests
<1>5. ASSUME NEW e \in Exports, First(e) \/ Chunk(e) \/ StreamEnds(e) \/ StreamBreaks(e)
      PROVE BundleInv'
  BY <1>5, RouteSteps DEF Requests
<1> QED
  BY <1>1, <1>2, <1>3, <1>4, <1>5 DEF Next

LEMMA BundleSafe == Spec => []BundleInv
  BY BundleInit, BundleStep, PTL DEF Spec

\* Every variable keeps its type: the list in the modal, requests, channels, answers.
THEOREM BundleTypes == Spec => []TypeOK
<1>1. BundleInv => TypeOK
  BY DEF BundleInv
<1> QED
  BY <1>1, BundleSafe, PTL

\* Every request's channel to the collector is open exactly while the request is worked
\* on: each way out of the two routes closes it.
THEOREM ChannelsAreClosed == Spec => []ChannelsClosed
<1>1. BundleInv => ChannelsClosed
  BY DEF BundleInv
<1> QED
  BY <1>1, BundleSafe, PTL

\* No archive that broke off is ever saved, wherever the collector fails.
THEOREM OnlyWholeArchives == Spec => []NeverPart
<1>1. BundleInv => NeverPart
  BY DEF BundleInv
<1> QED
  BY <1>1, BundleSafe, PTL

\* The button is disabled exactly while a download is awaited: an export that was requested is
\* the one the button waits for until its answer was seen, however often the modal is closed.
THEOREM ButtonHeld == Spec => []OneDownload
<1>1. BundleInv => OneDownload
  BY DEF BundleInv
<1> QED
  BY <1>1, BundleSafe, PTL

\* Ticks and boxes are only lost when the modal was opened while a load was under way.
THEOREM TicksAreKept == Spec => []TicksKept
<1>1. BundleInv => TicksKept
  BY DEF BundleInv, ListOfOneLoad, TicksKept
<1> QED
  BY <1>1, BundleSafe, PTL
===============================================================================
