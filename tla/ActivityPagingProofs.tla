------------------------- MODULE ActivityPagingProofs -------------------------
(***************************************************************************)
(* Proofs about ActivityPaging for every page size and any number of       *)
(* users, entries and URLs: paging down skips nothing, the last page is    *)
(* the end of the log, and the URL's cursors are the stack of PageStack.   *)
(***************************************************************************)
EXTENDS ActivityPaging, FiniteSetTheorems, SequenceTheorems, TLAPS

-------------------------------------------------------------------------------
(* The inductive invariant. *)

\* Only the newest page has an empty history; cursors descend.
UrlOK(u) ==
    /\ u.before = 0 <=> u.history = <<>>
    /\ \A i \in 1..Len(u.history) :
           /\ u.history[i] = 0 <=> i = 1
           /\ i > 1 => u.before < u.history[i]
           /\ \A j \in 1..Len(u.history) :
                  1 < i /\ i < j => u.history[j] < u.history[i]

\* Everything from the cursor of a URL up to its horizon has been on the screen.
Covered(u, h) ==
    u.before # 0 => \A e \in log[Filtered(u.filter)] : u.before <= e /\ e <= h => e \in seen

LogOK == \A user \in Users : \A e \in log[user] : e # 0 /\ e <= lastId

PathOK(u, h) == UrlOK(u) /\ Covered(u, h) /\ h <= lastId

PagingInv ==
    /\ TypeOK
    /\ LogOK
    /\ PathOK(url, horizon)
    /\ \A v \in urls : PathOK(v.url, v.horizon)
    /\ [url |-> url, horizon |-> horizon] \in urls
    /\ \A e \in entries : e # 0 /\ (url.before = 0 \/ e < url.before)
    /\ NothingSkipped
    /\ EndMeansAll
-------------------------------------------------------------------------------
(* Pages of a finite log. *)

\* A page is closed upwards: with an entry it shows all newer ones below the cursor.
LEMMA PageIsUpwardClosed ==
    ASSUME NEW ids \in SUBSET Nat, IsFiniteSet(ids),
           NEW low \in NewestOf(ids), NEW e \in ids, low <= e
    PROVE  e \in NewestOf(ids)
  <1> DEFINE A == {x \in ids : x > e}
             B == {x \in ids : x > low}
  <1>1. low \in ids /\ Cardinality(B) < PageSize
    BY DEF NewestOf
  <1>2. A \in SUBSET B
    <2>1. ASSUME NEW x \in ids, x > e PROVE x > low
      BY <1>1, <2>1
    <2>2. QED
      BY <2>1
  <1>3. IsFiniteSet(B) /\ IsFiniteSet(A)
    BY FS_Subset
  <1>4. Cardinality(A) <= Cardinality(B)
    BY <1>2, <1>3, FS_Subset
  <1>5. Cardinality(A) \in Nat /\ Cardinality(B) \in Nat
    BY <1>3, FS_CardinalityType
  <1>6. Cardinality(A) < PageSize
    <2> HIDE DEF A, B
    <2>1. QED
      BY <1>1, <1>4, <1>5, SizeAssumption
  <1>7. QED
    BY <1>6, Zenon DEF NewestOf

\* A log is finite.
LEMMA LogFinite ==
    ASSUME TypeOK, LogOK, NEW user \in Users, NEW before \in Nat
    PROVE  Under(user, before) \in SUBSET Nat /\ IsFiniteSet(Under(user, before))
  <1>1. Under(user, before) \in SUBSET Nat /\ \A e \in Under(user, before) : e <= lastId
    BY DEF Under, TypeOK, LogOK
  <1>2. QED
    BY <1>1, FS_BoundedSetOfNaturals DEF TypeOK

\* Opening a URL whose path is covered shows a page that leaves no gap.
LEMMA LoadedKeeps ==
    ASSUME PagingInv, NEW u \in Urls, NEW h \in Nat, Loaded(u, h),
           UrlOK(u), u.before # 0 => Covered(u, h) /\ h <= lastId
    PROVE  PagingInv'
  <1> DEFINE user == Filtered(u.filter)
             av   == Under(user, u.before)
  <1>0. PICK top : top = IF u.before = 0 THEN lastId ELSE h
    OBVIOUS
  <1>1. /\ url' = u /\ entries' = NewestOf(av) /\ more' = (av # NewestOf(av))
        /\ horizon' = top /\ seen' = seen \cup NewestOf(av)
        /\ urls' = urls \cup {[url |-> u, horizon |-> top]}
        /\ log' = log /\ lastId' = lastId
    BY <1>0 DEF Loaded, coreVars
  <1>2. user \in Users /\ u.before \in Nat /\ top \in Nat /\ top <= lastId
    BY <1>0, SelfAssumption DEF Filtered, Urls, PagingInv, TypeOK
  <1>3. av \in SUBSET Nat /\ IsFiniteSet(av) /\ NewestOf(av) \subseteq av
    BY <1>2, LogFinite DEF PagingInv, NewestOf
  <1>4. TypeOK'
    <2>1. [url |-> u, horizon |-> top] \in [url : Urls, horizon : Nat]
      BY <1>2
    <2>2. more' \in BOOLEAN /\ NewestOf(av) \in SUBSET Nat
      BY <1>1, <1>3
    <2>3. QED
      BY <1>1, <1>2, <2>1, <2>2 DEF TypeOK, PagingInv
  <1>5. LogOK'
    BY <1>1 DEF LogOK, PagingInv
  <1>6. ASSUME NEW v \in Urls, NEW k \in Nat, Covered(v, k) PROVE Covered(v, k)'
    <2>1. log' = log /\ seen \subseteq seen'
      BY <1>1
    <2>2. QED
      BY <1>6, <2>1 DEF Covered, Filtered
  <1>7. PathOK(u, top)'
    <2>1. Covered(u, top)
      BY <1>0 DEF Covered
    <2>2. Covered(u, top)'
      BY <1>2, <1>6, <2>1
    <2>3. QED
      BY <1>1, <1>2, <2>2 DEF PathOK, UrlOK
  <1>8. \A v \in urls' : PathOK(v.url, v.horizon)'
    <2>1. ASSUME NEW v \in urls PROVE PathOK(v.url, v.horizon)'
      <3>1. PathOK(v.url, v.horizon) /\ v.url \in Urls /\ v.horizon \in Nat
        BY DEF PagingInv, TypeOK
      <3>2. Covered(v.url, v.horizon)'
        BY <1>6, <3>1 DEF PathOK
      <3>3. QED
        BY <1>1, <3>1, <3>2 DEF PathOK, UrlOK
    <2>2. QED
      BY <1>1, <1>7, <2>1
  <1>9. [url |-> url, horizon |-> horizon]' \in urls'
    BY <1>1
  <1>10. \A e \in entries' : e # 0 /\ (url'.before = 0 \/ e < url'.before)
    BY <1>1, <1>2, <1>3 DEF Under, PagingInv, LogOK
  <1>11. \A e \in log[user] : e \in Nat /\ (e \in av \/ (u.before # 0 /\ u.before <= e))
    BY <1>2 DEF Under, PagingInv, TypeOK
  <1>12. \A e \in log[user] : e \notin av /\ e <= top => e \in seen
    BY <1>0, <1>11 DEF Covered
  <1>13. NothingSkipped'
    <2>1. ASSUME NEW low \in NewestOf(av), NEW e \in log[user], low <= e, e <= top
          PROVE  e \in seen'
      BY <1>1, <1>3, <1>12, <2>1, PageIsUpwardClosed
    <2>2. QED
      BY <1>1, <2>1 DEF NothingSkipped, Current, Filtered
  <1>14. EndMeansAll'
    BY <1>1, <1>12 DEF EndMeansAll, Current, Filtered
  <1>15. QED
    BY <1>4, <1>5, <1>7, <1>8, <1>9, <1>10, <1>13, <1>14, <1>1 DEF PagingInv
-------------------------------------------------------------------------------
(* The links of a page. *)

\* "Older": the URL is in order and covered, for everything down to the last entry was
\* on the screen.
LEMMA DeeperOK ==
    ASSUME PagingInv, NEW low \in entries
    PROVE  /\ Deeper(url, low) \in Urls
           /\ UrlOK(Deeper(url, low))
           /\ Covered(Deeper(url, low), horizon)
           /\ low # 0 /\ (url.before = 0 \/ low < url.before)
  <1> DEFINE h == url.history
             d == Deeper(url, low)
  <1>1. /\ url \in Urls /\ low \in Nat /\ low # 0 /\ UrlOK(url)
        /\ url.before = 0 \/ low < url.before
    BY DEF PagingInv, TypeOK, PathOK
  <1>2. h \in Seq(Nat) /\ url.before \in Nat
    BY <1>1 DEF Urls
  <1>3. d.before = low /\ d.history = Append(h, url.before) /\ d.filter = url.filter
    BY <1>1 DEF Deeper, Urls
  <1>4. d \in Urls
    <2>1. Append(h, url.before) \in Seq(Nat)
      BY <1>2
    <2>2. d = [before |-> low, history |-> Append(h, url.before), filter |-> url.filter]
      BY DEF Deeper
    <2>3. QED
      BY <1>1, <2>1, <2>2 DEF Urls
  <1>5. UrlOK(d)
    <2>1. Len(h) \in Nat /\ Len(d.history) = Len(h) + 1
      BY <1>2, <1>3
    <2>2. \A i \in 1..Len(h) : d.history[i] = h[i] /\ h[i] \in Nat
      BY <1>2, <1>3
    <2>3. d.history[Len(h) + 1] = url.before
      BY <1>2, <1>3
    <2>4. url.before = 0 <=> Len(h) = 0
      BY <1>1, <1>2, EmptySeq DEF UrlOK
    <2>5. d.history # <<>>
      BY <2>1
    <2>6. ASSUME NEW i \in 1..Len(d.history)
          PROVE  /\ d.history[i] = 0 <=> i = 1
                 /\ i > 1 => d.before < d.history[i]
      <3>1. CASE i \in 1..Len(h)
        BY <1>1, <1>2, <1>3, <2>1, <2>2, <2>4, <3>1 DEF UrlOK
      <3>2. CASE i = Len(h) + 1
        BY <1>1, <1>2, <1>3, <2>1, <2>3, <2>4, <3>2
      <3>3. QED
        BY <2>1, <3>1, <3>2
    <2>7. ASSUME NEW i \in 1..Len(d.history), NEW j \in 1..Len(d.history), 1 < i, i < j
          PROVE  d.history[j] < d.history[i]
      <3>1. i \in 1..Len(h)
        BY <2>1, <2>7
      <3>2. CASE j \in 1..Len(h)
        BY <1>1, <2>2, <2>7, <3>1, <3>2 DEF UrlOK
      <3>3. CASE j = Len(h) + 1
        BY <1>1, <2>2, <2>3, <2>7, <3>1, <3>3 DEF UrlOK
      <3>4. QED
        BY <2>1, <3>2, <3>3
    <2>8. QED
      BY <1>1, <1>3, <2>5, <2>6, <2>7 DEF UrlOK
  <1>6. Covered(d, horizon)
    BY <1>3 DEF Covered, PagingInv, NothingSkipped, Current
  <1>7. QED
    BY <1>1, <1>4, <1>5, <1>6

\* "Previous": the last cursor of the history lies above the page left.
LEMMA BackOK ==
    ASSUME PagingInv, url.before # 0
    PROVE  /\ Back(url) \in Urls
           /\ UrlOK(Back(url))
           /\ Covered(Back(url), horizon)
           /\ Len(url.history) \in Nat \ {0}
           /\ Back(url).before = url.history[Len(url.history)]
           /\ Back(url).history = SubSeq(url.history, 1, Len(url.history) - 1)
  <1> DEFINE h == url.history
             n == Len(h)
             b == Back(url)
  <1>1. url \in Urls /\ UrlOK(url) /\ h \in Seq(Nat) /\ url.before \in Nat
    BY DEF PagingInv, TypeOK, PathOK, Urls
  <1>2. n \in Nat \ {0}
    BY <1>1, EmptySeq DEF UrlOK
  <1>3. b = [before |-> h[n], history |-> SubSeq(h, 1, n - 1), filter |-> url.filter]
    BY <1>2 DEF Back
  <1>4. b.before = h[n] /\ b.history = SubSeq(h, 1, n - 1) /\ b.filter = url.filter
    BY <1>1, <1>3 DEF Urls
  <1>5. /\ \A i \in 1..n : h[i] \in Nat
        /\ b.history \in Seq(Nat) /\ Len(b.history) = n - 1
        /\ \A i \in 1..(n - 1) : b.history[i] = h[i]
    BY <1>1, <1>2, <1>4, SubSeqProperties
  <1>6. b \in Urls
    <2>2. h[n] \in Nat /\ SubSeq(h, 1, n - 1) \in Seq(Nat)
      BY <1>2, <1>4, <1>5
    <2>3. QED
      BY <1>1, <1>3, <2>2 DEF Urls
  <1>7. UrlOK(b)
    <2> HIDE DEF b, h, n
    <2>0. /\ n \in 1..n
          /\ \A i \in 1..n : h[i] = 0 <=> i = 1
          /\ \A i, j \in 1..n : 1 < i /\ i < j => h[j] < h[i]
      <3>1. n \in 1..n
        BY <1>2
      <3>2. QED
        BY <1>1, <3>1 DEF UrlOK, h, n
    <2>1. b.before = 0 <=> n = 1
      BY <1>4, <2>0
    <2>2. b.history = <<>> <=> n = 1
      <3>1. b.history = <<>> <=> Len(b.history) = 0
        BY <1>5, EmptySeq
      <3>2. QED
        BY <1>2, <1>5, <3>1
    <2>3. ASSUME NEW i \in 1..(n - 1)
          PROVE  /\ b.history[i] = 0 <=> i = 1
                 /\ i > 1 => b.before < b.history[i]
                 /\ \A j \in 1..(n - 1) : 1 < i /\ i < j => b.history[j] < b.history[i]
      BY <1>2, <1>4, <1>5, <2>0
    <2>4. QED
      BY <1>5, <2>1, <2>2, <2>3 DEF UrlOK
  <1>8. Covered(b, horizon)
    <2>1. ASSUME b.before # 0, NEW e \in log[Filtered(b.filter)], b.before <= e, e <= horizon
          PROVE  e \in seen
      <3>1. url.before < b.before
        BY <1>1, <1>2, <1>4, <2>1 DEF UrlOK
      <3>2. e \in Nat /\ b.before \in Nat
        BY <1>6, SelfAssumption DEF Filtered, PagingInv, TypeOK, Urls
      <3>3. url.before <= e
        BY <1>1, <2>1, <3>1, <3>2
      <3>4. QED
        BY <1>4, <2>1, <3>3 DEF Covered, PathOK, PagingInv
    <2>2. QED
      BY <2>1 DEF Covered
  <1>9. QED
    BY <1>2, <1>4, <1>6, <1>7, <1>8
-------------------------------------------------------------------------------
(* The invariant. *)

\* It holds at the start.
LEMMA PagingInit == Init => PagingInv
  <1> SUFFICES ASSUME Init PROVE PagingInv
    OBVIOUS
  <1>1. url = [before |-> 0, history |-> <<>>, filter |-> Self] /\ url \in Urls
    BY SelfAssumption, EmptySeq DEF Init, FirstPage, Urls
  <1>2. UrlOK(url)
    BY <1>1, EmptySeq DEF UrlOK
  <1>3. Covered(url, horizon)
    BY <1>1 DEF Covered
  <1>4. /\ urls = {[url |-> url, horizon |-> horizon]} /\ horizon = 0 /\ lastId = 0
        /\ entries = {} /\ log = [u \in Users |-> {}]
    BY DEF Init
  <1>5. TypeOK
    <2>1. [url |-> url, horizon |-> horizon] \in [url : Urls, horizon : Nat]
      BY <1>1, <1>4
    <2>2. urls \subseteq [url : Urls, horizon : Nat]
      BY <1>4, <2>1
    <2>3. log \in [Users -> SUBSET Nat]
      BY <1>4
    <2>4. url \in Urls /\ entries \in SUBSET Nat /\ horizon \in Nat /\ lastId \in Nat
      BY <1>1, <1>4
    <2>5. more \in BOOLEAN /\ seen \in SUBSET Nat
      BY DEF Init
    <2>6. QED
      BY <2>2, <2>3, <2>4, <2>5 DEF TypeOK
  <1>6. PathOK(url, horizon)
    BY <1>2, <1>3, <1>4 DEF PathOK
  <1>7. \A v \in urls : PathOK(v.url, v.horizon)
    <2>1. ASSUME NEW v \in urls PROVE v.url = url /\ v.horizon = horizon
      BY <1>4
    <2>2. QED
      BY <1>6, <2>1
  <1>8. NothingSkipped /\ EndMeansAll /\ LogOK
    <2>1. Filtered(url.filter) \in Users
      BY <1>1, SelfAssumption DEF Filtered, Urls
    <2>2. QED
      BY <1>4, <2>1 DEF NothingSkipped, EndMeansAll, LogOK, Current
  <1>9. QED
    BY <1>4, <1>5, <1>6, <1>7, <1>8 DEF PagingInv

\* A step of Core: an entry is logged above every horizon, or one disappears.
LEMMA CoreStep ==
    ASSUME PagingInv, NEW user \in Users, Logged(user) \/ Removed(user)
    PROVE  PagingInv'
  <1>1. UNCHANGED <<url, entries, more, horizon, urls, seen>>
    BY DEF Logged, Removed
  <1>2. /\ log' \in [Users -> SUBSET Nat] /\ lastId' \in Nat /\ lastId <= lastId'
        /\ LogOK'
        /\ \A x \in Users : \A e \in log'[x] : e \in log[x] \/ lastId < e
    <2>1. CASE Logged(user)
      BY <2>1 DEF Logged, PagingInv, TypeOK, LogOK
    <2>2. CASE Removed(user)
      BY <2>2 DEF Removed, PagingInv, TypeOK, LogOK
    <2>3. QED
      BY <2>1, <2>2
  <1>3. ASSUME NEW u \in Urls, NEW h \in Nat, PathOK(u, h) PROVE PathOK(u, h)'
    <2>1. Filtered(u.filter) \in Users
      BY SelfAssumption DEF Filtered, Urls
    <2>2. \A e \in log'[Filtered(u.filter)] : e <= h => e \in log[Filtered(u.filter)]
      BY <1>2, <1>3, <2>1 DEF PathOK, PagingInv, TypeOK
    <2>3. Covered(u, h)'
      BY <1>1, <1>3, <2>2 DEF PathOK, Covered, Filtered
    <2>4. h <= lastId'
      BY <1>2, <1>3 DEF PathOK, PagingInv, TypeOK
    <2>5. QED
      BY <1>3, <2>3, <2>4 DEF PathOK, UrlOK
  <1>4. \A e \in Current' : e <= horizon' => e \in Current
    <2>1. Filtered(url.filter) \in Users
      BY SelfAssumption DEF Filtered, Urls, PagingInv, TypeOK
    <2>2. QED
      BY <1>1, <1>2, <2>1 DEF Current, Filtered, PagingInv, PathOK, TypeOK
  <1>5. NothingSkipped' /\ EndMeansAll'
    BY <1>1, <1>4 DEF NothingSkipped, EndMeansAll, PagingInv
  <1>6. PathOK(url, horizon)' /\ \A v \in urls' : PathOK(v.url, v.horizon)'
    <2>1. \A v \in urls : v.url \in Urls /\ v.horizon \in Nat /\ PathOK(v.url, v.horizon)
      BY DEF PagingInv, TypeOK
    <2>2. \A v \in urls : PathOK(v.url, v.horizon)'
      BY <1>3, <2>1
    <2>3. url \in Urls /\ horizon \in Nat /\ PathOK(url, horizon)
      BY DEF PagingInv, TypeOK
    <2>4. PICK u \in Urls, h \in Nat : u = url /\ h = horizon
      BY <2>3
    <2>5. PathOK(u, h)'
      BY <1>3, <2>3, <2>4
    <2>6. u = url' /\ h = horizon'
      BY <1>1, <2>4
    <2>7. QED
      BY <1>1, <2>2, <2>5, <2>6 DEF PathOK, UrlOK, Covered, Filtered
  <1>7. QED
    BY <1>1, <1>2, <1>5, <1>6 DEF PagingInv, TypeOK

\* Every step keeps it.
LEMMA PagingStep == PagingInv /\ [Next]_vars => PagingInv'
  <1> SUFFICES ASSUME PagingInv, [Next]_vars PROVE PagingInv'
    OBVIOUS
  <1>0. url \in Urls /\ horizon \in Nat /\ horizon <= lastId
    BY DEF PagingInv, TypeOK, PathOK
  <1>1. CASE ShowOlder
    <2>1. PICK low \in entries : Loaded(Deeper(url, low), horizon)
      BY <1>1 DEF ShowOlder
    <2>2. PICK u \in Urls, h \in Nat : u = Deeper(url, low) /\ h = horizon
      BY <1>0, DeeperOK
    <2>3. QED
      BY <1>0, <2>1, <2>2, DeeperOK, LoadedKeeps
  <1>2. CASE ShowPrevious
    <2>1. PICK u \in Urls, h \in Nat : u = Back(url) /\ h = horizon
      BY <1>0, <1>2, BackOK DEF ShowPrevious
    <2>2. QED
      BY <1>0, <1>2, <2>1, BackOK, LoadedKeeps DEF ShowPrevious
  <1>3. CASE ShowFirst
    <2>1. PICK user \in Users : Loaded(FirstPage(user), 0)
      BY <1>3 DEF ShowFirst
    <2>2. FirstPage(user) \in Urls /\ UrlOK(FirstPage(user)) /\ FirstPage(user).before = 0
      BY EmptySeq DEF FirstPage, Urls, UrlOK
    <2>3. QED
      BY <2>1, <2>2, LoadedKeeps
  <1>4. CASE Revisit
    <2>1. PICK v \in urls : Loaded(v.url, v.horizon)
      BY <1>4 DEF Revisit
    <2>2. v.url \in Urls /\ v.horizon \in Nat /\ PathOK(v.url, v.horizon)
      BY DEF PagingInv, TypeOK
    <2>3. QED
      BY <2>1, <2>2, LoadedKeeps DEF PathOK
  <1>5. CASE UNCHANGED vars
    BY <1>5 DEF vars, PagingInv, TypeOK, LogOK, PathOK, UrlOK, Covered, NothingSkipped,
       EndMeansAll, Current, Filtered
  <1>6. QED
    BY <1>1, <1>2, <1>3, <1>4, <1>5, CoreStep DEF Next

\* It holds always.
LEMMA PagingAlways == Spec => []PagingInv
  BY PagingInit, PagingStep, PTL DEF Spec

\* Every variable keeps its type; the URLs the links carry are well formed.
THEOREM PagingTypes == Spec => []TypeOK
  <1>1. PagingInv => TypeOK
    BY DEF PagingInv
  <1>2. QED
    BY <1>1, PagingAlways, PTL

\* Paging down misses no entry that is still there, for every page size.
THEOREM PagingSkipsNothing == Spec => []NothingSkipped
  <1>1. PagingInv => NothingSkipped
    BY DEF PagingInv
  <1>2. QED
    BY <1>1, PagingAlways, PTL

\* The page without "older" is the end of the log, for every page size.
THEOREM PagingReachesEnd == Spec => []EndMeansAll
  <1>1. PagingInv => EndMeansAll
    BY DEF PagingInv
  <1>2. QED
    BY <1>1, PagingAlways, PTL
-------------------------------------------------------------------------------
(* The URL's cursors are the stack of PageStack. *)

\* What loading a page does to the stack and to the set of stacks visited.
LEMMA LoadedStack ==
    ASSUME TypeOK, NEW u \in Urls, NEW h, Loaded(u, h)
    PROVE  /\ StackOf(url)' = StackOf(u)
           /\ {StackOf(v.url) : v \in urls}' = {StackOf(v.url) : v \in urls} \cup {StackOf(u)}
  <1>1. PICK top : urls' = urls \cup {[url |-> u, horizon |-> top]}
    BY DEF Loaded
  <1>2. url' = u
    BY DEF Loaded
  <1>3. StackOf(url)' = StackOf(u)
    BY <1>2 DEF StackOf
  <1>4. PICK new : new = [url |-> u, horizon |-> top]
    OBVIOUS
  <1>5. urls' = urls \cup {new} /\ new.url = u
    BY <1>1, <1>4
  <1>6. {StackOf(v.url) : v \in urls'} = {StackOf(v.url) : v \in urls} \cup {StackOf(new.url)}
    BY <1>5
  <1>7. QED
    BY <1>3, <1>5, <1>6 DEF StackOf

\* The top of the stack is the cursor of the page on the screen.
LEMMA TopOfStack ==
    ASSUME NEW u \in Urls
    PROVE  /\ StackOf(u) \in Seq(Nat)
           /\ Len(StackOf(u)) = Len(u.history) + 1
           /\ Len(u.history) \in Nat
           /\ Pages!Top(StackOf(u)) = u.before
  <1>1. u.history \in Seq(Nat) /\ u.before \in Nat
    BY DEF Urls
  <1>2. QED
    BY <1>1 DEF StackOf, Pages!Top

\* Opening a URL that is known, or a first page.
LEMMA OpenStep ==
    ASSUME TypeOK, NEW u \in Urls, NEW h, Loaded(u, h),
           StackOf(u) \in {StackOf(v.url) : v \in urls} \cup {<< 0 >>}
    PROVE  Pages!Next
  BY LoadedStack DEF Pages!Next, Pages!Open, Pages!Newest

\* Every step of the page is one of the stack's, or leaves it alone.
LEMMA PagesStep ==
    PagingInv /\ [Next]_vars => [Pages!Next]_<<StackOf(url), {StackOf(v.url) : v \in urls}>>
  <1> SUFFICES ASSUME PagingInv, [Next]_vars
               PROVE  [Pages!Next]_<<StackOf(url), {StackOf(v.url) : v \in urls}>>
    OBVIOUS
  <1>0. TypeOK /\ url \in Urls
    BY DEF PagingInv, TypeOK
  <1>1. CASE ShowOlder
    <2>1. PICK low \in entries : Loaded(Deeper(url, low), horizon)
      BY <1>1 DEF ShowOlder
    <2>2. Deeper(url, low) \in Urls /\ low # 0 /\ (url.before = 0 \/ low < url.before)
      BY DeeperOK
    <2>3. /\ StackOf(url)' = StackOf(Deeper(url, low))
          /\ {StackOf(v.url) : v \in urls}' =
                 {StackOf(v.url) : v \in urls} \cup {StackOf(Deeper(url, low))}
      BY <1>0, <2>1, <2>2, LoadedStack
    <2>4. StackOf(Deeper(url, low)) = Append(StackOf(url), low)
      BY DEF StackOf, Deeper
    <2>5. Pages!Top(StackOf(Deeper(url, low))) = low /\ Pages!Top(StackOf(url)) = url.before
      <3>1. Deeper(url, low).before = low
        BY DEF Deeper
      <3>2. QED
        BY <1>0, <2>2, <3>1, TopOfStack
    <2>6. QED
      BY <2>2, <2>3, <2>4, <2>5 DEF Pages!Next, Pages!Older, Pages!Below, Pages!Top
  <1>2. CASE ShowPrevious
    <2>1. url.before # 0 /\ Loaded(Back(url), horizon)
      BY <1>2 DEF ShowPrevious
    <2>2. /\ Back(url) \in Urls
          /\ Len(url.history) \in Nat \ {0}
          /\ Back(url).before = url.history[Len(url.history)]
          /\ Back(url).history = SubSeq(url.history, 1, Len(url.history) - 1)
      BY <2>1, BackOK
    <2>3. /\ StackOf(url)' = StackOf(Back(url))
          /\ {StackOf(v.url) : v \in urls}' =
                 {StackOf(v.url) : v \in urls} \cup {StackOf(Back(url))}
      BY <1>0, <2>1, <2>2, LoadedStack
    <2>4. StackOf(Back(url)) = SubSeq(StackOf(url), 1, Len(StackOf(url)) - 1)
      <3> DEFINE h == url.history
                 n == Len(h)
      <3>1. h \in Seq(Nat) /\ url.before \in Nat /\ n \in Nat \ {0}
        BY <1>0, <2>2 DEF Urls
      <3>2. StackOf(Back(url)) = Append(SubSeq(h, 1, n - 1), h[n])
        BY <2>2 DEF StackOf
      <3>3. Len(StackOf(url)) - 1 = n
        BY <1>0, <3>1, TopOfStack
      <3>4. Append(SubSeq(h, 1, n - 1), h[n]) = SubSeq(Append(h, url.before), 1, n)
        BY <3>1
      <3>5. QED
        BY <3>2, <3>3, <3>4 DEF StackOf
    <2>5. Len(StackOf(url)) > 1
      BY <1>0, <2>2, TopOfStack
    <2>6. QED
      BY <2>3, <2>4, <2>5 DEF Pages!Next, Pages!Previous
  <1>3. CASE ShowFirst
    <2>1. PICK user \in Users : Loaded(FirstPage(user), 0)
      BY <1>3 DEF ShowFirst
    <2>2. FirstPage(user) \in Urls /\ StackOf(FirstPage(user)) = <<0>>
      BY EmptySeq DEF FirstPage, Urls, StackOf
    <2>3. QED
      BY <1>0, <2>1, <2>2, OpenStep
  <1>4. CASE Revisit
    <2>1. PICK v \in urls : Loaded(v.url, v.horizon)
      BY <1>4 DEF Revisit
    <2>2. v.url \in Urls
      BY <1>0 DEF TypeOK
    <2>3. QED
      BY <1>0, <2>1, <2>2, OpenStep
  <1>5. CASE UNCHANGED <<url, urls>>
    BY <1>5 DEF StackOf
  <1>6. QED
    BY <1>1, <1>2, <1>3, <1>4, <1>5 DEF Next, Logged, Removed, vars

\* The cursors carried in the URL implement PageStack: "older" goes strictly further
\* into the past, and "previous" leads exactly one page back.
THEOREM CursorsAreAStack == Spec => PagesSpec
  <1>1. Init => Pages!Init
    <2> SUFFICES ASSUME Init PROVE Pages!Init
      OBVIOUS
    <2>1. StackOf(FirstPage(Self)) = <<0>>
      BY DEF StackOf, FirstPage
    <2>2. {StackOf(v.url) : v \in urls} = {<<0>>}
      BY <2>1 DEF Init
    <2>3. QED
      BY <2>1, <2>2 DEF Init, Pages!Init, Pages!Newest
  <1>2. QED
    BY <1>1, PagesStep, PagingAlways, PTL DEF Spec, PagesSpec, Pages!Spec
===============================================================================
