------------------------ MODULE PresenceSourcesProofs ------------------------
(***************************************************************************)
(* Proofs about PresenceSources, for any number of sources, blank rows,    *)
(* edits, sendings, failures and deletions by others.                      *)
(***************************************************************************)
EXTENDS PresenceSources, FiniteSetTheorems, TLAPS

\* The sources, their ids, and what is made for a row.
CoreOK ==
    /\ sources = [id \in DOMAIN sources |-> sources[id]]
    /\ DOMAIN sources \subseteq 1..lastId
    /\ \A id \in DOMAIN sources : sources[id] \in Source
    /\ lastId \in Nat
    /\ gone \subseteq 1..lastId /\ kept \subseteq 1..lastId
    /\ made = [box \in DOMAIN made |-> made[box]]
    /\ \A box \in DOMAIN made : made[box] \subseteq 1..lastId

\* Boxes are distinct; each source has one row; rows of sources precede new ones
\* and are where they were rendered.
FormOK ==
    /\ form \in Seq(Rows)
    /\ \A i \in DOMAIN form : form[i].box \in DOMAIN made /\ form[i].id <= lastId
    /\ \A i, j \in DOMAIN form : form[i].box = form[j].box => i = j
    /\ \A i, j \in DOMAIN form : form[i].id = form[j].id /\ form[i].id # 0 => i = j
    /\ \A i, j \in DOMAIN form : i < j /\ form[j].id # 0 => form[i].id # 0
    /\ \A i \in DOMAIN form : form[i].id # 0 => form[i].box = i

\* What is made for new rows is no row's source, and each sending makes at most one;
\* a row that waits for its turn has made none in this sending.
MadeOK ==
    /\ \A box \in DOMAIN made : Cardinality(made[box]) <= sends
    /\ \A box \in DOMAIN made : \A i \in DOMAIN form : form[i].id \notin made[box]
    /\ \A i \in todo : Cardinality(made[form[i].box]) < sends

\* Rows in place that had their turn without a warning are stored as shown.
StoredOK ==
    stage \in {"sending", "saved"} /\ ~warned =>
        \A i \in DOMAIN form \ todo : form[i].box = i => AsShown(form[i])

FlowOK ==
    /\ stage \in {"closed", "editing", "sending", "failed", "saved"}
    /\ todo \subseteq DOMAIN form
    /\ stage # "sending" => todo = {}
    /\ warned \in BOOLEAN
    /\ edits \in Nat /\ sends \in Nat

SourcesInv == CoreOK /\ FormOK /\ MadeOK /\ StoredOK /\ FlowOK
-------------------------------------------------------------------------------
(* Lemmas. *)

\* A subset of 1..n is finite.
LEMMA IdsFinite ==
  ASSUME NEW n \in Nat, NEW S, S \subseteq 1..n
  PROVE  IsFiniteSet(S) /\ Cardinality(S) \in Nat
  <1>1. IsFiniteSet(1..n)
    BY FS_Interval
  <1>2. IsFiniteSet(S)
    BY <1>1, FS_Subset
  <1>3. QED
    BY <1>2, FS_CardinalityType

\* The page lists every source once.
LEMMA ListedOnce ==
  ASSUME CoreOK
  PROVE  /\ Cardinality(DOMAIN sources) \in Nat
         /\ Listed \in [1..Cardinality(DOMAIN sources) -> DOMAIN sources]
         /\ \A i, j \in 1..Cardinality(DOMAIN sources) : i # j => Listed[i] # Listed[j]
  <1> DEFINE n == Cardinality(DOMAIN sources)
  <1>1. n \in Nat /\ ExistsBijection(1..n, DOMAIN sources)
    BY IdsFinite, FS_CardinalityType DEF CoreOK
  <1>2. PICK f \in [1..n -> DOMAIN sources] : \A i, j \in 1..n : i # j => f[i] # f[j]
    BY <1>1 DEF ExistsBijection, Bijection, Injection, IsInjective
  <1>3. \E ids \in [1..n -> DOMAIN sources] :
            \A i, j \in DOMAIN ids : i # j => ids[i] # ids[j]
    BY <1>2
  <1>4. /\ Listed \in [1..n -> DOMAIN sources]
        /\ \A i, j \in DOMAIN Listed : i # j => Listed[i] # Listed[j]
    BY <1>3 DEF Listed
  <1>5. QED
    BY <1>1, <1>4

\* What a row is put together to.
LEMMA ParsedRow ==
  ASSUME FormOK, NEW i \in DOMAIN form
  PROVE  LET o == Parsed(form, i) IN
         /\ o.id = form[i].id /\ o.row = form[i].box /\ o.type = form[i].type
         /\ o.ref = Reference(form[i])
         /\ o.what = What(form[i].id, Reference(form[i]))
         /\ form[i].box = i => o.enabled = form[i].enabled
         /\ o.enabled \in BOOLEAN /\ o.type \in Types /\ o.ref \in Refs \cup {NoRef}
  <1>1. form[i] \in Rows /\ form[i].enabled \in BOOLEAN
    <2>1. form \in [1..Len(form) -> Rows] /\ DOMAIN form = 1..Len(form)
      BY DEF FormOK
    <2>2. form[i] \in Rows
      BY <2>1
    <2>3. QED
      BY <2>2 DEF Rows
  <1>2. Reference(form[i]) \in Refs \cup {NoRef} /\ form[i].type \in Types
    BY <1>1 DEF Rows, Reference
  <1>3. TickedAt(form, i) \in BOOLEAN
    BY DEF TickedAt
  <1>4. form[i].box = i => TickedAt(form, i) = form[i].enabled
    BY <1>1 DEF TickedAt, FormOK
  <1>5. QED
    BY <1>2, <1>3, <1>4 DEF Parsed, IdAt

\* The invariant holds at the start.
LEMMA SourcesInit == Init => SourcesInv
  <1> SUFFICES ASSUME Init PROVE SourcesInv
    OBVIOUS
  <1>1. CoreOK
    BY CountAssumption DEF Init, CoreOK
  <1>2. DOMAIN form = {} /\ DOMAIN made = {} /\ form \in Seq(Rows) /\ todo = {}
    BY DEF Init
  <1>3. FormOK /\ MadeOK /\ StoredOK
    BY <1>2 DEF FormOK, MadeOK, StoredOK
  <1>4. FlowOK
    BY DEF Init, FlowOK
  <1>5. QED
    BY <1>1, <1>3, <1>4 DEF SourcesInv

\* What carrying out the row whose turn it is does.
LEMMA CarriedRow ==
  ASSUME SourcesInv, NEW i \in todo, stage = "sending", Carried(Parsed(form, i)),
         UNCHANGED <<form, gone, sends>>, kept' \in {kept, {}}
  PROVE  /\ CoreOK' /\ FormOK'
         /\ \A box \in DOMAIN made : Cardinality(made'[box]) <= sends
         /\ \A box \in DOMAIN made' : \A j \in DOMAIN form : form[j].id \notin made'[box]
         /\ DOMAIN made' = DOMAIN made
         /\ \A j \in todo \ {i} : Cardinality(made'[form[j].box]) < sends
         /\ kept' = kept => \A j \in DOMAIN form \ {i} : AsShown(form[j]) => AsShown(form[j])'
         /\ form[i].box = i => AsShown(form[i])'
         /\ \A id \in DOMAIN sources :
               (id \notin DOMAIN sources' \/ sources'[id] # sources[id]) =>
                   /\ form[i].id = id
                   /\ (id \notin DOMAIN sources') <=> Reference(form[i]) = NoRef
  <1> DEFINE o == Parsed(form, i)
  <1> USE DEF SourcesInv
  <1>i. i \in DOMAIN form /\ form[i] \in Rows /\ form[i].id \in Nat /\ form[i].box \in DOMAIN made
    <2>1. i \in DOMAIN form /\ form \in [1..Len(form) -> Rows] /\ DOMAIN form = 1..Len(form)
      BY DEF FlowOK, FormOK
    <2>2. QED
      BY <2>1 DEF Rows, FormOK
  <1>o. /\ o.id = form[i].id /\ o.row = form[i].box /\ o.type = form[i].type
        /\ o.ref = Reference(form[i])
        /\ o.what = What(form[i].id, Reference(form[i]))
        /\ form[i].box = i => o.enabled = form[i].enabled
        /\ o.enabled \in BOOLEAN /\ o.type \in Types /\ o.ref \in Refs \cup {NoRef}
    BY <1>i, ParsedRow
  <1> HIDE DEF o
  <1>c. Carried(o)
    BY DEF o
  <1>n. lastId \in Nat /\ sends \in Nat
    BY DEF CoreOK, FlowOK
  <1>1. CASE o.what = "delete"
    <2>1. /\ form[i].id # 0 /\ Reference(form[i]) = NoRef
          /\ sources' = Without(form[i].id) /\ UNCHANGED <<lastId, made>>
      BY <1>1, <1>c, <1>o DEF Carried, What
    <2>2. /\ DOMAIN sources' = DOMAIN sources \ {form[i].id}
          /\ \A x \in DOMAIN sources' : sources'[x] = sources[x]
          /\ sources' = [x \in DOMAIN sources' |-> sources'[x]]
      BY <2>1 DEF Without
    <2>3. CoreOK'
      BY <2>1, <2>2 DEF CoreOK
    <2>4. FormOK'
      BY <2>1 DEF FormOK
    <2>5. ASSUME NEW j \in DOMAIN form, j # i, AsShown(form[j]), kept' = kept PROVE AsShown(form[j])'
      <3>1. form[j].id # form[i].id
        BY <2>1, <2>5, <1>i DEF FormOK
      <3>2. \A id \in made[form[j].box] : id # form[i].id
        BY <2>5, <1>i DEF MadeOK, FormOK
      <3>3. QED
        BY <2>1, <2>2, <2>5, <3>1, <3>2 DEF AsShown, Shows, Reference
    <2>6. AsShown(form[i])'
      BY <2>1, <2>2 DEF AsShown, Reference
    <2>7. QED
      BY <2>1, <2>2, <2>3, <2>4, <2>5, <2>6 DEF MadeOK
  <1>2. CASE o.what = "update"
    <2>1. /\ form[i].id # 0 /\ Reference(form[i]) # NoRef /\ form[i].id \in DOMAIN sources
          /\ sources' = With(form[i].id, o) /\ UNCHANGED <<lastId, made>>
      BY <1>2, <1>c, <1>o DEF Carried, What
    <2>2. /\ DOMAIN sources' = DOMAIN sources
          /\ \A x \in DOMAIN sources : x # form[i].id => sources'[x] = sources[x]
          /\ sources'[form[i].id] = [type |-> o.type, ref |-> o.ref, enabled |-> o.enabled]
          /\ sources' = [x \in DOMAIN sources' |-> sources'[x]]
      BY <2>1 DEF With
    <2>3. sources'[form[i].id] \in Source
      BY <2>1, <2>2, <1>o DEF Source
    <2>4. CoreOK'
      BY <2>1, <2>2, <2>3 DEF CoreOK
    <2>5. FormOK'
      BY <2>1 DEF FormOK
    <2>6. ASSUME NEW j \in DOMAIN form, j # i, AsShown(form[j]), kept' = kept PROVE AsShown(form[j])'
      <3>1. form[j].id # form[i].id
        BY <2>1, <2>6, <1>i DEF FormOK
      <3>2. \A id \in made[form[j].box] : id # form[i].id
        BY <2>6, <1>i DEF MadeOK, FormOK
      <3>3. QED
        BY <2>1, <2>2, <2>6, <3>1, <3>2 DEF AsShown, Shows, Reference
    <2>7. form[i].box = i => AsShown(form[i])'
      BY <2>1, <2>2, <1>o DEF AsShown, Shows, Reference
    <2>8. QED
      BY <2>1, <2>2, <2>4, <2>5, <2>6, <2>7 DEF MadeOK
  <1>3. CASE o.what = "create"
    <2>1. /\ form[i].id = 0 /\ Reference(form[i]) # NoRef /\ lastId' = lastId + 1
          /\ sources' = With(lastId + 1, o)
          /\ made' = [made EXCEPT ![form[i].box] = @ \cup {lastId + 1}]
      BY <1>3, <1>c, <1>o DEF Carried, What
    <2>2. lastId + 1 \notin DOMAIN sources /\ lastId + 1 \notin 1..lastId
      BY <1>n DEF CoreOK
    <2>3. /\ DOMAIN sources' = DOMAIN sources \cup {lastId + 1}
          /\ \A x \in DOMAIN sources : sources'[x] = sources[x]
          /\ sources'[lastId + 1] = [type |-> o.type, ref |-> o.ref, enabled |-> o.enabled]
          /\ sources' = [x \in DOMAIN sources' |-> sources'[x]]
      BY <2>1, <2>2 DEF With
    <2>4. /\ DOMAIN made' = DOMAIN made
          /\ \A box \in DOMAIN made : box # form[i].box => made'[box] = made[box]
          /\ made'[form[i].box] = made[form[i].box] \cup {lastId + 1}
          /\ made' = [box \in DOMAIN made' |-> made'[box]]
      BY <2>1, <1>i DEF CoreOK
    <2>5. sources'[lastId + 1] \in Source
      BY <2>1, <2>3, <1>o DEF Source
    <2>6. 1..(lastId + 1) = 1..lastId \cup {lastId + 1}
      BY <1>n
    <2>7. CoreOK'
      <3>1. /\ DOMAIN sources' \subseteq 1..lastId' /\ gone' \subseteq 1..lastId'
            /\ kept' \subseteq 1..lastId'
        BY <2>1, <2>3, <2>6 DEF CoreOK
      <3>2. \A id \in DOMAIN sources' : sources'[id] \in Source
        BY <2>3, <2>5 DEF CoreOK
      <3>3. \A box \in DOMAIN made' : made'[box] \subseteq 1..lastId'
        BY <2>1, <2>4, <2>6 DEF CoreOK
      <3>4. QED
        BY <3>1, <3>2, <3>3, <2>1, <2>3, <2>4, <1>n DEF CoreOK
    <2>8. FormOK'
      <3>1. \A j \in DOMAIN form : form[j].id \in Nat /\ form[j].id <= lastId
        <4>1. form \in [1..Len(form) -> Rows] /\ DOMAIN form = 1..Len(form)
          BY DEF FormOK
        <4>2. QED
          BY <4>1 DEF FormOK, Rows
      <3>2. \A j \in DOMAIN form : form[j].id <= lastId'
        BY <3>1, <2>1, <1>n
      <3>3. QED
        BY <3>2, <2>4 DEF FormOK
    <2>9. \A j \in DOMAIN form : form[j].id # lastId + 1
      <3>1. form \in [1..Len(form) -> Rows] /\ DOMAIN form = 1..Len(form)
        BY DEF FormOK
      <3>2. QED
        BY <3>1, <1>n DEF FormOK, Rows
    <2>10. \A box \in DOMAIN made' : \A j \in DOMAIN form : form[j].id \notin made'[box]
      BY <2>4, <2>9 DEF MadeOK
    <2>11. Cardinality(made'[form[i].box]) <= sends
      <3>1. IsFiniteSet(made[form[i].box]) /\ Cardinality(made[form[i].box]) \in Nat
        BY <1>i, <1>n, IdsFinite DEF CoreOK
      <3>2. lastId + 1 \notin made[form[i].box]
        BY <2>2, <1>i DEF CoreOK
      <3>3. Cardinality(made'[form[i].box]) = Cardinality(made[form[i].box]) + 1
        BY <2>4, <3>1, <3>2, FS_AddElement
      <3>4. Cardinality(made[form[i].box]) < sends
        BY DEF MadeOK
      <3>5. QED
        BY <3>1, <3>3, <3>4, <1>n
    <2>12. \A box \in DOMAIN made : Cardinality(made'[box]) <= sends
      BY <2>4, <2>11 DEF MadeOK
    <2>13. \A j \in todo \ {i} : Cardinality(made'[form[j].box]) < sends
      BY <2>4, <1>i DEF MadeOK, FormOK, FlowOK
    <2>14. ASSUME NEW j \in DOMAIN form, j # i, AsShown(form[j]), kept' = kept PROVE AsShown(form[j])'
      <3>1. /\ form[j].id # lastId + 1 /\ form[j].box \in DOMAIN made
            /\ made[form[j].box] \subseteq made'[form[j].box]
        BY <2>4, <2>9 DEF FormOK
      <3>2. QED
        BY <2>1, <2>3, <2>14, <3>1 DEF AsShown, Shows, Reference
    <2>15. form[i].box = i => AsShown(form[i])'
      BY <2>1, <2>3, <2>4, <1>o DEF AsShown, Shows, Reference
    <2>16. QED
      BY <2>3, <2>4, <2>7, <2>8, <2>10, <2>12, <2>13, <2>14, <2>15
  <1>4. QED
    BY <1>1, <1>2, <1>3, <1>c DEF Carried

\* The page that is opened: one row for each source, then the blank ones.
LEMMA RenderedRows ==
  ASSUME CoreOK, NEW n, n = Cardinality(DOMAIN sources)
  PROVE  /\ n \in Nat /\ Rendered \in [1..(n + NewRows) -> Rows]
         /\ \A i \in 1..(n + NewRows) :
               /\ Rendered[i].box = i
               /\ i <= n => Rendered[i].id = Listed[i] /\ Listed[i] \in DOMAIN sources
               /\ i > n => Rendered[i].id = 0
  <1>1. /\ n \in Nat /\ NewRows \in Nat
        /\ Listed \in [1..n -> DOMAIN sources]
    BY ListedOnce, CountAssumption
  <1>2. DOMAIN Listed = 1..n /\ Len(Listed) = n
    BY <1>1
  <1>3. Rendered = [i \in 1..(n + NewRows) |->
            IF i <= n
            THEN [id |-> Listed[i], box |-> i, type |-> sources[Listed[i]].type,
                  ref |-> [NoRefs EXCEPT ![sources[Listed[i]].type] = sources[Listed[i]].ref],
                  enabled |-> sources[Listed[i]].enabled]
            ELSE [id |-> 0, box |-> i, type |-> FirstType, ref |-> NoRefs, enabled |-> TRUE]]
    BY <1>2 DEF Rendered
  <1>4. NoRefs \in [Types -> Refs \cup {NoRef}] /\ FirstType \in Types
    BY TypesAssumption DEF NoRefs, FirstType
  <1>5. ASSUME NEW i \in 1..(n + NewRows) PROVE Rendered[i] \in Rows
    <2>1. CASE i <= n
      <3>1. i \in 1..n /\ Listed[i] \in DOMAIN sources
        BY <1>1, <2>1
      <3>2. sources[Listed[i]] \in Source /\ Listed[i] \in Nat
        BY <3>1 DEF CoreOK
      <3>3. /\ sources[Listed[i]].type \in Types /\ sources[Listed[i]].ref \in Refs
            /\ sources[Listed[i]].enabled \in BOOLEAN
        BY <3>2 DEF Source
      <3>4. [NoRefs EXCEPT ![sources[Listed[i]].type] = sources[Listed[i]].ref]
                \in [Types -> Refs \cup {NoRef}]
        BY <1>4, <3>3
      <3>5. QED
        BY <1>1, <1>3, <2>1, <3>2, <3>3, <3>4 DEF Rows
    <2>2. CASE ~(i <= n)
      BY <1>1, <1>3, <1>4, <2>2 DEF Rows
    <2>3. QED
      BY <2>1, <2>2
  <1>6. Rendered \in [1..(n + NewRows) -> Rows]
    <2> DEFINE D == 1..(n + NewRows)
    <2>1. DOMAIN Rendered = D /\ Rendered = [i \in D |-> Rendered[i]]
      BY <1>3, Zenon
    <2>2. QED
      BY <2>1, <1>5
  <1>7. ASSUME NEW i \in 1..(n + NewRows)
        PROVE  /\ Rendered[i].box = i
               /\ i <= n => Rendered[i].id = Listed[i] /\ Listed[i] \in DOMAIN sources
               /\ i > n => Rendered[i].id = 0
    BY <1>1, <1>3
  <1>8. QED
    BY <1>1, <1>6, <1>7

\* Opening the page starts a form anew.
LEMMA OpenKeeps == SourcesInv /\ Open => SourcesInv'
  <1> SUFFICES ASSUME SourcesInv, Open PROVE SourcesInv'
    OBVIOUS
  <1> DEFINE n == Cardinality(DOMAIN sources)
             m == n + NewRows
  <1>1. /\ CoreOK /\ FlowOK /\ UNCHANGED <<sources, lastId, todo, warned, edits>>
        /\ form' = Rendered /\ sends' = 0 /\ gone' = {} /\ kept' = {}
        /\ made' = [box \in 1..Len(form') |-> {}] /\ stage' = "editing" /\ todo = {}
    BY DEF SourcesInv, Open, FlowOK
  <1>2. /\ n \in Nat /\ Rendered \in [1..m -> Rows]
        /\ \A i \in 1..m : /\ Rendered[i].box = i
                           /\ i <= n => Rendered[i].id = Listed[i] /\ Listed[i] \in DOMAIN sources
                           /\ i > n => Rendered[i].id = 0
    BY <1>1, RenderedRows
  <1>3. \A i, j \in 1..n : i # j => Listed[i] # Listed[j]
    BY <1>1, ListedOnce
  <1> HIDE DEF n
  <1>4. m \in Nat /\ DOMAIN form' = 1..m /\ Len(form') = m /\ form' \in Seq(Rows)
        /\ DOMAIN made' = 1..m /\ \A box \in 1..m : made'[box] = {}
    BY <1>1, <1>2, CountAssumption
  <1>5. \A id \in DOMAIN sources : id \in Nat /\ id # 0 /\ id <= lastId
    BY <1>1 DEF CoreOK
  <1>6. \A i \in 1..m : form'[i].id # 0 => i <= n
    BY <1>1, <1>2, <1>4
  <1>7. CoreOK'
    BY <1>1, <1>4 DEF CoreOK
  <1>8. FormOK'
    <2>1. \A i \in DOMAIN form' : form'[i].id <= lastId'
      BY <1>1, <1>2, <1>4, <1>5 DEF CoreOK
    <2>2. \A i, j \in DOMAIN form' : form'[i].id = form'[j].id /\ form'[i].id # 0 => i = j
      BY <1>1, <1>2, <1>3, <1>4, <1>6
    <2>3. \A i, j \in DOMAIN form' : i < j /\ form'[j].id # 0 => form'[i].id # 0
      BY <1>1, <1>2, <1>4, <1>5, <1>6
    <2>4. QED
      BY <1>1, <1>2, <1>4, <2>1, <2>2, <2>3 DEF FormOK
  <1>9. MadeOK'
    BY <1>1, <1>4, FS_EmptySet DEF MadeOK
  <1>10. StoredOK' /\ FlowOK'
    BY <1>1 DEF StoredOK, FlowOK
  <1>11. QED
    BY <1>7, <1>8, <1>9, <1>10 DEF SourcesInv

\* A changed form keeps its boxes and ids, or loses a new row.
LEMMA EditKeeps ==
  ASSUME SourcesInv, NEW rows, Edited(rows), rows \in Seq(Rows),
         NEW from \in [DOMAIN rows -> DOMAIN form],
         \A j \in DOMAIN rows : /\ rows[j].box = form[from[j]].box
                                /\ rows[j].id = form[from[j]].id
                                /\ rows[j].id # 0 => from[j] = j,
         \A j, k \in DOMAIN rows : j < k => from[j] < from[k]
  PROVE  SourcesInv'
  <1>1. /\ form' = rows /\ stage = "editing" /\ todo = {} /\ edits' = edits + 1
        /\ UNCHANGED <<sources, lastId, stage, todo, warned, sends, gone, made, kept>>
    BY DEF Edited, SourcesInv, FlowOK
  <1>2. \A j, k \in DOMAIN rows : from[j] = from[k] => j = k
    <2>1. DOMAIN rows = 1..Len(rows) /\ Len(rows) \in Nat /\ DOMAIN form = 1..Len(form)
          /\ Len(form) \in Nat
      BY DEF SourcesInv, FormOK
    <2>2. QED
      BY <2>1
  <1>3. FormOK'
    <2>1. \A j \in DOMAIN rows : rows[j].box \in DOMAIN made /\ rows[j].id <= lastId
      BY DEF SourcesInv, FormOK
    <2>2. \A j, k \in DOMAIN rows : rows[j].box = rows[k].box => j = k
      BY <1>2 DEF SourcesInv, FormOK
    <2>3. \A j, k \in DOMAIN rows : rows[j].id = rows[k].id /\ rows[j].id # 0 => j = k
      BY <1>2 DEF SourcesInv, FormOK
    <2>4. ASSUME NEW j \in DOMAIN rows, NEW k \in DOMAIN rows, j < k, rows[k].id # 0
          PROVE  rows[j].id # 0
      <3>1. from[j] \in DOMAIN form /\ from[k] \in DOMAIN form /\ from[j] < from[k]
        BY <2>4
      <3>2. form[from[k]].id # 0
        BY <2>4
      <3>3. form[from[j]].id # 0
        BY <3>1, <3>2 DEF SourcesInv, FormOK
      <3>4. QED
        BY <3>3
    <2>5. \A j \in DOMAIN rows : rows[j].id # 0 => rows[j].box = j
      BY DEF SourcesInv, FormOK
    <2>6. QED
      BY <1>1, <2>1, <2>2, <2>3, <2>4, <2>5 DEF FormOK
  <1>4. CoreOK' /\ MadeOK' /\ StoredOK' /\ FlowOK'
    BY <1>1 DEF SourcesInv, CoreOK, MadeOK, StoredOK, FlowOK
  <1>5. QED
    BY <1>3, <1>4 DEF SourcesInv

\* A row whose type, references or tick change keeps its place, box and id.
LEMMA RowKeeps ==
  ASSUME SourcesInv, NEW i \in DOMAIN form, NEW row \in Rows,
         row.box = form[i].box, row.id = form[i].id, Edited([form EXCEPT ![i] = row])
  PROVE  SourcesInv'
  <1> DEFINE rows == [form EXCEPT ![i] = row]
             from == [j \in DOMAIN form |-> j]
  <1>1. form \in Seq(Rows) /\ DOMAIN form = 1..Len(form)
    BY DEF SourcesInv, FormOK
  <1>2. rows \in Seq(Rows) /\ DOMAIN rows = DOMAIN form
    BY <1>1
  <1>3. \A j \in DOMAIN rows : rows[j].box = form[from[j]].box /\ rows[j].id = form[from[j]].id
    BY <1>1
  <1>4. from \in [DOMAIN rows -> DOMAIN form] /\ \A j \in DOMAIN rows : from[j] = j
    BY <1>2
  <1>5. Edited(rows)
    OBVIOUS
  <1> HIDE DEF rows, from
  <1>6. QED
    BY <1>2, <1>3, <1>4, <1>5, EditKeeps

\* The four edits.
LEMMA EditsKeep ==
  ASSUME SourcesInv, NEW i \in DOMAIN form,
         ChooseType(i) \/ EnterReference(i) \/ Tick(i) \/ RemoveRow(i)
  PROVE  SourcesInv'
  <1>1. /\ form \in Seq(Rows) /\ DOMAIN form = 1..Len(form) /\ Len(form) \in Nat
        /\ form \in [1..Len(form) -> Rows]
    BY DEF SourcesInv, FormOK
  <1>2. form[i] \in Rows
    BY <1>1
  <1>3. /\ form[i].id \in Nat /\ form[i].box \in Nat \ {0} /\ form[i].type \in Types
        /\ form[i].ref \in [Types -> Refs \cup {NoRef}] /\ form[i].enabled \in BOOLEAN
        /\ form[i] = [id |-> form[i].id, box |-> form[i].box, type |-> form[i].type,
                      ref |-> form[i].ref, enabled |-> form[i].enabled]
    BY <1>2 DEF Rows
  <1>4. CASE ChooseType(i)
    <2>1. PICK t \in Types : Edited([form EXCEPT ![i].type = t])
      BY <1>4 DEF ChooseType
    <2>2. PICK row : row = [form[i] EXCEPT !.type = t]
      OBVIOUS
    <2>3. row \in Rows /\ row.box = form[i].box /\ row.id = form[i].id
      BY <1>2, <2>2 DEF Rows
    <2>4. Edited([form EXCEPT ![i] = row])
      BY <2>1, <2>2
    <2>5. QED
      BY <2>3, <2>4, RowKeeps
  <1>5. CASE EnterReference(i)
    <2>1. PICK r \in Refs \cup {NoRef} : Edited([form EXCEPT ![i].ref[form[i].type] = r])
      BY <1>5 DEF EnterReference
    <2>2. PICK row : row = [form[i] EXCEPT !.ref[form[i].type] = r]
      OBVIOUS
    <2>3. row \in Rows /\ row.box = form[i].box /\ row.id = form[i].id
      BY <1>2, <2>2 DEF Rows
    <2>4. Edited([form EXCEPT ![i] = row])
      BY <2>1, <2>2
    <2>5. QED
      BY <2>3, <2>4, RowKeeps
  <1>6. CASE Tick(i)
    <2>1. PICK row : row = [form[i] EXCEPT !.enabled = ~@]
      OBVIOUS
    <2>2. row \in Rows /\ row.box = form[i].box /\ row.id = form[i].id
      BY <1>2, <2>1 DEF Rows
    <2>3. Edited([form EXCEPT ![i] = row])
      BY <1>6, <2>1 DEF Tick
    <2>4. QED
      BY <2>2, <2>3, RowKeeps
  <1>7. CASE RemoveRow(i) /\ form[i].id # 0
    <2>1. PICK row : row = [form[i] EXCEPT !.ref = NoRefs]
      OBVIOUS
    <2>2. row \in Rows /\ row.box = form[i].box /\ row.id = form[i].id
      BY <1>2, <2>1 DEF Rows, NoRefs
    <2>3. Edited([form EXCEPT ![i] = row])
      BY <1>7, <2>1 DEF RemoveRow
    <2>4. QED
      BY <2>2, <2>3, RowKeeps
  <1>8. CASE RemoveRow(i) /\ form[i].id = 0
    <2> DEFINE rows == [j \in 1..(Len(form) - 1) |-> form[IF j < i THEN j ELSE j + 1]]
               from == [j \in 1..(Len(form) - 1) |-> IF j < i THEN j ELSE j + 1]
    <2>1. Edited(rows)
      BY <1>8 DEF RemoveRow
    <2>2. Len(form) - 1 \in Nat /\ i \in 1..Len(form)
      BY <1>1
    <2>3. \A j \in 1..(Len(form) - 1) : from[j] \in DOMAIN form
      BY <1>1, <2>2
    <2>4. DOMAIN rows = 1..(Len(form) - 1) /\ \A j \in DOMAIN rows : rows[j] = form[from[j]]
      OBVIOUS
    <2>5. from \in [DOMAIN rows -> DOMAIN form]
      BY <2>3, <2>4
    <2>6. rows \in Seq(Rows)
      BY <1>1, <2>2, <2>3, <2>4
    <2>7. \A j, k \in DOMAIN rows : j < k => from[j] < from[k]
      BY <2>2
    <2>8. ASSUME NEW j \in DOMAIN rows, rows[j].id # 0 PROVE from[j] = j
      <3>1. from[j] \in DOMAIN form /\ form[from[j]].id # 0
        BY <2>3, <2>4, <2>8
      <3>2. ~(i < from[j])
        BY <1>8, <3>1 DEF SourcesInv, FormOK
      <3>3. QED
        BY <2>2, <3>2
    <2> HIDE DEF rows, from
    <2>9. QED
      BY <2>1, <2>4, <2>5, <2>6, <2>7, <2>8, EditKeeps
  <1>9. QED
    BY <1>4, <1>5, <1>6, <1>7, <1>8

\* Sending gives every used row its turn; the unused ones are as shown.
LEMMA SendKeeps == SourcesInv /\ Send => SourcesInv'
  <1> SUFFICES ASSUME SourcesInv, Send PROVE SourcesInv'
    OBVIOUS
  <1>1. /\ sends' = sends + 1 /\ stage' = "sending" /\ todo' = Used(form) /\ warned' = FALSE
        /\ kept' = {}
        /\ UNCHANGED <<sources, lastId, form, edits, gone, made>>
    BY DEF Send
  <1>2. Used(form) \subseteq DOMAIN form /\ sends \in Nat /\ sends' \in Nat
    BY <1>1 DEF Used, SourcesInv, FlowOK
  <1>3. \A box \in DOMAIN made : Cardinality(made[box]) \in Nat /\ Cardinality(made[box]) <= sends
    BY IdsFinite DEF SourcesInv, CoreOK, MadeOK
  <1>4. CoreOK' /\ FormOK' /\ FlowOK'
    BY <1>1, <1>2 DEF SourcesInv, CoreOK, FormOK, FlowOK
  <1>5. \A i \in DOMAIN form : form[i].box \in DOMAIN made
    BY DEF SourcesInv, FormOK
  <1>6. MadeOK'
    <2>1. \A box \in DOMAIN made :
             Cardinality(made[box]) <= sends + 1 /\ Cardinality(made[box]) < sends + 1
      BY <1>2, <1>3
    <2>2. \A i \in Used(form) : Cardinality(made[form[i].box]) < sends + 1
      BY <1>2, <1>5, <2>1
    <2>3. QED
      BY <1>1, <2>1, <2>2 DEF SourcesInv, MadeOK
  <1>7. ASSUME NEW i \in DOMAIN form \ Used(form) PROVE AsShown(form[i])'
    <2>1. What(form[i].id, Reference(form[i])) = "skip"
      BY <1>7, ParsedRow DEF Used, SourcesInv
    <2>2. form[i].id = 0 /\ Reference(form[i]) = NoRef
      BY <2>1 DEF What
    <2>3. QED
      BY <1>1, <2>2 DEF AsShown, Reference
  <1>8. StoredOK'
    BY <1>1, <1>7 DEF StoredOK
  <1>9. QED
    BY <1>4, <1>6, <1>8 DEF SourcesInv

\* A row carried out is stored as shown.
LEMMA RowDoneKeeps == ASSUME SourcesInv, NEW i \in DOMAIN form, RowDone(i) PROVE SourcesInv'
  <1>1. /\ i \in todo /\ stage = "sending" /\ Carried(Parsed(form, i)) /\ todo' = todo \ {i}
        /\ UNCHANGED <<stage, form, warned, edits, sends, gone, kept>>
    BY DEF RowDone, Turn
  <1>2. /\ CoreOK' /\ FormOK'
        /\ \A box \in DOMAIN made : Cardinality(made'[box]) <= sends
        /\ \A box \in DOMAIN made' : \A j \in DOMAIN form : form[j].id \notin made'[box]
        /\ DOMAIN made' = DOMAIN made
        /\ \A j \in todo \ {i} : Cardinality(made'[form[j].box]) < sends
        /\ \A j \in DOMAIN form \ {i} : AsShown(form[j]) => AsShown(form[j])'
        /\ form[i].box = i => AsShown(form[i])'
    BY <1>1, CarriedRow
  <1>3. MadeOK'
    BY <1>1, <1>2 DEF MadeOK
  <1>4. StoredOK'
    <2>1. ASSUME ~warned, NEW j \in DOMAIN form \ todo', form[j].box = j PROVE AsShown(form[j])'
      BY <1>1, <1>2, <2>1 DEF SourcesInv, StoredOK
    <2>2. QED
      BY <1>1, <2>1 DEF StoredOK
  <1>5. FlowOK'
    BY <1>1 DEF SourcesInv, FlowOK
  <1>6. QED
    BY <1>2, <1>3, <1>4, <1>5 DEF SourcesInv

\* A refusal warns, or is a deletion and remembered in kept.
LEMMA RowRefusedKeeps ==
  ASSUME SourcesInv, NEW i \in DOMAIN form, RowRefused(i) PROVE SourcesInv'
  <1>1. /\ i \in todo /\ stage = "sending" /\ todo' = todo \ {i}
        /\ UNCHANGED <<sources, lastId, stage, form, edits, sends, gone, made>>
    BY DEF RowRefused, Turn
  <1>2. FormOK' /\ MadeOK'
    BY <1>1 DEF SourcesInv, FormOK, MadeOK
  <1>3. CASE warned' = TRUE /\ UNCHANGED kept
    BY <1>1, <1>2, <1>3 DEF SourcesInv, CoreOK, StoredOK, FlowOK
  <1>4. CASE /\ Parsed(form, i).what = "delete" /\ kept' = kept \cup {Parsed(form, i).id}
             /\ UNCHANGED warned
    <2>1. /\ form[i].id # 0 /\ Reference(form[i]) = NoRef
          /\ kept' = kept \cup {form[i].id}
      BY <1>4, ParsedRow DEF SourcesInv, What
    <2>2. form[i].id \in 1..lastId
      <3>1. form \in [1..Len(form) -> Rows] /\ DOMAIN form = 1..Len(form)
        BY DEF SourcesInv, FormOK
      <3>2. form[i].id \in Nat /\ form[i].id <= lastId /\ lastId \in Nat
        BY <3>1 DEF SourcesInv, FormOK, CoreOK, Rows
      <3>3. QED
        BY <2>1, <3>2
    <2>3. CoreOK' /\ FlowOK'
      BY <1>1, <1>4, <2>1, <2>2 DEF SourcesInv, CoreOK, FlowOK
    <2>4. \A j \in DOMAIN form : AsShown(form[j]) => AsShown(form[j])'
      BY <1>1, <2>1 DEF AsShown, Shows, Reference
    <2>5. AsShown(form[i])'
      BY <1>1, <2>1 DEF AsShown, Reference
    <2>6. StoredOK'
      BY <1>1, <1>4, <2>4, <2>5 DEF SourcesInv, StoredOK
    <2>7. QED
      BY <1>2, <2>3, <2>6 DEF SourcesInv
  <1>5. QED
    BY <1>3, <1>4 DEF RowRefused

\* A failure ends the request, whether it was applied or not.
LEMMA RowFailedKeeps ==
  ASSUME SourcesInv, NEW i \in DOMAIN form, RowFailed(i) PROVE SourcesInv'
  <1>1. /\ i \in todo /\ stage = "sending" /\ todo' = {} /\ stage' = "failed" /\ kept' = {}
        /\ UNCHANGED <<form, warned, edits, sends, gone>>
    BY DEF RowFailed, Turn
  <1>2. StoredOK' /\ FlowOK'
    BY <1>1 DEF SourcesInv, StoredOK, FlowOK
  <1>3. CASE Carried(Parsed(form, i))
    <2>1. /\ CoreOK' /\ FormOK'
          /\ \A box \in DOMAIN made : Cardinality(made'[box]) <= sends
          /\ \A box \in DOMAIN made' : \A j \in DOMAIN form : form[j].id \notin made'[box]
          /\ DOMAIN made' = DOMAIN made
      BY <1>1, <1>3, CarriedRow
    <2>2. QED
      BY <1>1, <1>2, <2>1 DEF SourcesInv, MadeOK
  <1>4. CASE UNCHANGED <<sources, lastId, made>>
    BY <1>1, <1>2, <1>4 DEF SourcesInv, CoreOK, FormOK, MadeOK
  <1>5. QED
    BY <1>3, <1>4 DEF RowFailed

\* The handler ends.
LEMMA SavedKeeps == SourcesInv /\ Saved => SourcesInv'
  <1> SUFFICES ASSUME SourcesInv, Saved PROVE SourcesInv'
    OBVIOUS
  <1>1. /\ stage = "sending" /\ todo = {} /\ stage' = "saved"
        /\ UNCHANGED <<sources, lastId, form, todo, warned, edits, sends, gone, made, kept>>
    BY DEF Saved
  <1>2. CoreOK' /\ FormOK' /\ MadeOK' /\ FlowOK'
    BY <1>1 DEF SourcesInv, CoreOK, FormOK, MadeOK, FlowOK
  <1>3. StoredOK'
    BY <1>1 DEF SourcesInv, StoredOK, AsShown, Shows
  <1>4. QED
    BY <1>2, <1>3 DEF SourcesInv

\* A deletion elsewhere is remembered in gone.
LEMMA DeletedElsewhereKeeps == SourcesInv /\ DeletedElsewhere => SourcesInv'
  <1> SUFFICES ASSUME SourcesInv, DeletedElsewhere PROVE SourcesInv'
    OBVIOUS
  <1>1. PICK id \in DOMAIN sources :
            /\ sources' = Without(id) /\ gone' = gone \cup {id}
            /\ UNCHANGED <<lastId, stage, form, todo, warned, edits, sends, made, kept>>
    BY DEF DeletedElsewhere
  <1>2. /\ DOMAIN sources' = DOMAIN sources \ {id}
        /\ \A x \in DOMAIN sources' : sources'[x] = sources[x]
        /\ sources' = [x \in DOMAIN sources' |-> sources'[x]]
    BY <1>1 DEF Without
  <1>3. CoreOK'
    BY <1>1, <1>2 DEF SourcesInv, CoreOK
  <1>4. FormOK' /\ MadeOK' /\ FlowOK'
    BY <1>1 DEF SourcesInv, FormOK, MadeOK, FlowOK
  <1>5. \A j \in DOMAIN form : AsShown(form[j]) => AsShown(form[j])'
    BY <1>1, <1>2 DEF AsShown, Shows, Reference
  <1>6. StoredOK'
    BY <1>1, <1>5 DEF SourcesInv, StoredOK
  <1>7. QED
    BY <1>3, <1>4, <1>6 DEF SourcesInv

\* Every step keeps the invariant.
LEMMA SourcesStep == SourcesInv /\ [Next]_vars => SourcesInv'
  <1> SUFFICES ASSUME SourcesInv, [Next]_vars PROVE SourcesInv'
    OBVIOUS
  <1>1. CASE UNCHANGED vars
    BY <1>1 DEF vars, SourcesInv, CoreOK, FormOK, MadeOK, StoredOK, FlowOK, AsShown, Shows
  <1>2. CASE \E i \in DOMAIN form : \/ ChooseType(i) \/ EnterReference(i) \/ Tick(i) \/ RemoveRow(i)
                                     \/ RowDone(i) \/ RowRefused(i) \/ RowFailed(i)
    BY <1>2, EditsKeep, RowDoneKeeps, RowRefusedKeeps, RowFailedKeeps
  <1>3. QED
    BY <1>1, <1>2, OpenKeeps, SendKeeps, SavedKeeps, DeletedElsewhereKeeps DEF Next

\* It holds always.
LEMMA SourcesAlways == Spec => []SourcesInv
  BY SourcesInit, SourcesStep, PTL DEF Spec
-------------------------------------------------------------------------------
\* Every variable has its type, for any number of sources and rows.
THEOREM SourcesTyped == Spec => []TypeOK
  <1>1. SourcesInv => TypeOK
    BY DEF SourcesInv, CoreOK, FormOK, FlowOK, TypeOK
  <1>2. QED
    BY <1>1, SourcesAlways, PTL

\* Every row still where it was rendered is stored as shown by a save without a
\* message, however often rows failed and the form was sent again; only a refused
\* deletion is passed over in silence.
THEOREM RowsSavedInPlace == Spec => []SavedInPlace
  <1>1. SourcesInv => SavedInPlace
    BY DEF SourcesInv, FormOK, StoredOK, FlowOK, SavedInPlace, SavedQuietly
  <1>2. QED
    BY <1>1, SourcesAlways, PTL

\* A row creates at most one source for each time the form is sent.
THEOREM OneSourcePerSending == Spec => []OnePerSending
  <1>1. SourcesInv => OnePerSending
    BY DEF SourcesInv, MadeOK, OnePerSending
  <1>2. QED
    BY <1>1, SourcesAlways, PTL

\* An RPC for a source comes from the row that shows it; only an emptied row deletes.
THEOREM NoForeignSource == Spec => RowsKeepTheirSource
  <1> DEFINE Kept == stage = "sending" => \A id \in DOMAIN sources :
                (id \notin DOMAIN sources' \/ sources'[id] # sources[id]) =>
                    \/ id \in gone'
                    \/ \E i \in DOMAIN form :
                          /\ form[i].id = id
                          /\ (id \notin DOMAIN sources') <=> Reference(form[i]) = NoRef
  <1>1. SourcesInv /\ [Next]_vars => Kept
    <2> SUFFICES ASSUME SourcesInv, [Next]_vars, stage = "sending", ~UNCHANGED sources PROVE Kept
      OBVIOUS
    <2>1. CASE DeletedElsewhere
      BY <2>1 DEF DeletedElsewhere, Without
    <2>2. CASE \E i \in DOMAIN form : RowDone(i) \/ RowFailed(i)
      <3>1. PICK i \in todo : /\ Carried(Parsed(form, i)) /\ i \in DOMAIN form
                              /\ UNCHANGED <<form, gone, sends>> /\ kept' \in {kept, {}}
        BY <2>2 DEF RowDone, RowFailed, Turn
      <3>2. QED
        BY <3>1, CarriedRow
    <2>3. QED
      BY <2>1, <2>2 DEF Next, vars, Open, Send, Saved, ChooseType, EnterReference, Tick, RemoveRow,
         Edited, RowRefused
  <1>2. QED
    BY <1>1, SourcesAlways, PTL DEF Spec, RowsKeepTheirSource
===============================================================================
