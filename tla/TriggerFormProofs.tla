-------------------------- MODULE TriggerFormProofs --------------------------
(***************************************************************************)
(* Proofs about TriggerForm, for any devices, values and triggers, any     *)
(* number of rows in each block and any changes made in them.              *)
(***************************************************************************)
EXTENDS TriggerForm, FiniteSetTheorems, FunctionTheorems, TLAPS

-------------------------------------------------------------------------------
(* The elements of a list at chosen positions. *)

\* The place of a position among the chosen ones.
Rank(U, i) == Cardinality({j \in U : j <= i})

\* Chosen positions of a list are finitely many.
LEMMA ChosenFinite ==
  ASSUME NEW n \in Nat, NEW U \in SUBSET (1..n)
  PROVE  /\ IsFiniteSet(U) /\ Cardinality(U) \in Nat
         /\ \A i : IsFiniteSet({j \in U : j <= i}) /\ Rank(U, i) \in Nat
                   /\ Rank(U, i) <= Cardinality(U)
  <1>1. IsFiniteSet(1..n)
    BY FS_Interval
  <1>2. IsFiniteSet(U) /\ Cardinality(U) \in Nat
    BY <1>1, FS_Subset, FS_CardinalityType
  <1>3. ASSUME NEW i
        PROVE  IsFiniteSet({j \in U : j <= i}) /\ Rank(U, i) \in Nat /\ Rank(U, i) <= Cardinality(U)
    <2>1. {j \in U : j <= i} \in SUBSET U
      OBVIOUS
    <2>2. IsFiniteSet({j \in U : j <= i}) /\ Cardinality({j \in U : j <= i}) <= Cardinality(U)
      BY <1>2, <2>1, FS_Subset
    <2>3. QED
      BY <2>2, FS_CardinalityType DEF Rank
  <1>4. QED
    BY <1>2, <1>3

\* A later position has a higher place.
LEMMA RankGrows ==
  ASSUME NEW n \in Nat, NEW U \in SUBSET (1..n), NEW i \in U, NEW j \in U, i < j
  PROVE  Rank(U, i) < Rank(U, j)
  <1> DEFINE A == {k \in U : k <= i}
  <1> DEFINE B == {k \in U : k <= j}
  <1>1. i \in Int /\ j \in Int /\ U \subseteq Int
    OBVIOUS
  <1>2. A \in SUBSET B /\ j \in B /\ j \notin A
    <2>1. \A k \in U : k <= i => k <= j
      BY <1>1
    <2>2. j <= j /\ ~(j <= i)
      BY <1>1
    <2>3. QED
      BY <2>1, <2>2
  <1>3. IsFiniteSet(B) /\ Cardinality(A) \in Nat /\ Cardinality(B) \in Nat
    BY ChosenFinite DEF Rank
  <1>4. A # B /\ Cardinality(A) <= Cardinality(B) /\ (Cardinality(B) = Cardinality(A) => B = A)
    <2> HIDE DEF A, B
    <2>1. QED
      BY <1>2, <1>3, FS_Subset
  <1>5. Cardinality(A) < Cardinality(B)
    <2> HIDE DEF A, B
    <2>1. QED
      BY <1>3, <1>4
  <1>6. QED
    BY <1>5 DEF Rank

\* The first place is 1.
LEMMA RankPositive ==
  ASSUME NEW n \in Nat, NEW U \in SUBSET (1..n), NEW i \in U
  PROVE  Rank(U, i) \in 1..Cardinality(U)
  <1> DEFINE A == {k \in U : k <= i}
  <1>1. i \in A
    OBVIOUS
  <1>2. IsFiniteSet(A) /\ Cardinality(A) \in Nat /\ Cardinality(A) <= Cardinality(U)
        /\ Cardinality(U) \in Nat
    BY ChosenFinite DEF Rank
  <1>3. Cardinality(A) # 0
    <2> HIDE DEF A
    <2>1. QED
      BY <1>1, <1>2, FS_EmptySet
  <1>4. QED
    BY <1>2, <1>3 DEF Rank

\* Every place belongs to one of the chosen positions, and to no other.
LEMMA NthRank ==
  ASSUME NEW n \in Nat, NEW U \in SUBSET (1..n)
  PROVE  /\ \A k \in 1..Cardinality(U) : Nth(U, k) \in U /\ Rank(U, Nth(U, k)) = k
         /\ \A i \in U : Nth(U, Rank(U, i)) = i
  <1> DEFINE m == Cardinality(U)
  <1> DEFINE r == [i \in U |-> Rank(U, i)]
  <1>1. IsFiniteSet(U) /\ m \in Nat
    BY ChosenFinite
  <1>2. \A i \in U : Rank(U, i) \in 1..m
    BY RankPositive
  <1>3. \A i, j \in U : Rank(U, i) = Rank(U, j) => i = j
    <2>1. SUFFICES ASSUME NEW i \in U, NEW j \in U, Rank(U, i) = Rank(U, j), i # j
                   PROVE  FALSE
      OBVIOUS
    <2>2. i \in Int /\ j \in Int
      OBVIOUS
    <2>3. CASE i < j
      <3>1. Rank(U, i) < Rank(U, j)
        BY <2>3, RankGrows
      <3>2. QED
        BY <2>1, <3>1, <1>2
    <2>4. CASE j < i
      <3>1. Rank(U, j) < Rank(U, i)
        BY <2>4, RankGrows
      <3>2. QED
        BY <2>1, <3>1, <1>2
    <2>5. QED
      BY <2>1, <2>2, <2>3, <2>4
  <1>4. r \in [U -> 1..m] /\ \A i \in U : r[i] = Rank(U, i)
    BY <1>2
  <1> HIDE DEF r
  <1>5. r \in Injection(U, 1..m)
    BY <1>3, <1>4, Fun_IsInj
  <1>6. IsFiniteSet(1..m) /\ Cardinality(1..m) = m
    BY <1>1, FS_Interval
  <1>7. r \in Surjection(U, 1..m)
    BY <1>5, <1>6, FS_Injection
  <1>8. \A k \in 1..m : \E i \in U : Rank(U, i) = k
    <2>1. \A k \in 1..m : \E i \in U : r[i] = k
      BY <1>7, Fun_SurjectionProperties
    <2>2. QED
      BY <2>1, <1>4
  <1>9. \A k \in 1..m : Nth(U, k) \in U /\ Rank(U, Nth(U, k)) = k
    BY <1>8 DEF Nth, Rank
  <1>10. QED
    BY <1>2, <1>3, <1>9

\* What is kept is a list of the chosen elements, as long as there are positions.
LEMMA KeptType ==
  ASSUME NEW n \in Nat, NEW U \in SUBSET (1..n), NEW s, NEW S, \A i \in U : s[i] \in S
  PROVE  /\ Kept(s, U) \in Seq(S)
         /\ Len(Kept(s, U)) = Cardinality(U)
         /\ DOMAIN Kept(s, U) = 1..Cardinality(U)
         /\ \A k \in 1..Cardinality(U) : Kept(s, U)[k] = s[Nth(U, k)]
  <1>1. Cardinality(U) \in Nat
    BY ChosenFinite
  <1>2. \A k \in 1..Cardinality(U) : s[Nth(U, k)] \in S
    BY NthRank
  <1>3. QED
    BY <1>1, <1>2 DEF Kept

\* The chosen positions up to m have the same places among those as among all.
LEMMA NthUpTo ==
  ASSUME NEW n \in Nat, NEW U \in SUBSET (1..n), NEW m \in 0..n,
         NEW V, V = {i \in U : i <= m}
  PROVE  /\ V \in SUBSET (1..n)
         /\ Cardinality(V) <= Cardinality(U)
         /\ \A k \in 1..Cardinality(V) : Nth(V, k) = Nth(U, k)
  <1>1. V \in SUBSET (1..n) /\ V \in SUBSET U
    OBVIOUS
  <1>2. Cardinality(V) <= Cardinality(U) /\ Cardinality(V) \in Nat /\ Cardinality(U) \in Nat
    BY <1>1, ChosenFinite, FS_Subset
  <1>3. ASSUME NEW i \in V
        PROVE  Rank(V, i) = Rank(U, i)
    <2>1. i \in U /\ i \in Int /\ m \in Int /\ U \subseteq Int /\ i <= m
      BY <1>1
    <2>2. {j \in V : j <= i} = {j \in U : j <= i}
      <3>1. \A j \in U : j <= i => j \in V
        BY <2>1
      <3>2. QED
        BY <3>1, <1>1
    <2>3. QED
      BY <2>2 DEF Rank
  <1>4. ASSUME NEW k \in 1..Cardinality(V)
        PROVE  Nth(V, k) = Nth(U, k)
    <2>1. Nth(V, k) \in V /\ Rank(V, Nth(V, k)) = k
      BY <1>1, NthRank
    <2>2. Rank(U, Nth(V, k)) = k /\ Nth(V, k) \in U
      BY <2>1, <1>3, <1>1
    <2>3. Nth(U, Rank(U, Nth(V, k))) = Nth(V, k)
      BY <2>2, NthRank
    <2>4. QED
      BY <2>2, <2>3
  <1>5. QED
    BY <1>1, <1>2, <1>4

\* When the first m positions are all chosen, they have the places 1 to m.
LEMMA NthFirst ==
  ASSUME NEW n \in Nat, NEW U \in SUBSET (1..n), NEW m \in 0..n, 1..m \subseteq U
  PROVE  /\ m <= Cardinality(U) /\ \A k \in 1..m : Nth(U, k) = k
         /\ U = 1..m => Cardinality(U) = m
  <1>1. Cardinality(U) \in Nat /\ IsFiniteSet(U)
    BY ChosenFinite
  <1>2. Cardinality(1..m) = m
    BY FS_Interval
  <1>3. m <= Cardinality(U)
    BY <1>1, <1>2, FS_Subset
  <1>4. ASSUME NEW k \in 1..m
        PROVE  Nth(U, k) = k
    <2>1. {j \in U : j <= k} = 1..k
      <3>1. \A j \in 1..k : j \in U /\ j <= k
        OBVIOUS
      <3>2. \A j \in U : j <= k => j \in 1..k
        OBVIOUS
      <3>3. QED
        BY <3>1, <3>2
    <2>2. Cardinality(1..k) = k
      BY FS_Interval
    <2>3. Rank(U, k) = k /\ k \in U
      BY <2>1, <2>2 DEF Rank
    <2>4. QED
      BY <2>3, NthRank
  <1>5. QED
    BY <1>2, <1>3, <1>4

\* What is kept of the first m elements is the beginning of what is kept of all.
LEMMA KeptPrefix ==
  ASSUME NEW n \in Nat, NEW U \in SUBSET (1..n), NEW m \in 0..n,
         NEW s, NEW t, \A i \in U : i <= m => t[i] = s[i]
  PROVE  IsPrefix(Kept(t, {i \in U : i <= m}), Kept(s, U))
  <1> DEFINE V == {i \in U : i <= m}
  <1>1. V \in SUBSET (1..n) /\ Cardinality(V) <= Cardinality(U)
        /\ \A k \in 1..Cardinality(V) : Nth(V, k) = Nth(U, k)
    BY NthUpTo
  <1>2. \A i \in V : t[i] = s[i]
    OBVIOUS
  <1> DEFINE a == Kept(t, V)
  <1> DEFINE b == Kept(s, U)
  <1> HIDE DEF V
  <1>3. Cardinality(V) \in Nat /\ Cardinality(U) \in Nat
    BY <1>1, ChosenFinite
  <1>4. Len(a) = Cardinality(V) /\ DOMAIN a = 1..Cardinality(V)
        /\ \A k \in 1..Cardinality(V) : a[k] = t[Nth(V, k)]
    BY <1>3 DEF Kept
  <1>5. Len(b) = Cardinality(U) /\ DOMAIN b = 1..Cardinality(U)
        /\ \A k \in 1..Cardinality(U) : b[k] = s[Nth(U, k)]
    BY <1>3 DEF Kept
  <1>6. \A k \in 1..Cardinality(V) : a[k] = b[k]
    <2>1. \A k \in 1..Cardinality(V) : Nth(V, k) \in V
      BY <1>1, NthRank
    <2>2. \A k \in 1..Cardinality(V) : k \in 1..Cardinality(U)
      BY <1>1, <1>3
    <2>3. QED
      BY <1>1, <1>2, <1>4, <1>5, <2>1, <2>2
  <1> HIDE DEF a, b
  <1>7. SubSeq(a, 1, Len(a)) = [k \in 1..Cardinality(V) |-> a[k]]
        /\ SubSeq(b, 1, Len(a)) = [k \in 1..Cardinality(V) |-> b[k]]
    BY <1>3, <1>4, <1>5
  <1>8. IsPrefix(a, b)
    BY <1>1, <1>4, <1>5, <1>6, <1>7 DEF IsPrefix
  <1>9. QED
    BY <1>8 DEF a, b, V
-------------------------------------------------------------------------------
(* Types. *)

\* Triggers with conditions an engine can use.
TriggerSet == TriggersIn(BOOLEAN)

\* A form: four lists of rows of their blocks.
IsForm(p) ==
    /\ p = [rows |-> [b \in Blocks |-> p.rows[b]], op |-> p.op,
             cooldown |-> p.cooldown, rules |-> p.rules]
    /\ \A b \in Blocks : p.rows[b] \in Seq(RowsIn(b))
    /\ p.cooldown \in CooldownTexts
    /\ p.op \in {"and", "or"} /\ p.rules \in BOOLEAN

\* What one row shows: an input that is there, with a value it can hold.
LEMMA RowShows ==
  ASSUME NEW b \in Blocks, NEW row \in RowsIn(b)
  PROVE  /\ row.kind \in {"state"} \cup OtherKinds(b) /\ row.mode \in {"dropdown", "free"}
         /\ row.device \in Devices \cup {""} /\ row.cmp \in CmpsOf(b)
         /\ Active(row) \in Widgets
         /\ row.value[Active(row)] \in Values \cup {""}
         /\ StateShown(row) \in Devices \cup OtherIds \cup {""}
         /\ row.kind # "state" =>
               row.kind \in OtherKinds(b) /\ row.text[row.kind] \in Texts \cup {""}
  <1>1. row.kind \in {"state"} \cup OtherKinds(b) /\ row.mode \in {"dropdown", "free"}
        /\ row.device \in Offered(b) \cup {""} /\ row.typed \in Devices \cup OtherIds \cup {""}
        /\ row.cmp \in CmpsOf(b) /\ row.value \in [Widgets -> Values \cup {""}]
        /\ row.text \in [OtherKinds(b) -> Texts \cup {""}]
    BY DEF RowsIn
  <1>2. row.device \in Devices \cup {""}
    BY <1>1, DevicesAssumption DEF Offered
  <1>3. Active(row) \in Widgets
    BY <1>2, DevicesAssumption DEF Active, WidgetFor, Widgets
  <1>4. QED
    BY <1>1, <1>2, <1>3 DEF StateShown

\* A comparison that is sent is one of the block's.
LEMMA CmpTyped ==
  ASSUME NEW b \in Blocks, NEW rows \in Seq(RowsIn(b)), NEW i
  PROVE  At(SentCmps(rows), i, "value") \in CmpsOf(b)
  <1> DEFINE U == {j \in DOMAIN rows : SendsCmp(rows[j])}
  <1>1. Len(rows) \in Nat /\ DOMAIN rows = 1..Len(rows)
    OBVIOUS
  <1>2. U \in SUBSET (1..Len(rows)) /\ \A j \in U : rows[j] \in RowsIn(b)
    BY <1>1
  <1> HIDE DEF U
  <1>3. Kept(rows, U) \in Seq(RowsIn(b))
    BY <1>1, <1>2, KeptType
  <1>4. \A k \in DOMAIN Kept(rows, U) : Kept(rows, U)[k].cmp \in CmpsOf(b)
    <2>1. \A k \in DOMAIN Kept(rows, U) : Kept(rows, U)[k] \in RowsIn(b)
      BY <1>3
    <2>2. QED
      BY <2>1, RowShows
  <1>5. "value" \in CmpsOf(b)
    BY DEF CmpsOf, CmpKeys
  <1>6. SentCmps(rows) = [k \in DOMAIN Kept(rows, U) |-> Kept(rows, U)[k].cmp]
    BY DEF SentCmps, U
  <1>7. QED
    BY <1>4, <1>5, <1>6 DEF At

\* A value that is sent is one of the engine's, or nothing.
LEMMA ValueTyped ==
  ASSUME NEW b \in Blocks, NEW rows \in Seq(RowsIn(b)), NEW i
  PROVE  At(SentValues(rows), i, "") \in Values \cup {""}
  <1> DEFINE U == {j \in DOMAIN rows : SendsValue(rows[j])}
  <1>1. Len(rows) \in Nat /\ DOMAIN rows = 1..Len(rows)
    OBVIOUS
  <1>2. U \in SUBSET (1..Len(rows)) /\ \A j \in U : rows[j] \in RowsIn(b)
    BY <1>1
  <1> HIDE DEF U
  <1> DEFINE kept == Kept(rows, U)
  <1>3. kept \in Seq(RowsIn(b))
    BY <1>1, <1>2, KeptType
  <1>4. SentValues(rows) = [k \in DOMAIN kept |-> kept[k].value[Active(kept[k])]]
    BY DEF SentValues, U
  <1> HIDE DEF kept
  <1>5. \A k \in DOMAIN kept : kept[k].value[Active(kept[k])] \in Values \cup {""}
    <2>1. \A k \in DOMAIN kept : kept[k] \in RowsIn(b)
      BY <1>3
    <2>2. QED
      BY <2>1, RowShows
  <1>6. QED
    BY <1>4, <1>5 DEF At

\* A row put together from the lists is a condition of its block, or unused.
LEMMA ParsedTyped ==
  ASSUME NEW b \in Blocks, NEW rows \in Seq(RowsIn(b)), NEW i \in DOMAIN rows
  PROVE  Used(Parsed(rows, i)) => Parsed(rows, i) \in CondsOf(b)
  <1>1. rows[i] \in RowsIn(b)
    OBVIOUS
  <1>2. CASE rows[i].kind = "state"
    <2>1. PICK id, sent, v : /\ id = StateShown(rows[i])
                             /\ sent = At(SentCmps(rows), i, "value")
                             /\ v = At(SentValues(rows), i, "")
      OBVIOUS
    <2>2. Parsed(rows, i) = Condition(id, sent, v)
      BY <1>2, <2>1 DEF Parsed, At, SentStates
    <2>3. id \in Devices \cup OtherIds \cup {""}
      BY <1>1, <2>1, RowShows
    <2>4. sent \in CmpsOf(b) /\ v \in Values \cup {""}
      BY <2>1, CmpTyped, ValueTyped
    <2>5. OrTrue(v) \in Values
      BY <2>4 DEF OrTrue, Values, Bools
    <2>6. id # "" => Condition(id, sent, v) \in CondsOf(b)
      BY <2>3, <2>4, <2>5 DEF Condition, CondsOf
    <2>7. Used(Condition(id, sent, v)) => id # ""
      BY DEF Used, Condition
    <2>8. QED
      BY <2>2, <2>6, <2>7
  <1>3. CASE rows[i].kind # "state"
    <2>1. PICK k, t : k = rows[i].kind /\ t = rows[i].text[rows[i].kind]
      OBVIOUS
    <2>2. Parsed(rows, i) = Plain(k, t)
      BY <1>3, <2>1 DEF Parsed
    <2>3. k \in OtherKinds(b) /\ t \in Texts \cup {""}
      BY <1>1, <1>3, <2>1, RowShows
    <2>4. t # "" => Plain(k, t) \in CondsOf(b)
      BY <2>3 DEF Plain, CondsOf
    <2>5. Used(Plain(k, t)) => t # ""
      BY DEF Used, Plain
    <2>6. QED
      BY <2>2, <2>4, <2>5
  <1>4. QED
    BY <1>2, <1>3

\* What is parsed for a block is a list of its conditions.
LEMMA ParseTyped ==
  ASSUME NEW b \in Blocks, NEW rows \in Seq(RowsIn(b))
  PROVE  Parse(rows) \in Seq(CondsOf(b))
  <1> DEFINE U == {i \in DOMAIN rows : Used(Parsed(rows, i))}
  <1> DEFINE s == [i \in DOMAIN rows |-> Parsed(rows, i)]
  <1>1. Len(rows) \in Nat /\ DOMAIN rows = 1..Len(rows)
    OBVIOUS
  <1>2. U \in SUBSET (1..Len(rows)) /\ \A i \in U : s[i] \in CondsOf(b)
    BY <1>1, ParsedTyped
  <1>3. Parse(rows) = Kept(s, U)
    BY DEF Parse
  <1> HIDE DEF U, s
  <1>4. QED
    BY <1>1, <1>2, <1>3, KeptType

\* A value that an input takes is one it can hold.
LEMMA TakenTyped ==
  ASSUME NEW w \in Widgets, NEW d, w = "enum" => d \in Devices, NEW v
  PROVE  /\ Taken(w, d, v) \in Values \cup {""}
         /\ w = "number" => Taken(w, d, v) \in Numbers \cup {""}
         /\ w = "bool" => Taken(w, d, v) \in Bools \cup {""}
  <1>1. CASE w = "text"
    BY <1>1 DEF Taken, Fitting
  <1>2. CASE w = "number"
    BY <1>2 DEF Taken, Fitting, Values
  <1>3. CASE w = "bool"
    BY <1>3 DEF Taken, Fitting, Values
  <1>4. CASE w = "enum"
    <2>1. ToSet(EnumOf[d]) \subseteq Values
      <3>1. EnumOf[d] \in Seq(Values)
        BY <1>4, DevicesAssumption
      <3>2. \A i \in DOMAIN EnumOf[d] : EnumOf[d][i] \in Values
        BY <3>1
      <3>3. QED
        BY <3>2 DEF ToSet
    <2>2. Fitting(w, d) = ToSet(EnumOf[d])
      BY <1>4 DEF Fitting
    <2>3. QED
      BY <1>4, <2>1, <2>2 DEF Taken
  <1>5. QED
    BY <1>1, <1>2, <1>3, <1>4 DEF Widgets

\* The first option of a list is one of its values, or nothing.
LEMMA FirstOptionTyped ==
  ASSUME NEW d \in Devices
  PROVE  FirstOption(d) \in Values \cup {""}
  <1>1. EnumOf[d] \in Seq(Values)
    BY DevicesAssumption
  <1>2. EnumOf[d] # <<>> => Head(EnumOf[d]) \in Values
    BY <1>1
  <1>3. QED
    BY <1>2 DEF FirstOption

\* Another device or mode of a row leaves every input something it can hold.
LEMMA SwitchTyped ==
  ASSUME NEW b \in Blocks, NEW row \in RowsIn(b), NEW new \in RowsIn(b), new.value = row.value
  PROVE  Switch(row, new) \in RowsIn(b)
  <1> DEFINE w == Active(new)
  <1> DEFINE filled == IF w = "enum"
                       THEN [row.value EXCEPT !["enum"] = FirstOption(new.device)] ELSE row.value
  <1> DEFINE prev == filled[Active(row)]
  <1> DEFINE taken == Taken(w, new.device, prev)
  <1> DEFINE value == IF prev = "" THEN filled ELSE [filled EXCEPT ![w] = taken]
  <1>1. Switch(row, new) = [new EXCEPT !.value = value]
    BY DEF Switch
  <1>2. w \in Widgets /\ new.device \in Devices \cup {""}
    BY RowShows
  <1>3. w = "enum" => new.device \in Devices
    BY <1>2 DEF Active, WidgetFor
  <1>4. /\ row.value \in [Widgets -> Values \cup {""}]
        /\ row.value["number"] \in Numbers \cup {""} /\ row.value["bool"] \in Bools \cup {""}
    BY DEF RowsIn
  <1>5. w = "enum" => FirstOption(new.device) \in Values \cup {""}
    BY <1>3, FirstOptionTyped
  <1>6. /\ filled \in [Widgets -> Values \cup {""}]
        /\ filled["number"] \in Numbers \cup {""} /\ filled["bool"] \in Bools \cup {""}
    <2> HIDE DEF w
    <2>1. QED
      BY <1>4, <1>5 DEF Widgets
  <1>7. /\ taken \in Values \cup {""}
        /\ w = "number" => taken \in Numbers \cup {""}
        /\ w = "bool" => taken \in Bools \cup {""}
    <2> HIDE DEF w, prev
    <2>1. QED
      BY <1>2, <1>3, TakenTyped
  <1> HIDE DEF w, filled, prev, taken
  <1>8. /\ value \in [Widgets -> Values \cup {""}]
        /\ value["number"] \in Numbers \cup {""} /\ value["bool"] \in Bools \cup {""}
    <2>1. CASE prev = ""
      BY <1>6, <2>1
    <2>2. CASE prev # ""
      <3>1. value = [filled EXCEPT ![w] = taken]
        BY <2>2
      <3> HIDE DEF value
      <3>2. value \in [Widgets -> Values \cup {""}]
        BY <1>2, <1>6, <1>7, <3>1
      <3>3. \A x \in Widgets : value[x] = IF x = w THEN taken ELSE filled[x]
        BY <1>6, <3>1
      <3>4. "number" \in Widgets /\ "bool" \in Widgets
        BY DEF Widgets
      <3>5. QED
        BY <1>6, <1>7, <3>2, <3>3, <3>4
    <2>3. QED
      BY <2>1, <2>2
  <1> HIDE DEF value
  <1>9. [new EXCEPT !.value = value] \in RowsIn(b)
    BY <1>8 DEF RowsIn
  <1>10. QED
    BY <1>1, <1>9

\* A rendered row is one of its block.
LEMMA RowTyped ==
  ASSUME NEW b \in Blocks, NEW kind \in {"state"} \cup OtherKinds(b),
         NEW id \in Devices \cup OtherIds \cup {""}, NEW cmp \in CmpsOf(b),
         NEW v \in Values \cup {""}, NEW text \in Texts \cup {""}
  PROVE  Row(b, kind, id, cmp, v, text) \in RowsIn(b)
  <1> DEFINE In(w) ==
        CASE w = "text" -> v [] w = "number" -> IF v \in Numbers THEN v ELSE ""
          [] w = "bool" -> IF v = "false" THEN v ELSE "true" [] w = "enum" -> ""
  <1> DEFINE texts == [k \in OtherKinds(b) |-> IF k = kind THEN text ELSE ""]
  <1>1. /\ In("text") = v /\ In("number") = (IF v \in Numbers THEN v ELSE "")
        /\ In("bool") = (IF v = "false" THEN v ELSE "true") /\ In("enum") = ""
    OBVIOUS
  <1>2. Row(b, kind, id, cmp, v, text) =
          [kind |-> kind, mode |-> "dropdown", device |-> "", typed |-> id, cmp |-> cmp,
           value |-> [w \in Widgets |-> In(w)], text |-> texts]
    BY DEF Row
  <1>3. texts \in [OtherKinds(b) -> Texts \cup {""}]
    OBVIOUS
  <1> HIDE DEF In, texts
  <1>4. \A w \in Widgets : In(w) \in Values \cup {""}
    BY <1>1 DEF Widgets, Values, Bools
  <1>5. In("number") \in Numbers \cup {""} /\ In("bool") \in Bools \cup {""}
    BY <1>1 DEF Bools
  <1>6. PICK value : value = [w \in Widgets |-> In(w)]
    OBVIOUS
  <1>7. /\ value \in [Widgets -> Values \cup {""}]
        /\ value["number"] \in Numbers \cup {""} /\ value["bool"] \in Bools \cup {""}
    BY <1>4, <1>5, <1>6 DEF Widgets
  <1>8. PICK row : row = [kind |-> kind, mode |-> "dropdown", device |-> "", typed |-> id,
                          cmp |-> cmp, value |-> value, text |-> texts]
    OBVIOUS
  <1>9. row \in RowsIn(b)
    BY <1>3, <1>7, <1>8 DEF RowsIn
  <1>10. QED
    BY <1>2, <1>6, <1>8, <1>9

\* So it is when the page has been loaded.
LEMMA LoadedTyped ==
  ASSUME NEW b \in Blocks, NEW row \in RowsIn(b)
  PROVE  Loaded(b, row) \in RowsIn(b)
  <1>1. CASE row.typed = ""
    BY <1>1 DEF Loaded
  <1>2. CASE row.typed # "" /\ row.typed \in Offered(b)
    <2>1. PICK new : new = [row EXCEPT !.device = row.typed]
      OBVIOUS
    <2>2. new \in RowsIn(b) /\ new.value = row.value
      BY <1>2, <2>1 DEF RowsIn
    <2>3. QED
      BY <1>2, <2>1, <2>2, SwitchTyped DEF Loaded
  <1>3. CASE row.typed # "" /\ row.typed \notin Offered(b)
    <2>1. PICK new : new = [row EXCEPT !.mode = "free"]
      OBVIOUS
    <2>2. new \in RowsIn(b) /\ new.value = row.value
      BY <1>3, <2>1 DEF RowsIn
    <2>3. QED
      BY <1>3, <2>1, <2>2, SwitchTyped DEF Loaded
  <1>4. QED
    BY <1>1, <1>2, <1>3

\* A stored condition is shown by a row of its block.
LEMMA ToRowTyped ==
  ASSUME NEW b \in Blocks, NEW c \in CondsOf(b)
  PROVE  ToRow(b, c) \in RowsIn(b)
  <1>1. CASE c.kind = "state"
    <2>1. c.what \in Devices \cup OtherIds /\ c.cmp \in CmpsOf(b) /\ c.value \in Values
      BY <1>1 DEF CondsOf, OtherKinds
    <2>2. Row(b, "state", c.what, c.cmp, c.value, "") \in RowsIn(b)
      BY <2>1, RowTyped
    <2>3. QED
      BY <1>1, <2>2, LoadedTyped DEF ToRow
  <1>2. CASE c.kind # "state"
    <2>1. c.kind \in OtherKinds(b) /\ c.what \in Texts
      BY <1>2 DEF CondsOf
    <2>2. PICK t : t = IF c.kind = "presence" /\ c.what \notin Residents THEN "" ELSE c.what
      OBVIOUS
    <2>3. t \in Texts \cup {""} /\ "value" \in CmpsOf(b)
      BY <2>1, <2>2 DEF CmpsOf, CmpKeys
    <2>4. Row(b, c.kind, "", "value", "", t) \in RowsIn(b)
      BY <2>1, <2>3, RowTyped
    <2>5. QED
      BY <1>2, <2>2, <2>4 DEF ToRow
  <1>3. QED
    BY <1>1, <1>2

\* A block shows a row for each condition, and blank ones.
LEMMA RowsOfTyped ==
  ASSUME NEW b \in Blocks, NEW conds \in Seq(CondsOf(b))
  PROVE  /\ RowsOf(b, conds) \in Seq(RowsIn(b))
         /\ Len(RowsOf(b, conds)) = Len(conds) + NewRows[b]
  <1>1. Len(conds) \in Nat /\ NewRows[b] \in Nat
    BY RowsAssumption
  <1>2. BlankRow(b) \in RowsIn(b)
    <2>1. (IF b = "then" THEN "say" ELSE "state") \in {"state"} \cup OtherKinds(b)
      BY DEF OtherKinds
    <2>2. "value" \in CmpsOf(b)
      BY DEF CmpsOf, CmpKeys
    <2>3. QED
      BY <2>1, <2>2, RowTyped DEF BlankRow
  <1>3. \A i \in 1..Len(conds) : ToRow(b, conds[i]) \in RowsIn(b)
    BY ToRowTyped
  <1>4. QED
    BY <1>1, <1>2, <1>3 DEF RowsOf

\* The first condition that has some also or unless is one of the list.
LEMMA FirstOf ==
  ASSUME NEW n \in Nat, NEW U \in SUBSET (1..n), U # {}
  PROVE  Min(U) \in U /\ \A i \in U : Min(U) <= i
  <1>1. \E i \in U : \A j \in U : i <= j
    <2>1. PICK k : k \in U
      OBVIOUS
    <2>2. Cardinality(U) \in Nat /\ Rank(U, k) \in 1..Cardinality(U)
      BY <2>1, ChosenFinite, RankPositive
    <2>3. 1 \in 1..Cardinality(U)
      BY <2>2
    <2>4. Nth(U, 1) \in U /\ Rank(U, Nth(U, 1)) = 1
      BY <2>3, NthRank
    <2>5. ASSUME NEW j \in U
          PROVE  Nth(U, 1) <= j
      <3>1. j \in Int /\ Nth(U, 1) \in Int
        <4>1. \A i \in U : i \in Int
          OBVIOUS
        <4>2. QED
          BY <2>4, <4>1
      <3>2. j < Nth(U, 1) => Rank(U, j) < Rank(U, Nth(U, 1))
        BY <2>4, RankGrows
      <3>3. Rank(U, j) \in 1..Cardinality(U)
        BY RankPositive
      <3>4. QED
        BY <2>2, <2>4, <3>1, <3>2, <3>3
    <2>6. QED
      BY <2>4, <2>5
  <1>2. QED
    BY <1>1 DEF Min

\* What is read back for all conditions is what some condition has.
LEMMA AlsoUnlessRead ==
  ASSUME NEW when \in Seq(Whens)
  PROVE  /\ \/ AlsoOf(when) = [conds |-> <<>>, op |-> "and"]
               /\ \A i \in DOMAIN when : when[i].also = <<>>
            \/ \E i \in DOMAIN when :
                  AlsoOf(when) = [conds |-> when[i].also, op |-> when[i].op]
         /\ \/ UnlessOf(when) = <<>> /\ \A i \in DOMAIN when : when[i].unless = <<>>
            \/ \E i \in DOMAIN when : UnlessOf(when) = when[i].unless
  <1> DEFINE A == {i \in DOMAIN when : when[i].also # <<>>}
  <1> DEFINE B == {i \in DOMAIN when : when[i].unless # <<>>}
  <1>1. Len(when) \in Nat /\ DOMAIN when = 1..Len(when)
    OBVIOUS
  <1>2. A \in SUBSET (1..Len(when)) /\ B \in SUBSET (1..Len(when))
    BY <1>1
  <1>3. AlsoOf(when) = IF A = {} THEN [conds |-> <<>>, op |-> "and"]
                       ELSE [conds |-> when[Min(A)].also, op |-> when[Min(A)].op]
    BY DEF AlsoOf
  <1>4. UnlessOf(when) = IF B = {} THEN <<>> ELSE when[Min(B)].unless
    BY DEF UnlessOf
  <1>5. A = {} => \A i \in DOMAIN when : when[i].also = <<>>
    OBVIOUS
  <1>6. B = {} => \A i \in DOMAIN when : when[i].unless = <<>>
    OBVIOUS
  <1> HIDE DEF A, B
  <1>7. A # {} => Min(A) \in DOMAIN when
    BY <1>1, <1>2, FirstOf
  <1>8. B # {} => Min(B) \in DOMAIN when
    BY <1>1, <1>2, FirstOf
  <1>9. QED
    BY <1>3, <1>4, <1>5, <1>6, <1>7, <1>8

\* What a condition carries.
LEMMA WhenParts ==
  ASSUME NEW when \in Seq(Whens), NEW i \in DOMAIN when
  PROVE  /\ when[i].cond \in CondsOf("when") /\ when[i].also \in Seq(CondsOf("also"))
         /\ when[i].unless \in Seq(CondsOf("unless")) /\ when[i].op \in {"and", "or"}
         /\ when[i].also = <<>> => when[i].op = "and"
         /\ when[i] = [cond |-> when[i].cond, also |-> when[i].also, op |-> when[i].op,
                       unless |-> when[i].unless]
  <1>1. when[i] \in Whens
    OBVIOUS
  <1>2. QED
    BY <1>1 DEF Whens

\* The conditions of a trigger without what they carry, and what is read back for all.
LEMMA RenderedParts ==
  ASSUME NEW when \in Seq(Whens)
  PROVE  /\ [i \in DOMAIN when |-> when[i].cond] \in Seq(CondsOf("when"))
         /\ AlsoOf(when).conds \in Seq(CondsOf("also")) /\ AlsoOf(when).op \in {"and", "or"}
         /\ UnlessOf(when) \in Seq(CondsOf("unless"))
  <1>1. [i \in DOMAIN when |-> when[i].cond] \in Seq(CondsOf("when"))
    <2>1. Len(when) \in Nat /\ DOMAIN when = 1..Len(when)
      OBVIOUS
    <2>2. \A i \in 1..Len(when) : when[i].cond \in CondsOf("when")
      BY <2>1, WhenParts
    <2>3. QED
      BY <2>1, <2>2
  <1>2. AlsoOf(when).conds \in Seq(CondsOf("also")) /\ AlsoOf(when).op \in {"and", "or"}
    <2>1. CASE AlsoOf(when) = [conds |-> <<>>, op |-> "and"]
      BY <2>1
    <2>2. CASE \E i \in DOMAIN when : AlsoOf(when) = [conds |-> when[i].also, op |-> when[i].op]
      BY <2>2, WhenParts
    <2>3. QED
      BY <2>1, <2>2, AlsoUnlessRead
  <1>3. UnlessOf(when) \in Seq(CondsOf("unless"))
    <2>1. CASE UnlessOf(when) = <<>>
      BY <2>1
    <2>2. CASE \E i \in DOMAIN when : UnlessOf(when) = when[i].unless
      BY <2>2, WhenParts
    <2>3. QED
      BY <2>1, <2>2, AlsoUnlessRead
  <1>4. QED
    BY <1>1, <1>2, <1>3

\* The page renders every trigger as a form.
LEMMA RenderedTyped ==
  ASSUME NEW t, t.when \in Seq(Whens), t.then \in Seq(CondsOf("then")), t.cooldown \in Cooldowns
  PROVE  IsForm(Rendered(t))
  <1> DEFINE conds == [i \in DOMAIN t.when |-> t.when[i].cond]
  <1> DEFINE R(b) ==
        CASE b = "when" -> RowsOf(b, conds)
          [] b = "also" -> RowsOf(b, AlsoOf(t.when).conds)
          [] b = "unless" -> RowsOf(b, UnlessOf(t.when))
          [] b = "then" -> RowsOf(b, t.then)
  <1>1. Rendered(t) = [rows |-> [b \in Blocks |-> R(b)], op |-> AlsoOf(t.when).op,
                       cooldown |-> t.cooldown, rules |-> TRUE]
    BY DEF Rendered
  <1>2. /\ R("when") = RowsOf("when", conds) /\ R("also") = RowsOf("also", AlsoOf(t.when).conds)
        /\ R("unless") = RowsOf("unless", UnlessOf(t.when)) /\ R("then") = RowsOf("then", t.then)
    <2> HIDE DEF conds
    <2>1. QED
      OBVIOUS
  <1>3. conds \in Seq(CondsOf("when"))
        /\ AlsoOf(t.when).conds \in Seq(CondsOf("also")) /\ AlsoOf(t.when).op \in {"and", "or"}
        /\ UnlessOf(t.when) \in Seq(CondsOf("unless"))
    BY RenderedParts
  <1> HIDE DEF R, conds
  <1>4. \A b \in Blocks : R(b) \in Seq(RowsIn(b))
    BY <1>2, <1>3, RowsOfTyped DEF Blocks
  <1>5. PICK rows, op : rows = [b \in Blocks |-> R(b)] /\ op = AlsoOf(t.when).op
    OBVIOUS
  <1>6. rows = [b \in Blocks |-> rows[b]] /\ \A b \in Blocks : rows[b] \in Seq(RowsIn(b))
    BY <1>4, <1>5
  <1>7. PICK p : p = [rows |-> rows, op |-> op, cooldown |-> t.cooldown, rules |-> TRUE]
    OBVIOUS
  <1>8. t.cooldown \in CooldownTexts
    BY DEF CooldownTexts
  <1>9. IsForm(p)
    BY <1>3, <1>5, <1>6, <1>7, <1>8 DEF IsForm
  <1>10. QED
    BY <1>1, <1>5, <1>7, <1>9

\* What is sent is a trigger.
LEMMA SentTyped ==
  ASSUME NEW p, IsForm(p)
  PROVE  Sent(p) \in TriggerSet
  <1>1. /\ Parse(p.rows["when"]) \in Seq(CondsOf("when"))
        /\ Parse(p.rows["also"]) \in Seq(CondsOf("also"))
        /\ Parse(p.rows["unless"]) \in Seq(CondsOf("unless"))
        /\ Parse(p.rows["then"]) \in Seq(CondsOf("then"))
    BY ParseTyped DEF IsForm, Blocks
  <1>2. PICK conds, also, op, unless :
            /\ conds = Parse(p.rows["when"]) /\ also = Parse(p.rows["also"])
            /\ op = p.op /\ unless = Parse(p.rows["unless"])
    OBVIOUS
  <1>3. op \in {"and", "or"}
    BY <1>2 DEF IsForm
  <1>4. ASSUME NEW c \in CondsOf("when")
        PROVE  [cond |-> c, also |-> also, op |-> IF also = <<>> THEN "and" ELSE op,
                unless |-> unless] \in Whens
    BY <1>1, <1>2, <1>3 DEF Whens
  <1>5. Attached(conds, also, op, unless) \in Seq(Whens)
    <2>1. conds \in Seq(CondsOf("when"))
      BY <1>1, <1>2
    <2>2. Len(conds) \in Nat /\ DOMAIN conds = 1..Len(conds)
          /\ \A i \in DOMAIN conds : conds[i] \in CondsOf("when")
      BY <2>1
    <2>3. QED
      BY <1>4, <2>2 DEF Attached
  <1>6. QED
    <2>1. PICK c \in Cooldowns : c = IF p.cooldown = "" THEN DefaultCooldown ELSE p.cooldown
      BY CooldownsAssumption DEF IsForm, CooldownTexts
    <2>2. PICK when, then : when = Attached(conds, also, op, unless) /\ then = Parse(p.rows["then"])
      OBVIOUS
    <2>3. Sent(p) = [there |-> TRUE, then |-> then, when |-> when, cooldown |-> c, unshown |-> {}]
      BY <1>2, <2>1, <2>2 DEF Sent
    <2>4. when \in Seq(Whens) /\ then \in Seq(CondsOf("then"))
      BY <1>1, <1>5, <2>2
    <2>5. QED
      BY <2>3, <2>4 DEF TriggerSet, TriggersIn
-------------------------------------------------------------------------------
(* Changes in the form. *)

\* A form with another row in the place of one.
LEMMA FormWithRow ==
  ASSUME NEW p, IsForm(p), NEW b \in Blocks, NEW i \in DOMAIN p.rows[b], NEW row \in RowsIn(b)
  PROVE  IsForm([p EXCEPT !.rows[b][i] = row])
  <1>1. PICK rows, op, cd, rules :
            rows = p.rows /\ op = p.op /\ cd = p.cooldown /\ rules = p.rules
    OBVIOUS
  <1>2. p = [rows |-> rows, op |-> op, cooldown |-> cd, rules |-> rules]
        /\ rows = [c \in Blocks |-> rows[c]]
        /\ (\A c \in Blocks : rows[c] \in Seq(RowsIn(c)))
        /\ cd \in CooldownTexts /\ op \in {"and", "or"} /\ rules \in BOOLEAN
    BY <1>1 DEF IsForm
  <1>3. PICK list : list = [rows[b] EXCEPT ![i] = row]
    OBVIOUS
  <1>4. list \in Seq(RowsIn(b))
    <2>1. rows[b] \in Seq(RowsIn(b)) /\ i \in DOMAIN rows[b]
      BY <1>1, <1>2
    <2>2. QED
      BY <1>3, <2>1
  <1>5. PICK more : more = [rows EXCEPT ![b] = list]
    OBVIOUS
  <1>6. more = [c \in Blocks |-> more[c]] /\ \A c \in Blocks : more[c] \in Seq(RowsIn(c))
    BY <1>2, <1>4, <1>5
  <1>7. [p EXCEPT !.rows[b][i] = row] = [rows |-> more, op |-> op, cooldown |-> cd, rules |-> rules]
    <2>1. [p EXCEPT !.rows[b][i] = row] = [p EXCEPT !.rows = more]
      BY <1>1, <1>3, <1>5
    <2>2. [p EXCEPT !.rows = more] = [rows |-> more, op |-> op, cooldown |-> cd, rules |-> rules]
      BY <1>2
    <2>3. QED
      BY <2>1, <2>2
  <1>8. PICK q : q = [rows |-> more, op |-> op, cooldown |-> cd, rules |-> rules]
    OBVIOUS
  <1>9. IsForm(q)
    BY <1>2, <1>6, <1>8 DEF IsForm
  <1>10. QED
    BY <1>7, <1>8, <1>9

\* A form without one of its rows.
LEMMA FormWithout ==
  ASSUME NEW p, IsForm(p), NEW b \in Blocks, NEW i \in DOMAIN p.rows[b]
  PROVE  IsForm([p EXCEPT !.rows[b] = RemoveAt(@, i)])
  <1>1. PICK rows, op, cd, rules :
            rows = p.rows /\ op = p.op /\ cd = p.cooldown /\ rules = p.rules
    OBVIOUS
  <1>2. p = [rows |-> rows, op |-> op, cooldown |-> cd, rules |-> rules]
        /\ rows = [c \in Blocks |-> rows[c]]
        /\ (\A c \in Blocks : rows[c] \in Seq(RowsIn(c)))
        /\ cd \in CooldownTexts /\ op \in {"and", "or"} /\ rules \in BOOLEAN
    BY <1>1 DEF IsForm
  <1>3. PICK list : list = RemoveAt(rows[b], i)
    OBVIOUS
  <1>4. list \in Seq(RowsIn(b))
    <2>1. rows[b] \in Seq(RowsIn(b)) /\ i \in 1..Len(rows[b]) /\ Len(rows[b]) \in Nat
      BY <1>1, <1>2
    <2>2. SubSeq(rows[b], 1, i - 1) \in Seq(RowsIn(b))
          /\ SubSeq(rows[b], i + 1, Len(rows[b])) \in Seq(RowsIn(b))
      BY <2>1
    <2>3. QED
      BY <1>3, <2>2 DEF RemoveAt
  <1>5. PICK more : more = [rows EXCEPT ![b] = list]
    OBVIOUS
  <1>6. more = [c \in Blocks |-> more[c]] /\ \A c \in Blocks : more[c] \in Seq(RowsIn(c))
    BY <1>2, <1>4, <1>5
  <1>7. [p EXCEPT !.rows[b] = RemoveAt(@, i)]
          = [rows |-> more, op |-> op, cooldown |-> cd, rules |-> rules]
    <2>1. [p EXCEPT !.rows[b] = RemoveAt(@, i)] = [p EXCEPT !.rows = more]
      BY <1>1, <1>3, <1>5
    <2>2. [p EXCEPT !.rows = more] = [rows |-> more, op |-> op, cooldown |-> cd, rules |-> rules]
      BY <1>2
    <2>3. QED
      BY <2>1, <2>2
  <1>8. PICK q : q = [rows |-> more, op |-> op, cooldown |-> cd, rules |-> rules]
    OBVIOUS
  <1>9. IsForm(q)
    BY <1>2, <1>6, <1>8 DEF IsForm
  <1>10. QED
    BY <1>7, <1>8, <1>9

\* Whatever is chosen or entered in a row leaves it one of its block.
LEMMA RowChanged ==
  ASSUME IsForm(page), NEW b \in Blocks, NEW i \in DOMAIN page.rows[b],
         \/ ChooseType(b, i) \/ EnterText(b, i) \/ ChooseDevice(b, i) \/ Toggle(b, i)
         \/ EnterState(b, i) \/ ChooseCmp(b, i) \/ EnterValue(b, i)
  PROVE  \E row \in RowsIn(b) : Put(b, i, row)
  <1>1. PICK row : row = page.rows[b][i]
    OBVIOUS
  <1>2. row \in RowsIn(b)
    BY <1>1 DEF IsForm
  <1>3. row.kind \in {"state"} \cup OtherKinds(b) /\ row.mode \in {"dropdown", "free"}
        /\ row.device \in Offered(b) \cup {""} /\ row.typed \in Devices \cup OtherIds \cup {""}
        /\ row.cmp \in CmpsOf(b) /\ row.value \in [Widgets -> Values \cup {""}]
        /\ row.value["number"] \in Numbers \cup {""} /\ row.value["bool"] \in Bools \cup {""}
        /\ row.text \in [OtherKinds(b) -> Texts \cup {""}]
    BY <1>2 DEF RowsIn
  <1>4. CASE ChooseType(b, i)
    <2>1. PICK k \in {"state"} \cup OtherKinds(b) : Put(b, i, [row EXCEPT !.kind = k])
      BY <1>1, <1>4 DEF ChooseType
    <2>2. [row EXCEPT !.kind = k] \in RowsIn(b)
      BY <1>2 DEF RowsIn
    <2>3. QED
      BY <2>1, <2>2
  <1>5. CASE EnterText(b, i)
    <2>1. PICK t \in Texts \cup {""} :
              row.kind # "state" /\ Put(b, i, [row EXCEPT !.text[row.kind] = t])
      BY <1>1, <1>5, DevicesAssumption DEF EnterText
    <2>2. PICK text : text = [row.text EXCEPT ![row.kind] = t]
      OBVIOUS
    <2>3. text \in [OtherKinds(b) -> Texts \cup {""}]
      BY <1>3, <2>1, <2>2
    <2>4. [row EXCEPT !.text = text] \in RowsIn(b)
      BY <1>2, <2>3 DEF RowsIn
    <2>5. [row EXCEPT !.text[row.kind] = t] = [row EXCEPT !.text = text]
      BY <1>2, <2>2 DEF RowsIn
    <2>6. QED
      BY <2>1, <2>4, <2>5
  <1>6. CASE ChooseDevice(b, i)
    <2>1. PICK d \in Offered(b) \cup {""} : Put(b, i, Switch(row, [row EXCEPT !.device = d]))
      BY <1>1, <1>6 DEF ChooseDevice
    <2>2. PICK new : new = [row EXCEPT !.device = d]
      OBVIOUS
    <2>3. new \in RowsIn(b) /\ new.value = row.value
      BY <1>2, <2>2 DEF RowsIn
    <2>4. QED
      BY <1>2, <2>1, <2>2, <2>3, SwitchTyped
  <1>7. CASE Toggle(b, i)
    <2>1. PICK new : new = [row EXCEPT !.mode = IF @ = "free" THEN "dropdown" ELSE "free"]
      OBVIOUS
    <2>2. Put(b, i, Switch(row, new))
      BY <1>1, <1>7, <2>1 DEF Toggle
    <2>3. new \in RowsIn(b) /\ new.value = row.value
      BY <1>2, <2>1 DEF RowsIn
    <2>4. QED
      BY <1>2, <2>2, <2>3, SwitchTyped
  <1>8. CASE EnterState(b, i)
    <2>1. PICK id \in OtherIds \cup Devices \cup {""} : Put(b, i, [row EXCEPT !.typed = id])
      BY <1>1, <1>8 DEF EnterState
    <2>2. [row EXCEPT !.typed = id] \in RowsIn(b)
      BY <1>2 DEF RowsIn
    <2>3. QED
      BY <2>1, <2>2
  <1>9. CASE ChooseCmp(b, i)
    <2>1. PICK c \in CmpKeys : b # "then" /\ Put(b, i, [row EXCEPT !.cmp = c])
      BY <1>1, <1>9 DEF ChooseCmp
    <2>2. c \in CmpsOf(b)
      BY <2>1 DEF CmpsOf
    <2>3. [row EXCEPT !.cmp = c] \in RowsIn(b)
      BY <1>2, <2>2 DEF RowsIn
    <2>4. QED
      BY <2>1, <2>3
  <1>10. CASE EnterValue(b, i)
    <2>1. PICK w : w = Active(row)
      OBVIOUS
    <2>2. w \in Widgets /\ (w = "enum" => row.device \in Devices)
      <3>1. w \in Widgets /\ row.device \in Devices \cup {""}
        BY <1>2, <2>1, RowShows
      <3>2. QED
        BY <2>1, <3>1 DEF Active, WidgetFor
    <2>3. PICK v \in Fitting(w, row.device) \cup (IF w \in {"text", "number"} THEN {""} ELSE {}) :
              Put(b, i, [row EXCEPT !.value[w] = v])
      BY <1>1, <1>10, <2>1 DEF EnterValue
    <2>4. v = "" \/ Taken(w, row.device, v) = v
      BY <2>3 DEF Taken
    <2>5. /\ v \in Values \cup {""}
          /\ w = "number" => v \in Numbers \cup {""}
          /\ w = "bool" => v \in Bools \cup {""}
      BY <2>2, <2>4, TakenTyped
    <2>6. PICK value : value = [row.value EXCEPT ![w] = v]
      OBVIOUS
    <2>7. /\ value \in [Widgets -> Values \cup {""}]
          /\ value["number"] \in Numbers \cup {""} /\ value["bool"] \in Bools \cup {""}
      <3>1. value \in [Widgets -> Values \cup {""}]
        BY <1>3, <2>2, <2>5, <2>6
      <3>2. \A x \in Widgets : value[x] = IF x = w THEN v ELSE row.value[x]
        BY <1>3, <2>6
      <3>3. "number" \in Widgets /\ "bool" \in Widgets
        BY DEF Widgets
      <3>4. QED
        BY <1>3, <2>5, <3>1, <3>2, <3>3
    <2>8. [row EXCEPT !.value = value] \in RowsIn(b)
      BY <1>2, <2>7 DEF RowsIn
    <2>9. [row EXCEPT !.value[w] = v] = [row EXCEPT !.value = value]
      BY <1>2, <2>6 DEF RowsIn
    <2>10. QED
      BY <2>3, <2>8, <2>9
  <1>11. QED
    BY <1>4, <1>5, <1>6, <1>7, <1>8, <1>9, <1>10

\* So every change leaves a form.
LEMMA InFormTyped ==
  ASSUME IsForm(page), InForm
  PROVE  /\ IsForm(page') /\ edits < MaxEdits /\ edits' = edits + 1
         /\ stage = "editing" /\ UNCHANGED <<trigger, stage, target>>
  <1>1. CASE ChooseOp
    <2>1. PICK op \in {"and", "or"} : Changed([page EXCEPT !.op = op])
      BY <1>1 DEF ChooseOp
    <2>2. IsForm([page EXCEPT !.op = op])
      BY DEF IsForm
    <2>3. QED
      BY <2>1, <2>2 DEF Changed
  <1>2. CASE EnterRules
    <2>1. Changed([page EXCEPT !.rules = ~@])
      BY <1>2 DEF EnterRules
    <2>2. IsForm([page EXCEPT !.rules = ~@])
      BY DEF IsForm
    <2>3. QED
      BY <2>1, <2>2 DEF Changed
  <1>3. CASE EnterCooldown
    <2>1. PICK c \in CooldownTexts : Changed([page EXCEPT !.cooldown = c])
      BY <1>3 DEF EnterCooldown
    <2>2. IsForm([page EXCEPT !.cooldown = c])
      BY DEF IsForm
    <2>3. QED
      BY <2>1, <2>2 DEF Changed
  <1>4. CASE ~(ChooseOp \/ EnterCooldown \/ EnterRules)
    <2>1. PICK b \in Blocks : \E i \in DOMAIN page.rows[b] :
             \/ ChooseType(b, i) \/ EnterText(b, i) \/ ChooseDevice(b, i) \/ Toggle(b, i)
             \/ EnterState(b, i) \/ ChooseCmp(b, i) \/ EnterValue(b, i) \/ RemoveRow(b, i)
      BY <1>4 DEF InForm
    <2>2. PICK i \in DOMAIN page.rows[b] :
             \/ ChooseType(b, i) \/ EnterText(b, i) \/ ChooseDevice(b, i) \/ Toggle(b, i)
             \/ EnterState(b, i) \/ ChooseCmp(b, i) \/ EnterValue(b, i) \/ RemoveRow(b, i)
      BY <2>1
    <2>3. CASE RemoveRow(b, i)
      BY <2>3, FormWithout DEF RemoveRow, Changed
    <2>4. CASE ~RemoveRow(b, i)
      <3>1. PICK row \in RowsIn(b) : Put(b, i, row)
        BY <2>2, <2>4, RowChanged
      <3>2. IsForm([page EXCEPT !.rows[b][i] = row])
        BY FormWithRow
      <3>3. QED
        BY <3>1, <3>2 DEF Put, Changed
    <2>5. QED
      BY <2>3, <2>4
  <1>5. QED
    BY <1>1, <1>2, <1>3, <1>4
-------------------------------------------------------------------------------
(* The type invariant, and what Core has got after saving. *)

\* After a form is accepted, and until anything else happens, Core has what it sends.
SavedInv == stage = "saved" => trigger = Sent(page)

\* The type invariant in the terms of the lemmas.
LEMMA TypeParts ==
  TypeOK <=> /\ trigger \in TriggerSet /\ IsForm(page)
             /\ stage \in {"closed", "editing", "failed", "saved"}
             /\ target \in {"new", "edit"} /\ edits \in 0..MaxEdits
  BY DEF TypeOK, TriggerSet, IsForm

\* No trigger, and those another user makes.
LEMMA TriggersTyped ==
  NoTrigger \in TriggerSet /\ Triggers \subseteq TriggerSet
  <1>1. NoTrigger \in TriggerSet
    <2>1. PICK none, c, wiped : none = <<>> /\ c = DefaultCooldown /\ wiped = {}
      OBVIOUS
    <2>2. none \in Seq(Whens) /\ none \in Seq(CondsOf("then"))
      BY <2>1
    <2>3. c \in Cooldowns /\ wiped \in SUBSET Unshown
      BY <2>1, CooldownsAssumption
    <2>4. NoTrigger = [there |-> FALSE, when |-> none, then |-> none, cooldown |-> c,
                       unshown |-> wiped]
      BY <2>1 DEF NoTrigger
    <2>5. QED
      BY <2>2, <2>3, <2>4 DEF TriggerSet, TriggersIn
  <1>2. Triggers \subseteq TriggerSet
    BY TriggersAssumption DEF TriggerSet, TriggersIn
  <1>3. QED
    BY <1>1, <1>2

\* A trigger is shown as a form.
LEMMA ShownTyped ==
  ASSUME NEW t \in TriggerSet
  PROVE  IsForm(Rendered(t))
  <1>1. t.when \in Seq(Whens) /\ t.then \in Seq(CondsOf("then")) /\ t.cooldown \in Cooldowns
    BY DEF TriggerSet, TriggersIn
  <1>2. QED
    BY <1>1, RenderedTyped

\* At first there is a trigger or none, and no form.
LEMMA InitTyped == Init => TypeOK /\ SavedInv
  <1>1. SUFFICES ASSUME Init
                 PROVE  TypeOK /\ SavedInv
    OBVIOUS
  <1>2. trigger \in TriggerSet /\ IsForm(Rendered(NoTrigger))
    BY <1>1, TriggersTyped, ShownTyped DEF Init
  <1>3. 0 \in 0..MaxEdits
    BY RowsAssumption
  <1>4. TypeOK
    BY <1>1, <1>2, <1>3, TypeParts DEF Init
  <1>5. SavedInv
    BY <1>1 DEF Init, SavedInv
  <1>6. QED
    BY <1>4, <1>5

\* Every step keeps the types, and what is saved is what is sent.
LEMMA NextTyped == TypeOK /\ SavedInv /\ [Next]_vars => TypeOK' /\ SavedInv'
  <1>1. SUFFICES ASSUME TypeOK, SavedInv, [Next]_vars
                 PROVE  TypeOK' /\ SavedInv'
    OBVIOUS
  <1>2. /\ trigger \in TriggerSet /\ IsForm(page)
        /\ stage \in {"closed", "editing", "failed", "saved"}
        /\ target \in {"new", "edit"} /\ edits \in 0..MaxEdits
    BY <1>1, TypeParts
  <1>3. SUFFICES /\ trigger' \in TriggerSet /\ IsForm(page')
                 /\ stage' \in {"closed", "editing", "failed", "saved"}
                 /\ target' \in {"new", "edit"} /\ edits' \in 0..MaxEdits
                 /\ SavedInv'
    BY TypeParts DEF TypeOK, TriggerSet, IsForm
  <1>4. IsForm(Rendered(NoTrigger)) /\ IsForm(Rendered(trigger)) /\ Sent(page) \in TriggerSet
    BY <1>2, TriggersTyped, ShownTyped, SentTyped
  <1>5. CASE New
    BY <1>2, <1>4, <1>5 DEF New, Show, SavedInv
  <1>6. CASE Edit
    BY <1>2, <1>4, <1>6 DEF Edit, Show, SavedInv
  <1>7. CASE InForm
    <2>1. /\ IsForm(page') /\ edits < MaxEdits /\ edits' = edits + 1
          /\ stage = "editing" /\ UNCHANGED <<trigger, stage, target>>
      BY <1>2, <1>7, InFormTyped
    <2>2. edits' \in 0..MaxEdits
      BY <1>2, <2>1, RowsAssumption
    <2>3. QED
      BY <1>2, <2>1, <2>2 DEF SavedInv
  <1>8. CASE Accepted
    BY <1>2, <1>4, <1>8 DEF Accepted, Answered, SavedInv
  <1>9. CASE Refused
    <2>1. CASE target = "new"
      BY <1>2, <1>4, <1>9, <2>1 DEF Refused, Show, SavedInv
    <2>2. CASE target # "new"
      BY <1>2, <1>9, <2>2 DEF Refused, Answered, SavedInv
    <2>3. QED
      BY <2>1, <2>2
  <1>10. CASE Failed
    BY <1>2, <1>4, <1>10 DEF Failed, Answered, SavedInv
  <1>11. CASE BadRules
    <2>1. CASE target = "edit" /\ ~trigger.there
      BY <1>2, <1>11, <2>1 DEF BadRules, Answered, SavedInv
    <2>2. CASE ~(target = "edit" /\ ~trigger.there)
      BY <1>2, <1>4, <1>11, <2>2 DEF BadRules, Show, SavedInv
    <2>3. QED
      BY <2>1, <2>2
  <1>12. CASE EmptySlug
    BY <1>2, <1>12 DEF EmptySlug, Answered, SavedInv
  <1>13. CASE Delete
    BY <1>2, <1>13, TriggersTyped DEF Delete, Answered, SavedInv
  <1>14. CASE ChangedElsewhere
    BY <1>2, <1>14, TriggersTyped DEF ChangedElsewhere, Answered, SavedInv
  <1>15. CASE UNCHANGED vars
    <2>1. SavedInv'
      BY <1>1, <1>15 DEF vars, SavedInv, Sent
    <2>2. QED
      BY <1>2, <1>15, <2>1 DEF vars
  <1>16. QED
    BY <1>1, <1>5, <1>6, <1>7, <1>8, <1>9, <1>10, <1>11, <1>12, <1>13, <1>14, <1>15 DEF Next

\* The types and what is saved hold in every state.
LEMMA TriggerFormInv == Spec => [](TypeOK /\ SavedInv)
  BY InitTyped, NextTyped, PTL DEF Spec

\* Whatever is entered, hidden, toggled, removed and sent, by any number of users, Core
\* has only conditions an engine can use, and each input only what it can show.
THEOREM FormTyped == Spec => []TypeOK
  BY TriggerFormInv, PTL
-------------------------------------------------------------------------------
(* What is put together from the lists against what the page shows. *)

\* As long as every row sends all of its inputs, the lists are in step with the rows.
LEMMA InStep ==
  ASSUME NEW b \in Blocks, NEW rows \in Seq(RowsIn(b)), NEW n \in 0..Len(rows),
         \A i \in 1..n : Complete(rows[i]), NEW i \in 1..n
  PROVE  Parsed(rows, i) = Meant(rows[i])
  <1> DEFINE C == {j \in DOMAIN rows : SendsCmp(rows[j])}
  <1> DEFINE V == {j \in DOMAIN rows : SendsValue(rows[j])}
  <1>1. Len(rows) \in Nat /\ DOMAIN rows = 1..Len(rows) /\ i \in DOMAIN rows
    OBVIOUS
  <1>2. C \in SUBSET (1..Len(rows)) /\ V \in SUBSET (1..Len(rows))
    BY <1>1
  <1>3. 1..n \subseteq C /\ 1..n \subseteq V
    <2>1. \A j \in 1..n : j \in DOMAIN rows /\ SendsCmp(rows[j]) /\ SendsValue(rows[j])
      BY <1>1 DEF Complete
    <2>2. QED
      BY <2>1
  <1>4. SentCmps(rows) = [k \in DOMAIN Kept(rows, C) |-> Kept(rows, C)[k].cmp]
    BY DEF SentCmps
  <1>5. SentValues(rows) =
          [k \in DOMAIN Kept(rows, V) |-> Kept(rows, V)[k].value[Active(Kept(rows, V)[k])]]
    BY DEF SentValues
  <1> HIDE DEF C, V
  <1>6. i \in DOMAIN Kept(rows, C) /\ Kept(rows, C)[i] = rows[i]
    <2>1. n <= Cardinality(C) /\ Nth(C, i) = i /\ Cardinality(C) \in Nat
      BY <1>1, <1>2, <1>3, NthFirst, ChosenFinite
    <2>2. i \in 1..Cardinality(C)
      BY <2>1, <1>1
    <2>3. QED
      BY <2>1, <2>2 DEF Kept
  <1>7. i \in DOMAIN Kept(rows, V) /\ Kept(rows, V)[i] = rows[i]
    <2>1. n <= Cardinality(V) /\ Nth(V, i) = i /\ Cardinality(V) \in Nat
      BY <1>1, <1>2, <1>3, NthFirst, ChosenFinite
    <2>2. i \in 1..Cardinality(V)
      BY <2>1, <1>1
    <2>3. QED
      BY <2>1, <2>2 DEF Kept
  <1>8. At(SentCmps(rows), i, "value") = rows[i].cmp
    BY <1>4, <1>6 DEF At
  <1>9. At(SentValues(rows), i, "") = rows[i].value[Active(rows[i])]
    BY <1>5, <1>7 DEF At
  <1>10. At(SentStates(rows), i, "") = StateShown(rows[i])
    BY <1>1 DEF At, SentStates
  <1>11. QED
    BY <1>8, <1>9, <1>10 DEF Parsed, Meant

\* So up to there, what is parsed is what the page shows.
LEMMA ParsedAsShown ==
  ASSUME NEW b \in Blocks, NEW rows \in Seq(RowsIn(b)), NEW n \in 0..Len(rows),
         \A i \in 1..n : Complete(rows[i])
  PROVE  IsPrefix(MeantAll(SubSeq(rows, 1, n)), Parse(rows))
  <1> DEFINE U == {i \in DOMAIN rows : Used(Parsed(rows, i))}
  <1> DEFINE s == [i \in DOMAIN rows |-> Parsed(rows, i)]
  <1> DEFINE t == [i \in 1..n |-> Meant(rows[i])]
  <1> DEFINE V == {i \in 1..n : Used(Meant(rows[i]))}
  <1>1. Len(rows) \in Nat /\ DOMAIN rows = 1..Len(rows) /\ n \in Nat /\ n <= Len(rows)
    OBVIOUS
  <1>2. \A i \in 1..n : Parsed(rows, i) = Meant(rows[i])
    BY InStep
  <1>3. U \in SUBSET (1..Len(rows)) /\ Parse(rows) = Kept(s, U)
    BY <1>1 DEF Parse
  <1>4. MeantAll(SubSeq(rows, 1, n)) = Kept(t, V)
    <2>1. PICK first : first = SubSeq(rows, 1, n)
      OBVIOUS
    <2>2. DOMAIN first = 1..n /\ \A i \in 1..n : first[i] = rows[i]
      BY <1>1, <2>1
    <2>3. [i \in DOMAIN first |-> Meant(first[i])] = t
      BY <2>2
    <2>4. {i \in DOMAIN first : Used(Meant(first[i]))} = V
      BY <2>2
    <2>5. QED
      BY <2>1, <2>3, <2>4 DEF MeantAll
  <1>5. V = {i \in U : i <= n}
    <2>1. \A i \in 1..n : i \in DOMAIN rows /\ i <= n
      BY <1>1
    <2>2. \A i \in DOMAIN rows : i <= n => i \in 1..n
      BY <1>1
    <2>3. QED
      BY <1>2, <2>1, <2>2
  <1>6. \A i \in U : i <= n => t[i] = s[i]
    <2>1. \A i \in DOMAIN rows : i <= n => i \in 1..n
      BY <1>1
    <2>2. QED
      BY <1>2, <2>1
  <1> HIDE DEF U, V, s, t
  <1>7. IsPrefix(Kept(t, {i \in U : i <= n}), Kept(s, U))
    BY <1>1, <1>3, <1>6, KeptPrefix
  <1>8. QED
    BY <1>3, <1>4, <1>5, <1>7

\* In any case the rows that are used are the same, with the same state or text.
LEMMA NamedAsShown ==
  ASSUME NEW b \in Blocks, NEW rows \in Seq(RowsIn(b))
  PROVE  Named(Parse(rows)) = Named(MeantAll(rows))
  <1> DEFINE U == {i \in DOMAIN rows : Used(Parsed(rows, i))}
  <1> DEFINE s == [i \in DOMAIN rows |-> Parsed(rows, i)]
  <1> DEFINE t == [i \in DOMAIN rows |-> Meant(rows[i])]
  <1> DEFINE V == {i \in DOMAIN rows : Used(Meant(rows[i]))}
  <1>1. \A i \in DOMAIN rows : Parsed(rows, i).kind = Meant(rows[i]).kind
                              /\ Parsed(rows, i).what = Meant(rows[i]).what
    <2>1. ASSUME NEW i \in DOMAIN rows
          PROVE  Parsed(rows, i).kind = Meant(rows[i]).kind
                 /\ Parsed(rows, i).what = Meant(rows[i]).what
      <3>1. At(SentStates(rows), i, "") = StateShown(rows[i])
        BY DEF At, SentStates
      <3>2. QED
        BY <3>1 DEF Parsed, Meant, Condition, Plain
    <2>2. QED
      BY <2>1
  <1>2. U = V
    BY <1>1 DEF Used
  <1>3. Parse(rows) = Kept(s, U) /\ MeantAll(rows) = Kept(t, V)
    BY DEF Parse, MeantAll
  <1>4. U \in SUBSET (1..Len(rows)) /\ Len(rows) \in Nat
    OBVIOUS
  <1>5. \A i \in U : s[i].kind = t[i].kind /\ s[i].what = t[i].what
    BY <1>1
  <1> HIDE DEF U, V, s, t
  <1>6. \A k \in 1..Cardinality(U) : Nth(U, k) \in U
    BY <1>4, NthRank
  <1>7. Named(Kept(s, U)) = Named(Kept(t, U))
    BY <1>5, <1>6 DEF Named, Kept
  <1>8. QED
    BY <1>2, <1>3, <1>7

\* After saving, each condition has for a block what is parsed from its rows.
LEMMA StoredIsParsed ==
  ASSUME IsForm(page), trigger = Sent(page), NEW b \in Blocks, NEW conds \in StoredFor(b)
  PROVE  conds = Parse(page.rows[b])
  <1>1. PICK when, also, unless :
            /\ when = Parse(page.rows["when"]) /\ also = Parse(page.rows["also"])
            /\ unless = Parse(page.rows["unless"])
    OBVIOUS
  <1>2. when = [i \in DOMAIN when |-> when[i]]
    BY <1>1 DEF Parse, Kept
  <1>3. trigger.when = Attached(when, also, page.op, unless)
        /\ trigger.then = Parse(page.rows["then"])
    BY <1>1 DEF Sent
  <1>4. DOMAIN trigger.when = DOMAIN when
        /\ \A i \in DOMAIN when : /\ trigger.when[i].cond = when[i]
                                  /\ trigger.when[i].also = also
                                  /\ trigger.when[i].unless = unless
    BY <1>3 DEF Attached
  <1>5. CASE b = "when"
    <2>1. conds = [i \in DOMAIN trigger.when |-> trigger.when[i].cond]
      BY <1>5 DEF StoredFor
    <2>2. QED
      BY <1>1, <1>2, <1>4, <1>5, <2>1
  <1>6. CASE b = "then"
    BY <1>3, <1>6 DEF StoredFor
  <1>7. CASE b = "also"
    <2>1. conds \in {trigger.when[i][b] : i \in DOMAIN trigger.when}
      BY <1>7 DEF StoredFor
    <2>2. QED
      BY <1>1, <1>4, <1>7, <2>1
  <1>8. CASE b = "unless"
    <2>1. conds \in {trigger.when[i][b] : i \in DOMAIN trigger.when}
      BY <1>8 DEF StoredFor
    <2>2. QED
      BY <1>1, <1>4, <1>8, <2>1
  <1>9. QED
    BY <1>5, <1>6, <1>7, <1>8 DEF Blocks

\* Up to the first row that leaves something out, every row is stored as it is shown, in
\* every condition it applies to, whatever was hidden, toggled or removed before.
THEOREM RowsStoredAsShown == Spec => []StoredAsShown
  <1>1. TypeOK /\ SavedInv => StoredAsShown
    <2>1. SUFFICES ASSUME TypeOK, SavedInv, stage = "saved", NEW b \in Blocks,
                          NEW n \in 0..Len(page.rows[b]),
                          \A i \in 1..n : Complete(page.rows[b][i]), NEW conds \in StoredFor(b)
                   PROVE  IsPrefix(MeantAll(SubSeq(page.rows[b], 1, n)), conds)
      BY DEF StoredAsShown
    <2>2. IsForm(page) /\ trigger = Sent(page)
      BY <2>1, TypeParts DEF SavedInv
    <2>3. page.rows[b] \in Seq(RowsIn(b))
      BY <2>2 DEF IsForm
    <2>4. conds = Parse(page.rows[b])
      BY <2>2, StoredIsParsed
    <2>5. QED
      BY <2>1, <2>3, <2>4, ParsedAsShown
  <1>2. QED
    BY <1>1, TriggerFormInv, PTL

\* Even where the lists are out of step, no condition is lost or invented, and none gets
\* another row's state or text.
THEOREM ConditionsKept == Spec => []NothingLost
  <1>1. TypeOK /\ SavedInv => NothingLost
    <2>1. SUFFICES ASSUME TypeOK, SavedInv, stage = "saved", NEW b \in Blocks,
                          NEW conds \in StoredFor(b)
                   PROVE  Named(conds) = Named(MeantAll(page.rows[b]))
      BY DEF NothingLost
    <2>2. IsForm(page) /\ trigger = Sent(page)
      BY <2>1, TypeParts DEF SavedInv
    <2>3. page.rows[b] \in Seq(RowsIn(b))
      BY <2>2 DEF IsForm
    <2>4. conds = Parse(page.rows[b])
      BY <2>2, StoredIsParsed
    <2>5. QED
      BY <2>3, <2>4, NamedAsShown
  <1>2. QED
    BY <1>1, TriggerFormInv, PTL
-------------------------------------------------------------------------------
(* Rendering and sending are inverse. *)

\* The row of a state condition says that condition.
LEMMA StateRowSays ==
  ASSUME NEW b \in Blocks, NEW c \in CondsOf(b), c.kind = "state", Fits(b, c)
  PROVE  Complete(ToRow(b, c)) /\ Meant(ToRow(b, c)) = c
  <1>1. /\ c = [kind |-> "state", what |-> c.what, cmp |-> c.cmp, value |-> c.value]
        /\ c.what \in Devices \cup OtherIds /\ c.cmp \in CmpsOf(b) /\ c.value \in Values
    BY DEF CondsOf, OtherKinds
  <1>2. c.what # "" /\ c.value # ""
    BY <1>1, DevicesAssumption
  <1> DEFINE row == Row(b, "state", c.what, c.cmp, c.value, "")
  <1>3. /\ row.kind = "state" /\ row.mode = "dropdown" /\ row.device = ""
        /\ row.typed = c.what /\ row.cmp = c.cmp /\ row.value["text"] = c.value
    BY DEF Row, Widgets
  <1>4. row \in RowsIn(b)
    <2>1. c.value \in Values \cup {""} /\ "" \in Texts \cup {""}
      BY <1>1
    <2>2. QED
      BY <1>1, <2>1, RowTyped
  <1>5. ToRow(b, c) = Loaded(b, row)
    BY DEF ToRow
  <1> HIDE DEF row
  <1>6. /\ row = [kind |-> row.kind, mode |-> row.mode, device |-> row.device, typed |-> row.typed,
                  cmp |-> row.cmp, value |-> row.value, text |-> row.text]
        /\ row.value \in [Widgets -> Values \cup {""}]
    BY <1>4 DEF RowsIn
  <1>7. Active(row) = "text"
    BY <1>3 DEF Active, WidgetFor
  <1>8. CASE c.what \in Offered(b)
    <2>1. PICK new : new = [row EXCEPT !.device = c.what]
      OBVIOUS
    <2>2. /\ new.kind = "state" /\ new.mode = "dropdown" /\ new.device = c.what
          /\ new.cmp = c.cmp
          /\ new = [kind |-> new.kind, mode |-> new.mode, device |-> new.device,
                     typed |-> new.typed, cmp |-> new.cmp, value |-> new.value, text |-> new.text]
      BY <1>3, <1>6, <2>1
    <2>3. ToRow(b, c) = Switch(row, new)
      BY <1>2, <1>3, <1>5, <1>8, <2>1 DEF Loaded
    <2>4. PICK w : w = WidgetOf[c.what]
      OBVIOUS
    <2>5. Active(new) = w /\ w \in Widgets
      <3>1. c.what \in Devices
        BY <1>8, DevicesAssumption DEF Offered
      <3>2. QED
        BY <1>2, <2>2, <2>4, <3>1, DevicesAssumption DEF Active, WidgetFor
    <2>6. PICK filled :
             filled = IF w = "enum" THEN [row.value EXCEPT !["enum"] = FirstOption(c.what)]
                      ELSE row.value
      OBVIOUS
    <2>7. filled["text"] = c.value /\ DOMAIN filled = Widgets
      BY <1>3, <1>6, <2>6 DEF Widgets
    <2>8. Taken(w, c.what, c.value) = c.value
      BY <1>8, <2>4 DEF Fits, Taken
    <2>9. PICK value : value = [filled EXCEPT ![w] = c.value]
      OBVIOUS
    <2>10. value[w] = c.value
      BY <2>5, <2>7, <2>9
    <2>11. Switch(row, new) = [new EXCEPT !.value = value]
      <3>1. Switch(row, new) =
              [new EXCEPT !.value = IF filled["text"] = "" THEN filled
                 ELSE [filled EXCEPT ![w] = Taken(w, new.device, filled["text"])]]
        BY <1>7, <2>2, <2>5, <2>6, <2>1 DEF Switch
      <3>2. QED
        BY <1>2, <2>2, <2>7, <2>8, <2>9, <3>1
    <2>12. PICK last : last = [new EXCEPT !.value = value]
      OBVIOUS
    <2>13. /\ last.kind = "state" /\ last.mode = "dropdown" /\ last.device = c.what
           /\ last.cmp = c.cmp /\ last.value = value
      BY <2>2, <2>12
    <2>14. Active(last) = w /\ StateShown(last) = c.what
      BY <2>2, <2>5, <2>13 DEF Active, StateShown
    <2>15. Complete(last)
      BY <1>2, <1>8, <2>4, <2>10, <2>13, <2>14 DEF Complete, SendsCmp, SendsValue, AllCmps, Fits
    <2>16. Meant(last) = c
      BY <1>1, <1>2, <2>10, <2>13, <2>14 DEF Meant, Condition, OrTrue
    <2>17. QED
      BY <2>3, <2>11, <2>12, <2>15, <2>16
  <1>9. CASE c.what \notin Offered(b)
    <2>1. PICK new : new = [row EXCEPT !.mode = "free"]
      OBVIOUS
    <2>2. /\ new.kind = "state" /\ new.mode = "free" /\ new.typed = c.what
          /\ new.cmp = c.cmp /\ new.value = row.value
          /\ new = [kind |-> new.kind, mode |-> new.mode, device |-> new.device,
                     typed |-> new.typed, cmp |-> new.cmp, value |-> new.value, text |-> new.text]
      BY <1>3, <1>6, <2>1
    <2>3. ToRow(b, c) = Switch(row, new)
      BY <1>2, <1>3, <1>5, <1>9, <2>1 DEF Loaded
    <2>4. Active(new) = "text"
      BY <2>2 DEF Active
    <2>5. Taken("text", new.device, c.value) = c.value
      BY <1>1 DEF Taken, Fitting
    <2>6. PICK value : value = [row.value EXCEPT !["text"] = c.value]
      OBVIOUS
    <2>7. value["text"] = c.value
      BY <1>6, <2>6 DEF Widgets
    <2>8. Switch(row, new) = [new EXCEPT !.value = value]
      <3>1. Switch(row, new) =
              [new EXCEPT !.value = IF row.value["text"] = "" THEN row.value
                 ELSE [row.value EXCEPT !["text"] = Taken("text", new.device, row.value["text"])]]
        BY <1>7, <2>4 DEF Switch
      <3>2. QED
        BY <1>2, <1>3, <2>5, <2>6, <3>1
    <2>9. PICK last : last = [new EXCEPT !.value = value]
      OBVIOUS
    <2>10. /\ last.kind = "state" /\ last.mode = "free" /\ last.typed = c.what
           /\ last.cmp = c.cmp /\ last.value = value
      BY <2>2, <2>9
    <2>11. Active(last) = "text" /\ StateShown(last) = c.what
      BY <2>10 DEF Active, StateShown
    <2>12. Complete(last)
      BY <2>10, <2>11 DEF Complete, SendsCmp, SendsValue, AllCmps
    <2>13. Meant(last) = c
      BY <1>1, <1>2, <2>7, <2>10, <2>11 DEF Meant, Condition, OrTrue
    <2>14. QED
      BY <2>3, <2>8, <2>9, <2>12, <2>13
  <1>10. QED
    BY <1>8, <1>9

\* So does the row of a time, a phrase, an announcement or a resident.
LEMMA PlainRowSays ==
  ASSUME NEW b \in Blocks, NEW c \in CondsOf(b), c.kind # "state", Fits(b, c)
  PROVE  Complete(ToRow(b, c)) /\ Meant(ToRow(b, c)) = c
  <1>1. /\ c = [kind |-> c.kind, what |-> c.what, cmp |-> "value", value |-> ""]
        /\ c.kind \in OtherKinds(b)
    BY DEF CondsOf
  <1>2. ToRow(b, c) = Row(b, c.kind, "", "value", "", c.what)
    BY DEF ToRow, Fits
  <1>3. PICK row : row = Row(b, c.kind, "", "value", "", c.what)
    OBVIOUS
  <1>4. /\ row.kind = c.kind /\ row.mode = "dropdown" /\ row.device = "" /\ row.cmp = "value"
        /\ row.text[c.kind] = c.what
    BY <1>1, <1>3 DEF Row
  <1>5. Complete(row)
    BY <1>4 DEF Complete, SendsCmp, SendsValue, Active, WidgetFor
  <1>6. Meant(row) = c
    BY <1>1, <1>4 DEF Meant, Plain
  <1>7. QED
    BY <1>2, <1>3, <1>5, <1>6

\* A blank row is sent, but not used.
LEMMA BlankRowSays ==
  ASSUME NEW b \in Blocks
  PROVE  Complete(BlankRow(b)) /\ ~Used(Meant(BlankRow(b)))
  <1>1. PICK row, kind : kind = (IF b = "then" THEN "say" ELSE "state")
                         /\ row = Row(b, kind, "", "value", "", "")
    OBVIOUS
  <1>2. /\ row.kind = kind /\ row.mode = "dropdown" /\ row.device = "" /\ row.cmp = "value"
        /\ kind = "state" \/ (kind \in OtherKinds(b) /\ row.text[kind] = "")
    BY <1>1 DEF Row, OtherKinds
  <1>3. Complete(row)
    BY <1>2 DEF Complete, SendsCmp, SendsValue, Active, WidgetFor
  <1>4. ~Used(Meant(row))
    BY <1>2 DEF Meant, Used, Condition, Plain, StateShown
  <1>5. BlankRow(b) = row
    BY <1>1 DEF BlankRow
  <1>6. QED
    BY <1>3, <1>4, <1>5

\* The rows of a block are put together again to the conditions they were made from.
LEMMA ReadBack ==
  ASSUME NEW b \in Blocks, NEW conds \in Seq(CondsOf(b)),
         \A i \in DOMAIN conds : Fits(b, conds[i])
  PROVE  Parse(RowsOf(b, conds)) = conds
  <1>1. PICK rows, n, m : rows = RowsOf(b, conds) /\ n = Len(conds) /\ m = n + NewRows[b]
    OBVIOUS
  <1>2. n \in Nat /\ m \in Nat /\ n <= m /\ DOMAIN conds = 1..n
        /\ conds = [i \in 1..n |-> conds[i]]
    BY <1>1, RowsAssumption
  <1>3. rows \in Seq(RowsIn(b)) /\ Len(rows) = m /\ DOMAIN rows = 1..m
    BY <1>1, <1>2, RowsOfTyped
  <1>4. /\ \A i \in 1..n : rows[i] = ToRow(b, conds[i])
        /\ \A i \in 1..m : i > n => rows[i] = BlankRow(b)
    BY <1>1, <1>2 DEF RowsOf
  <1>5. \A i \in 1..n : Complete(rows[i]) /\ Meant(rows[i]) = conds[i] /\ Used(conds[i])
    <2>1. ASSUME NEW i \in 1..n
          PROVE  Complete(rows[i]) /\ Meant(rows[i]) = conds[i] /\ Used(conds[i])
      <3>1. conds[i] \in CondsOf(b) /\ Fits(b, conds[i]) /\ rows[i] = ToRow(b, conds[i])
        BY <1>2, <1>4
      <3>2. conds[i].what \in Devices \cup OtherIds \cup Texts
        BY <3>1 DEF CondsOf
      <3>3. QED
        BY <3>1, <3>2, StateRowSays, PlainRowSays, DevicesAssumption DEF Used
    <2>2. QED
      BY <2>1
  <1>6. \A i \in 1..m : i > n => Complete(rows[i]) /\ ~Used(Meant(rows[i]))
    BY <1>4, BlankRowSays
  <1>7. \A i \in 1..m : Complete(rows[i])
    <2>1. \A i \in 1..m : i \in 1..n \/ i > n
      BY <1>2
    <2>2. QED
      BY <1>5, <1>6, <2>1
  <1>8. \A i \in 1..m : Parsed(rows, i) = Meant(rows[i])
    BY <1>2, <1>3, <1>7, InStep
  <1> DEFINE s == [i \in DOMAIN rows |-> Parsed(rows, i)]
  <1> DEFINE U == {i \in DOMAIN rows : Used(Parsed(rows, i))}
  <1>9. U = 1..n
    <2>1. \A i \in 1..n : i \in 1..m
      BY <1>2
    <2>2. \A i \in 1..m : i \in 1..n \/ i > n
      BY <1>2
    <2>3. \A i \in 1..n : i \in U
      BY <1>3, <1>5, <1>8, <2>1
    <2>4. \A i \in U : i \in 1..n
      BY <1>3, <1>6, <1>8, <2>2
    <2>5. QED
      BY <2>3, <2>4
  <1>10. \A i \in 1..n : s[i] = conds[i]
    <2>1. \A i \in 1..n : i \in 1..m
      BY <1>2
    <2>2. QED
      BY <1>3, <1>5, <1>8, <2>1
  <1>11. Parse(rows) = Kept(s, U)
    BY DEF Parse
  <1> HIDE DEF s, U
  <1>12. Cardinality(U) = n /\ \A k \in 1..n : Nth(U, k) = k
    <2>1. U \in SUBSET (1..m) /\ n \in 0..m /\ 1..n \subseteq U
      BY <1>2, <1>9
    <2>2. QED
      BY <1>2, <1>9, <2>1, NthFirst
  <1>13. Kept(s, U) = [k \in 1..n |-> conds[k]]
    BY <1>10, <1>12 DEF Kept
  <1>14. QED
    BY <1>1, <1>2, <1>11, <1>13

\* The also and unless read back are attached again to every condition.
LEMMA AttachedBack ==
  ASSUME NEW when \in Seq(Whens),
         \A i \in DOMAIN when : /\ when[i].also = when[1].also /\ when[i].op = when[1].op
                                /\ when[i].unless = when[1].unless
  PROVE  Attached([i \in DOMAIN when |-> when[i].cond], AlsoOf(when).conds, AlsoOf(when).op,
                  UnlessOf(when)) = when
  <1>1. PICK also, op, unless :
            also = AlsoOf(when).conds /\ op = AlsoOf(when).op /\ unless = UnlessOf(when)
    OBVIOUS
  <1>2. ASSUME NEW i \in DOMAIN when
        PROVE  [cond |-> when[i].cond, also |-> also, op |-> IF also = <<>> THEN "and" ELSE op,
                unless |-> unless] = when[i]
    <2>1. /\ when[i].also = <<>> => when[i].op = "and"
          /\ when[i] = [cond |-> when[i].cond, also |-> when[i].also, op |-> when[i].op,
                        unless |-> when[i].unless]
      BY WhenParts
    <2>2. also = when[i].also /\ (also = <<>> \/ op = when[i].op)
      BY <1>1, AlsoUnlessRead
    <2>3. unless = when[i].unless
      BY <1>1, AlsoUnlessRead
    <2>4. QED
      BY <2>1, <2>2, <2>3
  <1>3. PICK conds : conds = [i \in DOMAIN when |-> when[i].cond]
    OBVIOUS
  <1>4. Attached(conds, also, op, unless) = [i \in DOMAIN when |-> when[i]]
    BY <1>2, <1>3 DEF Attached
  <1>5. when = [i \in DOMAIN when |-> when[i]]
    OBVIOUS
  <1>6. QED
    BY <1>1, <1>3, <1>4, <1>5

\* A trigger with something else that the form cannot show.
LEMMA OtherUnshown ==
  ASSUME NEW t, NEW there, NEW when, NEW then, NEW cd, NEW old, NEW new,
         t = [there |-> there, when |-> when, then |-> then, cooldown |-> cd, unshown |-> old]
  PROVE  [t EXCEPT !.unshown = new] =
            [there |-> there, when |-> when, then |-> then, cooldown |-> cd, unshown |-> new]
  OBVIOUS

\* A trigger without what the form cannot show.
LEMMA WithoutUnshown ==
  ASSUME NEW t \in TriggersIn({TRUE})
  PROVE  [t EXCEPT !.unshown = {}] =
            [there |-> TRUE, when |-> t.when, then |-> t.then, cooldown |-> t.cooldown,
             unshown |-> {}]
  <1>1. PICK there, when, then, cd, old, none :
            /\ there = TRUE /\ when = t.when /\ then = t.then /\ cd = t.cooldown
            /\ old = t.unshown /\ none = {}
    OBVIOUS
  <1>2. t = [there |-> there, when |-> when, then |-> then, cooldown |-> cd, unshown |-> old]
    BY <1>1 DEF TriggersIn
  <1>3. [t EXCEPT !.unshown = none] =
           [there |-> there, when |-> when, then |-> then, cooldown |-> cd, unshown |-> none]
    BY <1>2, OtherUnshown
  <1>4. QED
    BY <1>1, <1>3

\* A trigger that the form can show is sent again as it is, without what it cannot show.
LEMMA SentBack ==
  ASSUME NEW t \in TriggerSet, t.there, Representable(t)
  PROVE  Sent(Rendered(t)) = [t EXCEPT !.unshown = {}]
  <1>1. t.when \in Seq(Whens) /\ t.then \in Seq(CondsOf("then")) /\ t.cooldown \in Cooldowns
        /\ [t EXCEPT !.unshown = {}] =
             [there |-> TRUE, when |-> t.when, then |-> t.then, cooldown |-> t.cooldown,
              unshown |-> {}]
    <2>1. t.when \in Seq(Whens) /\ t.then \in Seq(CondsOf("then")) /\ t.cooldown \in Cooldowns
      BY DEF TriggerSet, TriggersIn
    <2>2. t \in TriggersIn({TRUE})
      BY DEF TriggerSet, TriggersIn
    <2>3. QED
      BY <2>1, <2>2, WithoutUnshown
  <1>2. PICK conds, also, op, unless :
            /\ conds = [i \in DOMAIN t.when |-> t.when[i].cond]
            /\ also = AlsoOf(t.when).conds /\ op = AlsoOf(t.when).op /\ unless = UnlessOf(t.when)
    OBVIOUS
  <1>3. /\ conds \in Seq(CondsOf("when")) /\ also \in Seq(CondsOf("also"))
        /\ unless \in Seq(CondsOf("unless"))
    BY <1>1, <1>2, RenderedParts
  <1>4. \A i \in DOMAIN conds : Fits("when", conds[i])
    BY <1>2 DEF Representable
  <1>5. \A j \in DOMAIN also : Fits("also", also[j])
    <2>1. CASE also = <<>>
      BY <2>1
    <2>2. CASE \E i \in DOMAIN t.when : also = t.when[i].also
      BY <2>2 DEF Representable
    <2>3. QED
      BY <1>1, <1>2, <2>1, <2>2, AlsoUnlessRead
  <1>6. \A j \in DOMAIN unless : Fits("unless", unless[j])
    <2>1. CASE unless = <<>>
      BY <2>1
    <2>2. CASE \E i \in DOMAIN t.when : unless = t.when[i].unless
      BY <2>2 DEF Representable
    <2>3. QED
      BY <1>1, <1>2, <2>1, <2>2, AlsoUnlessRead
  <1>7. \A j \in DOMAIN t.then : Fits("then", t.then[j])
    BY DEF Representable
  <1>8. /\ Parse(RowsOf("when", conds)) = conds /\ Parse(RowsOf("also", also)) = also
        /\ Parse(RowsOf("unless", unless)) = unless /\ Parse(RowsOf("then", t.then)) = t.then
    BY <1>1, <1>3, <1>4, <1>5, <1>6, <1>7, ReadBack DEF Blocks
  <1>9. PICK p : p = Rendered(t)
    OBVIOUS
  <1>10. /\ p.rows["when"] = RowsOf("when", conds) /\ p.rows["also"] = RowsOf("also", also)
         /\ p.rows["unless"] = RowsOf("unless", unless)
         /\ p.rows["then"] = RowsOf("then", t.then) /\ p.op = op /\ p.cooldown = t.cooldown
    BY <1>2, <1>9 DEF Rendered, Blocks
  <1>11. Attached(conds, also, op, unless) = t.when
    BY <1>1, <1>2, AttachedBack DEF Representable
  <1>12. p.cooldown # ""
    BY <1>1, <1>10, CooldownsAssumption
  <1>13. Sent(p) = [there |-> TRUE, then |-> t.then, when |-> t.when,
                    cooldown |-> t.cooldown, unshown |-> {}]
    BY <1>8, <1>10, <1>11, <1>12 DEF Sent
  <1>14. QED
    BY <1>1, <1>9, <1>13

\* Opening a trigger that the form can show and saving the form as it is keeps everything
\* shown and wipes a say or cancel_when of its own: reading into rows, setting them up,
\* sending, parsing and attaching are inverse for the rest.
THEOREM UntouchedSaved == Spec => UntouchedSaveKeeps
  <1>1. TypeOK /\ [Next]_vars =>
          [stage' = "saved" /\ target = "edit" /\ page = Rendered(trigger)
             /\ Representable(trigger) => trigger' = [trigger EXCEPT !.unshown = {}]]_vars
    <2>1. SUFFICES ASSUME TypeOK, Next, stage' = "saved", target = "edit",
                          page = Rendered(trigger), Representable(trigger), ~UNCHANGED vars
                   PROVE  trigger' = [trigger EXCEPT !.unshown = {}]
      OBVIOUS
    <2>2. trigger \in TriggerSet
      BY <2>1, TypeParts
    <2>3. CASE Accepted
      <3>1. trigger.there /\ trigger' = Sent(page)
        BY <2>1, <2>3 DEF Accepted
      <3>2. QED
        BY <2>1, <2>2, <3>1, SentBack
    <2>4. CASE New \/ Edit
      BY <2>1, <2>4 DEF New, Edit, Show
    <2>5. CASE InForm
      <3>1. stage = "editing" /\ UNCHANGED stage
        BY <2>1, <2>5, TypeParts, InFormTyped
      <3>2. QED
        BY <2>1, <3>1
    <2>6. CASE Refused \/ Failed \/ BadRules
      BY <2>1, <2>6 DEF Refused, Failed, BadRules, Show, Answered
    <2>7. CASE EmptySlug \/ Delete \/ ChangedElsewhere
      BY <2>1, <2>7 DEF EmptySlug, Delete, ChangedElsewhere, Answered
    <2>8. QED
      BY <2>1, <2>3, <2>4, <2>5, <2>6, <2>7 DEF Next
  <1>2. QED
    BY <1>1, TriggerFormInv, PTL DEF Spec, UntouchedSaveKeeps
===============================================================================
