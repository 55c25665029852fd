-------------------------- MODULE ThreeWayMergeProofs --------------------------
(***************************************************************************)
(* Proofs about ThreeWayMerge, for any documents and histories that        *)
(* satisfy MergeAssumption.                                                *)
(*                                                                         *)
(* RecordsMerge speaks of the places of a document, one by one; the code   *)
(* of arrays, their indexes and shortcuts.  An array is taken as the set   *)
(* of its records (Stock) and as what it holds under each key (At), then   *)
(* fields, objects and documents are put together from these.  Histories   *)
(* of events come last: there the point is that nothing is lost.           *)
(***************************************************************************)
EXTENDS ThreeWayMerge, FiniteSetTheorems, TLAPS

LEMMA ListOfSet ==
    ASSUME NEW S, IsFiniteSet(S)
    PROVE  SetToSeq(S) \in Seq(S) /\ ToSet(SetToSeq(S)) = S /\ IsInjective(SetToSeq(S))
<1> DEFINE n == Cardinality(S)
           g == SetToSeq(S)
<1>1. n \in Nat /\ Bijection(1..n, S) # {}
  BY FS_CardinalityType DEF ExistsBijection
<1>2. \E f \in [1..n -> S] : IsInjective(f)
  BY <1>1 DEF Bijection, Injection
<1>3. g \in [1..n -> S] /\ IsInjective(g)
  BY <1>2 DEF SetToSeq
<1>4. IsFiniteSet(1..n) /\ Cardinality(1..n) = n
  BY <1>1, FS_Interval
<1>5. g \in Injection(1..n, S)
  BY <1>3 DEF Injection
<1>6. g \in Surjection(1..n, S)
  BY <1>4, <1>5, FS_Injection
<1>7. \A x \in S : \E k \in 1..n : g[k] = x
  BY <1>6 DEF Surjection
<1> HIDE DEF g
<1>8. DOMAIN g = 1..n /\ \A k \in 1..n : g[k] \in S
  BY <1>3
<1>9. ToSet(g) = S
  BY <1>7, <1>8 DEF ToSet
<1>10. g \in Seq(S)
  BY <1>1, <1>3
<1>. QED BY <1>3, <1>9, <1>10 DEF g

LEMMA ElementsFinite ==
    ASSUME NEW T, NEW s \in Seq(T)
    PROVE  IsFiniteSet(ToSet(s)) /\ ToSet(s) \subseteq T
<1>1. Len(s) \in Nat /\ DOMAIN s = 1..Len(s) /\ s = [k \in 1..Len(s) |-> s[k]]
  OBVIOUS
<1>2. s \in Surjection(1..Len(s), ToSet(s))
  BY <1>1 DEF Surjection, ToSet
<1>3. IsFiniteSet(1..Len(s))
  <2>1. 1 \in Int /\ Len(s) \in Int
    BY <1>1
  <2>. QED BY <2>1, FS_Interval
<1>. QED BY <1>1, <1>2, <1>3, FS_Surjection DEF ToSet

(***************************************************************************)
(* What the merge makes of one record, and of one field.                   *)
(***************************************************************************)
Clash(b, l, i) == b # l /\ b # i /\ l # i
Mix(b, l, i) == IF l # b THEN l ELSE i

LEMMA RecordCases ==
    ASSUME NEW b, NEW l, NEW i
    PROVE  MergeRecord(b, l, i) = IF Clash(b, l, i) THEN Conflict ELSE Mix(b, l, i)
BY DEF MergeRecord, ThreeWay, Clash, Mix

LEMMA FieldCases ==
    ASSUME NEW f, NEW b, NEW l, NEW i
    PROVE  /\ ~Clash(b, l, i) => MergeField(f, b, l, i) = Mix(b, l, i)
           /\ Clash(b, l, i) =>
                MergeField(f, b, l, i) =
                    IF Missing \notin {b, l, i} /\ f \in Arrays THEN MergeArray(f, b, l, i) ELSE Conflict
BY DEF MergeField, ThreeWay, Clash, Mix

LEMMA DocumentCases ==
    ASSUME NEW b, NEW l, NEW i
    PROVE  /\ ~Clash(b, l, i) => ThreeWay(b, l, i, MergeObject) = Mix(b, l, i)
           /\ Clash(b, l, i) =>
                ThreeWay(b, l, i, MergeObject) =
                    IF Missing \notin {b, l, i} THEN MergeObject(b, l, i) ELSE Conflict
BY DEF ThreeWay, Clash, Mix

(***************************************************************************)
(* Arrays of records with keys.                                            *)
(***************************************************************************)
\* The record of an array with a key.
At(array, f, k) ==
    IF \E record \in ToSet(array) : Key(record, f) = k
    THEN CHOOSE record \in ToSet(array) : Key(record, f) = k
    ELSE Missing

\* An array of records of R.
Stock(array, f, R) ==
    array \in Seq(R) /\ Keyed(array, f) /\ Distinct(array, f) /\ Missing \notin R /\ Conflict \notin R

LEMMA KeysTell ==
    ASSUME NEW f, NEW R, NEW array, Stock(array, f, R),
           NEW r \in ToSet(array), NEW s \in ToSet(array), Key(r, f) = Key(s, f)
    PROVE  r = s
<1>1. PICK m \in DOMAIN array : r = array[m]
  BY DEF ToSet
<1>2. PICK n \in DOMAIN array : s = array[n]
  BY DEF ToSet
<1>3. Key(array[m], f) # Missing
  BY DEF Stock, Keyed
<1>. QED BY <1>1, <1>2, <1>3 DEF Stock, Distinct

LEMMA StockElements ==
    ASSUME NEW f, NEW R, NEW array, Stock(array, f, R)
    PROVE  /\ IsFiniteSet(ToSet(array)) /\ ToSet(array) \subseteq R
           /\ \A r \in ToSet(array) : Key(r, f) # Missing /\ KeyOrSelf(r, f) = Key(r, f)
                                       /\ r # Missing /\ r # Conflict
<1>1. IsFiniteSet(ToSet(array)) /\ ToSet(array) \subseteq R
  BY ElementsFinite DEF Stock
<1>2. \A r \in ToSet(array) : Key(r, f) # Missing
  BY DEF ToSet, Stock, Keyed
<1>. QED BY <1>1, <1>2 DEF KeyOrSelf, Stock

LEMMA AtFinds ==
    ASSUME NEW f, NEW R, NEW array, Stock(array, f, R), NEW r \in ToSet(array)
    PROVE  At(array, f, Key(r, f)) = r
<1> DEFINE k == Key(r, f)
           c == CHOOSE record \in ToSet(array) : Key(record, f) = k
<1>1. c \in ToSet(array) /\ Key(c, f) = k
  OBVIOUS
<1>2. c = r
  BY <1>1, KeysTell
<1>3. At(array, f, k) = c
  BY DEF At
<1>. QED BY <1>2, <1>3

LEMMA AtElse ==
    ASSUME NEW f, NEW array, NEW k, \A r \in ToSet(array) : Key(r, f) # k
    PROVE  At(array, f, k) = Missing
BY DEF At

LEMMA IndexFinds ==
    ASSUME NEW f, NEW R, NEW array, Stock(array, f, R)
    PROVE  /\ DOMAIN Index(array, f) = {Key(r, f) : r \in ToSet(array)}
           /\ \A k : Get(Index(array, f), k) = At(array, f, k)
<1> DEFINE keys == {KeyOrSelf(array[n], f) : n \in DOMAIN array}
           index == [key \in keys |-> CHOOSE record \in ToSet(array) : KeyOrSelf(record, f) = key]
<1>1. \A r \in ToSet(array) : KeyOrSelf(r, f) = Key(r, f)
  BY StockElements
<1>2. keys = {Key(r, f) : r \in ToSet(array)}
  BY <1>1 DEF ToSet
<1>3. Index(array, f) = index
  BY DEF Index
<1>4. ASSUME NEW r \in ToSet(array) PROVE index[Key(r, f)] = r
  <2> DEFINE c == CHOOSE record \in ToSet(array) : KeyOrSelf(record, f) = Key(r, f)
  <2>1. Key(r, f) \in keys
    BY <1>2
  <2>2. index[Key(r, f)] = c
    BY <2>1
  <2>3. c \in ToSet(array) /\ KeyOrSelf(c, f) = Key(r, f)
    BY <1>1
  <2>4. c = r
    BY <1>1, <2>3, KeysTell
  <2>. QED BY <2>2, <2>4
<1> HIDE DEF keys, index
<1>5. DOMAIN index = keys
  BY DEF index
<1>6. ASSUME NEW k PROVE Get(index, k) = At(array, f, k)
  <2>1. CASE k \in keys
    <3>1. PICK r \in ToSet(array) : k = Key(r, f)
      BY <1>2, <2>1
    <3>. QED BY <1>4, <1>5, <2>1, <3>1, AtFinds DEF Get
  <2>2. CASE k \notin keys
    <3>1. \A r \in ToSet(array) : Key(r, f) # k
      BY <1>2, <2>2
    <3>. QED BY <1>5, <2>2, <3>1, AtElse DEF Get
  <2>. QED BY <2>1, <2>2
<1>. QED BY <1>2, <1>3, <1>5, <1>6

LEMMA AtInside ==
    ASSUME NEW f, NEW R, NEW array, Stock(array, f, R), NEW k
    PROVE  \/ At(array, f, k) = Missing /\ \A r \in ToSet(array) : Key(r, f) # k
           \/ At(array, f, k) \in ToSet(array) /\ Key(At(array, f, k), f) = k /\ At(array, f, k) # Missing
<1>1. CASE \E r \in ToSet(array) : Key(r, f) = k
  BY <1>1, AtFinds, StockElements
<1>2. CASE \A r \in ToSet(array) : Key(r, f) # k
  BY <1>2, AtElse
<1>. QED BY <1>1, <1>2

\* A list of records of R with different keys.
LEMMA StockOfSet ==
    ASSUME NEW f, NEW R, Missing \notin R, Conflict \notin R, NEW S \in SUBSET R, IsFiniteSet(S),
           \A r \in S : Key(r, f) # Missing, \A r, s \in S : Key(r, f) = Key(s, f) => r = s
    PROVE  Stock(SetToSeq(S), f, R) /\ ToSet(SetToSeq(S)) = S
<1> DEFINE m == SetToSeq(S)
<1>1. m \in Seq(S) /\ ToSet(m) = S /\ IsInjective(m)
  BY ListOfSet
<1> HIDE DEF m
<1>2. \A n \in DOMAIN m : m[n] \in S
  BY <1>1 DEF ToSet
<1>3. m \in Seq(R)
  BY <1>1
<1>4. Keyed(m, f)
  BY <1>2 DEF Keyed
<1>5. Distinct(m, f)
  BY <1>1, <1>2 DEF Distinct, IsInjective
<1>. QED BY <1>1, <1>3, <1>4, <1>5 DEF Stock, m

MergedByKey(m, f, R, b, l, i) ==
    /\ Stock(m, f, R)
    /\ \A k : /\ ~Clash(At(b, f, k), At(l, f, k), At(i, f, k))
              /\ At(m, f, k) = Mix(At(b, f, k), At(l, f, k), At(i, f, k))
ClashingKey(f, b, l, i) ==
    \E r \in ToSet(b) \cup ToSet(l) \cup ToSet(i) :
        Clash(At(b, f, Key(r, f)), At(l, f, Key(r, f)), At(i, f, Key(r, f)))

\* Record by record, unless two of one key clash.
LEMMA ByKeyMerges ==
    ASSUME NEW f, NEW R, Conflict \notin Seq(R),
           NEW b, Stock(b, f, R), NEW l, Stock(l, f, R), NEW i, Stock(i, f, R),
           NEW m, m = MergeByKey(Index(b, f), Index(l, f), Index(i, f))
    PROVE  /\ m # Conflict => MergedByKey(m, f, R, b, l, i)
           /\ m = Conflict => ClashingKey(f, b, l, i)
<1> DEFINE T == ToSet(b) \cup ToSet(l) \cup ToSet(i)
           keys == DOMAIN Index(b, f) \cup DOMAIN Index(l, f) \cup DOMAIN Index(i, f)
           merged == [key \in keys |-> MergeRecord(Get(Index(b, f), key), Get(Index(l, f), key), Get(Index(i, f), key))]
           S == {merged[key] : key \in keys} \ {Missing}
           B(k) == At(b, f, k)
           L(k) == At(l, f, k)
           I(k) == At(i, f, k)
<1>1. m = IF \E key \in keys : merged[key] = Conflict THEN Conflict ELSE SetToSeq(S)
  BY DEF MergeByKey
<1>2. keys = {Key(r, f) : r \in T}
  <2>1. /\ DOMAIN Index(b, f) = {Key(r, f) : r \in ToSet(b)}
        /\ DOMAIN Index(l, f) = {Key(r, f) : r \in ToSet(l)}
        /\ DOMAIN Index(i, f) = {Key(r, f) : r \in ToSet(i)}
    BY IndexFinds
  <2>. QED BY <2>1
<1>3. ASSUME NEW k \in keys
      PROVE  merged[k] = IF Clash(B(k), L(k), I(k)) THEN Conflict ELSE Mix(B(k), L(k), I(k))
  <2>1. Get(Index(b, f), k) = B(k) /\ Get(Index(l, f), k) = L(k) /\ Get(Index(i, f), k) = I(k)
    BY IndexFinds
  <2>. QED BY <2>1, RecordCases
<1>4. ASSUME NEW k PROVE /\ \A x \in {B(k), L(k), I(k)} : x = Missing \/ (x \in T /\ Key(x, f) = k /\ x # Missing)
                         /\ \A x \in {B(k), L(k), I(k)} : x # Conflict
  <2>1. \A x \in {B(k), L(k), I(k)} : x = Missing \/ (x \in T /\ Key(x, f) = k /\ x # Missing)
    BY AtInside
  <2>2. \A x \in T : x # Conflict
    BY StockElements
  <2>. QED BY <2>1, <2>2, MergeAssumption
<1>5. IsFiniteSet(T) /\ T \subseteq R /\ \A r \in T : Key(r, f) # Missing /\ r # Missing
  BY StockElements, FS_Union
<1> HIDE DEF merged, keys, T, B, L, I
<1>6. CASE \E k \in keys : Clash(B(k), L(k), I(k))
  <2>1. m = Conflict
    BY <1>1, <1>3, <1>6
  <2>. QED BY <1>2, <1>6, <2>1 DEF B, L, I, T, ClashingKey
<1>7. CASE \A k \in keys : ~Clash(B(k), L(k), I(k))
  <2>1. \A k \in keys : merged[k] = Mix(B(k), L(k), I(k)) /\ Mix(B(k), L(k), I(k)) \in {B(k), L(k), I(k)}
    BY <1>3, <1>7 DEF Mix
  <2>2. \A k \in keys : merged[k] # Conflict /\ (merged[k] = Missing \/ (merged[k] \in T /\ Key(merged[k], f) = k))
    BY <1>4, <2>1
  <2>3. m = SetToSeq(S)
    BY <1>1, <2>2
  <2>4. S \subseteq T /\ S \in SUBSET R /\ IsFiniteSet(S)
    BY <1>5, <2>2, FS_Subset
  <2>5. \A r, s \in S : Key(r, f) = Key(s, f) => r = s
    BY <2>2
  <2>6. Stock(m, f, R) /\ ToSet(m) = S
    <3>1. Missing \notin R /\ Conflict \notin R
      BY DEF Stock
    <3>2. \A r \in S : Key(r, f) # Missing
      BY <1>5, <2>4
    <3> HIDE DEF S
    <3>. QED BY <2>3, <2>4, <2>5, <3>1, <3>2, StockOfSet
  <2>7. m # Conflict
    BY <2>6 DEF Stock
  <2>8. ASSUME NEW k PROVE ~Clash(B(k), L(k), I(k)) /\ At(m, f, k) = Mix(B(k), L(k), I(k))
    <3>1. CASE k \in keys
      <4>1. CASE merged[k] = Missing
        <5>1. \A r \in ToSet(m) : Key(r, f) # k
          BY <2>2, <2>6, <3>1, <4>1
        <5>. QED BY <1>7, <2>1, <3>1, <4>1, <5>1, AtElse
      <4>2. CASE merged[k] # Missing
        <5>1. merged[k] \in ToSet(m) /\ Key(merged[k], f) = k
          BY <2>2, <2>6, <3>1, <4>2
        <5>. QED BY <1>7, <2>1, <2>6, <3>1, <5>1, AtFinds
      <4>. QED BY <4>1, <4>2
    <3>2. CASE k \notin keys
      <4>1. \A r \in T : Key(r, f) # k
        BY <1>2, <3>2
      <4>2. B(k) = Missing /\ L(k) = Missing /\ I(k) = Missing
        BY <1>4, <4>1
      <4>3. At(m, f, k) = Missing
        BY <2>4, <2>6, <4>1, AtElse
      <4>. QED BY <4>2, <4>3 DEF Clash, Mix
    <3>. QED BY <3>1, <3>2
  <2>. QED BY <2>6, <2>7, <2>8 DEF B, L, I, MergedByKey
<1>. QED BY <1>6, <1>7

(***************************************************************************)
(* Whose side is whose does not matter.                                    *)
(***************************************************************************)
LEMMA RecordSymmetric ==
    ASSUME NEW b, NEW l, NEW i PROVE MergeRecord(b, l, i) = MergeRecord(b, i, l)
BY RecordCases DEF Clash, Mix

LEMMA ByKeySymmetric ==
    ASSUME NEW b, NEW l, NEW i PROVE MergeByKey(b, l, i) = MergeByKey(b, i, l)
<1> DEFINE keys(x, y) == DOMAIN b \cup DOMAIN x \cup DOMAIN y
           merged(x, y) == [key \in keys(x, y) |-> MergeRecord(Get(b, key), Get(x, key), Get(y, key))]
<1>1. keys(l, i) = keys(i, l)
  OBVIOUS
<1>2. merged(l, i) = merged(i, l)
  BY <1>1, RecordSymmetric
<1>3. /\ MergeByKey(b, l, i) = IF \E key \in keys(l, i) : merged(l, i)[key] = Conflict THEN Conflict
                                ELSE SetToSeq({merged(l, i)[key] : key \in keys(l, i)} \ {Missing})
      /\ MergeByKey(b, i, l) = IF \E key \in keys(i, l) : merged(i, l)[key] = Conflict THEN Conflict
                                ELSE SetToSeq({merged(i, l)[key] : key \in keys(i, l)} \ {Missing})
  BY DEF MergeByKey
<1> HIDE DEF keys, merged
<1>. QED BY <1>1, <1>2, <1>3

LEMMA HistorySymmetric ==
    ASSUME NEW b, NEW l, NEW i PROVE MergeHistory(b, l, i) = MergeHistory(b, i, l)
<1> DEFINE together(x, y) == {x[key] : key \in DOMAIN x} \cup {y[key] : key \in DOMAIN y}
           agree(x, y) == /\ \A key \in DOMAIN b : b[key] = Get(x, key) /\ b[key] = Get(y, key)
                          /\ \A key \in DOMAIN x \cap DOMAIN y : x[key] = y[key]
<1>1. together(l, i) = together(i, l)
  OBVIOUS
<1>2. agree(l, i) <=> agree(i, l)
  OBVIOUS
<1>3. MergeHistory(b, l, i) = IF agree(l, i) THEN SetToSeq(together(l, i)) ELSE Conflict
  BY DEF MergeHistory
<1>4. MergeHistory(b, i, l) = IF agree(i, l) THEN SetToSeq(together(i, l)) ELSE Conflict
  BY DEF MergeHistory
<1> HIDE DEF together, agree
<1>. QED BY <1>1, <1>2, <1>3, <1>4

LEMMA ArraySymmetric ==
    ASSUME NEW f, NEW b, NEW l, NEW i PROVE MergeArray(f, b, l, i) = MergeArray(f, b, i, l)
<1>1. {b, l, i} = {b, i, l}
  OBVIOUS
<1>. QED BY <1>1, ByKeySymmetric, HistorySymmetric DEF MergeArray

LEMMA FieldSymmetric ==
    ASSUME NEW f, NEW b, NEW l, NEW i PROVE MergeField(f, b, l, i) = MergeField(f, b, i, l)
<1>1. CASE Clash(b, l, i)
  <2>1. Clash(b, i, l) /\ {b, l, i} = {b, i, l}
    BY <1>1 DEF Clash
  <2>. QED BY <1>1, <2>1, FieldCases, ArraySymmetric
<1>2. CASE ~Clash(b, l, i)
  <2>1. ~Clash(b, i, l) /\ Mix(b, l, i) = Mix(b, i, l)
    BY <1>2 DEF Clash, Mix
  <2>. QED BY <1>2, <2>1, FieldCases
<1>. QED BY <1>1, <1>2

LEMMA ObjectSymmetric ==
    ASSUME NEW b, NEW l, NEW i PROVE MergeObject(b, l, i) = MergeObject(b, i, l)
<1> DEFINE fields(x, y) == DOMAIN b \cup DOMAIN x \cup DOMAIN y
           merged(x, y) == [field \in fields(x, y) |-> MergeField(field, Get(b, field), Get(x, field), Get(y, field))]
<1>1. fields(l, i) = fields(i, l)
  OBVIOUS
<1>2. merged(l, i) = merged(i, l)
  BY <1>1, FieldSymmetric
<1>3. /\ MergeObject(b, l, i) =
           IF "id" \in fields(l, i) \/ \E field \in fields(l, i) : merged(l, i)[field] = Conflict THEN Conflict
           ELSE Restrict(merged(l, i), {field \in fields(l, i) : merged(l, i)[field] # Missing})
      /\ MergeObject(b, i, l) =
           IF "id" \in fields(i, l) \/ \E field \in fields(i, l) : merged(i, l)[field] = Conflict THEN Conflict
           ELSE Restrict(merged(i, l), {field \in fields(i, l) : merged(i, l)[field] # Missing})
  BY DEF MergeObject
<1> HIDE DEF fields, merged
<1>. QED BY <1>1, <1>2, <1>3

LEMMA DocumentSymmetric ==
    ASSUME NEW b, NEW l, NEW i PROVE Reconciled(b, l, i) = Reconciled(b, i, l)
<1>1. ThreeWay(b, l, i, MergeObject) = ThreeWay(b, i, l, MergeObject)
  <2>1. CASE Clash(b, l, i)
    <3>1. Clash(b, i, l) /\ {b, l, i} = {b, i, l}
      BY <2>1 DEF Clash
    <3>2. ThreeWay(b, l, i, MergeObject) = IF Missing \notin {b, l, i} THEN MergeObject(b, l, i) ELSE Conflict
      BY <2>1, DocumentCases
    <3>3. ThreeWay(b, i, l, MergeObject) = IF Missing \notin {b, i, l} THEN MergeObject(b, i, l) ELSE Conflict
      BY <3>1, DocumentCases
    <3>4. MergeObject(b, l, i) = MergeObject(b, i, l)
      BY ObjectSymmetric
    <3>. QED BY <3>1, <3>2, <3>3, <3>4
  <2>2. CASE ~Clash(b, l, i)
    <3>1. ~Clash(b, i, l) /\ Mix(b, l, i) = Mix(b, i, l)
      BY <2>2 DEF Clash, Mix
    <3>. QED BY <2>2, <3>1, DocumentCases
  <2>. QED BY <2>1, <2>2
<1>2. {b, l, i} = {b, i, l}
  OBVIOUS
<1>. QED BY <1>1, <1>2 DEF Reconciled

(***************************************************************************)
(* Documents, place by place.                                              *)
(***************************************************************************)
\* A document without id, its arrays of records of R.
Object(d, R) ==
    /\ d # Missing /\ "id" \notin DOMAIN d
    /\ \A f \in DOMAIN d : d[f] # Missing
    /\ \A f \in DOMAIN d \cap Arrays : Stock(d[f], f, R)
Slot(array, f, k) == IF array = Missing THEN Missing ELSE At(array, f, k)

LEMMA HeldMissing == ASSUME NEW place PROVE Held(Missing, place) = Missing
BY DEF Held, Places

LEMMA HeldWhole ==
    ASSUME NEW d, d # Missing, "id" \in DOMAIN d
    PROVE  Places(d) = {<<>>} /\ Held(d, <<>>) = d
<1>1. Places(d) = {<<>>}
  BY DEF Places
<1>2. <<>> \in Places(d) /\ Len(<<>>) = 0
  BY <1>1
<1>. QED BY <1>1, <1>2 DEF Held

LEMMA HeldObject ==
    ASSUME NEW R, NEW d, Object(d, R)
    PROVE  /\ \A place \in Places(d) :
                 \/ \E f \in DOMAIN d \ Arrays : place = <<f>>
                 \/ \E f \in DOMAIN d \cap Arrays : \E r \in ToSet(d[f]) : place = <<f, Key(r, f)>>
           /\ \A f \in DOMAIN d \ Arrays : <<f>> \in Places(d)
           /\ \A f \in DOMAIN d \cap Arrays : \A r \in ToSet(d[f]) : <<f, Key(r, f)>> \in Places(d)
           /\ \A f : Held(d, <<f>>) = IF f \in Arrays THEN Missing ELSE Get(d, f)
           /\ \A f, k : Held(d, <<f, k>>) = IF f \in Arrays THEN Slot(Get(d, f), f, k) ELSE Missing
<1> DEFINE plain == {<<f>> : f \in DOMAIN d \ Arrays}
           keyed(f) == {<<f, Key(r, f)>> : r \in ToSet(d[f])}
<1>1. Places(d) = plain \cup UNION {keyed(f) : f \in DOMAIN d \cap Arrays}
  BY DEF Places, Object
<1>2. \A place : place \in Places(d) <=>
                 \/ \E f \in DOMAIN d \ Arrays : place = <<f>>
                 \/ \E f \in DOMAIN d \cap Arrays : \E r \in ToSet(d[f]) : place = <<f, Key(r, f)>>
  BY <1>1
<1>3. ASSUME NEW f PROVE Held(d, <<f>>) = IF f \in Arrays THEN Missing ELSE Get(d, f)
  <2>1. <<f>> \in Places(d) <=> f \in DOMAIN d \ Arrays
    BY <1>2
  <2>2. Len(<<f>>) = 1 /\ <<f>>[1] = f
    OBVIOUS
  <2>. QED BY <2>1, <2>2 DEF Held, Get
<1>4. ASSUME NEW f, NEW k PROVE Held(d, <<f, k>>) = IF f \in Arrays THEN Slot(Get(d, f), f, k) ELSE Missing
  <2>1. <<f, k>> \in Places(d) <=> f \in DOMAIN d \cap Arrays /\ \E r \in ToSet(d[f]) : Key(r, f) = k
    BY <1>2
  <2>2. Len(<<f, k>>) = 2 /\ <<f, k>>[1] = f /\ <<f, k>>[2] = k
    OBVIOUS
  <2>3. CASE <<f, k>> \in Places(d)
    <3>1. Held(d, <<f, k>>) = CHOOSE record \in ToSet(d[f]) : Key(record, f) = k
      BY <2>2, <2>3 DEF Held
    <3>2. Held(d, <<f, k>>) = At(d[f], f, k)
      BY <2>1, <2>3, <3>1 DEF At
    <3>. QED BY <2>1, <2>3, <3>2 DEF Get, Slot, Object
  <2>4. CASE <<f, k>> \notin Places(d)
    <3>1. Held(d, <<f, k>>) = Missing
      BY <2>4 DEF Held
    <3>2. f \in DOMAIN d \cap Arrays => At(d[f], f, k) = Missing
      BY <2>1, <2>4, AtElse
    <3>. QED BY <3>1, <3>2 DEF Get, Slot
  <2>. QED BY <2>3, <2>4
<1>. QED BY <1>2, <1>3, <1>4

LEMMA CombinedMix ==
    ASSUME NEW b, NEW l, NEW i, NEW place
    PROVE  /\ Combined(b, l, i, place) = Mix(Held(b, place), Held(l, place), Held(i, place))
           /\ Disputed(b, l, i, place) <=> Clash(Held(b, place), Held(l, place), Held(i, place))
BY DEF Combined, Changed, Disputed, Clash, Mix

\* Where one side left the document alone the other's is taken, everywhere at once.
LEMMA Wholesale ==
    ASSUME NEW b, NEW l, NEW i, ~Clash(b, l, i), NEW place
    PROVE  Held(Mix(b, l, i), place) = Combined(b, l, i, place) /\ ~Disputed(b, l, i, place)
BY DEF Combined, Changed, Disputed, Clash, Mix

(***************************************************************************)
(* A field of three objects.                                               *)
(***************************************************************************)
SomeDispute(b, l, i) == \E place \in Places(b) \cup Places(l) \cup Places(i) : Disputed(b, l, i, place)
DividedArray(b, l, i) == \E f \in Arrays : Divided(Get(b, f), Get(l, f), Get(i, f))

\* A plain field is as one of the objects has it.
LEMMA PlainMerges ==
    ASSUME NEW R, NEW b, Object(b, R), NEW l, Object(l, R), NEW i, Object(i, R), NEW f, f \notin Arrays,
           NEW m, m = MergeField(f, Get(b, f), Get(l, f), Get(i, f))
    PROVE  \/ m = Conflict /\ SomeDispute(b, l, i)
           \/ m = Mix(Get(b, f), Get(l, f), Get(i, f)) /\ ~Clash(Get(b, f), Get(l, f), Get(i, f))
<1>1. Held(b, <<f>>) = Get(b, f) /\ Held(l, <<f>>) = Get(l, f) /\ Held(i, <<f>>) = Get(i, f)
  BY HeldObject
<1>2. CASE Clash(Get(b, f), Get(l, f), Get(i, f))
  <2>1. m = Conflict
    BY <1>2, FieldCases
  <2>2. Disputed(b, l, i, <<f>>)
    BY <1>1, <1>2, CombinedMix
  <2>3. Get(b, f) # Missing \/ Get(l, f) # Missing \/ Get(i, f) # Missing
    BY <1>2 DEF Clash
  <2>4. \E d \in {b, l, i} : f \in DOMAIN d \ Arrays /\ Object(d, R)
    BY <2>3 DEF Get
  <2>5. <<f>> \in Places(b) \cup Places(l) \cup Places(i)
    BY <2>4, HeldObject
  <2>. QED BY <2>1, <2>2, <2>5 DEF SomeDispute
<1>3. CASE ~Clash(Get(b, f), Get(l, f), Get(i, f))
  BY <1>3, FieldCases
<1>. QED BY <1>2, <1>3

\* An array is merged record by record.
LEMMA ArrayMerges ==
    ASSUME NEW R, Conflict \notin Seq(R), Missing \notin Seq(R),
           NEW b, Object(b, R), NEW l, Object(l, R), NEW i, Object(i, R), NEW f \in Arrays,
           NEW m, m = MergeField(f, Get(b, f), Get(l, f), Get(i, f))
    PROVE  \/ m = Conflict /\ (SomeDispute(b, l, i) \/ DividedArray(b, l, i))
           \/ /\ m = Missing \/ Stock(m, f, R)
              /\ \A k : /\ ~Clash(Slot(Get(b, f), f, k), Slot(Get(l, f), f, k), Slot(Get(i, f), f, k))
                         /\ Slot(m, f, k) = Mix(Slot(Get(b, f), f, k), Slot(Get(l, f), f, k), Slot(Get(i, f), f, k))
<1> DEFINE B == Get(b, f)
           L == Get(l, f)
           I == Get(i, f)
<1>1. \A x \in {B, L, I} : x = Missing \/ Stock(x, f, R)
  BY DEF Get, Object
<1>2. CASE ~Clash(B, L, I)
  <2>1. m = Mix(B, L, I)
    BY <1>2, FieldCases
  <2>2. m = Missing \/ Stock(m, f, R)
    BY <1>1, <2>1 DEF Mix
  <2> HIDE DEF B, L, I
  <2>3. \A k : /\ ~Clash(Slot(B, f, k), Slot(L, f, k), Slot(I, f, k))
               /\ Slot(m, f, k) = Mix(Slot(B, f, k), Slot(L, f, k), Slot(I, f, k))
    BY <1>2, <2>1 DEF Clash, Mix
  <2>. QED BY <2>2, <2>3 DEF B, L, I
<1>3. CASE Clash(B, L, I) /\ Missing \in {B, L, I}
  <2>1. m = Conflict
    BY <1>3, FieldCases
  <2>2. Divided(B, L, I)
    BY <1>3 DEF Divided, Clash
  <2>. QED BY <2>1, <2>2 DEF DividedArray
<1>4. CASE Clash(B, L, I) /\ Missing \notin {B, L, I}
  <2>1. m = MergeArray(f, B, L, I)
    BY <1>4, FieldCases
  <2>2. Stock(B, f, R) /\ Stock(L, f, R) /\ Stock(I, f, R)
    BY <1>1, <1>4
  <2> HIDE DEF B, L, I
  <2>3. m = MergeByKey(Index(B, f), Index(L, f), Index(I, f))
    BY <2>1, <2>2 DEF MergeArray, Stock
  <2>4. CASE m = Conflict
    <3>1. PICK r \in ToSet(B) \cup ToSet(L) \cup ToSet(I) :
                Clash(At(B, f, Key(r, f)), At(L, f, Key(r, f)), At(I, f, Key(r, f)))
      BY <2>2, <2>3, <2>4, ByKeyMerges DEF ClashingKey
    <3> DEFINE place == <<f, Key(r, f)>>
    <3>2. /\ Held(b, place) = At(B, f, Key(r, f))
          /\ Held(l, place) = At(L, f, Key(r, f))
          /\ Held(i, place) = At(I, f, Key(r, f))
      BY <1>4, HeldObject DEF Slot, B, L, I
    <3>3. Disputed(b, l, i, place)
      BY <3>1, <3>2, CombinedMix
    <3>4. PICK d \in {b, l, i} : Object(d, R) /\ Get(d, f) # Missing /\ r \in ToSet(Get(d, f))
      BY <1>4, <3>1 DEF B, L, I
    <3>5. f \in DOMAIN d /\ Get(d, f) = d[f]
      BY <3>4 DEF Get
    <3>6. place \in Places(d)
      BY <3>4, <3>5, HeldObject
    <3>7. SomeDispute(b, l, i)
      BY <3>3, <3>6 DEF SomeDispute
    <3>. QED BY <2>4, <3>7
  <2>5. CASE m # Conflict
    <3>1. /\ Stock(m, f, R)
          /\ \A k : /\ ~Clash(At(B, f, k), At(L, f, k), At(I, f, k))
                     /\ At(m, f, k) = Mix(At(B, f, k), At(L, f, k), At(I, f, k))
      <4>1. MergedByKey(m, f, R, B, L, I)
        BY <2>2, <2>3, <2>5, ByKeyMerges
      <4>. QED BY <4>1 DEF MergedByKey
    <3>2. m # Missing
      BY <3>1 DEF Stock
    <3>3. \A k : /\ Slot(m, f, k) = At(m, f, k)
                 /\ Slot(B, f, k) = At(B, f, k) /\ Slot(L, f, k) = At(L, f, k) /\ Slot(I, f, k) = At(I, f, k)
      BY <1>4, <3>2 DEF Slot
    <3>. QED BY <3>1, <3>3 DEF B, L, I
  <2>. QED BY <2>4, <2>5
<1>. QED BY <1>2, <1>3, <1>4

(***************************************************************************)
(* Objects.                                                                *)
(***************************************************************************)
\* Wherever a document is made of three, or they are, it holds what they combine to.
MergedPlaces(m, b, l, i) ==
    \A place \in Places(b) \cup Places(l) \cup Places(i) \cup Places(m) :
        Held(m, place) = Combined(b, l, i, place) /\ ~Disputed(b, l, i, place)

\* It is enough that its fields do.
LEMMA FieldsMerge ==
    ASSUME NEW R, NEW b, Object(b, R), NEW l, Object(l, R), NEW i, Object(i, R), NEW m, Object(m, R),
           \A f : f \notin Arrays =>
                    /\ Get(m, f) = Mix(Get(b, f), Get(l, f), Get(i, f))
                    /\ ~Clash(Get(b, f), Get(l, f), Get(i, f)),
           \A f \in Arrays : \A k :
                /\ Slot(Get(m, f), f, k) = Mix(Slot(Get(b, f), f, k), Slot(Get(l, f), f, k), Slot(Get(i, f), f, k))
                /\ ~Clash(Slot(Get(b, f), f, k), Slot(Get(l, f), f, k), Slot(Get(i, f), f, k))
    PROVE  MergedPlaces(m, b, l, i)
<1> SUFFICES ASSUME NEW place \in Places(b) \cup Places(l) \cup Places(i) \cup Places(m)
             PROVE  Held(m, place) = Combined(b, l, i, place) /\ ~Disputed(b, l, i, place)
  BY DEF MergedPlaces
<1>1. (\E f : f \notin Arrays /\ place = <<f>>) \/ (\E f \in Arrays : \E k : place = <<f, k>>)
  <2>1. PICK d \in {b, l, i, m} : place \in Places(d) /\ Object(d, R)
    OBVIOUS
  <2>2. \/ \E f \in DOMAIN d \ Arrays : place = <<f>>
        \/ \E f \in DOMAIN d \cap Arrays : \E r \in ToSet(d[f]) : place = <<f, Key(r, f)>>
    BY <2>1, HeldObject
  <2>. QED BY <2>2
<1>2. CASE \E f : f \notin Arrays /\ place = <<f>>
  <2>1. PICK f : f \notin Arrays /\ place = <<f>>
    BY <1>2
  <2>2. \A d \in {b, l, i, m} : Held(d, place) = Get(d, f)
    BY <2>1, HeldObject
  <2>. QED BY <2>1, <2>2, CombinedMix
<1>3. CASE \E f \in Arrays : \E k : place = <<f, k>>
  <2>0. PICK f \in Arrays : \E k : place = <<f, k>>
    BY <1>3
  <2>1. PICK k : place = <<f, k>>
    BY <2>0
  <2>2. \A d \in {b, l, i, m} : Held(d, place) = Slot(Get(d, f), f, k)
    BY <2>1, HeldObject
  <2>. QED BY <2>1, <2>2, CombinedMix
<1>. QED BY <1>1, <1>2, <1>3

\* Every field of an object is in the schema's.
LEMMA ObjectOfDocument ==
    ASSUME NEW documents \in Documents, NEW d \in documents, d # Missing, Identified(d), "id" \notin DOMAIN d
    PROVE  /\ Object(d, Records(documents))
           /\ DOMAIN d \subseteq Fields(documents)
           /\ \A f \in DOMAIN d : d[f] \in FieldContents(documents)
<1> DEFINE R == Records(documents)
<1>1. Schematic(documents) /\ d \in Revised(documents)
  BY MergeAssumption DEF Revised
<1>2. DOMAIN d \subseteq Fields(documents) /\ \A f \in DOMAIN d : d[f] \in FieldContents(documents)
  <2>1. DOMAIN d \subseteq Fields(documents)
    BY <1>1 DEF Fields
  <2>2. ASSUME NEW f \in DOMAIN d PROVE d[f] \in FieldContents(documents)
    <3>1. d[f] \in {d[g] : g \in DOMAIN d}
      OBVIOUS
    <3>2. d[f] \in UNION {{e[g] : g \in DOMAIN e} : e \in Revised(documents)}
      BY <1>1, <3>1, Zenon
    <3>. QED BY <3>2, Zenon DEF FieldContents
  <2>. QED BY <2>1, <2>2
<1>3. /\ Missing \notin FieldContents(documents) \cup R /\ Conflict \notin FieldContents(documents) \cup R
      /\ \A f \in DOMAIN d \cap Arrays : d[f] \in Seq(R) /\ Keyed(d[f], f)
  BY <1>1 DEF Schematic
<1>4. \A f \in DOMAIN d \cap Arrays : Distinct(d[f], f)
  BY DEF Identified
<1> HIDE DEF R
<1>. QED BY <1>2, <1>3, <1>4 DEF Object, Stock, R

LEMMA ObjectsMerge ==
    ASSUME NEW documents \in Documents,
           NEW b \in documents, b # Missing, Identified(b), "id" \notin DOMAIN b,
           NEW l \in documents, l # Missing, Identified(l), "id" \notin DOMAIN l,
           NEW i \in documents, i # Missing, Identified(i), "id" \notin DOMAIN i,
           NEW m, m = MergeObject(b, l, i)
    PROVE  /\ m # Conflict => Object(m, Records(documents)) /\ MergedPlaces(m, b, l, i)
           /\ m = Conflict => SomeDispute(b, l, i) \/ DividedArray(b, l, i)
<1> DEFINE R == Records(documents)
           C == FieldContents(documents)
           fields == DOMAIN b \cup DOMAIN l \cup DOMAIN i
           M(f) == MergeField(f, Get(b, f), Get(l, f), Get(i, f))
           merged == [f \in fields |-> M(f)]
           kept == {f \in fields : merged[f] # Missing}
<1>1. Object(b, R) /\ Object(l, R) /\ Object(i, R)
  BY ObjectOfDocument
<1>2. fields \subseteq Fields(documents)
  BY ObjectOfDocument
<1>3. /\ Missing \notin C /\ Conflict \notin C /\ Seq(R) \subseteq C
      /\ \A F \in SUBSET Fields(documents) : Missing \notin [F -> C] /\ Conflict \notin [F -> C]
  <2>1. Schematic(documents)
    BY MergeAssumption
  <2>2. Seq(R) \subseteq C
    BY Zenon DEF FieldContents
  <2> HIDE DEF R, C
  <2>. QED BY <2>1, <2>2 DEF Schematic, C
<1>4. \A f \in fields : \A x \in {Get(b, f), Get(l, f), Get(i, f)} : x = Missing \/ x \in C
  BY ObjectOfDocument DEF Get
<1>5. m = IF "id" \in fields \/ \E f \in fields : merged[f] = Conflict THEN Conflict ELSE Restrict(merged, kept)
  BY DEF MergeObject
<1>6. \A f \in fields : merged[f] = M(f)
  OBVIOUS
<1>7. "id" \notin fields
  OBVIOUS
<1> HIDE DEF R, C, fields, merged, kept
<1>8. ASSUME NEW f \in fields, M(f) = Conflict PROVE SomeDispute(b, l, i) \/ DividedArray(b, l, i)
  <2>1. CASE f \notin Arrays
    <3>1. Mix(Get(b, f), Get(l, f), Get(i, f)) # Conflict
      BY <1>3, <1>4, MergeAssumption DEF Mix
    <3>. QED BY <1>1, <1>8, <2>1, <3>1, PlainMerges
  <2>2. CASE f \in Arrays
    <3>1. Conflict # Missing /\ ~Stock(Conflict, f, R)
      BY <1>3, MergeAssumption DEF Stock
    <3>. QED BY <1>1, <1>3, <1>8, <2>2, <3>1, ArrayMerges
  <2>. QED BY <2>1, <2>2
<1>9. CASE \E f \in fields : M(f) = Conflict
  BY <1>5, <1>6, <1>8, <1>9
<1>10. CASE \A f \in fields : M(f) # Conflict
  <2>1. m = Restrict(merged, kept) /\ kept = {f \in fields : M(f) # Missing}
    BY <1>5, <1>6, <1>7, <1>10 DEF kept
  <2>2. DOMAIN m = kept /\ (\A f \in kept : m[f] = M(f)) /\ m \in [kept -> {M(f) : f \in kept}]
    <3>1. m = [f \in kept |-> M(f)]
      BY <1>6, <2>1 DEF Restrict
    <3>. QED BY <3>1
  <2>3. ASSUME NEW f PROVE Get(m, f) = M(f) /\ M(f) # Conflict
    <3>1. CASE f \in fields
      BY <1>10, <2>1, <2>2, <3>1 DEF Get
    <3>2. CASE f \notin fields
      <4>1. Get(b, f) = Missing /\ Get(l, f) = Missing /\ Get(i, f) = Missing
        BY <3>2 DEF Get, fields
      <4>2. M(f) = Missing
        BY <4>1, FieldCases DEF Clash, Mix
      <4>. QED BY <2>1, <2>2, <3>2, <4>2, MergeAssumption DEF Get
    <3>. QED BY <3>1, <3>2
  <2> DEFINE slot(d, f, k) == Slot(Get(d, f), f, k)
  <2>4. \A f : f \notin Arrays =>
            /\ M(f) = Mix(Get(b, f), Get(l, f), Get(i, f))
            /\ ~Clash(Get(b, f), Get(l, f), Get(i, f))
    BY <1>1, <2>3, PlainMerges
  <2>5. ASSUME NEW f \in Arrays
        PROVE  /\ M(f) = Missing \/ Stock(M(f), f, R)
               /\ \A k : /\ ~Clash(slot(b, f, k), slot(l, f, k), slot(i, f, k))
                         /\ Slot(M(f), f, k) = Mix(slot(b, f, k), slot(l, f, k), slot(i, f, k))
    BY <1>1, <1>3, <2>3, ArrayMerges
  <2>6. \A f \in kept : M(f) \in C
    <3>1. \A f \in kept : f \notin Arrays => M(f) \in C
      BY <1>4, <2>1, <2>4 DEF Mix
    <3>2. \A f \in kept : f \in Arrays => M(f) \in C
      BY <1>3, <2>1, <2>5 DEF Stock
    <3>. QED BY <3>1, <3>2
  <2>7. m # Missing /\ m # Conflict
    <3>1. kept \in SUBSET Fields(documents)
      BY <1>2, <2>1
    <3>2. m \in [kept -> C]
      BY <2>2, <2>6
    <3>. QED BY <1>3, <3>1, <3>2
  <2>8. Object(m, R)
    <3>1. "id" \notin DOMAIN m /\ \A f \in DOMAIN m : m[f] # Missing
      BY <1>7, <2>1, <2>2
    <3>2. \A f \in DOMAIN m \cap Arrays : Stock(m[f], f, R)
      BY <2>1, <2>2, <2>5
    <3>. QED BY <2>7, <3>1, <3>2 DEF Object
  <2>9. MergedPlaces(m, b, l, i)
    <3>1. \A f : f \notin Arrays =>
            /\ Get(m, f) = Mix(Get(b, f), Get(l, f), Get(i, f))
            /\ ~Clash(Get(b, f), Get(l, f), Get(i, f))
      BY <2>3, <2>4
    <3>2. \A f \in Arrays : \A k :
            /\ slot(m, f, k) = Mix(slot(b, f, k), slot(l, f, k), slot(i, f, k))
            /\ ~Clash(slot(b, f, k), slot(l, f, k), slot(i, f, k))
      BY <2>3, <2>5
    <3>. QED BY <1>1, <2>8, <3>1, <3>2, FieldsMerge
  <2>. QED BY <2>7, <2>8, <2>9 DEF R
<1>. QED BY <1>9, <1>10

(***************************************************************************)
(* Responsibilities.                                                       *)
(***************************************************************************)
Broken(d, g) == \A s : ToSet(s) = ToSet(d[g]) => ~Responsible([f \in {g} |-> s])

\* Which records an array holds is what counts, not how they are arranged.
LEMMA ResponsibilityOfRecords ==
    ASSUME NEW R, NEW d, Object(d, R), ~Responsible(d)
    PROVE  \E g \in Responsibilities \cap DOMAIN d : Broken(d, g)
<1>1. CASE \E g \in DOMAIN d \cap {"memberships", "workers", "claims"} :
             \E m, n \in DOMAIN d[g] : /\ m # n /\ Live(d[g][m], g) /\ Live(d[g][n], g)
                                        /\ Scope(d[g][m], g) = Scope(d[g][n], g)
  <2>0. PICK g \in DOMAIN d \cap {"memberships", "workers", "claims"} :
               \E m, n \in DOMAIN d[g] : /\ m # n /\ Live(d[g][m], g) /\ Live(d[g][n], g)
                                          /\ Scope(d[g][m], g) = Scope(d[g][n], g)
    BY <1>1
  <2>1. PICK m \in DOMAIN d[g], n \in DOMAIN d[g] :
                 m # n /\ Live(d[g][m], g) /\ Live(d[g][n], g) /\ Scope(d[g][m], g) = Scope(d[g][n], g)
    BY <2>0
  <2>2. PICK first : first = d[g][m]
    OBVIOUS
  <2>3. PICK second : second = d[g][n]
    OBVIOUS
  <2>4. first # second /\ first \in ToSet(d[g]) /\ second \in ToSet(d[g])
    <3>1. Stock(d[g], g, R)
      BY MergeAssumption DEF Object, Responsibilities
    <3>2. Key(d[g][m], g) # Missing
      BY <3>1 DEF Stock, Keyed
    <3>3. Key(first, g) # Key(second, g)
      BY <2>1, <2>2, <2>3, <3>1, <3>2 DEF Stock, Distinct
    <3>. QED BY <2>2, <2>3, <3>3 DEF ToSet
  <2>5. ASSUME NEW s, ToSet(s) = ToSet(d[g]) PROVE ~Responsible([f \in {g} |-> s])
    <3>1. PICK x \in DOMAIN s : s[x] = first
      BY <2>4, <2>5 DEF ToSet
    <3>2. PICK y \in DOMAIN s : s[y] = second
      BY <2>4, <2>5 DEF ToSet
    <3>3. PICK e : e = [f \in {g} |-> s]
      OBVIOUS
    <3>4. DOMAIN e = {g} /\ e[g] = s /\ x # y
      BY <2>4, <3>1, <3>2, <3>3
    <3>5. Live(first, g) /\ Live(second, g) /\ Scope(first, g) = Scope(second, g)
      BY <2>1, <2>2, <2>3
    <3>6. g \in DOMAIN e \cap {"memberships", "workers", "claims"} /\ x \in DOMAIN e[g] /\ y \in DOMAIN e[g]
      BY <3>4
    <3>7. ~Responsible(e)
      BY <3>1, <3>2, <3>4, <3>5, <3>6, Zenon DEF Responsible
    <3>. QED BY <3>3, <3>7
  <2>. QED BY <2>5 DEF Responsibilities, Broken
<1>2. CASE "assignments" \in DOMAIN d /\ \E first, second \in ToSet(d.assignments) :
             /\ first.position_id = "developer" /\ second.position_id = "independent_qa"
             /\ first.agent_id = second.agent_id
  <2>1. ASSUME NEW s, ToSet(s) = ToSet(d.assignments) PROVE ~Responsible([f \in {"assignments"} |-> s])
    <3>1. PICK e : e = [f \in {"assignments"} |-> s]
      OBVIOUS
    <3>2. "assignments" \in DOMAIN e /\ e.assignments = s
      BY <3>1
    <3>3. ~Responsible(e)
      BY <1>2, <2>1, <3>2 DEF Responsible
    <3>. QED BY <3>1, <3>3
  <2>. QED BY <1>2, <2>1 DEF Responsibilities, Broken
<1>3. CASE "entries" \in DOMAIN d /\ \E first, second \in ToSet(d.entries) :
             first.scope_revision = second.scope_revision /\ first.path = second.path /\ first.sha256 # second.sha256
  <2>1. ASSUME NEW s, ToSet(s) = ToSet(d.entries) PROVE ~Responsible([f \in {"entries"} |-> s])
    <3>1. PICK e : e = [f \in {"entries"} |-> s]
      OBVIOUS
    <3>2. "entries" \in DOMAIN e /\ e.entries = s
      BY <3>1
    <3>3. ~Responsible(e)
      BY <1>3, <2>1, <3>2 DEF Responsible
    <3>. QED BY <3>1, <3>3
  <2>. QED BY <1>3, <2>1 DEF Responsibilities, Broken
<1>. QED BY <1>1, <1>2, <1>3, Zenon DEF Responsible

\* The records that an array of the merge holds are those that its places combine to.
LEMMA TogetherIsArray ==
    ASSUME NEW R, NEW b, NEW l, NEW i, NEW m, Object(m, R), MergedPlaces(m, b, l, i), NEW g \in DOMAIN m \cap Arrays
    PROVE  Together(b, l, i, g) = ToSet(m[g])
<1> DEFINE places == AllPlaces({b, l, i})
           inside == {place \in places : Len(place) = 2 /\ place[1] = g}
<1>1. places = Places(b) \cup Places(l) \cup Places(i)
  BY DEF AllPlaces
<1>2. Together(b, l, i, g) = {Combined(b, l, i, place) : place \in inside} \ {Missing}
  BY DEF Together
<1>3. Stock(m[g], g, R) /\ m[g] # Missing /\ Get(m, g) = m[g]
  BY DEF Object, Get
<1>4. \A r \in ToSet(m[g]) : Held(m, <<g, Key(r, g)>>) = r /\ r # Missing /\ <<g, Key(r, g)>> \in Places(m)
  <2>1. \A r \in ToSet(m[g]) : At(m[g], g, Key(r, g)) = r /\ r # Missing
    BY <1>3, AtFinds, StockElements
  <2>. QED BY <1>3, <2>1, HeldObject DEF Slot
<1>5. ASSUME NEW place \in inside, Combined(b, l, i, place) # Missing PROVE Combined(b, l, i, place) \in ToSet(m[g])
  <2>1. Held(m, place) = Combined(b, l, i, place)
    BY <1>1 DEF MergedPlaces
  <2>2. place \in Places(m)
    BY <1>5, <2>1 DEF Held
  <2>3. Len(place) = 2 /\ place[1] = g
    OBVIOUS
  <2>4. PICK f \in DOMAIN m \cap Arrays : \E r \in ToSet(m[f]) : place = <<f, Key(r, f)>>
    <3>1. \A f : Len(<<f>>) = 1
      OBVIOUS
    <3>2. \/ \E f \in DOMAIN m \ Arrays : place = <<f>>
          \/ \E f \in DOMAIN m \cap Arrays : \E r \in ToSet(m[f]) : place = <<f, Key(r, f)>>
      BY <2>2, HeldObject
    <3>. QED BY <2>3, <3>1, <3>2
  <2>5. f = g
    BY <2>3, <2>4
  <2>6. PICK r \in ToSet(m[g]) : place = <<g, Key(r, g)>>
    BY <2>4, <2>5
  <2>. QED BY <1>4, <2>1, <2>6
<1>6. ASSUME NEW r \in ToSet(m[g]) PROVE \E place \in inside : r = Combined(b, l, i, place) /\ r # Missing
  <2> DEFINE place == <<g, Key(r, g)>>
  <2>1. r = Combined(b, l, i, place) /\ r # Missing
    BY <1>4 DEF MergedPlaces
  <2>2. place \in Places(l) \cup Places(i)
    BY <2>1 DEF Combined, Held
  <2>3. Len(place) = 2 /\ place[1] = g
    OBVIOUS
  <2>4. place \in inside
    BY <1>1, <2>2, <2>3
  <2>. QED BY <2>1, <2>4
<1> HIDE DEF places, inside
<1>. QED BY <1>2, <1>5, <1>6

LEMMA IrresponsibleMerge ==
    ASSUME NEW R, NEW b, NEW l, NEW i, NEW m, Object(m, R), MergedPlaces(m, b, l, i), ~Responsible(m)
    PROVE  Irresponsible(b, l, i)
<1>1. PICK g \in Responsibilities \cap DOMAIN m : Broken(m, g)
  BY ResponsibilityOfRecords
<1>2. g \in DOMAIN m \cap Arrays
  BY <1>1, MergeAssumption
<1>3. Stock(m[g], g, R)
  BY <1>2 DEF Object
<1>4. IsFiniteSet(ToSet(m[g]))
  BY <1>3, StockElements
<1>5. ToSet(SetToSeq(ToSet(m[g]))) = ToSet(m[g])
  BY <1>4, ListOfSet
<1>6. ~Responsible([f \in {g} |-> SetToSeq(ToSet(m[g]))])
  BY <1>1, <1>5 DEF Broken
<1>7. Together(b, l, i, g) = ToSet(m[g])
  BY <1>2, TogetherIsArray
<1>. QED BY <1>2, <1>6, <1>7 DEF Irresponsible

(***************************************************************************)
(* RecordsMerge.                                                           *)
(***************************************************************************)
\* Three revisions with an id are one place each.
LEMMA WholesMerge ==
    ASSUME NEW documents \in Documents, NEW b \in documents, NEW l \in documents, NEW i \in documents,
           b # Missing, l # Missing, i # Missing, Clash(b, l, i),
           "id" \in DOMAIN b \/ "id" \in DOMAIN l \/ "id" \in DOMAIN i
    PROVE  MergeObject(b, l, i) = Conflict /\ SomeDispute(b, l, i)
<1>1. MergeObject(b, l, i) = Conflict
  BY DEF MergeObject
<1>2. \A d \in {b, l, i} : "id" \in DOMAIN d /\ d # Missing
  <2>1. Schematic(documents) /\ b \in Revised(documents) /\ l \in Revised(documents) /\ i \in Revised(documents)
    BY MergeAssumption DEF Revised
  <2>2. "id" \in Fields(documents)
    BY <2>1 DEF Fields
  <2>3. \A document \in Revised(documents) : "id" \in DOMAIN document
    BY <2>1, <2>2 DEF Schematic
  <2>. QED BY <2>1, <2>3
<1>3. \A d \in {b, l, i} : <<>> \in Places(d) /\ Held(d, <<>>) = d
  BY <1>2, HeldWhole
<1>4. Disputed(b, l, i, <<>>)
  BY <1>3, CombinedMix
<1>. QED BY <1>1, <1>3, <1>4 DEF SomeDispute

\* What is made of three revisions without a record twice, but for the responsibilities.
LEMMA RevisionsMerge ==
    ASSUME NEW documents \in Documents,
           NEW b \in documents, Identified(b), NEW l \in documents, Identified(l), NEW i \in documents, Identified(i),
           NEW m, m = ThreeWay(b, l, i, MergeObject)
    PROVE  /\ m # Conflict => /\ MergedPlaces(m, b, l, i) /\ ~SomeDispute(b, l, i)
                              /\ m # Missing /\ ~Responsible(m) => Irresponsible(b, l, i)
           /\ m = Conflict => \/ SomeDispute(b, l, i) \/ Divided(b, l, i)
                              \/ b # Missing /\ l # Missing /\ i # Missing /\ DividedArray(b, l, i)
<1> DEFINE R == Records(documents)
<1>1. CASE ~Clash(b, l, i)
  <2>1. m = Mix(b, l, i)
    BY <1>1, DocumentCases
  <2>2. m \in {l, i} /\ m \in documents /\ Identified(m)
    BY <2>1 DEF Mix
  <2>3. m # Conflict
    BY <2>2, MergeAssumption DEF Schematic
  <2>4. MergedPlaces(m, b, l, i) /\ ~SomeDispute(b, l, i)
    BY <1>1, <2>1, Wholesale DEF MergedPlaces, SomeDispute
  <2>5. ASSUME m # Missing, ~Responsible(m) PROVE Irresponsible(b, l, i)
    <3>1. CASE "id" \in DOMAIN m
      <4>1. Places(m) = {<<>>} /\ Held(m, <<>>) = m
        BY <2>5, <3>1, HeldWhole
      <4>2. Combined(b, l, i, <<>>) = m /\ <<>> \in Places(l) \cup Places(i)
        BY <2>2, <2>4, <4>1 DEF MergedPlaces
      <4>3. <<>> \in AllPlaces({b, l, i})
        BY <4>2 DEF AllPlaces
      <4>. QED BY <2>5, <4>2, <4>3 DEF Irresponsible
    <3>2. CASE "id" \notin DOMAIN m
      <4>1. Object(m, R)
        BY <2>2, <2>5, <3>2, ObjectOfDocument
      <4>. QED BY <2>4, <2>5, <4>1, IrresponsibleMerge
    <3>. QED BY <3>1, <3>2
  <2>. QED BY <2>3, <2>4, <2>5
<1>2. CASE Clash(b, l, i) /\ (b = Missing \/ l = Missing \/ i = Missing)
  <2>1. m = Conflict
    BY <1>2, DocumentCases
  <2>2. Divided(b, l, i)
    BY <1>2 DEF Divided, Clash
  <2>. QED BY <2>1, <2>2
<1>3. CASE Clash(b, l, i) /\ b # Missing /\ l # Missing /\ i # Missing
  <2>1. m = MergeObject(b, l, i)
    BY <1>3, DocumentCases
  <2>2. CASE "id" \in DOMAIN b \/ "id" \in DOMAIN l \/ "id" \in DOMAIN i
    BY <1>3, <2>1, <2>2, WholesMerge
  <2>3. CASE "id" \notin DOMAIN b /\ "id" \notin DOMAIN l /\ "id" \notin DOMAIN i
    <3>1. /\ m # Conflict => Object(m, R) /\ MergedPlaces(m, b, l, i)
          /\ m = Conflict => SomeDispute(b, l, i) \/ DividedArray(b, l, i)
      BY <1>3, <2>1, <2>3, ObjectsMerge
    <3>2. ASSUME m # Conflict PROVE ~SomeDispute(b, l, i) /\ (~Responsible(m) => Irresponsible(b, l, i))
      <4>1. Object(m, R) /\ MergedPlaces(m, b, l, i)
        BY <3>1, <3>2
      <4>2. ~SomeDispute(b, l, i)
        BY <4>1 DEF MergedPlaces, SomeDispute
      <4>. QED BY <4>1, <4>2, IrresponsibleMerge
    <3>. QED BY <1>3, <3>1, <3>2
  <2>. QED BY <2>2, <2>3
<1>. QED BY <1>1, <1>2, <1>3

\* Any three revisions of a document merge record by record, whosever side is whose, or what stands in the way
\* is a dispute over one of its places, a broken responsibility, or a document or an array that is missing.
THEOREM RecordsAlwaysMerge == RecordsMerge
<1> SUFFICES ASSUME NEW documents \in Documents, NEW b \in documents, NEW l \in documents, NEW i \in documents
             PROVE  /\ Reconciled(b, l, i) = Reconciled(b, i, l)
                    /\ IsMerge(Reconciled(b, l, i), b, l, i)
  BY DEF RecordsMerge
<1> DEFINE m == Reconciled(b, l, i)
<1>1. m = Reconciled(b, i, l)
  BY DocumentSymmetric
<1> SUFFICES IsMerge(m, b, l, i)
  BY <1>1
<1> HIDE DEF m
<1>2. (\E place \in AllPlaces({b, l, i}) : Disputed(b, l, i, place)) <=> SomeDispute(b, l, i)
  BY DEF AllPlaces, SomeDispute
<1>3. \A place \in AllPlaces({b, l, i} \cup {m}) :
          place \in Places(b) \cup Places(l) \cup Places(i) \cup Places(m)
  BY DEF AllPlaces
<1>4. CASE \E document \in {b, l, i} : ~Identified(document)
  <2>1. m = Conflict
    BY <1>4 DEF Reconciled, m
  <2>. QED BY <1>4, <2>1 DEF IsMerge
<1>5. CASE \A document \in {b, l, i} : Identified(document)
  <2> DEFINE n == ThreeWay(b, l, i, MergeObject)
  <2>1. m = IF n \notin {Missing, Conflict} /\ ~Responsible(n) THEN Conflict ELSE n
    BY <1>5 DEF Reconciled, m
  <2>2. /\ n # Conflict => /\ MergedPlaces(n, b, l, i) /\ ~SomeDispute(b, l, i)
                           /\ n # Missing /\ ~Responsible(n) => Irresponsible(b, l, i)
        /\ n = Conflict => \/ SomeDispute(b, l, i) \/ Divided(b, l, i)
                           \/ b # Missing /\ l # Missing /\ i # Missing /\ DividedArray(b, l, i)
    BY <1>5, RevisionsMerge
  <2> HIDE DEF n
  <2>3. ASSUME m # Conflict
        PROVE  /\ ~SomeDispute(b, l, i) /\ (m # Missing => Responsible(m))
               /\ \A place \in AllPlaces({b, l, i} \cup {m}) : Held(m, place) = Combined(b, l, i, place)
    BY <1>3, <2>1, <2>2, <2>3 DEF MergedPlaces
  <2>4. ASSUME m = Conflict
        PROVE  \/ SomeDispute(b, l, i) \/ Divided(b, l, i) \/ Irresponsible(b, l, i)
               \/ /\ Missing \notin {b, l, i}
                  /\ \E field \in Arrays : Divided(Get(b, field), Get(l, field), Get(i, field))
    BY <2>1, <2>2, <2>4 DEF DividedArray
  <2>. QED BY <1>2, <2>3, <2>4 DEF IsMerge
<1>. QED BY <1>4, <1>5

(***************************************************************************)
(* Histories of events.                                                    *)
(***************************************************************************)
Ledger(array) == array \in Seq(Events) /\ Distinct(array, "events")
Self(event) == KeyOrSelf(event, "events")

LEMMA EventsApart ==
    /\ \A event \in Events : event # Missing /\ event # Conflict
    /\ Missing \notin Seq(Events) /\ Conflict \notin Seq(Events)
    /\ EventArrays \subseteq Seq(Events) \cup {Missing}
BY MergeAssumption

LEMMA EventKey ==
    ASSUME NEW event
    PROVE  Key(event, "events") = IF "id" \in DOMAIN event THEN Restrict(event, {"id"}) ELSE Missing
BY DEF Key, KeyFields

LEMMA SelfTells ==
    ASSUME NEW r \in Events, NEW s \in Events, Self(r) = Self(s)
    PROVE  r = s \/ (Key(r, "events") # Missing /\ Key(r, "events") = Key(s, "events"))
<1>1. \A event \in Events : Key(event, "events") # Missing <=> "id" \in DOMAIN event
  BY EventKey, MergeAssumption
<1>2. \A event : "id" \in DOMAIN Restrict(event, {"id"})
  BY DEF Restrict
<1>3. CASE Key(r, "events") # Missing /\ Key(s, "events") # Missing
  BY <1>3 DEF Self, KeyOrSelf
<1>4. CASE Key(r, "events") = Missing /\ Key(s, "events") = Missing
  BY <1>4 DEF Self, KeyOrSelf
<1>5. CASE Key(r, "events") # Missing /\ Key(s, "events") = Missing
  BY <1>1, <1>2, <1>5, EventKey DEF Self, KeyOrSelf
<1>6. CASE Key(r, "events") = Missing /\ Key(s, "events") # Missing
  BY <1>1, <1>2, <1>6, EventKey DEF Self, KeyOrSelf
<1>. QED BY <1>3, <1>4, <1>5, <1>6

LEMMA LedgerTells ==
    ASSUME NEW array, Ledger(array), NEW r \in ToSet(array), NEW s \in ToSet(array), Self(r) = Self(s)
    PROVE  r = s
<1>1. ToSet(array) \subseteq Events
  BY ElementsFinite DEF Ledger
<1>2. PICK m \in DOMAIN array : r = array[m]
  BY DEF ToSet
<1>3. PICK n \in DOMAIN array : s = array[n]
  BY DEF ToSet
<1>. QED BY <1>1, <1>2, <1>3, SelfTells DEF Ledger, Distinct

LEMMA LedgerIndex ==
    ASSUME NEW array, Ledger(array)
    PROVE  /\ DOMAIN Index(array, "events") = {Self(r) : r \in ToSet(array)}
           /\ \A r \in ToSet(array) : Index(array, "events")[Self(r)] = r /\ Get(Index(array, "events"), Self(r)) = r
           /\ {Index(array, "events")[key] : key \in DOMAIN Index(array, "events")} = ToSet(array)
           /\ \A k : \/ Get(Index(array, "events"), k) = Missing
                     \/ Get(Index(array, "events"), k) \in ToSet(array) /\ Self(Get(Index(array, "events"), k)) = k
<1> DEFINE keys == {KeyOrSelf(array[n], "events") : n \in DOMAIN array}
           index == [key \in keys |-> CHOOSE record \in ToSet(array) : KeyOrSelf(record, "events") = key]
<1>1. Index(array, "events") = index
  BY DEF Index
<1>2. keys = {Self(r) : r \in ToSet(array)}
  BY DEF ToSet, Self
<1>3. ASSUME NEW r \in ToSet(array) PROVE index[Self(r)] = r
  <2> DEFINE c == CHOOSE record \in ToSet(array) : KeyOrSelf(record, "events") = Self(r)
  <2>1. Self(r) \in keys
    BY <1>2
  <2>2. index[Self(r)] = c
    BY <2>1
  <2>3. c \in ToSet(array) /\ Self(c) = Self(r)
    BY DEF Self
  <2>. QED BY <2>2, <2>3, LedgerTells
<1>4. DOMAIN index = keys
  OBVIOUS
<1> HIDE DEF keys, index
<1>5. {index[key] : key \in keys} = ToSet(array)
  BY <1>2, <1>3
<1>6. \A r \in ToSet(array) : Get(index, Self(r)) = r
  BY <1>2, <1>3, <1>4 DEF Get
<1>7. ASSUME NEW k PROVE Get(index, k) = Missing \/ (Get(index, k) \in ToSet(array) /\ Self(Get(index, k)) = k)
  <2>1. CASE k \in keys
    <3>1. PICK r \in ToSet(array) : k = Self(r)
      BY <1>2, <2>1
    <3>. QED BY <1>6, <3>1
  <2>2. CASE k \notin keys
    BY <1>4, <2>2 DEF Get
  <2>. QED BY <2>1, <2>2
<1>. QED BY <1>1, <1>2, <1>3, <1>4, <1>5, <1>6, <1>7

LEMMA LedgerElements ==
    ASSUME NEW array, Ledger(array)
    PROVE  /\ IsFiniteSet(ToSet(array)) /\ ToSet(array) \subseteq Events
           /\ Keyed(array, "events") => Stock(array, "events", Events)
BY ElementsFinite, EventsApart DEF Ledger, Stock

\* The past is kept where every event of it is there still.
LEMMA KeepsPast ==
    ASSUME NEW base, Ledger(base), NEW side, Ledger(side)
    PROVE  KeepsHistory(base, side) <=> ToSet(base) \subseteq ToSet(side)
<1> DEFINE B == Index(base, "events")
           S == Index(side, "events")
<1>1. base # Missing /\ side # Missing
  BY EventsApart DEF Ledger
<1>2. KeepsHistory(base, side) <=> \A key \in DOMAIN B : Get(S, key) = B[key]
  BY <1>1 DEF KeepsHistory
<1>3. /\ DOMAIN B = {Self(r) : r \in ToSet(base)}
      /\ \A r \in ToSet(base) : B[Self(r)] = r
  BY LedgerIndex
<1>4. /\ \A r \in ToSet(side) : Get(S, Self(r)) = r
      /\ \A k : Get(S, k) = Missing \/ Get(S, k) \in ToSet(side)
  BY LedgerIndex
<1>5. \A r \in ToSet(base) : r # Missing
  BY LedgerElements, EventsApart
<1> HIDE DEF B, S
<1>6. (\A key \in DOMAIN B : Get(S, key) = B[key]) <=> \A r \in ToSet(base) : Get(S, Self(r)) = r
  BY <1>3
<1>7. ASSUME NEW r \in ToSet(base) PROVE Get(S, Self(r)) = r <=> r \in ToSet(side)
  BY <1>4, <1>5
<1>. QED BY <1>2, <1>6, <1>7

LEMMA InOrderKeeps ==
    ASSUME NEW T, NEW events \in Seq(T)
    PROVE  InOrder(events) \in Seq(T) /\ ToSet(InOrder(events)) = ToSet(events)
<1> DEFINE D == DOMAIN events
           orders == {[n \in D |-> events[f[n]]] : f \in Bijection(D, D)}
           order == InOrder(events)
<1>1. [n \in D |-> n] \in Bijection(D, D)
  BY DEF Bijection, Injection, Surjection, IsInjective
<1>2. orders # {}
  BY <1>1
<1>3. order \in orders
  BY <1>2 DEF InOrder
<1>4. PICK f \in Bijection(D, D) : order = [n \in D |-> events[f[n]]]
  BY <1>3
<1>5. f \in [D -> D] /\ \A n \in D : \E k \in D : f[k] = n
  BY DEF Bijection, Surjection
<1> HIDE DEF order, orders
<1>6. D = 1..Len(events) /\ Len(events) \in Nat /\ \A n \in D : events[n] \in T
  OBVIOUS
<1>7. order \in Seq(T)
  BY <1>4, <1>5, <1>6
<1>8. DOMAIN order = D /\ \A n \in D : order[n] = events[f[n]]
  BY <1>4
<1>9. ToSet(order) = ToSet(events)
  BY <1>5, <1>8 DEF ToSet
<1>. QED BY <1>7, <1>9 DEF order

(***************************************************************************)
(* EventsSurvive.                                                          *)
(***************************************************************************)
\* What is made of three histories, but for their order.
Joined(b, l, i) == ThreeWay(b, l, i, MergeEvents)

LEMMA JoinedCases ==
    ASSUME NEW b, NEW l, NEW i
    PROVE  /\ ~Clash(b, l, i) => Joined(b, l, i) = Mix(b, l, i)
           /\ Clash(b, l, i) =>
                Joined(b, l, i) = IF b # Missing /\ l # Missing /\ i # Missing THEN MergeArray("events", b, l, i) ELSE Conflict
BY DEF Joined, ThreeWay, MergeEvents, Clash, Mix

LEMMA JoinedSymmetric ==
    ASSUME NEW b, NEW l, NEW i PROVE Joined(b, l, i) = Joined(b, i, l)
BY JoinedCases, ArraySymmetric DEF Clash, Mix

\* A conflict, or a merge: every history is sound and both sides keep the past.
LEMMA ReconciledHistories ==
    ASSUME NEW b, NEW l, NEW i
    PROVE  ReconciledEvents(b, l, i) =
             IF \/ \E events \in {b, l, i} \ {Missing} : ~Distinct(events, "events")
                \/ ~KeepsHistory(b, l)
                \/ ~KeepsHistory(b, i)
                \/ Joined(b, l, i) = Conflict
             THEN Conflict ELSE InOrder(Joined(b, l, i))
BY DEF ReconciledEvents, Joined

LEMMA EventsSymmetric ==
    ASSUME NEW b, NEW l, NEW i PROVE ReconciledEvents(b, l, i) = ReconciledEvents(b, i, l)
<1>1. \A events : events \in {b, l, i} \ {Missing} <=> events \in {b, i, l} \ {Missing}
  OBVIOUS
<1>2. Joined(b, l, i) = Joined(b, i, l)
  BY JoinedSymmetric
<1>. QED BY <1>1, <1>2, ReconciledHistories

\* Three histories of events with ids, merged by them.
LEMMA KeyedEventsJoin ==
    ASSUME NEW b, Stock(b, "events", Events), NEW l, Stock(l, "events", Events), NEW i, Stock(i, "events", Events),
           ToSet(b) \subseteq ToSet(l), ToSet(b) \subseteq ToSet(i), Clash(b, l, i),
           NEW m, m = MergeByKey(Index(b, "events"), Index(l, "events"), Index(i, "events")), m # Conflict
    PROVE  m \in Seq(Events) /\ ToSet(m) = ToSet(l) \cup ToSet(i)
<1> DEFINE key(r) == Key(r, "events")
           B(r) == At(b, "events", key(r))
           L(r) == At(l, "events", key(r))
           I(r) == At(i, "events", key(r))
           M(r) == At(m, "events", key(r))
<1>1. MergedByKey(m, "events", Events, b, l, i)
  BY EventsApart, ByKeyMerges
<1>2. Stock(m, "events", Events) /\ \A r : ~Clash(B(r), L(r), I(r)) /\ M(r) = Mix(B(r), L(r), I(r))
  BY <1>1 DEF MergedByKey
<1>3. /\ \A r \in ToSet(b) : B(r) = r
      /\ \A r \in ToSet(l) : L(r) = r
      /\ \A r \in ToSet(i) : I(r) = r
      /\ \A r \in ToSet(m) : M(r) = r
  BY <1>2, AtFinds
<1>4. \A r : /\ B(r) = Missing \/ B(r) \in ToSet(b)
             /\ L(r) = Missing \/ L(r) \in ToSet(l)
             /\ I(r) = Missing \/ I(r) \in ToSet(i)
             /\ M(r) = Missing \/ M(r) \in ToSet(m)
  BY <1>2, AtInside
<1>5. \A r \in ToSet(l) \cup ToSet(i) \cup ToSet(m) : r # Missing
  BY <1>2, StockElements
<1> HIDE DEF B, L, I, M
<1>6. ASSUME NEW r \in ToSet(m) PROVE r \in ToSet(l) \cup ToSet(i)
  BY <1>2, <1>3, <1>4, <1>5 DEF Mix
<1>7. ASSUME NEW r \in ToSet(l) PROVE r \in ToSet(m)
  <2>1. M(r) = r
    <3>1. CASE B(r) = r
      BY <1>2, <1>3, <1>4, <1>5, <3>1 DEF Mix
    <3>2. CASE B(r) # r
      BY <1>2, <1>3, <3>2 DEF Mix
    <3>. QED BY <3>1, <3>2
  <2>. QED BY <1>4, <1>5, <2>1
<1>8. ASSUME NEW r \in ToSet(i) PROVE r \in ToSet(m)
  <2>1. M(r) = r
    <3>1. CASE B(r) = r
      BY <1>2, <1>3, <1>4, <1>5, <3>1 DEF Mix
    <3>2. CASE B(r) # r
      BY <1>2, <1>3, <3>2 DEF Mix, Clash
    <3>. QED BY <3>1, <3>2
  <2>. QED BY <1>4, <1>5, <2>1
<1>. QED BY <1>2, <1>6, <1>7, <1>8 DEF Stock

\* Three histories, some of whose events have no id, are put together.
LEMMA HistoriesJoin ==
    ASSUME NEW b, Ledger(b), NEW l, Ledger(l), NEW i, Ledger(i),
           NEW m, m = MergeHistory(Index(b, "events"), Index(l, "events"), Index(i, "events")), m # Conflict
    PROVE  m \in Seq(Events) /\ ToSet(m) = ToSet(l) \cup ToSet(i)
<1> DEFINE L == Index(l, "events")
           I == Index(i, "events")
           S == ToSet(l) \cup ToSet(i)
<1>1. {L[key] : key \in DOMAIN L} = ToSet(l) /\ {I[key] : key \in DOMAIN I} = ToSet(i)
  BY LedgerIndex
<1>2. m = SetToSeq({L[key] : key \in DOMAIN L} \cup {I[key] : key \in DOMAIN I})
  BY DEF MergeHistory
<1> HIDE DEF L, I
<1>3. m = SetToSeq(S)
  BY <1>1, <1>2
<1>4. IsFiniteSet(S) /\ S \subseteq Events
  BY LedgerElements, FS_Union
<1> HIDE DEF S
<1>5. m \in Seq(S) /\ ToSet(m) = S
  BY <1>3, <1>4, ListOfSet
<1>. QED BY <1>4, <1>5 DEF S

\* Nothing is lost and nothing added.
LEMMA JoinedHolds ==
    ASSUME NEW l, Ledger(l), NEW i, Ledger(i),
           NEW b, b = Missing \/ (Ledger(b) /\ ToSet(b) \subseteq ToSet(l) /\ ToSet(b) \subseteq ToSet(i)),
           NEW m, m = Joined(b, l, i), m # Conflict
    PROVE  m \in Seq(Events) /\ ToSet(m) = ToSet(l) \cup ToSet(i)
<1>1. l # Missing /\ i # Missing /\ l \in Seq(Events) /\ i \in Seq(Events)
  BY EventsApart DEF Ledger
<1>2. CASE ~Clash(b, l, i)
  <2>1. m = Mix(b, l, i)
    BY <1>2, JoinedCases
  <2>2. CASE l # b
    <3>1. m = l /\ (b = i \/ l = i)
      BY <1>2, <2>1, <2>2 DEF Mix, Clash
    <3>2. ToSet(i) \subseteq ToSet(l)
      BY <1>1, <3>1
    <3>. QED BY <1>1, <3>1, <3>2
  <2>3. CASE l = b
    <3>1. m = i
      BY <2>1, <2>3 DEF Mix
    <3>2. ToSet(l) \subseteq ToSet(i)
      BY <1>1, <2>3
    <3>. QED BY <1>1, <3>1, <3>2
  <2>. QED BY <2>2, <2>3
<1>3. CASE Clash(b, l, i)
  <2>1. b # Missing /\ m = MergeArray("events", b, l, i)
    BY <1>3, JoinedCases
  <2>2. Ledger(b) /\ ToSet(b) \subseteq ToSet(l) /\ ToSet(b) \subseteq ToSet(i)
    BY <2>1
  <2>3. CASE Keyed(b, "events") /\ Keyed(l, "events") /\ Keyed(i, "events")
    <3>1. Stock(b, "events", Events) /\ Stock(l, "events", Events) /\ Stock(i, "events", Events)
      BY <2>2, <2>3, LedgerElements
    <3>2. m = MergeByKey(Index(b, "events"), Index(l, "events"), Index(i, "events"))
      BY <2>1, <2>3 DEF MergeArray
    <3>. QED BY <1>3, <2>2, <3>1, <3>2, KeyedEventsJoin
  <2>4. CASE ~(Keyed(b, "events") /\ Keyed(l, "events") /\ Keyed(i, "events"))
    <3>1. m = MergeHistory(Index(b, "events"), Index(l, "events"), Index(i, "events"))
      BY <2>1, <2>4 DEF MergeArray, Histories
    <3>. QED BY <2>2, <3>1, HistoriesJoin
  <2>. QED BY <2>3, <2>4
<1>. QED BY <1>2, <1>3

\* Two events of one id are one event.
Agree(l, i) ==
    \A first, second \in ToSet(l) \cup ToSet(i) :
        Key(first, "events") = Missing \/ Key(first, "events") # Key(second, "events") \/ first = second

\* Where both sides only add to a past they agree on, they can be joined.
LEMMA AdditionsJoin ==
    ASSUME NEW b, Ledger(b), NEW l, Ledger(l), NEW i, Ledger(i),
           ToSet(b) \subseteq ToSet(l), ToSet(b) \subseteq ToSet(i), Agree(l, i)
    PROVE  Joined(b, l, i) # Conflict
<1>1. /\ b # Missing /\ l # Missing /\ i # Missing
      /\ b # Conflict /\ l # Conflict /\ i # Conflict
  BY EventsApart DEF Ledger
<1>2. CASE ~Clash(b, l, i)
  BY <1>1, <1>2, JoinedCases DEF Mix
<1>3. CASE Clash(b, l, i)
  <2>1. Joined(b, l, i) = MergeArray("events", b, l, i)
    BY <1>1, <1>3, JoinedCases
  <2>2. CASE Keyed(b, "events") /\ Keyed(l, "events") /\ Keyed(i, "events")
    <3>1. Stock(b, "events", Events) /\ Stock(l, "events", Events) /\ Stock(i, "events", Events)
      BY <2>2, LedgerElements
    <3>2. PICK m : m = MergeByKey(Index(b, "events"), Index(l, "events"), Index(i, "events"))
      OBVIOUS
    <3>3. Joined(b, l, i) = m
      BY <2>1, <2>2, <3>2 DEF MergeArray
    <3>4. ASSUME m = Conflict PROVE FALSE
      <4>1. ClashingKey("events", b, l, i)
        BY <3>1, <3>2, <3>4, EventsApart, ByKeyMerges
      <4>2. PICK k : Clash(At(b, "events", k), At(l, "events", k), At(i, "events", k))
        BY <4>1 DEF ClashingKey
      <4>3. /\ At(b, "events", k) = Missing \/ (At(b, "events", k) \in ToSet(b) /\ Key(At(b, "events", k), "events") = k)
            /\ At(l, "events", k) = Missing \/ (At(l, "events", k) \in ToSet(l) /\ Key(At(l, "events", k), "events") = k)
            /\ At(i, "events", k) = Missing \/ (At(i, "events", k) \in ToSet(i) /\ Key(At(i, "events", k), "events") = k)
        BY <3>1, AtInside
      <4>4. \A r \in ToSet(b) : At(l, "events", Key(r, "events")) = r /\ At(i, "events", Key(r, "events")) = r
        BY <3>1, AtFinds
      <4>5. \A r \in ToSet(l) \cup ToSet(i) : Key(r, "events") # Missing
        BY <3>1, StockElements
      <4>6. At(b, "events", k) = Missing
        BY <4>2, <4>3, <4>4 DEF Clash
      <4>7. At(l, "events", k) # Missing /\ At(i, "events", k) # Missing
        BY <4>2, <4>6 DEF Clash
      <4>8. At(l, "events", k) = At(i, "events", k)
        BY <4>3, <4>5, <4>7 DEF Agree
      <4>. QED BY <4>2, <4>8 DEF Clash
    <3>. QED BY <3>3, <3>4
  <2>3. CASE ~(Keyed(b, "events") /\ Keyed(l, "events") /\ Keyed(i, "events"))
    <3> DEFINE B == Index(b, "events")
               L == Index(l, "events")
               I == Index(i, "events")
    <3>1. Joined(b, l, i) = MergeHistory(B, L, I)
      BY <2>1, <2>3 DEF MergeArray, Histories
    <3>2. \A key \in DOMAIN B : B[key] = Get(L, key) /\ B[key] = Get(I, key)
      <4>1. KeepsHistory(b, l) /\ KeepsHistory(b, i)
        BY KeepsPast
      <4>. QED BY <1>1, <4>1 DEF KeepsHistory
    <3>3. ASSUME NEW key \in DOMAIN L \cap DOMAIN I PROVE L[key] = I[key]
      <4>0. /\ DOMAIN L = {Self(r) : r \in ToSet(l)} /\ \A r \in ToSet(l) : L[Self(r)] = r
            /\ DOMAIN I = {Self(s) : s \in ToSet(i)} /\ \A s \in ToSet(i) : I[Self(s)] = s
        BY LedgerIndex
      <4> HIDE DEF L, I
      <4>1. PICK r \in ToSet(l) : key = Self(r) /\ L[key] = r
        BY <4>0
      <4>2. PICK s \in ToSet(i) : key = Self(s) /\ I[key] = s
        BY <4>0
      <4>3. r \in Events /\ s \in Events
        BY LedgerElements
      <4>4. r = s \/ (Key(r, "events") # Missing /\ Key(r, "events") = Key(s, "events"))
        BY <4>1, <4>2, <4>3, SelfTells
      <4>5. r = s
        BY <4>4 DEF Agree
      <4>. QED BY <4>1, <4>2, <4>5
    <3>4. MergeHistory(B, L, I) = SetToSeq({L[key] : key \in DOMAIN L} \cup {I[key] : key \in DOMAIN I})
      BY <3>2, <3>3 DEF MergeHistory
    <3>5. {L[key] : key \in DOMAIN L} \cup {I[key] : key \in DOMAIN I} = ToSet(l) \cup ToSet(i)
      BY LedgerIndex
    <3>6. IsFiniteSet(ToSet(l) \cup ToSet(i)) /\ ToSet(l) \cup ToSet(i) \subseteq Events
      BY LedgerElements, FS_Union
    <3> HIDE DEF B, L, I
    <3>7. MergeHistory(B, L, I) = SetToSeq(ToSet(l) \cup ToSet(i))
      BY <3>4, <3>5
    <3>8. MergeHistory(B, L, I) \in Seq(Events)
      BY <3>6, <3>7, ListOfSet
    <3>. QED BY <3>1, <3>8, EventsApart
  <2>. QED BY <2>2, <2>3
<1>. QED BY <1>2, <1>3

LEMMA PrefixKeeps ==
    ASSUME NEW b \in Seq(Events), NEW l, Ledger(l), IsPrefix(b, l)
    PROVE  Ledger(b) /\ ToSet(b) \subseteq ToSet(l)
<1>1. l \in Seq(Events)
  BY DEF Ledger
<1>2. Len(b) <= Len(l) /\ \A n \in 1..Len(b) : b[n] = l[n]
  <2>1. Len(b) <= Len(l) /\ SubSeq(b, 1, Len(b)) = SubSeq(l, 1, Len(b))
    BY DEF IsPrefix
  <2>2. ASSUME NEW n \in 1..Len(b) PROVE b[n] = l[n]
    <3>1. SubSeq(b, 1, Len(b))[n] = b[n] /\ SubSeq(l, 1, Len(b))[n] = l[n]
      BY <1>1, <2>1
    <3>. QED BY <2>1, <3>1
  <2>. QED BY <2>1, <2>2
<1>3. \A n \in DOMAIN b : n \in DOMAIN l /\ b[n] = l[n]
  BY <1>1, <1>2
<1>4. Distinct(b, "events")
  BY <1>3 DEF Ledger, Distinct
<1>5. ToSet(b) \subseteq ToSet(l)
  BY <1>3 DEF ToSet
<1>. QED BY <1>4, <1>5 DEF Ledger

\* A merge of any two histories holds every event of either and nothing else, loses none of their common past,
\* does not depend on whose side is whose, and does not fail where both only added to the past.
THEOREM EventsAlwaysSurvive == EventsSurvive
<1> SUFFICES ASSUME NEW b \in EventArrays, NEW l \in EventArrays, NEW i \in EventArrays
             PROVE  LET m == ReconciledEvents(b, l, i)
                    IN /\ m = ReconciledEvents(b, i, l)
                       /\ m # Conflict =>
                             /\ ToSet(m) = ToSet(l) \cup ToSet(i)
                             /\ b # Missing => ToSet(b) \subseteq ToSet(m)
                       /\ /\ Missing \notin {b, l, i}
                          /\ IsPrefix(b, l) /\ IsPrefix(b, i)
                          /\ Distinct(l, "events") /\ Distinct(i, "events")
                          /\ Agree(l, i)
                          => m # Conflict
  BY DEF EventsSurvive, Agree
<1> DEFINE m == ReconciledEvents(b, l, i)
           j == Joined(b, l, i)
<1>1. m = ReconciledEvents(b, i, l)
  BY EventsSymmetric
<1>2. \A events \in {b, l, i} : events = Missing \/ events \in Seq(Events)
  BY EventsApart
<1>3. m = IF \/ \E events \in {b, l, i} \ {Missing} : ~Distinct(events, "events")
            \/ ~KeepsHistory(b, l)
            \/ ~KeepsHistory(b, i)
            \/ j = Conflict
          THEN Conflict ELSE InOrder(j)
  BY ReconciledHistories
<1> HIDE DEF m, j
<1>4. ASSUME m # Conflict PROVE ToSet(m) = ToSet(l) \cup ToSet(i) /\ (b # Missing => ToSet(b) \subseteq ToSet(m))
  <2>1. /\ \A events \in {b, l, i} \ {Missing} : Ledger(events)
        /\ KeepsHistory(b, l) /\ KeepsHistory(b, i) /\ j # Conflict /\ m = InOrder(j)
    BY <1>2, <1>3, <1>4 DEF Ledger
  <2>2. l # Missing /\ i # Missing /\ Ledger(l) /\ Ledger(i)
    BY <2>1 DEF KeepsHistory
  <2>3. b # Missing => Ledger(b) /\ ToSet(b) \subseteq ToSet(l) /\ ToSet(b) \subseteq ToSet(i)
    BY <2>1, <2>2, KeepsPast
  <2>4. j \in Seq(Events) /\ ToSet(j) = ToSet(l) \cup ToSet(i)
    BY <2>1, <2>2, <2>3, JoinedHolds DEF j
  <2>5. ToSet(m) = ToSet(j)
    BY <2>1, <2>4, InOrderKeeps
  <2>. QED BY <2>3, <2>4, <2>5
<1>5. ASSUME Missing \notin {b, l, i}, IsPrefix(b, l), IsPrefix(b, i),
             Distinct(l, "events"), Distinct(i, "events"), Agree(l, i)
      PROVE  m # Conflict
  <2>1. b \in Seq(Events) /\ Ledger(l) /\ Ledger(i)
    BY <1>2, <1>5 DEF Ledger
  <2>2. Ledger(b) /\ ToSet(b) \subseteq ToSet(l) /\ ToSet(b) \subseteq ToSet(i)
    BY <1>5, <2>1, PrefixKeeps
  <2>3. KeepsHistory(b, l) /\ KeepsHistory(b, i)
    BY <2>1, <2>2, KeepsPast
  <2>4. j # Conflict
    BY <1>5, <2>1, <2>2, AdditionsJoin DEF j
  <2>5. m = InOrder(j)
    BY <1>3, <2>1, <2>2, <2>3, <2>4 DEF Ledger
  <2>6. j \in Seq(Events)
    BY <2>1, <2>2, <2>4, JoinedHolds DEF j
  <2>7. InOrder(j) \in Seq(Events)
    BY <2>6, InOrderKeeps
  <2>. QED BY <2>5, <2>7, EventsApart
<1>. QED BY <1>1, <1>4, <1>5 DEF m
===============================================================================
