------------------------ MODULE DataTransformProofs ------------------------
(***************************************************************************)
(* Proofs about DataTransform for lists of any length, rows of any fields, *)
(* keys of any number of fields and any separator that is not empty.       *)
(*                                                                         *)
(* The helpers are reduces, which are folds over the places of a list.     *)
(* What a fold returns is shown by taking, among the sets of places for    *)
(* which the claim would fail, one that includes no other: without its     *)
(* last place the claim holds, and one step of the reduce makes it hold    *)
(* there as well.                                                          *)
(***************************************************************************)
EXTENDS DataTransform, FiniteSetTheorems, WellFoundedInduction, TLAPS

-----------------------------------------------------------------------------
(* Folds.                                                                   *)

\* What the reduces of DataTransform do with one more element, by name.
Step(reduce, item, acc) ==
  CASE reduce = "merge" -> Override(acc, item)
    [] reduce = "deepmerge" -> MergeDeep(acc, item)
    [] reduce = "push" -> Append(acc, item)
    [] reduce = "group" ->
         LET key == GroupKey(item, PkNames, Empty)
         IN  Override(acc, Entry(key, IF key \in DOMAIN acc THEN Append(acc[key], item) ELSE <<item>>))
    [] reduce = "join" -> acc \o Separator \o item
    [] reduce = "distinct" ->
         IF Read(item, PkName) \in ToSet(acc) THEN acc ELSE Append(acc, Read(item, PkName))

Added(reduce, base, items, f, s) ==
  IF s = {} THEN base ELSE Step(reduce, items[Max(s)], f[s \ {Max(s)}])
Folds(reduce, base, items, f, D) ==
  f = [s \in SUBSET D |-> Added(reduce, base, items, f, s)]
Folding(reduce, base, items, D) == CHOOSE f : Folds(reduce, base, items, f, D)
Fold(reduce, base, items, D) == Folding(reduce, base, items, D)[D]

Places(D) == D \in SUBSET Nat /\ IsFiniteSet(D)

\* Among subsets of a finite set there is one that includes no other.
LEMMA MinimalSubset ==
  ASSUME NEW S, IsFiniteSet(S), NEW T \in SUBSET SUBSET S, T # {}
  PROVE  \E s \in T : \A u \in T : ~(u \subseteq s /\ u # s)
<1>1. IsWellFoundedOn(StrictSubsetOrdering(S), SUBSET S)
  BY FS_StrictSubsetOrderingWellFounded, FS_FiniteSubsetsOfFinite
<1>2. \E s \in T : \A u \in T : <<u, s>> \notin StrictSubsetOrdering(S)
  BY <1>1, WFMin
<1> QED BY <1>2 DEF StrictSubsetOrdering

\* A finite set of places has a last one.
LEMMA LastPlace ==
  ASSUME NEW D, Places(D), D # {}
  PROVE  Max(D) \in D /\ Max(D) \in Nat /\ \A i \in D : i <= Max(D)
<1> DEFINE From(i) == {j \in D : j >= i}
<1> DEFINE Tails == {From(i) : i \in D}
<1>1. PICK s \in Tails : \A u \in Tails : ~(u \subseteq s /\ u # s)
  <2>1. Tails \in SUBSET SUBSET D /\ Tails # {}
    OBVIOUS
  <2>2. IsFiniteSet(D)
    BY DEF Places
  <2> HIDE DEF Tails
  <2> QED BY <2>1, <2>2, MinimalSubset
<1>2. PICK i \in D : s = From(i)
  OBVIOUS
<1>3. D \subseteq Nat
  BY DEF Places
<1>4. ASSUME NEW j \in D, ~(j <= i) PROVE FALSE
  <2>0. i \in Nat /\ j \in Nat /\ i < j /\ \A k \in D : k \in Nat
    BY <1>3, <1>4
  <2>a. i \in From(i) /\ i \notin From(j)
    BY <2>0
  <2>b. ASSUME NEW k \in From(j) PROVE k \in From(i)
    BY <2>0
  <2>1. From(j) \subseteq From(i) /\ i \in From(i) /\ i \notin From(j)
    BY <2>a, <2>b
  <2> QED BY <1>1, <1>2, <2>1
<1>5. \E x \in D : \A y \in D : x >= y
  BY <1>3, <1>4
<1> QED BY <1>3, <1>5 DEF Max

\* Parts of a set of places are sets of places; the rest of one is smaller.
LEMMA RestOfPlaces ==
  ASSUME NEW D, Places(D), NEW s \in SUBSET D
  PROVE  /\ Places(s)
         /\ s # {} => /\ s \ {Max(s)} \in SUBSET s /\ s \ {Max(s)} # s
                      /\ Places(s \ {Max(s)})
<1>1. Places(s)
  BY FS_Subset DEF Places
<1>2. ASSUME s # {} PROVE Max(s) \in s /\ Places(s \ {Max(s)})
  BY <1>1, <1>2, LastPlace, FS_Subset DEF Places
<1> QED BY <1>1, <1>2

\* Two folds agree where they are defined on the same items.
LEMMA FoldsAgree ==
  ASSUME NEW A, NEW B, Places(A), NEW f, NEW g, NEW reduce, NEW base, NEW items, NEW others,
         Folds(reduce, base, items, f, A), Folds(reduce, base, others, g, B),
         NEW s, s \subseteq A, s \subseteq B,
         \A i \in s : items[i] = others[i]
  PROVE  f[s] = g[s]
<1> DEFINE Bad == {u \in SUBSET s : f[u] # g[u]}
<1> SUFFICES ASSUME Bad # {} PROVE FALSE
  OBVIOUS
<1>1. PICK u \in Bad : \A v \in Bad : ~(v \subseteq u /\ v # u)
  <2> HIDE DEF Bad
  <2>1. Bad \in SUBSET SUBSET A /\ IsFiniteSet(A)
    BY DEF Bad, Places
  <2> QED BY <2>1, MinimalSubset
<1>2. /\ f[u] = Added(reduce, base, items, f, u)
      /\ g[u] = Added(reduce, base, others, g, u)
  BY DEF Folds
<1>3. u # {}
  BY <1>2 DEF Added
<1>4. Max(u) \in u /\ u \ {Max(u)} \in SUBSET u /\ u \ {Max(u)} # u
  BY <1>3, RestOfPlaces, LastPlace
<1>5. f[u \ {Max(u)}] = g[u \ {Max(u)}]
  BY <1>1, <1>4
<1>6. items[Max(u)] = others[Max(u)]
  BY <1>4
<1> QED BY <1>2, <1>5, <1>6 DEF Added

\* Every fold over a finite set of places exists.
LEMMA FoldsExist ==
  ASSUME NEW D, Places(D), NEW reduce, NEW base, NEW items
  PROVE  Folds(reduce, base, items, Folding(reduce, base, items, D), D)
<1> DEFINE Of(s) == Folding(reduce, base, items, s)
<1> DEFINE Bad == {t \in SUBSET D : ~Folds(reduce, base, items, Of(t), t)}
<1> SUFFICES ASSUME Bad # {} PROVE FALSE
  OBVIOUS
<1>1. PICK t \in Bad : \A v \in Bad : ~(v \subseteq t /\ v # t)
  <2> HIDE DEF Bad
  <2>1. Bad \in SUBSET SUBSET D /\ IsFiniteSet(D)
    BY DEF Bad, Places
  <2> QED BY <2>1, MinimalSubset
<1>p. Places(t)
  BY RestOfPlaces
<1>2. ASSUME NEW v \in SUBSET t, v # t PROVE Folds(reduce, base, items, Of(v), v) /\ Places(v)
  BY <1>1, <1>2, RestOfPlaces
<1> DEFINE glue == [s \in SUBSET t |-> IF s = {} THEN base
                     ELSE Step(reduce, items[Max(s)], Of(s \ {Max(s)})[s \ {Max(s)}])]
<1>3. ASSUME NEW s \in SUBSET t PROVE glue[s] = Added(reduce, base, items, glue, s)
  <2>1. CASE s = {}
    BY <2>1 DEF Added
  <2>2. CASE s # {}
    <3> DEFINE v == s \ {Max(s)}
    <3> DEFINE w == v \ {Max(v)}
    <3>1. v \in SUBSET t /\ v # t
      BY <1>p, <2>2, LastPlace, RestOfPlaces
    <3>2. v # {} => w \in SUBSET t /\ w # t /\ w \subseteq v
      BY <1>p, <3>1, RestOfPlaces
    <3>3. glue[s] = Step(reduce, items[Max(s)], Of(v)[v])
      BY <2>2
    <3>4. Of(v)[v] = Added(reduce, base, items, Of(v), v)
      <4> HIDE DEF Of, v
      <4> QED BY <1>2, <3>1 DEF Folds
    <3>5. v # {} => Of(v)[w] = Of(w)[w]
      <4> HIDE DEF Of, w, v
      <4> QED BY <1>2, <3>1, <3>2, FoldsAgree
    <3>6. glue[v] = Of(v)[v]
      <4>1. CASE v = {}
        BY <3>1, <3>4, <4>1 DEF Added
      <4>2. CASE v # {}
        <5>1. glue[v] = Step(reduce, items[Max(v)], Of(w)[w])
          BY <3>1, <4>2
        <5> QED BY <3>4, <3>5, <4>2, <5>1 DEF Added
      <4> QED BY <4>1, <4>2
    <3> QED BY <2>2, <3>3, <3>6 DEF Added
  <2> QED BY <2>1, <2>2
<1>4. Folds(reduce, base, items, glue, t)
  <2>1. glue = [s \in SUBSET t |-> glue[s]]
    OBVIOUS
  <2> HIDE DEF glue
  <2> QED BY <1>3, <2>1 DEF Folds
<1>5. Folds(reduce, base, items, Of(t), t)
  BY <1>4 DEF Folding
<1> QED BY <1>1, <1>5

\* What a fold over places returns: base, or one more step.
LEMMA FoldStep ==
  ASSUME NEW D, Places(D), NEW reduce, NEW base, NEW items
  PROVE  Fold(reduce, base, items, D) =
           IF D = {} THEN base
           ELSE Step(reduce, items[Max(D)], Fold(reduce, base, items, D \ {Max(D)}))
<1> DEFINE f == Folding(reduce, base, items, D)
<1>1. Folds(reduce, base, items, f, D)
  BY FoldsExist
<1>2. f[D] = Added(reduce, base, items, f, D)
  <2> HIDE DEF f
  <2> QED BY <1>1 DEF Folds
<1>3. ASSUME D # {} PROVE f[D \ {Max(D)}] = Fold(reduce, base, items, D \ {Max(D)})
  <2> DEFINE E == D \ {Max(D)}
  <2> DEFINE g == Folding(reduce, base, items, E)
  <2>1. Places(E) /\ E \subseteq D
    BY <1>3, RestOfPlaces
  <2>2. Folds(reduce, base, items, g, E)
    BY <2>1, FoldsExist
  <2>3. f[E] = g[E]
    <3> HIDE DEF f, g, E
    <3> QED BY <1>1, <2>1, <2>2, FoldsAgree
  <2> QED BY <2>3 DEF Fold
<1> QED BY <1>2, <1>3 DEF Fold, Added

\* A fold depends on the items at its places only.
LEMMA FoldSame ==
  ASSUME NEW D, Places(D), NEW reduce, NEW base, NEW items, NEW others,
         \A i \in D : items[i] = others[i]
  PROVE  Fold(reduce, base, items, D) = Fold(reduce, base, others, D)
BY FoldsExist, FoldsAgree DEF Fold

-----------------------------------------------------------------------------
(* The helpers.                                                             *)

\* The greatest place of a set is the one no other exceeds.
LEMMA GreatestPlace ==
  ASSUME NEW D, Places(D), NEW m \in D, \A i \in D : i <= m
  PROVE  Max(D) = m
<1>1. Max(D) \in D /\ Max(D) \in Nat /\ m <= Max(D) /\ D \subseteq Nat
  BY LastPlace DEF Places
<1> QED BY <1>1

\* The places of a sequence, and of one with another element.
LEMMA PlacesOf ==
  ASSUME NEW S, NEW s \in Seq(S)
  PROVE  /\ Places(DOMAIN s) /\ DOMAIN s = 1 .. Len(s)
         /\ DOMAIN s # {} => Max(DOMAIN s) = Len(s)
<1>1. DOMAIN s = 1 .. Len(s) /\ Len(s) \in Nat
  OBVIOUS
<1>2. Places(1 .. Len(s))
  BY <1>1, FS_Interval DEF Places
<1>3. ASSUME DOMAIN s # {} PROVE Max(DOMAIN s) = Len(s)
  <2>1. Len(s) \in 1 .. Len(s) /\ \A i \in 1 .. Len(s) : i <= Len(s)
    BY <1>1, <1>3
  <2> QED BY <1>1, <1>2, <2>1, GreatestPlace
<1> QED BY <1>1, <1>2, <1>3

\* RowsAt pushes one row after the other.
LEMMA RowsAtIsFold ==
  ASSUME NEW D, Places(D), NEW rows
  PROVE  RowsAt(rows, D) = Fold("push", <<>>, rows, D)
<1> DEFINE Its(f) == f = [s \in SUBSET D |-> IF s = {} THEN <<>>
                           ELSE Append(f[s \ {Max(s)}], rows[Max(s)])]
<1>1. RowsAt(rows, D) = (CHOOSE f : Its(f))[D]
  BY DEF RowsAt, MapThenFoldSet
<1>2. ASSUME NEW f PROVE Its(f) <=> Folds("push", <<>>, rows, f, D)
  BY DEF Folds, Added, Step
<1> QED BY <1>1, <1>2, FoldsExist DEF Folding, Fold

\* The rows at a set of places end with the one at its last place.
LEMMA RowsAtStep ==
  ASSUME NEW D, Places(D), NEW rows
  PROVE  RowsAt(rows, D) =
           IF D = {} THEN <<>> ELSE Append(RowsAt(rows, D \ {Max(D)}), rows[Max(D)])
<1>1. Fold("push", <<>>, rows, D) =
        IF D = {} THEN <<>>
        ELSE Step("push", rows[Max(D)], Fold("push", <<>>, rows, D \ {Max(D)}))
  BY FoldStep
<1>2. D # {} => Places(D \ {Max(D)})
  BY RestOfPlaces
<1> QED BY <1>1, <1>2, RowsAtIsFold DEF Step

\* mergeObjects overrides one object after the other.
LEMMA MergeIsFold ==
  ASSUME NEW objects, Places(DOMAIN objects)
  PROVE  mergeObjects(objects) = Fold("merge", NoObject, objects, DOMAIN objects)
<1> DEFINE D == DOMAIN objects
<1> DEFINE Its(f) == f = [s \in SUBSET D |-> IF s = {} THEN NoObject
                           ELSE Override(f[s \ {Max(s)}], objects[Max(s)])]
<1>1. mergeObjects(objects) = (CHOOSE f : Its(f))[D]
  BY DEF mergeObjects, FoldLeft, MapThenFoldSet
<1>2. ASSUME NEW f PROVE Its(f) <=> Folds("merge", NoObject, objects, f, D)
  BY DEF Folds, Added, Step
<1> QED BY <1>1, <1>2, FoldsExist DEF Folding, Fold

\* deepMergeAll merges one object after the other.
LEMMA DeepMergeIsFold ==
  ASSUME NEW objects, Places(DOMAIN objects)
  PROVE  deepMergeAll(objects) = Fold("deepmerge", NoObject, objects, DOMAIN objects)
<1> DEFINE D == DOMAIN objects
<1> DEFINE Its(f) == f = [s \in SUBSET D |-> IF s = {} THEN NoObject
                           ELSE MergeDeep(f[s \ {Max(s)}], objects[Max(s)])]
<1>1. deepMergeAll(objects) = (CHOOSE f : Its(f))[D]
  BY DEF deepMergeAll, FoldLeft, MapThenFoldSet
<1>2. ASSUME NEW f PROVE Its(f) <=> Folds("deepmerge", NoObject, objects, f, D)
  BY DEF Folds, Added, Step
<1> QED BY <1>1, <1>2, FoldsExist DEF Folding, Fold

\* A fold over two elements is two steps.
LEMMA FoldOfTwo ==
  ASSUME NEW a, NEW b, NEW reduce, NEW base
  PROVE  /\ Places(DOMAIN <<a, b>>)
         /\ Fold(reduce, base, <<a, b>>, DOMAIN <<a, b>>) = Step(reduce, b, Step(reduce, a, base))
<1> DEFINE pair == <<a, b>>
<1>1. DOMAIN pair = 1 .. 2 /\ pair[1] = a /\ pair[2] = b
  OBVIOUS
<1>2. Places(1 .. 2) /\ Places(1 .. 1) /\ Places({})
  <2>1. \A n \in Int : IsFiniteSet(1 .. n)
    BY FS_Interval
  <2>2. \A n \in {0, 1, 2} : Places(1 .. n)
    BY <2>1 DEF Places
  <2>3. 1 .. 0 = {}
    OBVIOUS
  <2> QED BY <2>2, <2>3
<1>3. 1 .. 2 # {} /\ Max(1 .. 2) = 2 /\ (1 .. 2) \ {2} = 1 .. 1
  BY <1>2, GreatestPlace
<1>4. 1 .. 1 # {} /\ Max(1 .. 1) = 1 /\ (1 .. 1) \ {1} = {}
  BY <1>2, GreatestPlace
<1> HIDE DEF pair
<1>5. Fold(reduce, base, pair, {}) = base
  BY <1>2, FoldStep
<1>6. Fold(reduce, base, pair, 1 .. 1) = Step(reduce, a, base)
  BY <1>1, <1>2, <1>4, <1>5, FoldStep
<1>7. Fold(reduce, base, pair, 1 .. 2) = Step(reduce, b, Step(reduce, a, base))
  BY <1>1, <1>2, <1>3, <1>6, FoldStep
<1> QED BY <1>1, <1>2, <1>7 DEF pair

\* Two objects are merged by overriding or uniting the first with the second.
LEMMA MergeOfTwo ==
  ASSUME NEW a, NEW b
  PROVE  /\ mergeObjects(<<a, b>>) = Override(Override(NoObject, a), b)
         /\ deepMergeAll(<<a, b>>) = MergeDeep(MergeDeep(NoObject, a), b)
<1>1. ASSUME NEW acc, NEW item
      PROVE  Step("merge", item, acc) = Override(acc, item) /\ Step("deepmerge", item, acc) = MergeDeep(acc, item)
  BY DEF Step
<1> QED BY <1>1, FoldOfTwo, MergeIsFold, DeepMergeIsFold

\* In a map of keys and values the last value of a key stays.
Entries(keys, values) == [i \in DOMAIN keys |-> Entry(keys[i], values[i])]
Having(keys, D, key) == {i \in D : keys[i] = key}
LastWins(keys, values, D) ==
  [key \in {keys[i] : i \in D} |-> values[Max(Having(keys, D, key))]]

\* Merging entries one after the other leaves each key its last value.
LEMMA EntriesFold ==
  ASSUME NEW keys, NEW values, NEW D, Places(D), D \subseteq DOMAIN keys
  PROVE  Fold("merge", NoObject, Entries(keys, values), D) = LastWins(keys, values, D)
<1> DEFINE Map(s) == Fold("merge", NoObject, Entries(keys, values), s)
<1> DEFINE Bad == {s \in SUBSET D : Map(s) # LastWins(keys, values, s)}
<1> SUFFICES ASSUME Bad # {} PROVE FALSE
  OBVIOUS
<1>1. PICK s \in Bad : \A v \in Bad : ~(v \subseteq s /\ v # s)
  <2>1. Bad \in SUBSET SUBSET D /\ IsFiniteSet(D)
    BY DEF Places
  <2> HIDE DEF Bad
  <2> QED BY <2>1, MinimalSubset
<1>2. Places(s)
  BY RestOfPlaces
<1>3. s # {}
  <2>1. ASSUME s = {} PROVE Map(s) = NoObject /\ LastWins(keys, values, s) = NoObject
    BY <1>2, <2>1, FoldStep DEF LastWins, NoObject
  <2> QED BY <1>1, <2>1
<1> DEFINE m == Max(s)
<1> DEFINE r == s \ {m}
<1>4. /\ m \in s /\ \A i \in s : i <= m
      /\ r \in SUBSET D /\ r # s /\ r \subseteq s
      /\ s \subseteq DOMAIN keys /\ m \in DOMAIN keys
  BY <1>2, <1>3, LastPlace
<1>5. Map(r) = LastWins(keys, values, r)
  BY <1>1, <1>4
<1>6. Map(s) = Override(Map(r), Entry(keys[m], values[m]))
  <2>1. Map(s) = Step("merge", Entries(keys, values)[m], Map(r))
    BY <1>2, <1>3, FoldStep
  <2> QED BY <1>4, <2>1 DEF Step, Entries
<1>7. \A key : keys[m] = key => Max(Having(keys, s, key)) = m
  <2> SUFFICES Max(Having(keys, s, keys[m])) = m
    OBVIOUS
  <2>1. Places(Having(keys, s, keys[m])) /\ m \in Having(keys, s, keys[m])
    BY <1>2, <1>4, RestOfPlaces DEF Having
  <2> QED BY <1>4, <2>1, GreatestPlace DEF Having
<1>8. \A key : keys[m] # key => Having(keys, s, key) = Having(keys, r, key)
  BY DEF Having
<1>9. {keys[i] : i \in s} = {keys[i] : i \in r} \cup {keys[m]}
  BY <1>4
<1> HIDE DEF m, r, Map
<1>10. Map(s) = LastWins(keys, values, s)
  <2> DEFINE Keys(d) == {keys[i] : i \in d}
  <2>1. Map(s) = [key \in Keys(r) \cup {keys[m]} |->
                   IF key = keys[m] THEN values[m] ELSE LastWins(keys, values, r)[key]]
    BY <1>5, <1>6 DEF Override, Entry, LastWins
  <2>2. ASSUME NEW key \in Keys(r) \cup {keys[m]}
        PROVE  (IF key = keys[m] THEN values[m] ELSE LastWins(keys, values, r)[key])
                 = values[Max(Having(keys, s, key))]
    BY <1>7, <1>8 DEF LastWins
  <2>3. LastWins(keys, values, s) =
          [key \in Keys(r) \cup {keys[m]} |-> values[Max(Having(keys, s, key))]]
    BY <1>9 DEF LastWins
  <2> HIDE DEF Keys
  <2> QED BY <2>1, <2>2, <2>3
<1> QED BY <1>1, <1>10 DEF Map

\* What the map built from a whole list of keys and values holds.
LEMMA MapOfIsLastWins ==
  ASSUME NEW keys, NEW values, Places(DOMAIN keys)
  PROVE  MapOf(keys, values) = LastWins(keys, values, DOMAIN keys)
<1>1. DOMAIN Entries(keys, values) = DOMAIN keys
  BY DEF Entries
<1>2. MapOf(keys, values) = mergeObjects(Entries(keys, values))
  BY DEF MapOf, Entries
<1> QED BY <1>1, <1>2, MergeIsFold, EntriesFold

\* The map and the set of the keys of a list of rows.
LEMMA PkMapIsLastWins ==
  ASSUME NEW S, NEW rows \in Seq(S), NEW pkName
  PROVE  /\ buildPkMap(rows, pkName) = LastWins(KeysOf(rows, pkName), rows, DOMAIN rows)
         /\ DOMAIN buildPkMap(rows, pkName) = buildPkSet(rows, pkName)
<1>1. DOMAIN KeysOf(rows, pkName) = DOMAIN rows /\ Places(DOMAIN rows)
  BY PlacesOf DEF KeysOf
<1>2. buildPkMap(rows, pkName) = LastWins(KeysOf(rows, pkName), rows, DOMAIN rows)
  BY <1>1, MapOfIsLastWins DEF buildPkMap
<1>3. {KeysOf(rows, pkName)[i] : i \in DOMAIN rows} = buildPkSet(rows, pkName)
  BY DEF KeysOf, buildPkSet
<1> QED BY <1>2, <1>3 DEF LastWins

\* Rows that are picked are rows, and their map is that of their places.
LEMMA PickedRows ==
  ASSUME NEW S, NEW rows \in Seq(S), NEW pkName, NEW D \in SUBSET DOMAIN rows
  PROVE  /\ RowsAt(rows, D) \in Seq(S)
         /\ buildPkMap(RowsAt(rows, D), pkName) = LastWins(KeysOf(rows, pkName), rows, D)
         /\ buildPkSet(RowsAt(rows, D), pkName) = {KeysOf(rows, pkName)[i] : i \in D}
<1> DEFINE keys == KeysOf(rows, pkName)
<1> DEFINE Right(s) == /\ RowsAt(rows, s) \in Seq(S)
                       /\ buildPkMap(RowsAt(rows, s), pkName) = LastWins(keys, rows, s)
<1> DEFINE Bad == {s \in SUBSET D : ~Right(s)}
<1>0. Places(DOMAIN rows) /\ Places(D) /\ DOMAIN keys = DOMAIN rows
  BY PlacesOf, RestOfPlaces DEF KeysOf
<1>1. ASSUME Bad # {} PROVE FALSE
  <2>1. PICK s \in Bad : \A v \in Bad : ~(v \subseteq s /\ v # s)
    <3>1. Bad \in SUBSET SUBSET D /\ IsFiniteSet(D)
      BY <1>0 DEF Places
    <3> HIDE DEF Bad
    <3> QED BY <1>1, <3>1, MinimalSubset
  <2>2. Places(s) /\ s \in SUBSET D
    BY <1>0, <2>1, RestOfPlaces
  <2>3. CASE s = {}
    <3>1. RowsAt(rows, s) = <<>>
      BY <2>2, <2>3, RowsAtStep
    <3>2. <<>> \in Seq(S) /\ DOMAIN <<>> = {}
      OBVIOUS
    <3>3. buildPkMap(<<>>, pkName) = LastWins(KeysOf(<<>>, pkName), <<>>, {})
      BY <3>2, PkMapIsLastWins
    <3>4. LastWins(KeysOf(<<>>, pkName), <<>>, {}) = LastWins(keys, rows, {})
      BY DEF LastWins
    <3> QED BY <2>1, <2>3, <3>1, <3>2, <3>3, <3>4
  <2>4. CASE s # {}
    <3> DEFINE m == Max(s)
    <3> DEFINE r == s \ {m}
    <3>1. /\ r \in SUBSET D /\ r # s /\ r \subseteq s /\ m \in DOMAIN rows /\ m \in s
          /\ Places(r)
      BY <2>2, <2>4, LastPlace, RestOfPlaces
    <3>2. Right(r)
      BY <2>1, <3>1
    <3>3. RowsAt(rows, s) = Append(RowsAt(rows, r), rows[m])
      BY <2>2, <2>4, RowsAtStep
    <3> DEFINE tail == RowsAt(rows, r)
    <3> DEFINE long == Append(tail, rows[m])
    <3>4. tail \in Seq(S) /\ rows[m] \in S /\ long \in Seq(S)
      BY <3>1, <3>2
    <3> DEFINE n == Len(tail) + 1
    <3>5. /\ DOMAIN long = 1 .. n /\ DOMAIN tail = 1 .. n - 1
          /\ long[n] = rows[m] /\ \A i \in 1 .. n - 1 : long[i] = tail[i]
          /\ n \in Nat \ {0} /\ 1 .. n # {} /\ (1 .. n) \ {n} = 1 .. n - 1
          /\ n \in 1 .. n /\ \A i \in 1 .. n : i <= n
      <4>1. /\ DOMAIN long = 1 .. n /\ DOMAIN tail = 1 .. Len(tail)
            /\ long[n] = rows[m] /\ \A i \in 1 .. Len(tail) : long[i] = tail[i]
            /\ Len(tail) \in Nat
        <5> HIDE DEF tail
        <5> QED BY <3>4
      <4>2. n \in Nat \ {0} /\ n - 1 = Len(tail)
        BY <4>1
      <4> HIDE DEF long, tail, n
      <4> QED BY <4>1, <4>2
    <3> DEFINE entries == Entries(KeysOf(long, pkName), long)
    <3>6. /\ Places(1 .. n) /\ Places(1 .. n - 1) /\ Max(1 .. n) = n
      <4> HIDE DEF long, tail, n
      <4>1. Places(DOMAIN long) /\ Places(DOMAIN tail)
        BY <3>4, PlacesOf
      <4> QED BY <3>5, <4>1, GreatestPlace
    <3>7. buildPkMap(long, pkName) = Fold("merge", NoObject, entries, 1 .. n)
      <4> HIDE DEF long, n
      <4>1. DOMAIN KeysOf(long, pkName) = 1 .. n
        BY <3>5 DEF KeysOf
      <4>2. buildPkMap(long, pkName) = LastWins(KeysOf(long, pkName), long, 1 .. n)
        BY <3>4, <3>5, PkMapIsLastWins
      <4> QED BY <3>6, <4>1, <4>2, EntriesFold
    <3>8. Fold("merge", NoObject, entries, 1 .. n)
            = Override(Fold("merge", NoObject, entries, 1 .. n - 1), entries[n])
      <4> HIDE DEF entries, n
      <4> DEFINE d == 1 .. n
      <4>0. Places(d) /\ d # {} /\ Max(d) = n /\ d \ {n} = 1 .. n - 1
        BY <3>5, <3>6
      <4> HIDE DEF d
      <4>1. Fold("merge", NoObject, entries, d)
              = Step("merge", entries[n], Fold("merge", NoObject, entries, d \ {n}))
        BY <4>0, FoldStep
      <4> QED BY <4>0, <4>1 DEF Step, d
    <3>9. Fold("merge", NoObject, entries, 1 .. n - 1) = buildPkMap(tail, pkName)
      <4> DEFINE others == Entries(KeysOf(tail, pkName), tail)
      <4> HIDE DEF long, tail, n
      <4>1. \A i \in 1 .. n - 1 : entries[i] = others[i]
        BY <3>5 DEF Entries, KeysOf
      <4>2. DOMAIN KeysOf(tail, pkName) = 1 .. n - 1
        BY <3>5 DEF KeysOf
      <4>3. Fold("merge", NoObject, others, 1 .. n - 1) = LastWins(KeysOf(tail, pkName), tail, 1 .. n - 1)
        BY <3>6, <4>2, EntriesFold
      <4>4. buildPkMap(tail, pkName) = LastWins(KeysOf(tail, pkName), tail, 1 .. n - 1)
        BY <3>4, <3>5, PkMapIsLastWins
      <4> HIDE DEF entries, others
      <4> QED BY <3>6, <4>1, <4>3, <4>4, FoldSame
    <3>10. entries[n] = Entry(keys[m], rows[m])
      <4> HIDE DEF long, tail, n
      <4> QED BY <3>1, <3>5 DEF Entries, KeysOf
    <3>11. buildPkMap(long, pkName) = Override(LastWins(keys, rows, r), Entry(keys[m], rows[m]))
      BY <3>2, <3>7, <3>8, <3>9, <3>10
    <3>12. LastWins(keys, rows, s) = Override(LastWins(keys, rows, r), Entry(keys[m], rows[m]))
      <4>1. /\ Fold("merge", NoObject, Entries(keys, rows), s) = LastWins(keys, rows, s)
            /\ Fold("merge", NoObject, Entries(keys, rows), r) = LastWins(keys, rows, r)
        BY <1>0, <2>2, <3>1, EntriesFold
      <4>2. Fold("merge", NoObject, Entries(keys, rows), s)
              = Step("merge", Entries(keys, rows)[m], Fold("merge", NoObject, Entries(keys, rows), r))
        BY <2>2, <2>4, FoldStep
      <4>3. Entries(keys, rows)[m] = Entry(keys[m], rows[m])
        BY <1>0, <3>1 DEF Entries
      <4> QED BY <4>1, <4>2, <4>3 DEF Step
    <3> QED BY <2>1, <3>3, <3>4, <3>11, <3>12
  <2> QED BY <2>3, <2>4
<1>2. Right(D)
  BY <1>1
<1>3. buildPkSet(RowsAt(rows, D), pkName) = DOMAIN LastWins(keys, rows, D)
  BY <1>2, PkMapIsLastWins
<1> QED BY <1>2, <1>3 DEF LastWins

-----------------------------------------------------------------------------
(* Categories.                                                              *)

Lists == prevs \in Seq(Rows) /\ posts \in Seq(Rows)

\* The categories of two lists and their maps, by the places of the common keys.
LEMMA CategoriesOf ==
  ASSUME Lists
  PROVE  LET c == categorizeObject(prevs, posts, PkName)
             prevKeys == KeysOf(prevs, PkName)
             postKeys == KeysOf(posts, PkName)
             common == {i \in DOMAIN posts : postKeys[i] \in buildPkSet(prevs, PkName)}
             gone == {i \in DOMAIN prevs : prevKeys[i] \notin {postKeys[j] : j \in common}}
             others == DOMAIN posts \ common
         IN  /\ buildPkMap(c.commonData, PkName) = LastWins(postKeys, posts, common)
             /\ buildPkSet(c.commonData, PkName) = {postKeys[i] : i \in common}
             /\ buildPkMap(c.postOnlyData, PkName) = LastWins(postKeys, posts, others)
             /\ buildPkSet(c.postOnlyData, PkName) = {postKeys[i] : i \in others}
             /\ buildPkSet(c.prevOnlyData, PkName) = {prevKeys[i] : i \in gone}
<1> DEFINE prevKeys == KeysOf(prevs, PkName)
<1> DEFINE postKeys == KeysOf(posts, PkName)
<1> DEFINE common == {i \in DOMAIN posts : postKeys[i] \in buildPkSet(prevs, PkName)}
<1> DEFINE gone == {i \in DOMAIN prevs : prevKeys[i] \notin {postKeys[j] : j \in common}}
<1> DEFINE others == DOMAIN posts \ common
<1> DEFINE commonData == RowsAt(posts, common)
<1>1. /\ \A i \in DOMAIN posts : postKeys[i] = Read(posts[i], PkName)
      /\ \A i \in DOMAIN prevs : prevKeys[i] = Read(prevs[i], PkName)
  BY DEF KeysOf
<1>2. common = {i \in DOMAIN posts : Read(posts[i], PkName) \in DOMAIN buildPkMap(prevs, PkName)}
  BY <1>1, PkMapIsLastWins DEF Lists
<1>3. /\ commonData \in Seq(Rows)
      /\ buildPkMap(commonData, PkName) = LastWins(postKeys, posts, common)
      /\ buildPkSet(commonData, PkName) = {postKeys[i] : i \in common}
  BY PickedRows DEF Lists
<1>4. DOMAIN buildPkMap(commonData, PkName) = {postKeys[i] : i \in common}
  BY <1>3, PkMapIsLastWins
<1>5. gone = {i \in DOMAIN prevs :
                Read(prevs[i], PkName) \notin DOMAIN buildPkMap(commonData, PkName)}
  BY <1>1, <1>4
<1>6. categorizeObject(prevs, posts, PkName) =
        [commonData |-> commonData, postOnlyData |-> RowsAt(posts, others),
         prevOnlyData |-> RowsAt(prevs, gone)]
  <2> HIDE DEF common, gone
  <2> QED BY <1>2, <1>5 DEF categorizeObject
<1>7. /\ buildPkMap(RowsAt(posts, others), PkName) = LastWins(postKeys, posts, others)
      /\ buildPkSet(RowsAt(posts, others), PkName) = {postKeys[i] : i \in others}
      /\ buildPkSet(RowsAt(prevs, gone), PkName) = {prevKeys[i] : i \in gone}
  BY PickedRows DEF Lists
<1> QED
  <2> HIDE DEF commonData, gone, others, postKeys, prevKeys
  <2> QED BY <1>3, <1>6, <1>7 DEF gone, others, postKeys, prevKeys

\* Deleting, inserting and overwriting as told synchronises the lists.
LEMMA Synchronises ==
  ASSUME Lists
  PROVE  CategoriesSynchronise
<1> DEFINE c == categorizeObject(prevs, posts, PkName)
<1> DEFINE prevKeys == KeysOf(prevs, PkName)
<1> DEFINE postKeys == KeysOf(posts, PkName)
<1> DEFINE prevSet == buildPkSet(prevs, PkName)
<1> DEFINE postSet == buildPkSet(posts, PkName)
<1> DEFINE both == buildCommonPkSet(prevs, posts, PkName)
<1> DEFINE common == {i \in DOMAIN posts : postKeys[i] \in prevSet}
<1> DEFINE gone == {i \in DOMAIN prevs : prevKeys[i] \notin {postKeys[j] : j \in common}}
<1> DEFINE others == DOMAIN posts \ common
<1> DEFINE prevMap == buildPkMap(prevs, PkName)
<1> DEFINE postMap == buildPkMap(posts, PkName)
<1> DEFINE kept == excludeKeysFromObject(prevMap, buildPkSet(c.prevOnlyData, PkName))
<1> DEFINE changed == mergeObjects(<<buildPkMap(c.postOnlyData, PkName),
                                     buildPkMap(c.commonData, PkName)>>)
<1>1. /\ buildPkMap(c.commonData, PkName) = LastWins(postKeys, posts, common)
      /\ buildPkSet(c.commonData, PkName) = {postKeys[i] : i \in common}
      /\ buildPkMap(c.postOnlyData, PkName) = LastWins(postKeys, posts, others)
      /\ buildPkSet(c.postOnlyData, PkName) = {postKeys[i] : i \in others}
      /\ buildPkSet(c.prevOnlyData, PkName) = {prevKeys[i] : i \in gone}
  <2> HIDE DEF c
  <2> QED BY CategoriesOf DEF c
<1>2. /\ prevSet = {prevKeys[i] : i \in DOMAIN prevs}
      /\ postSet = {postKeys[i] : i \in DOMAIN posts}
  BY DEF buildPkSet, KeysOf
<1>3. /\ postMap = LastWins(postKeys, posts, DOMAIN posts)
      /\ DOMAIN prevMap = prevSet /\ DOMAIN postMap = postSet
  BY PkMapIsLastWins DEF Lists
<1>4. /\ {postKeys[i] : i \in common} = prevSet \cap postSet
      /\ {postKeys[i] : i \in others} = postSet \ prevSet
      /\ {prevKeys[i] : i \in gone} = prevSet \ postSet
  <2> HIDE DEF prevSet, postSet, prevKeys, postKeys
  <2> QED BY <1>2
<1>5. both = prevSet \cap postSet /\ both = buildCommonPkSet(posts, prevs, PkName)
  <2>1. both = {postKeys[i] : i \in common}
    BY <1>3 DEF buildCommonPkSet, KeysOf
  <2>2. buildCommonPkSet(posts, prevs, PkName)
          = {Read(prevs[i], PkName) : i \in {j \in DOMAIN prevs : Read(prevs[j], PkName) \in postSet}}
    BY <1>3 DEF buildCommonPkSet
  <2>3. buildCommonPkSet(posts, prevs, PkName) = prevSet \cap postSet
    BY <2>2 DEF buildPkSet
  <2> QED BY <1>4, <2>1, <2>3
<1>6. changed = postMap
  <2> DEFINE new == LastWins(postKeys, posts, others)
  <2> DEFINE old == LastWins(postKeys, posts, common)
  <2>1. changed = Override(Override(NoObject, new), old)
    BY <1>1, MergeOfTwo
  <2>2. DOMAIN new = postSet \ prevSet /\ DOMAIN old = prevSet \cap postSet
    BY <1>4 DEF LastWins
  <2>3. ASSUME NEW key \in postSet \ prevSet PROVE new[key] = postMap[key]
    <3>1. Having(postKeys, others, key) = Having(postKeys, DOMAIN posts, key)
      BY <2>3 DEF Having
    <3> QED BY <1>2, <1>3, <1>4, <2>3, <3>1 DEF LastWins
  <2>4. ASSUME NEW key \in prevSet \cap postSet PROVE old[key] = postMap[key]
    <3>1. Having(postKeys, common, key) = Having(postKeys, DOMAIN posts, key)
      BY <2>4 DEF Having
    <3> QED BY <1>2, <1>3, <1>4, <2>4, <3>1 DEF LastWins
  <2> HIDE DEF changed, new, old, postMap, postSet, prevSet
  <2>5. changed = [key \in postSet |-> IF key \in prevSet THEN old[key] ELSE new[key]]
    BY <2>1, <2>2 DEF Override, NoObject
  <2>6. postMap = [key \in postSet |-> postMap[key]]
    BY <1>2, <1>3 DEF LastWins
  <2> QED BY <2>3, <2>4, <2>5, <2>6
<1>7. addObjectFields(kept, changed) = postMap
  <2>1. DOMAIN kept = prevSet \cap postSet
    <3> HIDE DEF c, prevMap
    <3> QED BY <1>1, <1>3, <1>4 DEF excludeKeysFromObject, KeepFields
  <2>2. postMap = [key \in postSet |-> postMap[key]]
    BY <1>2, <1>3 DEF LastWins
  <2> HIDE DEF kept, changed, postMap, postSet, prevSet
  <2> QED BY <1>3, <1>6, <2>1, <2>2 DEF addObjectFields, Override
<1> HIDE DEF c, both, postSet, prevSet, common, gone, others, kept, changed, postMap
<1> QED BY <1>1, <1>4, <1>5, <1>7
        DEF CategoriesSynchronise, c, both, postSet, prevSet, kept, changed, postMap

-----------------------------------------------------------------------------
(* Objects by key.                                                          *)

GroupKeysOf(rows, fields) == [i \in DOMAIN rows |-> GroupKey(rows[i], fields, Empty)]
WithoutKeys(rows, fields) == [i \in DOMAIN rows |-> removeObjectFields(rows[i], ToSet(fields))]

\* The object of a list of rows holds the last row of each key without its key.
LEMMA ObjectOfRows ==
  ASSUME NEW rows \in Seq(Rows), NEW fields
  PROVE  LET object == objectArrToObjWithKey(rows, fields, Empty)
         IN  /\ object = LastWins(GroupKeysOf(rows, fields), WithoutKeys(rows, fields), DOMAIN rows)
             /\ \A key \in DOMAIN object :
                  \E row \in Rows : object[key] = removeObjectFields(row, ToSet(fields))
<1> DEFINE keys == GroupKeysOf(rows, fields)
<1> DEFINE object == objectArrToObjWithKey(rows, fields, Empty)
<1>1. DOMAIN keys = DOMAIN rows /\ Places(DOMAIN rows)
  BY PlacesOf DEF GroupKeysOf
<1>2. object = LastWins(keys, WithoutKeys(rows, fields), DOMAIN rows)
  <2>1. object = MapOf(keys, WithoutKeys(rows, fields))
    BY DEF objectArrToObjWithKey, GroupKeysOf, WithoutKeys
  <2> HIDE DEF keys
  <2> QED BY <1>1, <2>1, MapOfIsLastWins
<1>3. ASSUME NEW key \in DOMAIN object
      PROVE  \E row \in Rows : object[key] = removeObjectFields(row, ToSet(fields))
  <2> DEFINE places == Having(keys, DOMAIN rows, key)
  <2> DEFINE last == Max(places)
  <2>1. places # {} /\ places \in SUBSET DOMAIN rows
    BY <1>2, <1>3 DEF LastWins, Having
  <2>2. last \in DOMAIN rows
    <3> HIDE DEF places
    <3> QED BY <1>1, <2>1, RestOfPlaces, LastPlace
  <2>3. object[key] = WithoutKeys(rows, fields)[last]
    BY <1>2, <1>3 DEF LastWins
  <2>4. rows[last] \in Rows
    <3> HIDE DEF last
    <3> QED BY <2>2
  <2> HIDE DEF last
  <2> QED BY <2>2, <2>3, <2>4 DEF WithoutKeys
<1> QED BY <1>2, <1>3

\* An empty object has no fields.
LEMMA Nothing == DOMAIN NoObject = {}
BY DEF NoObject

\* What a merge of two objects returns, of fields of a value, of rows and of keyed
\* objects of rows.
FieldsMerged(both, target, source) ==
  /\ DOMAIN both = DOMAIN target \cup (DOMAIN source \ Inherited)
  /\ \A field \in DOMAIN both :
       both[field] = IF field \in DOMAIN source THEN source[field] ELSE target[field]
RowsMerged(both, target, source) ==
  /\ DOMAIN both = DOMAIN target \cup (DOMAIN source \ Inherited)
  /\ \A field \in DOMAIN both :
       both[field] = IF field \notin DOMAIN source THEN CloneValue(target[field])
                     ELSE IF field \in DOMAIN target THEN MergeValue(target[field], source[field])
                     ELSE CloneValue(source[field])
ObjectsMerged(both, target, source) ==
  /\ DOMAIN both = DOMAIN target \cup (DOMAIN source \ InheritedKeys)
  /\ \A key \in DOMAIN both :
       both[key] = IF key \notin DOMAIN source THEN CloneRow(target[key])
                   ELSE IF key \in DOMAIN target THEN MergeRows(target[key], source[key])
                   ELSE CloneRow(source[key])

\* The three merges do what these say.
LEMMA Merged ==
  ASSUME NEW target, NEW source
  PROVE  /\ FieldsMerged(MergeFields(target, source), target, source)
         /\ RowsMerged(MergeRows(target, source), target, source)
         /\ ObjectsMerged(MergeDeep(target, source), target, source)
<1>1. FieldsMerged(MergeFields(target, source), target, source)
  BY DEF FieldsMerged, MergeFields, SafeKeys, Override, KeepFields
<1>2. RowsMerged(MergeRows(target, source), target, source)
  BY DEF RowsMerged, MergeRows, SafeKeys
<1>3. ObjectsMerged(MergeDeep(target, source), target, source)
  BY DEF ObjectsMerged, MergeDeep, SafeKeys
<1> QED BY <1>1, <1>2, <1>3

\* Arrays, objects and texts are told apart, and an object holds its fields.
LEMMA Kinds ==
  /\ \A fields : IsObject(Object(fields)) /\ ~IsArray(Object(fields)) /\ Object(fields)[2] = fields
  /\ \A value : ~(IsArray(value) /\ IsObject(value))
BY DEF IsObject, IsArray, Object, Empty

\* A clone shows what the value shows; a text is its own clone.
LEMMA CloneShowsTheSame ==
  ASSUME NEW value
  PROVE  /\ Visible(CloneValue(value)) = Visible(value)
         /\ IsText(value) => CloneValue(value) = value
<1>1. CASE ~IsObject(value)
  BY <1>1 DEF CloneValue
<1>2. CASE IsObject(value)
  <2> DEFINE clone == MergeFields(NoObject, value[2])
  <2>0. FieldsMerged(clone, NoObject, value[2])
    BY Merged
  <2>2. CloneValue(value) = Object(clone)
    BY <1>2 DEF CloneValue
  <2> HIDE DEF clone
  <2>1. /\ DOMAIN clone = DOMAIN value[2] \ Inherited
        /\ \A field \in DOMAIN clone : clone[field] = value[2][field]
    BY <2>0, Nothing DEF FieldsMerged
  <2>3. KeepFields(clone, DOMAIN clone \ Inherited) = KeepFields(value[2], DOMAIN value[2] \ Inherited)
    BY <2>1 DEF KeepFields
  <2>4. Visible(Object(clone)) = Object(KeepFields(clone, DOMAIN clone \ Inherited))
    BY Kinds DEF Visible
  <2>5. Visible(value) = Object(KeepFields(value[2], DOMAIN value[2] \ Inherited))
    BY <1>2 DEF Visible
  <2> QED BY <1>2, <2>2, <2>3, <2>4, <2>5 DEF IsText
<1> QED BY <1>1, <1>2

\* Two objects, one merged into the clone of the other, show the fields of both.
LEMMA ObjectsUnite ==
  ASSUME NEW early, NEW late, IsObject(early), IsObject(late)
  PROVE  Visible(MergeValue(CloneValue(early), late)) = Visible(Combined(early, late))
<1> DEFINE clone == MergeFields(NoObject, early[2])
<1> DEFINE both == MergeFields(clone, late[2])
<1> DEFINE united == addObjectFields(early[2], late[2])
<1>0. FieldsMerged(clone, NoObject, early[2]) /\ FieldsMerged(both, clone, late[2])
  BY Merged
<1>2. CloneValue(early) = Object(clone)
  BY DEF CloneValue
<1>4. MergeValue(CloneValue(early), late) = Object(both)
  BY <1>2, Kinds DEF MergeValue
<1> HIDE DEF clone, both
<1>1. /\ DOMAIN clone = DOMAIN early[2] \ Inherited
      /\ \A field \in DOMAIN clone : clone[field] = early[2][field]
  BY <1>0, Nothing DEF FieldsMerged
<1>3. /\ DOMAIN both = DOMAIN clone \cup (DOMAIN late[2] \ Inherited)
      /\ \A field \in DOMAIN both :
           both[field] = IF field \in DOMAIN late[2] THEN late[2][field] ELSE clone[field]
  BY <1>0 DEF FieldsMerged
<1>5. Combined(early, late) = Object(united)
  BY Kinds DEF Combined
<1>6. /\ DOMAIN united = DOMAIN early[2] \cup DOMAIN late[2]
      /\ \A field \in DOMAIN united :
           united[field] = IF field \in DOMAIN late[2] THEN late[2][field] ELSE early[2][field]
  BY DEF addObjectFields, Override
<1> HIDE DEF united
<1>7. KeepFields(both, DOMAIN both \ Inherited) = KeepFields(united, DOMAIN united \ Inherited)
  BY <1>1, <1>3, <1>6 DEF KeepFields
<1> QED BY <1>4, <1>5, <1>7, Kinds DEF Visible

\* A value merged into the clone of another shows what the two stand for together; of
\* two texts that is the later.
LEMMA ValuesCombine ==
  ASSUME NEW early, NEW late
  PROVE  /\ Visible(MergeValue(CloneValue(early), late)) = Visible(Combined(early, late))
         /\ IsText(early) /\ IsText(late) => MergeValue(CloneValue(early), late) = late
<1>1. CASE IsObject(early) /\ IsObject(late)
  BY <1>1, ObjectsUnite DEF IsText
<1>2. CASE IsObject(early) /\ ~IsObject(late)
  <2>1. IsObject(CloneValue(early)) /\ ~IsArray(CloneValue(early)) /\ ~IsArray(early)
    BY <1>2, Kinds DEF CloneValue
  <2>2. MergeValue(CloneValue(early), late) = late
    BY <1>2, <2>1 DEF MergeValue
  <2>3. Combined(early, late) = late
    BY <1>2, <2>1 DEF Combined
  <2> QED BY <1>2, <2>2, <2>3 DEF IsText
<1>3. CASE ~IsObject(early)
  <2>1. CloneValue(early) = early
    BY <1>3 DEF CloneValue
  <2>2. CASE IsArray(early) /\ IsArray(late)
    <3>1. MergeValue(early, late) = Array(early[2] \o late[2])
      BY <2>2, Kinds DEF MergeValue
    <3>2. Combined(early, late) = Array(early[2] \o late[2])
      BY <2>2 DEF Combined
    <3> QED BY <2>1, <2>2, <3>1, <3>2 DEF IsText
  <2>3. CASE IsArray(early) /\ ~IsArray(late)
    <3>1. MergeValue(early, late) = CloneValue(late)
      BY <1>3, <2>3 DEF MergeValue
    <3>2. Combined(early, late) = late
      BY <1>3, <2>3 DEF Combined
    <3> QED BY <2>1, <2>3, <3>1, <3>2, CloneShowsTheSame DEF IsText
  <2>4. CASE ~IsArray(early)
    <3>1. MergeValue(early, late) = late
      BY <1>3, <2>4 DEF MergeValue
    <3>2. Combined(early, late) = late
      BY <1>3, <2>4 DEF Combined
    <3> QED BY <2>1, <3>1, <3>2
  <2> QED BY <2>2, <2>3, <2>4
<1> QED BY <1>1, <1>2, <1>3

JoinedField(early, late, field) ==
  IF field \notin DOMAIN late THEN early[field]
  ELSE IF field \notin DOMAIN early THEN late[field]
  ELSE Combined(early[field], late[field])
OfTexts(row) == \A field \in DOMAIN row : IsText(row[field])

\* A row that joins two others, as MergeIsOuterJoin says.
JoinOf(row, early, late) ==
  /\ DOMAIN row = (DOMAIN early \cup DOMAIN late) \ Inherited
  /\ \A field \in DOMAIN row : Visible(row[field]) = Visible(JoinedField(early, late, field))
  /\ OfTexts(early) /\ OfTexts(late) =>
       \A field \in DOMAIN row :
         row[field] = IF field \in DOMAIN late THEN late[field] ELSE early[field]

\* A clone of a row holds its fields but the inherited names.
LEMMA CloneOfRow ==
  ASSUME NEW row
  PROVE  /\ DOMAIN CloneRow(row) = DOMAIN row \ Inherited
         /\ \A field \in DOMAIN CloneRow(row) : CloneRow(row)[field] = CloneValue(row[field])
<1>1. RowsMerged(CloneRow(row), NoObject, row)
  BY Merged DEF CloneRow
<1> QED BY <1>1, Nothing DEF RowsMerged

\* The row of a key that only the later, only the earlier or both lists have.
LEMMA RowsJoin ==
  ASSUME NEW early, NEW late
  PROVE  /\ JoinOf(MergeRows(CloneRow(early), late), early, late)
         /\ JoinOf(CloneRow(CloneRow(early)), early, NoObject)
         /\ JoinOf(CloneRow(late), NoObject, late)
<1>0. DOMAIN NoObject = {}
  BY Nothing
<1>1. JoinOf(MergeRows(CloneRow(early), late), early, late)
  <2> DEFINE clone == CloneRow(early)
  <2> DEFINE both == MergeRows(clone, late)
  <2>1. /\ DOMAIN clone = DOMAIN early \ Inherited
        /\ \A field \in DOMAIN clone : clone[field] = CloneValue(early[field])
    BY CloneOfRow
  <2> HIDE DEF clone
  <2>0. RowsMerged(both, clone, late)
    BY Merged
  <2> HIDE DEF both
  <2>2. /\ DOMAIN both = DOMAIN clone \cup (DOMAIN late \ Inherited)
        /\ \A field \in DOMAIN both :
             both[field] = IF field \notin DOMAIN late THEN CloneValue(clone[field])
                           ELSE IF field \in DOMAIN clone THEN MergeValue(clone[field], late[field])
                           ELSE CloneValue(late[field])
    BY <2>0 DEF RowsMerged
  <2>3. DOMAIN both = (DOMAIN early \cup DOMAIN late) \ Inherited
    BY <2>1, <2>2
  <2>4. ASSUME NEW field \in DOMAIN both
        PROVE  /\ Visible(both[field]) = Visible(JoinedField(early, late, field))
               /\ OfTexts(early) /\ OfTexts(late) =>
                    both[field] = IF field \in DOMAIN late THEN late[field] ELSE early[field]
    <3>1. CASE field \notin DOMAIN late
      <4>1. field \in DOMAIN early /\ both[field] = CloneValue(CloneValue(early[field]))
        BY <2>1, <2>2, <2>3, <3>1
      <4> QED BY <3>1, <4>1, CloneShowsTheSame DEF JoinedField, OfTexts
    <3>2. CASE field \in DOMAIN late /\ field \in DOMAIN early
      <4>1. both[field] = MergeValue(CloneValue(early[field]), late[field])
        BY <2>1, <2>2, <2>3, <3>2
      <4> QED BY <3>2, <4>1, ValuesCombine DEF JoinedField, OfTexts
    <3>3. CASE field \in DOMAIN late /\ field \notin DOMAIN early
      <4>1. both[field] = CloneValue(late[field])
        BY <2>1, <2>2, <3>3
      <4> QED BY <3>3, <4>1, CloneShowsTheSame DEF JoinedField, OfTexts
    <3> QED BY <3>1, <3>2, <3>3
  <2>5. JoinOf(both, early, late)
    BY <2>3, <2>4 DEF JoinOf
  <2> QED BY <2>5 DEF both, clone
<1>2. JoinOf(CloneRow(CloneRow(early)), early, NoObject)
  <2> DEFINE again == CloneRow(CloneRow(early))
  <2>1. /\ DOMAIN again = DOMAIN early \ Inherited
        /\ \A field \in DOMAIN again : again[field] = CloneValue(CloneValue(early[field]))
    BY CloneOfRow
  <2> HIDE DEF again
  <2>2. ASSUME NEW field \in DOMAIN again
        PROVE  /\ Visible(again[field]) = Visible(JoinedField(early, NoObject, field))
               /\ OfTexts(early) => again[field] = early[field]
    BY <1>0, <2>1, CloneShowsTheSame DEF JoinedField, OfTexts
  <2>3. JoinOf(again, early, NoObject)
    BY <1>0, <2>1, <2>2 DEF JoinOf
  <2> QED BY <2>3 DEF again
<1>3. JoinOf(CloneRow(late), NoObject, late)
  <2> DEFINE clone == CloneRow(late)
  <2>1. /\ DOMAIN clone = DOMAIN late \ Inherited
        /\ \A field \in DOMAIN clone : clone[field] = CloneValue(late[field])
    BY CloneOfRow
  <2> HIDE DEF clone
  <2>2. ASSUME NEW field \in DOMAIN clone
        PROVE  /\ Visible(clone[field]) = Visible(JoinedField(NoObject, late, field))
               /\ OfTexts(late) => clone[field] = late[field]
    BY <1>0, <2>1, CloneShowsTheSame DEF JoinedField, OfTexts
  <2>3. JoinOf(clone, NoObject, late)
    BY <1>0, <2>1, <2>2 DEF JoinOf
  <2> QED BY <2>3 DEF clone
<1> QED BY <1>1, <1>2, <1>3

\* Merging the objects of the two lists joins them on the key.
LEMMA JoinsBy ==
  ASSUME Lists, NEW fields
  PROVE  OuterJoinBy(fields)
<1> DEFINE early == objectArrToObjWithKey(prevs, fields, Empty)
<1> DEFINE late == objectArrToObjWithKey(posts, fields, Empty)
<1> DEFINE merged == mergeAllObjectArrByKeys(<<prevs, posts>>, fields, Empty)
<1> DEFINE In(object, key) == IF key \in DOMAIN object THEN object[key] ELSE NoObject
<1>1. merged = MergeDeep(MergeDeep(NoObject, early), late)
  <2>1. [i \in DOMAIN <<prevs, posts>> |->
           objectArrToObjWithKey(<<prevs, posts>>[i], fields, Empty)] = <<early, late>>
    <3> HIDE DEF early, late
    <3>1. /\ DOMAIN <<prevs, posts>> = {1, 2}
          /\ <<prevs, posts>>[1] = prevs /\ <<prevs, posts>>[2] = posts
          /\ DOMAIN <<early, late>> = {1, 2}
          /\ <<early, late>>[1] = early /\ <<early, late>>[2] = late
          /\ <<early, late>> = [i \in {1, 2} |-> <<early, late>>[i]]
      OBVIOUS
    <3> QED BY <3>1 DEF early, late
  <2> HIDE DEF early, late
  <2> QED BY <2>1, MergeOfTwo DEF mergeAllObjectArrByKeys
<1>2. \A key \in DOMAIN early : "" \notin DOMAIN early[key]
  <2>1. \A row \in Rows : "" \notin DOMAIN removeObjectFields(row, ToSet(fields))
    BY RowsAssumption DEF removeObjectFields, RowsAssumption
  <2> QED BY <2>1, ObjectOfRows DEF Lists
<1> HIDE DEF early, late, merged
<1> DEFINE first == MergeDeep(NoObject, early)
<1>0. ObjectsMerged(first, NoObject, early) /\ ObjectsMerged(merged, first, late)
  BY <1>1, Merged
<1> HIDE DEF first
<1>3. /\ DOMAIN first = DOMAIN early \ InheritedKeys
      /\ \A key \in DOMAIN first : first[key] = CloneRow(early[key])
  BY <1>0, Nothing DEF ObjectsMerged
<1>4. DOMAIN merged = (DOMAIN early \cup DOMAIN late) \ InheritedKeys
  BY <1>0, <1>3 DEF ObjectsMerged
<1>5. ASSUME NEW key \in DOMAIN merged
      PROVE  JoinOf(merged[key], In(early, key), In(late, key))
  <2>0. /\ key \notin InheritedKeys
        /\ merged[key] = IF key \notin DOMAIN late THEN CloneRow(CloneRow(early[key]))
                         ELSE IF key \in DOMAIN early THEN MergeRows(CloneRow(early[key]), late[key])
                         ELSE CloneRow(late[key])
    BY <1>0, <1>3, <1>4 DEF ObjectsMerged
  <2>1. CASE key \in DOMAIN early /\ key \in DOMAIN late
    BY <2>0, <2>1, RowsJoin
  <2>2. CASE key \in DOMAIN early /\ key \notin DOMAIN late
    BY <2>0, <2>2, RowsJoin
  <2>3. CASE key \notin DOMAIN early /\ key \in DOMAIN late
    BY <2>0, <2>3, RowsJoin
  <2> QED BY <1>4, <2>1, <2>2, <2>3
<1>6. ASSUME NEW key \in DOMAIN merged, OfTexts(In(early, key)), OfTexts(In(late, key))
      PROVE  KeepFields(merged[key], DOMAIN In(early, key))
               = KeepFields(updateObjectFields(In(early, key), In(late, key)), DOMAIN merged[key])
  <2> DEFINE row == merged[key]
  <2> DEFINE e == In(early, key)
  <2> DEFINE l == In(late, key)
  <2>1. "" \notin DOMAIN e
    BY <1>2 DEF NoObject
  <2>2. \A field \in DOMAIN row :
          row[field] = IF field \in DOMAIN l THEN l[field] ELSE e[field]
    <3> HIDE DEF In
    <3> QED BY <1>5, <1>6 DEF JoinOf
  <2> HIDE DEF row, e, l
  <2>3. KeepFields(row, DOMAIN e) = KeepFields(updateObjectFields(e, l), DOMAIN row)
    BY <2>1, <2>2 DEF KeepFields, updateObjectFields, Finds
  <2> QED BY <2>3 DEF row, e, l
<1>7. ASSUME NEW key \in DOMAIN merged
      PROVE  LET e == In(early, key)
                 l == In(late, key)
             IN  /\ DOMAIN merged[key] = (DOMAIN e \cup DOMAIN l) \ Inherited
                 /\ \A field \in DOMAIN merged[key] :
                      Visible(merged[key][field]) = Visible(JoinedField(e, l, field))
                 /\ OfTexts(e) /\ OfTexts(l) =>
                      KeepFields(merged[key], DOMAIN e)
                        = KeepFields(updateObjectFields(e, l), DOMAIN merged[key])
  <2> HIDE DEF In
  <2> QED BY <1>5, <1>6 DEF JoinOf
<1> QED BY <1>4, <1>7 DEF OuterJoinBy, JoinedField, OfTexts, early, late, merged

\* So it is by one field and by several.
LEMMA Joins ==
  ASSUME Lists
  PROVE  MergeIsOuterJoin
BY JoinsBy DEF MergeIsOuterJoin

-----------------------------------------------------------------------------
(* Groups.                                                                  *)

\* groupByKey puts one row after the other into its group.
LEMMA GroupIsFold ==
  ASSUME NEW rows, Places(DOMAIN rows)
  PROVE  groupByKey(rows, PkNames, Empty) = Fold("group", NoObject, rows, DOMAIN rows)
<1> DEFINE D == DOMAIN rows
<1> DEFINE KeyOf(row) == GroupKey(row, PkNames, Empty)
<1> DEFINE Group(acc, row) ==
      Override(acc, Entry(KeyOf(row),
                          IF KeyOf(row) \in DOMAIN acc THEN Append(acc[KeyOf(row)], row) ELSE <<row>>))
<1> DEFINE Its(f) == f = [s \in SUBSET D |-> IF s = {} THEN NoObject
                           ELSE Group(f[s \ {Max(s)}], rows[Max(s)])]
<1>1. groupByKey(rows, PkNames, Empty) = (CHOOSE f : Its(f))[D]
  BY DEF groupByKey, FoldLeft, MapThenFoldSet
<1>2. ASSUME NEW f PROVE Its(f) <=> Folds("group", NoObject, rows, f, D)
  BY DEF Folds, Added, Step
<1> HIDE DEF Its
<1> QED BY <1>1, <1>2, FoldsExist DEF Folding, Fold

\* A group holds the rows of its key in their order.
LEMMA GroupsOf ==
  ASSUME NEW rows \in Seq(Rows), NEW D \in SUBSET DOMAIN rows
  PROVE  Fold("group", NoObject, rows, D) =
           [key \in {GroupKeysOf(rows, PkNames)[i] : i \in D} |-> RowsAt(rows, Having(GroupKeysOf(rows, PkNames), D, key))]
<1> DEFINE keys == GroupKeysOf(rows, PkNames)
<1> DEFINE Groups(s) == Fold("group", NoObject, rows, s)
<1> DEFINE Parts(s) == [key \in {keys[i] : i \in s} |-> RowsAt(rows, Having(keys, s, key))]
<1> DEFINE Bad == {s \in SUBSET D : Groups(s) # Parts(s)}
<1> SUFFICES ASSUME Bad # {} PROVE FALSE
  OBVIOUS
<1>0. Places(D)
  BY PlacesOf, RestOfPlaces
<1>1. PICK s \in Bad : \A v \in Bad : ~(v \subseteq s /\ v # s)
  <2>1. Bad \in SUBSET SUBSET D /\ IsFiniteSet(D)
    BY <1>0 DEF Places
  <2> HIDE DEF Bad
  <2> QED BY <2>1, MinimalSubset
<1>2. Places(s)
  BY <1>0, RestOfPlaces
<1>3. s # {}
  <2>1. ASSUME s = {} PROVE Groups(s) = NoObject /\ Parts(s) = NoObject
    BY <1>2, <2>1, FoldStep DEF NoObject
  <2> QED BY <1>1, <2>1
<1> DEFINE m == Max(s)
<1> DEFINE r == s \ {m}
<1> DEFINE k == keys[m]
<1>4. /\ m \in s /\ \A i \in s : i <= m
      /\ r \in SUBSET D /\ r # s /\ r \subseteq s
      /\ s \subseteq DOMAIN rows /\ m \in DOMAIN rows
  BY <1>2, <1>3, LastPlace
<1>5. Groups(r) = Parts(r)
  BY <1>1, <1>4
<1>6. Groups(s) = Override(Parts(r),
        Entry(k, IF k \in DOMAIN Parts(r) THEN Append(Parts(r)[k], rows[m]) ELSE <<rows[m]>>))
  <2>1. Groups(s) = Step("group", rows[m], Groups(r))
    BY <1>2, <1>3, FoldStep
  <2>2. k = GroupKey(rows[m], PkNames, Empty)
    BY <1>4 DEF GroupKeysOf
  <2> HIDE DEF m, r, k, Groups, Parts
  <2> QED BY <1>5, <2>1, <2>2 DEF Step
<1>7. RowsAt(rows, Having(keys, s, k)) = Append(RowsAt(rows, Having(keys, r, k)), rows[m])
  <2> DEFINE own == Having(keys, s, k)
  <2>1. Places(own) /\ m \in own /\ \A i \in own : i <= m
    BY <1>2, <1>4, RestOfPlaces DEF Having
  <2>2. own \ {m} = Having(keys, r, k)
    BY DEF Having
  <2> HIDE DEF own, m, k, r
  <2>3. own # {} /\ Max(own) = m
    BY <2>1, GreatestPlace
  <2> QED BY <2>1, <2>2, <2>3, RowsAtStep DEF own
<1>8. k \notin {keys[i] : i \in r} => RowsAt(rows, Having(keys, r, k)) = <<>>
  <2>1. ASSUME k \notin {keys[i] : i \in r} PROVE Having(keys, r, k) = {}
    BY <2>1 DEF Having
  <2>2. RowsAt(rows, {}) = <<>>
    <3>1. Places({})
      BY FS_EmptySet DEF Places
    <3> QED BY <3>1, RowsAtStep
  <2> QED BY <2>1, <2>2
<1>9. \A key : key # k => Having(keys, s, key) = Having(keys, r, key)
  BY DEF Having
<1>10. {keys[i] : i \in s} = {keys[i] : i \in r} \cup {k}
  BY <1>4
<1>11. Groups(s) = Parts(s)
  <2> DEFINE Keys(d) == {keys[i] : i \in d}
  <2> DEFINE own == RowsAt(rows, Having(keys, s, k))
  <2>1. (IF k \in DOMAIN Parts(r) THEN Append(Parts(r)[k], rows[m]) ELSE <<rows[m]>>) = own
    <3>1. Append(<<>>, rows[m]) = <<rows[m]>>
      OBVIOUS
    <3>2. DOMAIN Parts(r) = Keys(r)
      OBVIOUS
    <3>3. k \in Keys(r) => Parts(r)[k] = RowsAt(rows, Having(keys, r, k))
      OBVIOUS
    <3> HIDE DEF m, r, k, Parts
    <3> QED BY <1>7, <1>8, <3>1, <3>2, <3>3
  <2>2. Groups(s) = Override(Parts(r), Entry(k, own))
    BY <1>6, <2>1
  <2>3. Groups(s) = [key \in Keys(r) \cup {k} |-> IF key = k THEN own ELSE Parts(r)[key]]
    <3>1. DOMAIN Parts(r) = Keys(r)
      OBVIOUS
    <3> HIDE DEF Parts, Groups, Keys, own, r, k
    <3> QED BY <2>2, <3>1 DEF Override, Entry
  <2>4. ASSUME NEW key \in Keys(r) \cup {k}
        PROVE  (IF key = k THEN own ELSE Parts(r)[key]) = RowsAt(rows, Having(keys, s, key))
    BY <1>9
  <2>5. Parts(s) = [key \in Keys(r) \cup {k} |-> RowsAt(rows, Having(keys, s, key))]
    BY <1>10
  <2> HIDE DEF Keys, Parts, own, Groups, r, k
  <2> QED BY <2>3, <2>4, <2>5
<1> QED BY <1>1, <1>11

\* The groups of a list, and the last row of each.
LEMMA GroupsOfRows ==
  ASSUME NEW rows \in Seq(Rows)
  PROVE  LET keys == GroupKeysOf(rows, PkNames)
             groups == groupByKey(rows, PkNames, Empty)
         IN  /\ groups = [key \in {keys[i] : i \in DOMAIN rows} |->
                            RowsAt(rows, Having(keys, DOMAIN rows, key))]
             /\ \A key \in DOMAIN groups :
                  /\ Max(Having(keys, DOMAIN rows, key)) \in DOMAIN rows
                  /\ Last(groups[key]) = rows[Max(Having(keys, DOMAIN rows, key))]
<1> DEFINE keys == GroupKeysOf(rows, PkNames)
<1> DEFINE groups == groupByKey(rows, PkNames, Empty)
<1>1. Places(DOMAIN rows)
  BY PlacesOf
<1>2. groups = [key \in {keys[i] : i \in DOMAIN rows} |-> RowsAt(rows, Having(keys, DOMAIN rows, key))]
  BY <1>1, GroupIsFold, GroupsOf
<1>3. ASSUME NEW key \in DOMAIN groups
      PROVE  /\ Max(Having(keys, DOMAIN rows, key)) \in DOMAIN rows
             /\ Last(groups[key]) = rows[Max(Having(keys, DOMAIN rows, key))]
  <2> DEFINE own == Having(keys, DOMAIN rows, key)
  <2> DEFINE rest == own \ {Max(own)}
  <2>1. own \in SUBSET DOMAIN rows /\ own # {} /\ groups[key] = RowsAt(rows, own)
    BY <1>2, <1>3 DEF Having
  <2> HIDE DEF own, groups
  <2>2. Places(own) /\ Max(own) \in DOMAIN rows /\ rest \in SUBSET DOMAIN rows
    BY <1>1, <2>1, RestOfPlaces, LastPlace
  <2>3. RowsAt(rows, own) = Append(RowsAt(rows, rest), rows[Max(own)])
    BY <2>1, <2>2, RowsAtStep
  <2>4. RowsAt(rows, rest) \in Seq(Rows)
    <3> HIDE DEF rest
    <3> QED BY <2>2, PickedRows
  <2>5. rows[Max(own)] \in Rows
    BY <2>2
  <2>6. ASSUME NEW t \in Seq(Rows), NEW row \in Rows PROVE Last(Append(t, row)) = row
    <3>1. Len(Append(t, row)) = Len(t) + 1 /\ Append(t, row)[Len(t) + 1] = row
      OBVIOUS
    <3> QED BY <3>1 DEF Last
  <2>7. groups[key] = Append(RowsAt(rows, rest), rows[Max(own)])
    BY <2>1, <2>3
  <2>8. Last(groups[key]) = rows[Max(own)]
    <3> HIDE DEF rest
    <3> QED BY <2>4, <2>5, <2>6, <2>7
  <2> QED BY <2>2, <2>8 DEF own
<1> QED BY <1>2, <1>3

\* A row without the fields of its key, said in two ways.
LEMMA WithoutKeyFields ==
  ASSUME NEW row \in Rows, NEW names
  PROVE  removeObjectFields(row, names) = excludeKeysFromObject(row, names)
BY RowsAssumption DEF removeObjectFields, excludeKeysFromObject, KeepFields, Finds, RowsAssumption

\* The groups and the keyed object of a list belong together.
LEMMA GroupsAndLast ==
  ASSUME NEW rows \in Seq(Rows)
  PROVE  LET groups == groupByKey(rows, PkNames, Empty)
         IN  /\ \A key \in DOMAIN groups :
                  groups[key] = RowsAt(rows, {i \in DOMAIN rows : GroupKey(rows[i], PkNames, Empty) = key})
             /\ objectArrToObjWithKey(rows, PkNames, Empty)
                  = [key \in DOMAIN groups |-> excludeKeysFromObject(Last(groups[key]), ToSet(PkNames))]
<1> DEFINE keys == GroupKeysOf(rows, PkNames)
<1> DEFINE groups == groupByKey(rows, PkNames, Empty)
<1> DEFINE last(key) == Max(Having(keys, DOMAIN rows, key))
<1>1. /\ groups = [key \in {keys[i] : i \in DOMAIN rows} |-> RowsAt(rows, Having(keys, DOMAIN rows, key))]
      /\ \A key \in DOMAIN groups : last(key) \in DOMAIN rows /\ Last(groups[key]) = rows[last(key)]
  <2> HIDE DEF groups, keys
  <2> QED BY GroupsOfRows DEF groups, keys
<1>2. \A key : Having(keys, DOMAIN rows, key) = {i \in DOMAIN rows : GroupKey(rows[i], PkNames, Empty) = key}
  BY DEF Having, GroupKeysOf
<1>3. objectArrToObjWithKey(rows, PkNames, Empty)
        = [key \in {keys[i] : i \in DOMAIN rows} |-> WithoutKeys(rows, PkNames)[last(key)]]
  BY ObjectOfRows DEF LastWins
<1>4. ASSUME NEW key \in DOMAIN groups
      PROVE  WithoutKeys(rows, PkNames)[last(key)] = excludeKeysFromObject(Last(groups[key]), ToSet(PkNames))
  <2>1. last(key) \in DOMAIN rows /\ Last(groups[key]) = rows[last(key)]
    BY <1>1, <1>4
  <2> HIDE DEF last, groups
  <2>2. rows[last(key)] \in Rows
    BY <2>1
  <2> QED BY <2>1, <2>2, WithoutKeyFields DEF WithoutKeys
<1>5. DOMAIN groups = {keys[i] : i \in DOMAIN rows}
  <2> HIDE DEF groups
  <2> QED BY <1>1
<1> HIDE DEF groups, keys, last
<1>6. \A key \in DOMAIN groups : groups[key] = RowsAt(rows, Having(keys, DOMAIN rows, key))
  BY <1>1, <1>5
<1> QED BY <1>2, <1>3, <1>4, <1>5, <1>6 DEF groups

-----------------------------------------------------------------------------
(* Composite keys.                                                          *)

\* The tokens of texts; no prover knows that the word null is a string.
Tokens == STRING \cup {"null"}

\* The separator and the values of key columns are texts.
LEMMA TextsOfTokens ==
  Separator \in Seq(Tokens) /\ \A text \in Seq(STRING) : text \in Seq(Tokens)
<1>1. \A S : \A text \in Seq(S) : text \in Seq(S \cup {"null"})
  OBVIOUS
<1>2. Separator \in Seq(STRING)
  BY RowsAssumption DEF RowsAssumption
<1> QED BY <1>1, <1>2 DEF Tokens

\* A text without a token of the separator.
Free(text) == text \in Seq(Tokens) /\ ToSet(Separator) \cap ToSet(text) = {}

\* A text is two others one behind the other.
Concat(whole, a, x) ==
  /\ Len(a) \in Nat /\ Len(x) \in Nat /\ Len(whole) = Len(a) + Len(x)
  /\ \A i \in 1 .. Len(a) : whole[i] = a[i]
  /\ \A i \in 1 .. Len(x) : whole[Len(a) + i] = x[i]

\* \o puts one text behind the other.
LEMMA Concatenated ==
  ASSUME NEW T, NEW a \in Seq(T), NEW x \in Seq(T)
  PROVE  Concat(a \o x, a, x) /\ a \o x \in Seq(T)
<1>1. /\ Len(a \o x) = Len(a) + Len(x) /\ a \o x \in Seq(T)
      /\ Len(a) \in Nat /\ Len(x) \in Nat
      /\ \A i \in 1 .. Len(a) : (a \o x)[i] = a[i]
      /\ \A i \in 1 .. Len(x) : (a \o x)[Len(a) + i] = x[i]
  OBVIOUS
<1> QED BY <1>1 DEF Concat

\* What follows the last separator is not shorter in one reading than in another.
LEMMA SameTail ==
  ASSUME NEW whole, NEW left, NEW right, NEW a, NEW b, NEW x, NEW y, Free(x), Free(y),
         Concat(left, a, Separator), Concat(right, b, Separator),
         Concat(whole, left, x), Concat(whole, right, y)
  PROVE  ~(Len(x) < Len(y))
<1> DEFINE n == Len(Separator)
<1> DEFINE k == Len(left) - Len(right)
<1> SUFFICES ASSUME Len(x) < Len(y) PROVE FALSE
  OBVIOUS
<1>1. n \in Nat \ {0} /\ DOMAIN Separator = 1 .. n
  <2>1. Separator \in Seq(Tokens) /\ Separator # <<>>
    BY TextsOfTokens, RowsAssumption DEF RowsAssumption
  <2> QED BY <2>1
<1>2. Len(left) = Len(a) + n /\ Len(a) \in Nat /\ left[Len(a) + n] = Separator[n]
  BY <1>1 DEF Concat
<1>3. /\ Len(whole) = Len(left) + Len(x) /\ Len(x) \in Nat /\ Len(y) \in Nat
      /\ Len(whole) = Len(right) + Len(y) /\ Len(right) \in Nat /\ Len(left) \in Nat
  BY DEF Concat
<1>4. k \in 1 .. Len(y) /\ Len(left) = Len(right) + k
  <2> HIDE DEF n
  <2> QED BY <1>3
<1>5. whole[Len(left)] = Separator[n]
  BY <1>1, <1>2, <1>3 DEF Concat
<1>6. whole[Len(right) + k] = y[k]
  <2> HIDE DEF k
  <2> QED BY <1>4 DEF Concat
<1>7. y[k] = Separator[n]
  <2> HIDE DEF k, n
  <2> QED BY <1>4, <1>5, <1>6
<1>8. DOMAIN y = 1 .. Len(y)
  <2>1. y \in Seq(Tokens)
    BY DEF Free
  <2> QED BY <2>1
<1>9. y[k] \in ToSet(y) /\ Separator[n] \in ToSet(Separator)
  <2>1. k \in DOMAIN y /\ n \in DOMAIN Separator
    BY <1>1, <1>4, <1>8
  <2> HIDE DEF k, n
  <2> QED BY <2>1 DEF ToSet
<1> QED BY <1>7, <1>9 DEF Free

\* Two readings of one text with a separator in it are the same.
LEMMA SameParts ==
  ASSUME NEW whole, NEW left, NEW right, NEW a \in Seq(Tokens), NEW b \in Seq(Tokens),
         NEW x \in Seq(Tokens), NEW y \in Seq(Tokens), Free(x), Free(y),
         Concat(left, a, Separator), Concat(right, b, Separator),
         Concat(whole, left, x), Concat(whole, right, y)
  PROVE  a = b /\ x = y
<1>1. /\ Len(left) = Len(a) + Len(Separator) /\ Len(right) = Len(b) + Len(Separator)
      /\ Len(whole) = Len(left) + Len(x) /\ Len(whole) = Len(right) + Len(y)
      /\ Len(a) \in Nat /\ Len(b) \in Nat /\ Len(Separator) \in Nat
      /\ Len(x) \in Nat /\ Len(y) \in Nat
  BY DEF Concat
<1>2. ~(Len(x) < Len(y)) /\ ~(Len(y) < Len(x))
  BY SameTail
<1>3. Len(x) = Len(y) /\ Len(left) = Len(right) /\ Len(a) = Len(b)
  <2> DEFINE la == Len(a)
  <2> DEFINE lb == Len(b)
  <2> DEFINE lx == Len(x)
  <2> DEFINE ly == Len(y)
  <2> DEFINE n == Len(Separator)
  <2>1. /\ Len(left) = la + n /\ Len(right) = lb + n
        /\ Len(left) + lx = Len(right) + ly
        /\ la \in Nat /\ lb \in Nat /\ n \in Nat /\ lx \in Nat /\ ly \in Nat
        /\ ~(lx < ly) /\ ~(ly < lx)
    BY <1>1, <1>2
  <2> HIDE DEF la, lb, lx, ly, n
  <2>2. lx = ly /\ la = lb
    BY <2>1
  <2> QED BY <2>1, <2>2 DEF la, lb, lx, ly
<1>4. \A i \in 1 .. Len(a) : a[i] = b[i]
  BY <1>1, <1>3 DEF Concat
<1>5. \A i \in 1 .. Len(x) : x[i] = y[i]
  BY <1>1, <1>3 DEF Concat
<1>6. \A s, t \in Seq(Tokens) : Len(s) = Len(t) /\ (\A i \in 1 .. Len(s) : s[i] = t[i]) => s = t
  OBVIOUS
<1> QED BY <1>3, <1>4, <1>5, <1>6

\* A text behind a separator can be told from what precedes it.
LEMMA Unjoin ==
  ASSUME NEW a \in Seq(Tokens), NEW b \in Seq(Tokens), NEW x, NEW y, Free(x), Free(y),
         (a \o Separator) \o x = (b \o Separator) \o y
  PROVE  a = b /\ x = y
<1>1. \A s, t \in Seq(Tokens) : Concat(s \o t, s, t) /\ s \o t \in Seq(Tokens)
  BY Concatenated
<1>2. x \in Seq(Tokens) /\ y \in Seq(Tokens) /\ Separator \in Seq(Tokens)
  BY TextsOfTokens DEF Free
<1>3. PICK left \in Seq(Tokens) : left = a \o Separator /\ Concat(left, a, Separator)
  BY <1>1, <1>2
<1>4. PICK right \in Seq(Tokens) : right = b \o Separator /\ Concat(right, b, Separator)
  BY <1>1, <1>2
<1>5. left \o x = right \o y
  BY <1>3, <1>4
<1>6. Concat(left \o x, left, x) /\ Concat(right \o y, right, y)
  BY <1>1, <1>2
<1>7. PICK whole : Concat(whole, left, x) /\ Concat(whole, right, y)
  BY <1>5, <1>6
<1> QED BY <1>2, <1>3, <1>4, <1>7, SameParts

\* The first k parts of a key and one more, joined.
Joined(texts, k) == Fold("join", Head(texts), Tail(texts), 1 .. k)

\* Join puts one separator and one text after the other.
LEMMA JoinedStep ==
  ASSUME NEW texts \in Seq(Seq(Tokens)), texts # <<>>
  PROVE  /\ Join(texts, Separator) = Joined(texts, Len(texts) - 1)
         /\ Joined(texts, 0) = texts[1]
         /\ \A k \in 1 .. Len(texts) - 1 :
              Joined(texts, k) = (Joined(texts, k - 1) \o Separator) \o texts[k + 1]
<1> DEFINE first == Head(texts)
<1> DEFINE rest == Tail(texts)
<1> DEFINE n == Len(texts) - 1
<1>1. /\ n \in Nat /\ first = texts[1] /\ rest \in Seq(Seq(Tokens)) /\ DOMAIN rest = 1 .. n
      /\ \A k \in 1 .. n : rest[k] = texts[k + 1]
  OBVIOUS
<1> HIDE DEF first, rest, n
<1>2. \A k \in Nat : Places(1 .. k)
  BY FS_Interval DEF Places
<1>3. FoldLeft(LAMBDA acc, text : acc \o Separator \o text, first, rest) = Joined(texts, n)
  <2> DEFINE D == DOMAIN rest
  <2> DEFINE Its(f) == f = [s \in SUBSET D |-> IF s = {} THEN first
                             ELSE (f[s \ {Max(s)}] \o Separator) \o rest[Max(s)]]
  <2>1. FoldLeft(LAMBDA acc, text : acc \o Separator \o text, first, rest) = (CHOOSE f : Its(f))[D]
    BY DEF FoldLeft, MapThenFoldSet
  <2>2. ASSUME NEW f PROVE Its(f) <=> Folds("join", first, rest, f, D)
    BY DEF Folds, Added, Step
  <2>3. Joined(texts, n) = Fold("join", first, rest, D)
    BY <1>1 DEF Joined, first, rest
  <2> HIDE DEF Its
  <2> QED BY <2>1, <2>2, <2>3 DEF Folding, Fold
<1>4. Join(texts, Separator) = Joined(texts, n)
  BY <1>3 DEF Join, first, rest
<1>5. Joined(texts, 0) = texts[1]
  <2>1. Places({}) /\ 1 .. 0 = {}
    BY FS_EmptySet DEF Places
  <2>2. Fold("join", first, rest, {}) = first
    BY <2>1, FoldStep
  <2> QED BY <1>1, <2>1, <2>2 DEF Joined, first, rest
<1>6. ASSUME NEW k \in 1 .. n
      PROVE  Joined(texts, k) = (Joined(texts, k - 1) \o Separator) \o texts[k + 1]
  <2> DEFINE D == 1 .. k
  <2>1. /\ Places(D) /\ k \in D /\ \A i \in D : i <= k
        /\ D \ {k} = 1 .. k - 1
    BY <1>1, <1>2
  <2> HIDE DEF D
  <2>2. D # {} /\ Max(D) = k
    BY <2>1, GreatestPlace
  <2>3. Fold("join", first, rest, D) = Step("join", rest[k], Fold("join", first, rest, D \ {k}))
    BY <2>1, <2>2, FoldStep
  <2>4. rest[k] = texts[k + 1]
    BY <1>1
  <2> QED BY <2>1, <2>3, <2>4 DEF Joined, Step, first, rest, D
<1> QED BY <1>4, <1>5, <1>6 DEF n

\* A set of places has a first one.
LEMMA FirstPlace ==
  ASSUME NEW D, Places(D), D # {}
  PROVE  \E m \in D : \A i \in D : m <= i
<1> DEFINE top == Max(D)
<1>1. top \in Nat /\ D \subseteq Nat /\ IsFiniteSet(D) /\ \A i \in D : i <= top
  BY LastPlace DEF Places
<1> HIDE DEF top
<1> DEFINE below == {top - i : i \in D}
<1>2. below # {} /\ Places(below)
  <2> DEFINE f == [i \in D |-> top - i]
  <2>0. f \in Surjection(D, below)
    BY DEF Surjection
  <2>1. IsFiniteSet(below)
    <3> HIDE DEF f, below
    <3> QED BY <1>1, <2>0, FS_Surjection
  <2>2. below # {}
    OBVIOUS
  <2>3. ASSUME NEW i \in D PROVE top - i \in Nat
    BY <1>1
  <2>4. \A j \in below : j \in Nat
    BY <2>3
  <2> HIDE DEF below
  <2> QED BY <2>1, <2>2, <2>4 DEF Places
<1> HIDE DEF below
<1>3. Max(below) \in below /\ \A j \in below : j <= Max(below)
  BY <1>2, LastPlace
<1>4. PICK m \in D : Max(below) = top - m
  BY <1>3 DEF below
<1>5. ASSUME NEW i \in D PROVE m <= i
  <2>1. top - i \in below
    BY DEF below
  <2>2. top - i <= top - m
    BY <1>3, <1>4, <2>1
  <2> QED BY <1>1, <2>2
<1> QED BY <1>5

\* Texts that are free of the separator can be told from what they join to.
LEMMA JoinInjective ==
  ASSUME NEW t \in Seq(Seq(Tokens)), NEW u \in Seq(Seq(Tokens)), Len(t) = Len(u),
         \A i \in DOMAIN t : Free(t[i]) /\ Free(u[i]),
         Join(t, Separator) = Join(u, Separator)
  PROVE  t = u
<1>1. CASE t = <<>>
  BY <1>1
<1>2. CASE t # <<>>
  <2> DEFINE n == Len(t) - 1
  <2> DEFINE Right(k) ==
        /\ Joined(t, k) \in Seq(Tokens) /\ Joined(u, k) \in Seq(Tokens)
        /\ Joined(t, k) = Joined(u, k) => \A i \in 1 .. k + 1 : t[i] = u[i]
  <2> DEFINE Bad == {k \in 0 .. n : ~Right(k)}
  <2>1. n \in Nat /\ u # <<>> /\ n = Len(u) - 1 /\ DOMAIN t = 1 .. n + 1 /\ DOMAIN u = 1 .. n + 1
    BY <1>2
  <2>2. /\ Joined(t, 0) = t[1] /\ Joined(u, 0) = u[1]
        /\ Join(t, Separator) = Joined(t, n) /\ Join(u, Separator) = Joined(u, n)
        /\ \A k \in 1 .. n :
             /\ Joined(t, k) = (Joined(t, k - 1) \o Separator) \o t[k + 1]
             /\ Joined(u, k) = (Joined(u, k - 1) \o Separator) \o u[k + 1]
    BY <1>2, <2>1, JoinedStep
  <2>f. \A i \in 1 .. n + 1 : Free(t[i]) /\ Free(u[i])
    BY <2>1
  <2> HIDE DEF n
  <2>3. ASSUME Bad # {} PROVE FALSE
    <3>1. Places(Bad)
      <4>1. IsFiniteSet(0 .. n)
        BY <2>1, FS_Interval
      <4>2. IsFiniteSet(Bad)
        BY <4>1, FS_Subset
      <4> QED BY <2>1, <4>2 DEF Places
    <3>2. PICK k \in Bad : \A i \in Bad : k <= i
      <4> HIDE DEF Bad
      <4> QED BY <2>3, <3>1, FirstPlace
    <3>3. k \in 0 .. n /\ ~Right(k)
      BY <3>2
    <3>4. CASE k = 0
      <4>1. Free(t[1]) /\ Free(u[1])
        <5>1. 1 \in 1 .. n + 1
          BY <2>1
        <5> HIDE DEF Bad
        <5> QED BY <2>f, <5>1
      <4>2. Right(0)
        BY <2>2, <4>1 DEF Free
      <4> QED BY <3>3, <3>4, <4>2
    <3>5. CASE k # 0
      <4>1. k \in 1 .. n /\ k - 1 \in 0 .. n /\ k - 1 \notin Bad
        <5> HIDE DEF Bad, Right
        <5>1. k \in 1 .. n /\ k - 1 \in 0 .. n /\ ~(k <= k - 1)
          BY <2>1, <3>3, <3>5
        <5> QED BY <3>2, <5>1
      <4>2. Right(k - 1)
        BY <4>1
      <4>3. Free(t[k + 1]) /\ Free(u[k + 1])
        <5>1. k + 1 \in 1 .. n + 1
          BY <2>1, <4>1
        <5> HIDE DEF Bad
        <5> QED BY <2>f, <5>1
      <4>4. /\ Joined(t, k) = (Joined(t, k - 1) \o Separator) \o t[k + 1]
            /\ Joined(u, k) = (Joined(u, k - 1) \o Separator) \o u[k + 1]
        BY <2>2, <4>1
      <4> DEFINE a == Joined(t, k - 1)
      <4> DEFINE b == Joined(u, k - 1)
      <4>5. a \in Seq(Tokens) /\ b \in Seq(Tokens) /\ (a = b => \A i \in 1 .. k : t[i] = u[i])
        BY <2>1, <4>1, <4>2
      <4> HIDE DEF a, b
      <4>6. Joined(t, k) \in Seq(Tokens) /\ Joined(u, k) \in Seq(Tokens)
        <5>1. Separator \in Seq(Tokens) /\ t[k + 1] \in Seq(Tokens) /\ u[k + 1] \in Seq(Tokens)
          BY <4>3, TextsOfTokens DEF Free
        <5>2. (a \o Separator) \o t[k + 1] \in Seq(Tokens) /\ (b \o Separator) \o u[k + 1] \in Seq(Tokens)
          BY <4>5, <5>1
        <5> QED BY <4>4, <5>2 DEF a, b
      <4>7. ASSUME Joined(t, k) = Joined(u, k) PROVE \A i \in 1 .. k + 1 : t[i] = u[i]
        <5>1. (a \o Separator) \o t[k + 1] = (b \o Separator) \o u[k + 1]
          <6> HIDE DEF Bad
          <6> QED BY <4>4, <4>7 DEF a, b
        <5>2. a = b /\ t[k + 1] = u[k + 1]
          <6> HIDE DEF Bad
          <6> DEFINE x == t[k + 1]
          <6> DEFINE y == u[k + 1]
          <6> HIDE DEF x, y
          <6>1. Free(x) /\ Free(y) /\ (a \o Separator) \o x = (b \o Separator) \o y
            BY <4>3, <5>1 DEF x, y
          <6>2. a = b /\ x = y
            BY <4>5, <6>1, Unjoin
          <6> QED BY <6>2 DEF x, y
        <5> QED BY <2>1, <4>1, <4>5, <5>2
      <4> QED BY <3>3, <4>6, <4>7
    <3> QED BY <3>4, <3>5
  <2>4. Right(n)
    <3>1. Bad = {} /\ n \in 0 .. n
      BY <2>1, <2>3
    <3> HIDE DEF Right
    <3> QED BY <3>1
  <2>5. \A i \in 1 .. n + 1 : t[i] = u[i]
    BY <2>2, <2>4
  <2> QED BY <2>1, <2>5
<1> QED BY <1>1, <1>2

\* Tuples of as many texts as a key has parts, free of the separator.
FreeTuples ==
  {t \in Seq(Seq(Tokens)) : Len(t) = Len(PkNames) /\ \A i \in DOMAIN t : Free(t[i])}

\* A list of free texts, one for each part of a key, is such a tuple.
LEMMA FreeTuple ==
  ASSUME NEW tuple, tuple = [i \in DOMAIN PkNames |-> tuple[i]],
         \A i \in DOMAIN PkNames : Free(tuple[i])
  PROVE  tuple \in FreeTuples
<1> DEFINE T == Seq(Tokens)
<1>1. DOMAIN PkNames = 1 .. Len(PkNames) /\ Len(PkNames) \in Nat
  <2>1. PkNames \in Seq(STRING)
    BY RowsAssumption DEF RowsAssumption
  <2> QED BY <2>1
<1>2. \A i \in DOMAIN PkNames : tuple[i] \in T
  BY DEF Free
<1> HIDE DEF T
<1>3. tuple \in Seq(T) /\ Len(tuple) = Len(PkNames) /\ DOMAIN tuple = DOMAIN PkNames
  BY <1>1, <1>2
<1> QED BY <1>3 DEF FreeTuples, T

\* With plain parts, the two keys of a row are its tuples, joined.
LEMMA PlainKeys ==
  ASSUME NEW row \in Rows, Plain(row)
  PROVE  /\ KeyTuple(row) \in FreeTuples
         /\ GroupTuple(row) \in FreeTuples
         /\ GroupKey(row, PkNames, Empty) = Join(GroupTuple(row), Separator)
         /\ buildCombinedKey(row, PkNames, Separator) = Join(KeyTuple(row), Separator)
<1>1. ASSUME NEW i \in DOMAIN PkNames
      PROVE  Free(OrNull(Read(row, PkNames[i]))) /\ Free(Printed(Read(row, PkNames[i])))
  <2>1. ToSet(Separator) \cap ToSet(OrNull(Read(row, PkNames[i]))) = {}
    BY DEF Plain
  <2>2. PkNames[i] \in {PkName} \cup ToSet(PkNames)
    BY DEF ToSet
  <2>3. CASE Read(row, PkNames[i]) = Undefined
    <3>1. OrNull(Read(row, PkNames[i])) = Null /\ Printed(Read(row, PkNames[i])) = Empty
      BY <2>3 DEF OrNull, Printed
    <3>2. Null \in Seq(Tokens) /\ Empty \in Seq(Tokens)
      <4>1. \A S : <<>> \in Seq(S) /\ \A x \in S : <<x>> \in Seq(S)
        OBVIOUS
      <4> QED BY <4>1 DEF Null, Empty, Tokens
    <3>3. ToSet(Empty) = {}
      BY DEF ToSet, Empty
    <3> QED BY <2>1, <3>1, <3>2, <3>3 DEF Free
  <2>4. CASE Read(row, PkNames[i]) # Undefined
    <3>1. Read(row, PkNames[i]) \in Seq(Tokens)
      BY <2>2, <2>4, TextsOfTokens, RowsAssumption DEF RowsAssumption, Read
    <3>2. /\ OrNull(Read(row, PkNames[i])) = Read(row, PkNames[i])
          /\ Printed(Read(row, PkNames[i])) = Read(row, PkNames[i])
      BY <2>4 DEF OrNull, Printed
    <3> QED BY <2>1, <3>1, <3>2 DEF Free
  <2> QED BY <2>3, <2>4
<1>2. KeyTuple(row) \in FreeTuples /\ GroupTuple(row) \in FreeTuples
  <2> DEFINE key == KeyTuple(row)
  <2> DEFINE group == GroupTuple(row)
  <2>1. /\ key = [i \in DOMAIN PkNames |-> key[i]] /\ \A i \in DOMAIN PkNames : Free(key[i])
        /\ group = [i \in DOMAIN PkNames |-> group[i]] /\ \A i \in DOMAIN PkNames : Free(group[i])
    BY <1>1 DEF KeyTuple, GroupTuple
  <2> HIDE DEF key, group
  <2>2. key \in FreeTuples /\ group \in FreeTuples
    BY <2>1, FreeTuple
  <2> QED BY <2>2 DEF key, group
<1>3. GroupKey(row, PkNames, Empty) = Join(GroupTuple(row), Separator)
  BY DEF GroupKey, GroupTuple
<1>4. buildCombinedKey(row, PkNames, Separator) = Join(KeyTuple(row), Separator)
  BY DEF buildCombinedKey, KeyTuple
<1> QED BY <1>2, <1>3, <1>4

JoinedAll(tuples) == {Join(tuple, Separator) : tuple \in tuples}

\* The keys of plain rows are their tuples, joined.
LEMMA KeysAreJoined ==
  ASSUME NEW rows \in Seq(Rows), \A row \in ToSet(rows) : Plain(row)
  PROVE  /\ {GroupKeysOf(rows, PkNames)[i] : i \in DOMAIN rows} = JoinedAll(GroupTuples(rows))
         /\ buildMultiPkSet(rows, PkNames, Separator) = JoinedAll(KeyTuples(rows))
         /\ KeyTuples(rows) \subseteq FreeTuples /\ IsFiniteSet(KeyTuples(rows))
         /\ GroupTuples(rows) \subseteq FreeTuples /\ IsFiniteSet(GroupTuples(rows))
<1>1. ASSUME NEW i \in DOMAIN rows
      PROVE  /\ KeyTuple(rows[i]) \in FreeTuples /\ GroupTuple(rows[i]) \in FreeTuples
             /\ GroupKeysOf(rows, PkNames)[i] = Join(GroupTuple(rows[i]), Separator)
             /\ buildCombinedKey(rows[i], PkNames, Separator) = Join(KeyTuple(rows[i]), Separator)
  <2>1. rows[i] \in Rows /\ Plain(rows[i])
    BY DEF ToSet
  <2> QED BY <2>1, PlainKeys DEF GroupKeysOf
<1>2. /\ KeyTuples(rows) = {KeyTuple(rows[i]) : i \in DOMAIN rows}
      /\ GroupTuples(rows) = {GroupTuple(rows[i]) : i \in DOMAIN rows}
  BY DEF KeyTuples, GroupTuples, ToSet
<1>3. /\ JoinedAll(KeyTuples(rows)) = {Join(KeyTuple(rows[i]), Separator) : i \in DOMAIN rows}
      /\ JoinedAll(GroupTuples(rows)) = {Join(GroupTuple(rows[i]), Separator) : i \in DOMAIN rows}
  BY <1>2 DEF JoinedAll
<1>4. IsFiniteSet(KeyTuples(rows)) /\ IsFiniteSet(GroupTuples(rows))
  <2> DEFINE f == [i \in DOMAIN rows |-> KeyTuple(rows[i])]
  <2> DEFINE g == [i \in DOMAIN rows |-> GroupTuple(rows[i])]
  <2>1. /\ f \in Surjection(DOMAIN rows, KeyTuples(rows))
        /\ g \in Surjection(DOMAIN rows, GroupTuples(rows))
    BY <1>2 DEF Surjection
  <2>2. IsFiniteSet(DOMAIN rows)
    BY PlacesOf DEF Places
  <2> HIDE DEF f, g
  <2> QED BY <2>1, <2>2, FS_Surjection
<1>5. buildMultiPkSet(rows, PkNames, Separator) = JoinedAll(KeyTuples(rows))
  BY <1>1, <1>3 DEF buildMultiPkSet
<1>6. {GroupKeysOf(rows, PkNames)[i] : i \in DOMAIN rows} = JoinedAll(GroupTuples(rows))
  BY <1>1, <1>3
<1>7. KeyTuples(rows) \subseteq FreeTuples /\ GroupTuples(rows) \subseteq FreeTuples
  BY <1>1, <1>2
<1> QED BY <1>4, <1>5, <1>6, <1>7

\* Different tuples have different keys.
LEMMA TuplesInjective ==
  ASSUME NEW t \in FreeTuples, NEW u \in FreeTuples, Join(t, Separator) = Join(u, Separator)
  PROVE  t = u
<1>1. /\ t \in Seq(Seq(Tokens)) /\ u \in Seq(Seq(Tokens)) /\ Len(t) = Len(u)
      /\ \A i \in DOMAIN t : Free(t[i])
      /\ \A i \in DOMAIN u : Free(u[i])
  BY DEF FreeTuples
<1>2. DOMAIN t = DOMAIN u
  BY <1>1
<1> QED BY <1>1, <1>2, JoinInjective

\* There are as many keys as tuples.
LEMMA AsManyKeys ==
  ASSUME NEW T \in SUBSET FreeTuples, IsFiniteSet(T)
  PROVE  Cardinality(JoinedAll(T)) = Cardinality(T)
<1> DEFINE f == [t \in T |-> Join(t, Separator)]
<1>1. \A t, u \in T : f[t] = f[u] => t = u
  BY TuplesInjective
<1>2. f \in Bijection(T, JoinedAll(T))
  BY <1>1 DEF Bijection, Injection, Surjection, IsInjective, JoinedAll
<1>3. ExistsBijection(T, JoinedAll(T))
  <2> HIDE DEF f
  <2> QED BY <1>2 DEF ExistsBijection
<1> QED BY <1>3, FS_Bijection

\* The groups of a list are its groups, and with plain parts one per tuple.
LEMMA Groups ==
  ASSUME Lists
  PROVE  GroupingsAgree
<1> DEFINE groups == groupByKey(prevs, PkNames, Empty)
<1>1. /\ \A key \in DOMAIN groups :
           groups[key] = RowsAt(prevs, {i \in DOMAIN prevs : GroupKey(prevs[i], PkNames, Empty) = key})
      /\ objectArrToObjWithKey(prevs, PkNames, Empty)
           = [key \in DOMAIN groups |-> excludeKeysFromObject(Last(groups[key]), ToSet(PkNames))]
  <2> HIDE DEF groups
  <2> QED BY GroupsAndLast DEF groups, Lists
<1>2. ASSUME AllPlain PROVE Cardinality(DOMAIN groups) = Cardinality(GroupTuples(prevs))
  <2>1. \A row \in ToSet(prevs) : Plain(row)
    BY <1>2 DEF AllPlain
  <2>2. DOMAIN groups = {GroupKeysOf(prevs, PkNames)[i] : i \in DOMAIN prevs}
    <3> DEFINE others == [key \in {GroupKeysOf(prevs, PkNames)[i] : i \in DOMAIN prevs} |->
                            RowsAt(prevs, Having(GroupKeysOf(prevs, PkNames), DOMAIN prevs, key))]
    <3>1. groups = others
      <4> HIDE DEF groups
      <4> QED BY GroupsOfRows DEF groups, Lists
    <3> QED BY <3>1
  <2>3. DOMAIN groups = JoinedAll(GroupTuples(prevs))
        /\ GroupTuples(prevs) \subseteq FreeTuples /\ IsFiniteSet(GroupTuples(prevs))
    <3> HIDE DEF groups
    <3> QED BY <2>1, <2>2, KeysAreJoined DEF Lists
  <2> HIDE DEF groups
  <2> QED BY <1>2, <2>3, AsManyKeys
<1> HIDE DEF groups
<1> QED BY <1>1, <1>2 DEF GroupingsAgree, groups

-----------------------------------------------------------------------------
(* Maps and lists of keys.                                                  *)

\* A map of rows and the map of their values have the same keys, and the last
\* row's value under each.
LEMMA ValuesOfMap ==
  ASSUME NEW rows \in Seq(Rows), NEW keys, DOMAIN keys = DOMAIN rows
  PROVE  MapOf(keys, ValuesOf(rows, {"val"}))
           = [key \in DOMAIN MapOf(keys, rows) |-> KeepFields(MapOf(keys, rows)[key], {"val"})]
<1> DEFINE D == DOMAIN rows
<1> DEFINE Keys == {keys[i] : i \in D}
<1> DEFINE last(key) == Max(Having(keys, D, key))
<1>1. Places(D)
  BY PlacesOf
<1>2. /\ MapOf(keys, rows) = [key \in Keys |-> rows[last(key)]]
      /\ MapOf(keys, ValuesOf(rows, {"val"})) = [key \in Keys |-> ValuesOf(rows, {"val"})[last(key)]]
  <2> DEFINE some == ValuesOf(rows, {"val"})
  <2>1. Places(DOMAIN keys)
    BY <1>1
  <2> HIDE DEF some
  <2>2. /\ MapOf(keys, rows) = LastWins(keys, rows, DOMAIN keys)
        /\ MapOf(keys, some) = LastWins(keys, some, DOMAIN keys)
    BY <2>1, MapOfIsLastWins
  <2> QED BY <2>2 DEF LastWins, some
<1>3. ASSUME NEW key \in Keys PROVE last(key) \in D
  <2> DEFINE own == Having(keys, D, key)
  <2>1. own # {} /\ own \subseteq D
    BY DEF Having
  <2>2. Places(own)
    <3> HIDE DEF own, D
    <3> QED BY <1>1, <2>1, RestOfPlaces
  <2> HIDE DEF own
  <2>3. Max(own) \in own
    BY <2>1, <2>2, LastPlace
  <2> QED BY <2>1, <2>3 DEF own
<1>4. ASSUME NEW i \in D PROVE ValuesOf(rows, {"val"})[i] = KeepFields(rows[i], {"val"})
  <2>1. "val" # ""
    OBVIOUS
  <2>2. maintainObjectFields(rows[i], {"val"}) = KeepFields(rows[i], {"val"})
    BY <2>1 DEF maintainObjectFields, KeepFields, Finds
  <2> QED BY <2>2 DEF ValuesOf
<1> HIDE DEF last, D, Keys
<1>5. DOMAIN MapOf(keys, rows) = Keys /\ \A key \in Keys : MapOf(keys, rows)[key] = rows[last(key)]
  BY <1>2
<1>6. \A key \in Keys : ValuesOf(rows, {"val"})[last(key)] = KeepFields(MapOf(keys, rows)[key], {"val"})
  BY <1>3, <1>4, <1>5
<1> QED BY <1>2, <1>5, <1>6

\* extractDistinct keeps one of each key.
LEMMA DistinctIsFold ==
  ASSUME NEW rows, Places(DOMAIN rows)
  PROVE  extractDistinct(rows, PkName) = Fold("distinct", <<>>, rows, DOMAIN rows)
<1> DEFINE D == DOMAIN rows
<1> DEFINE Put(acc, row) ==
      IF Read(row, PkName) \in ToSet(acc) THEN acc ELSE Append(acc, Read(row, PkName))
<1> DEFINE Its(f) == f = [s \in SUBSET D |-> IF s = {} THEN <<>>
                           ELSE Put(f[s \ {Max(s)}], rows[Max(s)])]
<1>1. extractDistinct(rows, PkName) = (CHOOSE f : Its(f))[D]
  BY DEF extractDistinct, FoldLeft, MapThenFoldSet
<1>2. ASSUME NEW f PROVE Its(f) <=> Folds("distinct", <<>>, rows, f, D)
  BY DEF Folds, Added, Step
<1> HIDE DEF Its
<1> QED BY <1>1, <1>2, FoldsExist DEF Folding, Fold

\* Appending to a list adds one element to it and to its set.
LEMMA OneMore ==
  ASSUME NEW S, NEW acc \in Seq(S), NEW x \in S
  PROVE  /\ Append(acc, x) \in Seq(S) /\ Len(Append(acc, x)) = Len(acc) + 1
         /\ ToSet(Append(acc, x)) = ToSet(acc) \cup {x}
<1> DEFINE long == Append(acc, x)
<1> DEFINE n == Len(acc)
<1>1. /\ long \in Seq(S) /\ Len(long) = n + 1 /\ n \in Nat
      /\ DOMAIN long = 1 .. n + 1 /\ DOMAIN acc = 1 .. n
      /\ long[n + 1] = x /\ \A i \in 1 .. n : long[i] = acc[i]
  OBVIOUS
<1> HIDE DEF long, n
<1>2. ToSet(long) \subseteq ToSet(acc) \cup {x}
  <2> SUFFICES ASSUME NEW i \in 1 .. n + 1 PROVE long[i] \in ToSet(acc) \cup {x}
    BY <1>1 DEF ToSet
  <2>1. i = n + 1 \/ i \in 1 .. n
    BY <1>1
  <2> QED BY <1>1, <2>1 DEF ToSet
<1>3. ToSet(acc) \subseteq ToSet(long)
  <2> SUFFICES ASSUME NEW i \in 1 .. n PROVE acc[i] \in ToSet(long)
    BY <1>1 DEF ToSet
  <2>1. i \in 1 .. n + 1
    BY <1>1
  <2> QED BY <1>1, <2>1 DEF ToSet
<1>4. x \in ToSet(long)
  <2>1. n + 1 \in 1 .. n + 1
    BY <1>1
  <2> QED BY <1>1, <2>1 DEF ToSet
<1> QED BY <1>1, <1>2, <1>3, <1>4 DEF long, n

\* The list of distinct keys holds each key of the rows once.
LEMMA DistinctKeys ==
  ASSUME NEW rows \in Seq(Rows)
  PROVE  /\ ToSet(extractDistinct(rows, PkName)) = buildPkSet(rows, PkName)
         /\ Len(extractDistinct(rows, PkName)) = Cardinality(buildPkSet(rows, PkName))
<1> DEFINE D == DOMAIN rows
<1> DEFINE Keys(s) == {Read(rows[i], PkName) : i \in s}
<1> DEFINE List(s) == Fold("distinct", <<>>, rows, s)
<1> DEFINE Right(s) == /\ List(s) \in Seq(Keys(D)) /\ ToSet(List(s)) = Keys(s)
                       /\ IsFiniteSet(Keys(s)) /\ Len(List(s)) = Cardinality(Keys(s))
<1> DEFINE Bad == {s \in SUBSET D : ~Right(s)}
<1>0. Places(D)
  BY PlacesOf
<1>1. ASSUME Bad # {} PROVE FALSE
  <2>1. PICK s \in Bad : \A v \in Bad : ~(v \subseteq s /\ v # s)
    <3>1. Bad \in SUBSET SUBSET D /\ IsFiniteSet(D)
      BY <1>0 DEF Places
    <3> HIDE DEF Bad
    <3> QED BY <1>1, <3>1, MinimalSubset
  <2>2. Places(s) /\ s \in SUBSET D /\ ~Right(s)
    BY <1>0, <2>1, RestOfPlaces
  <2>3. CASE s = {}
    <3>1. List(s) = <<>>
      BY <2>2, <2>3, FoldStep
    <3>2. Keys(s) = {} /\ IsFiniteSet({}) /\ Cardinality({}) = 0
      BY <2>3, FS_EmptySet
    <3>3. <<>> \in Seq(Keys(D)) /\ ToSet(<<>>) = {} /\ Len(<<>>) = 0
      BY DEF ToSet
    <3> HIDE DEF List, Keys
    <3> QED BY <2>2, <3>1, <3>2, <3>3
  <2>4. CASE s # {}
    <3> DEFINE m == Max(s)
    <3> DEFINE r == s \ {m}
    <3> DEFINE key == Read(rows[m], PkName)
    <3>1. r \in SUBSET D /\ r # s /\ r \subseteq s /\ m \in D /\ m \in s
      BY <2>2, <2>4, LastPlace, RestOfPlaces
    <3>2. Right(r)
      BY <2>1, <3>1
    <3>3. List(s) = IF key \in ToSet(List(r)) THEN List(r) ELSE Append(List(r), key)
      <4>1. List(s) = Step("distinct", rows[m], List(r))
        BY <2>2, <2>4, FoldStep
      <4> HIDE DEF List, r, m
      <4> QED BY <4>1 DEF Step
    <3>4. Keys(s) = Keys(r) \cup {key} /\ key \in Keys(D)
      BY <3>1
    <3> HIDE DEF key, r, m, List, Keys, D
    <3>5. CASE key \in Keys(r)
      <4>1. List(s) = List(r) /\ Keys(s) = Keys(r)
        BY <3>2, <3>3, <3>4, <3>5
      <4> QED BY <2>2, <3>2, <4>1
    <3>6. CASE key \notin Keys(r)
      <4>1. List(s) = Append(List(r), key)
        BY <3>2, <3>3, <3>6
      <4>2. /\ List(s) \in Seq(Keys(D)) /\ Len(List(s)) = Len(List(r)) + 1
            /\ ToSet(List(s)) = Keys(s)
        BY <3>2, <3>4, <4>1, OneMore
      <4>3. IsFiniteSet(Keys(s)) /\ Cardinality(Keys(s)) = Cardinality(Keys(r)) + 1
        BY <3>2, <3>4, <3>6, FS_AddElement
      <4> QED BY <2>2, <3>2, <4>2, <4>3
    <3> QED BY <3>5, <3>6
  <2> QED BY <2>3, <2>4
<1>2. Right(D)
  BY <1>1
<1>3. Keys(D) = buildPkSet(rows, PkName)
  BY DEF buildPkSet
<1>4. extractDistinct(rows, PkName) = List(D)
  BY <1>0, DistinctIsFold
<1> HIDE DEF Keys, List, D
<1> QED BY <1>2, <1>3, <1>4

\* A composite key is as good as its tuple, and the maps, set and list of keys
\* of a list belong together.
LEMMA Composite ==
  ASSUME Lists
  PROVE  CompositeKeysAreTuples
<1> DEFINE map == buildMultiPkMap(posts, PkNames, Separator)
<1> DEFINE values == buildMultiPkMapWithValues(posts, PkNames, Separator, {"val"})
<1> DEFINE single == buildPkMap(posts, PkName)
<1> DEFINE Values(rows) == [key \in DOMAIN rows |-> KeepFields(rows[key], {"val"})]
<1> DEFINE common == buildCommonPkSetWithPks(prevs, posts, PkNames, Separator)
<1> DEFINE A == KeyTuples(prevs)
<1> DEFINE B == KeyTuples(posts)
<1>1. ASSUME NEW rows \in Seq(Rows)
      PROVE  DOMAIN buildMultiPkMap(rows, PkNames, Separator) = buildMultiPkSet(rows, PkNames, Separator)
  <2> DEFINE keys == CombinedKeysOf(rows, PkNames, Separator)
  <2>1. DOMAIN keys = DOMAIN rows /\ Places(DOMAIN rows)
    BY PlacesOf DEF CombinedKeysOf
  <2>2. {keys[i] : i \in DOMAIN rows} = buildMultiPkSet(rows, PkNames, Separator)
    BY DEF CombinedKeysOf, buildMultiPkSet
  <2> HIDE DEF keys
  <2>3. MapOf(keys, rows) = LastWins(keys, rows, DOMAIN rows)
    BY <2>1, MapOfIsLastWins
  <2>4. DOMAIN MapOf(keys, rows) = {keys[i] : i \in DOMAIN rows}
    BY <2>3 DEF LastWins
  <2> QED BY <2>2, <2>4 DEF buildMultiPkMap, keys
<1>2. values = Values(map)
  <2>1. DOMAIN CombinedKeysOf(posts, PkNames, Separator) = DOMAIN posts
    BY DEF CombinedKeysOf
  <2> QED BY <2>1, ValuesOfMap DEF buildMultiPkMap, buildMultiPkMapWithValues, Lists
<1>3. buildPkMapWithValues(posts, PkName, {"val"}) = Values(single)
  <2>1. DOMAIN KeysOf(posts, PkName) = DOMAIN posts
    BY DEF KeysOf
  <2> QED BY <2>1, ValuesOfMap DEF buildPkMap, buildPkMapWithValues, Lists
<1>4. /\ ToSet(extractDistinct(posts, PkName)) = DOMAIN single
      /\ Len(extractDistinct(posts, PkName)) = Cardinality(DOMAIN single)
  <2>1. DOMAIN single = buildPkSet(posts, PkName)
    BY PkMapIsLastWins DEF Lists
  <2> HIDE DEF single
  <2> QED BY <2>1, DistinctKeys DEF Lists
<1>5. ASSUME AllPlain
      PROVE  /\ Cardinality(common) = Cardinality(A \cap B)
             /\ Cardinality(DOMAIN map) = Cardinality(B)
  <2>1. /\ \A row \in ToSet(prevs) : Plain(row)
        /\ \A row \in ToSet(posts) : Plain(row)
    BY <1>5 DEF AllPlain
  <2>2. /\ buildMultiPkSet(prevs, PkNames, Separator) = JoinedAll(A) /\ IsFiniteSet(A)
        /\ A \subseteq FreeTuples /\ B \subseteq FreeTuples
        /\ buildMultiPkSet(posts, PkNames, Separator) = JoinedAll(B) /\ IsFiniteSet(B)
    BY <2>1, KeysAreJoined DEF Lists
  <2>3. common = buildMultiPkSet(prevs, PkNames, Separator) \cap buildMultiPkSet(posts, PkNames, Separator)
    <3>1. DOMAIN buildMultiPkMap(prevs, PkNames, Separator) = buildMultiPkSet(prevs, PkNames, Separator)
      BY <1>1 DEF Lists
    <3> DEFINE old == buildMultiPkSet(prevs, PkNames, Separator)
    <3>2. common = {buildCombinedKey(posts[i], PkNames, Separator) :
                      i \in {j \in DOMAIN posts : buildCombinedKey(posts[j], PkNames, Separator) \in old}}
      BY <3>1 DEF buildCommonPkSetWithPks
    <3> HIDE DEF old, common
    <3>3. common = old \cap buildMultiPkSet(posts, PkNames, Separator)
      BY <3>2 DEF buildMultiPkSet
    <3> QED BY <3>3 DEF old
  <2>4. JoinedAll(A) \cap JoinedAll(B) = JoinedAll(A \cap B)
    <3> HIDE DEF A, B
    <3>1. ASSUME NEW t \in A, NEW u \in B, Join(t, Separator) = Join(u, Separator) PROVE t = u
      BY <2>2, <3>1, TuplesInjective
    <3> QED BY <3>1 DEF JoinedAll
  <2>5. DOMAIN map = JoinedAll(B)
    BY <1>1, <2>2 DEF Lists
  <2>6. IsFiniteSet(A \cap B)
    <3> HIDE DEF A, B
    <3> QED BY <2>2, FS_Subset
  <2>7. Cardinality(JoinedAll(A \cap B)) = Cardinality(A \cap B)
    <3> DEFINE T == A \cap B
    <3>1. T \in SUBSET FreeTuples /\ IsFiniteSet(T)
      BY <2>2, <2>6
    <3> HIDE DEF T
    <3>2. Cardinality(JoinedAll(T)) = Cardinality(T)
      BY <3>1, AsManyKeys
    <3> QED BY <3>2 DEF T
  <2>8. Cardinality(JoinedAll(B)) = Cardinality(B)
    BY <2>2, AsManyKeys
  <2> HIDE DEF A, B, map, common
  <2> QED BY <2>2, <2>3, <2>4, <2>5, <2>7, <2>8
<1>6. DOMAIN map = buildMultiPkSet(posts, PkNames, Separator)
  BY <1>1 DEF Lists
<1> HIDE DEF map, values, single, Values, common, A, B
<1> QED BY <1>2, <1>3, <1>4, <1>5, <1>6
        DEF CompositeKeysAreTuples, map, values, single, Values, common, A, B

-----------------------------------------------------------------------------
(* Theorems.                                                                *)

\* The lists are lists of rows.
LEMMA ListsOfRows == Spec => []Lists
<1>1. Init => Lists
  BY DEF Init, Lists
<1>2. Lists /\ [Next]_vars => Lists'
  BY DEF Lists, Next, AddPrev, AddPost, vars
<1> QED BY <1>1, <1>2, PTL DEF Spec

\* categorizeObject tells what turns the one list into the other, for rows of
\* any kind and lists of any length.
THEOREM Synchronisation == Spec => []CategoriesSynchronise
BY ListsOfRows, Synchronises, PTL

\* Merging two lists by key is an outer join, for lists of any length, with rows that
\* hold texts, arrays and objects and fields of any name.
THEOREM OuterJoin == Spec => []MergeIsOuterJoin
BY ListsOfRows, Joins, PTL

\* Grouping loses, invents and reorders no row, for lists of any length.
THEOREM Grouping == Spec => []GroupingsAgree
BY ListsOfRows, Groups, PTL

\* Composite keys tell apart what their tuples tell apart, for lists of any
\* length and keys of any number of fields.
THEOREM CompositeKeys == Spec => []CompositeKeysAreTuples
BY ListsOfRows, Composite, PTL
=============================================================================
