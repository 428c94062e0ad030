--------------------------- MODULE DataTransform ---------------------------
(***************************************************************************)
(* The pure helpers of libs/dataTransform.js, which sort rows of a SELECT  *)
(* and consumed messages by key.  They are checked on every pair of row    *)
(* lists (prevs, posts) a caller can build from Rows.                      *)
(*                                                                         *)
(* A row is a function from its own fields to values.  A text is a         *)
(* sequence of tokens, so that joining key parts with a separator is what  *)
(* it is in the code; any scalar counts as a text.  JSON columns and       *)
(* messages also hold arrays, here of texts, and objects, here with texts  *)
(* in their fields: pairs that begin with a token no text begins with.  A  *)
(* field a row lacks reads as undefined: join prints it as the empty text, *)
(* and the grouping helpers print it as 'null'.                            *)
(***************************************************************************)
EXTENDS Sequences, Naturals, FiniteSets, SequencesExt, TLC

CONSTANTS Rows,      \* the rows a caller may pass
          PkName,    \* a single-field key
          PkNames,   \* the fields of a composite key, in order
          Separator, \* KEY_SEPARATOR
          Inherited, \* names of the members every object inherits: constructor, ...
          MaxRows    \* bound: rows per list

\* A column has a name, key columns hold texts, and the separator is not empty.
ASSUME RowsAssumption ==
  /\ \A row \in Rows :
       /\ "" \notin DOMAIN row
       /\ \A field \in DOMAIN row :
            field \in {PkName} \cup ToSet(PkNames) => row[field] \in Seq(STRING)
  /\ PkNames \in Seq(STRING)
  /\ Separator \in Seq(STRING) /\ Separator /= <<>>

VARIABLES prevs, posts
vars == <<prevs, posts>>

Undefined == <<"undefined">>
Null == <<"null">>
Empty == <<>>

Array(texts) == <<"[", texts>>
Object(fields) == <<"{", fields>>
IsArray(value) == value /= Empty /\ value[1] = "["
IsObject(value) == value /= Empty /\ value[1] = "{"
IsText(value) == ~IsArray(value) /\ ~IsObject(value)

Read(row, field) == IF field \in DOMAIN row THEN row[field] ELSE Undefined

Init == prevs = <<>> /\ posts = <<>>

AddPrev ==
  /\ Len(prevs) < MaxRows
  /\ \E row \in Rows : prevs' = Append(prevs, row)
  /\ UNCHANGED posts

AddPost ==
  /\ Len(posts) < MaxRows
  /\ \E row \in Rows : posts' = Append(posts, row)
  /\ UNCHANGED prevs

Next == AddPrev \/ AddPost
Spec == Init /\ [][Next]_vars

-----------------------------------------------------------------------------
(* Fields of an object. *)

NoObject == [field \in {} |-> Empty]
Entry(key, value) == [k \in {key} |-> value]

\* { ...object, ...later }
Override(object, later) ==
  [key \in DOMAIN object \cup DOMAIN later |->
     IF key \in DOMAIN later THEN later[key] ELSE object[key]]

\* list.find((name) => name === key), used as a condition: finding '' is not finding.
Finds(names, key) == key \in names /\ key /= ""

KeepFields(row, names) == [field \in DOMAIN row \cap names |-> row[field]]
addObjectFields(row, added) == Override(row, added)
removeObjectFields(row, names) ==
  [field \in {f \in DOMAIN row : ~Finds(names, f)} |-> row[field]]
maintainObjectFields(row, names) ==
  [field \in {f \in DOMAIN row : Finds(names, f)} |-> row[field]]
\* Only fields that are there take a new value.
updateObjectFields(row, updates) ==
  [field \in DOMAIN row |->
     IF field \in DOMAIN updates /\ Finds(DOMAIN row, field) THEN updates[field] ELSE row[field]]
excludeKeysFromObject(row, names) == KeepFields(row, DOMAIN row \ names)

\* reduce((acc, object) => ({ ...acc, ...object }), {})
mergeObjects(objects) == FoldLeft(Override, NoObject, objects)

\* reduce with map.set(key, value): the later of two values of one key stays.
MapOf(keys, values) == mergeObjects([i \in DOMAIN keys |-> Entry(keys[i], values[i])])

\* forEach with push: the rows at the given places, in their order.
RowsAt(rows, places) ==
  MapThenFoldSet(LAMBDA row, acc : Append(acc, row), <<>>, LAMBDA i : rows[i],
                 LAMBDA S : Max(S), places)

-----------------------------------------------------------------------------
(* Keys made of several fields. *)

\* Mutant: the parts are joined without the separator.
JoinWithoutSeparator(texts, separator) ==
  FoldLeft(LAMBDA acc, text : acc \o text, Empty, texts)

\* texts.join(separator)
Join(texts, separator) ==
  IF texts = <<>> THEN Empty
  ELSE FoldLeft(LAMBDA acc, text : acc \o separator \o text, Head(texts), Tail(texts))

Printed(text) == IF text = Undefined THEN Empty ELSE text
buildCombinedKey(row, pkNames, separator) ==
  Join([i \in DOMAIN pkNames |-> Printed(Read(row, pkNames[i]))], separator)

\* item[field] ?? 'null', joined; constKeyName = Empty stands for false.
OrNull(text) == IF text = Undefined THEN Null ELSE text
GroupKey(row, fields, constKeyName) ==
  LET key == Join([i \in DOMAIN fields |-> OrNull(Read(row, fields[i]))], Separator)
  IN  IF constKeyName = Empty THEN key ELSE key \o Separator \o constKeyName

\* The texts that are names of inherited members: acc[key] finds one that no row put
\* there, and groupByKey throws.
InheritedKeys == {<<name>> : name \in Inherited}

groupByKey(rows, fields, constKeyName) ==
  FoldLeft(LAMBDA acc, row :
             LET key == GroupKey(row, fields, constKeyName)
             IN  Override(acc, Entry(key, IF key \in DOMAIN acc THEN Append(acc[key], row) ELSE <<row>>)),
           NoObject, rows)

\* Mutant: the first row of a key stays.
objectArrFirstWins(rows, fields, constKeyName) ==
  FoldLeft(LAMBDA acc, row :
             Override(Entry(GroupKey(row, fields, constKeyName),
                            removeObjectFields(row, ToSet(fields))), acc),
           NoObject, rows)

objectArrToObjWithKey(rows, fields, constKeyName) ==
  MapOf([i \in DOMAIN rows |-> GroupKey(rows[i], fields, constKeyName)],
        [i \in DOMAIN rows |-> removeObjectFields(rows[i], ToSet(fields))])

\* Mutant: the later row replaces the earlier one.
MergeShallow(target, source) == Override(target, source)

\* propertyIsUnsafe: what the target inherits without owning it is not taken over.
SafeKeys(target, source, inherited) == DOMAIN source \ (inherited \ DOMAIN target)

\* mergeObject, here of the texts in two objects: what both have is merged, what only
\* one of them has is cloned.
MergeFields(target, source) ==
  Override(target, KeepFields(source, SafeKeys(target, source, Inherited)))

\* cloneUnlessOtherwiseSpecified: an object is merged into an empty one.
CloneValue(value) ==
  IF IsObject(value) THEN Object(MergeFields(NoObject, value[2])) ELSE value

\* deepmerge of two values of a field: arrays are concatenated, objects united; a text
\* is replaced, and so is a value of the other kind.  A text inherits nothing that
\* `in` would find.
MergeValue(target, source) ==
  CASE IsArray(target) /\ IsArray(source) -> Array(target[2] \o source[2])
    [] IsObject(target) /\ IsObject(source) -> Object(MergeFields(target[2], source[2]))
    [] IsArray(target) /\ ~IsArray(source) -> CloneValue(source)
    [] OTHER -> source

\* mergeObject of two rows, and of two keyed objects of rows.
MergeRows(target, source) ==
  LET safe == SafeKeys(target, source, Inherited)
  IN  [field \in DOMAIN target \cup safe |->
         IF field \notin safe THEN CloneValue(target[field])
         ELSE IF field \in DOMAIN target THEN MergeValue(target[field], source[field])
         ELSE CloneValue(source[field])]
CloneRow(row) == MergeRows(NoObject, row)
MergeDeep(target, source) ==
  LET safe == SafeKeys(target, source, InheritedKeys)
  IN  [key \in DOMAIN target \cup safe |->
         IF key \notin safe THEN CloneRow(target[key])
         ELSE IF key \in DOMAIN target THEN MergeRows(target[key], source[key])
         ELSE CloneRow(source[key])]
deepMergeAll(objects) == FoldLeft(MergeDeep, NoObject, objects)

mergeAllObjectArrByKeys(lists, fields, constKeyName) ==
  deepMergeAll([i \in DOMAIN lists |-> objectArrToObjWithKey(lists[i], fields, constKeyName)])

-----------------------------------------------------------------------------
(* Maps and sets of keys. *)

KeysOf(rows, pkName) == [i \in DOMAIN rows |-> Read(rows[i], pkName)]
CombinedKeysOf(rows, pkNames, separator) ==
  [i \in DOMAIN rows |-> buildCombinedKey(rows[i], pkNames, separator)]
ValuesOf(rows, fields) == [i \in DOMAIN rows |-> maintainObjectFields(rows[i], fields)]

buildPkMap(rows, pkName) == MapOf(KeysOf(rows, pkName), rows)
buildPkMapWithValues(rows, pkName, valueFields) ==
  MapOf(KeysOf(rows, pkName), ValuesOf(rows, valueFields))
buildMultiPkMap(rows, pkNames, separator) ==
  MapOf(CombinedKeysOf(rows, pkNames, separator), rows)
buildMultiPkMapWithValues(rows, pkNames, separator, valueFields) ==
  MapOf(CombinedKeysOf(rows, pkNames, separator), ValuesOf(rows, valueFields))
buildPkSet(rows, pkName) == {Read(rows[i], pkName) : i \in DOMAIN rows}
buildMultiPkSet(rows, pkNames, separator) ==
  {buildCombinedKey(rows[i], pkNames, separator) : i \in DOMAIN rows}

\* Array.from(new Set(...)): the keys in the order of their first rows.
extractDistinct(rows, pkName) ==
  FoldLeft(LAMBDA acc, row :
             IF Read(row, pkName) \in ToSet(acc) THEN acc ELSE Append(acc, Read(row, pkName)),
           <<>>, rows)
buildCommonPkSet(before, after, pkName) ==
  LET prevMap == buildPkMap(before, pkName)
  IN  {Read(after[i], pkName) : i \in {j \in DOMAIN after : Read(after[j], pkName) \in DOMAIN prevMap}}

buildCommonPkSetWithPks(before, after, pkNames, separator) ==
  LET prevMap == buildMultiPkMap(before, pkNames, separator)
      keyOf(i) == buildCombinedKey(after[i], pkNames, separator)
  IN  {keyOf(i) : i \in {j \in DOMAIN after : keyOf(j) \in DOMAIN prevMap}}

\* Mutant: what is only in prevs is looked up in posts by row instead of by key.
categorizeByPrevs(before, after, pkName) ==
  LET prevMap == buildPkMap(before, pkName)
      common == {i \in DOMAIN after : Read(after[i], pkName) \in DOMAIN prevMap}
      commonData == RowsAt(after, common)
  IN  [commonData |-> commonData,
       postOnlyData |-> RowsAt(after, DOMAIN after \ common),
       prevOnlyData |-> RowsAt(before, {i \in DOMAIN before : before[i] \notin ToSet(commonData)})]

categorizeObject(before, after, pkName) ==
  LET prevMap == buildPkMap(before, pkName)
      common == {i \in DOMAIN after : Read(after[i], pkName) \in DOMAIN prevMap}
      commonData == RowsAt(after, common)
      commonMap == buildPkMap(commonData, pkName)
  IN  [commonData |-> commonData,
       postOnlyData |-> RowsAt(after, DOMAIN after \ common),
       prevOnlyData |->
         RowsAt(before, {i \in DOMAIN before : Read(before[i], pkName) \notin DOMAIN commonMap})]

-----------------------------------------------------------------------------
(* Properties. *)

\* Key parts that, as the helpers print them, hold nothing of the separator.
Plain(row) ==
  \A i \in DOMAIN PkNames :
    ToSet(Separator) \cap ToSet(OrNull(Read(row, PkNames[i]))) = {}
AllPlain == \A row \in ToSet(prevs) \cup ToSet(posts) : Plain(row)

\* What a composite key and a group key stand for.
KeyTuple(row) == [i \in DOMAIN PkNames |-> Printed(Read(row, PkNames[i]))]
KeyTuples(rows) == {KeyTuple(row) : row \in ToSet(rows)}
GroupTuple(row) == [i \in DOMAIN PkNames |-> OrNull(Read(row, PkNames[i]))]
GroupTuples(rows) == {GroupTuple(row) : row \in ToSet(rows)}

\* categorizeObject tells a synchronisation what to do: deleting what only prevs has,
\* inserting what only posts has and overwriting the common turns the table of prevs
\* into the table of posts, with rows repeated, changed or without a key in either; no
\* row is inserted over one that is there, none is deleted that posts still has, and
\* what is overwritten are the common keys, whichever list is called the previous one.
CategoriesSynchronise ==
  LET c == categorizeObject(prevs, posts, PkName)
      kept == excludeKeysFromObject(buildPkMap(prevs, PkName), buildPkSet(c.prevOnlyData, PkName))
      changed == mergeObjects(<<buildPkMap(c.postOnlyData, PkName), buildPkMap(c.commonData, PkName)>>)
      common == buildCommonPkSet(prevs, posts, PkName)
  IN  /\ addObjectFields(kept, changed) = buildPkMap(posts, PkName)
      /\ buildPkSet(c.postOnlyData, PkName) \cap buildPkSet(prevs, PkName) = {}
      /\ buildPkSet(c.prevOnlyData, PkName) \cap buildPkSet(posts, PkName) = {}
      /\ common = buildPkSet(c.commonData, PkName)
      /\ common = buildCommonPkSet(posts, prevs, PkName)

\* With plain key parts a composite key is as good as the tuple of its parts, in which a
\* missing part is the same as an empty one and as no other: as many common keys as
\* common tuples, as many map entries as tuples.  Keys and values of the maps, the set
\* and the list of keys belong together, plain or not.
CompositeKeysAreTuples ==
  LET map == buildMultiPkMap(posts, PkNames, Separator)
      values == buildMultiPkMapWithValues(posts, PkNames, Separator, {"val"})
      single == buildPkMap(posts, PkName)
      Values(rows) == [key \in DOMAIN rows |-> KeepFields(rows[key], {"val"})]
  IN
  /\ DOMAIN map = buildMultiPkSet(posts, PkNames, Separator)
  /\ values = Values(map)
  /\ buildPkMapWithValues(posts, PkName, {"val"}) = Values(single)
  /\ ToSet(extractDistinct(posts, PkName)) = DOMAIN single
  /\ Len(extractDistinct(posts, PkName)) = Cardinality(DOMAIN single)
  /\ AllPlain =>
    /\ Cardinality(buildCommonPkSetWithPks(prevs, posts, PkNames, Separator))
         = Cardinality(KeyTuples(prevs) \cap KeyTuples(posts))
    /\ Cardinality(DOMAIN map) = Cardinality(KeyTuples(posts))

\* groupByKey loses and invents no row and keeps the order within a group, and the
\* keyed object holds every group's last row without its key fields.  With plain key
\* parts there is one group for each tuple of parts: rows that lack a part share theirs
\* with rows that hold the word null there, and with no others.  (Where no row's key is
\* the name of an inherited member.)
GroupingsAgree ==
  LET groups == groupByKey(prevs, PkNames, Empty)
  IN  (\A row \in ToSet(prevs) : GroupKey(row, PkNames, Empty) \notin InheritedKeys) =>
      /\ \A key \in DOMAIN groups :
           groups[key] = RowsAt(prevs, {i \in DOMAIN prevs : GroupKey(prevs[i], PkNames, Empty) = key})
      /\ objectArrToObjWithKey(prevs, PkNames, Empty)
           = [key \in DOMAIN groups |->
                excludeKeysFromObject(Last(groups[key]), ToSet(PkNames))]
      /\ AllPlain => Cardinality(DOMAIN groups) = Cardinality(GroupTuples(prevs))

Visible(value) ==
  IF IsObject(value) THEN Object(KeepFields(value[2], DOMAIN value[2] \ Inherited)) ELSE value

\* What two values of a field stand for together.
Combined(early, late) ==
  IF IsArray(early) /\ IsArray(late) THEN Array(early[2] \o late[2])
  ELSE IF IsObject(early) /\ IsObject(late) THEN Object(addObjectFields(early[2], late[2]))
  ELSE late

\* What merging two lists by the given fields promises.
OuterJoinBy(fields) ==
  LET merged == mergeAllObjectArrByKeys(<<prevs, posts>>, fields, Empty)
      early == objectArrToObjWithKey(prevs, fields, Empty)
      late == objectArrToObjWithKey(posts, fields, Empty)
      In(object, key) == IF key \in DOMAIN object THEN object[key] ELSE NoObject
      Joined(e, l, field) ==
        IF field \notin DOMAIN l THEN e[field]
        ELSE IF field \notin DOMAIN e THEN l[field]
        ELSE Combined(e[field], l[field])
      OfTexts(row) == \A field \in DOMAIN row : IsText(row[field])
  IN  /\ DOMAIN merged = (DOMAIN early \cup DOMAIN late) \ InheritedKeys
      /\ \A key \in DOMAIN merged :
           LET e == In(early, key)
               l == In(late, key)
           IN  /\ DOMAIN merged[key] = (DOMAIN e \cup DOMAIN l) \ Inherited
               /\ \A field \in DOMAIN merged[key] :
                    Visible(merged[key][field]) = Visible(Joined(e, l, field))
               /\ OfTexts(e) /\ OfTexts(l) =>
                    KeepFields(merged[key], DOMAIN e)
                      = KeepFields(updateObjectFields(e, l), DOMAIN merged[key])

\* Merging lists by key is an outer join on the key.  What only one list has survives;
\* of two texts, or values of different kinds, the later stays, but the elements of two
\* arrays follow one another (so that merging a list with itself doubles them) and the
\* fields of two objects unite.  Rows and fields named like an inherited member are
\* lost.  Where all values are texts it is an update of the earlier list.  So it is
\* by one field and by several.
MergeIsOuterJoin == OuterJoinBy(<<PkName>>) /\ OuterJoinBy(PkNames)
=============================================================================
