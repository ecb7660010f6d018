------------------------------- MODULE Helpers -------------------------------
(***************************************************************************)
(* common/slice.go and common/struct.go: helpers that look like functions  *)
(* and are not.  Slices are windows on arrays that other slices may share, *)
(* and the helpers sort, compact and append in place; struct fields are    *)
(* looked up in a cache that outlives the call.                            *)
(*                                                                         *)
(* Elements and names are numbers, 0 the empty string.  All slices begin   *)
(* where their array does, as those the helpers make themselves do.        *)
(***************************************************************************)
EXTENDS Naturals, FiniteSets, SequencesExt

CONSTANTS Vars,      \* the slice variables of the caller
          Arrays,    \* the memory of slices
          Nil,       \* the array of a nil slice, of capacity 0
          Values,    \* elements
          KeyFunc,   \* KeyFunc[x]: the key UniqueAndMerge knows element x by
          Types,     \* struct types
          Fields,    \* Fields[t]: the fields of t, in order
          Tags,      \* the keys a struct tag is looked up with
          Spares,    \* how much longer than needed `append' makes an array
          Memories,  \* the arrays and variables the caller may begin with
          MaxCalls,  \* bound: the calls made
          None

EmptyString == 0
Names == Values \cup {EmptyString}

\* A tag's value, or key, is a sequence of names: its parts between commas.
TagValues == UNION {[1..n -> Values] : n \in 1..2}

\* Slices are no longer than their arrays.  Fields[t][i].tags: the values by
\* their keys.  Go's names of the fields of a struct are all different.
ASSUME HelpersAssumption ==
    /\ Values \subseteq Nat \ {EmptyString} /\ Spares \subseteq Nat
    /\ MaxCalls \in Nat /\ Nil \in Arrays /\ Tags \subseteq TagValues
    /\ KeyFunc \in [Names -> Names]
    /\ \A m \in Memories :
          /\ m.heap \in [Arrays -> Seq(Names)]
          /\ m.var \in [Vars -> [arr : Arrays, len : Nat]]
          /\ \A v \in Vars : m.var[v].len <= Len(m.heap[m.var[v].arr])
    /\ None \notin Seq(Names) /\ \A t \in Types : Len(Fields[t]) \in Nat
    /\ \A t \in Types : \A i \in 1..Len(Fields[t]) :
          /\ Fields[t][i].name \in Values /\ Fields[t][i].slice \in BOOLEAN
          /\ DOMAIN Fields[t][i].tags \subseteq TagValues
          /\ \A k \in DOMAIN Fields[t][i].tags : Fields[t][i].tags[k] \in TagValues
          /\ \A j \in 1..(i - 1) : Fields[t][j].name # Fields[t][i].name

VARIABLES heap,    \* heap[x]: the elements of array x, as many as it has room for
          var,     \* var[v]: array and length of the slice in v
          cache,   \* fieldInfoCache: for each type the names of its fields
          first,   \* history: the tag each type was first looked up with
          struct,  \* struct[t]: the fields' values in the variable of type t
          last,    \* the last call
          calls    \* the number of calls made

slices == <<heap, var>>
structs == <<cache, first, struct>>
vars == <<slices, structs, last, calls>>

\* What field i of type t held at first, and a nil slice.
Cell(t, i) == [type |-> t, field |-> i]
NilSlice == [type |-> None, field |-> 0]

SliceFields == UNION {{Cell(t, i) : i \in {i \in 1..Len(Fields[t]) : Fields[t][i].slice}} :
                         t \in Types}

Content(v) == SubSeq(heap[var[v].arr], 1, var[v].len)

Init ==
    /\ \E m \in Memories : heap = m.heap /\ var = m.var
    /\ cache = [t \in Types |-> None]
    /\ first = [t \in Types |-> None]
    /\ \E nils \in SUBSET SliceFields :
          /\ struct = [t \in Types |-> [i \in 1..Len(Fields[t]) |->
                          IF Cell(t, i) \in nils THEN NilSlice ELSE Cell(t, i)]]
    /\ last = [op |-> "none"]
    /\ calls = 0

Called(call) ==
    /\ calls < MaxCalls
    /\ calls' = calls + 1
    /\ last' = call

-----------------------------------------------------------------------------
(* IntInSlice, Int64InSlice, StringInSlice: sort, then search.             *)

\* The first n elements go to the places that those before them in order
\* leave them; elements that are equal are not told apart.
SortedTo(array, n) ==
    LET Place(i) == Cardinality({j \in 1..n : \/ array[j] < array[i]
                                              \/ array[j] = array[i] /\ j <= i})
    IN  [k \in DOMAIN array |->
            IF k <= n THEN array[CHOOSE i \in 1..n : Place(i) = k] ELSE array[k]]

\* sort.Search, and whether what it finds is x.
Finds(array, n, x) ==
    LET notLess == {i \in 1..n : array[i] >= x}
    IN  notLess # {} /\ array[CHOOSE i \in notLess : \A j \in notLess : i <= j] = x

\* Mutant: the whole array is sorted, not the slice.
InSliceSortsArray(v, x) ==
    LET n      == var[v].len
        sorted == SortedTo(heap[var[v].arr], Len(heap[var[v].arr]))
    IN  /\ Called([op |-> "in", slice |-> v, value |-> x, found |-> Finds(sorted, n, x)])
        /\ heap' = [heap EXCEPT ![var[v].arr] = sorted]
        /\ UNCHANGED <<var, structs>>

InSlice(v, x) ==
    LET n      == var[v].len
        sorted == SortedTo(heap[var[v].arr], n)
    IN  /\ Called([op |-> "in", slice |-> v, value |-> x, found |-> Finds(sorted, n, x)])
        /\ heap' = [heap EXCEPT ![var[v].arr] = sorted]
        /\ UNCHANGED <<var, structs>>

-----------------------------------------------------------------------------
(* DelIntInSlice, DelInt64InSlice, DelStringInSlice.                       *)

\* The loop: what is not x moves forward to where slow is.
Compact(array, n, x) ==
    FoldLeft(LAMBDA s, fast :
                 IF s.array[fast] = x THEN s
                 ELSE [array |-> [s.array EXCEPT ![s.slow + 1] = s.array[fast]],
                       slow  |-> s.slow + 1],
             [array |-> array, slow |-> 0],
             [i \in 1..n |-> i])

\* w = DelInSlice(v, x)
DelInSlice(v, x, w) ==
    LET done == Compact(heap[var[v].arr], var[v].len, x)
    IN  /\ Called([op |-> "del", slice |-> v, value |-> x, result |-> w])
        /\ heap' = [heap EXCEPT ![var[v].arr] = done.array]
        /\ var' = [var EXCEPT ![w] = [arr |-> var[v].arr, len |-> done.slow]]
        /\ UNCHANGED structs

-----------------------------------------------------------------------------
(* UniqueAndMerge.                                                         *)

\* append(slice1, slice2...) is written behind slice1 if there is room.
FitsBehind(v1, v2) ==
    var[v1].len + var[v2].len <= Len(heap[var[v1].arr])

Overwrite(array, n, s) ==
    SubSeq(array, 1, n) \o s \o SubSeq(array, n + Len(s) + 1, Len(array))

(* The loop over the merged slice, whose elements are read one by one,     *)
(* while the result may be appended to the same array.  `grown' is the     *)
(* result's new array once it has outgrown the one it had.                 *)
Appended(s, r, item) ==
    IF s.grown # <<>>
    THEN [s EXCEPT !.grown = Append(@, item), !.len = @ + 1]
    ELSE IF s.len < Len(s.heap[var[r].arr])
    THEN [s EXCEPT !.heap[var[r].arr][s.len + 1] = item, !.len = @ + 1]
    ELSE [s EXCEPT !.grown = Append(SubSeq(s.heap[var[r].arr], 1, s.len), item),
                   !.len = @ + 1]

\* Mutant: only a repetition that follows at once is noticed.
RememberLast(seen, key) == {key}

Remember(seen, key) == seen \cup {key}

MergeLoop(v1, v2, r) ==
    LET inPlace == FitsBehind(v1, v2)
        merged  == Content(v1) \o Content(v2)
        memory  == IF inPlace
                   THEN [heap EXCEPT ![var[v1].arr] =
                            Overwrite(@, var[v1].len, Content(v2))]
                   ELSE heap
        Step(s, i) ==
            LET item == IF inPlace THEN s.heap[var[v1].arr][i] ELSE merged[i]
                key  == KeyFunc[item]
            IN  IF key \in s.seen THEN s
                ELSE [Appended(s, r, item) EXCEPT !.seen = Remember(@, key)]
    IN  FoldLeft(Step,
                 [heap |-> memory, len |-> var[r].len, grown |-> <<>>, seen |-> {}],
                 [i \in 1..Len(merged) |-> i])

Merge(v1, v2, r) == [op |-> "merge", slice1 |-> v1, slice2 |-> v2, result |-> r]

Used(x) == \E v \in Vars : var[v].arr = x

UniqueAndMerge(v1, v2, r) ==
    LET done == MergeLoop(v1, v2, r)
    IN  /\ Called(Merge(v1, v2, r))
        /\ IF done.grown = <<>>
           THEN /\ heap' = done.heap
                /\ var' = [var EXCEPT ![r].len = done.len]
           ELSE \E x \in Arrays \ {Nil}, spare \in Spares :
                   /\ ~Used(x)
                   /\ heap' = [done.heap EXCEPT ![x] =
                                  done.grown \o [i \in 1..spare |-> EmptyString]]
                   /\ var' = [var EXCEPT ![r] = [arr |-> x, len |-> done.len]]
        /\ UNCHANGED structs

-----------------------------------------------------------------------------
(* StructAssign, between structs without structs in them.                  *)

\* cacheFieldInfo: a field that has the tag gets its own name, whatever the
\* tag says, and one that has not gets none.
FieldNames(t, tag) ==
    [i \in 1..Len(Fields[t]) |->
        IF tag \in DOMAIN Fields[t][i].tags THEN Fields[t][i].name ELSE EmptyString]

\* Mutant: the cache is not looked at before it is written.
GetFieldsAnew(t, tag) == FieldNames(t, tag)

GetFields(t, tag) == IF cache[t] # None THEN cache[t] ELSE FieldNames(t, tag)

\* vFieldMap keeps the last field of each name: many have the empty one.
Source(names, name) ==
    LET same == {j \in 1..Len(names) : names[j] = name}
    IN  IF same = {} THEN 0 ELSE CHOOSE j \in same : \A k \in same : k <= j

\* IsNil of what is no slice panics, and so does Set of a slice elsewhere.
Panics(target, source, i, j, name) ==
    /\ j # 0
    /\ IF Fields[target][i].slice THEN ~Fields[source][j].slice
                                  ELSE name # EmptyString /\ Fields[source][j].slice

Copies(target, source, i, j, name) ==
    /\ j # 0
    /\ IF Fields[target][i].slice THEN struct[source][j] # NilSlice
                                  ELSE name # EmptyString

Cached(target, targetNames, source, sourceNames) ==
    [cache EXCEPT ![source] = sourceNames, ![target] = targetNames]

StructAssign(target, source, tag) ==
    LET sourceNames == GetFields(source, tag)
        targetNames == GetFields(target, tag)
        from  == [i \in 1..Len(targetNames) |-> Source(sourceNames, targetNames[i])]
        fatal == {i \in DOMAIN from :
                     Panics(target, source, i, from[i], targetNames[i])}
        done  == {i \in DOMAIN from :
                     /\ \A k \in fatal : i < k
                     /\ Copies(target, source, i, from[i], targetNames[i])}
    IN  /\ Called([op |-> "assign", target |-> target, source |-> source,
                   panicked |-> fatal # {}])
        /\ struct' = [struct EXCEPT ![target] =
                         [i \in DOMAIN from |-> IF i \in done THEN struct[source][from[i]]
                                                              ELSE @[i]]]
        /\ cache' = Cached(target, targetNames, source, sourceNames)
        /\ first' = [t \in Types |-> IF t \in {target, source} /\ first[t] = None
                                     THEN tag ELSE first[t]]
        /\ UNCHANGED slices

-----------------------------------------------------------------------------
(* GenerateSignString; the values, their order and separators left out.    *)

Tag(t, i, key) ==
    IF key \in DOMAIN Fields[t][i].tags THEN Fields[t][i].tags[key] ELSE <<EmptyString>>

\* The tag found in one field is the key looked up in the next.
TagsRead(t, tag) ==
    LET read[i \in 0..Len(Fields[t])] ==
            IF i = 0 THEN tag ELSE Tag(t, i, read[i - 1])
    IN  read

GenerateSignString(t, tag, ignores) ==
    LET n      == var[ignores].len
        sorted == SortedTo(heap[var[ignores].arr], n)
        name   == [i \in 1..Len(Fields[t]) |-> Head(TagsRead(t, tag)[i])]
    IN  /\ Called([op |-> "sign", slice |-> ignores, type |-> t, tag |-> tag,
                   signed |-> {<<i, name[i]>> : i \in
                       {i \in DOMAIN name : ~Finds(sorted, n, name[i])}}])
        /\ heap' = [heap EXCEPT ![var[ignores].arr] = sorted]
        /\ UNCHANGED <<var, structs>>

-----------------------------------------------------------------------------
Next ==
    \/ \E v \in Vars, x \in Values : InSlice(v, x)
    \/ \E v, w \in Vars, x \in Values : DelInSlice(v, x, w)
    \/ \E v1, v2, r \in Vars : UniqueAndMerge(v1, v2, r)
    \/ \E target, source \in Types, tag \in Tags : StructAssign(target, source, tag)
    \/ \E t \in Types, tag \in Tags, v \in Vars : GenerateSignString(t, tag, v)

Spec == Init /\ [][Next]_vars

-----------------------------------------------------------------------------
(* What the calls promise.                                                 *)

\* The elements of s at the positions in S, in order.
ElementsAt(s, S) ==
    [k \in 1..Cardinality(S) |-> s[CHOOSE i \in S : Cardinality({j \in S : j <= i}) = k]]

\* Of the elements with one key the first.
WithoutRepetitions(s) ==
    ElementsAt(s, {i \in DOMAIN s :
                      \A j \in 1..(i - 1) : KeyFunc[s[j]] # KeyFunc[s[i]]})

Without(s, x) == ElementsAt(s, {i \in DOMAIN s : s[i] # x})

(* UniqueAndMerge appends to the result the two slices' elements, one for  *)
(* each key, the first, and in order, and no array is written but the first slice's and    *)
(* the result's, unless the result shares the first slice's array, is not  *)
(* empty and the second slice fits behind the first one: then it reads     *)
(* what it has itself overwritten (slice.go:16 and 21).                    *)
MergeIsRight ==
    [][ \A v1, v2, r \in Vars : last' = Merge(v1, v2, r) =>
        LET shared(v, w) == var[v].arr = var[w].arr
        IN  /\ \/ Content(r)' = Content(r)
                                \o WithoutRepetitions(Content(v1) \o Content(v2))
               \/ shared(r, v1) /\ Content(r) # <<>> /\ FitsBehind(v1, v2)
            /\ \A v \in Vars \ {r} :
                  \/ Content(v)' = Content(v)
                  \/ shared(v, v1) /\ var[v].len > var[v1].len
                  \/ shared(v, r) /\ var[v].len > var[r].len ]_vars

Count(s, x) == Cardinality({i \in DOMAIN s : s[i] = x})

(* The search finds what is in the slice, and the deletion returns what is *)
(* left, in order, however the slice was ordered by calls before; both     *)
(* write to their slice's part of its array only, so a slice that ends     *)
(* where theirs does loses no element to a search, and one of the rest of  *)
(* the array sees no change (slice.go:28, 60).                             *)
InPlaceHelpersAreRight ==
    [][ \A v \in Vars : last'.op \in {"in", "del", "sign"} /\ last'.slice = v =>
        /\ \A x \in Arrays : \A i \in DOMAIN heap[x] :
              (x = var[v].arr /\ i <= var[v].len) \/ heap'[x][i] = heap[x][i]
        /\ last'.op = "del" => \E w \in Vars :
              /\ last'.result = w
              /\ Content(w)' = Without(Content(v), last'.value)
        /\ last'.op # "del" =>
              \A e \in Names : Count(Content(v)', e) = Count(Content(v), e)
        /\ last'.op = "in" => (last'.found <=> Count(Content(v), last'.value) > 0) ]_vars

Has(t, i) == first'[t] \in DOMAIN Fields[t][i].tags

(* StructAssign goes by the tag each of the two types was first looked up  *)
(* with, in this call or in one of another tag before: a field that has it *)
(* gets the value of the source's field of that name that has its own      *)
(* type's, and no other field changes but a slice (struct.go:58).          *)
AssignGoesByTheFirstTag ==
    [][ last'.op = "assign" /\ ~last'.panicked =>
        LET target == last'.target  source == last'.source
        IN  \A i \in DOMAIN struct[target] :
               LET from == {j \in DOMAIN struct[source] :
                               /\ Has(source, j)
                               /\ Fields[source][j].name = Fields[target][i].name}
               IN  IF Has(target, i) /\ from # {}
                   THEN \A j \in from : struct'[target][i] \in
                           IF struct[source][j] = NilSlice THEN {struct[target][i]}
                                                           ELSE {struct[source][j]}
                   ELSE \/ struct'[target][i] = struct[target][i]
                        \/ ~Has(target, i) /\ Fields[target][i].slice ]_vars

(* As the comments of struct.go:173 and 177 say, the signature has each    *)
(* field under the name its tag has before the comma, but the ignored.     *)
SignNamesFields ==
    [][ last'.op = "sign" =>
        last'.signed = {<<i, Head(Tag(last'.type, i, last'.tag))>> :
                           i \in {i \in 1..Len(Fields[last'.type]) :
                              \A k \in DOMAIN Content(last'.slice) :
                                 Content(last'.slice)[k]
                                    # Head(Tag(last'.type, i, last'.tag))}} ]_vars

=============================================================================
