--------------------------- MODULE Helpers_proofs ---------------------------
(***************************************************************************)
(* What the helpers do to the caller's slices and structs, for every       *)
(* memory, every set of struct types and tags, and however many calls have *)
(* been made: StructAssign goes by what its cache was first filled with,   *)
(* the searches and deletions write to their own slice, and UniqueAndMerge *)
(* merges, unless it overwrites what it has yet to read.                   *)
(***************************************************************************)
EXTENDS Helpers, FiniteSetTheorems, WellFoundedInduction, TLAPS

LEMMA FieldFacts ==
    ASSUME NEW t \in Types
    PROVE  /\ Len(Fields[t]) \in Nat
           /\ \A i \in 1..Len(Fields[t]) :
                 /\ i \in Nat
                 /\ Fields[t][i].name \in Values /\ Fields[t][i].name # EmptyString
                 /\ Fields[t][i].slice \in BOOLEAN
           /\ \A i, j \in 1..Len(Fields[t]) : Fields[t][i].name = Fields[t][j].name => i = j
<1>1. Len(Fields[t]) \in Nat
  BY HelpersAssumption
<1>2. \A i \in 1..Len(Fields[t]) :
         /\ i \in Nat /\ Fields[t][i].name \in Values /\ Fields[t][i].slice \in BOOLEAN
         /\ \A j \in 1..(i - 1) : Fields[t][j].name # Fields[t][i].name
  BY <1>1, HelpersAssumption
<1>3. \A i \in 1..Len(Fields[t]) : Fields[t][i].name # EmptyString
  BY <1>2, HelpersAssumption
<1>4. ASSUME NEW i \in 1..Len(Fields[t]), NEW j \in 1..Len(Fields[t]),
             Fields[t][i].name = Fields[t][j].name
      PROVE  i = j
  <2>1. i < j => i \in 1..(j - 1)
    BY <1>2
  <2>2. j < i => j \in 1..(i - 1)
    BY <1>2
  <2>3. QED
    BY <1>2, <1>4, <2>1, <2>2
<1>5. QED
  BY <1>1, <1>2, <1>3, <1>4

LEMMA FieldNamesFacts ==
    ASSUME NEW t \in Types, NEW tag
    PROVE  /\ FieldNames(t, tag) # None
           /\ Len(FieldNames(t, tag)) = Len(Fields[t])
           /\ DOMAIN FieldNames(t, tag) = 1..Len(Fields[t])
           /\ \A i \in 1..Len(Fields[t]) :
                 FieldNames(t, tag)[i] = IF tag \in DOMAIN Fields[t][i].tags
                                         THEN Fields[t][i].name ELSE EmptyString
<1> DEFINE names == FieldNames(t, tag)
<1>1. names = [i \in 1..Len(Fields[t]) |-> names[i]]
      /\ \A i \in 1..Len(Fields[t]) :
             names[i] = IF tag \in DOMAIN Fields[t][i].tags
                        THEN Fields[t][i].name ELSE EmptyString
  BY DEF FieldNames
<1>2. \A i \in 1..Len(Fields[t]) : names[i] \in Names
  BY <1>1, FieldFacts DEF Names
<1> HIDE DEF names
<1>3. names \in [1..Len(Fields[t]) -> Names]
  BY <1>1, <1>2
<1>4. names \in Seq(Names) /\ Len(names) = Len(Fields[t])
  BY <1>3, FieldFacts
<1>5. names # None
  BY <1>4, HelpersAssumption
<1>6. DOMAIN names = 1..Len(Fields[t])
  BY <1>3
<1>7. QED
  BY <1>1, <1>4, <1>5, <1>6 DEF names

-----------------------------------------------------------------------------
(* The invariant: the cache has the names by the tag a type was looked up  *)
(* with first, and only slices are nil.                                    *)

CacheGoesByFirst ==
    /\ DOMAIN cache = Types /\ cache = [t \in Types |-> cache[t]]
    /\ \A t \in Types : IF first[t] = None THEN cache[t] = None
                                           ELSE cache[t] = FieldNames(t, first[t])

OnlySlicesAreNil ==
    /\ DOMAIN struct = Types /\ struct = [t \in Types |-> struct[t]]
    /\ \A t \in Types :
          /\ DOMAIN struct[t] = 1..Len(Fields[t])
          /\ struct[t] = [i \in 1..Len(Fields[t]) |-> struct[t][i]]
          /\ \A i \in 1..Len(Fields[t]) : struct[t][i] = NilSlice => Fields[t][i].slice

IInv == CacheGoesByFirst /\ OnlySlicesAreNil

LEMMA InitIInv == Init => IInv
<1> SUFFICES ASSUME Init PROVE IInv
  OBVIOUS
<1>1. CacheGoesByFirst
  BY DEF Init, CacheGoesByFirst
<1>2. PICK nils \in SUBSET SliceFields :
          struct = [t \in Types |-> [i \in 1..Len(Fields[t]) |->
                       IF Cell(t, i) \in nils THEN NilSlice ELSE Cell(t, i)]]
  BY DEF Init
<1>3. ASSUME NEW t \in Types, NEW i \in 1..Len(Fields[t]), struct[t][i] = NilSlice
      PROVE  Fields[t][i].slice
  <2>1. Cell(t, i).type = t /\ Cell(t, i).field = i /\ NilSlice.field = 0 /\ i # 0
    BY FieldFacts DEF Cell, NilSlice
  <2>2. Cell(t, i) \in SliceFields
    BY <1>2, <1>3, <2>1
  <2>3. PICK u \in Types : \E j \in 1..Len(Fields[u]) :
           Fields[u][j].slice /\ Cell(t, i) = Cell(u, j)
    BY <2>2 DEF SliceFields
  <2>4. PICK j \in 1..Len(Fields[u]) : Fields[u][j].slice /\ Cell(t, i) = Cell(u, j)
    BY <2>3
  <2>5. Cell(u, j).type = u /\ Cell(u, j).field = j
    BY DEF Cell
  <2>6. QED
    BY <2>1, <2>4, <2>5
<1>4. OnlySlicesAreNil
  BY <1>2, <1>3 DEF OnlySlicesAreNil
<1>5. QED
  BY <1>1, <1>4 DEF IInv

\* The names used are those of the tag the type goes by afterwards.
FirstTag(t, tag) == IF first[t] = None THEN tag ELSE first[t]

LEMMA NamesAreOfFirst ==
    ASSUME CacheGoesByFirst, NEW t \in Types, NEW tag \in Tags
    PROVE  GetFields(t, tag) = FieldNames(t, FirstTag(t, tag))
<1>1. CASE first[t] = None
  BY <1>1 DEF CacheGoesByFirst, GetFields, FirstTag
<1>2. CASE first[t] # None
  BY <1>2, FieldNamesFacts DEF CacheGoesByFirst, GetFields, FirstTag
<1>3. QED
  BY <1>1, <1>2

LEMMA TagsAreNotNone == None \notin Tags
<1>1. ASSUME NEW v \in TagValues PROVE v \in Seq(Names)
  <2>1. PICK n \in 1..2 : v \in [1..n -> Values]
    BY DEF TagValues
  <2>2. n \in Nat /\ v \in [1..n -> Names]
    BY <2>1 DEF Names
  <2>3. QED
    BY <2>2
<1>2. QED
  BY <1>1, HelpersAssumption

\* The last field of a name, if there is one.
LEMMA SourceFacts ==
    ASSUME NEW names, NEW name, Len(names) \in Nat
    PROVE  LET same == {j \in 1..Len(names) : names[j] = name}
           IN  IF same = {} THEN Source(names, name) = 0
                            ELSE Source(names, name) \in same
<1> DEFINE same == {j \in 1..Len(names) : names[j] = name}
           Least == {Len(names) - j : j \in same}
<1>1. CASE same = {}
  BY <1>1 DEF Source
<1>2. CASE same # {}
  <2>1. \E j \in same : \A k \in same : k <= j
    <3> DEFINE Less == {p \in Nat \X Nat : p[1] < p[2]}
    <3>1. IsWellFoundedOn(Less, Nat)
      BY NatLessThanWellFounded DEF OpToRel
    <3>2. Least \subseteq Nat /\ Least # {}
      BY <1>2
    <3>3. PICK m \in Least : \A y \in Least : <<y, m>> \notin Less
      <4> HIDE DEF Less, Least
      <4> QED
        BY <3>1, <3>2, WFMin
    <3>4. \A y \in Least : m <= y
      <4>1. TAKE y \in Least
      <4>2. y \in Nat /\ m \in Nat /\ ~(y < m)
        BY <3>2, <3>3
      <4>3. QED
        BY <4>2
    <3>5. PICK j \in same : m = Len(names) - j
      OBVIOUS
    <3>6. ASSUME NEW k \in same PROVE k <= j
      <4>1. Len(names) - j <= Len(names) - k
        BY <3>4, <3>5
      <4>2. k \in Nat /\ j \in Nat
        OBVIOUS
      <4>3. QED
        BY <4>1, <4>2
    <3>7. QED
      BY <3>6
  <2>2. Source(names, name) = CHOOSE j \in same : \A k \in same : k <= j
    BY <1>2 DEF Source
  <2> HIDE DEF same
  <2>3. Source(names, name) \in same
    BY <2>1, <2>2
  <2>4. QED
    BY <1>2, <2>3 DEF same
<1>3. QED
  BY <1>1, <1>2

-----------------------------------------------------------------------------
(* One assignment.                                                         *)

\* The source's field for field i, by the two lists of names.
From(targetNames, sourceNames, i) == Source(sourceNames, targetNames[i])

\* What the fields hold afterwards: what they did, or what a field of the
\* source did; and the names that were gone by.
Assigned(target, source, tag) ==
    LET T == FieldNames(target, FirstTag(target, tag))
        S == FieldNames(source, FirstTag(source, tag))
        N == 1..Len(Fields[target])
        panics(i) == Panics(target, source, i, From(T, S, i), T[i])
        copies(i) == Copies(target, source, i, From(T, S, i), T[i])
    IN  /\ DOMAIN struct'[target] = N
        /\ struct'[target] = [i \in N |-> struct'[target][i]]
        /\ \A i \in N :
              \/ struct'[target][i] = struct[target][i] /\ (copies(i) => last'.panicked)
              \/ /\ struct'[target][i] = struct[source][From(T, S, i)]
                 /\ copies(i) /\ ~panics(i)
        /\ \A t \in Types \ {target} : struct'[t] = struct[t]
        /\ DOMAIN struct' = Types /\ struct' = [t \in Types |-> struct'[t]]
        /\ ~last'.panicked => \A i \in N : ~panics(i)
        /\ last'.target = target /\ last'.source = source

LookedUp(target, source, tag) ==
    /\ first' = [t \in Types |-> IF t \in {target, source} THEN FirstTag(t, tag)
                                                          ELSE first[t]]
    /\ cache' = [cache EXCEPT ![source] = FieldNames(source, FirstTag(source, tag)),
                              ![target] = FieldNames(target, FirstTag(target, tag))]

LEMMA AssignDoes ==
    ASSUME IInv, NEW target \in Types, NEW source \in Types, NEW tag \in Tags,
           StructAssign(target, source, tag)
    PROVE  Assigned(target, source, tag) /\ LookedUp(target, source, tag)
<1> DEFINE T == FieldNames(target, FirstTag(target, tag))
           S == FieldNames(source, FirstTag(source, tag))
           N == 1..Len(Fields[target])
           from == [i \in DOMAIN T |-> From(T, S, i)]
           fatal == {i \in DOMAIN from : Panics(target, source, i, from[i], T[i])}
           done == {i \in DOMAIN from :
                       /\ \A k \in fatal : i < k
                       /\ Copies(target, source, i, from[i], T[i])}
<1>1. /\ GetFields(target, tag) = T /\ GetFields(source, tag) = S
      /\ DOMAIN T = N /\ Len(T) = Len(Fields[target])
  BY NamesAreOfFirst, FieldNamesFacts DEF IInv
<1> DEFINE from2 == [i \in 1..Len(T) |-> Source(S, T[i])]
<1>2. from = from2
  BY <1>1 DEF From
<1>3. /\ last' = [op |-> "assign", target |-> target, source |-> source,
                  panicked |-> fatal # {}]
      /\ struct' = [struct EXCEPT ![target] =
                         [i \in DOMAIN from |-> IF i \in done THEN struct[source][from[i]]
                                                              ELSE @[i]]]
      /\ cache' = [cache EXCEPT ![source] = S, ![target] = T]
      /\ first' = [t \in Types |-> IF t \in {target, source} /\ first[t] = None
                                    THEN tag ELSE first[t]]
  <2> HIDE DEF T, S
  <2>1. QED
    BY <1>1, <1>2 DEF StructAssign, Called, Cached, From
<1>4. DOMAIN from = N /\ \A i \in N : from[i] = From(T, S, i)
  BY <1>1
<1> HIDE DEF T, S, from
<1>5. last'.panicked = (fatal # {}) /\ last'.target = target /\ last'.source = source
  <2> DEFINE panicked == fatal # {}
  <2>1. last' = [op |-> "assign", target |-> target, source |-> source,
                 panicked |-> panicked]
    BY <1>3
  <2> HIDE DEF panicked
  <2>2. last'.panicked = panicked /\ last'.target = target /\ last'.source = source
    BY <2>1
  <2>3. QED
    BY <2>2 DEF panicked
<1>6. /\ struct'[target] = [i \in N |-> IF i \in done THEN struct[source][from[i]]
                                                     ELSE struct[target][i]]
      /\ \A t \in Types \ {target} : struct'[t] = struct[t]
      /\ DOMAIN struct' = Types /\ struct' = [t \in Types |-> struct'[t]]
  <2> HIDE DEF done
  <2>1. QED
    BY <1>3, <1>4 DEF IInv, OnlySlicesAreNil
<1>7. ASSUME NEW i \in N
      PROVE  \/ /\ struct'[target][i] = struct[target][i]
                /\ Copies(target, source, i, From(T, S, i), T[i]) => fatal # {}
             \/ /\ struct'[target][i] = struct[source][From(T, S, i)]
                /\ Copies(target, source, i, From(T, S, i), T[i])
                /\ ~Panics(target, source, i, From(T, S, i), T[i])
  <2>1. CASE i \in done
    <3>1. i \notin fatal
      <4>1. i \in fatal => i < i
        BY <2>1
      <4>2. i \in Nat
        BY FieldFacts
      <4>3. QED
        BY <4>1, <4>2
    <3>2. struct'[target][i] = struct[source][from[i]]
      <4> HIDE DEF done
      <4>1. QED
        BY <1>6, <2>1
    <3>3. QED
      BY <1>4, <2>1, <3>1, <3>2
  <2>2. CASE i \notin done
    <3>1. struct'[target][i] = struct[target][i]
      <4> HIDE DEF done
      <4>1. QED
        BY <1>6, <2>2
    <3>2. Copies(target, source, i, From(T, S, i), T[i]) => fatal # {}
      BY <1>4, <2>2
    <3>3. QED
      BY <3>1, <3>2
  <2>3. QED
    BY <2>1, <2>2
<1>8. fatal = {} => \A i \in N : ~Panics(target, source, i, From(T, S, i), T[i])
  BY <1>4
<1>9. first' = [t \in Types |-> IF t \in {target, source} THEN FirstTag(t, tag)
                                                        ELSE first[t]]
  BY <1>3 DEF FirstTag
<1>10. DOMAIN struct'[target] = N /\ struct'[target] = [i \in N |-> struct'[target][i]]
  <2> HIDE DEF done
  <2>1. QED
    BY <1>6
<1> HIDE DEF fatal, done
<1>11. LookedUp(target, source, tag)
  BY <1>3, <1>9 DEF T, S, LookedUp
<1>12. Assigned(target, source, tag)
  BY <1>5, <1>6, <1>7, <1>8, <1>10 DEF T, S, Assigned
<1>13. QED
  BY <1>11, <1>12

LEMMA AssignKeepsIInv ==
    ASSUME IInv, NEW target \in Types, NEW source \in Types, NEW tag \in Tags,
           StructAssign(target, source, tag)
    PROVE  IInv'
<1> DEFINE T == FieldNames(target, FirstTag(target, tag))
           S == FieldNames(source, FirstTag(source, tag))
           N == 1..Len(Fields[target])
           copies(i) == Copies(target, source, i, From(T, S, i), T[i])
           panics(i) == Panics(target, source, i, From(T, S, i), T[i])
<1>1. /\ cache' = [cache EXCEPT ![source] = S, ![target] = T]
      /\ first' = [t \in Types |-> IF t \in {target, source} THEN FirstTag(t, tag)
                                                            ELSE first[t]]
  BY AssignDoes DEF LookedUp
<1>2. CacheGoesByFirst'
  <2>1. DOMAIN cache' = Types /\ cache' = [t \in Types |-> cache'[t]]
    <3> HIDE DEF S, T
    <3>1. QED
      BY <1>1 DEF IInv, CacheGoesByFirst
  <2>2. ASSUME NEW t \in Types
        PROVE  IF first'[t] = None THEN cache'[t] = None
                                   ELSE cache'[t] = FieldNames(t, first'[t])
    <3>1. CASE t \in {target, source}
      <4>1. first'[t] = FirstTag(t, tag) /\ first'[t] # None
        BY <1>1, <3>1, TagsAreNotNone DEF FirstTag
      <4>2. cache'[t] = FieldNames(t, FirstTag(t, tag))
        <5>1. cache'[target] = T /\ (source # target => cache'[source] = S)
          <6> HIDE DEF S, T
          <6>1. QED
            BY <1>1 DEF IInv, CacheGoesByFirst
        <5>2. QED
          BY <3>1, <5>1
      <4>3. QED
        BY <4>1, <4>2
    <3>2. CASE t \notin {target, source}
      <4>1. first'[t] = first[t]
        BY <1>1, <3>2
      <4>2. cache'[t] = cache[t]
        <5> HIDE DEF S, T
        <5>1. QED
          BY <1>1, <3>2 DEF IInv, CacheGoesByFirst
      <4>3. QED
        BY <4>1, <4>2 DEF IInv, CacheGoesByFirst
    <3>3. QED
      BY <3>1, <3>2
  <2>3. QED
    BY <2>1, <2>2 DEF CacheGoesByFirst
<1>3. /\ DOMAIN struct'[target] = N /\ struct'[target] = [i \in N |-> struct'[target][i]]
      /\ \A t \in Types \ {target} : struct'[t] = struct[t]
      /\ DOMAIN struct' = Types /\ struct' = [t \in Types |-> struct'[t]]
  BY AssignDoes DEF Assigned
<1>4. ASSUME NEW i \in N, struct'[target][i] = NilSlice
      PROVE  Fields[target][i].slice
  <2>1. CASE struct'[target][i] = struct[target][i]
    BY <1>4, <2>1 DEF IInv, OnlySlicesAreNil
  <2>2. CASE /\ struct'[target][i] = struct[source][From(T, S, i)]
             /\ copies(i) /\ ~panics(i)
    <3> DEFINE j == From(T, S, i)
    <3>1. j \in 1..Len(Fields[source])
      <4>1. j # 0
        BY <2>2 DEF Copies
      <4>2. Len(S) = Len(Fields[source]) /\ Len(S) \in Nat
        BY FieldNamesFacts, FieldFacts
      <4> HIDE DEF S, T
      <4>3. QED
        BY <4>1, <4>2, SourceFacts DEF From
    <3> HIDE DEF T, S, j
    <3>2. struct[source][j] = NilSlice
      BY <1>4, <2>2 DEF j
    <3>3. Fields[source][j].slice
      BY <3>1, <3>2 DEF IInv, OnlySlicesAreNil
    <3>4. copies(i) /\ ~panics(i) /\ j # 0
      BY <2>2 DEF Copies, j
    <3>5. QED
      BY <3>3, <3>4 DEF Copies, Panics, j
  <2>3. Assigned(target, source, tag)
    BY AssignDoes
  <2>4. \/ struct'[target][i] = struct[target][i]
        \/ /\ struct'[target][i] = struct[source][From(T, S, i)]
           /\ copies(i) /\ ~panics(i)
    BY <2>3 DEF Assigned
  <2>5. QED
    BY <2>1, <2>2, <2>4
<1> HIDE DEF T, S
<1>5. OnlySlicesAreNil'
  <2>1. ASSUME NEW t \in Types
        PROVE  /\ DOMAIN struct'[t] = 1..Len(Fields[t])
               /\ struct'[t] = [i \in 1..Len(Fields[t]) |-> struct'[t][i]]
               /\ \A i \in 1..Len(Fields[t]) : struct'[t][i] = NilSlice => Fields[t][i].slice
    <3>1. CASE t = target
      BY <1>3, <1>4, <3>1
    <3>2. CASE t # target
      BY <1>3, <3>2 DEF IInv, OnlySlicesAreNil
    <3>3. QED
      BY <3>1, <3>2
  <2>2. QED
    BY <1>3, <2>1 DEF OnlySlicesAreNil
<1>6. QED
  BY <1>2, <1>5 DEF IInv

LEMMA Invariance == Spec => []IInv
<1>1. IInv /\ [Next]_vars => IInv'
  <2> SUFFICES ASSUME IInv, [Next]_vars PROVE IInv'
    OBVIOUS
  <2>1. ASSUME UNCHANGED structs PROVE IInv'
    BY <2>1 DEF structs, IInv, CacheGoesByFirst, OnlySlicesAreNil
  <2>2. CASE \E target, source \in Types, tag \in Tags : StructAssign(target, source, tag)
    BY <2>2, AssignKeepsIInv
  <2>3. CASE \E v \in Vars, x \in Values : InSlice(v, x)
    BY <2>1, <2>3 DEF InSlice
  <2>4. CASE \E v, w \in Vars, x \in Values : DelInSlice(v, x, w)
    BY <2>1, <2>4 DEF DelInSlice
  <2>5. CASE \E v1, v2, r \in Vars : UniqueAndMerge(v1, v2, r)
    BY <2>1, <2>5 DEF UniqueAndMerge
  <2>6. CASE \E t \in Types, tag \in Tags, v \in Vars : GenerateSignString(t, tag, v)
    BY <2>1, <2>6 DEF GenerateSignString
  <2>7. CASE UNCHANGED vars
    BY <2>1, <2>7 DEF vars
  <2>8. QED
    BY <2>2, <2>3, <2>4, <2>5, <2>6, <2>7 DEF Next
<1>2. QED
  BY <1>1, InitIInv, PTL DEF Spec

-----------------------------------------------------------------------------
(* The promise.                                                            *)

\* That of AssignGoesByTheFirstTag for field i.
FieldGoesByFirst(target, source, i) ==
    LET from == {j \in DOMAIN struct[source] :
                    Has(source, j) /\ Fields[source][j].name = Fields[target][i].name}
    IN  IF Has(target, i) /\ from # {}
        THEN \A j \in from : struct'[target][i] \in
                IF struct[source][j] = NilSlice THEN {struct[target][i]}
                                                ELSE {struct[source][j]}
        ELSE \/ struct'[target][i] = struct[target][i]
             \/ ~Has(target, i) /\ Fields[target][i].slice

LEMMA EachFieldGoesByFirst ==
    ASSUME IInv, NEW target \in Types, NEW source \in Types, NEW tag \in Tags,
           StructAssign(target, source, tag), ~last'.panicked,
           NEW i \in DOMAIN struct[target]
    PROVE  FieldGoesByFirst(target, source, i)
<1> DEFINE T == FieldNames(target, FirstTag(target, tag))
           S == FieldNames(source, FirstTag(source, tag))
           N == 1..Len(Fields[target])
           M == 1..Len(Fields[source])
           j == From(T, S, i)
           same == {k \in M : S[k] = T[i]}
           from == {k \in DOMAIN struct[source] :
                       Has(source, k) /\ Fields[source][k].name = Fields[target][i].name}
<1>1. DOMAIN struct[target] = N /\ DOMAIN struct[source] = M
  BY DEF IInv, OnlySlicesAreNil
<1>2. /\ Has(target, i) <=> FirstTag(target, tag) \in DOMAIN Fields[target][i].tags
      /\ \A k \in M : Has(source, k) <=> FirstTag(source, tag) \in DOMAIN Fields[source][k].tags
  <2>1. first' = [t \in Types |-> IF t \in {target, source} THEN FirstTag(t, tag)
                                                          ELSE first[t]]
    BY AssignDoes DEF LookedUp
  <2>2. first'[target] = FirstTag(target, tag) /\ first'[source] = FirstTag(source, tag)
    BY <2>1
  <2>3. QED
    BY <2>2 DEF Has
<1>3. /\ T[i] = IF Has(target, i) THEN Fields[target][i].name ELSE EmptyString
      /\ \A k \in M : S[k] = IF Has(source, k) THEN Fields[source][k].name ELSE EmptyString
  BY SMTT(30), <1>1, <1>2, FieldNamesFacts
<1>4. IF same = {} THEN j = 0 ELSE j \in same
  <2>1. Len(S) = Len(Fields[source]) /\ Len(S) \in Nat
    BY FieldNamesFacts, FieldFacts
  <2> HIDE DEF S, T
  <2>2. QED
    BY <2>1, SourceFacts DEF From
<1>5. /\ ~Panics(target, source, i, j, T[i])
      /\ \/ /\ struct'[target][i] = struct[target][i]
            /\ ~Copies(target, source, i, j, T[i])
         \/ /\ struct'[target][i] = struct[source][j]
            /\ Copies(target, source, i, j, T[i])
  <2>1. Assigned(target, source, tag)
    BY AssignDoes
  <2>2. QED
    BY <1>1, <2>1 DEF Assigned
<1> HIDE DEF T, S, j, same
<1>6. \A k \in M : 0 # k
  BY FieldFacts
<1>7. CASE Has(target, i) /\ from # {}
  <2>1. T[i] = Fields[target][i].name /\ T[i] # EmptyString
    BY <1>1, <1>3, <1>7, FieldFacts
  <2>2. from = same
    BY <1>1, <1>3, <2>1 DEF same
  <2>3. j \in same /\ j \in M /\ j # 0
    BY <1>4, <1>6, <1>7, <2>2 DEF same
  <2>4. ASSUME NEW k \in from PROVE k = j
    BY <1>1, <2>2, <2>3, <2>4, FieldFacts
  <2>5. struct'[target][i] \in
           IF struct[source][j] = NilSlice THEN {struct[target][i]} ELSE {struct[source][j]}
    <3>1. CASE Fields[target][i].slice
      BY <1>5, <2>3, <3>1 DEF Copies
    <3>2. CASE ~Fields[target][i].slice
      <4>1. ~Fields[source][j].slice
        BY <1>5, <2>1, <2>3, <3>2 DEF Panics
      <4>2. struct[source][j] # NilSlice
        BY <2>3, <4>1 DEF IInv, OnlySlicesAreNil
      <4>3. Copies(target, source, i, j, T[i])
        BY <2>1, <2>3, <3>2 DEF Copies
      <4>4. QED
        BY <1>5, <4>2, <4>3
    <3>3. QED
      BY <3>1, <3>2
  <2>6. \A k \in from : struct'[target][i] \in
           IF struct[source][k] = NilSlice THEN {struct[target][i]} ELSE {struct[source][k]}
    BY <2>4, <2>5
  <2>7. QED
    BY <1>7, <2>6 DEF FieldGoesByFirst
<1>8. CASE Has(target, i) /\ from = {}
  <2>1. T[i] = Fields[target][i].name /\ T[i] # EmptyString
    BY <1>1, <1>3, <1>8, FieldFacts
  <2>2. same = {}
    BY <1>1, <1>3, <1>8, <2>1 DEF same
  <2>3. ~Copies(target, source, i, j, T[i])
    BY <1>4, <2>2 DEF Copies
  <2>4. QED
    BY <1>5, <1>8, <2>3 DEF FieldGoesByFirst
<1>9. CASE ~Has(target, i)
  <2>1. T[i] = EmptyString
    BY <1>3, <1>9
  <2>2. Copies(target, source, i, j, T[i]) => Fields[target][i].slice
    BY <2>1 DEF Copies
  <2>3. QED
    BY <1>5, <1>9, <2>2 DEF FieldGoesByFirst
<1>10. QED
  BY <1>7, <1>8, <1>9

(* StructAssign goes by the tag that each of the two types was first       *)
(* looked up with, for any types and any number of calls before.           *)
THEOREM AssignmentsGoByTheFirstTag == Spec => AssignGoesByTheFirstTag
<1> DEFINE Goes ==
        last'.op = "assign" /\ ~last'.panicked =>
            LET target == last'.target  source == last'.source
            IN  \A i \in DOMAIN struct[target] :
                   LET from == {j \in DOMAIN struct[source] :
                                   /\ Has(source, j)
                                   /\ Fields[source][j].name = Fields[target][i].name}
                   IN  IF Has(target, i) /\ from # {}
                       THEN \A j \in from : struct'[target][i] \in
                               IF struct[source][j] = NilSlice THEN {struct[target][i]}
                                                               ELSE {struct[source][j]}
                       ELSE \/ struct'[target][i] = struct[target][i]
                            \/ ~Has(target, i) /\ Fields[target][i].slice
<1>1. IInv /\ [Next]_vars => [Goes]_vars
  <2> SUFFICES ASSUME IInv, Next, last'.op = "assign", ~last'.panicked
               PROVE  Goes
    OBVIOUS
  <2>1. PICK target \in Types, source \in Types, tag \in Tags :
            StructAssign(target, source, tag)
    <3>1. ASSUME NEW v \in Vars, NEW x \in Values, InSlice(v, x) PROVE FALSE
      BY <3>1 DEF InSlice, Called
    <3>2. ASSUME NEW v \in Vars, NEW w \in Vars, NEW x \in Values, DelInSlice(v, x, w)
          PROVE  FALSE
      BY <3>2 DEF DelInSlice, Called
    <3>3. ASSUME NEW v1 \in Vars, NEW v2 \in Vars, NEW r \in Vars, UniqueAndMerge(v1, v2, r)
          PROVE  FALSE
      <4>1. last' = Merge(v1, v2, r)
        BY <3>3 DEF UniqueAndMerge, Called
      <4>2. QED
        BY <4>1 DEF Merge
    <3>4. ASSUME NEW t \in Types, NEW tag \in Tags, NEW v \in Vars,
                 GenerateSignString(t, tag, v)
          PROVE  FALSE
      <4>1. PICK signed :
               last' = [op |-> "sign", slice |-> v, type |-> t, tag |-> tag, signed |-> signed]
        BY <3>4 DEF GenerateSignString, Called
      <4>2. QED
        BY <4>1
    <3>5. QED
      BY <3>1, <3>2, <3>3, <3>4 DEF Next
  <2>2. last'.target = target /\ last'.source = source
    BY <2>1, AssignDoes DEF Assigned
  <2>3. \A i \in DOMAIN struct[target] : FieldGoesByFirst(target, source, i)
    BY <2>1, EachFieldGoesByFirst
  <2>4. QED
    BY SMTT(30), <2>2, <2>3 DEF FieldGoesByFirst
<1>2. QED
  BY <1>1, Invariance, PTL DEF Spec, AssignGoesByTheFirstTag

-----------------------------------------------------------------------------
(* Places: each element of a finite set has one by how many come before.   *)

\* before[i]: what is not after i, and i itself.
IsOrder(S, before) ==
    /\ \A i \in S : i \in before[i] /\ before[i] \subseteq S
    /\ \A i, j \in S : i # j => \/ before[i] \subseteq before[j] /\ j \notin before[i]
                                \/ before[j] \subseteq before[i] /\ i \notin before[j]

Place(before, i) == Cardinality(before[i])

LEMMA PlacesAreOrdered ==
    ASSUME NEW S, IsFiniteSet(S), NEW before, IsOrder(S, before),
           NEW i \in S, NEW j \in S
    PROVE  /\ Place(before, i) \in 1..Cardinality(S)
           /\ Place(before, i) = Place(before, j) => i = j
           /\ Place(before, i) <= Place(before, j) => i \in before[j]
<1>1. Cardinality(S) \in Nat
  BY FS_CardinalityType
<1>2. /\ i \in before[i] /\ before[i] \in SUBSET S
      /\ j \in before[j] /\ before[j] \in SUBSET S
  BY DEF IsOrder
<1>3. /\ IsFiniteSet(before[i]) /\ Place(before, i) <= Cardinality(S)
      /\ IsFiniteSet(before[j]) /\ Place(before, j) <= Cardinality(S)
  BY <1>2, FS_Subset DEF Place
<1>4. Place(before, i) \in Nat /\ Place(before, j) \in Nat
  BY <1>3, FS_CardinalityType DEF Place
<1>5. Place(before, i) # 0
  <2>1. before[i] # {}
    BY <1>2
  <2>2. QED
    BY <1>3, <2>1, FS_EmptySet DEF Place
<1>6. ASSUME before[i] \subseteq before[j], j \notin before[i]
      PROVE  Place(before, i) < Place(before, j)
  <2>1. before[i] # before[j]
    BY <1>2, <1>6
  <2>2. before[i] \in SUBSET before[j]
    BY <1>6
  <2>3. QED
    BY <1>3, <1>4, <2>1, <2>2, FS_Subset DEF Place
<1>7. ASSUME before[j] \subseteq before[i], i \notin before[j]
      PROVE  Place(before, j) < Place(before, i)
  <2>1. before[i] # before[j]
    BY <1>2, <1>7
  <2>2. before[j] \in SUBSET before[i]
    BY <1>7
  <2>3. QED
    BY <1>3, <1>4, <2>1, <2>2, FS_Subset DEF Place
<1>8. CASE i = j
  BY <1>1, <1>2, <1>3, <1>4, <1>5, <1>8
<1>9. CASE i # j
  <2>1. \/ before[i] \subseteq before[j] /\ j \notin before[i]
        \/ before[j] \subseteq before[i] /\ i \notin before[j]
    BY <1>9 DEF IsOrder
  <2>2. CASE before[i] \subseteq before[j] /\ j \notin before[i]
    BY <1>1, <1>2, <1>3, <1>4, <1>5, <1>6, <2>2
  <2>3. CASE before[j] \subseteq before[i] /\ i \notin before[j]
    BY <1>1, <1>3, <1>4, <1>5, <1>7, <2>3
  <2>4. QED
    BY <2>1, <2>2, <2>3
<1>10. QED
  BY <1>8, <1>9

\* No place is left free.
LEMMA PlacesAreTaken ==
    ASSUME NEW S, IsFiniteSet(S), NEW before, IsOrder(S, before),
           NEW k \in 1..Cardinality(S)
    PROVE  \E i \in S : Place(before, i) = k
<1> DEFINE n     == Cardinality(S)
           place == [i \in S |-> Place(before, i)]
<1>1. n \in Nat
  BY FS_CardinalityType
<1>2. place \in [S -> 1..n]
  BY PlacesAreOrdered
<1>3. \A i, j \in S : place[i] = place[j] => i = j
  BY PlacesAreOrdered
<1>4. IsFiniteSet(1..n) /\ Cardinality(1..n) = n
  <2> HIDE DEF n
  <2>1. QED
    BY <1>1, FS_Interval
<1>5. \A i \in S : place[i] = Place(before, i)
  OBVIOUS
<1> HIDE DEF place
<1>6. place \in Injection(S, 1..n)
  BY <1>2, <1>3 DEF Injection, IsInjective
<1>7. place \in Surjection(S, 1..n)
  BY <1>4, <1>6, FS_Injection
<1>8. \E i \in S : place[i] = k
  BY <1>7 DEF Surjection
<1>9. QED
  BY <1>5, <1>8

-----------------------------------------------------------------------------
(* The elements of a sequence at some positions.                           *)

UpTo(S, i) == {j \in S : j <= i}

LEMMA UpToOrders ==
    ASSUME NEW n \in Nat, NEW S \in SUBSET (1..n)
    PROVE  /\ IsFiniteSet(S) /\ Cardinality(S) \in Nat
           /\ IsOrder(S, [i \in S |-> UpTo(S, i)])
           /\ \A i \in S : Place([j \in S |-> UpTo(S, j)], i) = Cardinality(UpTo(S, i))
<1> DEFINE before == [i \in S |-> UpTo(S, i)]
<1>1. IsFiniteSet(S) /\ Cardinality(S) \in Nat
  <2>1. IsFiniteSet(1..n)
    BY FS_Interval
  <2>2. QED
    BY <2>1, FS_Subset, FS_CardinalityType
<1>2. \A i \in S : i \in Nat /\ before[i] = UpTo(S, i)
  OBVIOUS
<1> HIDE DEF before
<1>3. \A i \in S : i \in before[i] /\ before[i] \subseteq S
  BY <1>2 DEF UpTo
<1>4. ASSUME NEW i \in S, NEW j \in S, i < j
      PROVE  before[i] \subseteq before[j] /\ j \notin before[i]
  <2>1. before[i] = UpTo(S, i) /\ before[j] = UpTo(S, j)
    BY <1>2
  <2>2. \A h \in S : h <= i => h <= j
    BY <1>2, <1>4
  <2>3. ~(j <= i)
    BY <1>2, <1>4
  <2>4. QED
    BY <2>1, <2>2, <2>3 DEF UpTo
<1>5. \A i, j \in S : i # j => i < j \/ j < i
  BY <1>2
<1>6. IsOrder(S, before)
  BY <1>3, <1>4, <1>5 DEF IsOrder
<1>7. QED
  BY <1>1, <1>2, <1>6 DEF before, Place

LEMMA RanksAreTaken ==
    ASSUME NEW n \in Nat, NEW S \in SUBSET (1..n)
    PROVE  \A k \in 1..Cardinality(S) : \E i \in S : Cardinality(UpTo(S, i)) = k
<1> DEFINE T  == S
           up == [i \in S |-> UpTo(S, i)]
<1>1. IsFiniteSet(T) /\ IsOrder(T, up)
  BY UpToOrders
<1>2. \A i \in T : Place(up, i) = Cardinality(UpTo(S, i))
  BY UpToOrders
<1> HIDE DEF T, up
<1>3. \A k \in 1..Cardinality(T) : \E i \in T : Place(up, i) = k
  BY <1>1, PlacesAreTaken
<1>4. \A k \in 1..Cardinality(T) : \E i \in T : Cardinality(UpTo(S, i)) = k
  BY <1>2, <1>3
<1>5. QED
  BY <1>4 DEF T

LEMMA ElementsAtFacts ==
    ASSUME NEW n \in Nat, NEW S \in SUBSET (1..n), NEW s,
           NEW V, NEW t \in [1..Cardinality(S) -> V],
           \A i \in S : t[Cardinality(UpTo(S, i))] = s[i]
    PROVE  t = ElementsAt(s, S)
<1>1. ASSUME NEW k \in 1..Cardinality(S)
      PROVE  t[k] = s[CHOOSE i \in S : Cardinality(UpTo(S, i)) = k]
  <2>1. \E i \in S : Cardinality(UpTo(S, i)) = k
    BY RanksAreTaken
  <2> DEFINE i == CHOOSE i \in S : Cardinality(UpTo(S, i)) = k
  <2>2. i \in S /\ Cardinality(UpTo(S, i)) = k
    BY <2>1
  <2> HIDE DEF i
  <2>3. t[k] = s[i]
    BY <2>2
  <2>4. QED
    BY <2>3 DEF i
<1>2. ElementsAt(s, S) = [k \in 1..Cardinality(S) |->
                             s[CHOOSE i \in S : Cardinality(UpTo(S, i)) = k]]
  BY DEF ElementsAt, UpTo
<1>3. QED
  BY <1>1, <1>2

-----------------------------------------------------------------------------
(* Sorting a part of an array.                                             *)

Before(array, n, i) ==
    {j \in 1..n : array[j] < array[i] \/ (array[j] = array[i] /\ j <= i)}

LEMMA BeforeOrders ==
    ASSUME NEW array, NEW n \in Nat, \A i \in 1..n : array[i] \in Nat
    PROVE  /\ IsFiniteSet(1..n) /\ Cardinality(1..n) = n
           /\ IsOrder(1..n, [i \in 1..n |-> Before(array, n, i)])
           /\ \A i \in 1..n : Place([j \in 1..n |-> Before(array, n, j)], i)
                              = Cardinality(Before(array, n, i))
<1> DEFINE before == [i \in 1..n |-> Before(array, n, i)]
<1>1. IsFiniteSet(1..n) /\ Cardinality(1..n) = n
  BY FS_Interval
<1>2. \A i \in 1..n : i \in Nat /\ before[i] = Before(array, n, i)
  OBVIOUS
<1> HIDE DEF before
<1>3. \A i \in 1..n : i \in before[i] /\ before[i] \subseteq 1..n
  BY <1>2 DEF Before
<1>4. ASSUME NEW i \in 1..n, NEW j \in 1..n,
             array[i] < array[j] \/ (array[i] = array[j] /\ i < j)
      PROVE  before[i] \subseteq before[j] /\ j \notin before[i]
  <2>1. /\ i \in Nat /\ j \in Nat /\ array[i] \in Nat /\ array[j] \in Nat
        /\ before[i] = Before(array, n, i) /\ before[j] = Before(array, n, j)
    BY <1>2
  <2>2. ASSUME NEW h \in before[i] PROVE h \in before[j]
    <3>1. /\ h \in 1..n /\ h \in Nat /\ array[h] \in Nat
          /\ array[h] < array[i] \/ (array[h] = array[i] /\ h <= i)
      BY <2>1, <2>2 DEF Before
    <3>2. array[h] < array[j] \/ (array[h] = array[j] /\ h <= j)
      BY <1>4, <2>1, <3>1
    <3>3. QED
      BY <2>1, <3>1, <3>2 DEF Before
  <2>3. j \notin before[i]
    BY <1>4, <2>1 DEF Before
  <2>4. QED
    BY <2>2, <2>3
<1>5. ASSUME NEW i \in 1..n, NEW j \in 1..n, i # j
      PROVE  \/ array[i] < array[j] \/ (array[i] = array[j] /\ i < j)
             \/ array[j] < array[i] \/ (array[j] = array[i] /\ j < i)
  BY <1>2, <1>5
<1>6. IsOrder(1..n, before)
  BY <1>3, <1>4, <1>5 DEF IsOrder
<1>7. QED
  BY <1>1, <1>2, <1>6 DEF before, Place

\* from and to tell where the elements come from and go to.
IsSortOf(t, array, n) ==
    /\ \A i, k \in 1..n : i <= k => t[i] <= t[k]
    /\ \E to \in [1..n -> 1..n] :
          /\ \A i, j \in 1..n : to[i] = to[j] => i = j
          /\ \A k \in 1..n : \E i \in 1..n : to[i] = k
          /\ \A i \in 1..n : t[to[i]] = array[i]

LEMMA SortedToSorts ==
    ASSUME NEW array, NEW m \in Nat, DOMAIN array = 1..m, NEW n \in 0..m,
           \A i \in 1..m : array[i] \in Nat
    PROVE  /\ DOMAIN SortedTo(array, n) = 1..m
           /\ SortedTo(array, n) = [k \in 1..m |-> SortedTo(array, n)[k]]
           /\ \A k \in 1..m : k > n => SortedTo(array, n)[k] = array[k]
           /\ IsSortOf(SortedTo(array, n), array, n)
<1> DEFINE t == SortedTo(array, n)
           before == [i \in 1..n |-> Before(array, n, i)]
           to == [i \in 1..n |-> Cardinality(Before(array, n, i))]
           from(k) == CHOOSE i \in 1..n : Cardinality(Before(array, n, i)) = k
<1>1. n \in Nat /\ \A k \in 1..n : k \in 1..m /\ k \in Nat /\ array[k] \in Nat
  OBVIOUS
<1>2. /\ IsFiniteSet(1..n) /\ Cardinality(1..n) = n /\ IsOrder(1..n, before)
      /\ \A i \in 1..n : Place(before, i) = Cardinality(Before(array, n, i))
  BY <1>1, BeforeOrders
<1>3. t = [k \in 1..m |-> IF k <= n THEN array[from(k)] ELSE array[k]]
  BY DEF SortedTo, Before
<1>4. \A i \in 1..n : to[i] = Place(before, i)
  BY <1>2
<1>5. /\ DOMAIN t = 1..m /\ t = [k \in 1..m |-> t[k]]
      /\ \A k \in 1..m : k > n => t[k] = array[k]
      /\ \A k \in 1..n : t[k] = array[from(k)]
  <2> HIDE DEF t, from
  <2>1. \A k \in 1..m : k \in Nat /\ (k > n => ~(k <= n))
    BY <1>1
  <2>2. \A k \in 1..n : k <= n
    BY <1>1
  <2>3. QED
    BY <1>1, <1>3, <2>1, <2>2
<1> HIDE DEF before, t
<1>6. \A i \in 1..n : to[i] \in 1..n
  BY <1>2, <1>4, PlacesAreOrdered
<1>7. \A i, j \in 1..n : to[i] = to[j] => i = j
  BY SMTT(30), <1>2, <1>4, PlacesAreOrdered
<1>8. \A k \in 1..n : \E i \in 1..n : to[i] = k
  BY <1>2, <1>4, PlacesAreTaken
<1>9. \A i \in 1..n : to[i] = Cardinality(Before(array, n, i))
  OBVIOUS
<1>10. to \in [1..n -> 1..n]
  BY <1>6
<1> HIDE DEF to
<1>11. ASSUME NEW k \in 1..n PROVE from(k) \in 1..n /\ to[from(k)] = k
  <2>1. \E i \in 1..n : Cardinality(Before(array, n, i)) = k
    BY <1>8, <1>9
  <2>2. from(k) \in 1..n /\ Cardinality(Before(array, n, from(k))) = k
    BY <2>1
  <2>3. QED
    BY <1>9, <2>2
<1> HIDE DEF from
<1>12. \A i \in 1..n : t[to[i]] = array[i]
  BY ZenonT(40), <1>5, <1>6, <1>7, <1>11
<1>13. ASSUME NEW i \in 1..n, NEW k \in 1..n, i <= k PROVE t[i] <= t[k]
  <2> DEFINE a == from(i)
             b == from(k)
  <2>1. a \in 1..n /\ b \in 1..n /\ to[a] = i /\ to[b] = k
    BY <1>11
  <2>2. t[i] = array[a] /\ t[k] = array[b]
    BY <1>5
  <2> HIDE DEF a, b
  <2>3. a \in before[b]
    <3>1. Place(before, a) = i /\ Place(before, b) = k
      BY <1>4, <2>1
    <3>2. Place(before, a) <= Place(before, b) => a \in before[b]
      BY <1>2, <2>1, PlacesAreOrdered
    <3>3. QED
      BY <1>13, <3>1, <3>2
  <2>4. before[b] = Before(array, n, b)
    BY <2>1 DEF before
  <2>5. array[a] < array[b] \/ array[a] = array[b]
    BY <2>3, <2>4 DEF Before
  <2>6. QED
    BY <1>1, <2>1, <2>2, <2>5
<1>14. IsSortOf(t, array, n)
  BY <1>7, <1>8, <1>10, <1>12, <1>13 DEF IsSortOf
<1>15. QED
  BY <1>5, <1>14 DEF t

\* A set of numbers that is not empty has a least one.
LEMMA LeastExists ==
    ASSUME NEW T, T \subseteq Nat, T # {}
    PROVE  \E x \in T : \A y \in T : x <= y
<1> DEFINE Less == {p \in Nat \X Nat : p[1] < p[2]}
<1>1. IsWellFoundedOn(Less, Nat)
  BY NatLessThanWellFounded DEF OpToRel
<1>2. PICK x \in T : \A y \in T : <<y, x>> \notin Less
  <2> HIDE DEF Less
  <2> QED BY <1>1, WFMin
<1>3. \A y \in T : x <= y
  <2> TAKE y \in T
  <2>1. ~(y < x) /\ x \in Nat /\ y \in Nat
    BY <1>2
  <2> QED BY <2>1
<1> QED BY <1>3

LEMMA Induction ==
    ASSUME NEW T, 0 \in T, \A n \in Nat : n \in T => n + 1 \in T
    PROVE  \A n \in Nat : n \in T
<1> SUFFICES ASSUME Nat \ T # {} PROVE FALSE
  OBVIOUS
<1>1. PICK m \in Nat \ T : \A y \in Nat \ T : m <= y
  BY LeastExists
<1>2. m # 0 /\ m - 1 \in Nat
  OBVIOUS
<1>3. m - 1 \in T
  BY <1>1, <1>2
<1>4. (m - 1) + 1 = m
  BY <1>2
<1> QED BY <1>2, <1>3, <1>4

\* The search in what is sorted finds what is there.
\* The search in a sorted slice finds what is there.
LEMMA SearchFinds ==
    ASSUME NEW t, NEW n \in Nat, \A i \in 1..n : t[i] \in Nat, NEW x \in Nat,
           \A i, k \in 1..n : i <= k => t[i] <= t[k]
    PROVE  Finds(t, n, x) <=> \E i \in 1..n : t[i] = x
<1> DEFINE notLess == {i \in 1..n : t[i] >= x}
           least   == CHOOSE i \in notLess : \A j \in notLess : i <= j
<1>1. Finds(t, n, x) <=> notLess # {} /\ t[least] = x
  BY DEF Finds
<1>2. notLess \subseteq Nat
  OBVIOUS
<1>3. ASSUME notLess # {} PROVE least \in notLess /\ \A j \in notLess : least <= j
  <2>1. \E i \in notLess : \A j \in notLess : i <= j
    <3> HIDE DEF notLess
    <3> QED BY <1>2, <1>3, LeastExists
  <2> HIDE DEF notLess
  <2> QED BY <2>1
<1> HIDE DEF least
<1>4. ASSUME notLess # {}, t[least] = x PROVE \E i \in 1..n : t[i] = x
  <2>1. least \in 1..n
    BY <1>3, <1>4
  <2> QED BY <1>4, <2>1
<1>5. ASSUME NEW j \in 1..n, t[j] = x PROVE notLess # {} /\ t[least] = x
  <2>1. j \in notLess
    BY <1>5
  <2>2. least \in 1..n /\ t[least] >= x /\ least <= j
    BY <1>3, <2>1
  <2>3. t[least] <= t[j]
    BY <2>2
  <2>4. t[least] \in Nat
    BY <2>2
  <2> QED BY <1>5, <2>1, <2>2, <2>3, <2>4
<1> QED BY <1>1, <1>4, <1>5

\* The slice that begins an array.
LEMMA PrefixFacts ==
    ASSUME NEW V, NEW s \in Seq(V), NEW n \in 0..Len(s)
    PROVE  /\ SubSeq(s, 1, n) \in Seq(V) /\ Len(SubSeq(s, 1, n)) = n
           /\ DOMAIN SubSeq(s, 1, n) = 1..n
           /\ SubSeq(s, 1, n) = [i \in 1..n |-> s[i]]
           /\ \A i \in 1..n : SubSeq(s, 1, n)[i] = s[i] /\ s[i] \in V
OBVIOUS

\* The places of e among the first n.
Holding(s, n, e) == {i \in 1..n : s[i] = e}

LEMMA CountFacts ==
    ASSUME NEW V, NEW s \in Seq(V), NEW n \in 0..Len(s), NEW e
    PROVE  /\ Count(SubSeq(s, 1, n), e) = Cardinality(Holding(s, n, e))
           /\ IsFiniteSet(Holding(s, n, e))
           /\ Count(SubSeq(s, 1, n), e) > 0 <=> \E i \in 1..n : s[i] = e
<1> DEFINE places == {i \in 1..n : s[i] = e}
           c == SubSeq(s, 1, n)
<1>1. DOMAIN c = 1..n /\ \A i \in 1..n : c[i] = s[i]
  BY PrefixFacts
<1> HIDE DEF c
<1>2. {i \in DOMAIN c : c[i] = e} = places
  BY <1>1
<1>3. IsFiniteSet(places)
  <2>1. IsFiniteSet(1..n)
    BY FS_Interval
  <2>2. places \in SUBSET (1..n)
    OBVIOUS
  <2> QED BY <2>1, <2>2, FS_Subset
<1>4. Cardinality(places) \in Nat /\ (Cardinality(places) = 0 <=> places = {})
  <2> HIDE DEF places
  <2> QED BY <1>3, FS_CardinalityType, FS_EmptySet
<1>5. Cardinality(places) > 0 <=> places # {}
  BY <1>4
<1>6. Count(c, e) = Cardinality(places)
  BY <1>2 DEF Count
<1> QED BY <1>3, <1>5, <1>6 DEF c, Holding

LEMMA SortKeepsPlaces ==
    ASSUME NEW array, NEW t, NEW n \in Nat, IsSortOf(t, array, n), NEW e,
           IsFiniteSet(Holding(array, n, e))
    PROVE  Cardinality(Holding(t, n, e)) = Cardinality(Holding(array, n, e))
<1> DEFINE P == {i \in 1..n : array[i] = e}
           Q == {i \in 1..n : t[i] = e}
<1>1. PICK to \in [1..n -> 1..n] :
          /\ \A i, j \in 1..n : to[i] = to[j] => i = j
          /\ \A k \in 1..n : \E i \in 1..n : to[i] = k
          /\ \A i \in 1..n : t[to[i]] = array[i]
  BY DEF IsSortOf
<1> DEFINE f == [i \in P |-> to[i]]
<1>2. f \in [P -> Q]
  BY <1>1
<1>3. \A i, j \in P : f[i] = f[j] => i = j
  BY <1>1
<1>4. \A k \in Q : \E i \in P : f[i] = k
  <2> TAKE k \in Q
  <2>1. PICK i \in 1..n : to[i] = k
    BY <1>1
  <2>2. i \in P
    BY <1>1, <2>1
  <2> QED BY <2>1, <2>2
<1>5. IsFiniteSet(P) /\ P = Holding(array, n, e) /\ Q = Holding(t, n, e)
  BY DEF Holding
<1> HIDE DEF P, Q, f
<1>6. f \in Bijection(P, Q)
  BY <1>2, <1>3, <1>4 DEF Bijection, Injection, Surjection, IsInjective
<1>7. Cardinality(Q) = Cardinality(P)
  BY <1>5, <1>6, FS_Bijection DEF ExistsBijection
<1> QED BY <1>5, <1>7

LEMMA SortKeepsCount ==
    ASSUME NEW V, NEW array \in Seq(V), NEW t \in Seq(V), Len(t) = Len(array),
           NEW n \in 0..Len(array), IsSortOf(t, array, n), NEW e
    PROVE  Count(SubSeq(t, 1, n), e) = Count(SubSeq(array, 1, n), e)
<1>1. /\ Count(SubSeq(array, 1, n), e) = Cardinality(Holding(array, n, e))
      /\ IsFiniteSet(Holding(array, n, e))
  BY CountFacts
<1>2. n \in 0..Len(t) /\ n \in Nat
  OBVIOUS
<1>3. Count(SubSeq(t, 1, n), e) = Cardinality(Holding(t, n, e))
  BY <1>2, CountFacts
<1>4. Cardinality(Holding(t, n, e)) = Cardinality(Holding(array, n, e))
  BY <1>1, <1>2, SortKeepsPlaces
<1> QED BY <1>1, <1>3, <1>4

-----------------------------------------------------------------------------
(* Loops: a fold over the first n numbers does n steps.                    *)

LEMMA MaxOfNext ==
    ASSUME NEW k \in Nat, NEW T, T \subseteq 1..(k + 1), k + 1 \in T
    PROVE  Max(T) = k + 1 /\ T \ {k + 1} \subseteq 1..k
<1>1. \A x \in T : x \in Nat /\ x <= k + 1
  OBVIOUS
<1>2. \A x \in T : (\A y \in T : x >= y) <=> x = k + 1
  BY <1>1
<1>3. Max(T) = k + 1
  BY <1>2 DEF Max
<1>4. \A x \in T \ {k + 1} : x \in 1..k
  OBVIOUS
<1> QED BY <1>3, <1>4

LEMMA FirstOnes ==
    ASSUME NEW n \in Nat, NEW k \in Nat, k + 1 <= n
    PROVE  /\ 1..(k + 1) \in SUBSET (1..n) /\ 1..(k + 1) # {}
           /\ Max(1..(k + 1)) = k + 1 /\ (1..(k + 1)) \ {k + 1} = 1..k
<1>1. k + 1 \in 1..(k + 1) /\ 1..(k + 1) \subseteq 1..(k + 1)
  OBVIOUS
<1>2. Max(1..(k + 1)) = k + 1
  BY <1>1, MaxOfNext
<1>3. \A i : i \in 1..(k + 1) /\ i # k + 1 <=> i \in 1..k
  OBVIOUS
<1>4. \A i \in 1..(k + 1) : i \in 1..n
  OBVIOUS
<1> QED BY <1>1, <1>2, <1>3, <1>4

\* The recursive function in a fold.
IsFold(g, base, step, S, k) ==
    /\ g \in [SUBSET (1..k) -> S] /\ g[{}] = base
    /\ \A T \in SUBSET (1..k) : T # {} =>
          /\ Max(T) \in 1..k
          /\ g[T] = step[<<g[T \ {Max(T)}], Max(T)>>]

\* There is one for the first k steps and, by induction, for all.
LEMMA FoldExists ==
    ASSUME NEW n \in Nat, NEW S, NEW base \in S, NEW step \in [S \X (1..n) -> S]
    PROVE  \E g : IsFold(g, base, step, S, n)
<1> DEFINE K == {k \in Nat : k <= n => \E g : IsFold(g, base, step, S, k)}
<1>1. 0 \in K
  <2> DEFINE g == [T \in SUBSET (1..0) |-> base]
  <2>1. \A T \in SUBSET (1..0) : T = {}
    OBVIOUS
  <2>2. g \in [SUBSET (1..0) -> S] /\ g[{}] = base
    OBVIOUS
  <2>3. IsFold(g, base, step, S, 0)
    BY <2>1, <2>2 DEF IsFold
  <2> QED BY <2>3
<1>2. ASSUME NEW k \in Nat, k \in K PROVE k + 1 \in K
  <2> SUFFICES ASSUME k + 1 <= n PROVE \E g : IsFold(g, base, step, S, k + 1)
    OBVIOUS
  <2>1. PICK f : IsFold(f, base, step, S, k)
    BY <1>2
  <2> HIDE DEF K
  <2> DEFINE g == [T \in SUBSET (1..(k + 1)) |->
                     IF k + 1 \in T THEN step[<<f[T \ {k + 1}], k + 1>>] ELSE f[T]]
  <2>2. \A T \in SUBSET (1..k) : T \in SUBSET (1..(k + 1)) /\ k + 1 \notin T
    OBVIOUS
  <2>3. \A T \in SUBSET (1..k) : g[T] = f[T] /\ f[T] \in S
    BY <2>1, <2>2 DEF IsFold
  <2>4. ASSUME NEW T \in SUBSET (1..(k + 1)), k + 1 \in T
        PROVE  /\ T \ {k + 1} \in SUBSET (1..k) /\ Max(T) = k + 1
               /\ g[T] = step[<<f[T \ {k + 1}], k + 1>>] /\ g[T] \in S
    <3>1. T \ {k + 1} \in SUBSET (1..k) /\ Max(T) = k + 1
      BY <2>4, MaxOfNext
    <3>2. g[T] = step[<<f[T \ {k + 1}], k + 1>>]
      BY <2>4
    <3>3. k + 1 \in 1..n
      OBVIOUS
    <3> HIDE DEF g
    <3>4. f[T \ {k + 1}] \in S
      BY <2>3, <3>1
    <3> QED BY <3>1, <3>2, <3>3, <3>4
  <2>5. ASSUME NEW T \in SUBSET (1..(k + 1)), k + 1 \notin T
        PROVE  T \in SUBSET (1..k) /\ \A x : T \ {x} \in SUBSET (1..k)
    <3>1. \A x \in T : x \in 1..k
      BY <2>5
    <3> QED BY <3>1
  <2>6. g = [T \in SUBSET (1..(k + 1)) |-> g[T]]
    OBVIOUS
  <2> HIDE DEF g
  <2>7. g \in [SUBSET (1..(k + 1)) -> S] /\ g[{}] = base
    <3>1. ASSUME NEW T \in SUBSET (1..(k + 1)) PROVE g[T] \in S
      BY <2>3, <2>4, <2>5
    <3>2. {} \in SUBSET (1..k)
      OBVIOUS
    <3> QED BY <2>1, <2>3, <2>6, <3>1, <3>2 DEF IsFold
  <2>8. ASSUME NEW T \in SUBSET (1..(k + 1)), T # {}
        PROVE  /\ Max(T) \in 1..(k + 1)
               /\ g[T] = step[<<g[T \ {Max(T)}], Max(T)>>]
    <3>1. CASE k + 1 \in T
      BY <2>3, <2>4, <3>1
    <3>2. CASE k + 1 \notin T
      <4>1. T \in SUBSET (1..k) /\ T \ {Max(T)} \in SUBSET (1..k)
        BY <2>5, <3>2
      <4>2. Max(T) \in 1..k /\ f[T] = step[<<f[T \ {Max(T)}], Max(T)>>]
        BY <2>1, <2>8, <4>1 DEF IsFold
      <4> QED BY <2>3, <4>1, <4>2
    <3> QED BY <3>1, <3>2
  <2>9. IsFold(g, base, step, S, k + 1)
    BY <2>7, <2>8 DEF IsFold
  <2> QED BY <2>9
<1> HIDE DEF K
<1>3. \A k \in Nat : k \in K
  BY <1>1, <1>2, Induction
<1> QED BY <1>3 DEF K

\* How many positions of S there are up to one.
LEMMA UpToCounts ==
    ASSUME NEW n \in Nat, NEW S \in SUBSET (1..n), NEW k \in Nat
    PROVE  /\ Cardinality(UpTo(S, k)) \in 0..k
           /\ Cardinality(UpTo(S, 0)) = 0
           /\ UpTo(S, n) = S
           /\ Cardinality(UpTo(S, k + 1)) = Cardinality(UpTo(S, k))
                                            + (IF k + 1 \in S THEN 1 ELSE 0)
           /\ \A i \in Nat : i <= k => Cardinality(UpTo(S, i)) <= Cardinality(UpTo(S, k))
           /\ \A i \in S : i \in Nat /\ Cardinality(UpTo(S, i)) >= 1
<1>1. \A i \in S : i \in Nat /\ i >= 1 /\ i <= n
  OBVIOUS
<1>2. IsFiniteSet(S) /\ \A i : UpTo(S, i) \in SUBSET S
  BY UpToOrders DEF UpTo
<1>3. \A i : IsFiniteSet(UpTo(S, i)) /\ Cardinality(UpTo(S, i)) \in Nat
  BY <1>2, FS_Subset, FS_CardinalityType
<1>4. Cardinality(UpTo(S, k)) <= k
  <2>1. IsFiniteSet(1..k) /\ Cardinality(1..k) = k
    BY FS_Interval
  <2>2. \A i \in S : i <= k => i \in 1..k
    BY <1>1
  <2>3. UpTo(S, k) \in SUBSET (1..k)
    BY <2>2 DEF UpTo
  <2> QED BY <2>1, <2>3, FS_Subset
<1>5. Cardinality(UpTo(S, 0)) = 0
  <2>1. \A i \in S : ~(i <= 0)
    BY <1>1
  <2>2. UpTo(S, 0) = {}
    BY <2>1 DEF UpTo
  <2> QED BY <2>2, FS_EmptySet
<1>6. UpTo(S, n) = S
  BY <1>1 DEF UpTo
<1>7. ASSUME k + 1 \in S
      PROVE  Cardinality(UpTo(S, k + 1)) = Cardinality(UpTo(S, k)) + 1
  <2>1. \A i \in S : i <= k + 1 <=> i <= k \/ i = k + 1
    BY <1>1
  <2>2. UpTo(S, k + 1) = UpTo(S, k) \cup {k + 1}
    BY <1>7, <2>1 DEF UpTo
  <2>3. k + 1 \notin UpTo(S, k)
    BY DEF UpTo
  <2> QED BY <1>3, <2>2, <2>3, FS_AddElement
<1>8. ASSUME k + 1 \notin S PROVE Cardinality(UpTo(S, k + 1)) = Cardinality(UpTo(S, k))
  <2>1. \A i \in S : i <= k + 1 <=> i <= k
    BY <1>1, <1>8
  <2>2. UpTo(S, k + 1) = UpTo(S, k)
    BY <2>1 DEF UpTo
  <2> QED BY <2>2
<1>9. ASSUME NEW i \in Nat, i <= k PROVE Cardinality(UpTo(S, i)) <= Cardinality(UpTo(S, k))
  <2>1. \A j \in S : j <= i => j <= k
    BY <1>1, <1>9
  <2>2. UpTo(S, i) \in SUBSET UpTo(S, k)
    BY <2>1 DEF UpTo
  <2> QED BY <1>3, <2>2, FS_Subset
<1>10. ASSUME NEW i \in S PROVE Cardinality(UpTo(S, i)) >= 1
  <2>1. i \in UpTo(S, i)
    BY <1>1 DEF UpTo
  <2>2. Cardinality(UpTo(S, i)) # 0
    BY <1>3, <2>1, FS_EmptySet
  <2> QED BY <1>3, <2>2
<1>11. Cardinality(UpTo(S, k)) \in 0..k
  BY <1>3, <1>4
<1>12. Cardinality(UpTo(S, k + 1)) = Cardinality(UpTo(S, k))
                                     + (IF k + 1 \in S THEN 1 ELSE 0)
  BY <1>3, <1>7, <1>8
<1> QED BY <1>1, <1>5, <1>6, <1>9, <1>10, <1>11, <1>12

-----------------------------------------------------------------------------
(* Deleting moves what is left to the front, in order.                     *)

CompactStep(s, i, x) ==
    IF s.array[i] = x THEN s
    ELSE [array |-> [s.array EXCEPT ![s.slow + 1] = s.array[i]], slow |-> s.slow + 1]

IsCompactRun(run, array, n, x) ==
    /\ run[0] = [array |-> array, slow |-> 0]
    /\ \A k \in Nat : k + 1 <= n => run[k + 1] = CompactStep(run[k], k + 1, x)
    /\ Compact(array, n, x) = run[n]

LEMMA CompactRuns ==
    ASSUME NEW V, NEW m \in Nat, NEW array \in [1..m -> V], NEW n \in 0..m, NEW x
    PROVE  \E run : IsCompactRun(run, array, n, x)
<1> DEFINE S == [array : [1..m -> V], slow : Nat]
           base == [array |-> array, slow |-> 0]
           step == [p \in S \X (1..n) |-> CompactStep(p[1], p[2], x)]
           all == [i \in 1..n |-> i]
           At(g, T) == IF T = {} THEN base
                       ELSE CompactStep(g[T \ {Max(T)}], all[Max(T)], x)
           Def(g) == g = [T \in SUBSET (1..n) |-> At(g, T)]
<1>1. base \in S /\ n \in Nat
  OBVIOUS
<1>2. ASSUME NEW s \in S, NEW i \in 1..n PROVE CompactStep(s, i, x) \in S
  <2>1. i \in 1..m /\ s.array \in [1..m -> V] /\ s.slow \in Nat
    OBVIOUS
  <2>2. s.array[i] \in V /\ s.slow + 1 \in Nat
    BY <2>1
  <2> DEFINE a == [s.array EXCEPT ![s.slow + 1] = s.array[i]]
  <2>3. a \in [1..m -> V]
    BY <2>1, <2>2
  <2> HIDE DEF a
  <2>4. [array |-> a, slow |-> s.slow + 1] \in S
    BY <2>2, <2>3
  <2> QED BY <2>4 DEF CompactStep, a
<1> HIDE DEF S, base
<1>3. step \in [S \X (1..n) -> S]
  BY <1>2
<1>4. \A s \in S, i \in 1..n : step[<<s, i>>] = CompactStep(s, i, x)
  OBVIOUS
<1> HIDE DEF step
<1>5. PICK f : IsFold(f, base, step, S, n)
  BY <1>1, <1>3, FoldExists
<1>6. Def(f)
  <2>1. \A T \in SUBSET (1..n) : T \ {Max(T)} \in SUBSET (1..n)
    OBVIOUS
  <2>2. ASSUME NEW T \in SUBSET (1..n) PROVE f[T] = At(f, T)
    <3>1. f[T \ {Max(T)}] \in S
      BY <1>5, <2>1 DEF IsFold
    <3>2. T # {} => Max(T) \in 1..n /\ all[Max(T)] = Max(T)
      BY <1>5 DEF IsFold
    <3> QED BY <1>4, <1>5, <3>1, <3>2 DEF IsFold
  <2>3. f = [T \in SUBSET (1..n) |-> f[T]]
    BY <1>5 DEF IsFold
  <2> HIDE DEF At
  <2> QED BY <2>2, <2>3
<1> DEFINE g == CHOOSE g : Def(g)
<1>7. Def(g)
  <2> HIDE DEF Def
  <2> QED BY <1>6
<1>8. Compact(array, n, x) = g[1..n]
  BY DEF Compact, FoldLeft, MapThenFoldSet, CompactStep, base
<1> HIDE DEF g
<1> DEFINE run == [k \in 0..n |-> g[1..k]]
<1>9. \A T \in SUBSET (1..n) : g[T] = At(g, T)
  BY <1>7
<1>10. run[0] = base
  <2>1. 1..0 = {} /\ {} \in SUBSET (1..n) /\ 0 \in 0..n
    OBVIOUS
  <2> QED BY <1>9, <2>1
<1>11. ASSUME NEW k \in Nat, k + 1 <= n
       PROVE  run[k + 1] = CompactStep(run[k], k + 1, x)
  <2>1. /\ 1..(k + 1) \in SUBSET (1..n) /\ 1..(k + 1) # {}
        /\ Max(1..(k + 1)) = k + 1 /\ (1..(k + 1)) \ {k + 1} = 1..k
    BY <1>1, <1>11, FirstOnes
  <2>2. k \in 0..n /\ k + 1 \in 0..n
    BY <1>1, <1>11
  <2>3. all[k + 1] = k + 1
    BY <1>11
  <2>4. g[1..(k + 1)] = CompactStep(g[1..k], k + 1, x)
    BY <1>9, <2>1, <2>3
  <2> QED BY <2>2, <2>4
<1>12. run[n] = g[1..n]
  BY <1>1
<1> HIDE DEF run
<1>13. IsCompactRun(run, array, n, x)
  BY <1>8, <1>10, <1>11, <1>12 DEF base, IsCompactRun
<1> QED BY <1>13

\* After k steps what is left of the first k elements is in front, and the
\* others are where they were.
IsCompacted(s, array, m, V, kept, k) ==
    /\ s = [array |-> s.array, slow |-> s.slow] /\ s.array \in [1..m -> V]
    /\ s.slow = Cardinality(UpTo(kept, k))
    /\ \A j \in 1..m : j > k => s.array[j] = array[j]
    /\ \A i \in kept : i <= k => s.array[Cardinality(UpTo(kept, i))] = array[i]

LEMMA CompactCompacts ==
    ASSUME NEW V, NEW m \in Nat, NEW array \in [1..m -> V], NEW n \in 0..m, NEW x,
           NEW kept \in SUBSET (1..n), \A i \in 1..n : i \in kept <=> array[i] # x
    PROVE  IsCompacted(Compact(array, n, x), array, m, V, kept, n)
<1>0. PICK run : IsCompactRun(run, array, n, x)
  BY CompactRuns
<1>1. /\ run[0] = [array |-> array, slow |-> 0]
      /\ \A k \in Nat : k + 1 <= n => run[k + 1] = CompactStep(run[k], k + 1, x)
      /\ Compact(array, n, x) = run[n]
  BY <1>0 DEF IsCompactRun
<1>2. n \in Nat /\ kept \in SUBSET (1..n) /\ \A i \in kept : i \in Nat /\ i >= 1
  OBVIOUS
<1> DEFINE K == {k \in Nat : k <= n => IsCompacted(run[k], array, m, V, kept, k)}
<1>3. 0 \in K
  <2>1. Cardinality(UpTo(kept, 0)) = 0
    BY <1>2, UpToCounts
  <2>2. \A i \in kept : ~(i <= 0)
    BY <1>2
  <2>3. IsCompacted(run[0], array, m, V, kept, 0)
    BY <1>1, <2>1, <2>2 DEF IsCompacted
  <2> QED BY <2>3
<1>4. ASSUME NEW k \in Nat, k \in K PROVE k + 1 \in K
  <2> SUFFICES ASSUME k + 1 <= n PROVE IsCompacted(run[k + 1], array, m, V, kept, k + 1)
    OBVIOUS
  <2>1. IsCompacted(run[k], array, m, V, kept, k)
    BY <1>2, <1>4
  <2> HIDE DEF K
  <2> DEFINE s == run[k]
             c == Cardinality(UpTo(kept, k))
  <2>2. /\ c \in 0..k
        /\ Cardinality(UpTo(kept, k + 1)) = c + (IF k + 1 \in kept THEN 1 ELSE 0)
        /\ \A i \in kept : i <= k => Cardinality(UpTo(kept, i)) <= c
    BY SMTT(30), <1>2, UpToCounts
  <2>3. /\ s = [array |-> s.array, slow |-> c] /\ s.slow = c /\ s.array \in [1..m -> V]
        /\ \A j \in 1..m : j > k => s.array[j] = array[j]
        /\ \A i \in kept : i <= k => s.array[Cardinality(UpTo(kept, i))] = array[i]
    BY <2>1 DEF IsCompacted
  <2>4. run[k + 1] = CompactStep(s, k + 1, x)
    BY <1>1
  <2>5. k + 1 \in 1..n /\ k + 1 \in 1..m /\ k + 1 > k
    OBVIOUS
  <2>6. k + 1 \in kept <=> s.array[k + 1] # x
    BY <2>3, <2>5
  <2>7. \A i \in kept : i <= k + 1 <=> i <= k \/ i = k + 1
    BY <1>2
  <2>8. \A j \in 1..m : j > k + 1 => j > k
    OBVIOUS
  <2> HIDE DEF s, c
  <2>9. CASE k + 1 \notin kept
    <3>1. run[k + 1] = s
      BY <2>4, <2>6, <2>9 DEF CompactStep
    <3>2. c + 0 = c
      BY <2>2
    <3>3. Cardinality(UpTo(kept, k + 1)) = c
      BY <2>2, <2>9, <3>2
    <3> QED BY <2>3, <2>7, <2>8, <2>9, <3>1, <3>3 DEF IsCompacted
  <2>10. CASE k + 1 \in kept
    <3> DEFINE v == s.array[k + 1]
               a == [s.array EXCEPT ![c + 1] = v]
               new == [array |-> a, slow |-> c + 1]
    <3>1. run[k + 1] = new
      BY <2>3, <2>4, <2>6, <2>10 DEF CompactStep
    <3>2. v \in V /\ v = array[k + 1] /\ c + 1 \in 1..m /\ c + 1 <= k + 1
      BY <2>2, <2>3, <2>5
    <3> HIDE DEF v
    <3>3. a \in [1..m -> V] /\ a[c + 1] = v /\ \A j \in 1..m : j # c + 1 => a[j] = s.array[j]
      BY <2>3, <3>2
    <3> HIDE DEF a
    <3>4. new = [array |-> new.array, slow |-> new.slow] /\ new.array = a /\ new.slow = c + 1
      OBVIOUS
    <3> HIDE DEF new
    <3>5. \A j \in 1..m : j > k + 1 => a[j] = array[j]
      <4>1. \A j \in 1..m : j > k + 1 => j # c + 1
        BY <2>2, <3>2
      <4> QED BY <2>3, <2>8, <3>3, <4>1
    <3>6. ASSUME NEW i \in kept, i <= k + 1
          PROVE  a[Cardinality(UpTo(kept, i))] = array[i]
      <4>1. CASE i = k + 1
        BY <2>2, <2>10, <3>2, <3>3, <4>1
      <4>2. CASE i <= k
        <5> DEFINE p == Cardinality(UpTo(kept, i))
        <5>1. p \in Nat /\ p <= c /\ p >= 1
          <6>1. i \in Nat
            BY <1>2
          <6>2. p \in 0..i /\ p >= 1
            BY <1>2, <6>1, UpToCounts
          <6> QED BY <2>2, <4>2, <6>1, <6>2
        <5>2. s.array[p] = array[i]
          BY <2>3, <4>2
        <5> HIDE DEF p
        <5>3. p \in 1..m /\ p # c + 1
          BY <2>2, <3>2, <5>1
        <5>4. a[p] = array[i]
          BY <3>3, <5>2, <5>3
        <5> QED BY <5>4 DEF p
      <4> QED BY <2>7, <3>6, <4>1, <4>2
    <3>7. Cardinality(UpTo(kept, k + 1)) = c + 1
      BY <2>2, <2>10
    <3> QED BY <3>1, <3>3, <3>4, <3>5, <3>6, <3>7 DEF IsCompacted
  <2> QED BY <2>9, <2>10
<1> HIDE DEF K
<1>5. \A k \in Nat : k \in K
  BY <1>3, <1>4, Induction
<1>6. n \in K /\ n <= n
  BY <1>2, <1>5
<1>7. IsCompacted(run[n], array, m, V, kept, n)
  BY <1>6 DEF K
<1> QED BY <1>1, <1>7

-----------------------------------------------------------------------------
(* The loop of UniqueAndMerge.  M is the merged slice, in the array X if   *)
(* it was appended in place; the result begins in the array R, with L      *)
(* elements.                                                               *)

HasRoom(s, R) == s.grown = <<>> /\ s.len < Len(s.heap[R])

NextArray(s, R, item) == [s.heap[R] EXCEPT ![s.len + 1] = item]

NextHeap(s, R, item) ==
    IF HasRoom(s, R) THEN [s.heap EXCEPT ![R] = NextArray(s, R, item)] ELSE s.heap

NextGrown(s, R, item) ==
    IF s.grown # <<>> THEN Append(s.grown, item)
    ELSE IF HasRoom(s, R) THEN <<>> ELSE Append(SubSeq(s.heap[R], 1, s.len), item)

NextState(s, R, item) ==
    [heap |-> NextHeap(s, R, item), len |-> s.len + 1,
     grown |-> NextGrown(s, R, item), seen |-> s.seen \cup {KeyFunc[item]}]

ItemRead(s, i, inPlace, X, M) == IF inPlace THEN s.heap[X][i] ELSE M[i]

LoopStep(s, i, inPlace, X, R, M) ==
    IF KeyFunc[ItemRead(s, i, inPlace, X, M)] \in s.seen THEN s
    ELSE NextState(s, R, ItemRead(s, i, inPlace, X, M))

Heaps == [Arrays -> Seq(Names)]

IsLoopState(s, h, R) ==
    /\ s = [heap |-> s.heap, len |-> s.len, grown |-> s.grown, seen |-> s.seen]
    /\ s.heap \in Heaps /\ s.len \in Nat /\ s.grown \in Seq(Names) /\ s.seen \subseteq Names
    /\ \A a \in Arrays : Len(s.heap[a]) = Len(h[a])
    /\ IF s.grown = <<>> THEN s.len <= Len(h[R]) ELSE s.len = Len(s.grown)

LEMMA KeyIsName ==
    ASSUME NEW x \in Names
    PROVE  KeyFunc[x] \in Names
BY HelpersAssumption

\* One element appended.
LEMMA NextFacts ==
    ASSUME NEW h \in Heaps, NEW R \in Arrays, NEW s, IsLoopState(s, h, R), NEW item \in Names
    PROVE  /\ IsLoopState(NextState(s, R, item), h, R)
           /\ \A a \in Arrays : \A p \in 1..Len(h[a]) :
                 NextState(s, R, item).heap[a][p] =
                    IF HasRoom(s, R) /\ a = R /\ p = s.len + 1 THEN item ELSE s.heap[a][p]
           /\ s.grown # <<>> => NextState(s, R, item).grown = Append(s.grown, item)
           /\ s.grown = <<>> /\ HasRoom(s, R) => NextState(s, R, item).grown = <<>>
           /\ s.grown = <<>> /\ ~HasRoom(s, R) =>
                 /\ s.len = Len(h[R])
                 /\ NextState(s, R, item).grown = Append(s.heap[R], item)
<1> DEFINE t  == NextState(s, R, item)
           nh == NextHeap(s, R, item)
           ng == NextGrown(s, R, item)
           b  == s.heap[R]
           na == NextArray(s, R, item)
<1>1. /\ s.heap \in [Arrays -> Seq(Names)] /\ s.len \in Nat /\ s.grown \in Seq(Names)
      /\ s.seen \subseteq Names /\ \A a \in Arrays : Len(s.heap[a]) = Len(h[a])
      /\ IF s.grown = <<>> THEN s.len <= Len(h[R]) ELSE s.len = Len(s.grown)
  BY DEF IsLoopState, Heaps
<1>2. b \in Seq(Names) /\ Len(b) = Len(h[R]) /\ Len(b) \in Nat
  BY <1>1
<1>3. t.heap = nh /\ t.len = s.len + 1 /\ t.grown = ng /\ t.seen = s.seen \cup {KeyFunc[item]}
      /\ t = [heap |-> t.heap, len |-> t.len, grown |-> t.grown, seen |-> t.seen]
  BY DEF NextState
<1>4. ASSUME HasRoom(s, R)
      PROVE  /\ s.grown = <<>> /\ s.len + 1 \in 1..Len(b)
             /\ na \in Seq(Names) /\ Len(na) = Len(b)
             /\ \A p \in 1..Len(b) : na[p] = IF p = s.len + 1 THEN item ELSE b[p]
  <2>1. s.grown = <<>> /\ s.len + 1 \in 1..Len(b)
    BY <1>1, <1>2, <1>4 DEF HasRoom
  <2>2. na = [b EXCEPT ![s.len + 1] = item]
    BY DEF NextArray
  <2> HIDE DEF na, b
  <2>3. na \in Seq(Names) /\ Len(na) = Len(b)
    BY <1>2, <2>1, <2>2
  <2>4. \A p \in 1..Len(b) : na[p] = IF p = s.len + 1 THEN item ELSE b[p]
    BY <1>2, <2>1, <2>2
  <2> QED BY <2>1, <2>3, <2>4
<1>5. HasRoom(s, R) => nh = [s.heap EXCEPT ![R] = na]
  BY DEF NextHeap
<1>6. ~HasRoom(s, R) => nh = s.heap
  BY DEF NextHeap
<1>7. /\ s.grown # <<>> => ng = Append(s.grown, item)
      /\ s.grown = <<>> /\ HasRoom(s, R) => ng = <<>>
      /\ s.grown = <<>> /\ ~HasRoom(s, R) => ng = Append(SubSeq(b, 1, s.len), item)
  BY DEF NextGrown
<1>8. ASSUME s.grown = <<>>, ~HasRoom(s, R)
      PROVE  s.len = Len(b) /\ SubSeq(b, 1, s.len) = b
  <2>1. s.len = Len(b)
    BY <1>1, <1>2, <1>8 DEF HasRoom
  <2> HIDE DEF b
  <2>2. SubSeq(b, 1, Len(b)) = b
    BY <1>2
  <2> QED BY <2>1, <2>2
<1> HIDE DEF t, nh, ng, na
<1>9. nh \in [Arrays -> Seq(Names)]
  BY <1>1, <1>4, <1>5, <1>6
<1>10. ASSUME NEW a \in Arrays
       PROVE  /\ Len(nh[a]) = Len(h[a])
              /\ \A p \in 1..Len(h[a]) :
                    nh[a][p] = IF HasRoom(s, R) /\ a = R /\ p = s.len + 1 THEN item
                                                                         ELSE s.heap[a][p]
  <2>1. CASE HasRoom(s, R) /\ a = R
    <3>1. nh[a] = na
      BY <1>1, <1>5, <2>1
    <3> QED BY <1>2, <1>4, <2>1, <3>1
  <2>2. CASE ~(HasRoom(s, R) /\ a = R)
    <3>1. nh[a] = s.heap[a]
      BY <1>1, <1>5, <1>6, <2>2
    <3> QED BY <1>1, <2>2, <3>1
  <2> QED BY <2>1, <2>2
<1>11. ng \in Seq(Names) /\ IF ng = <<>> THEN s.len + 1 <= Len(h[R]) ELSE s.len + 1 = Len(ng)
  <2>1. CASE s.grown # <<>>
    <3> DEFINE g == s.grown
    <3>1. ng = Append(g, item) /\ g \in Seq(Names) /\ s.len = Len(g)
      BY <1>1, <1>7, <2>1
    <3> HIDE DEF g
    <3>2. ng \in Seq(Names) /\ Len(ng) = s.len + 1 /\ ng # <<>>
      BY <3>1
    <3> QED BY <3>2
  <2>2. CASE s.grown = <<>> /\ HasRoom(s, R)
    <3>1. ng = <<>> /\ s.len + 1 <= Len(h[R])
      BY <1>2, <1>4, <1>7, <2>2
    <3> QED BY <3>1
  <2>3. CASE s.grown = <<>> /\ ~HasRoom(s, R)
    <3>1. ng = Append(b, item) /\ s.len = Len(b)
      BY <1>7, <1>8, <2>3
    <3> HIDE DEF b
    <3>2. ng \in Seq(Names) /\ Len(ng) = s.len + 1 /\ ng # <<>>
      BY <1>2, <3>1
    <3> QED BY <3>2
  <2> QED BY <2>1, <2>2, <2>3
<1>12. IsLoopState(t, h, R)
  <2>1. t.seen \subseteq Names
    BY <1>1, <1>3, KeyIsName
  <2>2. t.len \in Nat
    BY <1>1, <1>3
  <2> QED BY <1>3, <1>9, <1>10, <1>11, <2>1, <2>2 DEF IsLoopState, Heaps
<1>13. s.grown = <<>> /\ ~HasRoom(s, R) => s.len = Len(h[R]) /\ ng = Append(s.heap[R], item)
  BY <1>2, <1>7, <1>8
<1> QED BY <1>3, <1>7, <1>10, <1>12, <1>13 DEF t

\* What the loop writes: nothing but the result, behind its first elements.
WritesBehind(s, h, R, L) ==
    /\ IsLoopState(s, h, R) /\ s.len >= L
    /\ \A a \in Arrays : \A p \in 1..Len(h[a]) :
          \/ a = R /\ p > L
          \/ s.heap[a][p] = h[a][p]

LEMMA StepWritesBehind ==
    ASSUME NEW h \in Heaps, NEW R \in Arrays, NEW L \in Nat, NEW s, WritesBehind(s, h, R, L),
           NEW X \in Arrays, NEW inPlace, NEW M, NEW i,
           ItemRead(s, i, inPlace, X, M) \in Names
    PROVE  WritesBehind(LoopStep(s, i, inPlace, X, R, M), h, R, L)
<1> DEFINE item == ItemRead(s, i, inPlace, X, M)
           t    == NextState(s, R, item)
<1>1. CASE KeyFunc[item] \in s.seen
  BY <1>1 DEF LoopStep
<1>2. CASE KeyFunc[item] \notin s.seen
  <2>1. LoopStep(s, i, inPlace, X, R, M) = t
    BY <1>2 DEF LoopStep
  <2>2. s.len \in Nat /\ s.len >= L /\ IsLoopState(s, h, R)
    BY DEF WritesBehind, IsLoopState
  <2>3. t.len = s.len + 1
    BY DEF NextState
  <2> HIDE DEF item
  <2>4. /\ IsLoopState(t, h, R)
        /\ \A a \in Arrays : \A p \in 1..Len(h[a]) :
              t.heap[a][p] = IF HasRoom(s, R) /\ a = R /\ p = s.len + 1 THEN item
                                                                       ELSE s.heap[a][p]
    BY <2>2, NextFacts DEF item
  <2> HIDE DEF t
  <2>5. ASSUME NEW a \in Arrays, NEW p \in 1..Len(h[a])
        PROVE  (a = R /\ p > L) \/ t.heap[a][p] = h[a][p]
    <3>1. CASE a = R /\ p = s.len + 1
      BY <2>2, <3>1
    <3>2. CASE ~(a = R /\ p = s.len + 1)
      <4>1. t.heap[a][p] = s.heap[a][p]
        BY <2>4, <3>2
      <4> QED BY <4>1 DEF WritesBehind
    <3> QED BY <3>1, <3>2
  <2>6. t.len >= L
    BY <2>2, <2>3
  <2> QED BY <2>1, <2>4, <2>5, <2>6 DEF WritesBehind
<1> QED BY <1>1, <1>2

\* The elements of M that have not been before.
News(M) == {i \in DOMAIN M : \A j \in 1..(i - 1) : KeyFunc[M[j]] # KeyFunc[M[i]]}

Result(s, R, p) == IF s.grown = <<>> THEN s.heap[R][p] ELSE s.grown[p]

\* What the loop has done after k elements, if it has not overwritten what it
\* is to read.
MergesUpTo(s, h, inPlace, X, R, L, M, k) ==
    /\ s.seen = {KeyFunc[M[i]] : i \in 1..k}
    /\ s.len = L + Cardinality(UpTo(News(M), k))
    /\ \A p \in 1..L : Result(s, R, p) = h[R][p]
    /\ \A i \in News(M) :
          i <= k => Result(s, R, L + Cardinality(UpTo(News(M), i))) = M[i]
    /\ inPlace => \A i \in 1..Len(M) : i > k => s.heap[X][i] = M[i]

\* What the result has it keeps.
LEMMA ResultNext ==
    ASSUME NEW h \in Heaps, NEW R \in Arrays, NEW s, IsLoopState(s, h, R), NEW item \in Names
    PROVE  /\ \A p \in 1..s.len : Result(NextState(s, R, item), R, p) = Result(s, R, p)
           /\ Result(NextState(s, R, item), R, s.len + 1) = item
<1> DEFINE t == NextState(s, R, item)
           g == s.grown
           b == s.heap[R]
<1>1. /\ s.len \in Nat /\ g \in Seq(Names) /\ b \in Seq(Names) /\ Len(b) = Len(h[R])
      /\ IF g = <<>> THEN s.len <= Len(h[R]) ELSE s.len = Len(g)
  BY DEF IsLoopState, Heaps
<1>2. /\ \A p \in 1..Len(h[R]) :
             t.heap[R][p] = IF HasRoom(s, R) /\ p = s.len + 1 THEN item ELSE b[p]
      /\ g # <<>> => t.grown = Append(g, item)
      /\ g = <<>> /\ HasRoom(s, R) => t.grown = <<>>
      /\ g = <<>> /\ ~HasRoom(s, R) => s.len = Len(h[R]) /\ t.grown = Append(b, item)
  <2>1. /\ \A a \in Arrays : \A p \in 1..Len(h[a]) :
               t.heap[a][p] = IF HasRoom(s, R) /\ a = R /\ p = s.len + 1 THEN item
                                                                        ELSE s.heap[a][p]
        /\ s.grown # <<>> => t.grown = Append(s.grown, item)
        /\ s.grown = <<>> /\ HasRoom(s, R) => t.grown = <<>>
        /\ s.grown = <<>> /\ ~HasRoom(s, R) => /\ s.len = Len(h[R])
                                              /\ t.grown = Append(s.heap[R], item)
    BY NextFacts
  <2> HIDE DEF t
  <2> QED BY <2>1
<1>3. HasRoom(s, R) => s.len < Len(b)
  BY DEF HasRoom
<1> HIDE DEF t, g, b
<1>4. CASE g # <<>>
  <2>1. /\ t.grown # <<>> /\ t.grown[s.len + 1] = item
        /\ \A p \in 1..s.len : t.grown[p] = g[p]
    BY <1>1, <1>2, <1>4
  <2> QED BY <1>4, <2>1 DEF Result, g, t
<1>5. CASE g = <<>> /\ HasRoom(s, R)
  <2>1. s.len + 1 \in 1..Len(h[R]) /\ \A p \in 1..s.len : p \in 1..Len(h[R]) /\ p # s.len + 1
    BY <1>1, <1>3, <1>5
  <2>2. t.grown = <<>> /\ t.heap[R][s.len + 1] = item
        /\ \A p \in 1..s.len : t.heap[R][p] = b[p]
    BY <1>2, <1>5, <2>1
  <2> QED BY <1>5, <2>2 DEF Result, g, b, t
<1>6. CASE g = <<>> /\ ~HasRoom(s, R)
  <2>1. s.len = Len(b) /\ t.grown = Append(b, item)
    BY <1>1, <1>2, <1>6
  <2>2. /\ t.grown # <<>> /\ t.grown[s.len + 1] = item
        /\ \A p \in 1..s.len : t.grown[p] = b[p]
    BY <1>1, <2>1
  <2> QED BY <1>6, <2>2 DEF Result, g, b, t
<1> QED BY <1>4, <1>5, <1>6

\* An element is new, and gets the next place, if none was the same before.
LEMMA NewsFacts ==
    ASSUME NEW M \in Seq(Names), NEW k \in Nat, k + 1 <= Len(M)
    PROVE  /\ News(M) \in SUBSET (1..Len(M))
           /\ k + 1 \in News(M) <=> KeyFunc[M[k + 1]] \notin {KeyFunc[M[i]] : i \in 1..k}
           /\ {KeyFunc[M[i]] : i \in 1..(k + 1)} =
                  {KeyFunc[M[i]] : i \in 1..k} \cup {KeyFunc[M[k + 1]]}
           /\ \A i \in News(M) : i \in Nat /\ (i <= k + 1 <=> i <= k \/ i = k + 1)
<1>1. DOMAIN M = 1..Len(M) /\ Len(M) \in Nat
  OBVIOUS
<1>2. k + 1 \in DOMAIN M /\ (k + 1) - 1 = k
  BY <1>1
<1>3. k + 1 \in News(M) <=> \A j \in 1..k : KeyFunc[M[j]] # KeyFunc[M[k + 1]]
  BY <1>2 DEF News
<1>4. News(M) \in SUBSET (1..Len(M))
  BY <1>1 DEF News
<1>5. \A i : i \in 1..(k + 1) <=> i \in 1..k \/ i = k + 1
  OBVIOUS
<1>6. {KeyFunc[M[i]] : i \in 1..(k + 1)} =
                  {KeyFunc[M[i]] : i \in 1..k} \cup {KeyFunc[M[k + 1]]}
  BY <1>5
<1>7. ASSUME NEW i \in News(M) PROVE i \in Nat /\ (i <= k + 1 <=> i <= k \/ i = k + 1)
  <2>1. i \in Nat
    BY <1>1, <1>4
  <2> QED BY <2>1
<1> QED BY <1>3, <1>4, <1>6, <1>7

LEMMA StepMerges ==
    ASSUME NEW h \in Heaps, NEW R \in Arrays, NEW X \in Arrays, NEW L \in Nat,
           NEW s, WritesBehind(s, h, R, L),
           NEW inPlace \in BOOLEAN, NEW M \in Seq(Names), NEW k \in Nat, k + 1 <= Len(M),
           inPlace => Len(M) <= Len(h[X]),
           ~(inPlace /\ X = R /\ L # 0),
           MergesUpTo(s, h, inPlace, X, R, L, M, k)
    PROVE  MergesUpTo(LoopStep(s, k + 1, inPlace, X, R, M), h, inPlace, X, R, L, M, k + 1)
<1> DEFINE item == M[k + 1]
           t    == NextState(s, R, item)
           c    == Cardinality(UpTo(News(M), k))
           key  == KeyFunc[item]
           seen == {KeyFunc[M[i]] : i \in 1..k}
<1>0. key = KeyFunc[item]
  OBVIOUS
<1>1. /\ item \in Names /\ Len(M) \in Nat /\ \A i \in 1..Len(M) : M[i] \in Names
      /\ k + 1 \in 1..Len(M)
  OBVIOUS
<1>2. /\ IsLoopState(s, h, R) /\ s.len \in Nat
      /\ \A a \in Arrays : Len(s.heap[a]) = Len(h[a]) /\ Len(h[a]) \in Nat
  BY DEF WritesBehind, IsLoopState, Heaps
<1>3. /\ s.seen = seen /\ s.len = L + c
      /\ \A p \in 1..L : Result(s, R, p) = h[R][p]
      /\ \A i \in News(M) :
            i <= k => Result(s, R, L + Cardinality(UpTo(News(M), i))) = M[i]
      /\ inPlace => \A i \in 1..Len(M) : i > k => s.heap[X][i] = M[i]
  BY DEF MergesUpTo
<1>4. /\ News(M) \in SUBSET (1..Len(M))
      /\ k + 1 \in News(M) <=> key \notin seen
      /\ {KeyFunc[M[i]] : i \in 1..(k + 1)} = seen \cup {key}
      /\ \A i \in News(M) : i \in Nat /\ (i <= k + 1 <=> i <= k \/ i = k + 1)
  BY NewsFacts
<1>5. /\ c \in 0..k
      /\ Cardinality(UpTo(News(M), k + 1)) = c + (IF k + 1 \in News(M) THEN 1 ELSE 0)
      /\ \A i \in Nat : i <= k => Cardinality(UpTo(News(M), i)) <= c
  BY <1>1, <1>4, UpToCounts
<1>6. ItemRead(s, k + 1, inPlace, X, M) = item
  <2>1. k + 1 > k
    OBVIOUS
  <2> QED BY <1>1, <1>3, <2>1 DEF ItemRead
<1>7. \A i \in 1..Len(M) : i > k + 1 => i > k
  OBVIOUS
<1> HIDE DEF item, key, c, seen
<1>8. CASE key \in seen
  <2>1. LoopStep(s, k + 1, inPlace, X, R, M) = s
    BY <1>3, <1>6, <1>8, <1>0 DEF LoopStep
  <2>2. k + 1 \notin News(M) /\ seen \cup {key} = seen
    BY <1>4, <1>8
  <2>3. Cardinality(UpTo(News(M), k + 1)) = c
    BY <1>5, <2>2
  <2>4. \A i \in News(M) : i <= k + 1 => i <= k
    BY <1>4, <2>2
  <2> QED BY <1>3, <1>4, <1>7, <2>1, <2>2, <2>3, <2>4 DEF MergesUpTo
<1>9. CASE key \notin seen
  <2>1. LoopStep(s, k + 1, inPlace, X, R, M) = t
    BY <1>3, <1>6, <1>9, <1>0 DEF LoopStep
  <2>2. t.len = s.len + 1 /\ t.seen = s.seen \cup {KeyFunc[item]}
    BY DEF NextState
  <2>3. /\ \A p \in 1..s.len : Result(t, R, p) = Result(s, R, p)
        /\ Result(t, R, s.len + 1) = item
    BY <1>1, <1>2, ResultNext
  <2>4. \A a \in Arrays : \A p \in 1..Len(h[a]) :
           t.heap[a][p] = IF HasRoom(s, R) /\ a = R /\ p = s.len + 1 THEN item
                                                                    ELSE s.heap[a][p]
    BY <1>1, <1>2, NextFacts
  <2> HIDE DEF t
  <2>5. k + 1 \in News(M) /\ Cardinality(UpTo(News(M), k + 1)) = c + 1
    BY <1>4, <1>5, <1>9
  <2>6. t.seen = {KeyFunc[M[i]] : i \in 1..(k + 1)}
    BY <1>0, <1>3, <1>4, <2>2
  <2>7. t.len = L + Cardinality(UpTo(News(M), k + 1))
    BY <1>2, <1>3, <1>5, <2>2, <2>5
  <2>8. \A p \in 1..L : Result(t, R, p) = h[R][p]
    <3>1. \A p \in 1..L : p \in 1..s.len
      BY <1>3, <1>5
    <3> QED BY <1>3, <2>3, <3>1
  <2>9. ASSUME NEW i \in News(M), i <= k + 1
        PROVE  Result(t, R, L + Cardinality(UpTo(News(M), i))) = M[i]
    <3>1. CASE i = k + 1
      <4>1. L + Cardinality(UpTo(News(M), i)) = s.len + 1
        BY <1>3, <1>5, <2>5, <3>1
      <4> QED BY <2>3, <3>1, <4>1 DEF item
    <3>2. CASE i <= k
      <4> DEFINE d == Cardinality(UpTo(News(M), i))
      <4>1. d \in Nat /\ d <= c /\ d >= 1
        <5>1. i \in Nat
          BY <1>4
        <5>2. d \in 0..i /\ d >= 1
          BY <1>1, <1>4, <5>1, UpToCounts
        <5> QED BY <1>5, <3>2, <5>1, <5>2
      <4>2. Result(s, R, L + d) = M[i]
        BY <1>3, <3>2
      <4> HIDE DEF d
      <4>3. L + d \in 1..s.len
        BY <1>3, <1>5, <4>1
      <4>4. Result(t, R, L + d) = M[i]
        BY <2>3, <4>2, <4>3
      <4> QED BY <4>4 DEF d
    <3> QED BY <1>4, <2>9, <3>1, <3>2
  <2>10. ASSUME inPlace, NEW i \in 1..Len(M), i > k + 1
         PROVE  t.heap[X][i] = M[i]
    <3>1. i \in 1..Len(h[X])
      BY <1>1, <1>2, <2>10
    <3>2. ~(X = R /\ i = s.len + 1)
      <4>1. X = R => L = 0 /\ s.len = c
        BY <1>3, <1>5, <2>10
      <4> QED BY <1>5, <2>10, <4>1
    <3>3. t.heap[X][i] = s.heap[X][i]
      BY <2>4, <3>1, <3>2
    <3> QED BY <1>3, <1>7, <2>10, <3>3
  <2> QED BY <2>1, <2>6, <2>7, <2>8, <2>9, <2>10 DEF MergesUpTo
<1> QED BY <1>8, <1>9

\* The slices are in their arrays.
SlicesFit ==
    /\ heap \in Heaps
    /\ var \in [Vars -> [arr : Arrays, len : Nat]]
    /\ \A v \in Vars : var[v].len <= Len(heap[var[v].arr])

LEMMA VarFacts ==
    ASSUME SlicesFit, NEW v \in Vars
    PROVE  /\ var[v].arr \in Arrays /\ var[v].len \in Nat
           /\ heap[var[v].arr] \in Seq(Names)
           /\ var[v].len \in 0..Len(heap[var[v].arr])
           /\ Content(v) \in Seq(Names) /\ Len(Content(v)) = var[v].len
           /\ \A p \in 1..var[v].len : Content(v)[p] = heap[var[v].arr][p]
<1>1. var[v].arr \in Arrays /\ var[v].len \in Nat /\ var[v].len <= Len(heap[var[v].arr])
  BY DEF SlicesFit
<1>2. heap[var[v].arr] \in Seq(Names)
  BY <1>1 DEF SlicesFit, Heaps
<1>3. var[v].len \in 0..Len(heap[var[v].arr])
  BY <1>1, <1>2
<1> DEFINE a == heap[var[v].arr]
           n == var[v].len
<1>4. Content(v) = SubSeq(a, 1, n)
  BY DEF Content
<1> HIDE DEF a, n
<1>5. /\ Content(v) \in Seq(Names) /\ Len(Content(v)) = n
      /\ \A p \in 1..n : Content(v)[p] = a[p]
  BY <1>2, <1>3, <1>4, PrefixFacts DEF a, n
<1> QED BY <1>1, <1>2, <1>3, <1>5 DEF a, n

-----------------------------------------------------------------------------
(* The loop's step as the code has it, and as it is reasoned about.        *)

Merged(v1, v2) == Content(v1) \o Content(v2)

Memory(v1, v2) ==
    IF FitsBehind(v1, v2)
    THEN [heap EXCEPT ![var[v1].arr] = Overwrite(@, var[v1].len, Content(v2))]
    ELSE heap

Start(v1, v2, r) ==
    [heap |-> Memory(v1, v2), len |-> var[r].len, grown |-> <<>>, seen |-> {}]

MergeStep(s, i, v1, v2, r) ==
    LET item == IF FitsBehind(v1, v2) THEN s.heap[var[v1].arr][i] ELSE Merged(v1, v2)[i]
        key  == KeyFunc[item]
    IN  IF key \in s.seen THEN s
        ELSE [Appended(s, r, item) EXCEPT !.seen = Remember(@, key)]

LEMMA AppendedIsNext ==
    ASSUME NEW h \in Heaps, NEW r \in Vars, var[r].arr \in Arrays,
           NEW s, IsLoopState(s, h, var[r].arr), NEW item
    PROVE  [Appended(s, r, item) EXCEPT !.seen = Remember(@, KeyFunc[item])]
              = NextState(s, var[r].arr, item)
<1> DEFINE R == var[r].arr
           n == s.len + 1
<1>1. s = [heap |-> s.heap, len |-> s.len, grown |-> s.grown, seen |-> s.seen]
  BY DEF IsLoopState
<1>2. CASE s.grown # <<>>
  <2> DEFINE g == Append(s.grown, item)
  <2>1. Appended(s, r, item) = [s EXCEPT !.grown = g, !.len = n]
    BY <1>2 DEF Appended
  <2>2. NextState(s, R, item) = [heap |-> s.heap, len |-> n, grown |-> g,
                                 seen |-> s.seen \cup {KeyFunc[item]}]
    BY <1>2 DEF NextState, NextHeap, NextGrown, HasRoom
  <2> HIDE DEF g, n
  <2>3. Appended(s, r, item) = [heap |-> s.heap, len |-> n, grown |-> g, seen |-> s.seen]
    BY <1>1, <2>1
  <2> QED BY <2>2, <2>3 DEF Remember
<1>3. CASE s.grown = <<>> /\ s.len < Len(s.heap[R])
  <2> DEFINE a == [s.heap EXCEPT ![R] = NextArray(s, R, item)]
  <2>1. [s.heap EXCEPT ![R][n] = item] = a
    BY DEF NextArray
  <2>2. Appended(s, r, item) = [s EXCEPT !.heap[R][n] = item, !.len = n]
    BY <1>3 DEF Appended
  <2>3. Appended(s, r, item) = [s EXCEPT !.heap = a, !.len = n]
    BY <1>1, <2>1, <2>2
  <2>4. NextState(s, R, item) = [heap |-> a, len |-> n, grown |-> s.grown,
                                 seen |-> s.seen \cup {KeyFunc[item]}]
    BY <1>3 DEF NextState, NextHeap, NextGrown, HasRoom
  <2> HIDE DEF a, n
  <2>5. Appended(s, r, item) = [heap |-> a, len |-> n, grown |-> s.grown, seen |-> s.seen]
    BY <1>1, <2>3
  <2> QED BY <2>4, <2>5 DEF Remember
<1>4. CASE s.grown = <<>> /\ ~(s.len < Len(s.heap[R]))
  <2> DEFINE g == Append(SubSeq(s.heap[R], 1, s.len), item)
  <2>1. Appended(s, r, item) = [s EXCEPT !.grown = g, !.len = n]
    BY <1>4 DEF Appended
  <2>2. NextState(s, R, item) = [heap |-> s.heap, len |-> n, grown |-> g,
                                 seen |-> s.seen \cup {KeyFunc[item]}]
    BY <1>4 DEF NextState, NextHeap, NextGrown, HasRoom
  <2> HIDE DEF g, n
  <2>3. Appended(s, r, item) = [heap |-> s.heap, len |-> n, grown |-> g, seen |-> s.seen]
    BY <1>1, <2>1
  <2> QED BY <2>2, <2>3 DEF Remember
<1> QED BY <1>2, <1>3, <1>4

LEMMA StepIsLoopStep ==
    ASSUME NEW h \in Heaps, NEW v1 \in Vars, NEW v2 \in Vars, NEW r \in Vars,
           var[r].arr \in Arrays, NEW s, IsLoopState(s, h, var[r].arr), NEW i
    PROVE  MergeStep(s, i, v1, v2, r)
              = LoopStep(s, i, FitsBehind(v1, v2), var[v1].arr, var[r].arr, Merged(v1, v2))
<1> DEFINE item == ItemRead(s, i, FitsBehind(v1, v2), var[v1].arr, Merged(v1, v2))
<1>1. MergeStep(s, i, v1, v2, r) =
         IF KeyFunc[item] \in s.seen THEN s
         ELSE [Appended(s, r, item) EXCEPT !.seen = Remember(@, KeyFunc[item])]
  BY DEF MergeStep, ItemRead
<1>2. [Appended(s, r, item) EXCEPT !.seen = Remember(@, KeyFunc[item])]
         = NextState(s, var[r].arr, item)
  <2> HIDE DEF item
  <2> QED BY AppendedIsNext
<1> QED BY <1>1, <1>2 DEF LoopStep

-----------------------------------------------------------------------------
(* Appending in place.                                                     *)

LEMMA ConcatFacts ==
    ASSUME NEW V, NEW b \in Seq(V), NEW c \in Seq(V)
    PROVE  /\ b \o c \in Seq(V)
           /\ Len(b \o c) = Len(b) + Len(c) /\ Len(b) \in Nat /\ Len(c) \in Nat
           /\ \A p \in 1..Len(b) : (b \o c)[p] = b[p]
           /\ \A p \in 1..Len(c) : (b \o c)[Len(b) + p] = c[p]
<1>1. b \o c \in Seq(V)
  OBVIOUS
<1>2. Len(b \o c) = Len(b) + Len(c) /\ Len(b) \in Nat /\ Len(c) \in Nat
  OBVIOUS
<1>3. \A p \in 1..Len(b) : (b \o c)[p] = b[p]
  OBVIOUS
<1>4. \A p \in 1..Len(c) : (b \o c)[Len(b) + p] = c[p]
  OBVIOUS
<1> QED BY <1>1, <1>2, <1>3, <1>4

LEMMA OverwriteFacts ==
    ASSUME NEW V, NEW array \in Seq(V), NEW n \in Nat, NEW s \in Seq(V),
           n + Len(s) <= Len(array)
    PROVE  /\ Overwrite(array, n, s) \in Seq(V)
           /\ Len(Overwrite(array, n, s)) = Len(array)
           /\ \A p \in 1..n : Overwrite(array, n, s)[p] = array[p]
           /\ \A p \in 1..Len(s) : Overwrite(array, n, s)[n + p] = s[p]
<1> DEFINE a == SubSeq(array, 1, n)
           m == Len(array)
           c == SubSeq(array, n + Len(s) + 1, m)
<1>1. m \in Nat /\ Len(s) \in Nat /\ n <= m
  OBVIOUS
<1>2. a \in Seq(V) /\ Len(a) = n /\ \A p \in 1..n : a[p] = array[p]
  OBVIOUS
<1>3. c \in Seq(V) /\ Len(c) = m - (n + Len(s))
  OBVIOUS
<1>4. Overwrite(array, n, s) = a \o s \o c
  BY DEF Overwrite
<1> HIDE DEF a, c, m
<1> DEFINE b == a \o s
<1>5. /\ b \in Seq(V) /\ Len(b) = n + Len(s)
      /\ \A p \in 1..n : b[p] = a[p]
      /\ \A p \in 1..Len(s) : b[n + p] = s[p]
  <2>1. /\ a \o s \in Seq(V) /\ Len(a \o s) = Len(a) + Len(s)
        /\ \A p \in 1..Len(a) : (a \o s)[p] = a[p]
        /\ \A p \in 1..Len(s) : (a \o s)[Len(a) + p] = s[p]
    <3>1. a \in Seq(V) /\ s \in Seq(V)
      BY <1>2
    <3> HIDE DEF b
    <3> QED BY <3>1, ConcatFacts
  <2> QED BY <1>2, <2>1
<1> HIDE DEF b
<1>6. /\ b \o c \in Seq(V) /\ Len(b \o c) = m
      /\ \A p \in 1..Len(b) : (b \o c)[p] = b[p]
  <2>1. /\ b \o c \in Seq(V) /\ Len(b \o c) = Len(b) + Len(c)
        /\ \A p \in 1..Len(b) : (b \o c)[p] = b[p]
    <3>1. b \in Seq(V) /\ c \in Seq(V)
      BY <1>3, <1>5
    <3> QED BY <3>1, ConcatFacts
  <2>2. Len(b) + Len(c) = m
    BY <1>1, <1>3, <1>5
  <2> QED BY <2>1, <2>2
<1>7. /\ \A p \in 1..n : p \in 1..Len(b)
      /\ \A p \in 1..Len(s) : n + p \in 1..Len(b)
  BY <1>1, <1>5
<1> QED BY <1>2, <1>4, <1>5, <1>6, <1>7 DEF b, m

LEMMA MergedFacts ==
    ASSUME SlicesFit, NEW v1 \in Vars, NEW v2 \in Vars
    PROVE  /\ Merged(v1, v2) \in Seq(Names)
           /\ Len(Merged(v1, v2)) = var[v1].len + var[v2].len
           /\ Len(Merged(v1, v2)) \in Nat
           /\ \A p \in 1..var[v1].len : Merged(v1, v2)[p] = Content(v1)[p]
           /\ \A p \in 1..Len(Merged(v1, v2)) :
                 p > var[v1].len => Merged(v1, v2)[p] = Content(v2)[p - var[v1].len]
<1> DEFINE a == Content(v1)
           b == Content(v2)
<1>1. /\ a \in Seq(Names) /\ Len(a) = var[v1].len /\ b \in Seq(Names) /\ Len(b) = var[v2].len
  BY VarFacts
<1>2. Merged(v1, v2) = a \o b
  BY DEF Merged
<1> HIDE DEF a, b
<1>3. /\ a \o b \in Seq(Names) /\ Len(a \o b) = Len(a) + Len(b) /\ Len(a \o b) \in Nat
      /\ \A p \in 1..Len(a) : (a \o b)[p] = a[p]
      /\ \A p \in 1..Len(a \o b) : p > Len(a) => (a \o b)[p] = b[p - Len(a)]
  BY SMTT(30), <1>1
<1> QED BY <1>1, <1>2, <1>3 DEF a, b

\* What the appending leaves as it was, and what there is to read after it.
LEMMA MemoryFacts ==
    ASSUME SlicesFit, NEW v1 \in Vars, NEW v2 \in Vars
    PROVE  /\ Memory(v1, v2) \in Heaps
           /\ \A a \in Arrays : Len(Memory(v1, v2)[a]) = Len(heap[a])
           /\ \A a \in Arrays : a # var[v1].arr => Memory(v1, v2)[a] = heap[a]
           /\ ~FitsBehind(v1, v2) => Memory(v1, v2) = heap
           /\ \A p \in 1..var[v1].len :
                 Memory(v1, v2)[var[v1].arr][p] = heap[var[v1].arr][p]
           /\ FitsBehind(v1, v2) =>
                 /\ Len(Merged(v1, v2)) <= Len(heap[var[v1].arr])
                 /\ \A p \in 1..Len(Merged(v1, v2)) :
                       Memory(v1, v2)[var[v1].arr][p] = Merged(v1, v2)[p]
<1> DEFINE X  == var[v1].arr
           n  == var[v1].len
           b  == Content(v2)
           ov == Overwrite(heap[X], n, b)
<1>1. /\ X \in Arrays /\ n \in Nat /\ heap[X] \in Seq(Names)
      /\ Content(v1) \in Seq(Names) /\ \A p \in 1..n : Content(v1)[p] = heap[X][p]
      /\ b \in Seq(Names) /\ Len(b) = var[v2].len /\ Len(b) \in Nat
  BY VarFacts
<1>2. heap \in [Arrays -> Seq(Names)]
  BY DEF SlicesFit, Heaps
<1>3. CASE ~FitsBehind(v1, v2)
  <2>1. Memory(v1, v2) = heap
    BY <1>3 DEF Memory
  <2> QED BY <1>2, <1>3, <2>1 DEF Heaps
<1>4. CASE FitsBehind(v1, v2)
  <2>1. n + Len(b) <= Len(heap[X])
    BY <1>1, <1>4 DEF FitsBehind
  <2>2. Memory(v1, v2) = [heap EXCEPT ![X] = ov]
    BY <1>4 DEF Memory
  <2> HIDE DEF X, n, b
  <2>3. /\ ov \in Seq(Names) /\ Len(ov) = Len(heap[X])
        /\ \A p \in 1..n : ov[p] = heap[X][p]
        /\ \A p \in 1..Len(b) : ov[n + p] = b[p]
    BY SMTT(30), <1>1, <2>1, OverwriteFacts
  <2> HIDE DEF ov
  <2>4. /\ Memory(v1, v2) \in [Arrays -> Seq(Names)] /\ Memory(v1, v2)[X] = ov
        /\ \A a \in Arrays : a # X => Memory(v1, v2)[a] = heap[a]
    BY <1>1, <1>2, <2>2, <2>3
  <2>5. \A a \in Arrays : Len(Memory(v1, v2)[a]) = Len(heap[a])
    BY <2>3, <2>4
  <2>6. /\ Len(Merged(v1, v2)) = n + Len(b) /\ Len(Merged(v1, v2)) \in Nat
        /\ \A p \in 1..n : Merged(v1, v2)[p] = Content(v1)[p]
        /\ \A p \in 1..Len(Merged(v1, v2)) : p > n => Merged(v1, v2)[p] = b[p - n]
    BY <1>1, MergedFacts DEF n, b
  <2>7. ASSUME NEW p \in 1..Len(Merged(v1, v2)) PROVE ov[p] = Merged(v1, v2)[p]
    <3>1. CASE p <= n
      <4>1. p \in 1..n
        BY <1>1, <2>6, <3>1
      <4> QED BY <1>1, <2>3, <2>6, <4>1
    <3>2. CASE p > n
      <4>1. p - n \in 1..Len(b) /\ n + (p - n) = p
        BY <1>1, <2>6, <3>2
      <4>2. ov[n + (p - n)] = b[p - n]
        BY <2>3, <4>1
      <4> QED BY <2>6, <3>2, <4>1, <4>2
    <3>3. p \in Nat
      BY <2>6
    <3> QED BY <1>1, <3>1, <3>2, <3>3
  <2>8. Len(Merged(v1, v2)) <= Len(heap[X])
    BY <2>1, <2>6
  <2> QED BY <1>4, <2>3, <2>4, <2>5, <2>7, <2>8 DEF Heaps, X, n
<1> QED BY <1>3, <1>4

\* What is read is an element.
LEMMA ReadsNames ==
    ASSUME SlicesFit, NEW v1 \in Vars, NEW v2 \in Vars, NEW R \in Arrays,
           NEW s, IsLoopState(s, Memory(v1, v2), R), NEW i \in 1..Len(Merged(v1, v2))
    PROVE  ItemRead(s, i, FitsBehind(v1, v2), var[v1].arr, Merged(v1, v2)) \in Names
<1> DEFINE X == var[v1].arr
<1>1. CASE FitsBehind(v1, v2)
  <2>1. Len(s.heap[X]) = Len(Memory(v1, v2)[X]) /\ s.heap[X] \in Seq(Names) /\ X \in Arrays
    BY VarFacts DEF IsLoopState, Heaps
  <2>2. Len(Merged(v1, v2)) <= Len(s.heap[X]) /\ Len(Merged(v1, v2)) \in Nat
    BY <1>1, <2>1, MemoryFacts, MergedFacts
  <2>3. i \in 1..Len(s.heap[X])
    BY <2>1, <2>2
  <2>4. s.heap[X][i] \in Names
    BY <2>1, <2>3
  <2> QED BY <1>1, <2>4 DEF ItemRead
<1>2. CASE ~FitsBehind(v1, v2)
  <2>1. Merged(v1, v2) \in Seq(Names)
    BY MergedFacts
  <2>2. Merged(v1, v2)[i] \in Names
    BY <2>1
  <2> QED BY <1>2, <2>2 DEF ItemRead
<1> QED BY <1>1, <1>2

IsMergeRun(run, v1, v2, r) ==
    /\ run[0] = Start(v1, v2, r)
    /\ \A k \in Nat : k + 1 <= Len(Merged(v1, v2)) =>
          run[k + 1] = MergeStep(run[k], k + 1, v1, v2, r)
    /\ MergeLoop(v1, v2, r) = run[Len(Merged(v1, v2))]

LEMMA StartWritesNothing ==
    ASSUME SlicesFit, NEW v1 \in Vars, NEW v2 \in Vars, NEW r \in Vars
    PROVE  /\ WritesBehind(Start(v1, v2, r), Memory(v1, v2), var[r].arr, var[r].len)
           /\ var[r].arr \in Arrays /\ var[r].len \in Nat
<1> DEFINE s == Start(v1, v2, r)
           h == Memory(v1, v2)
           L == var[r].len
           R == var[r].arr
<1>1. R \in Arrays /\ L \in 0..Len(heap[R]) /\ L \in Nat
  BY VarFacts
<1>2. h \in Heaps /\ Len(h[R]) = Len(heap[R])
  BY <1>1, MemoryFacts
<1>3. /\ s = [heap |-> h, len |-> L, grown |-> <<>>, seen |-> {}]
      /\ s.heap = h /\ s.len = L /\ s.grown = <<>> /\ s.seen = {}
  BY DEF Start
<1> HIDE DEF s, h, L, R
<1>4. <<>> \in Seq(Names) /\ {} \subseteq Names
  OBVIOUS
<1>5. L <= Len(h[R])
  BY <1>1, <1>2
<1>6. IsLoopState(s, h, R)
  BY <1>1, <1>2, <1>3, <1>4, <1>5 DEF IsLoopState
<1>7. L >= L
  BY <1>1
<1>8. WritesBehind(s, h, R, L)
  BY <1>3, <1>6, <1>7 DEF WritesBehind
<1> QED BY <1>1, <1>8 DEF s, h, L, R

LEMMA MergeStepWrites ==
    ASSUME SlicesFit, NEW v1 \in Vars, NEW v2 \in Vars, NEW r \in Vars, NEW s,
           WritesBehind(s, Memory(v1, v2), var[r].arr, var[r].len),
           NEW i \in 1..Len(Merged(v1, v2))
    PROVE  /\ WritesBehind(MergeStep(s, i, v1, v2, r), Memory(v1, v2), var[r].arr, var[r].len)
           /\ MergeStep(s, i, v1, v2, r)
                 = LoopStep(s, i, FitsBehind(v1, v2), var[v1].arr, var[r].arr, Merged(v1, v2))
<1> DEFINE h == Memory(v1, v2)
           R == var[r].arr
           L == var[r].len
           X == var[v1].arr
           inPlace == FitsBehind(v1, v2)
           M == Merged(v1, v2)
<1>1. /\ R \in Arrays /\ L \in Nat /\ X \in Arrays
      /\ h \in Heaps
  BY VarFacts, MemoryFacts
<1>2. IsLoopState(s, h, R)
  BY DEF WritesBehind
<1>3. ItemRead(s, i, inPlace, X, M) \in Names
  BY <1>1, <1>2, ReadsNames
<1>4. MergeStep(s, i, v1, v2, r) = LoopStep(s, i, inPlace, X, R, M)
  BY <1>1, <1>2, StepIsLoopStep
<1> HIDE DEF h, R, L, X, inPlace, M
<1>5. WritesBehind(s, h, R, L)
  BY DEF h, R, L
<1>6. WritesBehind(LoopStep(s, i, inPlace, X, R, M), h, R, L)
  BY <1>1, <1>3, <1>5, StepWritesBehind
<1> QED BY <1>4, <1>6 DEF h, R, L, X, inPlace, M

LEMMA MergeRuns ==
    ASSUME SlicesFit, NEW v1 \in Vars, NEW v2 \in Vars, NEW r \in Vars
    PROVE  \E run : IsMergeRun(run, v1, v2, r)
<1> DEFINE n == Len(Merged(v1, v2))
           In(s) == WritesBehind(s, Memory(v1, v2), var[r].arr, var[r].len)
           States == [heap : Heaps, len : Nat, grown : Seq(Names), seen : SUBSET Names]
           S == {s \in States : In(s)}
           base == Start(v1, v2, r)
           step == [p \in S \X (1..n) |-> MergeStep(p[1], p[2], v1, v2, r)]
           all == [i \in 1..n |-> i]
           At(g, T) == IF T = {} THEN base
                       ELSE MergeStep(g[T \ {Max(T)}], all[Max(T)], v1, v2, r)
           Def(g) == g = [T \in SUBSET (1..n) |-> At(g, T)]
<1>1. n \in Nat
  BY MergedFacts
<1>2. \A s : In(s) => s \in S
  BY DEF WritesBehind, IsLoopState
<1>3. \A s \in S : In(s)
  OBVIOUS
<1>4. base \in S
  BY <1>2, StartWritesNothing
<1>5. ASSUME NEW s \in S, NEW i \in 1..n PROVE MergeStep(s, i, v1, v2, r) \in S
  <2>1. WritesBehind(s, Memory(v1, v2), var[r].arr, var[r].len)
    BY <1>3
  <2>2. In(MergeStep(s, i, v1, v2, r))
    BY <2>1, MergeStepWrites
  <2> HIDE DEF In, S
  <2> QED BY <1>2, <2>2
<1> HIDE DEF S, base
<1>6. step \in [S \X (1..n) -> S]
  BY <1>5
<1>7. \A s \in S, i \in 1..n : step[<<s, i>>] = MergeStep(s, i, v1, v2, r)
  OBVIOUS
<1> HIDE DEF step
<1>8. PICK f : IsFold(f, base, step, S, n)
  BY <1>1, <1>4, <1>6, FoldExists
<1>9. Def(f)
  <2>1. \A T \in SUBSET (1..n) : T \ {Max(T)} \in SUBSET (1..n)
    OBVIOUS
  <2>2. ASSUME NEW T \in SUBSET (1..n) PROVE f[T] = At(f, T)
    <3>1. f[T \ {Max(T)}] \in S
      BY <1>8, <2>1 DEF IsFold
    <3>2. T # {} => Max(T) \in 1..n /\ all[Max(T)] = Max(T)
      BY <1>8 DEF IsFold
    <3> QED BY <1>7, <1>8, <3>1, <3>2 DEF IsFold
  <2>3. f = [T \in SUBSET (1..n) |-> f[T]]
    BY <1>8 DEF IsFold
  <2> HIDE DEF At
  <2> QED BY <2>2, <2>3
<1> DEFINE g == CHOOSE g : Def(g)
<1>10. Def(g)
  <2> HIDE DEF Def
  <2> QED BY <1>9
<1>11. MergeLoop(v1, v2, r) = g[1..n]
  BY DEF MergeLoop, FoldLeft, MapThenFoldSet, MergeStep, base, Start, Memory, Merged
<1> HIDE DEF g
<1> DEFINE run == [k \in 0..n |-> g[1..k]]
<1>12. \A T \in SUBSET (1..n) : g[T] = At(g, T)
  BY <1>10
<1> HIDE DEF n
<1>13. run[0] = base
  <2>1. 1..0 = {} /\ {} \in SUBSET (1..n) /\ 0 \in 0..n
    BY <1>1
  <2> QED BY <1>12, <2>1
<1>14. ASSUME NEW k \in Nat, k + 1 <= n
       PROVE  run[k + 1] = MergeStep(run[k], k + 1, v1, v2, r)
  <2>1. /\ 1..(k + 1) \in SUBSET (1..n) /\ 1..(k + 1) # {}
        /\ Max(1..(k + 1)) = k + 1 /\ (1..(k + 1)) \ {k + 1} = 1..k
    BY <1>1, <1>14, FirstOnes
  <2>2. k \in 0..n /\ k + 1 \in 0..n
    BY <1>1, <1>14
  <2>3. all[k + 1] = k + 1
    BY <1>1, <1>14
  <2>4. g[1..(k + 1)] = MergeStep(g[1..k], k + 1, v1, v2, r)
    BY <1>12, <2>1, <2>3
  <2> QED BY <2>2, <2>4
<1>15. run[n] = g[1..n]
  BY <1>1
<1> HIDE DEF run
<1>16. IsMergeRun(run, v1, v2, r)
  BY <1>11, <1>13, <1>14, <1>15 DEF base, n, IsMergeRun
<1> QED BY <1>16

\* Whatever it reads, the loop writes nothing but the result's new elements.
LEMMA LoopWritesBehind ==
    ASSUME SlicesFit, NEW v1 \in Vars, NEW v2 \in Vars, NEW r \in Vars
    PROVE  WritesBehind(MergeLoop(v1, v2, r), Memory(v1, v2), var[r].arr, var[r].len)
<1> DEFINE n == Len(Merged(v1, v2))
           In(s) == WritesBehind(s, Memory(v1, v2), var[r].arr, var[r].len)
<1>1. PICK run : IsMergeRun(run, v1, v2, r)
  BY MergeRuns
<1>2. /\ run[0] = Start(v1, v2, r) /\ MergeLoop(v1, v2, r) = run[n]
      /\ \A k \in Nat : k + 1 <= n => run[k + 1] = MergeStep(run[k], k + 1, v1, v2, r)
  BY <1>1 DEF IsMergeRun
<1>3. n \in Nat
  BY MergedFacts
<1> DEFINE K == {k \in Nat : k <= n => In(run[k])}
<1>4. 0 \in K
  BY <1>2, StartWritesNothing
<1>5. ASSUME NEW k \in Nat, k \in K PROVE k + 1 \in K
  <2>1. ASSUME k + 1 <= n PROVE In(run[k + 1])
    <3>1. k <= n /\ k + 1 \in 1..n
      BY <1>3, <2>1
    <3>2. WritesBehind(run[k], Memory(v1, v2), var[r].arr, var[r].len)
      BY <1>5, <3>1
    <3>3. WritesBehind(MergeStep(run[k], k + 1, v1, v2, r),
                       Memory(v1, v2), var[r].arr, var[r].len)
      BY <3>1, <3>2, MergeStepWrites
    <3> QED BY <1>2, <2>1, <3>3
  <2> HIDE DEF In
  <2> QED BY <2>1
<1> HIDE DEF K
<1>6. \A k \in Nat : k \in K
  BY <1>4, <1>5, Induction
<1>7. n \in K
  BY <1>3, <1>6
<1> HIDE DEF In
<1>8. In(run[n])
  BY <1>3, <1>7 DEF K
<1> QED BY <1>2, <1>8 DEF In

\* And if it does not overwrite what it is to read, it reads what was merged.
LEMMA LoopMerges ==
    ASSUME SlicesFit, NEW v1 \in Vars, NEW v2 \in Vars, NEW r \in Vars,
           ~(FitsBehind(v1, v2) /\ var[v1].arr = var[r].arr /\ var[r].len # 0)
    PROVE  MergesUpTo(MergeLoop(v1, v2, r), Memory(v1, v2), FitsBehind(v1, v2), var[v1].arr,
                      var[r].arr, var[r].len, Merged(v1, v2), Len(Merged(v1, v2)))
<1> DEFINE h == Memory(v1, v2)
           R == var[r].arr
           L == var[r].len
           X == var[v1].arr
           inPlace == FitsBehind(v1, v2)
           M == Merged(v1, v2)
           n == Len(M)
           In(s) == WritesBehind(s, Memory(v1, v2), var[r].arr, var[r].len)
           Done(s, k) == MergesUpTo(s, h, inPlace, X, R, L, M, k)
<1>1. PICK run : IsMergeRun(run, v1, v2, r)
  BY MergeRuns
<1>2. /\ run[0] = Start(v1, v2, r) /\ MergeLoop(v1, v2, r) = run[n]
      /\ \A k \in Nat : k + 1 <= n => run[k + 1] = MergeStep(run[k], k + 1, v1, v2, r)
  BY <1>1 DEF IsMergeRun
<1>3. /\ R \in Arrays /\ L \in Nat /\ X \in Arrays /\ h \in Heaps
      /\ M \in Seq(Names) /\ n \in Nat /\ n = Len(M) /\ inPlace \in BOOLEAN
      /\ inPlace => n <= Len(h[X]) /\ \A p \in 1..n : h[X][p] = M[p]
  <2>1. /\ R \in Arrays /\ L \in Nat /\ X \in Arrays
    BY VarFacts
  <2>2. M \in Seq(Names) /\ n \in Nat
    BY MergedFacts
  <2>3. h \in Heaps /\ Len(h[X]) = Len(heap[X])
    BY <2>1, MemoryFacts
  <2>4. inPlace => n <= Len(heap[X]) /\ \A p \in 1..n : h[X][p] = M[p]
    BY MemoryFacts
  <2>5. inPlace \in BOOLEAN
    BY DEF FitsBehind
  <2> QED BY <2>1, <2>2, <2>3, <2>4, <2>5
<1>4. ~(inPlace /\ X = R /\ L # 0)
  OBVIOUS
<1> DEFINE K == {k \in Nat : k <= n => In(run[k]) /\ Done(run[k], k)}
<1>5. 0 \in K
  <2>1. In(run[0])
    BY <1>2, StartWritesNothing
  <2>2. /\ run[0].heap = h /\ run[0].len = L /\ run[0].grown = <<>> /\ run[0].seen = {}
    BY <1>2 DEF Start
  <2> HIDE DEF h, R, L, X, inPlace, M, In
  <2>3. DOMAIN M = 1..n /\ News(M) \in SUBSET (1..n)
    BY <1>3 DEF News
  <2>4. Cardinality(UpTo(News(M), 0)) = 0
    <3> HIDE DEF n
    <3> QED BY <1>3, <2>3, UpToCounts
  <2>5. L = L + Cardinality(UpTo(News(M), 0))
    BY <1>3, <2>4
  <2>6. {KeyFunc[M[i]] : i \in 1..0} = {}
    OBVIOUS
  <2>7. \A i \in News(M) : ~(i <= 0)
    BY <1>3, <2>3
  <2>8. \A p \in 1..L : Result(run[0], R, p) = h[R][p]
    BY <2>2 DEF Result
  <2>9. Done(run[0], 0)
    BY <1>3, <2>2, <2>5, <2>6, <2>7, <2>8 DEF MergesUpTo
  <2> HIDE DEF Done, n
  <2> QED BY <2>1, <2>9
<1>6. ASSUME NEW k \in Nat, k \in K PROVE k + 1 \in K
  <2>1. ASSUME k + 1 <= n PROVE In(run[k + 1]) /\ Done(run[k + 1], k + 1)
    <3>1. k <= n /\ k + 1 \in 1..n
      BY <1>3, <2>1
    <3>2. In(run[k]) /\ Done(run[k], k)
      BY <1>6, <3>1
    <3>3. In(MergeStep(run[k], k + 1, v1, v2, r))
          /\ MergeStep(run[k], k + 1, v1, v2, r) = LoopStep(run[k], k + 1, inPlace, X, R, M)
      BY <3>1, <3>2, MergeStepWrites
    <3>4. run[k + 1] = LoopStep(run[k], k + 1, inPlace, X, R, M)
      BY <1>2, <2>1, <3>3
    <3>5. WritesBehind(run[k], h, R, L) /\ MergesUpTo(run[k], h, inPlace, X, R, L, M, k)
      BY <3>2
    <3> HIDE DEF h, R, L, X, inPlace, M
    <3>6. MergesUpTo(LoopStep(run[k], k + 1, inPlace, X, R, M), h, inPlace, X, R, L, M, k + 1)
      BY <1>3, <1>4, <2>1, <3>5, StepMerges
    <3> HIDE DEF In, n
    <3> QED BY <1>2, <2>1, <3>3, <3>4, <3>6
  <2> HIDE DEF In, Done, n
  <2> QED BY <2>1
<1> HIDE DEF K
<1>7. \A k \in Nat : k \in K
  BY <1>5, <1>6, Induction
<1>8. n \in K
  BY <1>3, <1>7
<1> HIDE DEF In, Done, n
<1>9. Done(run[n], n)
  BY <1>3, <1>8 DEF K
<1> QED BY <1>2, <1>9 DEF Done, n

\* What the caller sees of the loop, whether or not the result has outgrown
\* its array.
Merges(done, r) ==
    /\ SlicesFit'
    /\ var'[r].len = done.len /\ \A v \in Vars \ {r} : var'[v] = var[v]
    /\ \A v \in Vars : heap'[var[v].arr] = done.heap[var[v].arr]
    /\ \A p \in 1..done.len : heap'[var'[r].arr][p] = Result(done, var[r].arr, p)

LEMMA NewLengthFits ==
    ASSUME SlicesFit, NEW r \in Vars, NEW done, IsLoopState(done, heap, var[r].arr),
           done.grown = <<>>, heap' = done.heap, var' = [var EXCEPT ![r].len = done.len]
    PROVE  Merges(done, r)
<1> DEFINE R == var[r].arr
           n == done.len
<1>1. /\ var \in [Vars -> [arr : Arrays, len : Nat]] /\ heap \in Heaps
      /\ \A v \in Vars : var[v].arr \in Arrays /\ var[v].len <= Len(heap[var[v].arr])
  BY DEF SlicesFit
<1>2. /\ done.heap \in Heaps /\ n \in Nat
      /\ \A a \in Arrays : Len(done.heap[a]) = Len(heap[a])
      /\ n <= Len(heap[R])
  BY DEF IsLoopState
<1> DEFINE w == [var[r] EXCEPT !.len = n]
<1>3. var' = [var EXCEPT ![r] = w]
  OBVIOUS
<1>4. w \in [arr : Arrays, len : Nat] /\ w.arr = R /\ w.len = n
  BY <1>1, <1>2
<1> HIDE DEF w
<1>5. /\ var' \in [Vars -> [arr : Arrays, len : Nat]] /\ var'[r] = w
      /\ \A v \in Vars \ {r} : var'[v] = var[v]
  BY <1>1, <1>3, <1>4
<1>6. \A v \in Vars : var'[v].len <= Len(heap'[var'[v].arr])
  <2> TAKE v \in Vars
  <2>1. CASE v = r
    BY <1>1, <1>2, <1>4, <1>5, <2>1
  <2>2. CASE v # r
    <3>1. var'[v] = var[v] /\ var[v].arr \in Arrays
      BY <1>1, <1>5, <2>2
    <3>2. Len(heap'[var[v].arr]) = Len(heap[var[v].arr])
      BY <1>2, <3>1
    <3> QED BY <1>1, <3>1, <3>2
  <2> QED BY <2>1, <2>2
<1>7. SlicesFit'
  BY <1>2, <1>5, <1>6 DEF SlicesFit
<1>8. \A p : Result(done, R, p) = done.heap[R][p]
  BY DEF Result
<1>9. \A p : heap'[var'[r].arr][p] = Result(done, R, p)
  BY <1>4, <1>5, <1>8
<1> QED BY <1>4, <1>5, <1>7, <1>9 DEF Merges

LEMMA NewArrayFits ==
    ASSUME SlicesFit, NEW r \in Vars, NEW done, IsLoopState(done, heap, var[r].arr),
           done.grown # <<>>, NEW x \in Arrays, ~Used(x), NEW spare \in Nat,
           heap' = [done.heap EXCEPT ![x] =
                       done.grown \o [i \in 1..spare |-> EmptyString]],
           var' = [var EXCEPT ![r] = [arr |-> x, len |-> done.len]]
    PROVE  Merges(done, r)
<1> DEFINE n == done.len
           g == done.grown
           e == [i \in 1..spare |-> EmptyString]
           w == [arr |-> x, len |-> n]
<1>1. /\ var \in [Vars -> [arr : Arrays, len : Nat]]
      /\ \A v \in Vars : var[v].arr \in Arrays /\ var[v].len <= Len(heap[var[v].arr])
  BY DEF SlicesFit
<1>2. /\ done.heap \in [Arrays -> Seq(Names)] /\ n \in Nat /\ g \in Seq(Names)
      /\ \A a \in Arrays : Len(done.heap[a]) = Len(heap[a])
      /\ n = Len(g)
  BY DEF IsLoopState, Heaps
<1>3. \A v \in Vars : var[v].arr # x
  BY DEF Used
<1>4. e \in Seq(Names)
  <2>1. e \in [1..spare -> Names]
    BY DEF Names
  <2> QED BY <2>1
<1> HIDE DEF e
<1>5. /\ g \o e \in Seq(Names) /\ Len(g \o e) = Len(g) + Len(e)
      /\ Len(g) \in Nat /\ Len(e) \in Nat
      /\ \A p \in 1..Len(g) : (g \o e)[p] = g[p]
  <2>1. g \in Seq(Names)
    BY <1>2
  <2> HIDE DEF g
  <2> QED BY <1>4, <2>1, ConcatFacts
<1> DEFINE a == g \o e
<1>6. heap' = [done.heap EXCEPT ![x] = a] /\ var' = [var EXCEPT ![r] = w]
  BY DEF e
<1>7. a \in Seq(Names) /\ n <= Len(a) /\ \A p \in 1..n : a[p] = g[p]
  BY <1>2, <1>5
<1>8. w \in [arr : Arrays, len : Nat] /\ w.arr = x /\ w.len = n
  BY <1>2
<1> HIDE DEF a, w
<1>9. /\ heap' \in [Arrays -> Seq(Names)] /\ heap'[x] = a
      /\ \A b \in Arrays : b # x => heap'[b] = done.heap[b]
  BY <1>2, <1>6, <1>7
<1>10. /\ var' \in [Vars -> [arr : Arrays, len : Nat]] /\ var'[r] = w
       /\ \A v \in Vars \ {r} : var'[v] = var[v]
  BY <1>1, <1>6, <1>8
<1>11. \A v \in Vars : heap'[var[v].arr] = done.heap[var[v].arr]
  BY <1>1, <1>3, <1>9
<1>12. \A v \in Vars : var'[v].len <= Len(heap'[var'[v].arr])
  <2> TAKE v \in Vars
  <2>1. CASE v = r
    BY <1>7, <1>8, <1>9, <1>10, <2>1
  <2>2. CASE v # r
    <3>1. var'[v] = var[v] /\ var[v].arr \in Arrays
      BY <1>1, <1>10, <2>2
    <3>2. Len(heap'[var[v].arr]) = Len(heap[var[v].arr])
      BY <1>2, <1>11, <3>1
    <3> QED BY <1>1, <3>1, <3>2
  <2> QED BY <2>1, <2>2
<1>13. SlicesFit'
  BY <1>9, <1>10, <1>12 DEF SlicesFit, Heaps
<1>14. \A p : Result(done, var[r].arr, p) = g[p]
  BY DEF Result
<1>15. \A p \in 1..n : heap'[var'[r].arr][p] = Result(done, var[r].arr, p)
  BY <1>7, <1>8, <1>9, <1>10, <1>14
<1> QED BY <1>8, <1>10, <1>11, <1>13, <1>15 DEF Merges

LEMMA MergeDoes ==
    ASSUME SlicesFit, NEW v1 \in Vars, NEW v2 \in Vars, NEW r \in Vars,
           UniqueAndMerge(v1, v2, r)
    PROVE  Merges(MergeLoop(v1, v2, r), r)
<1> DEFINE done == MergeLoop(v1, v2, r)
           h    == Memory(v1, v2)
<1>1. IsLoopState(done, h, var[r].arr)
  BY LoopWritesBehind DEF WritesBehind
<1>2. \A a \in Arrays : Len(h[a]) = Len(heap[a])
  BY MemoryFacts
<1>3. var[r].arr \in Arrays
  BY VarFacts
<1> HIDE DEF done, h
<1>4. IsLoopState(done, heap, var[r].arr)
  BY <1>1, <1>2, <1>3 DEF IsLoopState
<1>5. IF done.grown = <<>>
      THEN heap' = done.heap /\ var' = [var EXCEPT ![r].len = done.len]
      ELSE \E x \in Arrays \ {Nil}, spare \in Spares :
              /\ ~Used(x)
              /\ heap' = [done.heap EXCEPT ![x] =
                             done.grown \o [i \in 1..spare |-> EmptyString]]
              /\ var' = [var EXCEPT ![r] = [arr |-> x, len |-> done.len]]
  BY DEF UniqueAndMerge, done
<1>6. CASE done.grown = <<>>
  BY <1>4, <1>5, <1>6, NewLengthFits DEF done
<1>7. CASE done.grown # <<>>
  <2>1. PICK x \in Arrays \ {Nil}, spare \in Spares :
              /\ ~Used(x)
              /\ heap' = [done.heap EXCEPT ![x] =
                             done.grown \o [i \in 1..spare |-> EmptyString]]
              /\ var' = [var EXCEPT ![r] = [arr |-> x, len |-> done.len]]
    BY <1>5, <1>7
  <2>2. spare \in Nat
    BY HelpersAssumption
  <2> QED BY <1>4, <1>7, <2>1, <2>2, NewArrayFits DEF done
<1> QED BY <1>6, <1>7

-----------------------------------------------------------------------------
(* What the merging has done to the caller's slices.                       *)

\* A sequence that begins as another does is that one and its rest.
LEMMA SplitFacts ==
    ASSUME NEW V, NEW s \in Seq(V), NEW u \in Seq(V), NEW c \in Nat, Len(s) = Len(u) + c,
           \A p \in 1..Len(u) : s[p] = u[p]
    PROVE  s = u \o [k \in 1..c |-> s[Len(u) + k]]
<1> DEFINE t == [k \in 1..c |-> s[Len(u) + k]]
<1>1. Len(u) \in Nat /\ \A k \in 1..c : Len(u) + k \in 1..Len(s)
  OBVIOUS
<1>2. t \in [1..c -> V]
  BY <1>1
<1>3. t \in Seq(V) /\ Len(t) = c /\ \A k \in 1..c : t[k] = s[Len(u) + k]
  BY <1>2
<1> HIDE DEF t
<1>4. /\ u \o t \in Seq(V) /\ Len(u \o t) = Len(s)
      /\ \A p \in 1..Len(u) : (u \o t)[p] = u[p]
      /\ \A p \in 1..Len(t) : (u \o t)[Len(u) + p] = t[p]
  <2>1. /\ u \o t \in Seq(V) /\ Len(u \o t) = Len(u) + Len(t)
        /\ \A p \in 1..Len(u) : (u \o t)[p] = u[p]
        /\ \A p \in 1..Len(t) : (u \o t)[Len(u) + p] = t[p]
    <3>1. t \in Seq(V)
      BY <1>3
    <3> QED BY <3>1, ConcatFacts
  <2> QED BY <1>3, <2>1
<1> DEFINE w == u \o t
<1> HIDE DEF w
<1>5. ASSUME NEW p \in 1..Len(s) PROVE w[p] = s[p]
  <2>1. CASE p <= Len(u)
    <3>1. p \in 1..Len(u)
      BY <1>1, <2>1
    <3> QED BY <1>4, <3>1 DEF w
  <2>2. CASE ~(p <= Len(u))
    <3>1. p - Len(u) \in 1..c /\ Len(u) + (p - Len(u)) = p
      BY <1>1, <2>2
    <3>2. w[Len(u) + (p - Len(u))] = t[p - Len(u)]
      BY <1>3, <1>4, <3>1 DEF w
    <3> QED BY <1>3, <3>1, <3>2
  <2> QED BY <2>1, <2>2
<1>6. w \in Seq(V) /\ Len(w) = Len(s)
  BY <1>4 DEF w
<1>7. w = s
  BY <1>5, <1>6
<1> QED BY <1>7 DEF w, t

LEMMA NamesAreNats == Names \subseteq Nat
BY HelpersAssumption DEF Names, EmptyString

LEMMA FitsNext ==
    ASSUME SlicesFit', NEW v \in Vars
    PROVE  /\ Content(v)' \in Seq(Names) /\ Len(Content(v)') = var'[v].len
           /\ var'[v].len \in Nat /\ DOMAIN Content(v)' = 1..var'[v].len
           /\ \A p \in 1..var'[v].len : Content(v)'[p] = heap'[var'[v].arr][p]
<1> DEFINE a == heap'[var'[v].arr]
           n == var'[v].len
<1>1. var'[v].arr \in Arrays /\ n \in Nat /\ n <= Len(a)
  BY DEF SlicesFit
<1>2. a \in Seq(Names)
  BY <1>1 DEF SlicesFit, Heaps
<1>3. Content(v)' = SubSeq(a, 1, n)
  BY DEF Content
<1> HIDE DEF a, n
<1>4. n \in 0..Len(a)
  BY <1>1, <1>2
<1>5. /\ SubSeq(a, 1, n) \in Seq(Names) /\ Len(SubSeq(a, 1, n)) = n
      /\ DOMAIN SubSeq(a, 1, n) = 1..n
      /\ \A p \in 1..n : SubSeq(a, 1, n)[p] = a[p]
  BY <1>2, <1>4, PrefixFacts
<1> QED BY <1>1, <1>3, <1>5 DEF a, n

\* Two slices with the same elements are the same.
LEMMA SameContent ==
    ASSUME NEW V, NEW s \in Seq(V), NEW t \in Seq(V), Len(s) = Len(t),
           \A p \in 1..Len(s) : s[p] = t[p]
    PROVE  s = t
OBVIOUS

\* The result gets the elements that have not been before.
LEMMA NewsFollow ==
    ASSUME SlicesFit, NEW v1 \in Vars, NEW v2 \in Vars, NEW r \in Vars,
           NEW done, Merges(done, r),
           ~(FitsBehind(v1, v2) /\ var[v1].arr = var[r].arr /\ var[r].len # 0),
           MergesUpTo(done, Memory(v1, v2), FitsBehind(v1, v2), var[v1].arr,
                      var[r].arr, var[r].len, Merged(v1, v2), Len(Merged(v1, v2)))
    PROVE  Content(r)' = Content(r) \o WithoutRepetitions(Content(v1) \o Content(v2))
<1> DEFINE h == Memory(v1, v2)
           R == var[r].arr
           L == var[r].len
           M == Merged(v1, v2)
           n == Len(M)
           c == Cardinality(News(M))
           s == Content(r)'
           u == Content(r)
           At(i) == Cardinality(UpTo(News(M), i))
<1>1. /\ R \in Arrays /\ L \in Nat /\ heap[R] \in Seq(Names) /\ L \in 0..Len(heap[R])
      /\ u \in Seq(Names) /\ Len(u) = L
      /\ \A p \in 1..L : u[p] = heap[R][p]
  BY VarFacts
<1>2. M \in Seq(Names) /\ n \in Nat
  BY MergedFacts
<1>3. \A p \in 1..L : h[R][p] = heap[R][p]
  <2>1. CASE R # var[v1].arr
    <3>1. h[R] = heap[R]
      BY <1>1, <2>1, MemoryFacts
    <3> QED BY <3>1
  <2>2. CASE ~FitsBehind(v1, v2)
    <3>1. h = heap
      BY <2>2, MemoryFacts
    <3> QED BY <3>1
  <2>3. CASE L = 0
    BY <2>3
  <2> QED BY <2>1, <2>2, <2>3
<1>4. SlicesFit' /\ var'[r].len = done.len
      /\ \A p \in 1..done.len : heap'[var'[r].arr][p] = Result(done, R, p)
  BY DEF Merges
<1>5. /\ done.len = L + At(n)
      /\ \A p \in 1..L : Result(done, R, p) = h[R][p]
      /\ \A i \in News(M) : i <= n => Result(done, R, L + At(i)) = M[i]
  BY DEF MergesUpTo
<1>6. /\ s \in Seq(Names) /\ Len(s) = done.len
      /\ \A p \in 1..done.len : s[p] = Result(done, R, p)
  <2>1. /\ s \in Seq(Names) /\ Len(s) = var'[r].len
        /\ \A p \in 1..var'[r].len : s[p] = heap'[var'[r].arr][p]
    BY <1>4, FitsNext
  <2> HIDE DEF s
  <2> QED BY <1>4, <2>1
<1>7. DOMAIN M = 1..n /\ News(M) \in SUBSET (1..n)
  BY <1>2 DEF News
<1>8. /\ At(n) = c /\ c \in Nat
      /\ \A i \in News(M) : i \in Nat /\ i <= n /\ At(i) \in Nat /\ At(i) >= 1 /\ At(i) <= c
  <2> HIDE DEF M, n
  <2>1. UpTo(News(M), n) = News(M) /\ Cardinality(UpTo(News(M), n)) \in 0..n
    BY <1>2, <1>7, UpToCounts
  <2>2. At(n) = c /\ c \in Nat
    BY <1>2, <2>1
  <2>3. ASSUME NEW i \in News(M)
        PROVE  i \in Nat /\ i <= n /\ At(i) \in Nat /\ At(i) >= 1 /\ At(i) <= c
    <3>1. i \in Nat /\ i <= n
      BY <1>2, <1>7
    <3>2. /\ Cardinality(UpTo(News(M), i)) \in 0..i
          /\ Cardinality(UpTo(News(M), i)) >= 1
      BY <1>2, <1>7, <3>1, UpToCounts
    <3>3. Cardinality(UpTo(News(M), i)) <= Cardinality(UpTo(News(M), n))
      BY <1>2, <1>7, <3>1, UpToCounts
    <3> HIDE DEF c
    <3> QED BY <2>2, <3>1, <3>2, <3>3
  <2> QED BY <2>2, <2>3
<1> HIDE DEF h, R, L, n, s, u
<1> DEFINE t == [k \in 1..c |-> s[L + k]]
<1>9. s = u \o t
  <2>1. \A p \in 1..L : p \in 1..done.len
    <3> HIDE DEF c, At
    <3> QED BY <1>1, <1>5, <1>8
  <2>2. \A p \in 1..Len(u) : s[p] = u[p]
    BY <1>1, <1>3, <1>5, <1>6, <2>1
  <2>3. Len(s) = Len(u) + c
    BY <1>1, <1>5, <1>6, <1>8
  <2>4. c \in Nat /\ s \in Seq(Names) /\ u \in Seq(Names) /\ Len(u) = L
    BY <1>1, <1>6, <1>8
  <2> HIDE DEF c, t
  <2>5. s = u \o [k \in 1..c |-> s[Len(u) + k]]
    BY <2>2, <2>3, <2>4, SplitFacts
  <2> QED BY <2>4, <2>5 DEF t
<1>10. ASSUME NEW i \in News(M) PROVE t[At(i)] = M[i]
  <2>1. At(i) \in 1..c /\ L + At(i) \in 1..done.len
    <3> HIDE DEF c, At
    <3> QED BY <1>1, <1>5, <1>8
  <2>2. s[L + At(i)] = M[i]
    BY <1>5, <1>6, <1>8, <2>1
  <2> HIDE DEF At, c
  <2> QED BY <2>1, <2>2
<1>11. t \in [1..c -> Names]
  <2> HIDE DEF c, At
  <2>1. \A k \in 1..c : L + k \in 1..Len(s)
    BY <1>1, <1>5, <1>6, <1>8
  <2> QED BY <1>6, <2>1
<1> HIDE DEF t
<1>12. t = ElementsAt(M, News(M))
  <2> HIDE DEF M
  <2>1. \A i \in News(M) : t[Cardinality(UpTo(News(M), i))] = M[i]
    BY <1>10
  <2>2. t \in [1..Cardinality(News(M)) -> Names]
    BY <1>11
  <2>3. n \in Nat /\ News(M) \in SUBSET (1..n)
    BY <1>2, <1>7
  <2> HIDE DEF At, c
  <2> QED BY <2>1, <2>2, <2>3, ElementsAtFacts
<1>13. WithoutRepetitions(M) = ElementsAt(M, News(M))
  BY DEF WithoutRepetitions, News
<1> QED BY <1>9, <1>12, <1>13 DEF s, u, Merged

\* The other slices keep their elements, but those that read on where the
\* first slice or the result end.
LEMMA OthersStay ==
    ASSUME SlicesFit, NEW v1 \in Vars, NEW v2 \in Vars, NEW r \in Vars,
           NEW done, Merges(done, r),
           WritesBehind(done, Memory(v1, v2), var[r].arr, var[r].len),
           NEW v \in Vars \ {r},
           ~(var[v].arr = var[v1].arr /\ var[v].len > var[v1].len),
           ~(var[v].arr = var[r].arr /\ var[v].len > var[r].len)
    PROVE  Content(v)' = Content(v)
<1> DEFINE a == var[v].arr
           n == var[v].len
           h == Memory(v1, v2)
<1>1. /\ a \in Arrays /\ n \in Nat /\ n \in 0..Len(heap[a]) /\ heap[a] \in Seq(Names)
      /\ Content(v) \in Seq(Names) /\ Len(Content(v)) = n
      /\ \A p \in 1..n : Content(v)[p] = heap[a][p]
  BY VarFacts
<1>2. var[r].len \in Nat /\ var[v1].len \in Nat
  BY VarFacts
<1>3. SlicesFit' /\ var'[v] = var[v] /\ heap'[a] = done.heap[a]
  BY DEF Merges
<1>4. /\ Content(v)' \in Seq(Names) /\ Len(Content(v)') = n
      /\ \A p \in 1..n : Content(v)'[p] = heap'[a][p]
  <2>1. /\ Content(v)' \in Seq(Names) /\ Len(Content(v)') = var'[v].len
        /\ \A p \in 1..var'[v].len : Content(v)'[p] = heap'[var'[v].arr][p]
    BY <1>3, FitsNext
  <2> DEFINE s == Content(v)'
  <2>2. /\ s \in Seq(Names) /\ Len(s) = var'[v].len
        /\ \A p \in 1..var'[v].len : s[p] = heap'[var'[v].arr][p]
    BY <2>1
  <2> HIDE DEF s
  <2>3. /\ s \in Seq(Names) /\ Len(s) = n
        /\ \A p \in 1..n : s[p] = heap'[a][p]
    BY <1>3, <2>2
  <2> QED BY <2>3 DEF s
<1>5. Len(h[a]) = Len(heap[a])
  BY <1>1, MemoryFacts
<1>6. ASSUME NEW p \in 1..n PROVE heap'[a][p] = heap[a][p]
  <2>1. p \in 1..Len(h[a]) /\ p <= n /\ p \in Nat
    BY <1>1, <1>5
  <2>2. ~(a = var[r].arr /\ p > var[r].len)
    BY <1>1, <1>2, <2>1
  <2>3. done.heap[a][p] = h[a][p]
    BY <1>1, <2>1, <2>2 DEF WritesBehind
  <2>4. h[a][p] = heap[a][p]
    <3>1. CASE a = var[v1].arr
      <4>1. p \in 1..var[v1].len
        BY <1>1, <1>2, <2>1, <3>1
      <4>2. h[var[v1].arr][p] = heap[var[v1].arr][p]
        BY <4>1, MemoryFacts
      <4> QED BY <3>1, <4>2
    <3>2. CASE a # var[v1].arr
      <4>1. h[a] = heap[a]
        BY <1>1, <3>2, MemoryFacts
      <4> QED BY <4>1
    <3> QED BY <3>1, <3>2
  <2> QED BY <1>3, <2>3, <2>4
<1> DEFINE s == Content(v)'
           t == Content(v)
<1>7. /\ s \in Seq(Names) /\ t \in Seq(Names) /\ Len(s) = Len(t)
      /\ \A p \in 1..Len(s) : s[p] = t[p]
  BY <1>1, <1>4, <1>6
<1> HIDE DEF s, t
<1>8. s = t
  BY <1>7, SameContent
<1> QED BY <1>8 DEF s, t

\* The promise of MergeIsRight for one call.
MergedRight(v1, v2, r) ==
    LET shared(v, w) == var[v].arr = var[w].arr
    IN  /\ \/ Content(r)' = Content(r) \o WithoutRepetitions(Content(v1) \o Content(v2))
           \/ shared(r, v1) /\ Content(r) # <<>> /\ FitsBehind(v1, v2)
        /\ \A v \in Vars \ {r} :
              \/ Content(v)' = Content(v)
              \/ shared(v, v1) /\ var[v].len > var[v1].len
              \/ shared(v, r) /\ var[v].len > var[r].len

LEMMA MergesRight ==
    ASSUME SlicesFit, NEW v1 \in Vars, NEW v2 \in Vars, NEW r \in Vars,
           UniqueAndMerge(v1, v2, r)
    PROVE  SlicesFit' /\ MergedRight(v1, v2, r)
<1> DEFINE done == MergeLoop(v1, v2, r)
<1>1. Merges(done, r) /\ WritesBehind(done, Memory(v1, v2), var[r].arr, var[r].len)
  BY MergeDoes, LoopWritesBehind
<1>2. ASSUME ~(FitsBehind(v1, v2) /\ var[v1].arr = var[r].arr /\ var[r].len # 0)
      PROVE  Content(r)' = Content(r) \o WithoutRepetitions(Content(v1) \o Content(v2))
  <2>1. MergesUpTo(done, Memory(v1, v2), FitsBehind(v1, v2), var[v1].arr,
                   var[r].arr, var[r].len, Merged(v1, v2), Len(Merged(v1, v2)))
    BY <1>2, LoopMerges
  <2> HIDE DEF done
  <2> QED BY <1>1, <1>2, <2>1, NewsFollow
<1>3. ASSUME NEW v \in Vars \ {r},
             ~(var[v].arr = var[v1].arr /\ var[v].len > var[v1].len),
             ~(var[v].arr = var[r].arr /\ var[v].len > var[r].len)
      PROVE  Content(v)' = Content(v)
  <2> HIDE DEF done
  <2> QED BY <1>1, <1>3, OthersStay
<1>4. var[r].len # 0 => Content(r) # <<>>
  <2>1. Content(r) \in Seq(Names) /\ Len(Content(r)) = var[r].len
    BY VarFacts
  <2> QED BY <2>1
<1>5. SlicesFit'
  BY <1>1 DEF Merges
<1> HIDE DEF done
<1> QED BY <1>2, <1>3, <1>4, <1>5 DEF MergedRight

-----------------------------------------------------------------------------
(* What searching and deleting do to the caller's slices.                  *)

\* Nothing but the slice's part of its array is written.
WritesIn(v) ==
    \A x \in Arrays : \A i \in DOMAIN heap[x] :
        (x = var[v].arr /\ i <= var[v].len) \/ heap'[x][i] = heap[x][i]

LEMMA SliceWritten ==
    ASSUME SlicesFit, NEW v \in Vars, NEW t \in Seq(Names), Len(t) = Len(heap[var[v].arr]),
           \A k \in 1..Len(t) : k > var[v].len => t[k] = heap[var[v].arr][k],
           heap' = [heap EXCEPT ![var[v].arr] = t]
    PROVE  /\ WritesIn(v) /\ heap' \in Heaps
           /\ \A x \in Arrays : Len(heap'[x]) = Len(heap[x])
           /\ heap'[var[v].arr] = t
<1> DEFINE a == var[v].arr
           n == var[v].len
<1>1. a \in Arrays /\ n \in Nat /\ heap[a] \in Seq(Names)
  BY VarFacts
<1>2. heap \in [Arrays -> Seq(Names)]
  BY DEF SlicesFit, Heaps
<1> HIDE DEF a, n
<1>3. /\ heap' \in [Arrays -> Seq(Names)] /\ heap'[a] = t
      /\ \A x \in Arrays : x # a => heap'[x] = heap[x]
  BY <1>1, <1>2 DEF a
<1>4. Len(t) = Len(heap[a]) /\ \A k \in 1..Len(t) : k > n => t[k] = heap[a][k]
  BY DEF a, n
<1>5. ASSUME NEW x \in Arrays, NEW i \in DOMAIN heap[x]
      PROVE  (x = a /\ i <= n) \/ heap'[x][i] = heap[x][i]
  <2>1. CASE x # a
    BY <1>3, <2>1
  <2>2. CASE x = a
    <3>1. i \in 1..Len(t) /\ i \in Nat
      BY <1>1, <1>4, <2>2
    <3>2. i > n => t[i] = heap[a][i]
      BY <1>4, <3>1
    <3> QED BY <1>1, <1>3, <2>2, <3>1, <3>2
  <2> QED BY <2>1, <2>2
<1>6. \A x \in Arrays : Len(heap'[x]) = Len(heap[x])
  BY <1>3, <1>4
<1> QED BY <1>3, <1>5, <1>6 DEF WritesIn, Heaps, a, n

\* InSlice and GenerateSignString sort the slice they search in.
LEMMA SortsInPlace ==
    ASSUME SlicesFit, NEW v \in Vars, NEW t, t = SortedTo(heap[var[v].arr], var[v].len),
           heap' = [heap EXCEPT ![var[v].arr] = t], UNCHANGED var
    PROVE  /\ SlicesFit' /\ WritesIn(v)
           /\ \A e \in Names : Count(Content(v)', e) = Count(Content(v), e)
           /\ \A x \in Values : Finds(t, var[v].len, x) <=> Count(Content(v), x) > 0
<1> DEFINE a == heap[var[v].arr]
           n == var[v].len
           m == Len(a)
<1>1. a \in Seq(Names) /\ n \in 0..m /\ n \in Nat
  BY VarFacts
<1>2. Content(v) = SubSeq(a, 1, n)
  BY DEF Content
<1>3. t = SortedTo(a, n)
  OBVIOUS
<1> HIDE DEF a, n
<1>4. /\ DOMAIN a = 1..m /\ m \in Nat /\ a \in Seq(Nat)
      /\ \A i \in 1..m : a[i] \in Names /\ a[i] \in Nat
  <2>1. DOMAIN a = 1..m /\ m \in Nat /\ \A i \in 1..m : a[i] \in Names
    BY <1>1
  <2>2. \A i \in 1..m : a[i] \in Nat
    BY <2>1, NamesAreNats
  <2>3. a \in [1..m -> Nat]
    BY <1>1, <2>2
  <2> HIDE DEF m
  <2>4. a \in Seq(Nat)
    BY <2>1, <2>3
  <2> QED BY <2>1, <2>2, <2>4
<1>5. /\ DOMAIN SortedTo(a, n) = 1..m
      /\ SortedTo(a, n) = [k \in 1..m |-> SortedTo(a, n)[k]]
      /\ \A k \in 1..m : k > n => SortedTo(a, n)[k] = a[k]
      /\ IsSortOf(SortedTo(a, n), a, n)
  <2>1. \A i \in 1..m : a[i] \in Nat
    BY <1>4
  <2>2. DOMAIN a = 1..m /\ m \in Nat /\ n \in 0..m
    BY <1>1, <1>4
  <2> HIDE DEF m
  <2> QED BY <2>1, <2>2, SortedToSorts
<1>6. /\ t = [k \in 1..m |-> t[k]]
      /\ \A k \in 1..m : k > n => t[k] = a[k]
      /\ IsSortOf(t, a, n)
  <2> DEFINE u == SortedTo(a, n)
  <2>1. t = u
    BY <1>3
  <2>2. /\ u = [k \in 1..m |-> u[k]]
        /\ \A k \in 1..m : k > n => u[k] = a[k]
        /\ IsSortOf(u, a, n)
    BY <1>5
  <2> HIDE DEF u
  <2> QED BY <2>1, <2>2
<1>7. PICK to \in [1..n -> 1..n] :
         /\ \A k \in 1..n : \E i \in 1..n : to[i] = k
         /\ \A i \in 1..n : t[to[i]] = a[i]
  BY <1>6 DEF IsSortOf
<1>8. \A i, k \in 1..n : i <= k => t[i] <= t[k]
  BY <1>6 DEF IsSortOf
<1>9. ASSUME NEW k \in 1..m PROVE t[k] \in Names
  <2>1. CASE k > n
    BY <1>4, <1>6, <2>1
  <2>2. CASE ~(k > n)
    <3>1. k \in 1..n
      BY <1>1, <1>4, <2>2
    <3>2. PICK i \in 1..n : to[i] = k
      BY <1>7, <3>1
    <3>3. i \in 1..m
      BY <1>1, <1>4
    <3> QED BY <1>4, <1>7, <3>2, <3>3
  <2> QED BY <2>1, <2>2
<1>10. t \in [1..m -> Names]
  BY <1>6, <1>9
<1>11. t \in Seq(Names) /\ t \in Seq(Nat) /\ Len(t) = m
  <2> HIDE DEF m
  <2>1. t \in [1..m -> Nat]
    BY <1>10, NamesAreNats
  <2> QED BY <1>4, <1>10, <2>1
<1>12. /\ WritesIn(v) /\ heap' \in Heaps
       /\ \A x \in Arrays : Len(heap'[x]) = Len(heap[x])
       /\ heap'[var[v].arr] = t
  <2>1. t \in Seq(Names) /\ Len(t) = Len(heap[var[v].arr])
    BY <1>11 DEF a
  <2>2. \A k \in 1..Len(t) : k > var[v].len => t[k] = heap[var[v].arr][k]
    BY <1>6, <1>11 DEF a, n
  <2>3. heap' = [heap EXCEPT ![var[v].arr] = t]
    OBVIOUS
  <2> QED BY <2>1, <2>2, <2>3, SliceWritten
<1>13. SlicesFit'
  <2>1. /\ var \in [Vars -> [arr : Arrays, len : Nat]]
        /\ \A w \in Vars : var[w].arr \in Arrays /\ var[w].len <= Len(heap[var[w].arr])
    BY DEF SlicesFit
  <2>2. \A w \in Vars : var'[w].len <= Len(heap'[var'[w].arr])
    BY <1>12, <2>1
  <2>3. var' \in [Vars -> [arr : Arrays, len : Nat]]
    BY <2>1
  <2> QED BY <1>12, <2>2, <2>3 DEF SlicesFit
<1>14. Content(v)' = SubSeq(t, 1, n)
  BY <1>12 DEF Content, n
<1>15. \A e : Count(SubSeq(t, 1, n), e) = Count(SubSeq(a, 1, n), e)
  <2>1. /\ a \in Seq(Names) /\ t \in Seq(Names) /\ Len(t) = Len(a)
        /\ n \in 0..Len(a) /\ IsSortOf(t, a, n)
    BY <1>1, <1>6, <1>11
  <2> TAKE e
  <2> QED BY <2>1, SortKeepsCount
<1>16. ASSUME NEW x \in Values PROVE Finds(t, n, x) <=> Count(SubSeq(t, 1, n), x) > 0
  <2>1. x \in Nat
    BY NamesAreNats DEF Names
  <2>2. \A i \in 1..n : t[i] \in Nat
    <3>1. \A i \in 1..n : i \in 1..m
      BY <1>1, <1>4
    <3> QED BY <1>9, <3>1, NamesAreNats
  <2>3. Finds(t, n, x) <=> \E i \in 1..n : t[i] = x
    BY ZenonT(40), <1>1, <1>8, <2>1, <2>2, SearchFinds
  <2>4. t \in Seq(Names) /\ n \in 0..Len(t)
    BY <1>1, <1>11
  <2>5. Count(SubSeq(t, 1, n), x) > 0 <=> \E i \in 1..n : t[i] = x
    BY SMTT(30), <2>4, CountFacts
  <2> QED BY <2>3, <2>5
<1>17. \A e : Count(Content(v)', e) = Count(Content(v), e)
  BY <1>2, <1>14, <1>15
<1>18. ASSUME NEW x \in Values PROVE Finds(t, n, x) <=> Count(Content(v), x) > 0
  BY <1>2, <1>15, <1>16
<1> QED BY <1>12, <1>13, <1>17, <1>18 DEF n

\* What is left of the slice is in front, and the result is as long.
LEMMA DeletesInPlace ==
    ASSUME SlicesFit, NEW v \in Vars, NEW w \in Vars, NEW x, DelInSlice(v, x, w)
    PROVE  SlicesFit' /\ WritesIn(v) /\ Content(w)' = Without(Content(v), x)
<1> DEFINE a == heap[var[v].arr]
           n == var[v].len
           m == Len(a)
           done == Compact(a, n, x)
           t == done.array
           c == done.slow
           kept == {i \in 1..n : a[i] # x}
           At(i) == Cardinality(UpTo(kept, i))
<1>1. /\ var[v].arr \in Arrays /\ a \in Seq(Names) /\ n \in 0..m /\ n \in Nat
      /\ Content(v) \in Seq(Names) /\ Len(Content(v)) = n
      /\ \A p \in 1..n : Content(v)[p] = a[p]
  BY VarFacts
<1>2. /\ heap' = [heap EXCEPT ![var[v].arr] = t]
      /\ var' = [var EXCEPT ![w] = [arr |-> var[v].arr, len |-> c]]
  BY DEF DelInSlice
<1> HIDE DEF a, n
<1>3. m \in Nat /\ a \in [1..m -> Names]
  BY <1>1
<1>4. kept \in SUBSET (1..n) /\ \A i \in 1..n : i \in kept <=> a[i] # x
  OBVIOUS
<1> HIDE DEF m, kept
<1>5. IsCompacted(done, a, m, Names, kept, n)
  BY <1>1, <1>3, <1>4, CompactCompacts
<1>6. /\ t \in [1..m -> Names] /\ c = At(n)
      /\ \A j \in 1..m : j > n => t[j] = a[j]
      /\ \A i \in kept : i <= n => t[At(i)] = a[i]
  BY <1>5 DEF IsCompacted
<1>7. /\ c \in 0..n /\ c = Cardinality(kept)
      /\ \A i \in kept : At(i) \in 1..c /\ i \in 1..n
  <2>1. Cardinality(UpTo(kept, n)) \in 0..n /\ UpTo(kept, n) = kept
    BY <1>1, <1>4, UpToCounts
  <2>2. c \in 0..n /\ c = Cardinality(kept)
    <3> HIDE DEF c
    <3> QED BY <1>6, <2>1
  <2>3. ASSUME NEW i \in kept PROVE At(i) \in 1..c /\ i \in 1..n
    <3>1. i \in Nat /\ i <= n /\ i \in 1..n
      BY <1>1, <1>4
    <3>2. Cardinality(UpTo(kept, i)) \in 0..i /\ Cardinality(UpTo(kept, i)) >= 1
      BY <1>1, <1>4, <3>1, UpToCounts
    <3>3. Cardinality(UpTo(kept, i)) <= Cardinality(UpTo(kept, n))
      BY <1>1, <1>4, <3>1, UpToCounts
    <3> HIDE DEF c
    <3> QED BY <1>6, <2>2, <3>1, <3>2, <3>3
  <2> QED BY <2>2, <2>3
<1> HIDE DEF t, c, done, At
<1>8. t \in Seq(Names) /\ Len(t) = m
  BY <1>3, <1>6
<1>9. \A k \in 1..Len(t) : k > n => t[k] = a[k]
  BY <1>6, <1>8
<1>10. /\ WritesIn(v) /\ heap' \in Heaps
       /\ \A y \in Arrays : Len(heap'[y]) = Len(heap[y])
       /\ heap'[var[v].arr] = t
  BY <1>2, <1>8, <1>9, SliceWritten DEF a, n, m
<1> DEFINE q == [arr |-> var[v].arr, len |-> c]
<1>11. q \in [arr : Arrays, len : Nat] /\ q.arr = var[v].arr /\ q.len = c
  <2>1. c \in Nat
    BY <1>1, <1>7
  <2> QED BY <1>1, <2>1
<1>12. var' = [var EXCEPT ![w] = q]
  BY <1>2
<1> HIDE DEF q
<1>13. /\ var \in [Vars -> [arr : Arrays, len : Nat]]
       /\ \A y \in Vars : var[y].arr \in Arrays /\ var[y].len <= Len(heap[var[y].arr])
  BY DEF SlicesFit
<1>14. /\ var' \in [Vars -> [arr : Arrays, len : Nat]] /\ var'[w] = q
       /\ \A y \in Vars \ {w} : var'[y] = var[y]
  BY <1>11, <1>12, <1>13
<1>15. ASSUME NEW y \in Vars PROVE var'[y].len <= Len(heap'[var'[y].arr])
  <2>1. CASE y = w
    <3>1. c <= Len(t)
      BY <1>1, <1>3, <1>7, <1>8
    <3> QED BY <1>10, <1>11, <1>14, <2>1, <3>1
  <2>2. CASE y # w
    <3>1. var'[y] = var[y]
      BY <1>14, <2>2
    <3> QED BY <1>10, <1>13, <3>1
  <2> QED BY <2>1, <2>2
<1>16. SlicesFit'
  BY <1>10, <1>14, <1>15 DEF SlicesFit
<1> DEFINE s == Content(w)'
<1>17. s = SubSeq(t, 1, c)
  BY <1>10, <1>11, <1>14 DEF Content
<1> HIDE DEF s
<1>18. s \in [1..c -> Names] /\ \A k \in 1..c : s[k] = t[k]
  <2>1. c \in 0..Len(t)
    BY <1>1, <1>3, <1>7, <1>8
  <2>2. /\ SubSeq(t, 1, c) = [k \in 1..c |-> t[k]]
        /\ \A k \in 1..c : SubSeq(t, 1, c)[k] = t[k] /\ t[k] \in Names
    BY <1>8, <2>1, PrefixFacts
  <2> QED BY <1>17, <2>2
<1>19. ASSUME NEW i \in kept PROVE s[At(i)] = Content(v)[i]
  <2>1. At(i) \in 1..c /\ i \in 1..n /\ i <= n
    BY <1>1, <1>7
  <2>2. t[At(i)] = a[i]
    BY <1>6, <2>1
  <2> QED BY <1>1, <1>18, <2>1, <2>2
<1>20. s = ElementsAt(Content(v), kept)
  <2>1. \A i \in kept : s[Cardinality(UpTo(kept, i))] = Content(v)[i]
    BY <1>19 DEF At
  <2>2. s \in [1..Cardinality(kept) -> Names]
    BY <1>7, <1>18
  <2>3. n \in Nat /\ kept \in SUBSET (1..n)
    BY <1>1, <1>4
  <2> QED BY <2>1, <2>2, <2>3, ElementsAtFacts
<1>21. {i \in DOMAIN Content(v) : Content(v)[i] # x} = kept
  <2>1. DOMAIN Content(v) = 1..n
    BY <1>1
  <2> QED BY <1>1, <2>1 DEF kept
<1> QED BY <1>10, <1>16, <1>20, <1>21 DEF Without, s

-----------------------------------------------------------------------------
(* What each call promises.                                                *)

\* The promise of InPlaceHelpersAreRight for the slice v.
InPlaceRight(v) ==
    /\ WritesIn(v)
    /\ last'.op = "del" => \E w \in Vars :
          /\ last'.result = w
          /\ Content(w)' = Without(Content(v), last'.value)
    /\ last'.op # "del" => \A e \in Names : Count(Content(v)', e) = Count(Content(v), e)
    /\ last'.op = "in" => (last'.found <=> Count(Content(v), last'.value) > 0)

LEMMA InSliceRight ==
    ASSUME SlicesFit, NEW v \in Vars, NEW x \in Values, InSlice(v, x)
    PROVE  SlicesFit' /\ last'.slice = v /\ last'.op = "in" /\ InPlaceRight(v)
<1> DEFINE t == SortedTo(heap[var[v].arr], var[v].len)
           found == Finds(t, var[v].len, x)
<1>1. /\ last' = [op |-> "in", slice |-> v, value |-> x, found |-> found]
      /\ heap' = [heap EXCEPT ![var[v].arr] = t] /\ UNCHANGED var
  BY DEF InSlice, Called
<1> HIDE DEF t, found
<1>2. /\ SlicesFit' /\ WritesIn(v)
      /\ \A e \in Names : Count(Content(v)', e) = Count(Content(v), e)
      /\ \A y \in Values : Finds(t, var[v].len, y) <=> Count(Content(v), y) > 0
  <2>1. t = SortedTo(heap[var[v].arr], var[v].len)
    BY DEF t
  <2> QED BY <1>1, <2>1, SortsInPlace
<1>3. found <=> Count(Content(v), x) > 0
  BY <1>2 DEF found
<1>4. last'.op = "in" /\ last'.slice = v /\ last'.value = x /\ last'.found = found
  BY <1>1
<1> QED BY <1>2, <1>3, <1>4 DEF InPlaceRight

LEMMA SignRight ==
    ASSUME SlicesFit, NEW t \in Types, NEW tag \in Tags, NEW v \in Vars,
           GenerateSignString(t, tag, v)
    PROVE  SlicesFit' /\ last'.slice = v /\ last'.op = "sign" /\ InPlaceRight(v)
<1> DEFINE s == SortedTo(heap[var[v].arr], var[v].len)
<1>1. heap' = [heap EXCEPT ![var[v].arr] = s] /\ UNCHANGED var
  BY DEF GenerateSignString
<1>2. PICK signed :
         last' = [op |-> "sign", slice |-> v, type |-> t, tag |-> tag, signed |-> signed]
  BY DEF GenerateSignString, Called
<1> HIDE DEF s
<1>3. /\ SlicesFit' /\ WritesIn(v)
      /\ \A e \in Names : Count(Content(v)', e) = Count(Content(v), e)
  <2>1. s = SortedTo(heap[var[v].arr], var[v].len)
    BY DEF s
  <2> QED BY <1>1, <2>1, SortsInPlace
<1>4. last'.op = "sign" /\ last'.slice = v
  BY <1>2
<1> QED BY <1>3, <1>4 DEF InPlaceRight

LEMMA DeletionRight ==
    ASSUME SlicesFit, NEW v \in Vars, NEW w \in Vars, NEW x \in Values, DelInSlice(v, x, w)
    PROVE  SlicesFit' /\ last'.slice = v /\ last'.op = "del" /\ InPlaceRight(v)
<1>1. last' = [op |-> "del", slice |-> v, value |-> x, result |-> w]
  BY DEF DelInSlice, Called
<1>2. SlicesFit' /\ WritesIn(v) /\ Content(w)' = Without(Content(v), x)
  BY DeletesInPlace
<1>3. last'.op = "del" /\ last'.slice = v /\ last'.value = x /\ last'.result = w
  BY <1>1
<1> QED BY <1>2, <1>3 DEF InPlaceRight

\* What each step is, and that the slices stay in their arrays.
LEMMA EachCallIsRight ==
    ASSUME SlicesFit, Next
    PROVE  /\ SlicesFit'
           /\ \/ \E v \in Vars : /\ last'.slice = v /\ last'.op \in {"in", "del", "sign"}
                                 /\ InPlaceRight(v)
              \/ \E v1, v2, r \in Vars : last' = Merge(v1, v2, r) /\ MergedRight(v1, v2, r)
              \/ last'.op = "assign"
<1>1. ASSUME NEW v \in Vars, NEW x \in Values, InSlice(v, x)
      PROVE  SlicesFit' /\ last'.slice = v /\ last'.op = "in" /\ InPlaceRight(v)
  BY <1>1, InSliceRight
<1>2. ASSUME NEW v \in Vars, NEW w \in Vars, NEW x \in Values, DelInSlice(v, x, w)
      PROVE  SlicesFit' /\ last'.slice = v /\ last'.op = "del" /\ InPlaceRight(v)
  BY <1>2, DeletionRight
<1>3. ASSUME NEW v1 \in Vars, NEW v2 \in Vars, NEW r \in Vars, UniqueAndMerge(v1, v2, r)
      PROVE  SlicesFit' /\ last' = Merge(v1, v2, r) /\ MergedRight(v1, v2, r)
  <2>1. last' = Merge(v1, v2, r)
    BY <1>3 DEF UniqueAndMerge, Called
  <2> QED BY <1>3, <2>1, MergesRight
<1>4. ASSUME NEW target \in Types, NEW source \in Types, NEW tag \in Tags,
             StructAssign(target, source, tag)
      PROVE  SlicesFit' /\ last'.op = "assign"
  <2>1. PICK panicked :
           last' = [op |-> "assign", target |-> target, source |-> source,
                    panicked |-> panicked]
    BY <1>4 DEF StructAssign, Called
  <2>2. UNCHANGED <<heap, var>>
    BY <1>4 DEF StructAssign, slices
  <2>3. last'.op = "assign"
    BY <2>1
  <2> QED BY <2>2, <2>3 DEF SlicesFit
<1>5. ASSUME NEW t \in Types, NEW tag \in Tags, NEW v \in Vars,
             GenerateSignString(t, tag, v)
      PROVE  SlicesFit' /\ last'.slice = v /\ last'.op = "sign" /\ InPlaceRight(v)
  BY <1>5, SignRight
<1>6. CASE \E v \in Vars, x \in Values : InSlice(v, x)
  BY <1>1, <1>6
<1>7. CASE \E v, w \in Vars, x \in Values : DelInSlice(v, x, w)
  BY <1>2, <1>7
<1>8. CASE \E v1, v2, r \in Vars : UniqueAndMerge(v1, v2, r)
  BY <1>3, <1>8
<1>9. CASE \E target, source \in Types, tag \in Tags : StructAssign(target, source, tag)
  BY <1>4, <1>9
<1>10. CASE \E t \in Types, tag \in Tags, v \in Vars : GenerateSignString(t, tag, v)
  BY <1>5, <1>10
<1> QED BY <1>6, <1>7, <1>8, <1>9, <1>10 DEF Next

\* The slices never outgrow their arrays: the inductive invariant.
LEMMA SlicesStayFit == Spec => []SlicesFit
<1>1. Init => SlicesFit
  BY HelpersAssumption DEF Init, SlicesFit, Heaps
<1>2. SlicesFit /\ [Next]_vars => SlicesFit'
  <2>1. SlicesFit /\ Next => SlicesFit'
    BY EachCallIsRight
  <2>2. SlicesFit /\ UNCHANGED vars => SlicesFit'
    BY DEF SlicesFit, vars, slices
  <2> QED BY <2>1, <2>2
<1> QED BY <1>1, <1>2, PTL DEF Spec

(* Whatever the caller's memory, the searches find what is there, the      *)
(* deletions return what is left in order, and neither writes outside its  *)
(* slice's part of the array (slice.go:28, 60; struct.go:178).             *)
THEOREM HelpersInPlaceAreRight == Spec => InPlaceHelpersAreRight
<1> DEFINE Right ==
        \A v \in Vars : last'.op \in {"in", "del", "sign"} /\ last'.slice = v =>
            /\ \A x \in Arrays : \A i \in DOMAIN heap[x] :
                  (x = var[v].arr /\ i <= var[v].len) \/ heap'[x][i] = heap[x][i]
            /\ last'.op = "del" => \E w \in Vars :
                  /\ last'.result = w
                  /\ Content(w)' = Without(Content(v), last'.value)
            /\ last'.op # "del" =>
                  \A e \in Names : Count(Content(v)', e) = Count(Content(v), e)
            /\ last'.op = "in" => (last'.found <=> Count(Content(v), last'.value) > 0)
<1>1. SlicesFit /\ [Next]_vars => [Right]_vars
  <2> SUFFICES ASSUME SlicesFit, Next, NEW v \in Vars,
                      last'.op \in {"in", "del", "sign"}, last'.slice = v
               PROVE  InPlaceRight(v)
    BY DEF InPlaceRight, WritesIn
  <2>1. ASSUME NEW v1 \in Vars, NEW v2 \in Vars, NEW r \in Vars, last' = Merge(v1, v2, r)
        PROVE  last'.op = "merge"
    BY <2>1 DEF Merge
  <2>2. PICK u \in Vars : last'.slice = u /\ InPlaceRight(u)
    BY <2>1, EachCallIsRight
  <2> QED BY <2>2
<1> QED BY <1>1, SlicesStayFit, PTL DEF Spec, InPlaceHelpersAreRight

(* Whatever the caller's memory, UniqueAndMerge appends each element once  *)
(* and in order, and changes no other slice that ends where the first or   *)
(* the result does, but where it reads what it has itself overwritten: the *)
(* result in the first slice's array, not empty, and the second slice      *)
(* appended in place (slice.go:16 and 21).                                 *)
THEOREM MergesAreRight == Spec => MergeIsRight
<1> DEFINE Right ==
        \A v1, v2, r \in Vars : last' = Merge(v1, v2, r) =>
            LET shared(v, w) == var[v].arr = var[w].arr
            IN  /\ \/ Content(r)' = Content(r)
                                    \o WithoutRepetitions(Content(v1) \o Content(v2))
                   \/ shared(r, v1) /\ Content(r) # <<>> /\ FitsBehind(v1, v2)
                /\ \A v \in Vars \ {r} :
                      \/ Content(v)' = Content(v)
                      \/ shared(v, v1) /\ var[v].len > var[v1].len
                      \/ shared(v, r) /\ var[v].len > var[r].len
<1>1. SlicesFit /\ [Next]_vars => [Right]_vars
  <2> SUFFICES ASSUME SlicesFit, Next, NEW v1 \in Vars, NEW v2 \in Vars, NEW r \in Vars,
                      last' = Merge(v1, v2, r)
               PROVE  MergedRight(v1, v2, r)
    BY DEF MergedRight
  <2>1. last'.op = "merge"
    BY DEF Merge
  <2>2. PICK w1, w2, q \in Vars : last' = Merge(w1, w2, q) /\ MergedRight(w1, w2, q)
    BY <2>1, EachCallIsRight
  <2>3. w1 = v1 /\ w2 = v2 /\ q = r
    BY <2>2 DEF Merge
  <2> QED BY <2>2, <2>3
<1> QED BY <1>1, SlicesStayFit, PTL DEF Spec, MergeIsRight

=============================================================================
