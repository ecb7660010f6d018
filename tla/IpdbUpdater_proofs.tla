------------------------- MODULE IpdbUpdater_proofs -------------------------
(***************************************************************************)
(* What the IP database serves and what its file holds, for every set of   *)
(* releases of every length, every number of mirrors and of calls beside   *)
(* the scheduled one.                                                      *)
(***************************************************************************)
EXTENDS IpdbUpdater, SequenceTheorems, TLAPS

Block == Versions \cup {Page, Hole}

\* The first n blocks of release v.
Part(v, n) == [j \in 1..n |-> v]

\* What an update that is alone can find or put in the file: nothing, an
\* error page, or a release, whole or cut short.
Sound(c) ==
    \/ c = <<>>
    \/ c = <<Page>>
    \/ \E v \in Versions, n \in 0..MaxLength : n <= Length[v] /\ c = Part(v, n)

Prefix(c, n) == [j \in 1..n |-> c[j]]

-----------------------------------------------------------------------------
(* Contents are short sequences of blocks.                                 *)

LEMMA ContentIsShort ==
    ASSUME NEW c
    PROVE  c \in Content <=> c \in Seq(Block) /\ Len(c) <= MaxLength
<1>1. ASSUME c \in Content
      PROVE  c \in Seq(Block) /\ Len(c) <= MaxLength
  <2>1. PICK n \in 0..MaxLength : c \in [1..n -> Block]
    BY <1>1 DEF Content, Block
  <2>2. c \in Seq(Block)
    BY <2>1, SeqDef, UpdaterAssumption
  <2>3. 1..n = 1..Len(c) /\ Len(c) \in Nat /\ n \in Nat
    BY <2>1, <2>2, LenProperties, UpdaterAssumption
  <2>4. n = Len(c)
    BY <2>3
  <2>5. QED
    BY <2>1, <2>2, <2>4
<1>2. ASSUME c \in Seq(Block), Len(c) <= MaxLength
      PROVE  c \in Content
  BY <1>2, LenProperties, UpdaterAssumption DEF Content, Block
<1>3. QED
  BY <1>1, <1>2

LEMMA SequenceOfBlocks ==
    ASSUME NEW n \in Nat, NEW c \in [1..n -> Block]
    PROVE  c \in Seq(Block) /\ Len(c) = n
<1>1. c \in Seq(Block)
  BY SeqDef
<1>2. 1..n = 1..Len(c) /\ Len(c) \in Nat
  BY <1>1, LenProperties
<1>3. QED
  BY <1>1, <1>2

LEMMA PartIsContent ==
    ASSUME NEW v \in Versions, NEW n \in 0..MaxLength
    PROVE  Part(v, n) \in Content /\ Len(Part(v, n)) = n
<1>1. n \in Nat /\ Part(v, n) \in [1..n -> Block]
  BY UpdaterAssumption DEF Part, Block
<1>2. QED
  BY <1>1, SequenceOfBlocks, ContentIsShort

LEMMA PrefixIsContent ==
    ASSUME NEW c \in Content, NEW n \in 0..Len(c)
    PROVE  /\ Prefix(c, n) \in Content
           /\ Len(Prefix(c, n)) = n
           /\ n = Len(c) => Prefix(c, n) = c
<1>1. c \in [1..Len(c) -> Block] /\ Len(c) \in Nat /\ Len(c) <= MaxLength
  BY ContentIsShort, LenProperties
<1>2. n \in Nat /\ Prefix(c, n) \in [1..n -> Block]
  BY <1>1 DEF Prefix
<1>3. Prefix(c, n) \in Content /\ Len(Prefix(c, n)) = n
  BY <1>1, <1>2, SequenceOfBlocks, ContentIsShort, UpdaterAssumption
<1>4. n = Len(c) => Prefix(c, n) = c
  BY <1>1 DEF Prefix
<1>5. QED
  BY <1>3, <1>4

LEMMA WholeFacts ==
    ASSUME NEW v \in Versions
    PROVE  /\ Whole(v) \in Content /\ Whole(v) = Part(v, Length[v])
           /\ Sound(Whole(v)) /\ Accepts(Whole(v)) /\ Genuine(Whole(v))
<1>1. Length[v] \in 1..MaxLength /\ Length[v] \in 0..MaxLength /\ 1 \in 1..Length[v]
  BY UpdaterAssumption
<1>2. Whole(v) = Part(v, Length[v])
  BY DEF Whole, Part
<1>3. Whole(v) \in Content /\ Len(Whole(v)) = Length[v]
  BY <1>1, <1>2, PartIsContent
<1>4. Whole(v)[1] = v
  BY <1>1 DEF Whole
<1>5. Whole(v) # <<>>
  BY <1>1, <1>3, EmptySeq, ContentIsShort
<1>6. Accepts(Whole(v))
  BY <1>3, <1>4, <1>5 DEF Accepts
<1>7. QED
  BY <1>1, <1>2, <1>3, <1>6 DEF Sound, Genuine

LEMMA SmallContent ==
    <<>> \in Content /\ <<Page>> \in Content /\ Len(<<Page>>) = 1 /\ Len(<<>>) = 0
<1>1. <<>> \in Seq(Block) /\ Len(<<>>) = 0
  BY EmptySeq
<1>2. <<Page>> \in Seq(Block) /\ Len(<<Page>>) = 1
  BY DEF Block
<1>3. MaxLength \in Nat /\ 0 <= MaxLength /\ 1 <= MaxLength
  BY UpdaterAssumption
<1>4. <<>> \in Content
  BY <1>1, <1>3, ContentIsShort
<1>5. <<Page>> \in Content
  BY <1>2, <1>3, ContentIsShort
<1>6. QED
  BY <1>1, <1>2, <1>4, <1>5

LEMMA SoundIsContent ==
    ASSUME NEW c, Sound(c)
    PROVE  c \in Content
BY SmallContent, PartIsContent DEF Sound

\* A download that failed leaves a part of a release at most.
LEMMA CutIsSound ==
    ASSUME NEW c \in Cut
    PROVE  Sound(c)
<1>1. CASE c = <<>>
  BY <1>1 DEF Sound
<1>2. ASSUME NEW v \in Versions, NEW n \in 0..(Length[v] - 1),
             c = SubSeq(Whole(v), 1, n)
      PROVE  Sound(c)
  <2>1. /\ Length[v] \in 1..MaxLength /\ n \in 0..MaxLength /\ n <= Length[v]
        /\ n \in Int /\ n \in Nat
    BY UpdaterAssumption
  <2>2. \A i \in 1..n : Whole(v)[i] = v
    BY <2>1 DEF Whole
  <2>3. /\ c \in Seq(Versions)
        /\ Len(c) = n
        /\ \A i \in 1..n : c[i] = v
    <3>1. \A i \in 1..n : Whole(v)[i] \in Versions
      BY <2>2
    <3>2. /\ c \in Seq(Versions)
          /\ Len(c) = IF 1 <= n THEN n - 1 + 1 ELSE 0
          /\ \A i \in 1..(n - 1 + 1) : c[i] = Whole(v)[1 + i - 1]
      BY <1>2, <2>1, <3>1, SubSeqProperties
    <3>3. QED
      BY <2>1, <2>2, <3>2
  <2>4. c = Part(v, n)
    BY <2>3, LenProperties DEF Part
  <2>5. QED
    BY <2>1, <2>4 DEF Sound
<1>3. QED
  BY <1>1, <1>2 DEF Cut

(* Of all an update alone can find in the file, package ipdb accepts the   *)
(* whole releases only: the header gives away what was cut short.          *)
LEMMA AcceptedIsGenuine ==
    ASSUME NEW c, Sound(c), Accepts(c)
    PROVE  Genuine(c)
<1>1. c # <<>> /\ c # <<Page>>
  BY UpdaterAssumption DEF Accepts
<1>2. PICK v \in Versions, n \in 0..MaxLength : n <= Length[v] /\ c = Part(v, n)
  BY <1>1 DEF Sound
<1>3. Len(c) = n /\ c \in Content
  BY <1>2, PartIsContent
<1>4. n # 0
  BY <1>1, <1>3, ContentIsShort, EmptySeq
<1>5. c[1] = v
  BY <1>2, <1>4, UpdaterAssumption DEF Part
<1>6. n = Length[v]
  BY <1>3, <1>5 DEF Accepts
<1>7. QED
  BY <1>2, <1>6, WholeFacts DEF Genuine

LEMMA PrefixIsSound ==
    ASSUME NEW c, Sound(c), NEW n \in 0..Len(c)
    PROVE  /\ Sound(Prefix(c, n))
           /\ n < Len(c) => ~Accepts(Prefix(c, n))
<1>1. Len(c) \in Nat /\ Len(c) <= MaxLength /\ n \in Nat
  BY SoundIsContent, ContentIsShort, LenProperties
<1> DEFINE p == Prefix(c, n)
<1>2. p \in Content /\ Len(p) = n /\ (n = Len(c) => p = c)
  BY SoundIsContent, PrefixIsContent
<1>3. CASE n = 0 \/ n = Len(c)
  <2>1. n = 0 => p = <<>>
    BY <1>2, ContentIsShort, EmptySeq
  <2>2. QED
    BY <1>2, <1>3, <2>1 DEF Sound, Accepts
<1>4. CASE n # 0 /\ n # Len(c)
  <2>1. n >= 1 /\ n < Len(c)
    BY <1>1, <1>4
  <2>2. c # <<>> /\ c # <<Page>>
    BY SMTT(30), <2>1, <1>1, SmallContent
  <2>3. PICK v \in Versions, m \in 0..MaxLength : m <= Length[v] /\ c = Part(v, m)
    BY <2>2 DEF Sound
  <2>4. Len(c) = m /\ Length[v] \in 1..MaxLength /\ m \in Nat
    BY <2>3, PartIsContent, UpdaterAssumption
  <2>5. n < Length[v] /\ n <= Length[v] /\ n \in 0..MaxLength
    BY <1>1, <2>1, <2>3, <2>4, UpdaterAssumption
  <2>6. p = Part(v, n)
    BY <1>1, <2>1, <2>3, <2>4 DEF Part, Prefix
  <2>7. p[1] = v
    BY <1>1, <2>1, <2>6 DEF Part
  <2>8. ~Accepts(p)
    BY <1>2, <2>4, <2>5, <2>7 DEF Accepts
  <2>9. Sound(p)
    BY <2>5, <2>6 DEF Sound
  <2>10. QED
    BY <2>8, <2>9
<1>5. QED
  BY <1>3, <1>4

-----------------------------------------------------------------------------
(* Types.                                                                  *)

LEMMA ProgressFacts ==
    ASSUME TypeOK, NEW u \in Updaters
    PROVE  /\ update[u].pc \in {"idle", "fetch", "create", "write", "read", "assign"}
           /\ update[u].pc = "idle" => update[u] = Idle
           /\ update[u].pc = "fetch" => update[u].next \in 1..Mirrors
           /\ update[u].pc \in {"create", "write"} => update[u].body \in Content
           /\ update[u].pc = "write" =>
                  update[u] = [pc |-> "write", body |-> update[u].body,
                               written |-> update[u].written]
           /\ update[u].pc = "write" => update[u].written \in 0..MaxLength
           /\ update[u].pc \in {"read", "assign"} => update[u].got \in Content
<1>1. update[u] \in Progress
  BY DEF TypeOK
<1>2. QED
  BY <1>1 DEF Progress, Idle

LEMMA GotoFacts ==
    ASSUME TypeOK, NEW u \in Updaters, NEW p, Goto(u, p)
    PROVE  /\ update' = [w \in Updaters |-> IF w = u THEN p ELSE update[w]]
           /\ p \in Progress => update' \in [Updaters -> Progress]
<1>1. update \in [Updaters -> Progress]
  BY DEF TypeOK
<1>2. QED
  BY <1>1 DEF Goto

LEMMA LoadedType ==
    ASSUME NEW c \in Content
    PROVE  Loaded(c) \in Content \cup {NoDb}
BY DEF Loaded

\* A write extends the file to its position at most.
LEMMA PutFacts ==
    ASSUME NEW c \in Content, NEW i \in 1..MaxLength, NEW b \in Block
    PROVE  /\ Put(c, i, b) \in Content
           /\ i = Len(c) + 1 =>
                  Put(c, i, b) = [j \in 1..i |-> IF j = i THEN b ELSE c[j]]
<1>1. c \in [1..Len(c) -> Block] /\ Len(c) \in Nat /\ Len(c) <= MaxLength
  BY ContentIsShort, LenProperties
<1> DEFINE n == IF i > Len(c) THEN i ELSE Len(c)
<1>2. n \in Nat /\ n <= MaxLength /\ (i = Len(c) + 1 => n = i)
  <2>1. MaxLength \in Nat
    BY UpdaterAssumption
  <2>2. i \in Nat /\ i <= MaxLength
    BY <2>1
  <2>3. Len(c) \in Nat /\ Len(c) <= MaxLength
    BY <1>1
  <2>4. CASE i > Len(c)
    BY <2>1, <2>2, <2>3, <2>4
  <2>5. CASE ~(i > Len(c))
    BY <2>1, <2>2, <2>3, <2>5
  <2>6. QED
    BY <2>4, <2>5
<1>3. Put(c, i, b) =
         [j \in 1..n |-> IF j = i THEN b ELSE IF j <= Len(c) THEN c[j] ELSE Hole]
  BY DEF Put
<1> HIDE DEF n
<1>4. Put(c, i, b) \in [1..n -> Block]
  BY <1>1, <1>2, <1>3 DEF Block
<1>5. Put(c, i, b) \in Content
  BY <1>2, <1>4, SequenceOfBlocks, ContentIsShort
<1>6. i = Len(c) + 1 =>
         Put(c, i, b) = [j \in 1..i |-> IF j = i THEN b ELSE c[j]]
  BY <1>1, <1>2, <1>3
<1>7. QED
  BY <1>5, <1>6

\* A read goes on with a block of the file, which bounds it.
LEMMA ReadOnFacts ==
    ASSUME NEW f \in Content, NEW got \in Content, Len(got) < Len(f)
    PROVE  /\ Append(got, f[Len(got) + 1]) \in Content
           /\ Len(Append(got, f[Len(got) + 1])) = Len(got) + 1
           /\ Len(got) + 1 \in 1..Len(f)
           /\ got = Prefix(f, Len(got)) =>
                  Append(got, f[Len(got) + 1]) = Prefix(f, Len(got) + 1)
<1> DEFINE n == Len(got)
           b == f[n + 1]
           longer == Append(got, b)
<1>1. /\ f \in [1..Len(f) -> Block] /\ Len(f) \in Nat /\ Len(f) <= MaxLength
      /\ got \in Seq(Block) /\ n \in Nat
  BY ContentIsShort, LenProperties
<1>2. n + 1 \in 1..Len(f) /\ b \in Block
  BY <1>1
<1> HIDE DEF b
<1>3. /\ longer \in Seq(Block) /\ Len(longer) = n + 1
      /\ \A i \in 1..n : longer[i] = got[i]
      /\ longer[n + 1] = b
  BY <1>1, <1>2, AppendProperties
<1> HIDE DEF longer
<1>4. longer \in Content
  BY <1>1, <1>2, <1>3, ContentIsShort, UpdaterAssumption
<1>5. ASSUME got = Prefix(f, n)
      PROVE  longer = Prefix(f, n + 1)
  <2>1. longer \in [1..(n + 1) -> Block]
    BY <1>3, LenProperties
  <2>2. \A i \in 1..n : got[i] = f[i]
    BY <1>5, <1>1 DEF Prefix
  <2>3. \A i \in 1..(n + 1) : longer[i] = f[i]
    BY <1>1, <1>3, <2>2 DEF b
  <2>4. QED
    BY <2>1, <2>3 DEF Prefix
<1>6. QED
  BY <1>2, <1>3, <1>4, <1>5 DEF longer, b

LEMMA TypeInit == Init => TypeOK
<1> SUFFICES ASSUME Init PROVE TypeOK
  OBVIOUS
<1>1. file \in Content
  BY SmallContent, WholeFacts DEF Init
<1>2. db \in Content \cup {NoDb}
  BY <1>1, LoadedType DEF Init
<1>3. update \in [Updaters -> Progress]
  BY DEF Init, Progress
<1>4. {up, disk, overlapped} \subseteq BOOLEAN /\ job \in Job
  BY DEF Init, JobsAfterLoading, Job
<1>5. QED
  BY <1>1, <1>2, <1>3, <1>4, UpdaterAssumption DEF Init, TypeOK

LEMMA TypeStep == TypeOK /\ [Next]_vars => TypeOK'
<1> SUFFICES ASSUME TypeOK, [Next]_vars PROVE TypeOK'
  OBVIOUS
<1>1. ASSUME NEW u \in Updaters, NEW p \in Progress, Goto(u, p)
      PROVE  update' \in [Updaters -> Progress]
  BY <1>1, GotoFacts
<1>2. Idle \in Progress
  BY DEF Progress
<1>3. ASSUME NEW u \in Updaters, Begin(u), manualCalls' \in 0..MaxManual
      PROVE  TypeOK'
  <2>1. [pc |-> "fetch", next |-> 1] \in Progress
    BY UpdaterAssumption DEF Progress
  <2>2. update' \in [Updaters -> Progress]
    BY <1>1, <1>3, <2>1 DEF Begin
  <2>3. QED
    BY <1>3, <2>2 DEF Begin, TypeOK, procVars, envVars
<1>4. CASE BeginCron
  BY <1>3, <1>4 DEF BeginCron, Updaters, TypeOK
<1>5. CASE BeginManual
  <2>1. manualCalls' \in 0..MaxManual
    BY <1>5, UpdaterAssumption DEF BeginManual, TypeOK
  <2>2. QED
    BY <1>3, <1>5, <2>1 DEF BeginManual, Updaters
<1>6. ASSUME NEW u \in Updaters, Fetch(u)
      PROVE  TypeOK'
  <2>1. update[u].next \in 1..Mirrors
    BY <1>6, ProgressFacts DEF Fetch
  <2>2. ASSUME NEW c \in Content
        PROVE  [pc |-> "create", body |-> c] \in Progress
    BY DEF Progress
  <2>3. update[u].next < Mirrors =>
           [pc |-> "fetch", next |-> update[u].next + 1] \in Progress
    BY <2>1, UpdaterAssumption DEF Progress
  <2>4. \E p \in Progress : Goto(u, p)
    BY <1>6, <2>2, <2>3, SmallContent, WholeFacts, CutIsSound, SoundIsContent
       DEF Fetch
  <2>5. update' \in [Updaters -> Progress]
    BY <1>1, <2>4
  <2>6. QED
    BY <1>6, <2>5 DEF Fetch, TypeOK, procVars, envVars, history
<1>7. ASSUME NEW u \in Updaters, Create(u)
      PROVE  TypeOK'
  <2>1. update[u].body \in Content
    BY <1>7, ProgressFacts DEF Create
  <2>2. [pc |-> "write", body |-> update[u].body, written |-> 0] \in Progress
    BY <2>1, UpdaterAssumption DEF Progress
  <2>3. update' \in [Updaters -> Progress]
    BY <1>1, <1>2, <1>7, <2>2 DEF Create
  <2>4. file' \in Content
    BY <1>7, SmallContent DEF Create, TypeOK
  <2>5. QED
    BY <1>7, <2>3, <2>4 DEF Create, TypeOK, procVars, envVars, history
<1>8. ASSUME NEW u \in Updaters, Write(u)
      PROVE  TypeOK'
  <2> DEFINE body == update[u].body
             next == update[u].written + 1
  <2>1. /\ body \in Content /\ update[u].written \in 0..MaxLength
        /\ update[u] = [pc |-> "write", body |-> body, written |-> update[u].written]
    BY <1>8, ProgressFacts DEF Write
  <2>2. body \in [1..Len(body) -> Block] /\ Len(body) \in Nat /\ Len(body) <= MaxLength
    BY <2>1, ContentIsShort, LenProperties
  <2>3. [pc |-> "read", got |-> <<>>] \in Progress
    BY SmallContent DEF Progress
  <2>4. next <= Len(body) => /\ next \in 1..MaxLength /\ next \in 1..Len(body)
                             /\ next \in 0..MaxLength
    BY <2>1, <2>2, UpdaterAssumption
  <2>5. next <= Len(body) => [update[u] EXCEPT !.written = next] \in Progress
    <3>1. [update[u] EXCEPT !.written = next] =
             [pc |-> "write", body |-> body, written |-> next]
      BY <2>1
    <3>2. QED
      BY <2>1, <2>4, <3>1 DEF Progress
  <2>6. update' \in [Updaters -> Progress]
    BY <1>1, <1>2, <1>8, <2>3, <2>5 DEF Write
  <2>7. next <= Len(body) => Put(file, next, body[next]) \in Content
    BY <2>2, <2>4, PutFacts DEF TypeOK
  <2>8. file' \in Content
    BY <1>8, <2>7 DEF Write, TypeOK
  <2>9. QED
    BY <1>8, <2>6, <2>8 DEF Write, TypeOK, procVars, envVars, history
<1>9. ASSUME NEW u \in Updaters, Read(u)
      PROVE  TypeOK'
  <2> DEFINE got == update[u].got
  <2>1. got \in Content /\ file \in Content
    BY <1>9, ProgressFacts DEF Read, TypeOK
  <2>2. [pc |-> "assign", got |-> got] \in Progress
    BY <2>1 DEF Progress
  <2>3. Len(got) < Len(file) =>
           [pc |-> "read", got |-> Append(got, file[Len(got) + 1])] \in Progress
    BY <2>1, ReadOnFacts DEF Progress
  <2>4. update' \in [Updaters -> Progress]
    BY <1>1, <1>2, <1>9, <2>2, <2>3 DEF Read
  <2>5. QED
    BY <1>9, <2>4 DEF Read, TypeOK, procVars, envVars, history
<1>10. ProcessGone => update' \in [Updaters -> Progress]
  BY <1>2 DEF ProcessGone
<1>11. ASSUME NEW u \in Updaters, Assign(u)
       PROVE  TypeOK'
  <2>1. update[u].got \in Content
    BY <1>11, ProgressFacts DEF Assign
  <2>2. update' \in [Updaters -> Progress]
    BY <1>1, <1>2, <1>10, <1>11 DEF Assign
  <2>3. QED
    BY <1>11, <2>1, <2>2 DEF Assign, ProcessGone, Job, TypeOK, envVars, history
<1>12. CASE Crash
  BY <1>10, <1>12 DEF Crash, ProcessGone, Job, TypeOK, envVars, history
<1>13. CASE Start
  <2>1. db' \in Content \cup {NoDb}
    BY <1>13, LoadedType DEF Start, TypeOK
  <2>2. QED
    BY <1>13, <2>1 DEF Start, TypeOK, envVars, history, JobsAfterLoading, Job
<1>14. CASE Weather
  BY <1>14 DEF Weather, TypeOK, procVars, history
<1>15. CASE UNCHANGED vars
  BY <1>15 DEF vars, procVars, envVars, history, TypeOK
<1>16. QED
  BY <1>4, <1>5, <1>6, <1>7, <1>8, <1>9, <1>11, <1>12, <1>13, <1>14, <1>15
     DEF Next, Step

(* Every variable keeps its type.                                          *)
THEOREM TypesHold == Spec => []TypeOK
BY TypeInit, TypeStep, PTL DEF Spec

(* A failed update never takes the database away from a running process:   *)
(* only Assign replaces it, by contents that were read.                    *)
THEOREM ServingGoesOn == Spec => KeepsServing
<1>1. TypeOK /\ [Next]_vars => (up /\ up' /\ db # NoDb => db' # NoDb)
  <2> SUFFICES ASSUME TypeOK, [Next]_vars, up, up', db # NoDb, db' # db
               PROVE  db' # NoDb
    OBVIOUS
  <2>1. ASSUME NEW u \in Updaters, Assign(u)
        PROVE  db' # NoDb
    <3>1. db' = update[u].got /\ update[u].got \in Content
      BY <2>1, ProgressFacts DEF Assign
    <3>2. QED
      BY <3>1, UpdaterAssumption
  <2>2. QED
    BY <2>1 DEF Next, Step, BeginCron, BeginManual, Begin, Fetch, Create, Write,
                Read, Crash, ProcessGone, Start, Weather, vars, procVars
<1>2. TypeOK /\ [Next]_vars => [up /\ up' /\ db # NoDb => db' # NoDb]_vars
  BY <1>1
<1>3. QED
  BY <1>2, TypesHold, PTL DEF Spec, KeepsServing

-----------------------------------------------------------------------------
(* The inductive invariant of updates that do not overlap.  What the one   *)
(* that runs carries tells what is in the file, and between updates memory *)
(* and file agree.                                                         *)

Alone == \A u, w \in Updaters : Running(u) /\ Running(w) => u = w

Carries(p, f) ==
    /\ p.pc = "create" => Sound(p.body)
    /\ p.pc = "write" => /\ Sound(p.body)
                         /\ p.written <= Len(p.body)
                         /\ f = Prefix(p.body, p.written)
    /\ p.pc = "read" => Len(p.got) <= Len(f) /\ p.got = Prefix(f, Len(p.got))
    /\ p.pc = "assign" => p.got = f /\ Accepts(f)

\* From the truncation of the file until its contents are in memory, the
\* two differ.
Between(p) == p.pc \notin {"write", "read", "assign"}

Agree == up /\ db # NoDb /\ Accepts(file) => db = file

Orderly ==
    /\ Alone
    /\ Sound(file)
    /\ db = NoDb \/ Genuine(db)
    /\ \A u \in Updaters : Carries(update[u], file)
    /\ (\A u \in Updaters : Between(update[u])) => Agree

IInv == TypeOK /\ (~overlapped => Orderly)

\* One update goes on, or the first one begins.
LEMMA OneGoesOn ==
    ASSUME TypeOK, Orderly, NEW u \in Updaters, NEW p, Goto(u, p),
           Running(u) \/ Quiet,
           Carries(p, file'),
           Sound(file'),
           db' = NoDb \/ Genuine(db'),
           Between(p) => Agree'
    PROVE  Orderly'
<1>1. \A w \in Updaters : update'[w] = IF w = u THEN p ELSE update[w]
  BY GotoFacts
<1>2. \A w \in Updaters : w # u => ~Running(w)
  BY DEF Orderly, Alone, Quiet
<1>3. Alone'
  BY <1>1, <1>2 DEF Alone, Running
<1>4. ASSUME NEW w \in Updaters
      PROVE  Carries(update'[w], file')
  BY <1>1, <1>2 DEF Running, Carries
<1>5. (\A w \in Updaters : Between(update'[w])) => Agree'
  BY <1>1
<1>6. QED
  BY <1>3, <1>4, <1>5 DEF Orderly

\* While the others rest and this one has not truncated the file, memory
\* and file agree.
LEMMA AgreeBefore ==
    ASSUME TypeOK, Orderly, NEW u \in Updaters,
           Running(u) \/ Quiet, Between(update[u])
    PROVE  Agree
BY DEF Orderly, Alone, Quiet, Running, Between

LEMMA LoadedIsGenuine ==
    ASSUME Sound(file)
    PROVE  Loaded(file) = NoDb \/ Genuine(Loaded(file))
BY AcceptedIsGenuine DEF Loaded

LEMMA IInvInit == Init => IInv
<1> SUFFICES ASSUME Init PROVE IInv
  OBVIOUS
<1>1. Sound(file)
  BY WholeFacts DEF Init, Sound
<1>2. db = NoDb \/ Genuine(db)
  BY <1>1, LoadedIsGenuine DEF Init
<1>3. \A u \in Updaters : update[u].pc = "idle"
  BY DEF Init, Idle
<1>4. Alone /\ \A u \in Updaters : Carries(update[u], file)
  BY <1>3 DEF Alone, Running, Carries
<1>5. Agree
  BY DEF Agree, Init, Loaded
<1>6. QED
  BY <1>1, <1>2, <1>4, <1>5, TypeInit DEF IInv, Orderly

LEMMA BeginOrderly ==
    ASSUME TypeOK, Orderly, NEW u \in Updaters, Begin(u), ~overlapped'
    PROVE  Orderly'
<1> DEFINE p == [pc |-> "fetch", next |-> 1]
<1>1. Quiet /\ Goto(u, p) /\ UNCHANGED <<up, db, file>>
  BY DEF Begin, procVars
<1>2. Carries(p, file') /\ Between(update[u])
  BY <1>1 DEF Carries, Between, Quiet, Running
<1>3. Agree'
  BY <1>1, <1>2, AgreeBefore DEF Agree
<1> HIDE DEF p
<1>4. QED
  BY <1>1, <1>2, <1>3, OneGoesOn DEF Orderly

LEMMA FetchOrderly ==
    ASSUME TypeOK, Orderly, NEW u \in Updaters, Fetch(u)
    PROVE  Orderly'
<1>1. /\ update[u].pc = "fetch" /\ Running(u) /\ Between(update[u])
      /\ UNCHANGED <<up, db, file>>
  BY DEF Fetch, Running, Between, procVars
<1>2. Agree'
  BY <1>1, AgreeBefore DEF Agree
<1>3. ASSUME NEW c, Sound(c)
      PROVE  Carries([pc |-> "create", body |-> c], file')
  BY <1>3 DEF Carries
<1>4. ASSUME NEW n
      PROVE  Carries([pc |-> "fetch", next |-> n], file')
  BY DEF Carries
<1>5. Sound(<<Page>>)
  BY DEF Sound
<1>6. \E p : Goto(u, p) /\ Carries(p, file')
  BY <1>3, <1>4, <1>5, WholeFacts, CutIsSound DEF Fetch
<1>7. QED
  BY <1>1, <1>2, <1>6, OneGoesOn DEF Orderly

LEMMA CreateOrderly ==
    ASSUME TypeOK, Orderly, NEW u \in Updaters, Create(u)
    PROVE  Orderly'
<1> DEFINE body == update[u].body
           p == [pc |-> "write", body |-> body, written |-> 0]
<1>1. /\ update[u].pc = "create" /\ Running(u) /\ Between(update[u])
      /\ UNCHANGED <<up, db>>
      /\ body \in Content /\ Sound(body)
  BY ProgressFacts DEF Create, Running, Between, Orderly, Carries, procVars
<1>2. CASE disk
  <2>1. file' = <<>> /\ Goto(u, p)
    BY <1>2 DEF Create
  <2>2. Len(body) \in Nat /\ 0 \in 0..Len(body)
    BY <1>1, ContentIsShort, LenProperties
  <2>3. Prefix(body, 0) = <<>>
    BY <2>2, <1>1, PrefixIsContent, ContentIsShort, EmptySeq
  <2>4. Carries(p, file') /\ ~Between(p)
    BY <1>1, <2>1, <2>2, <2>3 DEF Carries, Between
  <2>5. Sound(file')
    BY <2>1 DEF Sound
  <2> HIDE DEF p
  <2>6. QED
    BY <1>1, <2>1, <2>4, <2>5, OneGoesOn DEF Orderly
<1>3. CASE ~disk
  <2>1. file' = file /\ Goto(u, Idle)
    BY <1>3 DEF Create
  <2>2. Carries(Idle, file')
    BY DEF Carries, Idle
  <2>3. Agree'
    BY <1>1, <2>1, AgreeBefore DEF Agree
  <2>4. QED
    BY <1>1, <2>1, <2>2, <2>3, OneGoesOn DEF Orderly
<1>4. QED
  BY <1>2, <1>3

LEMMA WriteOrderly ==
    ASSUME TypeOK, Orderly, NEW u \in Updaters, Write(u)
    PROVE  Orderly'
<1> DEFINE body == update[u].body
           written == update[u].written
           next == written + 1
<1>1. /\ update[u].pc = "write" /\ Running(u)
      /\ UNCHANGED <<up, db>>
  BY DEF Write, Running, procVars
<1>2. /\ body \in Content /\ Sound(body) /\ written \in 0..MaxLength
      /\ written <= Len(body) /\ file = Prefix(body, written)
      /\ update[u] = [pc |-> "write", body |-> body, written |-> written]
  BY <1>1, ProgressFacts DEF Orderly, Carries
<1>3. /\ body \in [1..Len(body) -> Block] /\ Len(body) \in Nat /\ Len(body) <= MaxLength
      /\ written \in 0..Len(body) /\ written \in Nat
  BY <1>2, ContentIsShort, LenProperties, UpdaterAssumption
<1>4. Len(file) = written /\ file \in Content
  BY <1>2, <1>3, PrefixIsContent
<1>5. CASE next > Len(body)
  <2>1. file' = file /\ Goto(u, [pc |-> "read", got |-> <<>>])
    BY <1>5, <1>3 DEF Write
  <2>2. Prefix(file, 0) = <<>> /\ 0 <= Len(file)
    BY <1>3, <1>4, PrefixIsContent, ContentIsShort, EmptySeq
  <2>3. /\ Carries([pc |-> "read", got |-> <<>>], file')
        /\ ~Between([pc |-> "read", got |-> <<>>])
    BY <2>1, <2>2, EmptySeq DEF Carries, Between
  <2>4. QED
    BY <1>1, <2>1, <2>3, OneGoesOn DEF Orderly
<1>6. CASE next <= Len(body) /\ disk
  <2> DEFINE p == [pc |-> "write", body |-> body, written |-> next]
  <2>1. next \in 1..MaxLength /\ next \in 1..Len(body) /\ next \in 0..Len(body)
    BY <1>3, <1>6, UpdaterAssumption
  <2>2. file' = Put(file, next, body[next])
    BY <1>1, <1>3, <1>6 DEF Write
  <2>3. Goto(u, [update[u] EXCEPT !.written = next])
    BY <1>1, <1>3, <1>6 DEF Write
  <2>4. Goto(u, p)
    BY <1>2, <2>3
  <2>5. body[next] \in Block
    BY <1>3, <2>1
  <2>6. file' = [j \in 1..next |-> IF j = next THEN body[next] ELSE file[j]]
    BY <1>4, <2>1, <2>2, <2>5, PutFacts
  <2>7. \A j \in 1..written : file[j] = body[j]
    BY <1>2 DEF Prefix
  <2>8. file' = Prefix(body, next)
    BY <1>3, <2>6, <2>7 DEF Prefix
  <2>9. Carries(p, file') /\ ~Between(p)
    BY <1>2, <1>6, <2>8 DEF Carries, Between
  <2>10. Sound(file')
    BY <1>2, <2>1, <2>8, PrefixIsSound
  <2> HIDE DEF p
  <2>11. QED
    BY <1>1, <2>4, <2>9, <2>10, OneGoesOn DEF Orderly
<1>7. CASE next <= Len(body) /\ ~disk
  <2>1. file' = file /\ Goto(u, Idle)
    BY <1>3, <1>7 DEF Write
  <2>2. ~Accepts(file)
    BY <1>2, <1>3, <1>7, PrefixIsSound
  <2>3. Carries(Idle, file') /\ Agree'
    BY <2>1, <2>2 DEF Carries, Idle, Agree
  <2>4. QED
    BY <1>1, <2>1, <2>3, OneGoesOn DEF Orderly
<1>8. QED
  BY <1>3, <1>5, <1>6, <1>7

LEMMA ReadOrderly ==
    ASSUME TypeOK, Orderly, NEW u \in Updaters, Read(u)
    PROVE  Orderly'
<1> DEFINE got == update[u].got
<1>1. /\ update[u].pc = "read" /\ Running(u)
      /\ UNCHANGED <<up, db, file>>
      /\ got \in Content /\ file \in Content
      /\ Len(got) <= Len(file) /\ got = Prefix(file, Len(got))
  BY ProgressFacts DEF Read, Running, Orderly, Carries, procVars, TypeOK
<1>2. Len(got) \in Nat /\ Len(file) \in Nat
  BY <1>1, ContentIsShort, LenProperties
<1>3. CASE Len(got) < Len(file)
  <2> DEFINE longer == Append(got, file[Len(got) + 1])
             p == [pc |-> "read", got |-> longer]
  <2>1. Goto(u, p)
    BY <1>3 DEF Read
  <2>2. /\ Len(longer) = Len(got) + 1 /\ Len(got) + 1 \in 1..Len(file)
        /\ longer = Prefix(file, Len(got) + 1)
    BY <1>1, <1>3, ReadOnFacts
  <2> HIDE DEF longer
  <2>3. Carries(p, file') /\ ~Between(p)
    BY <1>1, <1>2, <2>2 DEF Carries, Between
  <2> HIDE DEF p
  <2>4. QED
    BY <1>1, <2>1, <2>3, OneGoesOn DEF Orderly
<1>4. CASE ~(Len(got) < Len(file))
  <2>1. got = file
    BY <1>1, <1>2, <1>4, PrefixIsContent
  <2>2. CASE Accepts(got)
    <3>1. Goto(u, [pc |-> "assign", got |-> got])
      BY <1>4, <2>2 DEF Read
    <3>2. /\ Carries([pc |-> "assign", got |-> got], file')
          /\ ~Between([pc |-> "assign", got |-> got])
      BY <1>1, <2>1, <2>2 DEF Carries, Between
    <3>3. QED
      BY <1>1, <3>1, <3>2, OneGoesOn DEF Orderly
  <2>3. CASE ~Accepts(got)
    <3>1. Goto(u, Idle)
      BY <1>4, <2>3 DEF Read
    <3>2. Carries(Idle, file') /\ Agree'
      BY <1>1, <2>1, <2>3 DEF Carries, Idle, Agree
    <3>3. QED
      BY <1>1, <3>1, <3>2, OneGoesOn DEF Orderly
  <2>4. QED
    BY <2>2, <2>3
<1>5. QED
  BY <1>3, <1>4

\* With the process everything in memory goes; the file stays.
LEMMA GoneOrderly ==
    ASSUME Orderly, ProcessGone, file' = file
    PROVE  Orderly'
<1>1. \A w \in Updaters : update'[w].pc = "idle"
  BY DEF ProcessGone, Idle
<1>2. Alone' /\ \A w \in Updaters : Carries(update'[w], file')
  BY <1>1 DEF Alone, Running, Carries
<1>3. Agree'
  BY DEF ProcessGone, Agree
<1>4. QED
  BY <1>2, <1>3 DEF Orderly, ProcessGone

LEMMA AssignOrderly ==
    ASSUME TypeOK, Orderly, NEW u \in Updaters, Assign(u)
    PROVE  Orderly'
<1>1. /\ update[u].pc = "assign" /\ Running(u)
      /\ file' = file
      /\ update[u].got = file /\ Accepts(file)
  BY DEF Assign, Running, Orderly, Carries
<1>2. CASE db = NoDb
  BY <1>1, <1>2, GoneOrderly DEF Assign
<1>3. CASE db # NoDb
  <2>1. db' = file /\ Goto(u, Idle)
    BY <1>1, <1>3 DEF Assign
  <2>2. Genuine(db')
    BY <1>1, <2>1, AcceptedIsGenuine DEF Orderly
  <2>3. Carries(Idle, file') /\ Agree'
    BY <1>1, <2>1 DEF Carries, Idle, Agree
  <2>4. QED
    BY <1>1, <2>1, <2>2, <2>3, OneGoesOn DEF Orderly
<1>4. QED
  BY <1>2, <1>3

LEMMA IInvStep == IInv /\ [Next]_vars => IInv'
<1> SUFFICES ASSUME TypeOK, [Next]_vars, ~overlapped => Orderly, ~overlapped'
             PROVE  Orderly'
  BY TypeStep DEF IInv
<1>1. ~overlapped /\ Orderly
  <2>1. ASSUME NEW u \in Updaters, Begin(u)
        PROVE  ~overlapped
    BY <2>1 DEF Begin
  <2>2. ASSUME overlapped' = overlapped
        PROVE  ~overlapped
    BY <2>2
  <2>3. QED
    BY <2>1, <2>2
       DEF Next, Step, BeginCron, BeginManual, Updaters, Fetch, Create, Write,
           Read, Assign, Crash, Start, Weather, vars, history
<1>2. ASSUME NEW u \in Updaters, Begin(u)
      PROVE  Orderly'
  BY <1>1, <1>2, BeginOrderly
<1>3. ASSUME NEW u \in Updaters, Step(u)
      PROVE  Orderly'
  BY <1>1, <1>3, FetchOrderly, CreateOrderly, WriteOrderly, ReadOrderly,
     AssignOrderly DEF Step
<1>4. CASE Crash
  BY <1>1, <1>4, GoneOrderly DEF Crash
<1>5. CASE Start
  <2>1. UNCHANGED <<file, update>> /\ db' = Loaded(file)
    BY <1>5 DEF Start
  <2>2. db' = NoDb \/ Genuine(db')
    BY <1>1, <2>1, LoadedIsGenuine DEF Orderly
  <2>3. Agree'
    BY <2>1 DEF Agree, Loaded
  <2>4. QED
    BY <1>1, <2>1, <2>2, <2>3 DEF Orderly, Alone, Running
<1>6. CASE UNCHANGED <<procVars, file, update>>
  BY <1>1, <1>6 DEF procVars, Orderly, Alone, Running, Agree
<1>7. QED
  BY <1>2, <1>3, <1>4, <1>5, <1>6
     DEF Next, BeginCron, BeginManual, Updaters, Weather, vars

LEMMA UpdatesAreOrderly == Spec => []IInv
BY IInvInit, IInvStep, PTL DEF Spec

(* While updates do not overlap, what is served is a release as its makers *)
(* published it, wherever updates failed, files could not be written or    *)
(* the process ended.                                                      *)
THEOREM GenuineIsServed == Spec => []ServesGenuine
<1>1. IInv => ServesGenuine
  BY DEF IInv, Orderly, ServesGenuine
<1>2. QED
  BY <1>1, UpdatesAreOrderly, PTL

(* Between updates that do not overlap, a process that restarts goes on    *)
(* serving what it served, unless it cannot load its file at all.          *)
THEOREM RestartsServeTheSame == Spec => []RestartServesTheSame
<1>1. IInv => RestartServesTheSame
  BY DEF IInv, Orderly, RestartServesTheSame, Agree, Quiet, Running, Between
<1>2. QED
  BY <1>1, UpdatesAreOrderly, PTL

-----------------------------------------------------------------------------
(* In fair weather: the update downloads nothing but releases, and the     *)
(* file is sound except while it is written.                               *)

Downloads(p, i) ==
    /\ p.pc = "fetch" => p.next <= i
    /\ p.pc \in {"create", "write"} => Genuine(p.body)

FairInv(i) ==
    /\ \A u \in Updaters : Downloads(update[u], i)
    /\ (\A u \in Updaters : update[u].pc # "write") => Accepts(file)

LEMMA GenuineIsAccepted ==
    ASSUME NEW c, Genuine(c)
    PROVE  Accepts(c)
BY WholeFacts DEF Genuine

LEMMA FairGoesOn ==
    ASSUME TypeOK, NEW i, FairInv(i), NEW u \in Updaters, NEW p, Goto(u, p),
           Downloads(p, i),
           p.pc # "write" => Accepts(file')
    PROVE  FairInv(i)'
<1>1. \A w \in Updaters : update'[w] = IF w = u THEN p ELSE update[w]
  BY GotoFacts
<1>2. \A w \in Updaters : Downloads(update'[w], i)
  BY <1>1 DEF FairInv
<1>3. (\A w \in Updaters : update'[w].pc # "write") => Accepts(file')
  BY <1>1
<1>4. QED
  BY <1>2, <1>3 DEF FairInv

\* While no other update writes, the file is sound.
LEMMA FairFile ==
    ASSUME TypeOK, Orderly, NEW i, FairInv(i), NEW u \in Updaters,
           Running(u) \/ Quiet, update[u].pc # "write"
    PROVE  Accepts(file)
BY DEF Orderly, Alone, Quiet, Running, FairInv

LEMMA FairFetch ==
    ASSUME TypeOK, Orderly, NEW i \in 1..Mirrors, FairInv(i), FairWeather(i),
           NEW u \in Updaters, Fetch(u)
    PROVE  FairInv(i)'
<1> DEFINE n == update[u].next
<1>1. /\ update[u].pc = "fetch" /\ Running(u) /\ file' = file
      /\ n \in 1..Mirrors /\ n <= i
  BY ProgressFacts DEF Fetch, Running, FairInv, Downloads
<1>2. Accepts(file')
  BY <1>1, FairFile
<1>3. n < i => n \in 1..(i - 1)
  BY <1>1, UpdaterAssumption
<1>4. mirror[n] # Broken /\ (mirror[n] = Down => n < i)
  <2>1. CASE n = i
    BY <2>1, UpdaterAssumption DEF FairWeather
  <2>2. CASE n # i
    BY <2>2, <1>1, <1>3, UpdaterAssumption DEF FairWeather
  <2>3. QED
    BY <2>1, <2>2
<1>5. CASE mirror[n] = Down /\ n < Mirrors /\ Goto(u, [pc |-> "fetch", next |-> n + 1])
  <2>1. Downloads([pc |-> "fetch", next |-> n + 1], i)
    BY <1>1, <1>4, <1>5, UpdaterAssumption DEF Downloads
  <2>2. QED
    BY <1>2, <1>5, <2>1, FairGoesOn
<1>6. ASSUME NEW v \in Versions, Goto(u, [pc |-> "create", body |-> Whole(v)])
      PROVE  FairInv(i)'
  <2>1. Downloads([pc |-> "create", body |-> Whole(v)], i)
    BY WholeFacts DEF Downloads
  <2>2. QED
    BY <1>2, <1>6, <2>1, FairGoesOn
<1>7. ~(mirror[n] = Down /\ n = Mirrors)
  BY <1>1, <1>4, UpdaterAssumption
<1>8. QED
  BY <1>4, <1>5, <1>6, <1>7 DEF Fetch

LEMMA FairWrite ==
    ASSUME TypeOK, Orderly, NEW i \in 1..Mirrors, FairInv(i), FairWeather(i),
           NEW u \in Updaters, Write(u)
    PROVE  FairInv(i)'
<1> DEFINE body == update[u].body
           written == update[u].written
           next == written + 1
<1>1. /\ update[u].pc = "write"
      /\ update[u] = [pc |-> "write", body |-> body, written |-> written]
      /\ body \in Content /\ written \in 0..MaxLength /\ written <= Len(body)
      /\ file = Prefix(body, written) /\ Genuine(body)
  BY ProgressFacts DEF Write, Orderly, Carries, FairInv, Downloads
<1>2. Len(body) \in Nat /\ written \in Nat /\ written \in 0..Len(body)
  BY <1>1, ContentIsShort, LenProperties, UpdaterAssumption
<1>3. CASE next > Len(body)
  <2>1. written = Len(body)
    BY <1>1, <1>2, <1>3
  <2>2. file = body /\ file' = file
    BY <1>1, <1>2, <1>3, <2>1, PrefixIsContent DEF Write
  <2>3. Accepts(file')
    BY <1>1, <2>2, GenuineIsAccepted
  <2>4. Goto(u, [pc |-> "read", got |-> <<>>])
    BY <1>2, <1>3 DEF Write
  <2>5. Downloads([pc |-> "read", got |-> <<>>], i)
    BY DEF Downloads
  <2>6. QED
    BY <2>3, <2>4, <2>5, FairGoesOn
<1>4. CASE ~(next > Len(body))
  <2> DEFINE p == [pc |-> "write", body |-> body, written |-> next]
  <2>1. Goto(u, [update[u] EXCEPT !.written = next])
    BY <1>2, <1>4 DEF Write, FairWeather
  <2>2. Goto(u, p)
    BY <1>1, <2>1
  <2>3. Downloads(p, i) /\ p.pc = "write"
    BY <1>1 DEF Downloads
  <2> HIDE DEF p
  <2>4. QED
    BY <2>2, <2>3, FairGoesOn
<1>5. QED
  BY <1>3, <1>4

LEMMA FairStep ==
    ASSUME NEW i \in 1..Mirrors
    PROVE  /\ IInv /\ FairInv(i) /\ FairWeather(i) /\ FairWeather(i)'
           /\ [Next]_vars
           => FairInv(i)'
<1> SUFFICES ASSUME IInv, FairInv(i), FairWeather(i), FairWeather(i)', [Next]_vars
             PROVE  FairInv(i)'
  OBVIOUS
<1>1. TypeOK /\ Orderly /\ ~overlapped' /\ up' /\ disk
  BY DEF IInv, FairWeather
<1>2. ASSUME NEW u \in Updaters, Begin(u)
      PROVE  FairInv(i)'
  <2>1. Quiet /\ Goto(u, [pc |-> "fetch", next |-> 1]) /\ file' = file
    BY <1>1, <1>2 DEF Begin
  <2>2. Accepts(file')
    BY <1>1, <2>1, FairFile DEF Quiet, Running
  <2>3. Downloads([pc |-> "fetch", next |-> 1], i)
    BY UpdaterAssumption DEF Downloads
  <2>4. QED
    BY <1>1, <2>1, <2>2, <2>3, FairGoesOn
<1>3. ASSUME NEW u \in Updaters, Create(u)
      PROVE  FairInv(i)'
  <2> DEFINE p == [pc |-> "write", body |-> update[u].body, written |-> 0]
  <2>1. Goto(u, p) /\ update[u].pc = "create"
    BY <1>1, <1>3 DEF Create
  <2>2. Downloads(p, i) /\ p.pc = "write"
    BY <2>1 DEF Downloads, FairInv
  <2> HIDE DEF p
  <2>3. QED
    BY <1>1, <2>1, <2>2, FairGoesOn
<1>4. ASSUME NEW u \in Updaters, NEW p, Goto(u, p), p.pc \in {"idle", "read", "assign"},
             update[u].pc \in {"read", "assign"}, file' = file
      PROVE  FairInv(i)'
  <2>1. Accepts(file') /\ Downloads(p, i)
    BY <1>1, <1>4, FairFile DEF Running, Downloads
  <2>2. QED
    BY <1>1, <1>4, <2>1, FairGoesOn
<1>5. ASSUME NEW u \in Updaters, Read(u)
      PROVE  FairInv(i)'
  <2>1. update[u].pc = "read" /\ file' = file
    BY <1>5 DEF Read
  <2>2. \E p : Goto(u, p) /\ p.pc \in {"idle", "read", "assign"}
    BY <1>5 DEF Read, Idle
  <2>3. QED
    BY <1>4, <2>1, <2>2
<1>6. ASSUME NEW u \in Updaters, Assign(u)
      PROVE  FairInv(i)'
  <2>1. update[u].pc = "assign" /\ file' = file /\ Goto(u, Idle)
    BY <1>1, <1>6 DEF Assign, ProcessGone
  <2>2. QED
    BY <1>4, <2>1 DEF Idle
<1>7. ASSUME NEW u \in Updaters, Step(u)
      PROVE  FairInv(i)'
  BY <1>1, <1>3, <1>5, <1>6, <1>7, FairFetch, FairWrite DEF Step
<1>8. CASE UNCHANGED <<file, update>>
  BY <1>8 DEF FairInv
<1>9. QED
  BY <1>1, <1>2, <1>7, <1>8
     DEF Next, BeginCron, BeginManual, Updaters, Crash, ProcessGone, Start,
         Weather, vars

(* As long as one and the same mirror sends releases, none before it an    *)
(* error page, files can be written and the process lives, the file is     *)
(* sound after every update.                                               *)
THEOREM FairWeatherSuffices == Spec => FairWeatherKeepsTheFile
<1> SUFFICES ASSUME NEW i \in 1..Mirrors
             PROVE  Spec => (Accepts(file) /\ []FairWeather(i)
                                => [](Quiet => Accepts(file)))
  BY DEF FairWeatherKeepsTheFile
<1>1. Init /\ Accepts(file) => FairInv(i)
  BY DEF Init, FairInv, Downloads, Idle
<1>2. FairInv(i) => (Quiet => Accepts(file))
  BY DEF FairInv, Quiet, Running
<1>3. IInv /\ FairInv(i) /\ FairWeather(i) /\ FairWeather(i)' /\ [Next]_vars
      => FairInv(i)'
  BY FairStep
<1>4. QED
  BY <1>1, <1>2, <1>3, UpdatesAreOrderly, PTL DEF Spec

=============================================================================
