--------------------------- MODULE CacheBus_proofs --------------------------
(***************************************************************************)
(* The cache bus keeps what Broadcast promises, for every number of        *)
(* processes and deletions, every size of the channel and every number of  *)
(* retries and broken connections.                                         *)
(***************************************************************************)
EXTENDS CacheBus, SequenceTheorems, TLAPS

-----------------------------------------------------------------------------
(* Sequences.                                                              *)

LEMMA HeadOfConcat ==
    ASSUME NEW S, NEW a \in Seq(S), NEW b \in Seq(S), a # <<>>
    PROVE  /\ a \o b # <<>>
           /\ Head(a \o b) = Head(a)
           /\ Tail(a \o b) = Tail(a) \o b
<1> DEFINE c == a \o b
<1>1. /\ c \in Seq(S) /\ Len(c) = Len(a) + Len(b)
      /\ \A i \in 1..(Len(a) + Len(b)) :
            c[i] = IF i <= Len(a) THEN a[i] ELSE b[i - Len(a)]
  BY ConcatProperties
<1>2. Len(a) \in Nat \ {0} /\ Len(b) \in Nat
  BY EmptySeq, LenProperties
<1> HIDE DEF c
<1>3. c # <<>>
  BY <1>1, <1>2, EmptySeq
<1>4. Head(c) = Head(a)
  <2>1. c[1] = a[1]
    BY <1>1, <1>2
  <2>2. QED
    BY <2>1, <1>1, <1>3
<1>5. /\ Tail(c) \in Seq(S) /\ Len(Tail(c)) = Len(c) - 1
      /\ \A i \in 1..Len(Tail(c)) : Tail(c)[i] = c[i + 1]
      /\ Tail(a) \in Seq(S) /\ Len(Tail(a)) = Len(a) - 1
      /\ \A i \in 1..Len(Tail(a)) : Tail(a)[i] = a[i + 1]
  BY <1>1, <1>3, HeadTailProperties
<1> DEFINE d == Tail(a) \o b
<1>6. /\ d \in Seq(S) /\ Len(d) = Len(Tail(a)) + Len(b)
      /\ \A i \in 1..(Len(Tail(a)) + Len(b)) :
            d[i] = IF i <= Len(Tail(a)) THEN Tail(a)[i] ELSE b[i - Len(Tail(a))]
  BY <1>5, ConcatProperties
<1> HIDE DEF d
<1>7. Len(Tail(c)) = Len(d)
  BY <1>1, <1>2, <1>5, <1>6
<1>8. ASSUME NEW i \in 1..Len(Tail(c))
      PROVE  Tail(c)[i] = d[i]
  <2>1. /\ i \in Nat /\ i >= 1 /\ i <= Len(a) - 1 + Len(b)
        /\ i + 1 \in 1..(Len(a) + Len(b)) /\ i \in 1..(Len(Tail(a)) + Len(b))
    BY <1>1, <1>2, <1>5
  <2>2. CASE i <= Len(a) - 1
    <3>1. Tail(c)[i] = a[i + 1]
      BY <1>1, <1>2, <1>5, <2>1, <2>2
    <3>2. d[i] = a[i + 1]
      BY <1>2, <1>5, <1>6, <2>1, <2>2
    <3>3. QED
      BY <3>1, <3>2
  <2>3. CASE ~(i <= Len(a) - 1)
    <3>1. Tail(c)[i] = b[i + 1 - Len(a)]
      BY <1>1, <1>2, <1>5, <2>1, <2>3
    <3>2. d[i] = b[i - (Len(a) - 1)]
      BY <1>2, <1>5, <1>6, <2>1, <2>3
    <3>3. i + 1 - Len(a) = i - (Len(a) - 1)
      BY <1>2, <2>1
    <3>4. QED
      BY <3>1, <3>2, <3>3
  <2>4. QED
    BY <2>2, <2>3
<1>9. Tail(c) = d
  BY <1>5, <1>6, <1>7, <1>8, SeqEqual
<1>10. QED
  BY <1>3, <1>4, <1>9 DEF c, d

LEMMA PartsOfConcat ==
    ASSUME NEW S, NEW a \in Seq(S), NEW b \in Seq(S)
    PROVE  /\ Len(a) \in 0..Len(a \o b)
           /\ SubSeq(a \o b, 1, Len(a)) = a
           /\ SubSeq(a \o b, Len(a) + 1, Len(a \o b)) = b
<1> DEFINE c == a \o b
<1>1. /\ c \in Seq(S) /\ Len(c) = Len(a) + Len(b)
      /\ \A i \in 1..(Len(a) + Len(b)) :
            c[i] = IF i <= Len(a) THEN a[i] ELSE b[i - Len(a)]
  BY ConcatProperties
<1>2. Len(a) \in Nat /\ Len(b) \in Nat /\ \A i \in 1..Len(c) : c[i] \in S
  BY <1>1, LenProperties, ElementOfSeq
<1> HIDE DEF c
<1>3. SubSeq(c, 1, Len(a)) = a
  <2> DEFINE d == SubSeq(c, 1, Len(a))
  <2>1. /\ d \in Seq(S)
        /\ Len(d) = IF 1 <= Len(a) THEN Len(a) - 1 + 1 ELSE 0
        /\ \A i \in 1..(Len(a) - 1 + 1) : d[i] = c[1 + i - 1]
    <3>1. \A i \in 1..Len(a) : c[i] \in S
      BY <1>1, <1>2
    <3>2. QED
      BY <1>2, <3>1, SubSeqProperties
  <2> HIDE DEF d
  <2>2. Len(d) = Len(a) /\ \A i \in 1..Len(a) : d[i] = a[i]
    BY <1>1, <1>2, <2>1
  <2>3. d = a
    BY <2>1, <2>2, SeqEqual
  <2>4. QED
    BY <2>3 DEF d
<1>4. SubSeq(c, Len(a) + 1, Len(c)) = b
  <2> DEFINE d == SubSeq(c, Len(a) + 1, Len(c))
  <2>1. /\ d \in Seq(S)
        /\ Len(d) = IF Len(a) + 1 <= Len(c) THEN Len(c) - (Len(a) + 1) + 1 ELSE 0
        /\ \A i \in 1..(Len(c) - (Len(a) + 1) + 1) : d[i] = c[Len(a) + 1 + i - 1]
    <3>1. \A i \in (Len(a) + 1)..Len(c) : c[i] \in S
      BY <1>1, <1>2
    <3>2. Len(a) + 1 \in Int /\ Len(c) \in Int
      BY <1>1, <1>2
    <3>3. QED
      BY <3>1, <3>2, SubSeqProperties
  <2> HIDE DEF d
  <2>2. Len(d) = Len(b)
    BY <1>1, <1>2, <2>1
  <2>3. ASSUME NEW i \in 1..Len(b)
        PROVE  d[i] = b[i]
    <3>1. d[i] = c[Len(a) + i]
      BY <1>1, <1>2, <2>1
    <3>2. /\ Len(a) + i \in 1..(Len(a) + Len(b)) /\ ~(Len(a) + i <= Len(a))
          /\ Len(a) + i - Len(a) = i
      BY <1>2
    <3>3. QED
      BY <1>1, <3>1, <3>2
  <2>4. d = b
    BY <2>1, <2>2, <2>3, SeqEqual
  <2>5. QED
    BY <2>4 DEF d
<1>5. QED
  BY <1>1, <1>2, <1>3, <1>4 DEF c

LEMMA FirstAndRest ==
    ASSUME NEW S, NEW a \in Seq(S), a # <<>>
    PROVE  /\ Head(a) \in S /\ Tail(a) \in Seq(S)
           /\ a = <<Head(a)>> \o Tail(a)
<1>1. Len(a) \in Nat \ {0}
  BY EmptySeq
<1>2. SubSeq(a, 1, Len(a)) = <<a[1]>> \o SubSeq(a, 1 + 1, Len(a))
  BY <1>1, SubSeqRecursiveFirst
<1>3. SubSeq(a, 1, Len(a)) = a /\ Tail(a) = SubSeq(a, 2, Len(a)) /\ 1 + 1 = 2
  BY SubSeqFull, TailIsSubSeq
<1>4. Head(a) = a[1]
  OBVIOUS
<1>5. QED
  BY <1>2, <1>3, <1>4, HeadTailProperties

-----------------------------------------------------------------------------
(* Types.  What may still arrive late of a call of Pub is counted by its   *)
(* attempts.                                                               *)

Connection == [up : BOOLEAN, on : Seq(Messages), breaks : 0..MaxBreaks,
               closed : BOOLEAN]

Call == [pc : {"idle", "waiting", "ok", "error"}, tried : 0..(MaxRetries + 1),
         awaited : BOOLEAN, late : 0..(MaxRetries + 1), reply : BOOLEAN]

Attempted(c) ==
    /\ c.pc = "idle" => c.tried = 0
    /\ c.late + (IF c.awaited THEN 1 ELSE 0) <= c.tried

CallInv == call \in [Messages -> Call] /\ \A m \in Messages : Attempted(call[m])

BusInv ==
    /\ size \in Sizes
    /\ conn \in [Subscribers -> Connection]
    /\ hand \in [Subscribers -> Messages \cup {None}]
    /\ chan \in [Subscribers -> Seq(Messages)]
    /\ \A s \in Subscribers : Len(chan[s]) <= size
    /\ loop \in [Subscribers -> {"polling", "callback", "returned"}]
    /\ heard \in [Subscribers -> SUBSET Messages]
    /\ missed \in [Subscribers -> SUBSET Messages]

LEMMA TypesInit == Init => CallInv /\ BusInv
<1> SUFFICES ASSUME Init PROVE CallInv /\ BusInv
  OBVIOUS
<1>1. <<>> \in Seq(Messages) /\ Len(<<>>) = 0
  BY EmptySeq
<1>2. CallInv
  BY BusAssumption DEF Init, CallInv, Call, Attempted
<1>3. BusInv
  <2>1. [up |-> FALSE, on |-> <<>>, breaks |-> 0, closed |-> FALSE] \in Connection
    BY <1>1, BusAssumption DEF Connection
  <2>2. conn \in [Subscribers -> Connection]
    BY <2>1 DEF Init
  <2>3. size \in Nat
    BY BusAssumption DEF Init
  <2>4. \A s \in Subscribers : Len(chan[s]) <= size
    BY <1>1, <2>3 DEF Init
  <2>5. QED
    BY <1>1, <2>2, <2>4 DEF Init, BusInv
<1>4. QED
  BY <1>2, <1>3

LEMMA TryingFacts ==
    ASSUME NEW c \in Call, c.tried <= MaxRetries
    PROVE  /\ Trying(c) \in Call
           /\ Trying(c).pc = "waiting"
           /\ Trying(c).tried = c.tried + 1
           /\ Trying(c).awaited = TRUE
           /\ Trying(c).late = c.late
           /\ Trying(c).reply = FALSE
<1>1. c.tried + 1 \in 0..(MaxRetries + 1)
  BY BusAssumption DEF Call
<1>2. Trying(c) \in Call
  BY <1>1 DEF Call, Trying
<1>3. Trying(c).pc = "waiting"
  BY DEF Call, Trying
<1>4. Trying(c).tried = c.tried + 1
  BY DEF Call, Trying
<1>5. Trying(c).awaited = TRUE
  BY DEF Call, Trying
<1>6. Trying(c).late = c.late
  BY DEF Call, Trying
<1>7. Trying(c).reply = FALSE
  BY DEF Call, Trying
<1>8. QED
  BY <1>2, <1>3, <1>4, <1>5, <1>6, <1>7

LEMMA GivenUpFacts ==
    ASSUME NEW c \in Call, Attempted(c)
    PROVE  /\ GivenUp(c) \in Call
           /\ GivenUp(c).pc = c.pc
           /\ GivenUp(c).tried = c.tried
           /\ GivenUp(c).awaited = FALSE
           /\ GivenUp(c).late = c.late + IF c.awaited THEN 1 ELSE 0
           /\ GivenUp(c).reply = FALSE
<1> DEFINE late == IF c.awaited THEN c.late + 1 ELSE c.late
<1>1. late \in 0..(MaxRetries + 1) /\ late = c.late + IF c.awaited THEN 1 ELSE 0
  BY BusAssumption DEF Call, Attempted
<1>2. GivenUp(c) = [c EXCEPT !.awaited = FALSE, !.reply = FALSE, !.late = late]
  BY DEF GivenUp
<1> HIDE DEF late
<1>3. GivenUp(c) \in Call
  BY <1>1, <1>2 DEF Call
<1>4. GivenUp(c).pc = c.pc
  BY <1>2 DEF Call
<1>5. GivenUp(c).tried = c.tried
  BY <1>2 DEF Call
<1>6. GivenUp(c).awaited = FALSE
  BY <1>2 DEF Call
<1>7. GivenUp(c).late = late
  BY <1>2 DEF Call
<1>8. GivenUp(c).reply = FALSE
  BY <1>2 DEF Call
<1>9. QED
  BY <1>1, <1>3, <1>4, <1>5, <1>6, <1>7, <1>8

LEMMA CallStep == CallInv /\ [Next]_vars => CallInv'
<1> SUFFICES ASSUME CallInv, [Next]_vars PROVE CallInv'
  OBVIOUS
<1>1. ASSUME NEW m \in Messages, NEW c \in Call, Attempted(c),
             call' = [call EXCEPT ![m] = c]
      PROVE  CallInv'
  BY <1>1 DEF CallInv
<1>2. ASSUME NEW c \in Call, Attempted(c), c.tried <= MaxRetries, ~c.awaited
      PROVE  Trying(c) \in Call /\ Attempted(Trying(c))
  <2> DEFINE d == Trying(c)
  <2>1. /\ d \in Call /\ d.pc = "waiting" /\ d.tried = c.tried + 1
        /\ d.awaited = TRUE /\ d.late = c.late
    BY <1>2, TryingFacts
  <2>2. c.late \in Nat /\ c.tried \in Nat
    BY DEF Call
  <2>3. c.late + 0 <= c.tried
    BY <1>2, <2>2 DEF Attempted
  <2> HIDE DEF d
  <2>4. d.late + 1 <= d.tried
    BY <2>1, <2>2, <2>3
  <2>5. Attempted(d)
    BY <2>1, <2>4 DEF Attempted
  <2>6. QED
    BY <2>1, <2>5 DEF d
<1>3. ASSUME NEW c \in Call, Attempted(c), c.pc = "waiting"
      PROVE  /\ GivenUp(c) \in Call /\ Attempted(GivenUp(c))
             /\ GivenUp(c).pc = "waiting" /\ ~GivenUp(c).awaited
             /\ GivenUp(c).tried = c.tried
  <2> DEFINE d == GivenUp(c)
             due == c.late + IF c.awaited THEN 1 ELSE 0
  <2>1. /\ d \in Call /\ d.pc = "waiting" /\ d.tried = c.tried
        /\ d.awaited = FALSE /\ d.late = due
    BY <1>3, GivenUpFacts
  <2>2. due \in Nat /\ due <= c.tried
    BY <1>3 DEF Call, Attempted
  <2> HIDE DEF d, due
  <2>3. d.late + 0 <= d.tried
    BY <2>1, <2>2
  <2>4. Attempted(d)
    BY <2>1, <2>3 DEF Attempted
  <2>5. QED
    BY <2>1, <2>4 DEF d
<1>4. ASSUME NEW m \in Messages, Pub(m)
      PROVE  CallInv'
  <2>1. call[m] \in Call /\ Attempted(call[m]) /\ call[m].tried = 0
        /\ call[m].pc # "error"
    BY <1>4 DEF Pub, CallInv, Attempted
  <2>2. ~call[m].awaited
    BY <2>1, BusAssumption DEF Call, Attempted
  <2>3. 0 <= MaxRetries
    BY BusAssumption
  <2>4. QED
    BY <1>1, <1>2, <1>4, <2>1, <2>2, <2>3 DEF Pub
<1>5. ASSUME NEW m \in Messages, PubFails(m)
      PROVE  CallInv'
  <2> DEFINE g == GivenUp(call[m])
  <2>1. call[m] \in Call /\ Attempted(call[m]) /\ call[m].pc = "waiting"
    BY <1>5 DEF PubFails, CallInv
  <2>2. /\ g \in Call /\ Attempted(g) /\ g.pc = "waiting" /\ ~g.awaited
        /\ g.tried = call[m].tried
    BY <1>3, <2>1
  <2>3. call' = [call EXCEPT ![m] = IF call[m].tried <= MaxRetries
                                    THEN Trying(g)
                                    ELSE [g EXCEPT !.pc = "error"]]
    BY <1>5 DEF PubFails
  <2> HIDE DEF g
  <2>4. [g EXCEPT !.pc = "error"] \in Call /\ Attempted([g EXCEPT !.pc = "error"])
    BY <2>2 DEF Call, Attempted
  <2>5. CASE call[m].tried <= MaxRetries
    BY <1>1, <1>2, <2>2, <2>3, <2>5
  <2>6. CASE ~(call[m].tried <= MaxRetries)
    BY <1>1, <2>3, <2>4, <2>6
  <2>7. QED
    BY <2>5, <2>6
<1>6. ASSUME NEW m \in Messages, PubReturns(m)
      PROVE  CallInv'
  <2> DEFINE c == [call[m] EXCEPT !.pc = "ok", !.reply = FALSE]
  <2>1. call[m] \in Call /\ Attempted(call[m])
    BY DEF CallInv
  <2>2. c \in Call /\ Attempted(c)
    BY <2>1 DEF Call, Attempted
  <2>3. call' = [call EXCEPT ![m] = c]
    BY <1>6 DEF PubReturns, CallInv
  <2> HIDE DEF c
  <2>4. QED
    BY <1>1, <2>2, <2>3
<1>7. ASSUME NEW m \in Messages, Publish(m)
      PROVE  CallInv'
  <2>1. call[m] \in Call /\ Attempted(call[m])
    BY DEF CallInv
  <2>2. CASE call[m].awaited
             /\ call' = [call EXCEPT ![m].awaited = FALSE, ![m].reply = TRUE]
    <3> DEFINE c == [call[m] EXCEPT !.awaited = FALSE, !.reply = TRUE]
    <3>1. c \in Call
      BY <2>1 DEF Call
    <3>2. c.pc = call[m].pc
      BY <2>1 DEF Call
    <3>3. c.tried = call[m].tried
      BY <2>1 DEF Call
    <3>4. c.awaited = FALSE
      BY <2>1 DEF Call
    <3>5. c.late = call[m].late
      BY <2>1 DEF Call
    <3>6. call' = [call EXCEPT ![m] = c]
      BY <2>2 DEF CallInv
    <3> HIDE DEF c
    <3>7. Attempted(c)
      BY <2>1, <2>2, <3>2, <3>3, <3>4, <3>5, BusAssumption DEF Call, Attempted
    <3>8. QED
      BY <1>1, <3>1, <3>6, <3>7
  <2>3. CASE call[m].late > 0 /\ call' = [call EXCEPT ![m].late = @ - 1]
    <3> DEFINE c == [call[m] EXCEPT !.late = @ - 1]
    <3>1. c = [pc |-> call[m].pc, tried |-> call[m].tried,
               awaited |-> call[m].awaited, late |-> call[m].late - 1,
               reply |-> call[m].reply]
      BY <2>1 DEF Call
    <3>2. call[m].late - 1 \in 0..(MaxRetries + 1)
      BY <2>1, <2>3, BusAssumption DEF Call
    <3>3. call[m].pc = "idle" => FALSE
      BY <2>1, <2>3, BusAssumption DEF Call, Attempted
    <3>4. c \in Call /\ Attempted(c)
      BY <2>1, <2>3, <3>1, <3>2, <3>3, BusAssumption DEF Call, Attempted
    <3>5. call' = [call EXCEPT ![m] = c]
      BY <2>3 DEF CallInv
    <3> HIDE DEF c
    <3>6. QED
      BY <1>1, <3>4, <3>5
  <2>4. QED
    BY <1>7, <2>2, <2>3 DEF Publish
<1>8. CASE UNCHANGED call
  BY <1>8 DEF CallInv
<1>9. QED
  BY ZenonT(40), <1>4, <1>5, <1>6, <1>7, <1>8
     DEF Next, Sub, Receive, CallbackReturns, Return, Redis, Connect, Break, Close,
         Disconnected, Read, Put, Drop, vars

LEMMA ConnFacts ==
    ASSUME BusInv, NEW s \in Subscribers
    PROVE  /\ conn[s] \in Connection /\ conn[s].on \in Seq(Messages)
           /\ hand[s] \in Messages \cup {None}
           /\ chan[s] \in Seq(Messages) /\ Len(chan[s]) \in Nat
           /\ Len(chan[s]) <= size /\ size \in Nat
<1>1. size \in Nat
  BY BusAssumption DEF BusInv
<1>2. conn[s] \in Connection /\ chan[s] \in Seq(Messages)
  BY DEF BusInv
<1>3. QED
  BY <1>1, <1>2, LenProperties DEF BusInv, Connection

LEMMA BusStep == BusInv /\ [Next]_vars => BusInv'
<1> SUFFICES ASSUME BusInv, [Next]_vars PROVE BusInv'
  OBVIOUS
<1>1. ASSUME NEW m \in Messages, Publish(m)
      PROVE  BusInv'
  <2>1. ASSUME NEW s \in Subscribers
        PROVE  [conn[s] EXCEPT !.on = Append(@, m)] \in Connection
    <3>1. Append(conn[s].on, m) \in Seq(Messages)
      BY ConnFacts, AppendProperties
    <3>2. QED
      BY <3>1, ConnFacts DEF Connection
  <2>2. conn' \in [Subscribers -> Connection]
    BY <1>1, <2>1, ConnFacts DEF Publish
  <2>3. missed' \in [Subscribers -> SUBSET Messages]
    BY <1>1 DEF Publish, BusInv
  <2>4. QED
    BY <1>1, <2>2, <2>3 DEF Publish, BusInv
<1>2. ASSUME NEW s \in Subscribers, Connect(s)
      PROVE  BusInv'
  <2>1. [conn[s] EXCEPT !.up = TRUE] \in Connection
    BY ConnFacts DEF Connection
  <2>2. conn' \in [Subscribers -> Connection]
    BY <1>2, <2>1 DEF Connect, BusInv
  <2>3. QED
    BY <1>2, <2>2 DEF Connect, BusInv
<1>3. ASSUME NEW s \in Subscribers, NEW closed \in BOOLEAN, Disconnected(s, closed),
             ~closed => conn[s].breaks < MaxBreaks
      PROVE  BusInv'
  <2> DEFINE breaks == IF closed THEN conn[s].breaks ELSE conn[s].breaks + 1
             k == [conn[s] EXCEPT !.up = FALSE, !.on = <<>>, !.closed = closed,
                                  !.breaks = breaks]
  <2>1. breaks \in 0..MaxBreaks
    BY <1>3, ConnFacts, BusAssumption DEF Connection
  <2>2. <<>> \in Seq(Messages) /\ conn[s] \in Connection
    BY EmptySeq, ConnFacts
  <2>3. k \in Connection
    BY <2>1, <2>2 DEF Connection
  <2>4. conn' \in [Subscribers -> Connection]
    <3>1. conn' = [t \in Subscribers |-> IF t = s THEN k ELSE conn[t]]
      BY <1>3 DEF Disconnected, BusInv
    <3> HIDE DEF k
    <3>2. QED
      BY <2>3, <3>1 DEF BusInv
  <2>5. Carried(s) \subseteq Messages
    BY ConnFacts, ElementOfSeq DEF Carried
  <2>6. missed' \in [Subscribers -> SUBSET Messages]
    BY <1>3, <2>5 DEF Disconnected, BusInv
  <2>7. QED
    BY <1>3, <2>4, <2>6 DEF Disconnected, BusInv
<1>4. ASSUME NEW s \in Subscribers, Read(s)
      PROVE  BusInv'
  <2>1. Head(conn[s].on) \in Messages /\ Tail(conn[s].on) \in Seq(Messages)
    BY <1>4, ConnFacts, FirstAndRest DEF Read
  <2>2. [conn[s] EXCEPT !.on = Tail(@)] \in Connection
    BY <2>1, ConnFacts DEF Connection
  <2>3. conn' \in [Subscribers -> Connection]
    BY <1>4, <2>2 DEF Read, BusInv
  <2>4. QED
    BY <1>4, <2>1, <2>3 DEF Read, BusInv
<1>5. ASSUME NEW s \in Subscribers, Put(s)
      PROVE  BusInv'
  <2> DEFINE longer == Append(chan[s], hand[s])
  <2>1. hand[s] \in Messages
    BY <1>5, ConnFacts DEF Put
  <2>2. longer \in Seq(Messages) /\ Len(longer) = Len(chan[s]) + 1
    BY <2>1, ConnFacts, AppendProperties
  <2>3. Len(longer) <= size
    BY <1>5, <2>2, ConnFacts DEF Put
  <2>4. chan' = [chan EXCEPT ![s] = longer]
    BY <1>5 DEF Put
  <2> HIDE DEF longer
  <2>5. /\ chan' \in [Subscribers -> Seq(Messages)]
        /\ \A t \in Subscribers : Len(chan'[t]) <= size
    BY <2>2, <2>3, <2>4 DEF BusInv
  <2>6. QED
    BY <1>5, <2>5 DEF Put, BusInv
<1>6. ASSUME NEW s \in Subscribers, Drop(s)
      PROVE  BusInv'
  BY <1>6, ConnFacts DEF Drop, BusInv
<1>7. ASSUME NEW s \in Subscribers, Receive(s)
      PROVE  BusInv'
  <2>1. CASE /\ chan[s] # <<>>
             /\ Callback(s, Head(chan[s]))
             /\ chan' = [chan EXCEPT ![s] = Tail(@)]
             /\ UNCHANGED hand
    <3>1. /\ Head(chan[s]) \in Messages /\ Tail(chan[s]) \in Seq(Messages)
          /\ Len(Tail(chan[s])) = Len(chan[s]) - 1
      BY <2>1, ConnFacts, HeadTailProperties
    <3>2. Len(Tail(chan[s])) <= size
      BY <3>1, ConnFacts
    <3> DEFINE shorter == Tail(chan[s])
    <3>3. chan' = [chan EXCEPT ![s] = shorter]
      BY <2>1
    <3> HIDE DEF shorter
    <3>4. /\ chan' \in [Subscribers -> Seq(Messages)]
          /\ \A t \in Subscribers : Len(chan'[t]) <= size
      BY <3>1, <3>2, <3>3 DEF BusInv, shorter
    <3>5. QED
      BY ZenonT(40), <1>7, <2>1, <3>1, <3>4 DEF Receive, Callback, BusInv
  <2>2. CASE /\ hand[s] # None
             /\ Callback(s, hand[s])
             /\ hand' = [hand EXCEPT ![s] = None]
             /\ UNCHANGED chan
    BY <1>7, <2>2, ConnFacts DEF Receive, Callback, BusInv
  <2>3. QED
    BY <1>7, <2>1, <2>2 DEF Receive
<1>8. ASSUME NEW s \in Subscribers, CallbackReturns(s) \/ Return(s)
      PROVE  BusInv'
  BY ZenonT(40), <1>8 DEF CallbackReturns, Return, BusInv
<1>9. CASE UNCHANGED <<size, subscription, heard, missed>>
  BY <1>9 DEF subscription, BusInv
<1>10. QED
  BY <1>1, <1>2, <1>3, <1>4, <1>5, <1>6, <1>7, <1>8, <1>9
     DEF Next, Sub, Redis, Break, Close, Pub, PubFails, PubReturns, vars

LEMMA BusTypes == Spec => [](CallInv /\ BusInv)
BY TypesInit, CallStep, BusStep, PTL DEF Spec

(* Every variable keeps its type: the channel never holds more than its    *)
(* size, and a call is attempted no more often than MaxRetries allows.     *)
THEOREM TypesHold == Spec => []TypeOK
<1>1. CallInv /\ BusInv => TypeOK
  BY DEF CallInv, Call, BusInv, Connection, TypeOK
<1>2. QED
  BY <1>1, BusTypes, PTL

-----------------------------------------------------------------------------
(* What is owed, piece by piece.                                           *)

LEMMA InSeqOfConcat ==
    ASSUME NEW S, NEW a \in Seq(S), NEW b \in Seq(S)
    PROVE  AbstractBus!InSeq(a \o b) = AbstractBus!InSeq(a) \cup AbstractBus!InSeq(b)
<1> DEFINE c == a \o b
<1>1. /\ c \in Seq(S) /\ Len(c) = Len(a) + Len(b)
      /\ \A i \in 1..(Len(a) + Len(b)) :
            c[i] = IF i <= Len(a) THEN a[i] ELSE b[i - Len(a)]
  BY ConcatProperties
<1>2. Len(a) \in Nat /\ Len(b) \in Nat
  BY LenProperties
<1> HIDE DEF c
<1>3. ASSUME NEW i \in 1..Len(c)
      PROVE  \/ \E j \in 1..Len(a) : a[j] = c[i]
             \/ \E j \in 1..Len(b) : b[j] = c[i]
  <2>1. i \in Nat /\ 1 <= i /\ i <= Len(a) + Len(b)
    BY <1>1, <1>2
  <2>2. CASE i <= Len(a)
    BY <1>1, <1>2, <2>1, <2>2
  <2>3. CASE ~(i <= Len(a))
    <3>1. i - Len(a) \in 1..Len(b)
      BY <1>2, <2>1, <2>3
    <3>2. c[i] = b[i - Len(a)]
      BY <1>1, <1>2, <2>1, <2>3
    <3>3. QED
      BY <3>1, <3>2
  <2>4. QED
    BY <2>2, <2>3
<1>4. ASSUME NEW j \in 1..Len(a)
      PROVE  j \in 1..Len(c) /\ c[j] = a[j]
  BY <1>1, <1>2
<1>5. ASSUME NEW j \in 1..Len(b)
      PROVE  Len(a) + j \in 1..Len(c) /\ c[Len(a) + j] = b[j]
  <2>1. /\ Len(a) + j \in 1..(Len(a) + Len(b)) /\ ~(Len(a) + j <= Len(a))
        /\ Len(a) + j - Len(a) = j
    BY <1>2
  <2>2. QED
    BY <1>1, <2>1
<1>6. AbstractBus!InSeq(c) = AbstractBus!InSeq(a) \cup AbstractBus!InSeq(b)
  <2>1. ASSUME NEW x \in AbstractBus!InSeq(c)
        PROVE  x \in AbstractBus!InSeq(a) \cup AbstractBus!InSeq(b)
    BY <1>3 DEF AbstractBus!InSeq
  <2>2. ASSUME NEW x \in AbstractBus!InSeq(a)
        PROVE  x \in AbstractBus!InSeq(c)
    BY <1>4 DEF AbstractBus!InSeq
  <2>3. ASSUME NEW x \in AbstractBus!InSeq(b)
        PROVE  x \in AbstractBus!InSeq(c)
    BY <1>5 DEF AbstractBus!InSeq
  <2>4. QED
    BY <2>1, <2>2, <2>3
<1>7. QED
  BY <1>6 DEF c

LEMMA InSeqOfOne ==
    ASSUME NEW S, NEW m \in S
    PROVE  <<m>> \in Seq(S) /\ AbstractBus!InSeq(<<m>>) = {m}
BY DEF AbstractBus!InSeq

\* What is owed to one subscriber, from its channel, its hand and its connection.
Line(c, h, o) == c \o (IF h = None THEN <<>> ELSE <<h>>) \o o

LEMMA LineOf ==
    ASSUME NEW c \in Seq(Messages), NEW o \in Seq(Messages)
    PROVE  /\ Line(c, None, o) = c \o o /\ c \o o \in Seq(Messages)
           /\ \A h \in Messages :
                 /\ Line(c, h, o) = c \o (<<h>> \o o)
                 /\ Line(c, h, o) = (c \o <<h>>) \o o
                 /\ <<h>> \o o \in Seq(Messages)
                 /\ Line(c, h, o) \in Seq(Messages)
<1>1. Line(c, None, o) = c \o o
  BY ConcatEmptySeq DEF Line
<1>2. c \o o \in Seq(Messages)
  BY ConcatProperties
<1>3. ASSUME NEW h \in Messages
      PROVE  /\ Line(c, h, o) = c \o (<<h>> \o o)
             /\ Line(c, h, o) = (c \o <<h>>) \o o
             /\ <<h>> \o o \in Seq(Messages)
             /\ Line(c, h, o) \in Seq(Messages)
  <2>1. <<h>> \in Seq(Messages) /\ h # None
    BY BusAssumption
  <2>2. Line(c, h, o) = (c \o <<h>>) \o o
    BY <2>1 DEF Line
  <2>3. <<h>> \o o \in Seq(Messages)
    BY <2>1, ConcatProperties
  <2>4. (c \o <<h>>) \o o = c \o (<<h>> \o o)
    BY <2>1, ConcatAssociative
  <2>5. c \o (<<h>> \o o) \in Seq(Messages)
    BY <2>3, ConcatProperties
  <2>6. QED
    BY <2>2, <2>3, <2>4, <2>5
<1>4. QED
  BY <1>1, <1>2, <1>3

LEMMA OwedIsLine ==
    /\ Owed = [s \in Subscribers |-> Line(chan[s], hand[s], conn[s].on)]
    /\ Owed' = [s \in Subscribers |-> Line(chan'[s], hand'[s], conn'[s].on)]
BY DEF Owed, InHand, Line

LEMMA OwedType == BusInv => Owed \in [Subscribers -> Seq(Messages)]
<1> SUFFICES ASSUME BusInv, NEW s \in Subscribers
             PROVE  Line(chan[s], hand[s], conn[s].on) \in Seq(Messages)
  BY OwedIsLine
<1>1. /\ chan[s] \in Seq(Messages) /\ conn[s].on \in Seq(Messages)
      /\ hand[s] \in Messages \cup {None}
  BY ConnFacts
<1>2. CASE hand[s] = None
  BY <1>1, <1>2, LineOf
<1>3. CASE hand[s] \in Messages
  <2> DEFINE h == hand[s]
  <2> HIDE DEF h
  <2>1. h \in Messages => Line(chan[s], h, conn[s].on) \in Seq(Messages)
    BY <1>1, LineOf
  <2>2. QED
    BY <1>3, <2>1 DEF h
<1>4. QED
  BY <1>1, <1>2, <1>3

\* A step that concerns s leaves what is owed to others.
LEMMA OwedToOthers ==
    ASSUME NEW s \in Subscribers,
           \A t \in Subscribers \ {s} :
               chan'[t] = chan[t] /\ hand'[t] = hand[t] /\ conn'[t].on = conn[t].on
    PROVE  Owed' = [Owed EXCEPT ![s] = Line(chan'[s], hand'[s], conn'[s].on)]
BY OwedIsLine

LEMMA OwedUnchanged ==
    ASSUME NEW s \in Subscribers,
           \A t \in Subscribers \ {s} :
               chan'[t] = chan[t] /\ hand'[t] = hand[t] /\ conn'[t].on = conn[t].on,
           Line(chan'[s], hand'[s], conn'[s].on) = Line(chan[s], hand[s], conn[s].on)
    PROVE  Owed' = Owed
BY OwedIsLine, OwedToOthers

-----------------------------------------------------------------------------
(* What Broadcast never takes back: who is owed a message, has heard it or *)
(* missed it, stays so.                                                    *)

Cover(s) == AbstractBus!InSeq(Owed[s]) \cup heard[s] \cup missed[s]

LEMMA SplitAt ==
    ASSUME NEW S, NEW q \in Seq(S), NEW n \in 0..(Len(q) - 1)
    PROVE  /\ SubSeq(q, 1, n) \in Seq(S)
           /\ SubSeq(q, n + 1, Len(q)) \in Seq(S)
           /\ SubSeq(q, n + 1, Len(q)) # <<>>
           /\ q = SubSeq(q, 1, n) \o SubSeq(q, n + 1, Len(q))
<1>1. Len(q) \in Nat /\ n \in Nat /\ n + 1 <= Len(q)
  BY LenProperties
<1>2. \A i \in 1..Len(q) : q[i] \in S
  BY ElementOfSeq
<1>3. SubSeq(q, 1, n) \in Seq(S)
  BY <1>1, <1>2, SubSeqProperties
<1>4. /\ SubSeq(q, n + 1, Len(q)) \in Seq(S)
      /\ Len(SubSeq(q, n + 1, Len(q))) = Len(q) - (n + 1) + 1
  <2>1. \A i \in (n + 1)..Len(q) : q[i] \in S
    BY <1>1, <1>2
  <2>2. n + 1 \in Int /\ Len(q) \in Int /\ n + 1 <= Len(q)
    BY <1>1
  <2>3. QED
    BY <2>1, <2>2, SubSeqProperties
<1>5. SubSeq(q, n + 1, Len(q)) # <<>>
  <2> DEFINE rest == SubSeq(q, n + 1, Len(q))
  <2>1. rest \in Seq(S) /\ Len(rest) = Len(q) - (n + 1) + 1
    BY <1>4
  <2> HIDE DEF rest
  <2>2. Len(rest) # 0
    BY <1>1, <2>1
  <2>3. rest # <<>>
    BY <2>1, <2>2, EmptySeq
  <2>4. QED
    BY <2>3 DEF rest
<1>6. SubSeq(q, 1, n) \o SubSeq(q, n + 1, Len(q)) = SubSeq(q, 1, Len(q))
  <2>1. 1 \in 1..(Len(q) + 1) /\ n \in (1 - 1)..Len(q) /\ Len(q) \in n..Len(q)
    BY <1>1
  <2>2. QED
    BY <2>1, ConcatAdjacentSubSeq
<1>7. QED
  BY <1>3, <1>4, <1>5, <1>6, SubSeqFull

LEMMA InSeqOfFirst ==
    ASSUME NEW S, NEW a \in Seq(S), a # <<>>
    PROVE  /\ Head(a) \in S /\ Tail(a) \in Seq(S)
           /\ AbstractBus!InSeq(a) = {Head(a)} \cup AbstractBus!InSeq(Tail(a))
<1> DEFINE one  == <<Head(a)>>
           rest == Tail(a)
<1>1. Head(a) \in S /\ rest \in Seq(S) /\ a = one \o rest
  BY FirstAndRest
<1>2. one \in Seq(S) /\ AbstractBus!InSeq(one) = {Head(a)}
  BY <1>1, InSeqOfOne
<1> HIDE DEF one, rest
<1>3. AbstractBus!InSeq(one \o rest) = AbstractBus!InSeq(one) \cup AbstractBus!InSeq(rest)
  BY <1>1, <1>2, InSeqOfConcat
<1>4. AbstractBus!InSeq(a) = {Head(a)} \cup AbstractBus!InSeq(rest)
  BY <1>1, <1>2, <1>3
<1>5. QED
  BY <1>1, <1>4 DEF rest

LEMMA CoverGrows ==
    ASSUME Owed \in [Subscribers -> Seq(Messages)],
           heard \in [Subscribers -> SUBSET Messages],
           missed \in [Subscribers -> SUBSET Messages],
           [AbstractBus!Next]_(AbstractBus!vars),
           NEW s \in Subscribers
    PROVE  Cover(s) \subseteq Cover(s)'
<1> DEFINE q == Owed[s]
<1>1. q \in Seq(Messages)
  OBVIOUS
<1>2. ASSUME NEW m \in Messages, AbstractBus!Publish(m)
      PROVE  Cover(s) \subseteq Cover(s)'
  <2>1. AbstractBus!InSeq(Append(q, m)) = AbstractBus!InSeq(q) \cup {m}
    <3> DEFINE one == <<m>>
    <3>1. one \in Seq(Messages) /\ AbstractBus!InSeq(one) = {m} /\ Append(q, m) = q \o one
      BY <1>1, InSeqOfOne, AppendIsConcat
    <3> HIDE DEF one, q
    <3>2. AbstractBus!InSeq(q \o one) = AbstractBus!InSeq(q) \cup AbstractBus!InSeq(one)
      BY <1>1, <3>1, InSeqOfConcat
    <3>3. QED
      BY <3>1, <3>2
  <2>2. heard'[s] = heard[s] /\ missed[s] \subseteq missed'[s]
    BY <1>2 DEF AbstractBus!Publish
  <2>3. Owed'[s] = Append(q, m) \/ Owed'[s] = q
    BY <1>2 DEF AbstractBus!Publish
  <2>4. AbstractBus!InSeq(q) \subseteq AbstractBus!InSeq(Owed'[s])
    BY <2>1, <2>3
  <2>5. QED
    BY <2>2, <2>4 DEF Cover
<1>3. ASSUME NEW m \in Messages, AbstractBus!Accept(m)
      PROVE  Cover(s) \subseteq Cover(s)'
  BY <1>3 DEF AbstractBus!Accept, Cover
<1>4. ASSUME NEW t \in Subscribers, AbstractBus!Hear(t)
      PROVE  Cover(s) \subseteq Cover(s)'
  <2>1. CASE s = t
    <3>1. AbstractBus!InSeq(q) = {Head(q)} \cup AbstractBus!InSeq(Tail(q))
      BY <1>1, <1>4, <2>1, InSeqOfFirst DEF AbstractBus!Hear
    <3>2. /\ Owed'[s] = Tail(q) /\ missed'[s] = missed[s]
          /\ heard'[s] = heard[s] \cup {Head(q)}
      BY <1>4, <2>1 DEF AbstractBus!Hear
    <3>3. QED
      BY <3>1, <3>2 DEF Cover
  <2>2. CASE s # t
    BY <1>4, <2>2 DEF AbstractBus!Hear, Cover
  <2>3. QED
    BY <2>1, <2>2
<1>5. ASSUME NEW t \in Subscribers, AbstractBus!Miss(t)
      PROVE  Cover(s) \subseteq Cover(s)'
  <2>1. CASE s = t
    <3> DEFINE Kept(n) == SubSeq(q, 1, n)
               Rest(n) == SubSeq(q, n + 1, Len(q))
    <3>1. PICK n \in 0..(Len(q) - 1) :
             /\ heard' = heard
             /\ \/ /\ Owed'[s] = Kept(n)
                   /\ missed'[s] = missed[s] \cup AbstractBus!InSeq(Rest(n))
                \/ /\ Owed'[s] = Kept(n) \o Tail(Rest(n))
                   /\ missed'[s] = missed[s] \cup {Head(Rest(n))}
      BY <1>5, <2>1 DEF AbstractBus!Miss
    <3> DEFINE kept == Kept(n)
               rest == Rest(n)
    <3>2. /\ kept \in Seq(Messages) /\ rest \in Seq(Messages) /\ rest # <<>>
          /\ q = kept \o rest
      BY <1>1, <3>1, SplitAt
    <3>3. \/ /\ Owed'[s] = kept
             /\ missed'[s] = missed[s] \cup AbstractBus!InSeq(rest)
          \/ /\ Owed'[s] = kept \o Tail(rest)
             /\ missed'[s] = missed[s] \cup {Head(rest)}
      BY <3>1
    <3> HIDE DEF kept, rest
    <3>4. AbstractBus!InSeq(q)
          = AbstractBus!InSeq(kept) \cup AbstractBus!InSeq(rest)
      BY <3>2, InSeqOfConcat
    <3>5. /\ Tail(rest) \in Seq(Messages)
          /\ AbstractBus!InSeq(rest) = {Head(rest)} \cup AbstractBus!InSeq(Tail(rest))
      BY <3>2, InSeqOfFirst
    <3>6. AbstractBus!InSeq(kept \o Tail(rest))
          = AbstractBus!InSeq(kept) \cup AbstractBus!InSeq(Tail(rest))
      <4> DEFINE tail == Tail(rest)
      <4>1. tail \in Seq(Messages)
        BY <3>5
      <4> HIDE DEF tail
      <4>2. AbstractBus!InSeq(kept \o tail)
            = AbstractBus!InSeq(kept) \cup AbstractBus!InSeq(tail)
        BY <3>2, <4>1, InSeqOfConcat
      <4>3. QED
        BY <4>2 DEF tail
    <3>7. heard'[s] = heard[s]
      BY <3>1
    <3>8. QED
      BY <3>3, <3>4, <3>5, <3>6, <3>7 DEF Cover
  <2>2. CASE s # t
    BY <1>5, <2>2 DEF AbstractBus!Miss, Cover
  <2>3. QED
    BY <2>1, <2>2
<1>6. CASE UNCHANGED AbstractBus!vars
  BY <1>6 DEF AbstractBus!vars, Cover
<1>7. QED
  BY <1>2, <1>3, <1>4, <1>5, <1>6 DEF AbstractBus!Next

-----------------------------------------------------------------------------
(* The refinement, one action after the other.                             *)

Front(c, h) == c \o (IF h = None THEN <<>> ELSE <<h>>)

LEMMA LineHasFront ==
    ASSUME NEW c \in Seq(Messages), NEW h \in Messages \cup {None}
    PROVE  /\ Front(c, h) \in Seq(Messages)
           /\ \A o \in Seq(Messages) : Line(c, h, o) = Front(c, h) \o o
<1>1. (IF h = None THEN <<>> ELSE <<h>>) \in Seq(Messages)
  BY BusAssumption
<1>2. Front(c, h) \in Seq(Messages)
  BY <1>1, ConcatProperties DEF Front
<1>3. QED
  BY <1>2 DEF Front, Line

LEMMA AcceptedUnchanged ==
    ASSUME \A m \in Messages : call'[m].pc = "ok" <=> call[m].pc = "ok"
    PROVE  Accepted' = Accepted
BY DEF Accepted

LEMMA PublishRefines ==
    ASSUME CallInv, BusInv, NEW m \in Messages, Publish(m)
    PROVE  AbstractBus!Publish(m)
<1>1. Accepted' = Accepted
  <2>1. call \in [Messages -> Call] /\ call[m] \in Call
    BY DEF CallInv
  <2>2. ASSUME NEW c, c.pc = call[m].pc, call' = [call EXCEPT ![m] = c],
               NEW n \in Messages
        PROVE  call'[n].pc = call[n].pc
    BY <2>1, <2>2
  <2>3. CASE call' = [call EXCEPT ![m].awaited = FALSE, ![m].reply = TRUE]
    <3> DEFINE c == [call[m] EXCEPT !.awaited = FALSE, !.reply = TRUE]
    <3>1. c.pc = call[m].pc /\ call' = [call EXCEPT ![m] = c]
      BY <2>1, <2>3 DEF Call
    <3> HIDE DEF c
    <3>2. QED
      BY <2>2, <3>1, AcceptedUnchanged
  <2>4. CASE call' = [call EXCEPT ![m].late = @ - 1]
    <3> DEFINE c == [call[m] EXCEPT !.late = @ - 1]
    <3>1. c.pc = call[m].pc /\ call' = [call EXCEPT ![m] = c]
      BY <2>1, <2>4 DEF Call
    <3> HIDE DEF c
    <3>2. QED
      BY <2>2, <3>1, AcceptedUnchanged
  <2>5. QED
    BY <2>3, <2>4 DEF Publish
<1> DEFINE reached == {s \in Subscribers : conn[s].up}
<1>2. ASSUME NEW s \in Subscribers
      PROVE  Owed'[s] = IF s \in reached THEN Append(Owed[s], m) ELSE Owed[s]
  <2> DEFINE front == Front(chan[s], hand[s])
             on == conn[s].on
             one == <<m>>
  <2>1. /\ Owed[s] = Line(chan[s], hand[s], on)
        /\ Owed'[s] = Line(chan[s], hand[s], conn'[s].on)
    BY OwedIsLine DEF Publish
  <2>2. /\ front \in Seq(Messages) /\ on \in Seq(Messages)
        /\ \A o \in Seq(Messages) : Line(chan[s], hand[s], o) = front \o o
    BY ConnFacts, LineHasFront
  <2>3. CASE ~conn[s].up
    BY <2>1, <2>3 DEF Publish
  <2>4. CASE conn[s].up
    <3>1. conn'[s].on = Append(on, m)
      BY <2>4, ConnFacts DEF Publish, Connection
    <3>2. /\ one \in Seq(Messages) /\ Append(on, m) = on \o one
          /\ Append(on, m) \in Seq(Messages)
      <4> HIDE DEF on
      <4>1. Append(on, m) = on \o one /\ one \in Seq(Messages)
        BY <2>2, AppendIsConcat
      <4>2. Append(on, m) \in Seq(Messages)
        BY <2>2, AppendProperties
      <4>3. QED
        BY <4>1, <4>2
    <3>3. Owed'[s] = front \o (on \o one)
      BY <2>1, <2>2, <3>1, <3>2
    <3>4. Owed[s] = front \o on /\ Owed[s] \in Seq(Messages)
      BY <2>1, <2>2, OwedType
    <3>5. Append(Owed[s], m) = Owed[s] \o one
      BY <3>4, AppendIsConcat
    <3> HIDE DEF front, on, one
    <3>6. front \o (on \o one) = (front \o on) \o one
      BY SMTT(30), <2>2, <3>2, ConcatAssociative
    <3>7. QED
      BY <2>4, <3>3, <3>4, <3>5, <3>6
  <2>5. QED
    BY <2>3, <2>4
<1>3. Owed' = [s \in Subscribers |->
                  IF s \in reached THEN Append(Owed[s], m) ELSE Owed[s]]
  BY <1>2, OwedIsLine
<1>4. missed' = [s \in Subscribers |->
                    IF s \in reached THEN missed[s] ELSE missed[s] \cup {m}]
  BY DEF Publish
<1>5. heard' = heard /\ reached \in SUBSET Subscribers
  BY DEF Publish
<1> HIDE DEF reached
<1>6. QED
  BY <1>1, <1>3, <1>4, <1>5 DEF AbstractBus!Publish

\* Reached: Pub returns nil only when Redis has taken an attempt up.
Reached ==
    \A m \in Messages :
        call[m].reply \/ call[m].pc = "ok" => \A s \in Subscribers : m \in Cover(s)

LEMMA PubReturnsRefines ==
    ASSUME CallInv, Reached, NEW m \in Messages, PubReturns(m)
    PROVE  AbstractBus!Accept(m)
<1>1. \A s \in Subscribers : m \in AbstractBus!InSeq(Owed[s]) \cup heard[s] \cup missed[s]
  BY DEF PubReturns, Reached, Cover
<1>2. Accepted' = Accepted \cup {m}
  <2>1. \A n \in Messages : call'[n].pc = IF n = m THEN "ok" ELSE call[n].pc
    BY DEF PubReturns, CallInv, Call
  <2>2. QED
    BY <2>1 DEF Accepted
<1>3. Owed' = Owed
  BY OwedIsLine DEF PubReturns, subscription
<1>4. UNCHANGED <<heard, missed>>
  BY DEF PubReturns
<1>5. QED
  BY <1>1, <1>2, <1>3, <1>4 DEF AbstractBus!Accept

LEMMA PubStutters ==
    ASSUME CallInv, NEW m \in Messages, Pub(m) \/ PubFails(m)
    PROVE  UNCHANGED AbstractBus!vars
<1>1. call[m] \in Call /\ Attempted(call[m])
  BY DEF CallInv
<1>2. \A n \in Messages \ {m} : call'[n] = call[n]
  BY DEF Pub, PubFails, CallInv
<1>3. call[m].pc # "ok" /\ call'[m].pc # "ok"
  <2>1. \A c \in Call : Trying(c).pc = "waiting"
    BY DEF Trying, Call
  <2>2. CASE Pub(m)
    BY <1>1, <2>1, <2>2 DEF Pub, CallInv
  <2>3. CASE PubFails(m)
    <3> DEFINE g == GivenUp(call[m])
    <3>1. g \in Call
      BY <1>1, GivenUpFacts
    <3>2. call'[m] = IF call[m].tried <= MaxRetries
                     THEN Trying(g) ELSE [g EXCEPT !.pc = "error"]
      BY <2>3 DEF PubFails, CallInv
    <3> HIDE DEF g
    <3>3. [g EXCEPT !.pc = "error"].pc = "error"
      BY <3>1 DEF Call
    <3>4. QED
      BY <2>1, <2>3, <3>1, <3>2, <3>3 DEF PubFails
  <2>4. QED
    BY <2>2, <2>3
<1>4. Accepted' = Accepted
  BY <1>2, <1>3, AcceptedUnchanged
<1>5. Owed' = Owed /\ UNCHANGED <<heard, missed>>
  BY OwedIsLine DEF Pub, PubFails, subscription
<1>6. QED
  BY <1>4, <1>5 DEF AbstractBus!vars

LEMMA OwedAs ==
    ASSUME BusInv, NEW s \in Subscribers
    PROVE  /\ Owed \in [Subscribers -> Seq(Messages)]
           /\ Owed[s] = Line(chan[s], hand[s], conn[s].on)
           /\ hand[s] = None =>
                  Owed[s] = chan[s] \o conn[s].on
           /\ hand[s] # None =>
                  /\ hand[s] \in Messages
                  /\ Owed[s] = chan[s] \o (<<hand[s]>> \o conn[s].on)
                  /\ Owed[s] = (chan[s] \o <<hand[s]>>) \o conn[s].on
<1>1. Owed \in [Subscribers -> Seq(Messages)]
  BY OwedType
<1>2. Owed[s] = Line(chan[s], hand[s], conn[s].on)
  BY OwedIsLine
<1> DEFINE c == chan[s]
           h == hand[s]
           o == conn[s].on
<1>3. c \in Seq(Messages) /\ o \in Seq(Messages) /\ h \in Messages \cup {None}
  BY ConnFacts
<1> HIDE DEF c, h, o
<1>4. h = None => Line(c, h, o) = c \o o
  BY <1>3, LineOf
<1>5. h # None => /\ h \in Messages
                  /\ Line(c, h, o) = c \o (<<h>> \o o)
                  /\ Line(c, h, o) = (c \o <<h>>) \o o
  BY <1>3, LineOf
<1>6. QED
  BY <1>1, <1>2, <1>4, <1>5 DEF c, h, o

LEMMA ConnectStutters ==
    ASSUME BusInv, NEW s \in Subscribers, Connect(s)
    PROVE  UNCHANGED AbstractBus!vars
<1>1. \A t \in Subscribers : conn'[t].on = conn[t].on
  BY DEF Connect, BusInv, Connection
<1>2. Owed' = Owed
  BY <1>1, OwedIsLine DEF Connect
<1>3. Accepted' = Accepted
  BY DEF Connect, Accepted
<1>4. QED
  BY <1>2, <1>3 DEF Connect, AbstractBus!vars

LEMMA LoopStutters ==
    ASSUME NEW s \in Subscribers, CallbackReturns(s) \/ Return(s)
    PROVE  UNCHANGED AbstractBus!vars
BY OwedIsLine DEF CallbackReturns, Return, Accepted, AbstractBus!vars

LEMMA ReadStutters ==
    ASSUME BusInv, NEW s \in Subscribers, Read(s)
    PROVE  UNCHANGED AbstractBus!vars
<1> DEFINE on == conn[s].on
           h == Head(on)
           rest == Tail(on)
<1>1. /\ on \in Seq(Messages) /\ on # <<>> /\ chan[s] \in Seq(Messages)
      /\ hand[s] = None
  BY ConnFacts DEF Read
<1>2. h \in Messages /\ rest \in Seq(Messages) /\ on = <<h>> \o rest
  BY <1>1, FirstAndRest
<1>3. conn'[s].on = rest /\ hand'[s] = h /\ chan'[s] = chan[s]
  BY DEF Read, BusInv, Connection
<1>4. \A t \in Subscribers \ {s} :
         chan'[t] = chan[t] /\ hand'[t] = hand[t] /\ conn'[t].on = conn[t].on
  BY DEF Read, BusInv
<1> HIDE DEF on, h, rest
<1>5. Line(chan[s], h, rest) = chan[s] \o (<<h>> \o rest)
  BY <1>1, <1>2, LineOf
<1>6. Line(chan[s], None, on) = chan[s] \o on
  BY <1>1, LineOf
<1>7. Line(chan'[s], hand'[s], conn'[s].on) = Line(chan[s], hand[s], conn[s].on)
  <2>1. Line(chan'[s], hand'[s], conn'[s].on) = Line(chan[s], h, rest)
    BY <1>3
  <2>2. Line(chan[s], hand[s], conn[s].on) = Line(chan[s], None, on)
    BY <1>1 DEF on
  <2>3. QED
    BY <1>2, <1>5, <1>6, <2>1, <2>2
<1>8. Owed' = Owed
  BY <1>4, <1>7, OwedUnchanged
<1>9. QED
  BY <1>8 DEF Read, Accepted, AbstractBus!vars

LEMMA PutStutters ==
    ASSUME BusInv, NEW s \in Subscribers, Put(s)
    PROVE  UNCHANGED AbstractBus!vars
<1> DEFINE c == chan[s]
           h == hand[s]
           o == conn[s].on
           longer == Append(c, h)
<1>1. /\ c \in Seq(Messages) /\ o \in Seq(Messages) /\ h \in Messages
      /\ chan'[s] = longer /\ hand'[s] = None /\ conn'[s].on = o
  BY ConnFacts DEF Put, BusInv
<1>2. \A t \in Subscribers \ {s} :
         chan'[t] = chan[t] /\ hand'[t] = hand[t] /\ conn'[t].on = conn[t].on
  BY DEF Put, BusInv
<1> HIDE DEF c, h, o
<1>3. longer \in Seq(Messages) /\ longer = c \o <<h>>
  BY <1>1, AppendIsConcat, AppendProperties
<1> HIDE DEF longer
<1>4. Line(longer, None, o) = longer \o o
  BY <1>1, <1>3, LineOf
<1>5. Line(c, h, o) = (c \o <<h>>) \o o
  BY ZenonT(40), <1>1, LineOf
<1>6. Line(chan'[s], hand'[s], conn'[s].on) = Line(chan[s], hand[s], conn[s].on)
  BY <1>1, <1>3, <1>4, <1>5 DEF c, h, o
<1>7. Owed' = Owed
  BY <1>2, <1>6, OwedUnchanged
<1>8. QED
  BY <1>7 DEF Put, Accepted, AbstractBus!vars

LEMMA DisconnectRefines ==
    ASSUME BusInv, NEW s \in Subscribers, NEW closed \in BOOLEAN,
           Disconnected(s, closed)
    PROVE  AbstractBus!Miss(s) \/ UNCHANGED AbstractBus!vars
<1> DEFINE front == Front(chan[s], hand[s])
           on == conn[s].on
<1>1. /\ front \in Seq(Messages) /\ on \in Seq(Messages)
      /\ \A o \in Seq(Messages) : Line(chan[s], hand[s], o) = front \o o
  BY ConnFacts, LineHasFront
<1>2. Owed \in [Subscribers -> Seq(Messages)] /\ Owed[s] = front \o on
  BY <1>1, OwedAs
<1>3. conn'[s].on = <<>> /\ chan'[s] = chan[s] /\ hand'[s] = hand[s]
  BY DEF Disconnected, BusInv, Connection
<1>4. \A t \in Subscribers \ {s} :
         chan'[t] = chan[t] /\ hand'[t] = hand[t] /\ conn'[t].on = conn[t].on
  BY DEF Disconnected, BusInv
<1>5. Line(chan'[s], hand'[s], conn'[s].on) = front
  <2>1. Line(chan'[s], hand'[s], conn'[s].on) = front \o <<>>
    BY <1>1, <1>3, EmptySeq
  <2>2. QED
    BY <1>1, <2>1, ConcatEmptySeq
<1>6. Owed' = [Owed EXCEPT ![s] = front]
  BY <1>4, <1>5, OwedToOthers
<1>7. missed' = [missed EXCEPT ![s] = @ \cup AbstractBus!InSeq(on)]
  BY DEF Disconnected, Carried, AbstractBus!InSeq
<1>8. Accepted' = Accepted /\ heard' = heard
  BY DEF Disconnected, Accepted
<1> HIDE DEF front, on
<1>9. CASE on = <<>>
  <2>1. Owed[s] = front
    BY <1>1, <1>2, <1>9, ConcatEmptySeq
  <2>2. AbstractBus!InSeq(on) = {}
    BY <1>9, EmptySeq DEF AbstractBus!InSeq
  <2>3. Owed' = Owed /\ missed' = missed
    BY <1>2, <1>6, <1>7, <2>1, <2>2 DEF BusInv
  <2>4. QED
    BY <1>8, <2>3 DEF AbstractBus!vars
<1>10. CASE on # <<>>
  <2> DEFINE n == Len(front)
             q == Owed[s]
  <2>1. SubSeq(q, 1, n) = front /\ SubSeq(q, n + 1, Len(q)) = on
    BY <1>1, <1>2, PartsOfConcat
  <2>2. n \in 0..(Len(q) - 1)
    <3>1. Len(q) = Len(front) + Len(on) /\ Len(front) \in Nat /\ Len(on) \in Nat
      BY <1>1, <1>2, ConcatProperties, LenProperties
    <3>2. Len(on) # 0
      BY <1>1, <1>10, EmptySeq
    <3>3. QED
      BY <3>1, <3>2
  <2>3. /\ Owed' = [Owed EXCEPT ![s] = SubSeq(q, 1, n)]
        /\ missed' = [missed EXCEPT
                         ![s] = @ \cup AbstractBus!InSeq(SubSeq(q, n + 1, Len(q)))]
    BY <1>6, <1>7, <2>1
  <2> HIDE DEF n
  <2>4. QED
    BY <1>8, <2>2, <2>3 DEF AbstractBus!Miss
<1>11. QED
  BY <1>9, <1>10

LEMMA DropRefines ==
    ASSUME BusInv, NEW s \in Subscribers, Drop(s)
    PROVE  AbstractBus!Miss(s)
<1> DEFINE c == chan[s]
           h == hand[s]
           o == conn[s].on
           one == <<h>>
           rest == one \o o
           q == Owed[s]
           n == Len(c)
<1>1. c \in Seq(Messages) /\ o \in Seq(Messages) /\ h \in Messages
  BY ConnFacts DEF Drop
<1>2. q = c \o rest /\ Owed \in [Subscribers -> Seq(Messages)]
  BY OwedAs DEF Drop
<1>3. chan'[s] = c /\ hand'[s] = None /\ conn'[s].on = o
  BY DEF Drop, BusInv
<1>4. \A t \in Subscribers \ {s} :
         chan'[t] = chan[t] /\ hand'[t] = hand[t] /\ conn'[t].on = conn[t].on
  BY DEF Drop, BusInv
<1>5. missed' = [missed EXCEPT ![s] = @ \cup {h}]
  BY DEF Drop
<1>6. Accepted' = Accepted /\ heard' = heard
  BY DEF Drop, Accepted
<1>7. /\ one \in Seq(Messages) /\ one # <<>>
      /\ Head(one) = h /\ Tail(one) = <<>>
  BY <1>1
<1> HIDE DEF c, h, o, one
<1>8. rest \in Seq(Messages) /\ rest # <<>> /\ Head(rest) = h /\ Tail(rest) = o
  <2>1. /\ rest # <<>> /\ Head(rest) = Head(one)
        /\ Tail(rest) = Tail(one) \o o
    BY <1>1, <1>7, HeadOfConcat
  <2>2. Tail(one) \o o = o
    BY <1>1, <1>7, ConcatEmptySeq
  <2>3. rest \in Seq(Messages)
    BY <1>1, <1>7, ConcatProperties
  <2>4. QED
    BY <1>7, <2>1, <2>2, <2>3
<1> HIDE DEF rest, q
<1>9. SubSeq(q, 1, n) = c /\ SubSeq(q, n + 1, Len(q)) = rest
  BY <1>1, <1>2, <1>8, PartsOfConcat
<1>10. n \in 0..(Len(q) - 1)
  <2>1. Len(q) = Len(c) + Len(rest) /\ Len(c) \in Nat /\ Len(rest) \in Nat
    BY <1>1, <1>2, <1>8, ConcatProperties, LenProperties
  <2>2. Len(rest) # 0
    BY <1>8, EmptySeq
  <2>3. QED
    BY <2>1, <2>2
<1>11. Line(c, None, o) = c \o o
  BY <1>1, LineOf
<1>12. Owed' = [Owed EXCEPT ![s] = c \o o]
  BY <1>3, <1>4, <1>11, OwedToOthers
<1>13. /\ Owed' = [Owed EXCEPT
                     ![s] = SubSeq(q, 1, n) \o Tail(SubSeq(q, n + 1, Len(q)))]
       /\ missed' = [missed EXCEPT
                       ![s] = @ \cup {Head(SubSeq(q, n + 1, Len(q)))}]
  BY <1>5, <1>8, <1>9, <1>12
<1> HIDE DEF n
<1>14. QED
  BY <1>6, <1>10, <1>13 DEF AbstractBus!Miss, q

LEMMA ReceiveRefines ==
    ASSUME BusInv, NEW s \in Subscribers, Receive(s)
    PROVE  AbstractBus!Hear(s)
<1> DEFINE c == chan[s]
           h == hand[s]
           o == conn[s].on
           q == Owed[s]
<1>1. /\ c \in Seq(Messages) /\ o \in Seq(Messages)
      /\ h \in Messages \cup {None} /\ conn'[s].on = o
  BY ConnFacts DEF Receive
<1>2. Owed \in [Subscribers -> Seq(Messages)] /\ q = Line(c, h, o)
  BY OwedAs
<1>3. Accepted' = Accepted /\ missed' = missed
  BY DEF Receive, Accepted
<1>4. \A t \in Subscribers \ {s} :
         chan'[t] = chan[t] /\ hand'[t] = hand[t] /\ conn'[t].on = conn[t].on
  BY DEF Receive, BusInv
<1>5. Owed' = [Owed EXCEPT ![s] = Line(chan'[s], hand'[s], o)]
  BY <1>1, <1>4, OwedToOthers
<1>6. ASSUME NEW m, m = Head(q), heard' = [heard EXCEPT ![s] = @ \cup {m}],
             q # <<>>, Line(chan'[s], hand'[s], o) = Tail(q)
      PROVE  AbstractBus!Hear(s)
  BY <1>3, <1>5, <1>6 DEF AbstractBus!Hear
<1>7. CASE /\ chan[s] # <<>>
           /\ Callback(s, Head(chan[s]))
           /\ chan' = [chan EXCEPT ![s] = Tail(@)]
           /\ UNCHANGED hand
  <2> DEFINE front == Front(c, h)
             end == IF h = None THEN <<>> ELSE <<h>>
  <2>1. chan'[s] = Tail(c) /\ hand'[s] = h /\ c # <<>>
    BY <1>7 DEF BusInv
  <2>2. heard' = [heard EXCEPT ![s] = @ \cup {Head(c)}]
    BY <1>7 DEF Callback
  <2>3. Tail(c) \in Seq(Messages)
    BY <1>1, <2>1, HeadTailProperties
  <2>4. end \in Seq(Messages)
    BY <1>1
  <2> HIDE DEF c, h, o, q
  <2>5. Line(c, h, o) = front \o o /\ front \in Seq(Messages)
    BY <1>1, LineHasFront
  <2>6. Line(Tail(c), h, o) = Front(Tail(c), h) \o o
    BY <1>1, <2>3, LineHasFront
  <2>7. front = c \o end /\ Front(Tail(c), h) = Tail(c) \o end
    BY DEF Front
  <2> HIDE DEF front, end
  <2>8. front # <<>> /\ Head(front) = Head(c) /\ Tail(front) = Tail(c) \o end
    BY <1>1, <2>1, <2>4, <2>7, HeadOfConcat
  <2>9. /\ front \o o # <<>> /\ Head(front \o o) = Head(front)
        /\ Tail(front \o o) = Tail(front) \o o
    BY <1>1, <2>5, <2>8, HeadOfConcat
  <2>10. /\ q # <<>> /\ Head(q) = Head(c)
         /\ Tail(q) = Line(chan'[s], hand'[s], o)
    BY <1>2, <2>1, <2>5, <2>6, <2>7, <2>8, <2>9
  <2>11. QED
    BY <1>6, <2>2, <2>10
<1>8. CASE /\ size = 0 /\ hand[s] # None
           /\ Callback(s, hand[s])
           /\ hand' = [hand EXCEPT ![s] = None]
           /\ UNCHANGED chan
  <2> DEFINE one == <<h>>
  <2>1. chan'[s] = c /\ hand'[s] = None /\ h \in Messages
    BY <1>1, <1>8 DEF BusInv
  <2>2. heard' = [heard EXCEPT ![s] = @ \cup {h}]
    BY <1>8 DEF Callback
  <2>3. c = <<>>
    <3>1. Len(c) = 0
      BY <1>8, ConnFacts
    <3>2. QED
      BY <1>1, <3>1, EmptySeq
  <2>4. /\ one \in Seq(Messages) /\ one # <<>> /\ Head(one) = h
        /\ Tail(one) = <<>>
    BY <2>1
  <2> HIDE DEF c, h, o, q
  <2>5. Line(c, h, o) = (c \o one) \o o
    BY ZenonT(40), <1>1, <2>1, LineOf
  <2> HIDE DEF one
  <2>6. c \o one = one
    BY <2>3, <2>4, ConcatEmptySeq
  <2>7. /\ one \o o # <<>> /\ Head(one \o o) = Head(one)
        /\ Tail(one \o o) = Tail(one) \o o
    BY <1>1, <2>4, HeadOfConcat
  <2>8. Line(c, None, o) = c \o o
    BY <1>1, LineOf
  <2>9. q # <<>> /\ Head(q) = h /\ Tail(q) = Line(chan'[s], hand'[s], o)
    BY <1>2, <2>1, <2>3, <2>4, <2>5, <2>6, <2>7, <2>8
  <2>10. QED
    BY <1>6, <2>2, <2>9
<1>9. QED
  BY <1>7, <1>8 DEF Receive

LEMMA BusRefines ==
    CallInv /\ BusInv /\ Reached /\ [Next]_vars
        => [AbstractBus!Next]_(AbstractBus!vars)
<1> SUFFICES ASSUME CallInv, BusInv, Reached, [Next]_vars
             PROVE  AbstractBus!Next \/ UNCHANGED AbstractBus!vars
  OBVIOUS
<1>1. ASSUME NEW m \in Messages, Pub(m) \/ PubFails(m)
      PROVE  UNCHANGED AbstractBus!vars
  BY <1>1, PubStutters
<1>2. ASSUME NEW m \in Messages, PubReturns(m)
      PROVE  AbstractBus!Next
  BY <1>2, PubReturnsRefines DEF AbstractBus!Next
<1>3. ASSUME NEW m \in Messages, Publish(m)
      PROVE  AbstractBus!Next
  BY <1>3, PublishRefines DEF AbstractBus!Next
<1>4. ASSUME NEW s \in Subscribers, Receive(s)
      PROVE  AbstractBus!Next
  BY <1>4, ReceiveRefines DEF AbstractBus!Next
<1>5. ASSUME NEW s \in Subscribers, CallbackReturns(s) \/ Return(s)
      PROVE  UNCHANGED AbstractBus!vars
  BY <1>5, LoopStutters
<1>6. ASSUME NEW s \in Subscribers, Connect(s)
      PROVE  UNCHANGED AbstractBus!vars
  BY <1>6, ConnectStutters
<1>7. ASSUME NEW s \in Subscribers, Break(s) \/ Close(s)
      PROVE  AbstractBus!Next \/ UNCHANGED AbstractBus!vars
  BY <1>7, DisconnectRefines DEF Break, Close, AbstractBus!Next
<1>8. ASSUME NEW s \in Subscribers, Read(s)
      PROVE  UNCHANGED AbstractBus!vars
  BY <1>8, ReadStutters
<1>9. ASSUME NEW s \in Subscribers, Put(s)
      PROVE  UNCHANGED AbstractBus!vars
  BY <1>9, PutStutters
<1>10. ASSUME NEW s \in Subscribers, Drop(s)
       PROVE  AbstractBus!Next
  BY <1>10, DropRefines DEF AbstractBus!Next
<1>11. CASE UNCHANGED vars
  BY <1>11, OwedIsLine DEF vars, subscription, Accepted, AbstractBus!vars
<1>12. QED
  BY <1>1, <1>2, <1>3, <1>4, <1>5, <1>6, <1>7, <1>8, <1>9, <1>10, <1>11
     DEF Next, Sub, Redis

LEMMA ReachedStep ==
    CallInv /\ BusInv /\ Reached /\ [Next]_vars => Reached'
<1> SUFFICES ASSUME CallInv, BusInv, Reached, [Next]_vars
             PROVE  Reached'
  OBVIOUS
<1>1. \A s \in Subscribers : Cover(s) \subseteq Cover(s)'
  <2>1. [AbstractBus!Next]_(AbstractBus!vars)
    BY BusRefines
  <2>2. QED
    BY <2>1, OwedType, CoverGrows DEF BusInv
<1>2. ASSUME \A n \in Messages :
                 call'[n].reply \/ call'[n].pc = "ok"
                     => call[n].reply \/ call[n].pc = "ok"
      PROVE  Reached'
  BY <1>1, <1>2 DEF Reached
<1>3. ASSUME NEW m \in Messages, NEW c, call' = [call EXCEPT ![m] = c],
             c.reply \/ c.pc = "ok" => call[m].reply \/ call[m].pc = "ok"
      PROVE  Reached'
  <2>1. \A n \in Messages : call'[n] = IF n = m THEN c ELSE call[n]
    BY <1>3 DEF CallInv
  <2>2. QED
    BY <1>2, <1>3, <2>1
<1>4. ASSUME NEW m \in Messages, Pub(m)
      PROVE  Reached'
  <2>1. Trying(call[m]).reply = FALSE /\ Trying(call[m]).pc = "waiting"
    BY DEF CallInv, Call, Trying
  <2>2. QED
    BY <1>3, <1>4, <2>1 DEF Pub
<1>5. ASSUME NEW m \in Messages, PubFails(m)
      PROVE  Reached'
  <2> DEFINE g == GivenUp(call[m])
  <2>1. g \in Call /\ g.reply = FALSE
    BY GivenUpFacts DEF CallInv
  <2>2. call' = [call EXCEPT ![m] = IF call[m].tried <= MaxRetries
                                    THEN Trying(g)
                                    ELSE [g EXCEPT !.pc = "error"]]
    BY <1>5 DEF PubFails
  <2> HIDE DEF g
  <2>3. Trying(g).reply = FALSE /\ Trying(g).pc = "waiting"
    BY <2>1 DEF Call, Trying
  <2>4. [g EXCEPT !.pc = "error"].reply = FALSE /\ [g EXCEPT !.pc = "error"].pc = "error"
    BY <2>1 DEF Call
  <2>5. CASE call[m].tried <= MaxRetries
    BY <1>3, <2>2, <2>3, <2>5
  <2>6. CASE ~(call[m].tried <= MaxRetries)
    BY <1>3, <2>2, <2>4, <2>6
  <2>7. QED
    BY <2>5, <2>6
<1>6. ASSUME NEW m \in Messages, PubReturns(m)
      PROVE  Reached'
  <2>1. call' = [call EXCEPT ![m] = [call[m] EXCEPT !.pc = "ok", !.reply = FALSE]]
    BY <1>6 DEF PubReturns, CallInv
  <2>2. QED
    BY <1>3, <1>6, <2>1 DEF PubReturns
<1>7. ASSUME NEW m \in Messages, Publish(m)
      PROVE  Reached'
  <2>1. \A s \in Subscribers : m \in Cover(s)'
    <3>1. ASSUME NEW s \in Subscribers
          PROVE  m \in Cover(s)'
      <4>1. Owed[s] \in Seq(Messages)
        BY OwedType
      <4>2. AbstractBus!Publish(m)
        BY <1>7, PublishRefines
      <4>3. Owed'[s] = Append(Owed[s], m) \/ m \in missed'[s]
        BY <4>2 DEF AbstractBus!Publish
      <4>4. m \in AbstractBus!InSeq(Append(Owed[s], m))
        <5> DEFINE q == Owed[s]
                   one == <<m>>
        <5>1. /\ q \in Seq(Messages) /\ one \in Seq(Messages)
              /\ AbstractBus!InSeq(one) = {m} /\ Append(q, m) = q \o one
          BY <4>1, InSeqOfOne, AppendIsConcat
        <5> HIDE DEF one, q
        <5>2. m \in AbstractBus!InSeq(q \o one)
          BY <5>1, InSeqOfConcat
        <5>3. QED
          BY <5>1, <5>2 DEF q
      <4>5. QED
        BY <4>3, <4>4 DEF Cover
    <3>2. QED
      BY <3>1
  <2>2. \A n \in Messages \ {m} : call'[n] = call[n]
    BY <1>7 DEF Publish, CallInv
  <2>3. QED
    BY <1>1, <2>1, <2>2 DEF Reached
<1>8. CASE UNCHANGED call
  BY <1>2, <1>8
<1>9. QED
  BY <1>4, <1>5, <1>6, <1>7, <1>8
     DEF Next, Sub, Receive, CallbackReturns, Return, Redis, Connect, Break, Close,
         Disconnected, Read, Put, Drop, vars

LEMMA ReachedInit == Init => Reached
BY DEF Init, Reached

LEMMA BusInitRefines == Init => AbstractBus!Init
<1> SUFFICES ASSUME Init PROVE AbstractBus!Init
  OBVIOUS
<1>1. Accepted = {}
  BY DEF Init, Accepted
<1>2. ASSUME NEW s \in Subscribers
      PROVE  Owed[s] = <<>>
  <2>1. <<>> \in Seq(Messages) /\ Owed[s] = Line(<<>>, None, <<>>)
    BY EmptySeq, OwedIsLine DEF Init
  <2>2. QED
    BY <2>1, LineOf, ConcatEmptySeq
<1>3. Owed = [s \in Subscribers |-> <<>>]
  BY <1>2, OwedIsLine
<1>4. QED
  BY <1>1, <1>3 DEF Init, AbstractBus!Init

(* The bus implements Broadcast: when Pub has returned nil, every process  *)
(* that calls Sub has heard of the deletion, is owed it, or missed it for  *)
(* one of the reasons there are (away, connection broken, callback longer  *)
(* than a minute); and none hears of deletions but in Redis's order.       *)
THEOREM BusImplementsBroadcast == Spec => ImplementsBroadcast
<1>1. Init => AbstractBus!Init /\ CallInv /\ BusInv /\ Reached
  BY BusInitRefines, TypesInit, ReachedInit
<1>2. CallInv /\ BusInv /\ Reached /\ [Next]_vars
      => /\ [AbstractBus!Next]_(AbstractBus!vars)
         /\ (CallInv /\ BusInv /\ Reached)'
  BY BusRefines, CallStep, BusStep, ReachedStep
<1>3. QED
  BY <1>1, <1>2, PTL DEF Spec, ImplementsBroadcast, AbstractBus!Spec

=============================================================================
