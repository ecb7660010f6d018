-------------------------- MODULE GinServer_proofs --------------------------
(***************************************************************************)
(* What the web server answers, logs and listens on, for every number of   *)
(* requests, contexts, fields and calls of InitGin.                        *)
(***************************************************************************)
EXTENDS GinServer, WellFoundedInduction, TLAPS

-----------------------------------------------------------------------------
(* InitGin.                                                                *)

\* The host still says where gin is wanted; or it has lost what it said, and
\* was refused.
Setup ==
    /\ server \in [host : Host, port : BOOLEAN, trans : BOOLEAN]
    /\ regs \in {"fine", "clash"}
    /\ custom \in BOOLEAN
    /\ engine \in {"down", "none", "ip"}
    /\ inits \in [wanted : {"none", "ip", "nowhere"}, refused : BOOLEAN]
    /\ \/ Wanted(server.host) = inits.wanted
       \/ inits.wanted = "nowhere" /\ server.host = "none" /\ inits.refused
    /\ ListensAsConfigured

LEMMA MatchFacts ==
    /\ \A h \in Host : MatchIp(h) \in {"none", "ip", "ip6"} /\ MatchIp(h) \in Host
    /\ \A h \in Host : Wanted(h) \in {"none", "ip", "nowhere"}
    /\ Wanted("none") = "none" /\ MatchIp("none") = "none"
    /\ \A h \in Host : h # "none" /\ MatchIp(h) = "none" => Wanted(h) = "nowhere"
    /\ \A h \in Host : ~(h # "none" /\ MatchIp(h) = "none") =>
           /\ Wanted(MatchIp(h)) = Wanted(h)
           /\ MatchIp(h) # "ip6" => MatchIp(h) = Wanted(h)
           /\ h # "none" => MatchIp(h) # "none"
BY DEF MatchIp, Wanted, Host

LEMMA SetupInit == Init => Setup
<1> SUFFICES ASSUME Init PROVE Setup
  OBVIOUS
<1>1. server \in [host : Host, port : BOOLEAN, trans : BOOLEAN] /\ server.host \in Host
  BY DEF Init
<1>2. inits = [wanted |-> Wanted(server.host), refused |-> FALSE]
  BY DEF Init
<1>3. /\ inits \in [wanted : {"none", "ip", "nowhere"}, refused : BOOLEAN]
      /\ inits.wanted = Wanted(server.host)
  BY <1>1, <1>2, MatchFacts
<1>4. QED
  BY <1>1, <1>3 DEF Init, Setup, ListensAsConfigured

LEMMA SetupStep == Setup /\ [Next]_vars => Setup' /\ server'.trans = server.trans
<1> SUFFICES ASSUME Setup, [Next]_vars PROVE Setup' /\ server'.trans = server.trans
  OBVIOUS
<1>1. CASE InitGin
  <2> DEFINE v == [server EXCEPT !.host = MatchIp(server.host)]
             i == [inits EXCEPT !.refused = TRUE]
  <2>1. /\ server \in [host : Host, port : BOOLEAN, trans : BOOLEAN]
        /\ inits \in [wanted : {"none", "ip", "nowhere"}, refused : BOOLEAN]
        /\ server.host \in Host /\ engine = "down"
    BY <1>1 DEF InitGin, Setup
  <2>2. MatchIp(server.host) \in Host
    BY <2>1, MatchFacts
  <2>3. /\ v \in [host : Host, port : BOOLEAN, trans : BOOLEAN]
        /\ v.host = MatchIp(server.host) /\ v.trans = server.trans
    BY <2>1, <2>2
  <2>4. /\ i \in [wanted : {"none", "ip", "nowhere"}, refused : BOOLEAN]
        /\ i.refused = TRUE /\ i.wanted = inits.wanted
    BY <2>1
  <2>5. server' = v /\ regs' = regs
    BY <1>1, <2>1 DEF InitGin
  <2>6. ASSUME server.host # "none", MatchIp(server.host) = "none"
        PROVE  inits' = i /\ custom' = custom /\ engine' = engine
    BY <1>1, <2>1, <2>6 DEF InitGin
  <2>7. ASSUME ~(server.host # "none" /\ MatchIp(server.host) = "none")
        PROVE  inits' = inits /\ Run(MatchIp(server.host))
    BY <1>1, <2>7 DEF InitGin
  <2> HIDE DEF v, i
  <2>8. CASE server.host # "none" /\ MatchIp(server.host) = "none"
    <3>1. inits.wanted = "nowhere"
      BY <2>1, <2>8, MatchFacts DEF Setup
    <3>2. inits'.wanted = "nowhere" /\ server'.host = "none" /\ inits'.refused
      BY <2>3, <2>4, <2>5, <2>6, <2>8, <3>1
    <3>3. QED
      BY <2>1, <2>3, <2>4, <2>5, <2>6, <2>8, <3>2 DEF Setup, ListensAsConfigured
  <2>9. CASE ~(server.host # "none" /\ MatchIp(server.host) = "none")
    <3>1. \/ Wanted(server'.host) = inits.wanted
          \/ inits.wanted = "nowhere" /\ server'.host = "none" /\ inits.refused
      BY <2>1, <2>3, <2>5, <2>9, MatchFacts DEF Setup
    <3>2. /\ custom' \in BOOLEAN
          /\ \/ engine' = engine
             \/ /\ engine' = MatchIp(server.host) /\ engine' # "ip6"
                /\ server.trans => custom' /\ regs # "clash"
      BY <2>1, <2>7, <2>9 DEF Run, InitValidator, ValidatorFails, Setup
    <3>3. engine' \in {"down", "none", "ip"}
      BY <2>1, <3>2, MatchFacts
    <3>4. engine' # "down" =>
              \/ engine' = inits.wanted
              \/ inits.wanted = "nowhere" /\ engine' = "none" /\ inits.refused
      BY <2>1, <2>9, <3>2, MatchFacts DEF Setup
    <3>5. inits' = inits
      BY <2>7, <2>9
    <3>6. server'.trans = server.trans
      BY <2>3, <2>5
    <3>7. ListensAsConfigured'
      BY <2>1, <2>5, <3>2, <3>4, <3>5, <3>6 DEF ListensAsConfigured
    <3>8. QED
      BY <2>3, <2>5, <3>1, <3>2, <3>3, <3>5, <3>6, <3>7 DEF Setup
  <2>10. QED
    BY <2>8, <2>9
<1>2. CASE UNCHANGED setup
  BY <1>2 DEF setup, Setup, ListensAsConfigured
<1>3. ASSUME NEW r \in Requests, NEW q, Become(r, q)
      PROVE  UNCHANGED setup
  BY <1>3 DEF Become
<1>4. ASSUME NEW r \in Requests, Handle(r)
      PROVE  UNCHANGED setup
  BY <1>3, <1>4 DEF Handle, BindJson, BindForm, BindQuery, Bind, Answer, Return, Panic,
                    Query, Spawn
<1>5. QED
  BY <1>1, <1>2, <1>4 DEF Next, vars, Arrive, Leave, Finish, TaskLogs, TaskQueries

(* Gin listens on the IPv4 address that is in the host that was            *)
(* configured, or on every one if there was no host or a call of InitGin   *)
(* has refused it before; and with Trans only when the tags are            *)
(* registered.                                                             *)
THEOREM ServedAsConfigured == Spec => []ListensAsConfigured
<1>1. Setup => ListensAsConfigured
  BY DEF Setup
<1>2. QED
  BY <1>1, SetupInit, SetupStep, PTL DEF Spec

-----------------------------------------------------------------------------
(* What a failed binding tells.                                            *)

LEMMA LeastElement ==
    ASSUME NEW T, T \subseteq Nat, T # {}
    PROVE  \E x \in T : \A y \in T : x <= y
<1>1. PICK x \in T : \A y \in T : ~(<<y, x>> \in OpToRel(<, Nat))
  BY NatLessThanWellFounded, WFMin
<1>2. \A y \in T : ~(y < x)
  BY <1>1 DEF OpToRel
<1>3. QED
  BY <1>2

\* Only an invalid struct has fields to name.
WellFormed(cause) == cause \in Cause /\ (cause.kind # "invalid" => cause.fields = {})

\* The claims of BindingsTellWhy that a message and its cause decide.
Tells(told, cause, trans) ==
    /\ told = Missing <=> cause.kind = "eof"
    /\ \A f \in told.fields : \E g \in cause.fields : Name(f) = Name(g)
    /\ trans => told.fields = cause.fields

LEMMA MessageFacts ==
    /\ Missing \in Message /\ Missing.fields = {}
    /\ Mistyped \in Message /\ Mistyped.fields = {} /\ Mistyped # Missing
    /\ Unserved \in Message /\ Unserved.fields = {} /\ Unserved # Missing
    /\ Text \in Message /\ Text.fields = {} /\ Text # Missing
    /\ \A fs \in SUBSET FieldSet :
          Naming(fs) \in Message /\ Naming(fs).fields = fs /\ Naming(fs) # Missing
<1>1. Missing \in Message /\ Mistyped \in Message /\ Unserved \in Message
      /\ Text \in Message /\ \A fs \in SUBSET FieldSet : Naming(fs) \in Message
  BY DEF Message
<1>2. /\ Missing.fields = {} /\ Missing.kind = "missing"
      /\ Mistyped.fields = {} /\ Mistyped.kind = "mistyped"
      /\ Unserved.fields = {} /\ Unserved.kind = "service"
      /\ Text.fields = {} /\ Text.kind = "text"
      /\ \A fs : Naming(fs).fields = fs /\ Naming(fs).kind = "fields"
  BY DEF Missing, Mistyped, Unserved, Text, Naming
<1>3. QED
  BY <1>1, <1>2

\* Without Trans one field is named, by the name of one that failed.
LEMMA FirstNamingTells ==
    ASSUME NEW fs \in SUBSET FieldSet
    PROVE  /\ FirstNaming(fs) \in Message /\ FirstNaming(fs) # Missing
           /\ \A f \in FirstNaming(fs).fields : \E g \in fs : Name(f) = Name(g)
<1> DEFINE named == {i \in 1..Len(Fields) :
                        Fields[i] \in fs /\ <<Name(Fields[i])>> \in FieldSet}
<1>1. CASE named = {}
  BY <1>1, MessageFacts DEF FirstNaming
<1>2. CASE named # {}
  <2> DEFINE i == CHOOSE i \in named : \A j \in named : i <= j
  <2>1. i \in named
    <3>1. named \subseteq Nat
      BY FieldsAssumption
    <3>2. \E k \in named : \A j \in named : k <= j
      BY <1>2, <3>1, LeastElement
    <3> HIDE DEF named
    <3>3. QED
      BY <3>2
  <2> DEFINE f == <<Name(Fields[i])>>
  <2>2. FirstNaming(fs) = Naming({f})
    BY <1>2 DEF FirstNaming
  <2>3. f \in FieldSet /\ Fields[i] \in fs
    BY <2>1
  <2> HIDE DEF i
  <2>4. Name(f) = Name(Fields[i])
    <3> DEFINE n == Name(Fields[i])
    <3> HIDE DEF n
    <3>1. Len(<<n>>) = 1 /\ <<n>>[1] = n
      OBVIOUS
    <3>2. <<n>>[Len(<<n>>)] = n
      BY <3>1
    <3>3. QED
      BY <3>2 DEF Name, n
  <2> HIDE DEF f
  <2>5. {f} \in SUBSET FieldSet
    BY <2>3
  <2>6. /\ Naming({f}) \in Message /\ Naming({f}).fields = {f}
        /\ Naming({f}) # Missing
    BY <2>5, MessageFacts
  <2>7. QED
    BY <2>2, <2>3, <2>4, <2>6
<1>3. QED
  BY <1>1, <1>2

LEMMA ExplainTells ==
    ASSUME NEW cause, WellFormed(cause), server.trans \in BOOLEAN
    PROVE  Explain(cause) \in Message /\ Tells(Explain(cause), cause, server.trans)
<1>1. /\ cause.kind \in {"eof", "invalid", "mismatch", "other"}
      /\ cause.fields \in SUBSET FieldSet
      /\ cause.kind # "invalid" => cause.fields = {}
  BY DEF WellFormed, Cause
<1>2. CASE server.trans
  <2>1. Explain(cause) = ExplainTrans(cause)
    BY <1>2 DEF Explain
  <2>2. CASE cause.kind = "invalid"
    BY <1>1, <2>1, <2>2, MessageFacts DEF ExplainTrans, Tells
  <2>3. CASE cause.kind # "invalid"
    BY <1>1, <2>1, <2>3, MessageFacts DEF ExplainTrans, Tells
  <2>4. QED
    BY <2>2, <2>3
<1>3. CASE ~server.trans
  <2>1. Explain(cause) = ExplainMsg(cause)
    BY <1>3 DEF Explain
  <2>2. CASE cause.kind = "invalid"
    BY <1>1, <1>3, <2>1, <2>2, FirstNamingTells DEF ExplainMsg, Tells
  <2>3. CASE cause.kind # "invalid"
    BY <1>1, <1>3, <2>1, <2>3, MessageFacts DEF ExplainMsg, Tells
  <2>4. QED
    BY <2>2, <2>3
<1>4. QED
  BY <1>2, <1>3

-----------------------------------------------------------------------------
(* A request, from when it arrives to when it is over.                     *)

RequestRecord ==
    [pc : {"new", "running", "answered", "leaving", "done"}, handler : Handlers,
     aborted : BOOLEAN, ctx : Contexts \cup {None}, form : Form, body : Body,
     reads : 0..2, parsed : BOOLEAN, cause : Cause \cup {None},
     told : Message \cup {None}, docs : Seq(Document), status : {200, 500},
     sent : {0, 200, 500}, errors : 0..2, panicked : BOOLEAN,
     skip : BOOLEAN, logged : 0..2]

NoFailure(docs) == \A i \in 1..Len(docs) : docs[i] # "failure"
OneFailure(docs) == \A i \in 1..Len(docs) : docs[i] = "failure" => i = Len(docs)

\* p is the same request as q, in the same context, with the same body.
Same(p, q) ==
    /\ p.ctx = q.ctx /\ p.handler = q.handler
    /\ p.form = q.form /\ p.body = q.body /\ p.reads = q.reads

\* Every document so far is a success, and went out with the header.
Ready(q) ==
    /\ q \in RequestRecord /\ q.ctx \in Contexts /\ q.aborted = FALSE
    /\ q.status = 200 /\ q.errors = 0 /\ NoFailure(q.docs)
    /\ IF q.docs = <<>> THEN q.sent = 0 ELSE q.sent = 200

\* A handler runs that has not answered, and every binding has succeeded.
Serving(q) == Ready(q) /\ q.pc = "running" /\ q.cause = None /\ q.told = None

\* Parameters are missing: there was no body, or no more, or not all of it.
EndsEarly(q) ==
    \/ q.body = "none" \/ q.reads = 2
    \/ q.body = "cut" /\ (q.form = "multipart" \/ Sonic)

\* What the client was told of a binding is so.
Told(q, trans) ==
    q.cause # None => /\ Tells(q.told, q.cause, trans)
                      /\ q.told = Missing => EndsEarly(q)

\* A document went out, or gin has noted why not; after a failure, or what
\* has been noted, no handler is to run.
Delivered(q) ==
    /\ q \in RequestRecord /\ q.ctx \in Contexts
    /\ q.status = 200 /\ q.errors <= 1 /\ OneFailure(q.docs)
    /\ IF q.docs = <<>> THEN q.sent \in {0, 200} /\ q.errors = 1 ELSE q.sent = 200
    /\ q.aborted = FALSE => q.errors = 0 /\ NoFailure(q.docs)

Replied(q, trans) ==
    /\ Delivered(q) /\ q.pc = "answered" /\ Told(q, trans)
    /\ q.aborted = FALSE => q.cause = None /\ q.told = None

\* Answered, by a document or by a 500 alone, unless gin has noted an error.
Served(q, trans) ==
    /\ q \in RequestRecord /\ q.ctx \in Contexts /\ q.pc = "leaving"
    /\ OneFailure(q.docs) /\ Told(q, trans)
    /\ q.sent # 0 => q.sent = q.status
    /\ q.sent = 500 => q.docs = <<>>
    /\ q.docs # <<>> \/ q.sent = 500 \/ q.errors > 0

Over(q) ==
    /\ q \in RequestRecord /\ q.pc = "done" /\ q.docs = <<>> /\ q.cause = None
    /\ q.skip \/ q.logged > 0

Good(q, trans) ==
    q = Fresh \/ Serving(q) \/ Replied(q, trans) \/ Served(q, trans) \/ Over(q)

LEMMA DocumentFacts ==
    /\ <<>> \in Seq(Document) /\ NoFailure(<<>>)
    /\ \A docs \in Seq(Document) : NoFailure(docs) => OneFailure(docs)
    /\ \A docs \in Seq(Document), doc \in Document :
          /\ Append(docs, doc) \in Seq(Document) /\ Append(docs, doc) # <<>>
          /\ NoFailure(docs) => OneFailure(Append(docs, doc))
          /\ NoFailure(docs) /\ doc # "failure" => NoFailure(Append(docs, doc))
<1>1. <<>> \in Seq(Document) /\ Len(<<>>) = 0
  OBVIOUS
<1>2. NoFailure(<<>>)
  BY <1>1 DEF NoFailure
<1>3. \A docs \in Seq(Document) : NoFailure(docs) => OneFailure(docs)
  BY DEF NoFailure, OneFailure
<1>4. ASSUME NEW docs \in Seq(Document), NEW doc \in Document
      PROVE  /\ Append(docs, doc) \in Seq(Document) /\ Append(docs, doc) # <<>>
             /\ NoFailure(docs) => OneFailure(Append(docs, doc))
             /\ NoFailure(docs) /\ doc # "failure" => NoFailure(Append(docs, doc))
  <2> DEFINE a == Append(docs, doc)
  <2>1. /\ a \in Seq(Document) /\ Len(docs) \in Nat /\ Len(a) = Len(docs) + 1
        /\ \A i \in 1..Len(docs) : a[i] = docs[i]
        /\ a[Len(a)] = doc
    OBVIOUS
  <2>2. a # <<>>
    BY <1>1, <2>1
  <2> HIDE DEF a
  <2>3. \A i \in 1..Len(a) : i \in 1..Len(docs) \/ i = Len(a)
    BY <2>1
  <2>4. NoFailure(docs) => OneFailure(a)
    BY <2>1, <2>3 DEF NoFailure, OneFailure
  <2>5. NoFailure(docs) /\ doc # "failure" => NoFailure(a)
    BY <2>1, <2>3 DEF NoFailure
  <2>6. QED
    BY <2>1, <2>2, <2>4, <2>5 DEF a
<1>5. QED
  BY <1>1, <1>2, <1>3, <1>4

LEMMA FreshFacts ==
    /\ Fresh \in RequestRecord
    /\ Fresh.pc = "new" /\ Fresh.aborted = FALSE /\ Fresh.docs = <<>>
    /\ Fresh.cause = None /\ Fresh.told = None
    /\ Fresh.status = 200 /\ Fresh.sent = 0 /\ Fresh.errors = 0
<1>1. <<>> \in Seq(Document)
  BY DocumentFacts
<1>2. Fresh \in RequestRecord
  BY <1>1 DEF Fresh, RequestRecord, Handlers, Form, Body
<1>3. QED
  BY <1>2 DEF Fresh

-----------------------------------------------------------------------------
(* What each operator changes.                                             *)

LEMMA WriteStatusFacts ==
    ASSUME NEW q \in RequestRecord, NEW code \in {200, 500}
    PROVE  LET p == WriteStatus(q, code)
           IN  /\ p \in RequestRecord /\ Same(p, q) /\ p.pc = q.pc
               /\ p.status = (IF q.sent = 0 THEN code ELSE q.status) /\ p.sent = q.sent
               /\ p.aborted = q.aborted /\ p.cause = q.cause /\ p.told = q.told
               /\ p.docs = q.docs /\ p.errors = q.errors
<1> DEFINE v == IF q.sent = 0 THEN code ELSE q.status
           p == [q EXCEPT !.status = v]
<1>1. WriteStatus(q, code) = p
  BY DEF WriteStatus, RequestRecord
<1>2. v \in {200, 500} /\ v = (IF q.sent = 0 THEN code ELSE q.status)
  BY DEF RequestRecord
<1> HIDE DEF v
<1>3. p \in RequestRecord
  BY <1>2 DEF RequestRecord
<1>4. QED
  BY <1>1, <1>2, <1>3 DEF RequestRecord, Same

LEMMA WriteHeaderFacts ==
    ASSUME NEW q \in RequestRecord
    PROVE  LET p == WriteHeader(q)
           IN  /\ p \in RequestRecord /\ Same(p, q) /\ p.pc = q.pc
               /\ p.sent = (IF q.sent = 0 THEN q.status ELSE q.sent) /\ p.status = q.status
               /\ p.aborted = q.aborted /\ p.cause = q.cause /\ p.told = q.told
               /\ p.docs = q.docs /\ p.errors = q.errors
<1> DEFINE v == IF q.sent = 0 THEN q.status ELSE q.sent
           p == [q EXCEPT !.sent = v]
<1>1. WriteHeader(q) = p
  BY DEF WriteHeader, RequestRecord
<1>2. v \in {0, 200, 500} /\ v = (IF q.sent = 0 THEN q.status ELSE q.sent)
  BY DEF RequestRecord
<1> HIDE DEF v
<1>3. p \in RequestRecord
  BY <1>2 DEF RequestRecord
<1>4. QED
  BY <1>1, <1>2, <1>3 DEF RequestRecord, Same

LEMMA AbortFacts ==
    ASSUME NEW q \in RequestRecord
    PROVE  LET p == Abort(q)
           IN  /\ p \in RequestRecord /\ Same(p, q) /\ p.pc = q.pc
               /\ p.aborted # FALSE /\ p.status = q.status /\ p.sent = q.sent
               /\ p.cause = q.cause /\ p.told = q.told
               /\ p.docs = q.docs /\ p.errors = q.errors
<1> DEFINE v == TRUE
           p == [q EXCEPT !.aborted = v]
<1>1. Abort(q) = p
  BY DEF Abort
<1>2. p \in RequestRecord
  <2>1. v \in BOOLEAN
    OBVIOUS
  <2> HIDE DEF v
  <2>2. QED
    BY <2>1 DEF RequestRecord
<1>3. QED
  BY <1>1, <1>2 DEF RequestRecord, Same

LEMMA NotedFacts ==
    ASSUME NEW q \in RequestRecord, q.errors <= 1
    PROVE  LET p == Noted(q)
           IN  /\ p \in RequestRecord /\ Same(p, q) /\ p.pc = q.pc
               /\ p.aborted # FALSE /\ p.status = q.status /\ p.sent = q.sent
               /\ p.cause = q.cause /\ p.told = q.told
               /\ p.docs = q.docs /\ p.errors = q.errors + 1
<1> DEFINE v == q.errors + 1
           e == [q EXCEPT !.errors = v]
<1>1. Noted(q) = Abort(e)
  BY DEF Noted, RequestRecord
<1>2. v \in 0..2 /\ v = q.errors + 1
  BY DEF RequestRecord
<1> HIDE DEF v
<1>3. e \in RequestRecord
  BY <1>2 DEF RequestRecord
<1>4. /\ Same(e, q) /\ e.pc = q.pc /\ e.status = q.status /\ e.sent = q.sent
      /\ e.cause = q.cause /\ e.told = q.told
      /\ e.docs = q.docs /\ e.errors = v
  BY <1>3 DEF RequestRecord, Same
<1> HIDE DEF e
<1> DEFINE a == Abort(e)
<1>5. /\ a \in RequestRecord /\ Same(a, e) /\ a.pc = e.pc
      /\ a.aborted # FALSE /\ a.status = e.status /\ a.sent = e.sent
      /\ a.cause = e.cause /\ a.told = e.told
      /\ a.docs = e.docs /\ a.errors = e.errors
  BY <1>3, AbortFacts
<1>6. Noted(q) = a
  BY <1>1
<1> HIDE DEF a
<1>7. QED
  BY <1>2, <1>4, <1>5, <1>6 DEF Same

LEMMA AnsweredFacts ==
    ASSUME NEW q \in RequestRecord
    PROVE  LET p == Answered(q)
           IN  /\ p \in RequestRecord /\ Same(p, q) /\ p.pc = "answered"
               /\ p.aborted = q.aborted /\ p.status = q.status /\ p.sent = q.sent
               /\ p.cause = q.cause /\ p.told = q.told
               /\ p.docs = q.docs /\ p.errors = q.errors
<1> DEFINE p == [q EXCEPT !.pc = "answered"]
<1>1. Answered(q) = p
  BY DEF Answered
<1>2. p \in RequestRecord
  BY DEF RequestRecord
<1>3. QED
  BY <1>1, <1>2 DEF RequestRecord, Same

LEMMA ToldFacts ==
    ASSUME NEW q \in RequestRecord, NEW told \in Message \cup {None}
    PROVE  LET p == [q EXCEPT !.told = told]
           IN  /\ p \in RequestRecord /\ Same(p, q) /\ p.pc = q.pc
               /\ p.aborted = q.aborted /\ p.status = q.status /\ p.sent = q.sent
               /\ p.cause = q.cause /\ p.told = told
               /\ p.docs = q.docs /\ p.errors = q.errors
<1> DEFINE p == [q EXCEPT !.told = told]
<1>1. p \in RequestRecord
  BY DEF RequestRecord
<1>2. QED
  BY <1>1 DEF RequestRecord, Same

LEMMA CauseFacts ==
    ASSUME NEW q \in RequestRecord, NEW cause \in Cause
    PROVE  LET p == [q EXCEPT !.cause = cause]
           IN  /\ p \in RequestRecord /\ Same(p, q) /\ p.pc = q.pc
               /\ p.aborted = q.aborted /\ p.status = q.status /\ p.sent = q.sent
               /\ p.cause = cause /\ p.told = q.told
               /\ p.docs = q.docs /\ p.errors = q.errors
<1> DEFINE p == [q EXCEPT !.cause = cause]
<1>1. p \in RequestRecord
  BY DEF RequestRecord
<1>2. QED
  BY <1>1 DEF RequestRecord, Same

LEMMA DocsFacts ==
    ASSUME NEW q \in RequestRecord, NEW docs \in Seq(Document)
    PROVE  LET p == [q EXCEPT !.docs = docs]
           IN  /\ p \in RequestRecord /\ Same(p, q) /\ p.pc = q.pc
               /\ p.aborted = q.aborted /\ p.status = q.status /\ p.sent = q.sent
               /\ p.cause = q.cause /\ p.told = q.told
               /\ p.docs = docs /\ p.errors = q.errors
<1> DEFINE p == [q EXCEPT !.docs = docs]
<1>1. p \in RequestRecord
  BY SMTT(30) DEF RequestRecord
<1>2. QED
  BY <1>1 DEF RequestRecord, Same

LEMMA ReadFacts ==
    ASSUME NEW q \in RequestRecord
    PROVE  LET p == Read(q)
           IN  /\ p \in RequestRecord /\ p.pc = q.pc /\ p.ctx = q.ctx
               /\ p.form = q.form /\ p.body = q.body
               /\ p.aborted = q.aborted /\ p.status = q.status /\ p.sent = q.sent
               /\ p.cause = q.cause /\ p.told = q.told
               /\ p.docs = q.docs /\ p.errors = q.errors
               /\ q.reads # 0 => p.reads = 2
<1> DEFINE v == IF q.reads = 2 THEN 2 ELSE q.reads + 1
           p == [q EXCEPT !.reads = v]
<1>1. Read(q) = p
  BY DEF Read, RequestRecord
<1>2. v \in 0..2 /\ (q.reads # 0 => v = 2)
  BY DEF RequestRecord
<1> HIDE DEF v
<1>3. p \in RequestRecord
  BY <1>2 DEF RequestRecord
<1>4. QED
  BY <1>1, <1>2, <1>3 DEF RequestRecord

LEMMA ReadServes ==
    ASSUME NEW q, Serving(q)
    PROVE  /\ Serving(Read(q)) /\ Read(q).ctx = q.ctx
           /\ Read(q).body = q.body /\ Read(q).form = q.form
           /\ q.reads # 0 => Read(q).reads = 2
BY ReadFacts DEF Serving, Ready

LEMMA ParseServes ==
    ASSUME NEW q, Serving(q)
    PROVE  /\ Serving(Parse(q)) /\ Parse(q).ctx = q.ctx
           /\ Parse(q).body = q.body /\ Parse(q).form = q.form
           /\ Unparsable(q) /\ q.reads # 0 => Parse(q).reads = 2
<1> DEFINE yes == TRUE
           e == Read(q)
           p == [e EXCEPT !.parsed = yes]
<1>1. /\ Serving(e) /\ e.ctx = q.ctx /\ e.body = q.body /\ e.form = q.form
      /\ q.reads # 0 => e.reads = 2
  BY ReadServes
<1>2. Parse(q) = IF q.form = "plain" \/ q.parsed THEN q ELSE p
  BY DEF Parse
<1>3. e \in RequestRecord
  BY <1>1 DEF Serving, Ready
<1> HIDE DEF e
<1>4. p \in RequestRecord
  <2>1. yes \in BOOLEAN
    OBVIOUS
  <2> HIDE DEF yes
  <2>2. QED
    BY <1>3, <2>1 DEF RequestRecord
<1>5. /\ p.pc = e.pc /\ p.ctx = e.ctx /\ p.form = e.form /\ p.body = e.body
      /\ p.reads = e.reads /\ p.aborted = e.aborted /\ p.status = e.status
      /\ p.sent = e.sent /\ p.cause = e.cause /\ p.told = e.told
      /\ p.docs = e.docs /\ p.errors = e.errors
  BY <1>3 DEF RequestRecord
<1> HIDE DEF p
<1>6. Serving(p)
  BY <1>1, <1>4, <1>5 DEF Serving, Ready
<1>7. CASE q.form = "plain" \/ q.parsed
  BY <1>2, <1>7 DEF Unparsable
<1>8. CASE ~(q.form = "plain" \/ q.parsed)
  BY <1>1, <1>2, <1>5, <1>6, <1>8
<1>9. QED
  BY <1>7, <1>8

LEMMA AbortDelivers ==
    ASSUME NEW q \in RequestRecord, q.ctx \in Contexts, q.status = 200, q.errors <= 1,
           OneFailure(q.docs),
           IF q.docs = <<>> THEN q.sent \in {0, 200} /\ q.errors = 1 ELSE q.sent = 200
    PROVE  Delivered(Abort(q))
<1> DEFINE a == Abort(q)
<1>1. /\ a \in RequestRecord /\ a.ctx = q.ctx /\ a.status = q.status
      /\ a.sent = q.sent /\ a.docs = q.docs /\ a.errors = q.errors
  BY AbortFacts DEF Same
<1>2. a.aborted # FALSE
  BY AbortFacts
<1> HIDE DEF a
<1>3. a.aborted = FALSE => a.errors = 0 /\ NoFailure(a.docs)
  BY <1>2
<1>4. IF a.docs = <<>> THEN a.sent \in {0, 200} /\ a.errors = 1 ELSE a.sent = 200
  BY <1>1
<1>5. Delivered(a)
  BY <1>1, <1>3, <1>4 DEF Delivered
<1>6. QED
  BY <1>5 DEF a

\* Context.JSON, of a handler that has not answered yet.
LEMMA JsonFacts ==
    ASSUME NEW q, Ready(q), NEW doc \in Document, NEW outcome \in Outcome
    PROVE  LET p == Json(q, doc, outcome)
           IN  /\ Delivered(Abort(p)) /\ Same(p, q) /\ p \in RequestRecord
               /\ p.cause = q.cause /\ p.told = q.told
               /\ doc = "success" => Delivered(p)
<1> DEFINE s == WriteStatus(q, 200)
           w == WriteHeader(s)
           p == Json(q, doc, outcome)
<1>1. /\ q \in RequestRecord /\ q.ctx \in Contexts /\ q.aborted = FALSE
      /\ q.status = 200 /\ q.errors = 0 /\ NoFailure(q.docs) /\ q.docs \in Seq(Document)
      /\ IF q.docs = <<>> THEN q.sent = 0 ELSE q.sent = 200
  BY DEF Ready, RequestRecord
<1>2. /\ s \in RequestRecord /\ Same(s, q) /\ s.status = 200 /\ s.sent = q.sent
      /\ s.aborted = FALSE /\ s.cause = q.cause /\ s.told = q.told
      /\ s.docs = q.docs /\ s.errors = 0
  BY <1>1, WriteStatusFacts
<1>3. /\ outcome = "ok" => p = [w EXCEPT !.docs = Append(w.docs, doc)]
      /\ outcome = "lost" => p = Noted(w)
      /\ outcome = "unencodable" => p = Noted(s)
      /\ outcome \in {"ok", "lost", "unencodable"}
  BY DEF Json, Outcome
<1> HIDE DEF s
<1>4. /\ w \in RequestRecord /\ Same(w, q) /\ w.status = 200 /\ w.sent = 200
      /\ w.aborted = FALSE /\ w.cause = q.cause /\ w.told = q.told
      /\ w.docs = q.docs /\ w.errors = 0
  BY <1>1, <1>2, WriteHeaderFacts DEF Same
<1> DEFINE docs == Append(q.docs, doc)
           sent == [w EXCEPT !.docs = docs]
<1>5. /\ OneFailure(q.docs) /\ docs \in Seq(Document) /\ docs # <<>> /\ OneFailure(docs)
      /\ doc = "success" => NoFailure(docs)
  BY <1>1, DocumentFacts
<1> HIDE DEF w, p, docs
<1>6. ASSUME outcome # "ok"
      PROVE  /\ p \in RequestRecord /\ Same(p, q) /\ p.status = 200
             /\ p.sent \in {200, q.sent} /\ p.aborted # FALSE
             /\ p.cause = q.cause /\ p.told = q.told
             /\ p.docs = q.docs /\ p.errors = 1
  <2>1. ASSUME NEW v \in RequestRecord, v.errors = 0, p = Noted(v)
        PROVE  /\ p \in RequestRecord /\ Same(p, v) /\ p.status = v.status
               /\ p.sent = v.sent /\ p.aborted # FALSE /\ p.cause = v.cause
               /\ p.told = v.told /\ p.docs = v.docs /\ p.errors = 1
    <3>1. v.errors <= 1 /\ v.errors + 1 = 1
      BY <2>1
    <3>2. QED
      BY <2>1, <3>1, NotedFacts
  <2>2. CASE outcome = "lost"
    BY ZenonT(40), <1>3, <1>4, <2>1, <2>2 DEF Same
  <2>3. CASE outcome = "unencodable"
    BY ZenonT(40), <1>2, <1>3, <2>1, <2>3 DEF Same
  <2>4. QED
    BY <1>3, <1>6, <2>2, <2>3
<1>7. ASSUME outcome = "ok"
      PROVE  /\ p \in RequestRecord /\ Same(p, q) /\ p.status = 200 /\ p.sent = 200
             /\ p.aborted = FALSE /\ p.cause = q.cause /\ p.told = q.told
             /\ p.docs = docs /\ p.errors = 0
  <2>1. p = sent
    BY <1>3, <1>4, <1>7 DEF docs
  <2>2. /\ sent \in RequestRecord /\ Same(sent, w) /\ sent.status = w.status
        /\ sent.sent = w.sent /\ sent.aborted = w.aborted /\ sent.cause = w.cause
        /\ sent.told = w.told /\ sent.docs = docs /\ sent.errors = w.errors
    BY <1>4, <1>5, DocsFacts
  <2> HIDE DEF sent
  <2>3. QED
    BY <1>4, <2>1, <2>2 DEF Same
<1>8. CASE outcome # "ok"
  <2>1. p \in RequestRecord /\ p.ctx \in Contexts
    BY <1>1, <1>6, <1>8 DEF Same
  <2>2. Delivered(p)
    <3>1. p.errors <= 1 /\ p.status = 200
      BY <1>6, <1>8
    <3>2. OneFailure(p.docs)
      BY <1>5, <1>6, <1>8
    <3>3. IF p.docs = <<>> THEN p.sent \in {0, 200} /\ p.errors = 1 ELSE p.sent = 200
      BY <1>1, <1>6, <1>8
    <3>4. p.aborted = FALSE => p.errors = 0 /\ NoFailure(p.docs)
      BY <1>6, <1>8
    <3>5. QED
      BY <2>1, <3>1, <3>2, <3>3, <3>4 DEF Delivered
  <2>3. Delivered(Abort(p))
    BY <2>1, <2>2, AbortDelivers DEF Delivered
  <2>4. QED
    BY <1>6, <1>8, <2>2, <2>3 DEF p
<1>9. CASE outcome = "ok"
  <2>1. /\ p.docs # <<>> /\ OneFailure(p.docs)
        /\ doc = "success" => NoFailure(p.docs)
    BY <1>5, <1>7, <1>9
  <2>2. p \in RequestRecord /\ p.ctx \in Contexts
    BY <1>1, <1>7, <1>9 DEF Same
  <2>3. doc = "success" => Delivered(p)
    BY <1>7, <1>9, <2>1, <2>2 DEF Delivered
  <2>4. Delivered(Abort(p))
    <3>1. /\ p.status = 200 /\ p.errors <= 1
          /\ IF p.docs = <<>> THEN p.sent \in {0, 200} /\ p.errors = 1 ELSE p.sent = 200
      BY <1>7, <1>9, <2>1
    <3>2. QED
      BY <2>1, <2>2, <3>1, AbortDelivers
  <2>5. QED
    BY <1>7, <1>9, <2>3, <2>4 DEF p
<1>10. QED
  BY <1>8, <1>9

LEMMA AnsweredKeeps ==
    ASSUME NEW q, Delivered(q), NEW trans, Told(q, trans),
           q.aborted = FALSE => q.cause = None /\ q.told = None
    PROVE  Replied(Answered(q), trans) /\ Answered(q).ctx = q.ctx
<1> DEFINE p == Answered(q)
<1>1. q \in RequestRecord
  BY DEF Delivered
<1>2. /\ p \in RequestRecord /\ Same(p, q) /\ p.pc = "answered"
      /\ p.aborted = q.aborted /\ p.status = q.status /\ p.sent = q.sent
      /\ p.cause = q.cause /\ p.told = q.told
      /\ p.docs = q.docs /\ p.errors = q.errors
  BY <1>1, AnsweredFacts
<1> HIDE DEF p
<1>3. Delivered(p)
  BY <1>2 DEF Delivered, Same
<1>4. Told(p, trans)
  BY <1>2 DEF Told, EndsEarly, Same
<1>5. Replied(p, trans) /\ p.ctx = q.ctx
  BY <1>2, <1>3, <1>4 DEF Replied, Same
<1>6. QED
  BY <1>5 DEF p

LEMMA SuccessReplies ==
    ASSUME NEW q, Serving(q), NEW outcome \in Outcome, NEW trans
    PROVE  Replied(Success(q, outcome), trans) /\ Success(q, outcome).ctx = q.ctx
<1> DEFINE j == Json(q, "success", outcome)
<1>1. "success" \in Document
  BY DEF Document
<1>2. Delivered(j) /\ Same(j, q) /\ j.cause = None /\ j.told = None
  BY <1>1, JsonFacts DEF Serving
<1>3. Success(q, outcome) = Answered(j)
  BY DEF Success
<1> HIDE DEF j
<1>4. Told(j, trans)
  BY <1>2 DEF Told
<1>5. QED
  BY <1>2, <1>3, <1>4, AnsweredKeeps DEF Same

\* A failure ends the request, when the handler returns.
LEMMA FailureReplies ==
    ASSUME NEW q, Ready(q), NEW outcome \in Outcome, NEW trans,
           NEW told \in Message \cup {None},
           q.cause # None => /\ Tells(told, q.cause, trans)
                             /\ told = Missing => EndsEarly(q)
    PROVE  LET p == Failure(q, outcome, told)
           IN  Replied(p, trans) /\ p.ctx = q.ctx
<1> DEFINE j == Json(q, "failure", outcome)
           a == Abort(j)
           t == [a EXCEPT !.told = told]
<1>1. "failure" \in Document
  BY DEF Document
<1>2. Delivered(Abort(j)) /\ Same(j, q) /\ j.cause = q.cause /\ j \in RequestRecord
  BY <1>1, JsonFacts
<1>3. Failure(q, outcome, told) = Answered(t)
  BY DEF Failure
<1> HIDE DEF j
<1>4. /\ a \in RequestRecord /\ Same(a, q) /\ a.aborted # FALSE /\ a.cause = q.cause
      /\ Delivered(a)
  BY <1>2, AbortFacts DEF Same
<1> HIDE DEF a
<1>5. /\ t \in RequestRecord /\ Same(t, a) /\ t.aborted # FALSE
      /\ t.status = a.status /\ t.sent = a.sent /\ t.cause = q.cause /\ t.told = told
      /\ t.docs = a.docs /\ t.errors = a.errors
  BY <1>4, ToldFacts
<1> HIDE DEF t
<1>6. Delivered(t)
  BY ZenonT(40), <1>4, <1>5 DEF Delivered, Same
<1>7. Told(t, trans)
  BY <1>4, <1>5 DEF Told, EndsEarly, Same
<1>8. Replied(Answered(t), trans) /\ Answered(t).ctx = t.ctx
  BY <1>5, <1>6, <1>7, AnsweredKeeps
<1>9. QED
  BY <1>3, <1>4, <1>5, <1>8 DEF Same

LEMMA MovedFacts ==
    ASSUME NEW q \in RequestRecord, NEW pc \in {"running", "leaving"},
           NEW handler \in Handlers
    PROVE  LET p == [q EXCEPT !.pc = pc, !.handler = handler]
           IN  /\ p \in RequestRecord /\ p.pc = pc /\ p.ctx = q.ctx
               /\ p.form = q.form /\ p.body = q.body /\ p.reads = q.reads
               /\ p.aborted = q.aborted /\ p.status = q.status /\ p.sent = q.sent
               /\ p.cause = q.cause /\ p.told = q.told
               /\ p.docs = q.docs /\ p.errors = q.errors
<1> DEFINE h == [q EXCEPT !.handler = handler]
           p == [h EXCEPT !.pc = pc]
<1>1. h \in RequestRecord
  BY DEF RequestRecord
<1>2. /\ h.ctx = q.ctx /\ h.form = q.form /\ h.body = q.body /\ h.reads = q.reads
      /\ h.aborted = q.aborted /\ h.status = q.status /\ h.sent = q.sent
      /\ h.cause = q.cause /\ h.told = q.told /\ h.docs = q.docs /\ h.errors = q.errors
  BY DEF RequestRecord
<1>3. [q EXCEPT !.pc = pc, !.handler = handler] = p
  BY ZenonT(40) DEF RequestRecord
<1> HIDE DEF h
<1>4. p \in RequestRecord
  BY SMTT(30), <1>1 DEF RequestRecord
<1>5. /\ p.pc = pc /\ p.ctx = h.ctx /\ p.form = h.form /\ p.body = h.body
      /\ p.reads = h.reads /\ p.aborted = h.aborted /\ p.status = h.status
      /\ p.sent = h.sent /\ p.cause = h.cause /\ p.told = h.told
      /\ p.docs = h.docs /\ p.errors = h.errors
  BY <1>1 DEF RequestRecord
<1> HIDE DEF p
<1>6. QED
  BY <1>2, <1>3, <1>4, <1>5

\* The handler that runs next finds the request as the one before left it.
LEMMA NextServes ==
    ASSUME NEW q, Ready(q), q.cause = None, q.told = None, q.handler = 1
    PROVE  Serving(Returned(q)) /\ Returned(q).ctx = q.ctx
<1> DEFINE p == [q EXCEPT !.pc = "running", !.handler = 2]
<1>1. q \in RequestRecord /\ ~q.aborted /\ 2 \in Handlers
  BY DEF Ready, Handlers
<1>2. Returned(q) = p
  <2>1. Returned(q) = [q EXCEPT !.pc = "running", !.handler = @ + 1]
    BY <1>1 DEF Returned
  <2>2. q.handler + 1 = 2
    OBVIOUS
  <2>3. QED
    BY <1>1, <2>1, <2>2 DEF RequestRecord
<1>3. /\ p \in RequestRecord /\ p.pc = "running" /\ p.ctx = q.ctx
      /\ p.aborted = q.aborted /\ p.status = q.status /\ p.sent = q.sent
      /\ p.cause = q.cause /\ p.told = q.told /\ p.docs = q.docs /\ p.errors = q.errors
  BY ZenonT(40), <1>1, MovedFacts
<1> HIDE DEF p
<1>4. Serving(p)
  BY <1>3 DEF Serving, Ready
<1>5. QED
  BY <1>2, <1>3, <1>4

LEMMA LastLeaves ==
    ASSUME NEW q, NEW trans, Replied(q, trans), q.aborted \/ q.handler = 2
    PROVE  Served(Returned(q), trans) /\ Returned(q).ctx = q.ctx
<1> DEFINE p == [q EXCEPT !.pc = "leaving", !.handler = q.handler]
<1>1. q \in RequestRecord /\ Delivered(q) /\ Told(q, trans) /\ q.handler \in Handlers
  BY DEF Replied, Delivered, RequestRecord
<1>2. Returned(q) = p
  <2>1. Returned(q) = [q EXCEPT !.pc = "leaving"]
    BY DEF Returned
  <2>2. QED
    BY ZenonT(40), <1>1, <2>1 DEF RequestRecord
<1>3. /\ p \in RequestRecord /\ p.pc = "leaving" /\ p.ctx = q.ctx
      /\ p.form = q.form /\ p.body = q.body /\ p.reads = q.reads
      /\ p.status = q.status /\ p.sent = q.sent
      /\ p.cause = q.cause /\ p.told = q.told /\ p.docs = q.docs /\ p.errors = q.errors
  BY ZenonT(40), <1>1, MovedFacts
<1> HIDE DEF p
<1>4. Told(p, trans)
  BY <1>1, <1>3 DEF Told, EndsEarly
<1>5. /\ p.ctx \in Contexts /\ OneFailure(p.docs)
      /\ p.sent # 0 => p.sent = p.status
      /\ p.sent = 500 => p.docs = <<>>
      /\ p.docs # <<>> \/ p.sent = 500 \/ p.errors > 0
  BY <1>1, <1>3 DEF Delivered
<1>6. Served(p, trans)
  BY <1>3, <1>4, <1>5 DEF Served
<1>7. QED
  BY <1>2, <1>3, <1>6

\* A handler returns that has answered.
LEMMA ReturnKeepsOn ==
    ASSUME NEW q, NEW trans, Replied(q, trans)
    PROVE  /\ Serving(Returned(q)) \/ Served(Returned(q), trans)
           /\ Returned(q).ctx = q.ctx
<1>1. q \in RequestRecord /\ Delivered(q)
  BY DEF Replied, Delivered
<1>2. q.aborted \in BOOLEAN /\ q.handler \in {1, 2}
  BY <1>1 DEF RequestRecord, Handlers
<1>3. CASE q.aborted \/ q.handler = 2
  BY <1>3, LastLeaves
<1>4. CASE ~q.aborted /\ q.handler = 1
  <2>1. q.aborted = FALSE
    BY <1>2, <1>4
  <2>2. q.errors = 0 /\ NoFailure(q.docs) /\ q.cause = None /\ q.told = None
    BY <1>1, <2>1 DEF Delivered, Replied
  <2>3. q.ctx \in Contexts /\ q.status = 200 /\ (q.docs = <<>> => q.errors = 1)
        /\ (q.docs # <<>> => q.sent = 200)
    BY <1>1 DEF Delivered
  <2>4. Ready(q)
    BY <1>1, <2>1, <2>2, <2>3 DEF Ready
  <2>5. QED
    BY <1>4, <2>2, <2>4, NextServes
<1>5. QED
  BY <1>2, <1>3, <1>4

\* What a panic may interrupt: a handler before or after its answer.
Interrupted(q, trans) == Serving(q) \/ Replied(q, trans)

LEMMA InterruptedFacts ==
    ASSUME NEW q, NEW trans, Interrupted(q, trans)
    PROVE  /\ q \in RequestRecord /\ q.ctx \in Contexts /\ Told(q, trans)
           /\ q.status = 200 /\ q.errors <= 1 /\ OneFailure(q.docs)
           /\ q.docs = <<>> => q.sent \in {0, 200} /\ (q.sent = 200 => q.errors = 1)
           /\ q.docs # <<>> => q.sent = 200
<1>1. CASE Serving(q)
  <2>1. q \in RequestRecord /\ q.docs \in Seq(Document) /\ OneFailure(q.docs)
    BY <1>1, DocumentFacts DEF Serving, Ready, RequestRecord
  <2>2. Told(q, trans)
    BY <1>1 DEF Serving, Told
  <2>3. QED
    BY <1>1, <2>1, <2>2 DEF Serving, Ready
<1>2. CASE Replied(q, trans)
  BY <1>2 DEF Replied, Delivered
<1>3. QED
  BY <1>1, <1>2 DEF Interrupted

\* A panic is answered with 500 if nothing was, or there is an error.
LEMMA PanicServes ==
    ASSUME NEW q, NEW trans, Interrupted(q, trans), NEW r \in Panicked(q)
    PROVE  Served(r, trans) /\ r.ctx = q.ctx
<1> DEFINE yes == TRUE
           l == [q EXCEPT !.pc = "leaving"]
           k == [l EXCEPT !.panicked = yes]
           p == Abort(k)
           w == WriteStatus(p, 500)
           h == WriteHeader(w)
           n == Noted(p)
<1>1. /\ q \in RequestRecord /\ q.ctx \in Contexts /\ Told(q, trans)
      /\ q.status = 200 /\ q.errors <= 1 /\ OneFailure(q.docs)
      /\ q.docs = <<>> => q.sent \in {0, 200} /\ (q.sent = 200 => q.errors = 1)
      /\ q.docs # <<>> => q.sent = 200
  BY InterruptedFacts
<1>2. r = h \/ r = n
  <2>1. p = Abort([q EXCEPT !.pc = "leaving", !.panicked = TRUE])
    BY <1>1 DEF RequestRecord
  <2>2. Panicked(q) = {h, n}
    BY <2>1 DEF Panicked
  <2>3. QED
    BY <2>2
<1>3. l \in RequestRecord
  BY <1>1 DEF RequestRecord
<1>4. /\ Same(l, q) /\ l.pc = "leaving" /\ l.status = q.status /\ l.sent = q.sent
      /\ l.cause = q.cause /\ l.told = q.told /\ l.docs = q.docs /\ l.errors = q.errors
  BY <1>1 DEF RequestRecord, Same
<1> HIDE DEF l
<1>5. k \in RequestRecord
  <2>1. yes \in BOOLEAN
    OBVIOUS
  <2> HIDE DEF yes
  <2>2. QED
    BY <1>3, <2>1 DEF RequestRecord
<1>6. /\ Same(k, l) /\ k.pc = l.pc /\ k.status = l.status /\ k.sent = l.sent
      /\ k.cause = l.cause /\ k.told = l.told /\ k.docs = l.docs /\ k.errors = l.errors
  BY <1>3 DEF RequestRecord, Same
<1> HIDE DEF k
<1>7. /\ p \in RequestRecord /\ Same(p, k) /\ p.pc = k.pc
      /\ p.status = k.status /\ p.sent = k.sent
      /\ p.cause = k.cause /\ p.told = k.told /\ p.docs = k.docs /\ p.errors = k.errors
  BY <1>5, AbortFacts
<1> HIDE DEF p
<1>8. /\ p \in RequestRecord /\ Same(p, q) /\ p.pc = "leaving"
      /\ p.status = 200 /\ p.sent = q.sent
      /\ p.cause = q.cause /\ p.told = q.told /\ p.docs = q.docs /\ p.errors = q.errors
  BY <1>1, <1>4, <1>6, <1>7 DEF Same
<1>9. ASSUME NEW s \in RequestRecord, Same(s, p), s.pc = "leaving",
             s.cause = q.cause, s.told = q.told, s.docs = q.docs,
             s.sent # 0 => s.sent = s.status,
             s.sent = 500 => s.docs = <<>>,
             s.docs # <<>> \/ s.sent = 500 \/ s.errors > 0
      PROVE  Served(s, trans) /\ s.ctx = q.ctx
  <2>1. Told(s, trans)
    BY <1>1, <1>8, <1>9 DEF Told, EndsEarly, Same
  <2>2. s.ctx = q.ctx
    BY <1>8, <1>9 DEF Same
  <2>3. QED
    BY <1>1, <1>9, <2>1, <2>2 DEF Served
<1>10. CASE r = h
  <2>1. /\ w \in RequestRecord /\ Same(w, p) /\ w.pc = p.pc
        /\ w.status = (IF p.sent = 0 THEN 500 ELSE p.status) /\ w.sent = p.sent
        /\ w.cause = p.cause /\ w.told = p.told
        /\ w.docs = p.docs /\ w.errors = p.errors
    BY <1>8, WriteStatusFacts
  <2> HIDE DEF w
  <2>2. /\ h \in RequestRecord /\ Same(h, w) /\ h.pc = w.pc
        /\ h.sent = (IF w.sent = 0 THEN w.status ELSE w.sent) /\ h.status = w.status
        /\ h.cause = w.cause /\ h.told = w.told
        /\ h.docs = w.docs /\ h.errors = w.errors
    BY <2>1, WriteHeaderFacts
  <2> HIDE DEF h
  <2>3. CASE q.sent = 0
    <3>1. h.status = 500 /\ h.sent = 500
      BY <1>8, <2>1, <2>2, <2>3
    <3>2. q.docs = <<>>
      BY <1>1, <2>3
    <3>3. Same(h, p) /\ h.pc = "leaving" /\ h.cause = q.cause /\ h.told = q.told
          /\ h.docs = q.docs
      BY <1>8, <2>1, <2>2 DEF Same
    <3>4. QED
      BY <1>9, <1>10, <2>2, <3>1, <3>2, <3>3
  <2>4. CASE q.sent # 0
    <3>1. q.sent = 200 /\ (q.docs = <<>> => q.errors = 1)
      BY <1>1, <2>4
    <3>2. h.status = 200 /\ h.sent = 200 /\ h.errors = q.errors
      BY <1>8, <2>1, <2>2, <2>4, <3>1
    <3>3. Same(h, p) /\ h.pc = "leaving" /\ h.cause = q.cause /\ h.told = q.told
          /\ h.docs = q.docs
      BY <1>8, <2>1, <2>2 DEF Same
    <3>4. h.docs # <<>> \/ h.sent = 500 \/ h.errors > 0
      BY <3>1, <3>2, <3>3
    <3>5. QED
      BY <1>9, <1>10, <2>2, <3>2, <3>3, <3>4
  <2>5. QED
    BY <2>3, <2>4
<1>11. CASE r = n
  <2>1. p.errors <= 1
    BY <1>1, <1>8
  <2>2. /\ n \in RequestRecord /\ Same(n, p) /\ n.pc = p.pc
        /\ n.status = p.status /\ n.sent = p.sent
        /\ n.cause = p.cause /\ n.told = p.told
        /\ n.docs = p.docs /\ n.errors = p.errors + 1
    BY <1>8, <2>1, NotedFacts
  <2> HIDE DEF n
  <2>3. p.errors \in 0..2
    BY <1>8 DEF RequestRecord
  <2>4. n.errors > 0
    BY <2>2, <2>3
  <2>5. /\ n.sent # 0 => n.sent = n.status
        /\ n.sent = 500 => n.docs = <<>>
    BY <1>1, <1>8, <2>2
  <2>6. n.pc = "leaving" /\ n.cause = q.cause /\ n.told = q.told /\ n.docs = q.docs
    BY <1>8, <2>2
  <2>7. QED
    BY <1>9, <1>11, <2>2, <2>4, <2>5, <2>6
<1>12. QED
  BY <1>2, <1>10, <1>11

\* A failed binding is answered, with what is so.
LEMMA RefusedReplies ==
    ASSUME NEW q, Serving(q), NEW outcome \in Outcome, server.trans \in BOOLEAN,
           NEW cause, WellFormed(cause), cause.kind = "eof" => EndsEarly(q)
    PROVE  LET p == Failure([q EXCEPT !.cause = cause], outcome, Explain(cause))
           IN  Replied(p, server.trans) /\ p.ctx = q.ctx
<1> DEFINE a == [q EXCEPT !.cause = cause]
           e == Explain(cause)
           p == Failure(a, outcome, e)
<1>1. q \in RequestRecord /\ cause \in Cause
  BY DEF Serving, Ready, WellFormed
<1>2. /\ a \in RequestRecord /\ Same(a, q) /\ a.aborted = q.aborted
      /\ a.status = q.status /\ a.sent = q.sent /\ a.cause = cause
      /\ a.docs = q.docs /\ a.errors = q.errors
  BY <1>1, CauseFacts
<1>3. e \in Message /\ Tells(e, cause, server.trans)
  BY ExplainTells
<1> HIDE DEF a, e
<1>4. Ready(a)
  BY <1>2 DEF Serving, Ready, Same
<1>5. /\ Tells(e, a.cause, server.trans)
      /\ e = Missing => EndsEarly(a)
  BY <1>2, <1>3 DEF Tells, EndsEarly, Same
<1>6. e \in Message \cup {None}
  BY <1>3
<1>7. Replied(p, server.trans) /\ p.ctx = a.ctx
  BY <1>4, <1>5, <1>6, FailureReplies
<1> HIDE DEF p
<1>8. Replied(p, server.trans) /\ p.ctx = q.ctx
  BY <1>2, <1>7 DEF Same
<1>9. QED
  BY <1>8 DEF p, a, e

LEMMA CausesAreWellFormed ==
    /\ \A q : \A cause \in JsonCauses(q) :
          /\ WellFormed(cause)
          /\ cause.kind = "eof" => ~Left(q) \/ (q.body = "cut" /\ Sonic)
    /\ \A q : \A cause \in FormCauses(q) :
          WellFormed(cause) /\ (cause.kind = "eof" => Unparsable(q))
    /\ \A cause \in ValueCauses : WellFormed(cause) /\ cause.kind # "eof"
<1>1. \A kind \in {"eof", "mismatch", "other"} :
          WellFormed(Fails(kind)) /\ Fails(kind).kind = kind
  BY DEF WellFormed, Cause, Fails
<1>2. \A cause \in Invalid : WellFormed(cause) /\ cause.kind # "eof"
  BY DEF Invalid, WellFormed, Cause
<1>3. WellFormed(Unmarshals) /\ Unmarshals.kind # "eof"
  BY <1>1 DEF Unmarshals
<1>4. \A cause \in ValueCauses : WellFormed(cause) /\ cause.kind # "eof"
  BY <1>1, <1>2, <1>3 DEF ValueCauses
<1>5. ASSUME NEW q, NEW cause \in JsonCauses(q)
      PROVE  /\ WellFormed(cause)
             /\ cause.kind = "eof" => ~Left(q) \/ (q.body = "cut" /\ Sonic)
  BY <1>1, <1>2, <1>3, <1>5 DEF JsonCauses
<1>6. ASSUME NEW q, NEW cause \in FormCauses(q)
      PROVE  WellFormed(cause) /\ (cause.kind = "eof" => Unparsable(q))
  BY <1>1, <1>4, <1>6 DEF FormCauses
<1>7. QED
  BY <1>4, <1>5, <1>6

-----------------------------------------------------------------------------
(* All of them, with the contexts they are in and the tasks they left.     *)

TaskRecord == [ctx : Contexts, tid : Requests]
Busy == {"running", "answered", "leaving"}
LineRecord == [by : {"access", "tracer", "sql", "late sql"}, of : Requests,
               id : Requests, status : {0, 200, 500}]

Typed ==
    /\ occupant \in [Contexts -> Requests \cup {None}]
    /\ request \in [Requests -> RequestRecord]
    /\ task \in [Requests -> TaskRecord \cup {None}]

AllGood == \A r \in Requests : Good(request[r], server.trans)

\* A context belongs to the request that was given it, until that is over.
Owned ==
    \A r \in Requests :
        request[r].pc \in Busy => occupant[request[r].ctx] = r

\* A task has the trace id of its request and, while that lasts, its context.
TaskOf(r) ==
    task[r] # None =>
        /\ task[r] \in TaskRecord /\ task[r].tid = r
        /\ occupant[task[r].ctx] \in Requests
        /\ request[r].pc # "new"
        /\ request[r].pc # "done" => task[r].ctx = request[r].ctx

\* What the last step logged is so.
LineIsSo ==
    line = None \/
        /\ line \in LineRecord
        /\ line.id # line.of => line.by = "late sql" /\ request[line.of].pc = "done"
        /\ line.by = "access" => line.status = request[line.of].sent

IInv ==
    Setup /\ Typed /\ AllGood /\ Owned /\ (\A r \in Requests : TaskOf(r)) /\ LineIsSo

LEMMA GoodFacts ==
    ASSUME NEW q, NEW trans, Good(q, trans)
    PROVE  /\ q \in RequestRecord
           /\ q.pc = "new" => q = Fresh
           /\ q.pc = "running" => Serving(q)
           /\ q.pc = "answered" => Replied(q, trans)
           /\ q.pc = "leaving" => Served(q, trans)
           /\ q.pc = "done" => Over(q)
           /\ q.pc \in Busy => q.ctx \in Contexts
<1>1. q = Fresh => q \in RequestRecord /\ q.pc = "new"
  BY FreshFacts
<1>2. Serving(q) => q \in RequestRecord /\ q.pc = "running" /\ q.ctx \in Contexts
  BY DEF Serving, Ready
<1>3. Replied(q, trans) => q \in RequestRecord /\ q.pc = "answered" /\ q.ctx \in Contexts
  BY DEF Replied, Delivered
<1>4. Served(q, trans) => q \in RequestRecord /\ q.pc = "leaving" /\ q.ctx \in Contexts
  BY DEF Served
<1>5. Over(q) => q \in RequestRecord /\ q.pc = "done"
  BY DEF Over
<1>6. QED
  BY <1>1, <1>2, <1>3, <1>4, <1>5 DEF Good, Busy

\* What is to be shown of a step that leaves the set-up alone.
Rest == Typed /\ AllGood /\ Owned /\ (\A r \in Requests : TaskOf(r)) /\ LineIsSo

LEMMA RestInit == Init => Rest
<1> SUFFICES ASSUME Init PROVE Rest
  OBVIOUS
<1>1. /\ occupant = [x \in Contexts |-> None] /\ request = [r \in Requests |-> Fresh]
      /\ task = [r \in Requests |-> None] /\ line = None
  BY DEF Init
<1>2. Typed
  BY <1>1, FreshFacts DEF Typed
<1>3. AllGood
  BY <1>1 DEF AllGood, Good
<1>4. Owned
  BY <1>1, FreshFacts DEF Owned, Busy
<1>5. QED
  BY <1>1, <1>2, <1>3, <1>4 DEF Rest, TaskOf, LineIsSo

LEMMA RestStutters == Rest /\ UNCHANGED vars => Rest'
BY ZenonT(40) DEF Rest, Typed, AllGood, Owned, TaskOf, LineIsSo, vars, setup

\* A handler's step that logs nothing, and starts no task.
LEMMA BecomeKeeps ==
    ASSUME Rest, NEW r \in Requests, request[r].pc \in Busy, NEW p, Become(r, p),
           Serving(p) \/ Replied(p, server.trans) \/ Served(p, server.trans),
           p.ctx = request[r].ctx
    PROVE  Rest'
<1>1. /\ request' = [request EXCEPT ![r] = p] /\ line' = None
      /\ server' = server /\ occupant' = occupant /\ task' = task
  BY DEF Become, setup
<1>2. /\ p \in RequestRecord /\ p.pc \in Busy
      /\ Good(p, server.trans)
  BY DEF Serving, Ready, Replied, Delivered, Served, Good, Busy
<1>3. /\ request'[r] = p
      /\ \A s \in Requests : s # r => request'[s] = request[s]
      /\ request' \in [Requests -> RequestRecord]
  BY <1>1, <1>2 DEF Rest, Typed
<1>4. Typed'
  BY <1>1, <1>3 DEF Rest, Typed
<1>5. AllGood'
  BY <1>1, <1>2, <1>3 DEF Rest, AllGood
<1>6. Owned'
  <2> SUFFICES ASSUME NEW s \in Requests, request'[s].pc \in Busy
               PROVE  occupant'[request'[s].ctx] = s
    BY DEF Owned
  <2>1. CASE s = r
    BY <1>1, <1>3, <2>1 DEF Rest, Owned
  <2>2. CASE s # r
    BY <1>1, <1>3, <2>2 DEF Rest, Owned
  <2>3. QED
    BY <2>1, <2>2
<1>7. ASSUME NEW s \in Requests PROVE TaskOf(s)'
  <2>1. TaskOf(s)
    BY DEF Rest
  <2>2. CASE s = r
    BY <1>1, <1>2, <1>3, <2>1, <2>2 DEF TaskOf, Busy
  <2>3. CASE s # r
    BY <1>1, <1>3, <2>1, <2>3 DEF TaskOf
  <2>4. QED
    BY <2>2, <2>3
<1>8. QED
  BY <1>1, <1>4, <1>5, <1>6, <1>7 DEF Rest, LineIsSo

LEMMA BindKeeps ==
    ASSUME Rest, server.trans \in BOOLEAN, NEW r \in Requests, request[r].pc \in Busy,
           NEW q, Serving(q), q.ctx = request[r].ctx, NEW causes, NEW canSucceed,
           \A cause \in causes :
               WellFormed(cause) /\ (cause.kind = "eof" => EndsEarly(q)),
           Bind(r, q, causes, canSucceed)
    PROVE  Rest'
<1>1. CASE Become(r, q)
  BY <1>1, BecomeKeeps
<1>2. ASSUME NEW cause \in causes, NEW outcome \in {"ok", "lost"},
             Become(r, Failure([q EXCEPT !.cause = cause], outcome, Explain(cause)))
      PROVE  Rest'
  <2> DEFINE p == Failure([q EXCEPT !.cause = cause], outcome, Explain(cause))
  <2>1. WellFormed(cause) /\ (cause.kind = "eof" => EndsEarly(q))
    OBVIOUS
  <2>2. outcome \in Outcome
    BY DEF Outcome
  <2>3. Replied(p, server.trans) /\ p.ctx = q.ctx
    BY <2>1, <2>2, RefusedReplies
  <2>4. Become(r, p)
    BY <1>2
  <2> HIDE DEF p
  <2>5. QED
    BY <2>3, <2>4, BecomeKeeps
<1>3. ASSUME NEW p \in Panicked(q), Become(r, p)
      PROVE  Rest'
  <2>1. Interrupted(q, server.trans)
    BY DEF Interrupted
  <2>2. Served(p, server.trans) /\ p.ctx = q.ctx
    BY <2>1, PanicServes
  <2>3. QED
    BY <1>3, <2>2, BecomeKeeps
<1>4. QED
  BY <1>1, <1>2, <1>3 DEF Bind

LEMMA RunningServes ==
    ASSUME Rest, NEW r \in Requests, Running(r)
    PROVE  request[r].pc \in Busy /\ Serving(request[r])
BY GoodFacts DEF Rest, AllGood, Running, Busy

LEMMA BindJsonKeeps ==
    ASSUME Rest, server.trans \in BOOLEAN, NEW r \in Requests, BindJson(r)
    PROVE  Rest'
<1> DEFINE q == request[r]
<1>1. q.pc \in Busy /\ Serving(q)
  BY RunningServes DEF BindJson
<1>2. Bind(r, Read(q), JsonCauses(q), Complete(q))
  BY DEF BindJson
<1>3. /\ Serving(Read(q)) /\ Read(q).ctx = q.ctx
      /\ Read(q).body = q.body /\ Read(q).form = q.form
      /\ q.reads # 0 => Read(q).reads = 2
  BY <1>1, ReadServes
<1>4. \A cause \in JsonCauses(q) :
          WellFormed(cause) /\ (cause.kind = "eof" => EndsEarly(Read(q)))
  BY <1>3, CausesAreWellFormed DEF Left, EndsEarly
<1> DEFINE b == Read(q)
           causes == JsonCauses(q)
           canSucceed == Complete(q)
<1> HIDE DEF b, causes, canSucceed
<1>5. /\ request[r].pc \in Busy /\ Serving(b) /\ b.ctx = request[r].ctx
      /\ \A cause \in causes :
             WellFormed(cause) /\ (cause.kind = "eof" => EndsEarly(b))
      /\ Bind(r, b, causes, canSucceed)
  BY <1>1, <1>2, <1>3, <1>4 DEF b, causes, canSucceed
<1> HIDE DEF q
<1>6. QED
  BY <1>5, BindKeeps

LEMMA BindFormKeeps ==
    ASSUME Rest, server.trans \in BOOLEAN, NEW r \in Requests, BindForm(r)
    PROVE  Rest'
<1> DEFINE q == request[r]
<1>1. q.pc \in Busy /\ Serving(q)
  BY RunningServes DEF BindForm
<1>2. Bind(r, Parse(q), FormCauses(q), ~Unparsable(q))
  BY DEF BindForm
<1>3. /\ Serving(Parse(q)) /\ Parse(q).ctx = q.ctx
      /\ Parse(q).body = q.body /\ Parse(q).form = q.form
      /\ Unparsable(q) /\ q.reads # 0 => Parse(q).reads = 2
  BY <1>1, ParseServes
<1>4. q.body \in Body
  BY <1>1 DEF Serving, Ready, RequestRecord
<1>5. Unparsable(q) => EndsEarly(Parse(q))
  BY <1>3, <1>4 DEF Unparsable, Complete, EndsEarly, Body
<1>6. \A cause \in FormCauses(q) :
          WellFormed(cause) /\ (cause.kind = "eof" => EndsEarly(Parse(q)))
  BY <1>5, CausesAreWellFormed
<1> DEFINE b == Parse(q)
           causes == FormCauses(q)
           canSucceed == ~Unparsable(q)
<1> HIDE DEF b, causes, canSucceed
<1>7. /\ request[r].pc \in Busy /\ Serving(b) /\ b.ctx = request[r].ctx
      /\ \A cause \in causes :
             WellFormed(cause) /\ (cause.kind = "eof" => EndsEarly(b))
      /\ Bind(r, b, causes, canSucceed)
  BY <1>1, <1>2, <1>3, <1>6 DEF b, causes, canSucceed
<1> HIDE DEF q
<1>8. QED
  BY <1>7, BindKeeps

LEMMA BindQueryKeeps ==
    ASSUME Rest, server.trans \in BOOLEAN, NEW r \in Requests, BindQuery(r)
    PROVE  Rest'
<1> DEFINE b == request[r]
           causes == ValueCauses
           canSucceed == TRUE
<1>1. request[r].pc \in Busy /\ Serving(b) /\ b.ctx = request[r].ctx
  BY RunningServes DEF BindQuery
<1>2. /\ \A cause \in causes :
             WellFormed(cause) /\ (cause.kind = "eof" => EndsEarly(b))
      /\ Bind(r, b, causes, canSucceed)
  BY CausesAreWellFormed DEF BindQuery
<1> HIDE DEF b, causes, canSucceed
<1>3. QED
  BY <1>1, <1>2, BindKeeps

LEMMA AnswerKeeps ==
    ASSUME Rest, NEW r \in Requests, Answer(r)
    PROVE  Rest'
<1>1. request[r].pc \in Busy /\ Serving(request[r])
  BY RunningServes DEF Answer
<1>2. ASSUME NEW outcome \in Outcome, Become(r, Success(request[r], outcome))
      PROVE  Rest'
  <2> DEFINE p == Success(request[r], outcome)
  <2>1. Replied(p, server.trans) /\ p.ctx = request[r].ctx
    BY <1>1, SuccessReplies
  <2>2. Become(r, p)
    BY <1>2
  <2> HIDE DEF p
  <2>3. QED
    BY <1>1, <2>1, <2>2, BecomeKeeps
<1>3. ASSUME NEW outcome \in Outcome, Become(r, Failure(request[r], outcome, None))
      PROVE  Rest'
  <2> DEFINE q == request[r]
             p == Failure(q, outcome, None)
  <2>1. Ready(q) /\ q.cause = None
    BY <1>1 DEF Serving
  <2>2. Replied(p, server.trans) /\ p.ctx = q.ctx
    <3> HIDE DEF q
    <3>1. QED
      BY <2>1, FailureReplies
  <2>3. Become(r, p)
    BY <1>3
  <2> HIDE DEF p
  <2>4. QED
    BY <1>1, <2>2, <2>3, BecomeKeeps
<1>4. QED
  BY <1>2, <1>3 DEF Answer

LEMMA ReturnKeeps ==
    ASSUME Rest, NEW r \in Requests, Return(r)
    PROVE  Rest'
<1> DEFINE q == request[r]
           p == Returned(q)
<1>1. Become(r, p)
  BY DEF Return
<1>2. CASE q.pc = "answered"
  <2>1. q.pc \in Busy /\ Replied(q, server.trans)
    BY <1>2, GoodFacts DEF Rest, AllGood, Busy
  <2>2. (Serving(p) \/ Served(p, server.trans)) /\ p.ctx = request[r].ctx
    <3>1. /\ Serving(Returned(q)) \/ Served(Returned(q), server.trans)
          /\ Returned(q).ctx = q.ctx
      BY <2>1, ReturnKeepsOn
    <3>2. QED
      BY <3>1
  <2> HIDE DEF p
  <2>3. QED
    BY <1>1, <2>1, <2>2, BecomeKeeps
<1>3. CASE Running(r) /\ q.handler = 1
  <2>1. q.pc \in Busy /\ Ready(q) /\ q.cause = None /\ q.told = None
    BY <1>3, RunningServes DEF Serving
  <2>2. Serving(p) /\ p.ctx = request[r].ctx
    BY <1>3, <2>1, NextServes
  <2> HIDE DEF p
  <2>3. QED
    BY <1>1, <2>1, <2>2, BecomeKeeps
<1>4. QED
  BY <1>2, <1>3 DEF Return

LEMMA PanicKeeps ==
    ASSUME Rest, NEW r \in Requests, Panic(r)
    PROVE  Rest'
<1>1. request[r].pc \in Busy /\ Interrupted(request[r], server.trans)
  BY GoodFacts DEF Rest, AllGood, Panic, InHandler, Interrupted, Busy
<1>2. PICK p \in Panicked(request[r]) : Become(r, p)
  BY DEF Panic
<1>3. Served(p, server.trans) /\ p.ctx = request[r].ctx
  BY <1>1, PanicServes
<1>4. QED
  BY <1>1, <1>2, <1>3, BecomeKeeps

\* InitGin looks at the set-up alone.
LEMMA InitGinKeeps ==
    ASSUME Rest, InitGin, server'.trans = server.trans
    PROVE  Rest'
BY DEF Rest, Typed, AllGood, Owned, TaskOf, LineIsSo, InitGin

\* The context was nobody's, so nobody loses it.
LEMMA ArriveKeeps ==
    ASSUME Rest, NEW r \in Requests, Arrive(r)
    PROVE  Rest'
<1>1. PICK x \in Contexts, form \in Form, body \in Body :
          /\ ~InUse(x)
          /\ occupant' = [occupant EXCEPT ![x] = r]
          /\ request' = [request EXCEPT ![r].pc = "running", ![r].ctx = x,
                                        ![r].form = form, ![r].body = body]
  BY DEF Arrive
<1>2. /\ request[r].pc = "new" /\ line' = None /\ server' = server /\ task' = task
      /\ \A s \in Requests : Good(request[s], server.trans)
      /\ \A s \in Requests : TaskOf(s)
      /\ request \in [Requests -> RequestRecord]
      /\ occupant \in [Contexts -> Requests \cup {None}]
      /\ task \in [Requests -> TaskRecord \cup {None}]
  BY DEF Arrive, setup, Rest, AllGood, Typed
<1>3. request[r] = Fresh
  BY <1>2, GoodFacts
<1> DEFINE a == [Fresh EXCEPT !.pc = "running"]
           b == [a EXCEPT !.ctx = x]
           d == [b EXCEPT !.form = form]
           c == [d EXCEPT !.body = body]
<1>4. request'[r] = c
  BY <1>1, <1>2, <1>3
<1>5. \A s \in Requests : s # r => request'[s] = request[s]
  BY <1>1, <1>2
<1>6. Serving(c) /\ c.ctx = x /\ c.pc = "running"
  <2>1. a \in RequestRecord
    BY FreshFacts DEF RequestRecord
  <2>2. /\ a.pc = "running" /\ a.aborted = FALSE /\ a.status = 200 /\ a.sent = 0
        /\ a.errors = 0 /\ a.docs = <<>> /\ a.cause = None /\ a.told = None
    BY FreshFacts DEF RequestRecord
  <2> HIDE DEF a
  <2>3. b \in RequestRecord
    BY <2>1 DEF RequestRecord
  <2>4. /\ b.pc = a.pc /\ b.ctx = x /\ b.aborted = a.aborted /\ b.status = a.status
        /\ b.sent = a.sent /\ b.errors = a.errors /\ b.docs = a.docs
        /\ b.cause = a.cause /\ b.told = a.told
    BY <2>1 DEF RequestRecord
  <2> HIDE DEF b
  <2>5. d \in RequestRecord
    BY <2>3 DEF RequestRecord
  <2>6. /\ d.pc = b.pc /\ d.ctx = b.ctx /\ d.aborted = b.aborted /\ d.status = b.status
        /\ d.sent = b.sent /\ d.errors = b.errors /\ d.docs = b.docs
        /\ d.cause = b.cause /\ d.told = b.told
    BY <2>3 DEF RequestRecord
  <2> HIDE DEF d
  <2>7. c \in RequestRecord
    BY <2>5 DEF RequestRecord
  <2>8. /\ c.pc = d.pc /\ c.ctx = d.ctx /\ c.aborted = d.aborted /\ c.status = d.status
        /\ c.sent = d.sent /\ c.errors = d.errors /\ c.docs = d.docs
        /\ c.cause = d.cause /\ c.told = d.told
    BY <2>5 DEF RequestRecord
  <2> HIDE DEF c
  <2>9. NoFailure(c.docs) /\ c.docs = <<>>
    BY <2>2, <2>4, <2>6, <2>8, DocumentFacts
  <2>10. Ready(c)
    BY <2>2, <2>4, <2>6, <2>7, <2>8, <2>9 DEF Ready
  <2>11. QED
    BY <2>2, <2>4, <2>6, <2>8, <2>10 DEF Serving
<1> HIDE DEF c
<1>7. Good(c, server.trans) /\ c \in RequestRecord
  BY <1>6 DEF Good, Serving, Ready
<1>8. /\ occupant'[x] = r
      /\ \A y \in Contexts : y # x => occupant'[y] = occupant[y]
      /\ occupant' \in [Contexts -> Requests \cup {None}]
  BY <1>1, <1>2
<1>9. Typed'
  <2>1. DOMAIN request' = Requests /\ request' = [s \in Requests |-> request'[s]]
    BY <1>1, <1>2
  <2>2. \A s \in Requests : request'[s] \in RequestRecord
    BY <1>2, <1>4, <1>5, <1>7
  <2>3. request' \in [Requests -> RequestRecord]
    BY <2>1, <2>2
  <2>4. QED
    BY <1>2, <1>8, <2>3 DEF Typed
<1>10. AllGood'
  BY <1>2, <1>4, <1>5, <1>7 DEF AllGood
<1>11. Owned'
  <2> SUFFICES ASSUME NEW s \in Requests, request'[s].pc \in Busy
               PROVE  occupant'[request'[s].ctx] = s
    BY DEF Owned
  <2>1. CASE s = r
    BY <1>4, <1>6, <1>8, <2>1
  <2>2. CASE s # r
    <3>1. request'[s] = request[s] /\ request[s].pc \in Busy
      BY <1>5, <2>2
    <3>2. request[s].ctx \in Contexts
      BY <1>2, <3>1, GoodFacts
    <3>3. request[s].ctx # x
      BY <1>1, <3>1 DEF InUse, Busy
    <3>4. occupant[request[s].ctx] = s
      BY <3>1 DEF Rest, Owned
    <3>5. QED
      BY <1>8, <3>1, <3>2, <3>3, <3>4
  <2>3. QED
    BY <2>1, <2>2
<1>12. ASSUME NEW s \in Requests PROVE TaskOf(s)'
  <2>1. TaskOf(s)
    BY <1>2
  <2>2. CASE s = r
    BY <1>2, <2>1, <2>2 DEF TaskOf
  <2>3. CASE s # r
    <3> SUFFICES ASSUME task[s] # None PROVE TaskOf(s)'
      BY <1>2 DEF TaskOf
    <3>1. task[s] \in TaskRecord /\ task[s].ctx \in Contexts
      BY <2>1 DEF TaskOf, TaskRecord
    <3>2. occupant[task[s].ctx] \in Requests
      BY <2>1 DEF TaskOf
    <3>3. occupant'[task[s].ctx] \in Requests
      BY <1>8, <3>1, <3>2
    <3>4. QED
      BY <1>2, <1>5, <2>1, <2>3, <3>3 DEF TaskOf
  <2>4. QED
    BY <2>2, <2>3
<1>13. QED
  BY <1>2, <1>9, <1>10, <1>11, <1>12 DEF Rest, LineIsSo

LEMMA QueryKeeps ==
    ASSUME Rest, NEW r \in Requests, Query(r)
    PROVE  Rest'
<1>1. /\ occupant' = occupant /\ request' = request /\ task' = task /\ server' = server
      /\ request[r].pc \in Busy
  BY DEF Query, InHandler, Busy, setup
<1>2. occupant[request[r].ctx] = r
  BY <1>1 DEF Rest, Owned
<1>3. Log("sql", r, r, 0)
  BY <1>2 DEF Query
<1>4. /\ line' \in LineRecord /\ line'.by = "sql" /\ line'.of = r /\ line'.id = r
  BY <1>3 DEF Log, LineRecord
<1>5. LineIsSo'
  BY <1>4 DEF LineIsSo
<1>6. QED
  BY <1>1, <1>5 DEF Rest, Typed, AllGood, Owned, TaskOf

\* A task changes, and what is logged is so.
LEMMA TaskKeeps ==
    ASSUME Rest, NEW r \in Requests, NEW t, task' = [task EXCEPT ![r] = t],
           occupant' = occupant, request' = request, server' = server,
           t \in TaskRecord, t.tid = r, occupant[t.ctx] \in Requests,
           request[r].pc # "new", request[r].pc # "done" => t.ctx = request[r].ctx,
           LineIsSo'
    PROVE  Rest'
<1>1. task \in [Requests -> TaskRecord \cup {None}] /\ \A s \in Requests : TaskOf(s)
  BY DEF Rest, Typed
<1>2. /\ task'[r] = t /\ \A s \in Requests : s # r => task'[s] = task[s]
      /\ task' \in [Requests -> TaskRecord \cup {None}]
  BY <1>1
<1>3. ASSUME NEW s \in Requests PROVE TaskOf(s)'
  <2>1. CASE s = r
    BY <1>2, <2>1 DEF TaskOf
  <2>2. CASE s # r
    BY <1>1, <1>2, <2>2 DEF TaskOf
  <2>3. QED
    BY <2>1, <2>2
<1>4. QED
  BY <1>2, <1>3 DEF Rest, Typed, AllGood, Owned

LEMMA SpawnKeeps ==
    ASSUME Rest, NEW r \in Requests, Spawn(r)
    PROVE  Rest'
<1> DEFINE t == GetGinTracer(r)
<1>1. /\ task' = [task EXCEPT ![r] = t]
      /\ occupant' = occupant /\ request' = request /\ server' = server
      /\ request[r].pc \in Busy /\ line' = None
  BY DEF Spawn, InHandler, Busy, setup
<1>2. occupant[request[r].ctx] = r /\ request[r].ctx \in Contexts
  BY <1>1, GoodFacts DEF Rest, Owned, AllGood
<1>3. t \in TaskRecord /\ t.tid = r /\ t.ctx = request[r].ctx
  BY <1>2 DEF GetGinTracer, TaskRecord
<1>4. request[r].pc # "new" /\ request[r].pc # "done"
  BY <1>1 DEF Busy
<1>5. LineIsSo'
  BY <1>1 DEF LineIsSo
<1> HIDE DEF t
<1>6. QED
  BY <1>1, <1>2, <1>3, <1>4, <1>5, TaskKeeps

\* A task logs, and stays as it is.
LEMMA LineKeeps ==
    ASSUME Rest, LineIsSo', occupant' = occupant, request' = request,
           server' = server, task' = task
    PROVE  Rest'
BY DEF Rest, Typed, AllGood, Owned, TaskOf

LEMMA TaskLogsKeeps ==
    ASSUME Rest, NEW r \in Requests, TaskLogs(r)
    PROVE  Rest'
<1>1. /\ occupant' = occupant /\ request' = request /\ server' = server
      /\ task' = task /\ task[r] # None
  BY DEF TaskLogs, setup
<1>2. task[r].tid = r
  BY <1>1 DEF Rest, TaskOf
<1>3. Log("tracer", r, r, 0)
  BY <1>2 DEF TaskLogs
<1>4. line' \in LineRecord /\ line'.by = "tracer" /\ line'.of = r /\ line'.id = r
  BY <1>3 DEF Log, LineRecord
<1>5. LineIsSo'
  BY <1>4 DEF LineIsSo
<1>6. QED
  BY <1>1, <1>5, LineKeeps

\* While the request lasts its context is its own, and the line bears its id.
LEMMA TaskQueriesKeeps ==
    ASSUME Rest, NEW r \in Requests, TaskQueries(r)
    PROVE  Rest'
<1> DEFINE id == occupant[task[r].ctx]
<1>1. /\ occupant' = occupant /\ request' = request /\ server' = server
      /\ task' = task /\ task[r] # None
      /\ Log("late sql", r, id, 0)
  BY DEF TaskQueries, setup
<1>2. /\ id \in Requests /\ request[r].pc # "new"
      /\ request[r].pc # "done" => task[r].ctx = request[r].ctx
  BY <1>1 DEF Rest, TaskOf
<1>3. id # r => request[r].pc = "done"
  <2>1. request[r].pc \in {"new", "running", "answered", "leaving", "done"}
    BY DEF Rest, Typed, RequestRecord
  <2>2. CASE request[r].pc \in Busy
    <3>1. occupant[request[r].ctx] = r
      BY <2>2 DEF Rest, Owned
    <3>2. request[r].pc # "done"
      BY <2>2 DEF Busy
    <3>3. QED
      BY <1>2, <3>1, <3>2
  <2>3. QED
    BY <1>2, <2>1, <2>2 DEF Busy
<1> HIDE DEF id
<1>4. /\ line' \in LineRecord /\ line'.by = "late sql" /\ line'.of = r /\ line'.id = id
  BY <1>1, <1>2 DEF Log, LineRecord
<1>5. LineIsSo'
  BY <1>1, <1>3, <1>4 DEF LineIsSo
<1>6. QED
  BY <1>1, <1>5, LineKeeps

\* The context is freed, and the log has the request with the status sent.
LEMMA LeaveKeeps ==
    ASSUME Rest, NEW r \in Requests, Leave(r)
    PROVE  Rest'
<1> DEFINE q == request[r]
<1>1. PICK skip \in BOOLEAN : Finish(r, q, skip, IF skip THEN 0 ELSE AccessLines(q))
  BY DEF Leave
<1> DEFINE lines == IF skip THEN 0 ELSE AccessLines(q)
           sent == WriteHeader(q).sent
           a == [Fresh EXCEPT !.pc = "done"]
           b == [a EXCEPT !.status = q.status]
           d == [b EXCEPT !.sent = sent]
           c == [d EXCEPT !.skip = skip]
           p == [c EXCEPT !.logged = lines]
<1>2. /\ q.pc = "leaving" /\ q \in RequestRecord /\ q.ctx \in Contexts
      /\ q.sent # 0 => q.sent = q.status
      /\ occupant[q.ctx] = r /\ q.status \in {200, 500}
  <2>1. q.pc = "leaving"
    BY <1>1 DEF Finish
  <2>2. Served(q, server.trans)
    BY <2>1, GoodFacts DEF Rest, AllGood
  <2>3. q.pc \in Busy
    BY <2>1 DEF Busy
  <2>4. QED
    BY <2>1, <2>2, <2>3 DEF Served, Rest, Owned, RequestRecord
<1>3. lines \in 0..2 /\ (skip \/ lines > 0)
  <2>1. q.errors \in 0..2
    BY <1>2 DEF RequestRecord
  <2>2. CASE skip
    BY <2>2
  <2>3. CASE ~skip
    BY <2>1, <2>3 DEF AccessLines
  <2>4. QED
    BY <2>2, <2>3
<1>4. /\ request' = [request EXCEPT ![r] =
                        [Fresh EXCEPT !.pc = "done", !.status = q.status, !.sent = sent,
                                      !.skip = skip, !.logged = lines]]
      /\ lines = 0 => line' = None
      /\ lines # 0 => Log("access", r, r, q.status)
      /\ server' = server /\ occupant' = occupant /\ task' = task
  BY <1>1, <1>2 DEF Finish, setup
<1> DEFINE status == q.status
\* What gin sends now is what was logged.
<1>5. sent = status /\ sent \in {0, 200, 500}
  BY <1>2, WriteHeaderFacts
<1> HIDE DEF lines, status, sent
<1>6. /\ p \in RequestRecord /\ p.pc = "done" /\ p.docs = <<>> /\ p.cause = None
      /\ p.sent = status /\ p.skip = skip /\ p.logged = lines
  <2>1. a \in RequestRecord /\ a.pc = "done" /\ a.docs = <<>> /\ a.cause = None
    <3>1. a \in RequestRecord
      BY FreshFacts DEF RequestRecord
    <3>2. QED
      BY <3>1, FreshFacts DEF RequestRecord
  <2> HIDE DEF a
  <2>2. b \in RequestRecord /\ b.pc = "done" /\ b.docs = <<>> /\ b.cause = None
    <3>1. b \in RequestRecord
      BY <1>2, <2>1 DEF RequestRecord
    <3>2. QED
      BY <3>1, <2>1 DEF RequestRecord
  <2> HIDE DEF b
  <2>3. /\ d \in RequestRecord /\ d.pc = "done" /\ d.docs = <<>> /\ d.cause = None
        /\ d.sent = sent
    <3>1. d \in RequestRecord
      BY <1>5, <2>2 DEF RequestRecord
    <3>2. QED
      BY <3>1, <2>2 DEF RequestRecord
  <2> HIDE DEF d
  <2>4. /\ c \in RequestRecord /\ c.pc = "done" /\ c.docs = <<>> /\ c.cause = None
        /\ c.sent = sent /\ c.skip = skip
    <3>1. c \in RequestRecord
      BY <1>1, <2>3 DEF RequestRecord
    <3>2. QED
      BY <3>1, <2>3 DEF RequestRecord
  <2> HIDE DEF c
  <2>5. p \in RequestRecord
    BY <1>3, <2>4 DEF RequestRecord
  <2>6. QED
    BY <1>5, <2>4, <2>5 DEF RequestRecord
<1>7. [Fresh EXCEPT !.pc = "done", !.status = q.status, !.sent = sent, !.skip = skip,
                    !.logged = lines] = p
  OBVIOUS
<1>8. request' = [request EXCEPT ![r] = p]
  BY <1>4, <1>7
<1> HIDE DEF p
<1>9. /\ request'[r] = p /\ \A s \in Requests : s # r => request'[s] = request[s]
      /\ request' \in [Requests -> RequestRecord]
  BY <1>6, <1>8 DEF Rest, Typed
<1>10. Typed'
  BY <1>4, <1>9 DEF Rest, Typed
<1>11. AllGood'
  <2>1. Good(p, server.trans)
    BY <1>3, <1>6 DEF Good, Over
  <2>2. QED
    BY <1>4, <1>9, <2>1 DEF Rest, AllGood
<1>12. Owned'
  <2> SUFFICES ASSUME NEW s \in Requests, request'[s].pc \in Busy
               PROVE  occupant'[request'[s].ctx] = s
    BY DEF Owned
  <2>1. s # r
    BY <1>6, <1>9 DEF Busy
  <2>2. QED
    BY <1>4, <1>9, <2>1 DEF Rest, Owned
<1>13. ASSUME NEW s \in Requests PROVE TaskOf(s)'
  <2>1. TaskOf(s)
    BY DEF Rest
  <2>2. CASE s = r
    BY <1>4, <1>6, <1>9, <2>1, <2>2 DEF TaskOf
  <2>3. CASE s # r
    BY <1>4, <1>9, <2>1, <2>3 DEF TaskOf
  <2>4. QED
    BY <2>2, <2>3
<1>14. LineIsSo'
  <2>1. CASE lines = 0
    BY <1>4, <2>1 DEF LineIsSo
  <2>2. CASE lines # 0
    <3>1. Log("access", r, r, status) /\ status \in {0, 200, 500}
      BY <1>2, <1>4, <2>2 DEF status
    <3>2. /\ line' \in LineRecord /\ line'.by = "access" /\ line'.of = r /\ line'.id = r
          /\ line'.status = status
      BY <3>1 DEF Log, LineRecord
    <3>3. request'[r].sent = status
      BY <1>6, <1>9
    <3>4. QED
      BY <3>2, <3>3 DEF LineIsSo
  <2>3. QED
    BY <2>1, <2>2
<1>15. QED
  BY <1>10, <1>11, <1>12, <1>13, <1>14 DEF Rest

LEMMA RestStep == Setup /\ Rest /\ [Next]_vars => Rest'
<1> SUFFICES ASSUME Setup, Rest, [Next]_vars PROVE Rest'
  OBVIOUS
<1>1. server.trans \in BOOLEAN
  BY DEF Setup
<1>2. server'.trans = server.trans
  BY SetupStep
<1>3. CASE InitGin
  BY <1>2, <1>3, InitGinKeeps
<1>4. ASSUME NEW r \in Requests, Arrive(r) PROVE Rest'
  BY <1>4, ArriveKeeps
<1>5. ASSUME NEW r \in Requests, Handle(r) PROVE Rest'
  BY <1>1, <1>5, BindJsonKeeps, BindFormKeeps, BindQueryKeeps, AnswerKeeps, ReturnKeeps,
     PanicKeeps, QueryKeeps, SpawnKeeps DEF Handle
<1>6. ASSUME NEW r \in Requests, Leave(r) PROVE Rest'
  BY <1>6, LeaveKeeps
<1>7. ASSUME NEW r \in Requests, TaskLogs(r) PROVE Rest'
  BY <1>7, TaskLogsKeeps
<1>8. ASSUME NEW r \in Requests, TaskQueries(r) PROVE Rest'
  BY <1>8, TaskQueriesKeeps
<1>9. CASE UNCHANGED vars
  BY <1>9, RestStutters
<1>10. QED
  BY <1>3, <1>4, <1>5, <1>6, <1>7, <1>8, <1>9 DEF Next

LEMMA Invariance == Spec => []IInv
<1>1. Init => IInv
  BY SetupInit, RestInit DEF IInv, Rest
<1>2. IInv /\ [Next]_vars => IInv'
  <2>1. IInv <=> Setup /\ Rest
    BY DEF IInv, Rest
  <2>2. IInv' <=> Setup' /\ Rest'
    BY DEF IInv, Rest
  <2>3. QED
    BY <2>1, <2>2, SetupStep, RestStep
<1>3. QED
  BY <1>1, <1>2, PTL DEF Spec

(* The server's variables have the types they are declared with.           *)
THEOREM TypesHold == Spec => []TypeOK
<1>1. IInv => TypeOK
  BY ZenonT(40) DEF IInv, Setup, Typed, LineIsSo, TypeOK, RequestRecord, TaskRecord, LineRecord
<1>2. QED
  BY <1>1, Invariance, PTL

(* Nothing follows a failure, a panic replaces the answer only if there    *)
(* was none, and nobody leaves without a document or a 500 unless gin has  *)
(* noted an error: for handlers that may fail to bind, answer, go on and   *)
(* panic in any order.                                                     *)
THEOREM OneAnswerEach == Spec => []AnsweredOnce
<1>1. IInv => AnsweredOnce
  <2> SUFFICES ASSUME IInv, NEW r \in Requests
               PROVE  /\ OneFailure(request[r].docs)
                      /\ request[r].sent = 500 => request[r].docs = <<>>
                      /\ request[r].pc = "leaving" =>
                             \/ request[r].docs # <<>>
                             \/ request[r].sent = 500
                             \/ request[r].errors > 0
    BY DEF AnsweredOnce, OneFailure
  <2>1. Good(request[r], server.trans)
    BY DEF IInv, AllGood
  <2>2. CASE request[r].docs = <<>> /\ request[r].pc # "leaving"
    BY <2>2, DocumentFacts
  <2>3. CASE Serving(request[r]) \/ Replied(request[r], server.trans)
    <3>1. /\ request[r].pc # "leaving" /\ OneFailure(request[r].docs)
          /\ request[r].docs = <<>> \/ request[r].sent = 200
      BY ZenonT(40), <2>3, InterruptedFacts DEF Interrupted, Serving, Replied
    <3>2. QED
      BY <3>1
  <2>4. CASE Served(request[r], server.trans)
    BY <2>4 DEF Served
  <2>5. QED
    BY <2>1, <2>2, <2>3, <2>4, FreshFacts DEF Good, Over
<1>2. QED
  BY <1>1, Invariance, PTL

(* Every request that is not skipped is in the log with the status that    *)
(* was sent, and only a task's statements bear another's trace id, when    *)
(* the request that started the task is over.                              *)
THEOREM LogIsTrue == Spec => []LogTellsWhatHappened
<1>1. IInv => LogTellsWhatHappened
  <2> SUFFICES ASSUME IInv PROVE LogTellsWhatHappened
    OBVIOUS
  <2>1. ASSUME NEW r \in Requests, request[r].pc = "done", ~request[r].skip
        PROVE  request[r].logged > 0
    BY <2>1, GoodFacts DEF IInv, AllGood, Over
  <2>2. QED
    BY <2>1 DEF IInv, LineIsSo, LogTellsWhatHappened
<1>2. QED
  BY <1>1, Invariance, PTL

(* What a client is told of a failed binding is why it failed, and that    *)
(* parameters are missing only when there was no body, none left, or one   *)
(* that is cut.                                                            *)
THEOREM ToldWhy == Spec => []BindingsTellWhy
<1>1. IInv => BindingsTellWhy
  <2> SUFFICES ASSUME IInv, NEW r \in Requests, request[r].cause # None
               PROVE  Told(request[r], server.trans)
    BY DEF BindingsTellWhy, Told, Tells, EndsEarly
  <2>1. Good(request[r], server.trans)
    BY DEF IInv, AllGood
  <2>2. QED
    BY <2>1, FreshFacts DEF Good, Serving, Replied, Served, Over
<1>2. QED
  BY <1>1, Invariance, PTL

=============================================================================
