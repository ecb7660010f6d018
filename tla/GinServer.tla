------------------------------ MODULE GinServer ------------------------------
(***************************************************************************)
(* The web server: InitGin of service/service.go with the validator's      *)
(* registration, the request logger of service/zap.go, and the tracer,     *)
(* bindings and replies of service/gin.go as handlers use them.            *)
(*                                                                         *)
(* A route has two handlers, the way a service puts one that checks its    *)
(* input before one that answers.  A handler binds before it answers, and  *)
(* answers once at most: a binding that failed has answered for it.  It    *)
(* may then go on, with statements, a panic, or a task that uses the       *)
(* tracer when it has returned.  The last one that gets to run answers.    *)
(***************************************************************************)
EXTENDS Naturals, Sequences, FiniteSets

CONSTANTS Requests,  \* the requests, each named by its trace id
          Contexts,  \* gin's pool of contexts
          Fields,    \* the fields of the bound struct, in order, as paths
          Sonic,     \* is gin built with sonic, as InitGin's comment asks
          None

ASSUME FieldsAssumption ==
    Fields \in Seq(Seq(STRING)) /\ \A i \in 1..Len(Fields) : Len(Fields[i]) \in 1..2

Handlers == 1..2
FieldSet == {Fields[i] : i \in 1..Len(Fields)}
Name(f) == f[Len(f)]

VARIABLES server,     \* config.Server: host, port, trans
          regs,       \* ValidatorRegs: fine, or with a tag that clashes
          custom,     \* are the package's own validation tags defined
          engine,     \* "down", or the host gin is serving on
          inits,      \* where it is wanted, and has InitGin refused a host
          occupant,   \* occupant[x]: the request last in context x
          request,    \* request[r]: what happened to r so far
          task,       \* task[r]: the task a handler of r left behind
          line        \* what the last step logged, if anything

setup == <<server, regs, custom, engine, inits>>
vars == <<setup, occupant, request, task, line>>

\* A host is absent, an IPv4 address, a text with one in it, an IPv6 address,
\* of which MatchIp may find a part, or a name.
Host == {"none", "ip", "text", "ip6", "ip6 with part", "name"}

\* The first address in it, whatever stands around that.  Of IPv6 addresses it
\* finds no more than a "::" behind a group and before three or more, with
\* these, and so nothing in what it has found.
MatchIp(host) ==
    CASE host \in {"ip", "text"}  -> "ip"
      [] host = "ip6 with part" -> "ip6"
      [] OTHER                  -> "none"

\* Where gin is to listen: "none" is every interface.
Wanted(host) ==
    IF host # "none" /\ MatchIp(host) # "ip" THEN "nowhere" ELSE MatchIp(host)

\* What a failed binding tells the client.
Missing    == [kind |-> "missing", fields |-> {}]   \* parameters missing
Mistyped   == [kind |-> "mistyped", fields |-> {}]  \* parameter abnormal
Unserved   == [kind |-> "service", fields |-> {}]   \* service abnormal
Text       == [kind |-> "text", fields |-> {}]      \* the error as it is
Naming(fs) == [kind |-> "fields", fields |-> fs]

Message == {Missing, Mistyped, Unserved, Text} \cup {Naming(fs) : fs \in SUBSET FieldSet}

\* How a binding can go wrong, the fields that fail validation included.
Cause == [kind : {"eof", "invalid", "mismatch", "other"}, fields : SUBSET FieldSet]

\* What a request's body is to be read as, and how much of it there is: a
\* "cut" body ends, or goes wrong, before a reader of that format is done.
Form == {"plain", "urlencoded", "multipart"}
Body == {"none", "cut", "whole"}
Document == {"success", "failure"}

\* reads counts the times its body was read, parsed is gin's parsed form.
\* status is what the writer holds, sent what it has written, or 0.
Fresh ==
    [pc |-> "new", handler |-> 1, aborted |-> FALSE, ctx |-> None,
     form |-> "plain", body |-> "none", reads |-> 0, parsed |-> FALSE,
     cause |-> None, told |-> None, docs |-> <<>>, status |-> 200, sent |-> 0,
     errors |-> 0, panicked |-> FALSE, skip |-> FALSE, logged |-> 0]

TypeOK ==
    /\ server \in [host : Host, port : BOOLEAN, trans : BOOLEAN]
    /\ regs \in {"fine", "clash"}
    /\ custom \in BOOLEAN
    /\ engine \in {"down", "none", "ip"}
    /\ inits \in [wanted : {"none", "ip", "nowhere"}, refused : BOOLEAN]
    /\ occupant \in [Contexts -> Requests \cup {None}]
    /\ request \in [Requests ->
           [pc : {"new", "running", "answered", "leaving", "done"}, handler : Handlers,
            aborted : BOOLEAN, ctx : Contexts \cup {None}, form : Form, body : Body,
            reads : 0..2, parsed : BOOLEAN, cause : Cause \cup {None},
            told : Message \cup {None}, docs : Seq(Document), status : {200, 500},
            sent : {0, 200, 500}, errors : 0..2, panicked : BOOLEAN,
            skip : BOOLEAN, logged : 0..2]]
    /\ task \in [Requests ->
           [ctx : Contexts, tid : Requests] \cup {None}]
    /\ line \in {None} \cup [by : {"access", "tracer", "sql", "late sql"}, of : Requests,
                             id : Requests, status : {0, 200, 500}]

Init ==
    /\ server \in [host : Host, port : BOOLEAN, trans : BOOLEAN]
    /\ regs \in {"fine", "clash"}
    /\ custom = FALSE
    /\ engine = "down"
    /\ inits = [wanted |-> Wanted(server.host), refused |-> FALSE]
    /\ occupant = [x \in Contexts |-> None]
    /\ request = [r \in Requests |-> Fresh]
    /\ task = [r \in Requests |-> None]
    /\ line = None

-----------------------------------------------------------------------------
(* InitGin.                                                                *)

\* initValidator defines the tags before it comes to the translations, of
\* which one for a tag that has one already is an error.
InitValidator == custom' = (custom \/ server.trans)

ValidatorFails == server.trans /\ regs = "clash"

\* Without a router InitGin ends when all but the routes are set up; Run ends
\* when the port is taken, or cannot be told from an IPv6 address before it.
Run(host) ==
    IF ~server.port
    THEN UNCHANGED <<custom, engine>>
    ELSE /\ InitValidator
         /\ \/ ~ValidatorFails /\ host # "ip6" /\ engine' = host
            \/ UNCHANGED engine

\* Mutant: what MatchIp has found is not looked at.
InitGinAnyHost ==
    /\ engine = "down"
    /\ server' = [server EXCEPT !.host = MatchIp(@)]
    /\ Run(MatchIp(server.host))
    /\ line' = None
    /\ UNCHANGED <<regs, inits, occupant, request, task>>

\* Host is overwritten by what MatchIp finds in it before that is looked at,
\* and stays so whatever InitGin comes to after that.
InitGin ==
    /\ engine = "down"
    /\ server' = [server EXCEPT !.host = MatchIp(@)]
    /\ IF server.host # "none" /\ MatchIp(server.host) = "none"
       THEN inits' = [inits EXCEPT !.refused = TRUE] /\ UNCHANGED <<custom, engine>>
       ELSE UNCHANGED inits /\ Run(MatchIp(server.host))
    /\ line' = None
    /\ UNCHANGED <<regs, occupant, request, task>>

-----------------------------------------------------------------------------
(* A request arrives, and gets a context no other request is using.  Its   *)
(* body is read for the log and put back for the handlers.                 *)

InUse(x) == \E r \in Requests : request[r].ctx = x /\ request[r].pc # "done"

Arrive(r) ==
    /\ engine # "down" /\ request[r].pc = "new"
    /\ \E x \in Contexts, form \in Form, body \in Body :
          /\ ~InUse(x)
          /\ occupant' = [occupant EXCEPT ![x] = r]
          /\ request' = [request EXCEPT ![r].pc = "running", ![r].ctx = x,
                                        ![r].form = form, ![r].body = body]
    /\ line' = None
    /\ UNCHANGED <<setup, task>>

-----------------------------------------------------------------------------
(* Replies.  Each takes the state of a request to the one after it.        *)

\* gin's writer takes another status until the header has been written.
WriteStatus(q, code) == [q EXCEPT !.status = IF q.sent = 0 THEN code ELSE @]

WriteHeader(q) == [q EXCEPT !.sent = IF @ = 0 THEN q.status ELSE @]

Abort(q) == [q EXCEPT !.aborted = TRUE]

\* An error that gin notes in the context.
Noted(q) == Abort([q EXCEPT !.errors = @ + 1])

\* Context.JSON: what it is given cannot be encoded, and nothing is written;
\* or the document gets lost behind the header; or it is sent.
Outcome == {"ok", "lost", "unencodable"}

Json(q, doc, outcome) ==
    LET s == WriteStatus(q, 200)
    IN  CASE outcome = "ok"   -> [WriteHeader(s) EXCEPT !.docs = Append(@, doc)]
          [] outcome = "lost" -> Noted(WriteHeader(s))
          [] OTHER            -> Noted(s)

Answered(q) == [q EXCEPT !.pc = "answered"]

\* GetHttpResSuccess.
Success(q, outcome) == Answered(Json(q, "success", outcome))

\* Mutant: a failure is answered like a success, without aborting.
FailureWithoutAbort(q, outcome, told) ==
    Answered([Json(q, "failure", outcome) EXCEPT !.told = told])

\* GetHttpResFailure, and the two replies to errors.
Failure(q, outcome, told) ==
    Answered([Abort(Json(q, "failure", outcome)) EXCEPT !.told = told])

FirstNaming(fs) ==
    LET named == {i \in 1..Len(Fields) :
                      Fields[i] \in fs /\ <<Name(Fields[i])>> \in FieldSet}
    IN  IF named = {} THEN Text
        ELSE Naming({<<Name(Fields[CHOOSE i \in named : \A j \in named : i <= j])>>})

\* Mutant: the errors of validation are looked for first, and the end of the
\* body is nobody's special case.
ExplainTransLate(cause) ==
    IF cause.kind = "invalid" THEN Naming(cause.fields)
    ELSE IF cause.kind = "mismatch" THEN Mistyped
    ELSE Unserved

\* getValidMsg: the msg tag of the first failed field whose name a field of
\* the outermost struct has.
ExplainMsg(cause) ==
    CASE cause.kind = "eof"     -> Missing
      [] cause.kind = "invalid" -> FirstNaming(cause.fields)
      [] OTHER                  -> Text

\* GetHttpResErrorTrans.  removeTopStruct leaves every failed field its path.
\* The JSON package says "cannot unmarshal"; sonic does not.
ExplainTrans(cause) ==
    CASE cause.kind = "eof"      -> Missing
      [] cause.kind = "invalid"  -> Naming(cause.fields)
      [] cause.kind = "mismatch" -> Mistyped
      [] OTHER                   -> Unserved

Explain(cause) == IF server.trans THEN ExplainTrans(cause) ELSE ExplainMsg(cause)

-----------------------------------------------------------------------------
(* What a handler does.                                                    *)

Running(r) == request[r].pc = "running"

InHandler(r) == request[r].pc \in {"running", "answered"}

\* The handler returns: gin runs the next one, unless there is none or the
\* request was aborted.
Returned(q) ==
    IF q.aborted \/ q.handler = 2 THEN [q EXCEPT !.pc = "leaving"]
    ELSE [q EXCEPT !.pc = "running", !.handler = @ + 1]

Become(r, q) ==
    /\ request' = [request EXCEPT ![r] = q]
    /\ line' = None
    /\ UNCHANGED <<setup, occupant, task>>

\* RecoveryWithZap, inside the request logger, answers 500 unless a header
\* has been written, or notes the error if the client is gone.
Panicked(q) ==
    LET p == Abort([q EXCEPT !.pc = "leaving", !.panicked = TRUE])
    IN  {WriteHeader(WriteStatus(p, 500)), Noted(p)}

(* The causes for which each kind of binding can fail.  The body is there  *)
(* to be read once; of a form gin keeps what it has parsed.                *)
Fails(kind) == [kind |-> kind, fields |-> {}]
Invalid == [kind : {"invalid"}, fields : SUBSET FieldSet \ {{}}]
Unmarshals == Fails(IF Sonic THEN "other" ELSE "mismatch")

Left(q) == q.body # "none" /\ q.reads = 0
Complete(q) == q.body = "whole" /\ q.reads = 0

\* Of a body that is cut sonic's decoder says it is at its end.
JsonCauses(q) ==
    IF ~Left(q) THEN {Fails("eof")}
    ELSE IF q.body = "cut"
         THEN {Fails("other")} \cup (IF Sonic THEN {Fails("eof")} ELSE {})
         ELSE {Fails("other"), Unmarshals} \cup Invalid

\* A value has the wrong form, or the wrong type in a field that is a struct
\* and written in JSON.
ValueCauses == {Fails("other"), Unmarshals} \cup Invalid

\* A multipart form yet to be parsed, with nothing or not enough to parse.
Unparsable(q) == q.form = "multipart" /\ ~q.parsed /\ ~Complete(q)

\* The multipart reader wraps the end of a body that ends between two parts.
FormCauses(q) ==
    IF ~Unparsable(q) THEN ValueCauses
    ELSE {Fails("eof")} \cup (IF Left(q) THEN {Fails("other")} ELSE {})

\* never, once, or more often
Read(q) == [q EXCEPT !.reads = IF @ = 2 THEN 2 ELSE @ + 1]

\* A form is in the body only if the request says so, and is parsed once.
Parse(q) ==
    IF q.form = "plain" \/ q.parsed THEN q ELSE [Read(q) EXCEPT !.parsed = TRUE]

(* One binding, which has left the request in state q: it succeeds, fails  *)
(* and is answered, or comes to a validation tag that nobody has defined,  *)
(* since without Trans InitGin does not register any.                      *)
Bind(r, q, causes, canSucceed) ==
    \/ canSucceed /\ Become(r, q)
    \/ \E cause \in causes, outcome \in {"ok", "lost"} :
          Become(r, Failure([q EXCEPT !.cause = cause], outcome, Explain(cause)))
    \/ /\ canSucceed /\ ~custom
       /\ \E p \in Panicked(q) : p.errors = q.errors /\ Become(r, p)

BindJson(r) ==
    LET q == request[r]
    IN  Running(r) /\ Bind(r, Read(q), JsonCauses(q), Complete(q))

BindForm(r) ==
    LET q == request[r]
    IN  Running(r) /\ Bind(r, Parse(q), FormCauses(q), ~Unparsable(q))

BindQuery(r) == Running(r) /\ Bind(r, request[r], ValueCauses, TRUE)

\* A handler answers, and goes on.
Answer(r) ==
    /\ Running(r)
    /\ \E outcome \in Outcome :
          \/ Become(r, Success(request[r], outcome))
          \/ Become(r, Failure(request[r], outcome, None))

\* It returns, the first one perhaps without having answered.
Return(r) ==
    /\ \/ request[r].pc = "answered"
       \/ Running(r) /\ request[r].handler = 1
    /\ Become(r, Returned(request[r]))

Panic(r) == InHandler(r) /\ \E p \in Panicked(request[r]) : Become(r, p)

Log(by, of, id, status) ==
    line' = [by |-> by, of |-> of, id |-> id, status |-> status]

\* A statement of the tracer's Db: its context is the gin context, and the
\* SQL logger takes the trace id from that.
Query(r) ==
    /\ InHandler(r)
    /\ Log("sql", r, occupant[request[r].ctx], 0)
    /\ UNCHANGED <<setup, occupant, request, task>>

-----------------------------------------------------------------------------
(* A task that outlives the handler, with the handler's tracer.            *)

\* Mutant: the trace id is not there yet when it is copied.
GetGinTracerEarly(r) == [ctx |-> request[r].ctx, tid |-> None]

GetGinTracer(r) == [ctx |-> request[r].ctx, tid |-> occupant[request[r].ctx]]

Spawn(r) ==
    /\ InHandler(r) /\ task[r] = None
    /\ task' = [task EXCEPT ![r] = GetGinTracer(r)]
    /\ line' = None
    /\ UNCHANGED <<setup, occupant, request>>

\* t.Log was given the trace id when the tracer was made.
TaskLogs(r) ==
    /\ task[r] # None
    /\ Log("tracer", r, task[r].tid, 0)
    /\ UNCHANGED <<setup, occupant, request, task>>

\* Its Db still has the context, whosever that is by now.
TaskQueries(r) ==
    /\ task[r] # None
    /\ Log("late sql", r, occupant[task[r].ctx], 0)
    /\ UNCHANGED <<setup, occupant, request, task>>

-----------------------------------------------------------------------------
(* The way out through the middleware.  Unless its path is one to skip the *)
(* request is logged: once for each error gin has noted in the context, or *)
(* once if there is none.  Then gin writes the header if nobody has.  The  *)
(* context is free again, and of the request the model keeps what the      *)
(* client and the log have seen.                                           *)

Finish(r, q, skip, lines) ==
    /\ q.pc = "leaving"
    /\ request' = [request EXCEPT ![r] =
                      [Fresh EXCEPT !.pc = "done", !.status = q.status,
                                    !.sent = WriteHeader(q).sent,
                                    !.skip = skip, !.logged = lines]]
    /\ IF lines = 0
       THEN line' = None
       ELSE Log("access", r, occupant[q.ctx], q.status)
    /\ UNCHANGED <<setup, occupant, task>>

AccessLines(q) == IF q.errors = 0 THEN 1 ELSE q.errors

\* Mutant: the recovery is put outside the request logger, which a panic
\* then passes by.
LeaveUnlogged(r) ==
    LET q == request[r]
    IN  \E skip \in BOOLEAN :
            Finish(r, q, skip, IF skip \/ q.panicked THEN 0 ELSE AccessLines(q))

Leave(r) ==
    LET q == request[r]
    IN  \E skip \in BOOLEAN : Finish(r, q, skip, IF skip THEN 0 ELSE AccessLines(q))

Handle(r) ==
    \/ BindJson(r) \/ BindForm(r) \/ BindQuery(r)
    \/ Answer(r) \/ Return(r) \/ Panic(r) \/ Query(r) \/ Spawn(r)

Next ==
    \/ InitGin
    \/ \E r \in Requests : \/ Arrive(r) \/ Handle(r) \/ Leave(r)
                          \/ TaskLogs(r) \/ TaskQueries(r)

Spec == Init /\ [][Next]_vars

-----------------------------------------------------------------------------
(* Properties.                                                             *)

(* Bindings answer for the handler, any handler may answer, and each may   *)
(* panic when it has: still nothing follows a failure, neither a document  *)
(* nor what the handlers after it would answer, and a panic replaces the   *)
(* answer only if there was none.  Nobody leaves unanswered unless gin has *)
(* noted why.                                                              *)
AnsweredOnce ==
    \A r \in Requests :
        LET q == request[r]
        IN  /\ \A i \in 1..Len(q.docs) : q.docs[i] = "failure" => i = Len(q.docs)
            /\ q.sent = 500 => q.docs = <<>>
            /\ q.pc = "leaving" => q.docs # <<>> \/ q.sent = 500 \/ q.errors > 0

(* The log tells of every request what happened to it, though contexts are *)
(* used again: whatever way it ended, it is there with the status that was *)
(* sent, and a line bears its own trace id.  Only statements of a task can *)
(* bear another's, once the request it was started by is over.             *)
LogTellsWhatHappened ==
    /\ \A r \in Requests :
          request[r].pc = "done" /\ ~request[r].skip => request[r].logged > 0
    /\ line # None =>
          /\ line.id # line.of =>
                 line.by = "late sql" /\ request[line.of].pc = "done"
          /\ line.by = "access" => line.status = request[line.of].sent

(* What a client is told of a failed binding is so.  It hears of missing   *)
(* parameters only if it sent no body, if a handler had read it before, or *)
(* if it is cut, as a multipart form or for sonic.  The fields that are    *)
(* named are all those that failed or, without Trans, one that has the     *)
(* name of one that failed, perhaps in another struct.                     *)
BindingsTellWhy ==
    \A r \in Requests :
        LET q == request[r]
        IN  q.cause # None =>
               /\ q.told = Missing <=> q.cause.kind = "eof"
               /\ q.told = Missing =>
                      \/ q.body = "none" \/ q.reads = 2
                      \/ q.body = "cut" /\ (q.form = "multipart" \/ Sonic)
               /\ \A f \in q.told.fields :
                     \E g \in q.cause.fields : Name(f) = Name(g)
               /\ server.trans => q.told.fields = q.cause.fields

(* Requests are served only on the IPv4 address that the configuration has *)
(* in its host, whatever else that says, and with all the validators they  *)
(* may need: InitGin gives up on the way there otherwise.  The exception   *)
(* is a service that calls it again after it has refused the host, which   *)
(* by then is no longer the one that was configured.                       *)
ListensAsConfigured ==
    engine # "down" =>
        /\ \/ engine = inits.wanted
           \/ inits.wanted = "nowhere" /\ engine = "none" /\ inits.refused
        /\ server.trans => custom /\ regs # "clash"

=============================================================================
