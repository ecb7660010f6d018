-------------------------- MODULE RateLimiterClient --------------------------
(***************************************************************************)
(* Concurrent calls of AllowN, AllowAtMost and Reset, each carried to      *)
(* Redis by go-redis over connections that may be slow or break.           *)
(*                                                                         *)
(* Script.Run tries EVALSHA and, if Redis does not know the script, EVAL.  *)
(* Each command is attempted up to 1 + MaxRetries times, every attempt on  *)
(* a connection of its own: an attempt the client has given up on may      *)
(* still reach Redis later and be executed there, or never.                *)
(***************************************************************************)
EXTENDS Naturals, FiniteSets

CONSTANTS TicksPerSecond, Keys, Limits, MaxAsk, MaxOffset, MaxTime, NoAnswer,
          Calls,      \* the calls made, by any goroutines of any processes
          Requests,   \* what they may ask for
          MaxRetries  \* redis.Options.MaxRetries

VARIABLES now, store, answer, window,  \* of RateLimiter: Redis and its history
          scripts,  \* the scripts in Redis's script cache
          call,     \* call[c]: the progress of call c in its goroutine
          sent,     \* sent[c]: c's attempts that Redis has not executed
          reply,    \* reply[c]: Redis's reply to c's attempt, not yet read
          charges   \* history: how many executions of c took events

serverVars == <<now, store, answer, window>>
clientVars == <<call, sent, reply>>
vars == <<serverVars, scripts, clientVars, charges>>

Server == INSTANCE RateLimiter

Script == {"allowN", "allowAtMost"}

Request == [op : Script \cup {"reset"}, key : Keys, limit : Limits, n : 1..MaxAsk]

ASSUME RequestsAssumption == Requests \subseteq Request

ASSUME RetriesAssumption == MaxRetries \in Nat

\* What RateLimiter assumes of its constants.
ASSUME ServerAssumption ==
    /\ TicksPerSecond \in Nat \ {0}
    /\ Limits \subseteq Server!Limit
    /\ MaxOffset \in Nat
    /\ \A l \in Limits : Server!BurstOffset(l) <= MaxOffset
    /\ MaxAsk \in Nat /\ MaxTime \in Nat

Attempt == [cmd : {"evalsha", "eval", "del"}, number : 0..MaxRetries]

Idle == [stage |-> "idle"]

Waiting ==
    [stage : {"waiting"}, request : Requests, attempt : Attempt, failures : Nat]

Returned ==
    [stage : {"returned"}, request : Requests, ok : BOOLEAN, allowed : Nat,
     failures : Nat]

NoReply   == [kind |-> "none", allowed |-> 0]
NoScript  == [kind |-> "NOSCRIPT", allowed |-> 0]
Done(m)   == [kind |-> "done", allowed |-> m]

TypeOK ==
    /\ Server!TypeOK
    /\ scripts \subseteq Script
    /\ call \in [Calls -> {Idle} \cup Waiting \cup Returned]
    /\ sent \in [Calls -> SUBSET Attempt]
    /\ reply \in [Calls -> {NoReply, NoScript} \cup {Done(m) : m \in 0..MaxAsk}]
    /\ charges \in [Calls -> Nat]

\* InitLimit loads both scripts and ignores whether that worked.
Init ==
    /\ Server!Init
    /\ scripts \in SUBSET Script
    /\ call = [c \in Calls |-> Idle]
    /\ sent = [c \in Calls |-> {}]
    /\ reply = [c \in Calls |-> NoReply]
    /\ charges = [c \in Calls |-> 0]

-----------------------------------------------------------------------------
(* The client.                                                             *)

\* Call c sends attempt a; replies to its earlier attempts are never read.
Send(c, q, a, failures) ==
    /\ call' = [call EXCEPT ![c] =
                   [stage |-> "waiting", request |-> q, attempt |-> a,
                    failures |-> failures]]
    /\ sent' = [sent EXCEPT ![c] = @ \cup {a}]
    /\ reply' = [reply EXCEPT ![c] = NoReply]

Return(c, ok, allowed, failures) ==
    /\ call' = [call EXCEPT ![c] =
                   [stage |-> "returned", request |-> call[c].request,
                    ok |-> ok, allowed |-> allowed, failures |-> failures]]
    /\ reply' = [reply EXCEPT ![c] = NoReply]
    /\ UNCHANGED sent

FirstAttempt(cmd) == [cmd |-> cmd, number |-> 0]

Command(op) == IF op = "reset" THEN "del" ELSE "evalsha"

\* Mutant: Reset returns while its DEL is on its way.
BeginUnawaited(c, q) ==
    /\ call[c].stage = "idle"
    /\ IF q.op = "reset"
       THEN /\ call' = [call EXCEPT ![c] =
                           [stage |-> "returned", request |-> q, ok |-> TRUE,
                            allowed |-> 0, failures |-> 0]]
            /\ sent' = [sent EXCEPT ![c] = @ \cup {FirstAttempt("del")}]
            /\ UNCHANGED reply
       ELSE Send(c, q, FirstAttempt("evalsha"), 0)
    /\ UNCHANGED <<serverVars, scripts, charges>>

Begin(c, q) ==
    /\ call[c].stage = "idle"
    /\ Send(c, q, FirstAttempt(Command(q.op)), 0)
    /\ UNCHANGED <<serverVars, scripts, charges>>

\* Mutant: Script.Run falls back to EVAL whatever EVALSHA replied.
ReceiveAlwaysEval(c) ==
    /\ call[c].stage = "waiting"
    /\ \/ /\ reply[c].kind # "none" /\ call[c].attempt.cmd = "evalsha"
          /\ Send(c, call[c].request, FirstAttempt("eval"), call[c].failures)
       \/ /\ reply[c].kind = "done" /\ call[c].attempt.cmd # "evalsha"
          /\ Return(c, TRUE, reply[c].allowed, call[c].failures)
    /\ UNCHANGED <<serverVars, scripts, charges>>

\* Mutant: no fallback, the code calls EvalSha alone.
ReceiveNoEval(c) ==
    /\ call[c].stage = "waiting"
    /\ \/ /\ reply[c].kind = "NOSCRIPT"
          /\ Return(c, FALSE, 0, call[c].failures)
       \/ /\ reply[c].kind = "done"
          /\ Return(c, TRUE, reply[c].allowed, call[c].failures)
    /\ UNCHANGED <<serverVars, scripts, charges>>

\* Mutant: NOSCRIPT is taken for a retryable error.
ReceiveEvalshaAgain(c) ==
    /\ call[c].stage = "waiting"
    /\ \/ /\ reply[c].kind = "NOSCRIPT"
          /\ Send(c, call[c].request, FirstAttempt("evalsha"), call[c].failures)
       \/ /\ reply[c].kind = "done"
          /\ Return(c, TRUE, reply[c].allowed, call[c].failures)
    /\ UNCHANGED <<serverVars, scripts, charges>>

\* The reply arrives.  NOSCRIPT makes Script.Run start over with EVAL.
Receive(c) ==
    /\ call[c].stage = "waiting"
    /\ \/ /\ reply[c].kind = "NOSCRIPT"
          /\ Send(c, call[c].request, FirstAttempt("eval"), call[c].failures)
       \/ /\ reply[c].kind = "done"
          /\ Return(c, TRUE, reply[c].allowed, call[c].failures)
    /\ UNCHANGED <<serverVars, scripts, charges>>

\* Mutant: the attempts are not counted against MaxRetries.
FailForever(c) ==
    /\ call[c].stage = "waiting"
    /\ LET a        == call[c].attempt
           failures == call[c].failures + 1
       IN  Send(c, call[c].request, [a EXCEPT !.number = @ + 1], failures)
    /\ UNCHANGED <<serverVars, scripts, charges>>

(* The attempt fails: the read timeout passes, the connection breaks or    *)
(* none can be had.  The command is attempted again, or its attempts are   *)
(* used up, or the caller's context ends during the backoff.               *)
Fail(c) ==
    /\ call[c].stage = "waiting"
    /\ LET a        == call[c].attempt
           failures == call[c].failures + 1
       IN  \/ /\ a.number < MaxRetries
              /\ Send(c, call[c].request, [a EXCEPT !.number = @ + 1], failures)
           \/ Return(c, FALSE, 0, failures)
    /\ UNCHANGED <<serverVars, scripts, charges>>

-----------------------------------------------------------------------------
(* Redis takes up an attempt, in any order and however late.  Only the     *)
(* attempt its caller is waiting for gets a reply that is read.            *)

Awaited(c, a) == call[c].stage = "waiting" /\ call[c].attempt = a

\* Mutant: an attempt that was executed is delivered again.
AnsweredAndKept(c, a, r) ==
    /\ a \in sent[c]
    /\ reply' = IF Awaited(c, a) THEN [reply EXCEPT ![c] = r] ELSE reply
    /\ UNCHANGED <<call, sent>>

Answered(c, a, r) ==
    /\ a \in sent[c]
    /\ sent' = [sent EXCEPT ![c] = @ \ {a}]
    /\ reply' = IF Awaited(c, a) THEN [reply EXCEPT ![c] = r] ELSE reply
    /\ UNCHANGED call

Known(a, op) == a.cmd = "eval" \/ op \in scripts

\* EVALSHA of a script that is not in the cache.
RefuseUnknown(c, a) ==
    LET op == call[c].request.op
    IN  /\ a.cmd = "evalsha" /\ ~Known(a, op)
        /\ Answered(c, a, NoScript)
        /\ UNCHANGED <<serverVars, scripts, charges>>

\* The script runs; EVAL also leaves it in the cache.
RunScript(c, a) ==
    LET q == call[c].request
    IN  /\ a.cmd # "del" /\ Known(a, q.op)
        /\ IF q.op = "allowN" THEN Server!RunAllowN(q.key, q.limit, q.n)
                              ELSE Server!RunAllowAtMost(q.key, q.limit, q.n)
        /\ scripts' = scripts \cup {q.op}
        /\ charges' = IF answer'.allowed > 0
                      THEN [charges EXCEPT ![c] = @ + 1]
                      ELSE charges
        /\ Answered(c, a, Done(answer'.allowed))

RunDel(c, a) ==
    /\ a.cmd = "del"
    /\ Server!Reset(call[c].request.key)
    /\ Answered(c, a, Done(0))
    /\ UNCHANGED <<scripts, charges>>

Execute(c) ==
    \E a \in sent[c] : RefuseUnknown(c, a) \/ RunScript(c, a) \/ RunDel(c, a)

(* Redis restarts, with its data or without: the script cache is gone and  *)
(* so is whatever was on its connections.                                  *)
Restart ==
    /\ Server!Lose \/ UNCHANGED serverVars
    /\ scripts' = {}
    /\ sent' = [c \in Calls |-> {}]
    /\ reply' = [c \in Calls |-> NoReply]
    /\ UNCHANGED <<call, charges>>

Tick == Server!Tick /\ UNCHANGED <<scripts, clientVars, charges>>

-----------------------------------------------------------------------------

Next ==
    \/ \E c \in Calls : \/ \E q \in Requests : Begin(c, q)
                        \/ Receive(c)
                        \/ Fail(c)
                        \/ Execute(c)
    \/ Restart
    \/ Tick

\* ReadTimeout ends every attempt; nothing obliges Redis to do anything.
Fairness == \A c \in Calls : WF_vars(Receive(c) \/ Fail(c))

Spec == Init /\ [][Next]_vars /\ Fairness

-----------------------------------------------------------------------------
(* Properties.                                                             *)

(* The limit holds of what Redis granted, duplicates included.             *)
LimitHolds == Server!WindowBound

(* go-redis retries calls that are not idempotent: a call may take its     *)
(* events more than once, and what is still on its way when it returns can *)
(* act later, taking events nobody is told of or, for Reset, forgetting    *)
(* what others were granted since.  All that together, the past and what   *)
(* may still come, is within one time per failed attempt, and one time     *)
(* more unless the call has returned an error.                             *)
ChargedOncePerFailure ==
    \A c \in Calls :
        call[c].stage # "idle" =>
            charges[c] + Cardinality(sent[c]) <=
                call[c].failures +
                (IF call[c].stage = "returned" /\ ~call[c].ok THEN 0 ELSE 1)

(* Attempts that failed are the only reason for an answer that does not    *)
(* match what was taken: without one, a call told it may go ahead has paid *)
(* exactly once, and a call that was denied has paid nothing.              *)
AnswerMatchesCharge ==
    \A c \in Calls :
        /\ call[c].stage = "returned"
        /\ call[c].ok
        /\ call[c].request.op # "reset"
        => /\ call[c].allowed > 0 => charges[c] >= 1
           /\ call[c].failures = 0 =>
                  charges[c] = IF call[c].allowed > 0 THEN 1 ELSE 0

\* Some call on k waits, or has had a failed attempt.
Accountable(k) ==
    \E c \in Calls : /\ call[c].stage # "idle"
                     /\ call[c].request.key = k
                     /\ call[c].stage = "waiting" \/ call[c].failures > 0

(* Redis acts for a call while its caller waits; only after an attempt     *)
(* failed may it act later, when a late DEL makes it forget what others    *)
(* were granted in the meantime.  Without failed attempts and restarts     *)
(* nothing happens to a key that no caller is waiting for.                 *)
LateOnlyAfterFailure ==
    [][\A k \in Keys : store'[k] # store[k] => Restart \/ Accountable(k)]_vars

(* Redis forgetting the scripts is never the caller's problem: an error    *)
(* means an attempt failed.                                                *)
ErrorOnlyAfterFailure ==
    \A c \in Calls :
        call[c].stage = "returned" /\ ~call[c].ok => call[c].failures > 0

(* Every call returns, whatever Redis does: the attempts are bounded, and  *)
(* falling back to EVAL happens at most once.                              *)
EveryCallReturns ==
    \A c \in Calls : call[c].stage = "waiting" ~> call[c].stage = "returned"

=============================================================================
