----------------------- MODULE RateLimiterClient_proofs ---------------------
(***************************************************************************)
(* What callers are told and what they are charged, for every number of    *)
(* concurrent calls, keys, retries and restarts of Redis.                  *)
(*                                                                         *)
(* Calls share Redis and nothing else: what is claimed of a call depends   *)
(* only on its own progress k, its attempts s that Redis has not executed, *)
(* the reply r waiting for it, and the number n of executions that took    *)
(* events.  The invariant is therefore a predicate on these four.          *)
(***************************************************************************)
EXTENDS RateLimiterClient, FiniteSetTheorems, TLAPS

\* What the code has to show for each failure, and for a success.
Allowance(k, r) ==
    k.failures + (IF \/ k.stage = "waiting" /\ r.kind # "NOSCRIPT"
                     \/ k.stage = "returned" /\ k.ok
                  THEN 1 ELSE 0)

\* Executions that took events, and those that still may, are within it.
Counted(k, s, r, n) ==
    IF k.stage = "idle" THEN s = {} /\ n = 0
                        ELSE n + Cardinality(s) <= Allowance(k, r)

\* A call that is told it may go ahead has been charged.
Paid(k, r, n) ==
    /\ k.stage = "waiting" /\ r.kind = "done" /\ r.allowed > 0 => n >= 1
    /\ k.stage = "returned" /\ k.ok /\ k.allowed > 0 => n >= 1

\* Without a failure, at most the awaited attempt is on its way, and what
\* has been charged is what the reply says.
Unfailed(k, s, r, n) ==
    /\ s # {} => k.stage = "waiting" /\ r.kind = "none"
                 /\ s = {k.attempt} /\ n = 0
    /\ k.stage = "waiting" /\ r.kind = "NOSCRIPT" => n = 0
    /\ k.stage = "waiting" /\ r.kind = "done" =>
           n = IF r.allowed > 0 THEN 1 ELSE 0
    /\ k.stage = "returned" => k.ok /\ n = IF k.allowed > 0 THEN 1 ELSE 0

Sound(k, s, r, n) ==
    /\ k.stage \in {"idle", "waiting", "returned"}
    /\ k.stage # "idle" => k.failures \in Nat
    /\ IsFiniteSet(s)
    /\ n \in Nat
    /\ Counted(k, s, r, n)
    /\ Paid(k, r, n)
    /\ k.stage # "idle" /\ k.failures = 0 => Unfailed(k, s, r, n)

CallsSound ==
    /\ call = [c \in Calls |-> call[c]]
    /\ sent = [c \in Calls |-> sent[c]]
    /\ reply = [c \in Calls |-> reply[c]]
    /\ charges = [c \in Calls |-> charges[c]]
    /\ \A c \in Calls : Sound(call[c], sent[c], reply[c], charges[c])

-----------------------------------------------------------------------------
(* The three things that can happen to a call.                             *)

(* It sends an attempt: then what it has been charged and may still be is  *)
(* within its failures, and nothing if there were none.                    *)
LEMMA SoundSend ==
    ASSUME NEW k, NEW s, NEW n \in Nat, NEW a,
           k.stage = "waiting", k.attempt = a, k.failures \in Nat,
           IsFiniteSet(s),
           n + Cardinality(s) <= k.failures,
           k.failures = 0 => s = {} /\ n = 0
    PROVE  Sound(k, s \cup {a}, NoReply, n)
<1> DEFINE t == s \cup {a}
<1>1. IsFiniteSet(t) /\ Cardinality(t) \in Nat /\ Cardinality(s) \in Nat
      /\ Cardinality(t) <= Cardinality(s) + 1
  BY SMTT(30), FS_AddElement, FS_CardinalityType
<1>2. k.failures = 0 => t = {k.attempt}
  OBVIOUS
<1> HIDE DEF t
<1>3. Counted(k, t, NoReply, n)
  BY <1>1 DEF Counted, Allowance, NoReply
<1>4. Paid(k, NoReply, n)
  BY DEF Paid, NoReply
<1>5. k.failures = 0 => Unfailed(k, t, NoReply, n)
  BY <1>2 DEF Unfailed, NoReply
<1>6. Sound(k, t, NoReply, n)
  BY <1>1, <1>3, <1>4, <1>5 DEF Sound
<1>7. QED
  BY <1>6 DEF t

(* Redis executes one of its attempts, which takes events, m of them, or   *)
(* does not.                                                               *)
LEMMA SoundExecute ==
    ASSUME NEW k, NEW s, NEW r, NEW n \in Nat, NEW a \in s, NEW t, NEW m,
           Sound(k, s, r, n),
           \/ m > 0 /\ t = n + 1
           \/ ~(m > 0) /\ t = n
    PROVE  /\ Sound(k, s \ {a}, r, t) \/ (k.stage = "waiting" /\ k.attempt = a)
           /\ k.stage = "waiting" /\ k.attempt = a =>
                  Sound(k, s \ {a}, Done(m), t)
<1> DEFINE u == s \ {a}
<1>1. /\ k.stage \in {"waiting", "returned"} /\ k.failures \in Nat
      /\ IsFiniteSet(s) /\ n \in Nat /\ n + Cardinality(s) <= Allowance(k, r)
  BY DEF Sound, Counted
<1>2. /\ IsFiniteSet(u) /\ Cardinality(u) \in Nat
      /\ Cardinality(s) \in Nat /\ Cardinality(u) = Cardinality(s) - 1
  BY <1>1, FS_RemoveElement, FS_CardinalityType
<1>3. t \in Nat /\ t + Cardinality(u) <= n + Cardinality(s)
  BY <1>1, <1>2
<1>4. k.failures = 0 => /\ k.stage = "waiting" /\ k.attempt = a
                        /\ u = {} /\ n = 0 /\ r.kind = "none"
  BY <1>1 DEF Sound, Unfailed
<1> HIDE DEF u
<1>5. ASSUME ~(k.stage = "waiting" /\ k.attempt = a)
      PROVE  Sound(k, u, r, t)
  <2>1. Counted(k, u, r, t)
    <3>1. Allowance(k, r) \in Nat
      BY <1>1 DEF Allowance
    <3>2. QED
      BY <3>1, <1>1, <1>2, <1>3 DEF Counted
  <2>2. Paid(k, r, t)
    BY <1>1, <1>3 DEF Sound, Paid
  <2>3. QED
    BY <2>1, <2>2, <1>1, <1>2, <1>3, <1>4, <1>5 DEF Sound
<1>6. ASSUME k.stage = "waiting", k.attempt = a
      PROVE  Sound(k, u, Done(m), t)
  <2>1. Counted(k, u, Done(m), t)
    <3>1. Allowance(k, r) <= k.failures + 1 /\ Allowance(k, r) \in Nat
      BY <1>1 DEF Allowance
    <3>2. Allowance(k, Done(m)) = k.failures + 1
      BY <1>6 DEF Allowance, Done
    <3>3. QED
      BY <3>1, <3>2, <1>1, <1>2, <1>3, <1>6 DEF Counted
  <2>2. Paid(k, Done(m), t)
    BY <1>1, <1>6 DEF Paid, Done
  <2>3. k.failures = 0 => Unfailed(k, u, Done(m), t)
    BY <1>4, <1>6 DEF Unfailed, Done
  <2>4. QED
    BY <2>1, <2>2, <2>3, <1>1, <1>2, <1>3, <1>6 DEF Sound
<1>7. QED
  BY <1>5, <1>6 DEF u

(* Redis does not know the script: the attempt is gone, and took nothing.  *)
LEMMA SoundRefuse ==
    ASSUME NEW k, NEW s, NEW r, NEW n, NEW a,
           Sound(k, s, r, n),
           a \in s
    PROVE  /\ Sound(k, s \ {a}, r, n) \/ (k.stage = "waiting" /\ k.attempt = a)
           /\ k.stage = "waiting" /\ k.attempt = a =>
                  Sound(k, s \ {a}, NoScript, n)
<1> DEFINE u == s \ {a}
<1>1. Sound(k, u, r, n) \/ (k.stage = "waiting" /\ k.attempt = a)
  <2>1. n \in Nat /\ ~(0 > 0)
    BY DEF Sound
  <2>2. QED
    BY <2>1, SoundExecute
<1>2. ASSUME k.stage = "waiting", k.attempt = a
      PROVE  Sound(k, u, NoScript, n)
  <2>1. /\ k.failures \in Nat /\ IsFiniteSet(s) /\ n \in Nat
        /\ n + Cardinality(s) <= Allowance(k, r)
    BY <1>2 DEF Sound, Counted
  <2>2. /\ IsFiniteSet(u) /\ Cardinality(u) \in Nat
        /\ Cardinality(s) \in Nat /\ Cardinality(u) = Cardinality(s) - 1
    BY <2>1, FS_RemoveElement, FS_CardinalityType
  <2>3. k.failures = 0 => u = {} /\ n = 0
    BY <1>2, <2>1 DEF Sound, Unfailed
  <2> HIDE DEF u
  <2>4. Counted(k, u, NoScript, n)
    <3>1. Allowance(k, r) <= k.failures + 1 /\ Allowance(k, r) \in Nat
      BY <2>1 DEF Allowance
    <3>2. Allowance(k, NoScript) = k.failures
      BY <1>2, <2>1 DEF Allowance, NoScript
    <3>3. QED
      BY <3>1, <3>2, <1>2, <2>1, <2>2 DEF Counted
  <2>5. Paid(k, NoScript, n)
    BY <1>2 DEF Paid, NoScript
  <2>6. k.failures = 0 => Unfailed(k, u, NoScript, n)
    BY <1>2, <2>3 DEF Unfailed, NoScript
  <2>7. QED
    BY <2>1, <2>2, <2>4, <2>5, <2>6, <1>2 DEF Sound
<1>3. QED
  BY <1>1, <1>2

(* Redis restarts: what was on its connections is gone.                    *)
LEMMA SoundRestart ==
    ASSUME NEW k, NEW s, NEW r, NEW n,
           Sound(k, s, r, n)
    PROVE  Sound(k, {}, NoReply, n)
<1>1. /\ IsFiniteSet(s) /\ Cardinality(s) \in Nat /\ n \in Nat
      /\ k.stage # "idle" => k.failures \in Nat
      /\ IsFiniteSet({}) /\ Cardinality({}) = 0
  BY FS_CardinalityType, FS_EmptySet DEF Sound
<1>2. Counted(k, {}, NoReply, n)
  BY <1>1 DEF Sound, Counted, Allowance, NoReply
<1>3. Paid(k, NoReply, n)
  BY DEF Sound, Paid, NoReply
<1>4. k.stage # "idle" /\ k.failures = 0 => Unfailed(k, {}, NoReply, n)
  BY DEF Sound, Unfailed, NoReply
<1>5. QED
  BY <1>1, <1>2, <1>3, <1>4 DEF Sound

(* It returns: with the reply it has read, or with the error of an attempt *)
(* that failed.                                                            *)
LEMMA SoundReturn ==
    ASSUME NEW k, NEW s, NEW r, NEW n, NEW j,
           Sound(k, s, r, n),
           k.stage = "waiting",
           j.stage = "returned",
           \/ r.kind = "done" /\ j.ok /\ j.allowed = r.allowed
              /\ j.failures = k.failures
           \/ ~j.ok /\ j.failures = k.failures + 1
    PROVE  Sound(j, s, NoReply, n)
<1>1. /\ k.failures \in Nat /\ IsFiniteSet(s) /\ n \in Nat
      /\ n + Cardinality(s) <= Allowance(k, r)
  BY DEF Sound, Counted
<1>2. Cardinality(s) \in Nat
  BY <1>1, FS_CardinalityType
<1>3. j.failures \in Nat /\ Allowance(k, r) <= Allowance(j, NoReply)
      /\ Allowance(k, r) \in Nat /\ Allowance(j, NoReply) \in Nat
  BY <1>1 DEF Allowance
<1>4. Counted(j, s, NoReply, n)
  BY <1>1, <1>2, <1>3 DEF Counted
<1>5. Paid(j, NoReply, n)
  BY DEF Sound, Paid
<1>6. j.failures = 0 => Unfailed(j, s, NoReply, n)
  BY <1>1 DEF Sound, Unfailed
<1>7. QED
  BY <1>1, <1>3, <1>4, <1>5, <1>6 DEF Sound

-----------------------------------------------------------------------------
(* A step of one call leaves the others as they are.                       *)
LEMMA OneCall ==
    ASSUME CallsSound, NEW c \in Calls,
           NEW k, NEW s, NEW r, NEW n,
           call' = [call EXCEPT ![c] = k],
           sent' = [sent EXCEPT ![c] = s],
           reply' = [reply EXCEPT ![c] = r],
           charges' = [charges EXCEPT ![c] = n],
           Sound(k, s, r, n)
    PROVE  CallsSound'
<1>1. /\ call' = [d \in Calls |-> IF d = c THEN k ELSE call[d]]
      /\ sent' = [d \in Calls |-> IF d = c THEN s ELSE sent[d]]
      /\ reply' = [d \in Calls |-> IF d = c THEN r ELSE reply[d]]
      /\ charges' = [d \in Calls |-> IF d = c THEN n ELSE charges[d]]
  BY DEF CallsSound
<1>2. ASSUME NEW d \in Calls
      PROVE  Sound(call'[d], sent'[d], reply'[d], charges'[d])
  BY <1>1 DEF CallsSound
<1>3. QED
  BY <1>1, <1>2 DEF CallsSound

LEMMA SendKeepsCallsSound ==
    ASSUME CallsSound, NEW c \in Calls, NEW q, NEW a, NEW failures \in Nat,
           Send(c, q, a, failures), UNCHANGED charges,
           charges[c] + Cardinality(sent[c]) <= failures,
           failures = 0 => sent[c] = {} /\ charges[c] = 0
    PROVE  CallsSound'
<1> DEFINE k == [stage |-> "waiting", request |-> q, attempt |-> a,
                 failures |-> failures]
<1>1. /\ call' = [call EXCEPT ![c] = k]
      /\ sent' = [sent EXCEPT ![c] = sent[c] \cup {a}]
      /\ reply' = [reply EXCEPT ![c] = NoReply]
  BY DEF Send
<1>2. charges' = [charges EXCEPT ![c] = charges[c]]
  BY DEF CallsSound
<1>3. IsFiniteSet(sent[c]) /\ charges[c] \in Nat
  BY DEF CallsSound, Sound
<1>4. k.stage = "waiting" /\ k.attempt = a /\ k.failures = failures
  OBVIOUS
<1> HIDE DEF k
<1>5. Sound(k, sent[c] \cup {a}, NoReply, charges[c])
  BY <1>3, <1>4, SoundSend
<1>6. QED
  BY <1>1, <1>2, <1>5, OneCall

LEMMA ReturnKeepsCallsSound ==
    ASSUME CallsSound, NEW c \in Calls, NEW ok, NEW allowed, NEW failures,
           Return(c, ok, allowed, failures), UNCHANGED charges,
           call[c].stage = "waiting",
           \/ reply[c].kind = "done" /\ ok /\ allowed = reply[c].allowed
              /\ failures = call[c].failures
           \/ ~ok /\ failures = call[c].failures + 1
    PROVE  CallsSound'
<1> DEFINE j == [stage |-> "returned", request |-> call[c].request,
                 ok |-> ok, allowed |-> allowed, failures |-> failures]
<1>1. /\ call' = [call EXCEPT ![c] = j]
      /\ reply' = [reply EXCEPT ![c] = NoReply]
  BY DEF Return
<1>2. /\ sent' = [sent EXCEPT ![c] = sent[c]]
      /\ charges' = [charges EXCEPT ![c] = charges[c]]
  BY DEF CallsSound, Return
<1>3. /\ j.stage = "returned" /\ (j.ok <=> ok)
      /\ j.allowed = allowed /\ j.failures = failures
  OBVIOUS
<1> HIDE DEF j
<1>4. Sound(j, sent[c], NoReply, charges[c])
  BY <1>3, SoundReturn DEF CallsSound
<1>5. QED
  BY <1>1, <1>2, <1>4, OneCall

(* Redis answers attempt a of call c with x, having charged the call t.    *)
LEMMA AnsweredKeepsCallsSound ==
    ASSUME CallsSound, NEW c \in Calls, NEW a \in sent[c], NEW x, NEW t,
           Answered(c, a, x),
           charges' = [charges EXCEPT ![c] = t],
           Sound(call[c], sent[c] \ {a}, reply[c], t) \/ Awaited(c, a),
           Awaited(c, a) => Sound(call[c], sent[c] \ {a}, x, t)
    PROVE  CallsSound'
<1>1. call' = [call EXCEPT ![c] = call[c]]
  BY DEF CallsSound, Answered
<1>2. sent' = [sent EXCEPT ![c] = sent[c] \ {a}]
  BY DEF Answered
<1>3. CASE Awaited(c, a)
  <2>1. reply' = [reply EXCEPT ![c] = x]
    BY <1>3 DEF Answered
  <2>2. QED
    BY <1>1, <1>2, <1>3, <2>1, OneCall
<1>4. CASE ~Awaited(c, a)
  <2>1. reply' = [reply EXCEPT ![c] = reply[c]]
    BY <1>4 DEF Answered, CallsSound
  <2>2. QED
    BY <1>1, <1>2, <1>4, <2>1, OneCall
<1>5. QED
  BY <1>3, <1>4

-----------------------------------------------------------------------------
LEMMA CallsSoundInit == Init => CallsSound
<1> SUFFICES ASSUME Init PROVE CallsSound
  OBVIOUS
<1>1. IsFiniteSet({}) /\ Cardinality({}) = 0
  BY FS_EmptySet
<1>2. Sound(Idle, {}, NoReply, 0)
  BY <1>1 DEF Sound, Counted, Paid, Unfailed, Idle, NoReply
<1>3. QED
  BY <1>2 DEF Init, CallsSound

LEMMA CallsSoundStep == CallsSound /\ [Next]_vars => CallsSound'
<1> SUFFICES ASSUME CallsSound, [Next]_vars PROVE CallsSound'
  OBVIOUS
<1>1. ASSUME NEW c \in Calls, NEW q \in Requests, Begin(c, q)
      PROVE  CallsSound'
  <2>1. sent[c] = {} /\ charges[c] = 0
    BY <1>1 DEF Begin, CallsSound, Sound, Counted
  <2>2. charges[c] + Cardinality(sent[c]) <= 0
    BY <2>1, FS_EmptySet
  <2>3. Send(c, q, FirstAttempt(Command(q.op)), 0) /\ UNCHANGED charges
    BY <1>1 DEF Begin
  <2>4. QED
    BY <2>1, <2>2, <2>3, SendKeepsCallsSound
<1>2. ASSUME NEW c \in Calls, Receive(c)
      PROVE  CallsSound'
  <2>1. Sound(call[c], sent[c], reply[c], charges[c])
        /\ call[c].stage = "waiting" /\ UNCHANGED charges
    BY <1>2 DEF CallsSound, Receive
  <2>2. CASE /\ reply[c].kind = "NOSCRIPT"
             /\ Send(c, call[c].request, FirstAttempt("eval"), call[c].failures)
    <3>1. /\ call[c].failures \in Nat
          /\ charges[c] + Cardinality(sent[c]) <= call[c].failures
      BY <2>1, <2>2 DEF Sound, Counted, Allowance
    <3>2. call[c].failures = 0 => sent[c] = {} /\ charges[c] = 0
      BY <2>1, <2>2 DEF Sound, Unfailed
    <3>3. QED
      BY <2>1, <2>2, <3>1, <3>2, SendKeepsCallsSound
  <2>3. CASE /\ reply[c].kind = "done"
             /\ Return(c, TRUE, reply[c].allowed, call[c].failures)
    BY <2>1, <2>3, ReturnKeepsCallsSound
  <2>4. QED
    BY <1>2, <2>2, <2>3 DEF Receive
<1>3. ASSUME NEW c \in Calls, Fail(c)
      PROVE  CallsSound'
  <2> DEFINE failures == call[c].failures + 1
             again    == [call[c].attempt EXCEPT !.number = @ + 1]
  <2>1. Sound(call[c], sent[c], reply[c], charges[c])
        /\ call[c].stage = "waiting" /\ UNCHANGED charges
    BY <1>3 DEF CallsSound, Fail
  <2>2. CASE Send(c, call[c].request, again, failures)
    <3>1. /\ call[c].failures \in Nat
          /\ charges[c] + Cardinality(sent[c]) <= Allowance(call[c], reply[c])
          /\ IsFiniteSet(sent[c]) /\ charges[c] \in Nat
      BY <2>1 DEF Sound, Counted
    <3>2. /\ Cardinality(sent[c]) \in Nat
          /\ Allowance(call[c], reply[c]) \in Nat
          /\ Allowance(call[c], reply[c]) <= failures
      BY <3>1, FS_CardinalityType DEF Allowance
    <3>3. /\ failures \in Nat /\ failures # 0
          /\ charges[c] + Cardinality(sent[c]) <= failures
      BY <3>1, <3>2
    <3> HIDE DEF failures, again
    <3>4. QED
      BY <2>1, <2>2, <3>3, SendKeepsCallsSound
  <2>3. CASE Return(c, FALSE, 0, failures)
    BY <2>1, <2>3, ReturnKeepsCallsSound
  <2>4. QED
    BY <1>3, <2>2, <2>3 DEF Fail
<1>4. ASSUME NEW c \in Calls, NEW a \in sent[c], RefuseUnknown(c, a)
      PROVE  CallsSound'
  <2>1. Answered(c, a, NoScript) /\ charges' = [charges EXCEPT ![c] = charges[c]]
    BY <1>4 DEF RefuseUnknown, CallsSound
  <2>2. Sound(call[c], sent[c], reply[c], charges[c])
    BY DEF CallsSound
  <2>3. /\ \/ Sound(call[c], sent[c] \ {a}, reply[c], charges[c])
           \/ call[c].stage = "waiting" /\ call[c].attempt = a
        /\ call[c].stage = "waiting" /\ call[c].attempt = a =>
               Sound(call[c], sent[c] \ {a}, NoScript, charges[c])
    BY <2>2, SoundRefuse
  <2>4. /\ Sound(call[c], sent[c] \ {a}, reply[c], charges[c]) \/ Awaited(c, a)
        /\ Awaited(c, a) => Sound(call[c], sent[c] \ {a}, NoScript, charges[c])
    BY <2>3 DEF Awaited
  <2>5. QED
    BY <2>1, <2>4, AnsweredKeepsCallsSound
<1>5. ASSUME NEW c \in Calls, NEW a \in sent[c],
             RunScript(c, a) \/ RunDel(c, a)
      PROVE  CallsSound'
  <2> DEFINE charged(m) == IF m > 0 THEN charges[c] + 1 ELSE charges[c]
  <2>1. PICK m : /\ Answered(c, a, Done(m))
                 /\ charges' = [charges EXCEPT ![c] = charged(m)]
    <3>1. CASE RunScript(c, a)
      <4>1. Answered(c, a, Done(answer'.allowed))
        BY <3>1 DEF RunScript
      <4>2. charges' = IF answer'.allowed > 0
                       THEN [charges EXCEPT ![c] = charges[c] + 1]
                       ELSE charges
        BY <3>1 DEF RunScript
      <4>3. charges' = [charges EXCEPT ![c] = charged(answer'.allowed)]
        BY <4>2 DEF CallsSound
      <4>4. QED
        BY <4>1, <4>3
    <3>2. CASE RunDel(c, a)
      <4>1. Answered(c, a, Done(0)) /\ charges' = charges
        BY <3>2 DEF RunDel
      <4>2. charges' = [charges EXCEPT ![c] = charged(0)]
        BY <4>1 DEF CallsSound
      <4>3. QED
        BY <4>1, <4>2
    <3>3. QED
      BY <1>5, <3>1, <3>2
  <2>2. Sound(call[c], sent[c], reply[c], charges[c])
    BY DEF CallsSound
  <2> DEFINE t == charged(m)
  <2>3. /\ Sound(call[c], sent[c] \ {a}, reply[c], t) \/ Awaited(c, a)
        /\ Awaited(c, a) => Sound(call[c], sent[c] \ {a}, Done(m), t)
    <3>1. /\ charges[c] \in Nat
          /\ \/ m > 0 /\ t = charges[c] + 1
             \/ ~(m > 0) /\ t = charges[c]
      BY <2>2 DEF Sound
    <3> HIDE DEF t
    <3>2. /\ \/ Sound(call[c], sent[c] \ {a}, reply[c], t)
             \/ call[c].stage = "waiting" /\ call[c].attempt = a
          /\ call[c].stage = "waiting" /\ call[c].attempt = a =>
                 Sound(call[c], sent[c] \ {a}, Done(m), t)
      BY <2>2, <3>1, SoundExecute
    <3>3. QED
      BY <3>2 DEF Awaited
  <2> HIDE DEF t
  <2>4. QED
    BY <2>1, <2>3, AnsweredKeepsCallsSound DEF t
<1>6. ASSUME Restart
      PROVE  CallsSound'
  <2>1. /\ UNCHANGED <<call, charges>>
        /\ sent' = [c \in Calls |-> {}]
        /\ reply' = [c \in Calls |-> NoReply]
    BY <1>6 DEF Restart
  <2>2. ASSUME NEW c \in Calls
        PROVE  Sound(call[c], {}, NoReply, charges[c])
    BY SoundRestart DEF CallsSound
  <2>3. QED
    BY <2>1, <2>2 DEF CallsSound
<1>7. ASSUME UNCHANGED <<clientVars, charges>>
      PROVE  CallsSound'
  BY <1>7 DEF CallsSound, clientVars
<1>8. QED
  BY <1>1, <1>2, <1>3, <1>4, <1>5, <1>6, <1>7 DEF Next, Execute, Tick, vars

-----------------------------------------------------------------------------
(* The invariant: what is claimed of one call holds of every call.         *)
THEOREM CallsAreSound == Spec => []CallsSound
BY CallsSoundInit, CallsSoundStep, PTL DEF Spec

(* However often go-redis retries a call, and however late Redis executes  *)
(* its attempts, what was taken and what may still be is within the failed *)
(* attempts, and one for a success.                                        *)
THEOREM ChargesFollowFailures == Spec => []ChargedOncePerFailure
<1>1. CallsSound => ChargedOncePerFailure
  <2> SUFFICES ASSUME CallsSound, NEW c \in Calls, call[c].stage # "idle"
               PROVE  charges[c] + Cardinality(sent[c]) <=
                         call[c].failures +
                         (IF call[c].stage = "returned" /\ ~call[c].ok THEN 0 ELSE 1)
    BY DEF ChargedOncePerFailure
  <2> DEFINE due == charges[c] + Cardinality(sent[c])
  <2>1. /\ due <= Allowance(call[c], reply[c])
        /\ call[c].failures \in Nat /\ charges[c] \in Nat
        /\ IsFiniteSet(sent[c])
        /\ call[c].stage \in {"waiting", "returned"}
    BY DEF CallsSound, Sound, Counted
  <2>2. due \in Nat
    BY <2>1, FS_CardinalityType
  <2> HIDE DEF due
  <2>3. CASE call[c].stage = "returned"
    BY <2>1, <2>2, <2>3 DEF Allowance, due
  <2>4. CASE call[c].stage = "waiting"
    <3>1. /\ Allowance(call[c], reply[c]) <= call[c].failures + 1
          /\ Allowance(call[c], reply[c]) \in Nat
      BY <2>1, <2>4 DEF Allowance
    <3>2. due <= call[c].failures + 1
      BY <2>1, <2>2, <3>1
    <3>3. QED
      BY <2>4, <3>2 DEF due
  <2>5. QED
    BY <2>1, <2>3, <2>4
<1>2. QED
  BY <1>1, CallsAreSound, PTL

(* A caller told to go ahead has been charged, and without a failed        *)
(* attempt exactly once; a caller told no has then not been charged.       *)
THEOREM AnswersMatchCharges == Spec => []AnswerMatchesCharge
<1>1. CallsSound => AnswerMatchesCharge
  BY DEF CallsSound, Sound, Paid, Unfailed, AnswerMatchesCharge
<1>2. QED
  BY <1>1, CallsAreSound, PTL

(* An error returned by the limiter means an attempt failed: a script      *)
(* cache that Redis lost is never the reason.                              *)
THEOREM ErrorsMeanFailures == Spec => []ErrorOnlyAfterFailure
<1>1. CallsSound => ErrorOnlyAfterFailure
  BY DEF CallsSound, Sound, Unfailed, ErrorOnlyAfterFailure
<1>2. QED
  BY <1>1, CallsAreSound, PTL

-----------------------------------------------------------------------------
(* A call under way is for a request its caller may make.                  *)
RequestsKept ==
    /\ call = [c \in Calls |-> call[c]]
    /\ \A c \in Calls : call[c].stage # "idle" => call[c].request \in Requests

LEMMA RequestsKeptStep == RequestsKept /\ [Next]_vars => RequestsKept'
<1> SUFFICES ASSUME RequestsKept, [Next]_vars PROVE RequestsKept'
  OBVIOUS
<1>1. ASSUME NEW c \in Calls, NEW k,
             call' = [call EXCEPT ![c] = k], k.request \in Requests
      PROVE  RequestsKept'
  <2>1. call' = [d \in Calls |-> IF d = c THEN k ELSE call[d]]
    BY <1>1 DEF RequestsKept
  <2>2. QED
    BY <1>1, <2>1 DEF RequestsKept
<1>2. ASSUME NEW c \in Calls, NEW q \in Requests, NEW a, NEW failures,
             Send(c, q, a, failures)
      PROVE  RequestsKept'
  <2> DEFINE k == [stage |-> "waiting", request |-> q, attempt |-> a,
                   failures |-> failures]
  <2>1. call' = [call EXCEPT ![c] = k] /\ k.request \in Requests
    BY <1>2 DEF Send
  <2> HIDE DEF k
  <2>2. QED
    BY <2>1, <1>1
<1>3. ASSUME NEW c \in Calls, NEW ok, NEW allowed, NEW failures,
             Return(c, ok, allowed, failures), call[c].stage = "waiting"
      PROVE  RequestsKept'
  <2> DEFINE k == [stage |-> "returned", request |-> call[c].request,
                   ok |-> ok, allowed |-> allowed, failures |-> failures]
  <2>1. call' = [call EXCEPT ![c] = k] /\ k.request \in Requests
    BY <1>3 DEF Return, RequestsKept
  <2> HIDE DEF k
  <2>2. QED
    BY <2>1, <1>1
<1>4. ASSUME NEW c \in Calls, NEW q \in Requests, Begin(c, q)
      PROVE  RequestsKept'
  BY <1>2, <1>4 DEF Begin
<1>5. ASSUME NEW c \in Calls, Receive(c)
      PROVE  RequestsKept'
  BY <1>2, <1>3, <1>5 DEF Receive, RequestsKept
<1>6. ASSUME NEW c \in Calls, Fail(c)
      PROVE  RequestsKept'
  BY <1>2, <1>3, <1>6 DEF Fail, RequestsKept
<1>7. ASSUME UNCHANGED call
      PROVE  RequestsKept'
  BY <1>7 DEF RequestsKept
<1>8. ASSUME NEW c \in Calls, Execute(c)
      PROVE  UNCHANGED call
  BY <1>8 DEF Execute, RefuseUnknown, RunScript, RunDel, Answered
<1>9. QED
  BY <1>4, <1>5, <1>6, <1>7, <1>8
     DEF Next, Restart, Tick, vars, clientVars

(* A step of the client and Redis is a step of the rate limiter or leaves  *)
(* it alone.                                                               *)
LEMMA ServerStep ==
    RequestsKept /\ CallsSound /\ [Next]_vars => [Server!Next]_(Server!vars)
<1> SUFFICES ASSUME RequestsKept, CallsSound, [Next]_vars
             PROVE  Server!Next \/ UNCHANGED serverVars
  BY DEF serverVars, Server!vars
<1>1. ASSUME NEW c \in Calls, NEW a \in sent[c],
             RunScript(c, a) \/ RunDel(c, a)
      PROVE  Server!Next
  <2> DEFINE q == call[c].request
  <2>1. call[c].stage # "idle"
    BY DEF CallsSound, Sound, Counted
  <2>2. q \in Request
    BY <2>1, RequestsAssumption DEF RequestsKept
  <2>3. q.key \in Keys /\ q.limit \in Limits /\ q.n \in 0..MaxAsk
    BY <2>2 DEF Request
  <2> HIDE DEF q
  <2>4. CASE RunScript(c, a)
    <3>1. \/ Server!RunAllowN(q.key, q.limit, q.n)
          \/ Server!RunAllowAtMost(q.key, q.limit, q.n)
      BY <2>4 DEF RunScript, q
    <3>2. QED
      BY <3>1, <2>3 DEF Server!Next
  <2>5. CASE RunDel(c, a)
    <3>1. Server!Reset(q.key)
      BY <2>5 DEF RunDel, q
    <3>2. QED
      BY <3>1, <2>3 DEF Server!Next
  <2>6. QED
    BY <1>1, <2>4, <2>5
<1>2. ASSUME NEW c \in Calls, NEW a \in sent[c], RefuseUnknown(c, a)
      PROVE  UNCHANGED serverVars
  BY <1>2 DEF RefuseUnknown
<1>3. ASSUME NEW c \in Calls,
             (\E q \in Requests : Begin(c, q)) \/ Receive(c) \/ Fail(c)
      PROVE  UNCHANGED serverVars
  BY <1>3 DEF Begin, Receive, Fail
<1>4. ASSUME Restart
      PROVE  Server!Next \/ UNCHANGED serverVars
  BY <1>4 DEF Restart, Server!Next
<1>5. ASSUME Tick
      PROVE  Server!Next
  BY <1>5 DEF Tick, Server!Next
<1>6. QED
  BY <1>1, <1>2, <1>3, <1>4, <1>5 DEF Next, Execute, vars

(* Whatever is retried, late, lost or restarted, Redis is the rate limiter *)
(* of RateLimiter: each execution is one atomic call of it.                *)
LEMMA ServerIsRateLimiter == Spec => Server!Spec
<1>1. Init => RequestsKept /\ Server!Init
  BY DEF Init, RequestsKept, Idle
<1>2. Spec => []RequestsKept
  BY <1>1, RequestsKeptStep, PTL DEF Spec
<1>3. QED
  BY <1>1, <1>2, CallsAreSound, ServerStep, PTL DEF Spec, Server!Spec

-----------------------------------------------------------------------------
(* What is proved of RateLimiter holds of the server.  RL is the server    *)
(* together with its theorems.                                             *)

RL == INSTANCE RateLimiter_proofs

LEMMA SameScripts ==
    ASSUME NEW from, NEW t, NEW l, NEW n
    PROVE  /\ Server!AllowN(from, t, l, n) = RL!AllowN(from, t, l, n)
           /\ Server!AllowAtMost(from, t, l, n) = RL!AllowAtMost(from, t, l, n)
BY DEF Server!AllowN, RL!AllowN, Server!AllowAtMost, RL!AllowAtMost,
       Server!BurstOffset, RL!BurstOffset, Server!Granted, RL!Granted,
       Server!Denied, RL!Denied, Server!NoRetry, RL!NoRetry

LEMMA SameRuns ==
    ASSUME NEW op, NEW k, NEW l, NEW n, NEW r
    PROVE  /\ Server!From(k, now) = RL!From(k, now)
           /\ Server!Run(op, k, l, n, r) => RL!Run(op, k, l, n, r)
BY DEF Server!Run, RL!Run, Server!Saved, RL!Saved, Server!From, RL!From,
       Server!Alive, RL!Alive, Server!Later, RL!Later,
       Server!CeilSeconds, RL!CeilSeconds

LEMMA SameServer == Server!Spec => RL!Spec
<1>1. Server!Init => RL!Init
  BY DEF Server!Init, RL!Init, Server!NoEntry, RL!NoEntry
<1>2. [Server!Next]_(Server!vars) => [RL!Next]_(RL!vars)
  <2>1. ASSUME NEW k, NEW l, NEW n
        PROVE  /\ Server!RunAllowN(k, l, n) => RL!RunAllowN(k, l, n)
               /\ Server!RunAllowAtMost(k, l, n) => RL!RunAllowAtMost(k, l, n)
    BY SameScripts, SameRuns
       DEF Server!RunAllowN, RL!RunAllowN, Server!RunAllowAtMost, RL!RunAllowAtMost
  <2>2. /\ Server!Lose => RL!Lose
        /\ Server!Tick => RL!Tick
        /\ \A k \in Keys : /\ Server!Reset(k) => RL!Reset(k)
                           /\ Server!Observe(k) => RL!Observe(k)
    BY DEF Server!Reset, RL!Reset, Server!Lose, RL!Lose, Server!Tick, RL!Tick,
           Server!Observe, RL!Observe, Server!FreshWindow, RL!FreshWindow,
           Server!NoEntry, RL!NoEntry
  <2>3. QED
    BY <2>1, <2>2 DEF Server!Next, RL!Next, Server!vars, RL!vars
<1>3. QED
  BY <1>1, <1>2, PTL DEF Server!Spec, RL!Spec

LEMMA ServerConstants ==
    /\ TicksPerSecond \in Nat \ {0}
    /\ Limits \subseteq RL!Limit
    /\ MaxOffset \in Nat
    /\ \A l \in Limits : RL!BurstOffset(l) <= MaxOffset
    /\ MaxAsk \in Nat /\ MaxTime \in Nat
BY ServerAssumption DEF Server!Limit, RL!Limit, Server!BurstOffset, RL!BurstOffset

(* The limit holds of what Redis granted to all calls together, with every *)
(* retry and late attempt that Redis executed counted.                     *)
THEOREM LimitHoldsOfGrants == Spec => []LimitHolds
<1>1. RL!WindowBound => LimitHolds
  BY DEF RL!WindowBound, LimitHolds, Server!WindowBound
<1>2. RL!Spec => []RL!WindowBound
  BY ServerConstants, RL!RateLimited
<1>3. QED
  BY <1>1, <1>2, SameServer, ServerIsRateLimiter, PTL

-----------------------------------------------------------------------------
(* Types.  The client's are inductive given the server's and the counts of *)
(* CallsSound.                                                             *)

ClientTypes ==
    /\ scripts \subseteq Script
    /\ call \in [Calls -> {Idle} \cup Waiting \cup Returned]
    /\ sent \in [Calls -> SUBSET Attempt]
    /\ reply \in [Calls -> {NoReply, NoScript} \cup {Done(m) : m \in 0..MaxAsk}]
    /\ charges \in [Calls -> Nat]

LEMMA CallFacts ==
    ASSUME ClientTypes, NEW c \in Calls
    PROVE  /\ call[c].stage = "idle" => call[c] = Idle
           /\ call[c].stage # "idle" => /\ call[c].request \in Requests
                                        /\ call[c].failures \in Nat
           /\ call[c].stage = "waiting" => call[c].attempt \in Attempt
<1>1. call[c] \in {Idle} \cup Waiting \cup Returned
  BY DEF ClientTypes
<1>2. QED
  BY <1>1 DEF Idle, Waiting, Returned

LEMMA SendTypes ==
    ASSUME ClientTypes, NEW c \in Calls, NEW q \in Requests, NEW a \in Attempt,
           NEW failures \in Nat, Send(c, q, a, failures),
           UNCHANGED <<scripts, charges>>
    PROVE  ClientTypes'
<1>1. [stage |-> "waiting", request |-> q, attempt |-> a, failures |-> failures]
         \in Waiting
  BY DEF Waiting
<1>2. call' \in [Calls -> {Idle} \cup Waiting \cup Returned]
  BY <1>1 DEF Send, ClientTypes
<1>3. sent' \in [Calls -> SUBSET Attempt]
  BY DEF Send, ClientTypes
<1>4. reply' \in [Calls -> {NoReply, NoScript} \cup {Done(m) : m \in 0..MaxAsk}]
  BY DEF Send, ClientTypes
<1>5. QED
  BY <1>2, <1>3, <1>4 DEF ClientTypes

LEMMA ReturnTypes ==
    ASSUME ClientTypes, NEW c \in Calls, call[c].stage = "waiting",
           NEW ok \in BOOLEAN, NEW allowed \in Nat, NEW failures \in Nat,
           Return(c, ok, allowed, failures),
           UNCHANGED <<scripts, charges>>
    PROVE  ClientTypes'
<1>1. call[c].request \in Requests
  BY CallFacts
<1>2. [stage |-> "returned", request |-> call[c].request, ok |-> ok,
       allowed |-> allowed, failures |-> failures] \in Returned
  BY <1>1 DEF Returned
<1>3. call' \in [Calls -> {Idle} \cup Waiting \cup Returned]
  BY <1>2 DEF Return, ClientTypes
<1>4. reply' \in [Calls -> {NoReply, NoScript} \cup {Done(m) : m \in 0..MaxAsk}]
  BY DEF Return, ClientTypes
<1>5. QED
  BY <1>3, <1>4 DEF Return, ClientTypes

LEMMA AnsweredTypes ==
    ASSUME ClientTypes, NEW c \in Calls, NEW a \in sent[c],
           NEW r \in {NoReply, NoScript} \cup {Done(m) : m \in 0..MaxAsk},
           Answered(c, a, r)
    PROVE  /\ call' = call
           /\ sent' \in [Calls -> SUBSET Attempt]
           /\ reply' \in [Calls -> {NoReply, NoScript} \cup
                                   {Done(m) : m \in 0..MaxAsk}]
BY DEF Answered, ClientTypes

\* A script is answered with no more events than it was asked for.
LEMMA ServerAnswers ==
    ASSUME Server!TypeOK, NEW q \in Requests,
           \/ Server!RunAllowN(q.key, q.limit, q.n)
           \/ Server!RunAllowAtMost(q.key, q.limit, q.n)
    PROVE  answer'.allowed \in 0..MaxAsk
<1> DEFINE from == Server!From(q.key, now)
<1>1. q.key \in Keys /\ q.limit \in Limits /\ q.n \in 1..MaxAsk
  BY RequestsAssumption DEF Request
<1>2. q.limit \in RL!Limit /\ q.n \in Nat /\ q.n <= MaxAsk /\ MaxAsk \in Nat
  BY <1>1, ServerConstants
<1>3. now \in Nat /\ store[q.key].tat \in Nat
  BY <1>1, ServerConstants DEF Server!TypeOK, Server!Entry
<1>4. from \in Nat
  BY <1>3 DEF Server!From, Server!Later
<1> HIDE DEF from
<1>5. /\ RL!AllowN(from, now, q.limit, q.n).allowed \in 0..q.n
      /\ RL!AllowAtMost(from, now, q.limit, q.n).allowed \in 0..q.n
  BY <1>2, <1>3, <1>4, ServerConstants, RL!AllowedWithinAsked
<1>6. \/ answer'.allowed = Server!AllowN(from, now, q.limit, q.n).allowed
      \/ answer'.allowed = Server!AllowAtMost(from, now, q.limit, q.n).allowed
  BY DEF Server!RunAllowN, Server!RunAllowAtMost, Server!Run, from
<1>7. answer'.allowed \in 0..q.n
  BY <1>5, <1>6, SameScripts
<1>8. QED
  BY <1>2, <1>7

\* DEL is what a call of Reset sends, and it alone.
Matches(k, s, r) ==
    k.stage # "idle" =>
        /\ \A a \in s : a.cmd = "del" <=> k.request.op = "reset"
        /\ k.stage = "waiting" => (k.attempt.cmd = "del" <=> k.request.op = "reset")
        /\ r.kind = "NOSCRIPT" => k.request.op # "reset"

CommandsMatch == \A c \in Calls : Matches(call[c], sent[c], reply[c])

LEMMA ClientTypesInit == Init => ClientTypes /\ CommandsMatch
BY DEF Init, ClientTypes, CommandsMatch, Matches, Idle

LEMMA CommandsMatchStep ==
    ClientTypes /\ CallsSound /\ CommandsMatch /\ [Next]_vars => CommandsMatch'
<1> SUFFICES ASSUME ClientTypes, CallsSound, CommandsMatch, [Next]_vars
             PROVE  CommandsMatch'
  OBVIOUS
<1>1. ASSUME NEW c \in Calls, NEW k, NEW s, NEW r,
             call' = [call EXCEPT ![c] = k],
             sent' = [sent EXCEPT ![c] = s],
             reply' = [reply EXCEPT ![c] = r],
             Matches(k, s, r)
      PROVE  CommandsMatch'
  BY <1>1 DEF ClientTypes, CommandsMatch
<1>2. ASSUME NEW c \in Calls, NEW q, NEW a, NEW failures, Send(c, q, a, failures),
             a.cmd = "del" <=> q.op = "reset",
             \A b \in sent[c] : b.cmd = "del" <=> q.op = "reset"
      PROVE  CommandsMatch'
  <2> DEFINE k == [stage |-> "waiting", request |-> q, attempt |-> a,
                   failures |-> failures]
  <2>1. /\ call' = [call EXCEPT ![c] = k]
        /\ sent' = [sent EXCEPT ![c] = sent[c] \cup {a}]
        /\ reply' = [reply EXCEPT ![c] = NoReply]
    BY <1>2 DEF Send
  <2>2. k.request = q /\ k.attempt = a
    OBVIOUS
  <2> HIDE DEF k
  <2>3. Matches(k, sent[c] \cup {a}, NoReply)
    BY <1>2, <2>2 DEF Matches, NoReply
  <2>4. QED
    BY <1>1, <2>1, <2>3
<1>3. ASSUME NEW c \in Calls, NEW ok, NEW allowed, NEW failures,
             Return(c, ok, allowed, failures), call[c].stage = "waiting"
      PROVE  CommandsMatch'
  <2> DEFINE k == [stage |-> "returned", request |-> call[c].request,
                   ok |-> ok, allowed |-> allowed, failures |-> failures]
  <2>1. /\ call' = [call EXCEPT ![c] = k]
        /\ sent' = [sent EXCEPT ![c] = sent[c]]
        /\ reply' = [reply EXCEPT ![c] = NoReply]
    BY <1>3 DEF Return, ClientTypes
  <2>2. k.request = call[c].request /\ k.stage = "returned"
    OBVIOUS
  <2> HIDE DEF k
  <2>3. Matches(k, sent[c], NoReply)
    BY <1>3, <2>2 DEF CommandsMatch, Matches, NoReply
  <2>4. QED
    BY <1>1, <2>1, <2>3
<1>4. ASSUME NEW c \in Calls, NEW a \in sent[c], NEW r, Answered(c, a, r),
             r.kind = "NOSCRIPT" => call[c].request.op # "reset"
      PROVE  CommandsMatch'
  <2>1. /\ Matches(call[c], sent[c] \ {a}, r)
        /\ Matches(call[c], sent[c] \ {a}, reply[c])
    BY <1>4 DEF CommandsMatch, Matches
  <2>2. /\ call' = [call EXCEPT ![c] = call[c]]
        /\ sent' = [sent EXCEPT ![c] = sent[c] \ {a}]
        /\ \/ reply' = [reply EXCEPT ![c] = r]
           \/ reply' = [reply EXCEPT ![c] = reply[c]]
    BY <1>4 DEF Answered, ClientTypes
  <2>3. QED
    BY <1>1, <2>1, <2>2
<1>5. ASSUME NEW c \in Calls, NEW q \in Requests, Begin(c, q)
      PROVE  CommandsMatch'
  <2>1. sent[c] = {}
    BY <1>5 DEF Begin, CallsSound, Sound, Counted
  <2>2. FirstAttempt(Command(q.op)).cmd = "del" <=> q.op = "reset"
    BY DEF FirstAttempt, Command
  <2>3. QED
    BY <1>2, <1>5, <2>1, <2>2 DEF Begin
<1>6. ASSUME NEW c \in Calls, Receive(c)
      PROVE  CommandsMatch'
  <2>1. FirstAttempt("eval").cmd # "del" /\ call[c].stage = "waiting"
        /\ Matches(call[c], sent[c], reply[c])
    BY <1>6 DEF FirstAttempt, Receive, CommandsMatch
  <2>2. QED
    BY <1>2, <1>3, <1>6, <2>1 DEF Receive, Matches
<1>7. ASSUME NEW c \in Calls, Fail(c)
      PROVE  CommandsMatch'
  <2> DEFINE a == call[c].attempt
             again == [a EXCEPT !.number = @ + 1]
  <2>1. call[c].stage = "waiting" /\ Matches(call[c], sent[c], reply[c])
    BY <1>7 DEF Fail, CommandsMatch
  <2>2. a \in Attempt
    BY <2>1, CallFacts
  <2>3. again.cmd = a.cmd
    BY <2>2 DEF Attempt
  <2>4. QED
    BY <1>2, <1>3, <1>7, <2>1, <2>3 DEF Fail, Matches
<1>8. ASSUME NEW c \in Calls, NEW a \in sent[c],
             RefuseUnknown(c, a) \/ RunScript(c, a) \/ RunDel(c, a)
      PROVE  CommandsMatch'
  <2>1. call[c].stage # "idle"
    BY DEF CallsSound, Sound, Counted
  <2>2. a.cmd = "evalsha" => call[c].request.op # "reset"
    BY <2>1 DEF CommandsMatch, Matches
  <2>3. \A m : Done(m).kind # "NOSCRIPT"
    BY DEF Done
  <2>4. QED
    BY <1>4, <1>8, <2>2, <2>3 DEF RefuseUnknown, RunScript, RunDel
<1>9. CASE Restart
  BY <1>9 DEF Restart, CommandsMatch, Matches, NoReply
<1>10. CASE UNCHANGED clientVars
  BY <1>10 DEF clientVars, CommandsMatch
<1>11. QED
  BY <1>5, <1>6, <1>7, <1>8, <1>9, <1>10 DEF Next, Execute, Tick, vars

LEMMA ClientTypesStep ==
    ClientTypes /\ CallsSound /\ CommandsMatch /\ Server!TypeOK /\ [Next]_vars
    => ClientTypes'
<1> SUFFICES ASSUME ClientTypes, CallsSound, CommandsMatch, Server!TypeOK,
                    [Next]_vars
             PROVE  ClientTypes'
  OBVIOUS
<1>1. ASSUME NEW cmd \in {"evalsha", "eval", "del"}
      PROVE  FirstAttempt(cmd) \in Attempt
  BY RetriesAssumption DEF FirstAttempt, Attempt
<1>2. ASSUME NEW c \in Calls, NEW q \in Requests, Begin(c, q)
      PROVE  ClientTypes'
  <2>1. FirstAttempt(Command(q.op)) \in Attempt
    BY <1>1 DEF Command
  <2>2. QED
    BY <1>2, <2>1, SendTypes DEF Begin
<1>3. ASSUME NEW c \in Calls, Receive(c)
      PROVE  ClientTypes'
  <2>1. /\ call[c].stage = "waiting" /\ call[c].request \in Requests
        /\ call[c].failures \in Nat /\ UNCHANGED <<scripts, charges>>
    BY <1>3, CallFacts DEF Receive
  <2>2. CASE Send(c, call[c].request, FirstAttempt("eval"), call[c].failures)
    BY <1>1, <2>1, <2>2, SendTypes
  <2>3. CASE /\ reply[c].kind = "done"
             /\ Return(c, TRUE, reply[c].allowed, call[c].failures)
    <3>1. reply[c] \in {NoReply, NoScript} \cup {Done(m) : m \in 0..MaxAsk}
      BY DEF ClientTypes
    <3>2. PICK m \in 0..MaxAsk : reply[c] = Done(m)
      BY <2>3, <3>1 DEF NoReply, NoScript
    <3>3. reply[c].allowed \in Nat
      BY <3>2, ServerConstants DEF Done
    <3>4. QED
      BY <2>1, <2>3, <3>3, ReturnTypes
  <2>4. QED
    BY <1>3, <2>2, <2>3 DEF Receive
<1>4. ASSUME NEW c \in Calls, Fail(c)
      PROVE  ClientTypes'
  <2> DEFINE a == call[c].attempt
             again == [a EXCEPT !.number = @ + 1]
             failures == call[c].failures + 1
  <2>1. /\ call[c].stage = "waiting" /\ call[c].request \in Requests
        /\ a \in Attempt /\ failures \in Nat /\ UNCHANGED <<scripts, charges>>
    BY <1>4, CallFacts DEF Fail
  <2>2. CASE a.number < MaxRetries /\ Send(c, call[c].request, again, failures)
    <3>1. a.number + 1 \in 0..MaxRetries
      BY <2>1, <2>2, RetriesAssumption DEF Attempt
    <3>2. again \in Attempt
      BY <2>1, <3>1 DEF Attempt
    <3>3. QED
      BY <2>1, <2>2, <3>2, SendTypes
  <2>3. CASE Return(c, FALSE, 0, failures)
    BY <2>1, <2>3, ReturnTypes
  <2>4. QED
    BY <1>4, <2>2, <2>3 DEF Fail
<1>5. ASSUME NEW c \in Calls, NEW a \in sent[c], RefuseUnknown(c, a)
      PROVE  ClientTypes'
  BY <1>5, AnsweredTypes DEF RefuseUnknown, ClientTypes
<1>6. ASSUME NEW c \in Calls, NEW a \in sent[c], RunScript(c, a)
      PROVE  ClientTypes'
  <2> DEFINE q == call[c].request
  <2>1. call[c].stage # "idle"
    BY DEF CallsSound, Sound, Counted
  <2>2. q \in Requests
    BY <2>1, CallFacts
  <2>3. /\ \/ Server!RunAllowN(q.key, q.limit, q.n)
           \/ Server!RunAllowAtMost(q.key, q.limit, q.n)
        /\ Answered(c, a, Done(answer'.allowed))
        /\ scripts' = scripts \cup {q.op}
        /\ \/ charges' = [charges EXCEPT ![c] = @ + 1]
           \/ charges' = charges
    BY <1>6 DEF RunScript
  <2>4. answer'.allowed \in 0..MaxAsk
    BY <2>2, <2>3, ServerAnswers
  <2>5. charges' \in [Calls -> Nat]
    BY <2>3 DEF ClientTypes
  <2>6. scripts' \subseteq Script
    <3>1. q.op # "reset"
      BY <1>6, <2>1 DEF RunScript, CommandsMatch, Matches
    <3>2. QED
      BY <2>2, <2>3, <3>1, RequestsAssumption DEF Request, ClientTypes
  <2>7. QED
    BY <2>3, <2>4, <2>5, <2>6, AnsweredTypes DEF ClientTypes
<1>7. ASSUME NEW c \in Calls, NEW a \in sent[c], RunDel(c, a)
      PROVE  ClientTypes'
  <2>1. 0 \in 0..MaxAsk
    BY ServerConstants
  <2>2. QED
    BY <1>7, <2>1, AnsweredTypes DEF RunDel, ClientTypes
<1>8. CASE Restart
  BY <1>8 DEF Restart, ClientTypes
<1>9. CASE UNCHANGED <<scripts, clientVars, charges>>
  BY <1>9 DEF clientVars, ClientTypes
<1>10. QED
  BY <1>2, <1>3, <1>4, <1>5, <1>6, <1>7, <1>8, <1>9 DEF Next, Execute, Tick, vars

LEMMA ServerTypesHold == Spec => []Server!TypeOK
<1>1. RL!Spec => []RL!TypeOK
  BY ServerConstants, RL!TypeCorrect
<1>2. RL!TypeOK => Server!TypeOK
  BY DEF RL!TypeOK, Server!TypeOK, RL!Entry, Server!Entry, RL!Answer, Server!Answer
<1>3. QED
  BY <1>1, <1>2, SameServer, ServerIsRateLimiter, PTL

(* Every variable, the server's and the client's, keeps its type: no call  *)
(* is attempted more often than MaxRetries allows or told of more events   *)
(* than it asked for.                                                      *)
THEOREM TypesHold == Spec => []TypeOK
<1>1. Server!TypeOK /\ ClientTypes => TypeOK
  BY DEF TypeOK, ClientTypes
<1>2. QED
  BY <1>1, ServerTypesHold, ClientTypesInit, ClientTypesStep,
     CommandsMatchStep, CallsAreSound, PTL DEF Spec

-----------------------------------------------------------------------------
(* Effects after the return.                                               *)

(* What Redis has yet to execute of a call acts after its return only if   *)
(* an attempt of the call failed, and nothing but that and a restart       *)
(* changes a key.                                                          *)
THEOREM LateEffectsFollowFailures == Spec => LateOnlyAfterFailure
<1> DEFINE Acts == \A k \in Keys :
                       store'[k] # store[k] => Restart \/ Accountable(k)
<1>1. ASSUME CallsSound, NEW c \in Calls, NEW a \in sent[c]
      PROVE  Accountable(call[c].request.key)
  BY <1>1 DEF CallsSound, Sound, Counted, Unfailed, Accountable
<1>2. ASSUME CallsSound, Server!TypeOK, NEW c \in Calls, NEW a \in sent[c],
             RunScript(c, a) \/ RunDel(c, a)
      PROVE  Acts
  <2>1. store \in [Keys -> Server!Entry]
    BY <1>2 DEF Server!TypeOK
  <2>2. \A k \in Keys : k # call[c].request.key => store'[k] = store[k]
    BY <1>2, <2>1 DEF RunScript, RunDel, Server!RunAllowN,
          Server!RunAllowAtMost, Server!Run, Server!Saved, Server!Reset
  <2>3. QED
    BY <1>1, <1>2, <2>2
<1>3. ASSUME CallsSound, Server!TypeOK, [Next]_vars
      PROVE  [Acts]_vars
  <2>1. ASSUME NEW c \in Calls, NEW a \in sent[c], RefuseUnknown(c, a)
        PROVE  store' = store
    BY <2>1 DEF RefuseUnknown, serverVars
  <2>2. ASSUME NEW c \in Calls,
               (\E q \in Requests : Begin(c, q)) \/ Receive(c) \/ Fail(c)
        PROVE  store' = store
    BY <2>2 DEF Begin, Receive, Fail, serverVars
  <2>3. Tick => store' = store
    BY DEF Tick, Server!Tick
  <2>4. QED
    BY <1>2, <1>3, <2>1, <2>2, <2>3 DEF Next, Execute
<1>4. QED
  BY <1>3, CallsAreSound, ServerTypesHold, PTL DEF Spec, LateOnlyAfterFailure

=============================================================================
