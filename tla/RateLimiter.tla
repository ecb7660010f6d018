---------------------------- MODULE RateLimiter -----------------------------
(***************************************************************************)
(* The rate limiter of service/limit.go as its users share it: one Redis   *)
(* holding a TAT per key, and AllowN, AllowAtMost and Reset acting on it.  *)
(* Redis runs a script as one atomic step; calls that are retried or lost  *)
(* on the way are RateLimiterClient's subject.                             *)
(***************************************************************************)
EXTENDS GCRA

CONSTANTS Keys,       \* the keys callers limit (redisPrefix is the same for all)
          Limits,     \* the limits callers pass; one key may see several
          MaxAsk,     \* bound: the most events one call asks for
          MaxOffset,  \* at least the burst offset of every limit
          MaxTime,    \* bound: the last tick of the clock
          NoAnswer    \* the value of answer before the first call

ASSUME LimitsAssumption ==
    /\ Limits \subseteq Limit
    /\ MaxOffset \in Nat
    /\ \A l \in Limits : BurstOffset(l) <= MaxOffset

ASSUME BoundsAssumption == MaxAsk \in Nat /\ MaxTime \in Nat

VARIABLES now,     \* Redis's clock, in ticks since the epoch the scripts subtract
          store,   \* store[k]: the string under "rate:" + k and when it expires
          answer,  \* the last call and its Allowed, since keys were forgotten
          window   \* history: what each key's callers were granted since "start"

vars == <<now, store, answer, window>>

Entry == [tat : Nat, expires : Int]

\* A key that is not there: no tick of the clock finds it alive.
NoEntry == [tat |-> 0, expires |-> -1]

Answer == [op : {"allowN", "allowAtMost"}, key : Keys, limit : Limits,
           asked : Nat, allowed : Nat]

TypeOK ==
    /\ now \in 0..MaxTime
    /\ store \in [Keys -> Entry]
    /\ answer \in Answer \cup {NoAnswer}
    /\ window \in [Keys -> [start : 0..MaxTime, spent : Nat]]

Init ==
    /\ now = 0
    /\ store = [k \in Keys |-> NoEntry]
    /\ answer = NoAnswer
    /\ window = [k \in Keys |-> [start |-> 0, spent |-> 0]]

-----------------------------------------------------------------------------
(* The scripts.  From(k, t) is their `tat' once max(tat, now) is taken, at *)
(* time t: GET answers nil once the key's expiry has passed.               *)

Alive(k, t) == t <= store[k].expires

\* Mutant: math.max(tat, now) is left out.
FromStale(k, t) == IF Alive(k, t) THEN store[k].tat ELSE t

From(k, t) == IF Alive(k, t) THEN Later(store[k].tat, t) ELSE t

\* SET key new_tat EX ceil(reset_after), only if reset_after > 0.
Saved(k, r) ==
    IF r.granted /\ r.resetAfter > 0
    THEN [store EXCEPT ![k] =
             [tat     |-> r.tat,
              expires |-> now + CeilSeconds(r.resetAfter)]]
    ELSE store

\* One run of a script, asked for n events, that replied r.
Run(op, k, l, n, r) ==
    /\ store' = Saved(k, r)
    /\ answer' = [op |-> op, key |-> k, limit |-> l, asked |-> n,
                  allowed |-> r.allowed]
    /\ window' = [window EXCEPT ![k].spent = @ + l.interval * r.allowed]
    /\ UNCHANGED now

RunAllowN(k, l, n) ==
    Run("allowN", k, l, n, AllowN(From(k, now), now, l, n))

RunAllowAtMost(k, l, n) ==
    Run("allowAtMost", k, l, n, AllowAtMost(From(k, now), now, l, n))

\* The window of the history starts again now, with nothing granted in it.
FreshWindow == [start |-> now, spent |-> 0]

\* DEL "rate:" + key.  What the key was granted before no longer counts.
Reset(k) ==
    /\ store' = [store EXCEPT ![k] = NoEntry]
    /\ window' = [window EXCEPT ![k] = FreshWindow]
    /\ answer' = NoAnswer
    /\ UNCHANGED now

\* Redis comes back without its data.
Lose ==
    /\ store' = [k \in Keys |-> NoEntry]
    /\ window' = [k \in Keys |-> FreshWindow]
    /\ answer' = NoAnswer
    /\ UNCHANGED now

Tick ==
    /\ now < MaxTime
    /\ now' = now + 1
    /\ UNCHANGED <<store, answer, window>>

\* The observer may start measuring a key at any moment: WindowBound is
\* about every interval of time, not only those that begin at the start.
Observe(k) ==
    /\ window' = [window EXCEPT ![k] = FreshWindow]
    /\ UNCHANGED <<now, store, answer>>

Next ==
    \/ \E k \in Keys, l \in Limits, n \in 0..MaxAsk :
          \/ RunAllowN(k, l, n)
          \/ RunAllowAtMost(k, l, n)
    \/ \E k \in Keys : Reset(k)
    \/ Lose
    \/ Tick
    \/ \E k \in Keys : Observe(k)

Spec == Init /\ [][Next]_vars

-----------------------------------------------------------------------------
(* Properties.                                                             *)

(* The limit itself: in every interval of time the events the callers of a *)
(* key were granted cost no more than the interval's length plus one full  *)
(* burst, whichever mix of AllowN, AllowAtMost and limits they used, and   *)
(* whatever Redis expired in between.                                      *)
WindowBound ==
    \A k \in Keys :
        window[k].spent <= (now - window[k].start) + MaxOffset

(* A stored TAT is never forgotten while it still lies ahead: the expiry   *)
(* given to SET, rounded to whole seconds, is not before the TAT.          *)
EntryOutlivesDebt ==
    \A k \in Keys : store[k].tat > now => store[k].tat <= store[k].expires

(* Result.RetryAfter: a call that was denied is permitted after exactly    *)
(* RetryAfter, and not a tick earlier, if nobody else uses the key.  Only  *)
(* for requests that can fit at all: AllowN of more than the burst fails   *)
(* for ever, whatever RetryAfter it is told (limit.go:51-65).              *)
PermittedExactlyAt(op(_, _, _, _), k, l, n) ==
    LET r == op(From(k, now), now, l, n)
    IN  ~r.granted =>
            \A t \in now..(now + r.retryAfter) :
                op(From(k, t), t, l, n).granted <=> t = now + r.retryAfter

RetryAfterExact ==
    \A k \in Keys, l \in Limits :
        /\ \A n \in 0..l.burst : PermittedExactlyAt(AllowN, k, l, n)
        /\ l.burst > 0 =>
               \A n \in 1..MaxAsk : PermittedExactlyAt(AllowAtMost, k, l, n)

(* Result.Remaining after a granted call: that many events more would be   *)
(* permitted at once for the key, and not one more.                        *)
RemainingIsCapacity(r, l) ==
    /\ AllowN(r.tat, now, l, r.remaining).granted
    /\ ~AllowN(r.tat, now, l, r.remaining + 1).granted

RemainingExact ==
    \A k \in Keys, l \in Limits, n \in 0..MaxAsk :
        \A r \in {AllowN(From(k, now), now, l, n),
                  AllowAtMost(From(k, now), now, l, n)} :
            r.granted => RemainingIsCapacity(r, l)

-----------------------------------------------------------------------------
(* The limiter is a leaky bucket: the debt of a key is how far its TAT     *)
(* lies ahead of the clock.                                                *)

Debt == [k \in Keys |-> From(k, now) - now]

Bucket == INSTANCE LeakyBucket WITH debt <- Debt

(* Every call answers as the leaky bucket would: AllowN all or nothing,    *)
(* AllowAtMost as much as fits.  A key is forgotten only by Reset or by    *)
(* Redis losing its data, never because it expired.                        *)
ImplementsLeakyBucket == Bucket!Spec

-----------------------------------------------------------------------------
(* What a doc comment of Result says without reservation, and the code     *)
(* does not do.                                                            *)

(* "Remaining is the maximum number of requests that could be permitted    *)
(* instantaneously for this key given the current state": in every reply,  *)
(* that of a denied request included, even one no larger than the burst.   *)
RemainingAlwaysExact ==
    \A k \in Keys, l \in Limits : \A n \in 0..l.burst :
        LET r == AllowN(From(k, now), now, l, n)
        IN  r.tat - now <= BurstOffset(l) => RemainingIsCapacity(r, l)

=============================================================================
