---------------------------- MODULE LeakyBucket -----------------------------
(***************************************************************************)
(* What the rate limiter promises, with no clock, no stored timestamps and *)
(* no expiring keys: each key is a bucket whose debt drains by one per     *)
(* tick.  A request for n events of limit l costs l.interval per event and *)
(* is admitted only if the debt afterwards is at most the limit's burst.   *)
(***************************************************************************)
EXTENDS Integers

CONSTANTS Keys,     \* the rate-limited keys
          Limits,   \* the limits callers pass, records [interval, burst]
          MaxAsk,   \* bound: the most events one call asks for
          NoAnswer  \* the value of answer before the first call

VARIABLES debt,     \* debt[k]: ticks until key k is back to its initial state
          answer    \* the last call and what it was told, since keys were forgotten

vars == <<debt, answer>>

Capacity(l) == l.interval * l.burst

Cost(l, m) == l.interval * m

Fits(k, l, m) == debt[k] + Cost(l, m) <= Capacity(l)

Told(op, k, l, n, m) ==
    [op |-> op, key |-> k, limit |-> l, asked |-> n, allowed |-> m]

Init ==
    /\ debt = [k \in Keys |-> 0]
    /\ answer = NoAnswer

\* All n events are admitted and paid for exactly, or none is.
AllOrNone(k, l, n) ==
    LET m == IF Fits(k, l, n) THEN n ELSE 0
    IN  /\ debt' = [debt EXCEPT ![k] = @ + Cost(l, m)]
        /\ answer' = Told("allowN", k, l, n, m)

(* The most events, up to n, that fit.  A caller that gets some, but fewer *)
(* than it asked for, may also lose the fraction of an event left in the   *)
(* bucket, never more than that and never past the capacity.               *)
AsManyAsFit(k, l, n) ==
    \E m \in 0..n, waste \in 0..(l.interval - 1) :
        /\ m > 0 => debt[k] + Cost(l, m) + waste <= Capacity(l)
        /\ m < n => ~Fits(k, l, m + 1)
        /\ m \in {0, n} => waste = 0
        /\ debt' = [debt EXCEPT ![k] = @ + Cost(l, m) + waste]
        /\ answer' = Told("allowAtMost", k, l, n, m)

\* One tick passes.
Drain ==
    /\ debt' = [k \in Keys |-> IF debt[k] > 0 THEN debt[k] - 1 ELSE 0]
    /\ UNCHANGED answer

\* Some keys are forgotten: a Reset, or Redis losing its data.
Forget(ks) ==
    /\ debt' = [k \in Keys |-> IF k \in ks THEN 0 ELSE debt[k]]
    /\ answer' = NoAnswer

Next ==
    \/ \E k \in Keys, l \in Limits, n \in 0..MaxAsk :
          \/ AllOrNone(k, l, n)
          \/ AsManyAsFit(k, l, n)
    \/ Drain
    \/ \E ks \in SUBSET Keys : Forget(ks)

Spec == Init /\ [][Next]_vars

=============================================================================
