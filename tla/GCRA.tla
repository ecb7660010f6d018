-------------------------------- MODULE GCRA --------------------------------
(***************************************************************************)
(* The two Lua scripts of the rate limiter as pure operators: what one     *)
(* call decides from the stored theoretical arrival time (TAT), the        *)
(* clock, the limit and the number of events asked for.                    *)
(*                                                                         *)
(* Time is counted in whole ticks, TicksPerSecond of them in a second, the *)
(* tick so fine that every emission interval is whole.  The scripts work   *)
(* in double-precision seconds; their rounding error is not modelled.      *)
(***************************************************************************)
EXTENDS Integers

CONSTANT TicksPerSecond

ASSUME TicksAssumption == TicksPerSecond \in Nat \ {0}

-----------------------------------------------------------------------------
(* Limits.  A Go Limit{Rate, Burst, Period} is kept as the pair the        *)
(* scripts derive from it: interval = period / rate, and burst.            *)

Limit == [interval : Nat \ {0}, burst : Nat]

PerPeriod(rate, seconds) ==
    [interval |-> (seconds * TicksPerSecond) \div rate, burst |-> rate]

PerSecond(rate) == PerPeriod(rate, 1)
PerMinute(rate) == PerPeriod(rate, 60)
PerHour(rate)   == PerPeriod(rate, 3600)

BurstOffset(l) == l.interval * l.burst

Later(a, b) == IF a >= b THEN a ELSE b

\* Mutant: the expiry is cut to whole seconds.
FloorSeconds(d) == TicksPerSecond * (d \div TicksPerSecond)

\* math.ceil(reset_after): the whole seconds given to SET ... EX, in ticks.
CeilSeconds(d) ==
    TicksPerSecond * ((d + TicksPerSecond - 1) \div TicksPerSecond)

-----------------------------------------------------------------------------
(* A script's reply.  "granted" tells the two return statements apart; the *)
(* other four fields are the array the script returns, the numbers cut to  *)
(* integers by Redis.  "tat" is the TAT the script leaves behind.          *)

NoRetry == -1

Reply == [granted    : BOOLEAN,
          allowed    : Nat,
          remaining  : Nat,
          retryAfter : Int,
          resetAfter : Nat,
          tat        : Nat]

Granted(m, remaining, tat, now) ==
    [granted    |-> TRUE,
     allowed    |-> m,
     remaining  |-> remaining,
     retryAfter |-> NoRetry,
     resetAfter |-> tat - now,
     tat        |-> tat]

Denied(retryAfter, tat, now) ==
    [granted    |-> FALSE,
     allowed    |-> 0,
     remaining  |-> 0,
     retryAfter |-> retryAfter,
     resetAfter |-> tat - now,
     tat        |-> tat]

\* Mutant: room is looked for before the events are added.
AllowNCheckedFirst(from, now, l, n) ==
    LET newTat == from + l.interval * n
        diff   == now - (from - BurstOffset(l))
    IN  IF diff < 0
        THEN Denied(-diff, from, now)
        ELSE Granted(n, Later(0, now - newTat + BurstOffset(l)) \div l.interval,
                     newTat, now)

\* Mutant: the last event of a burst is refused.
AllowNStrict(from, now, l, n) ==
    LET newTat == from + l.interval * n
        diff   == now - (newTat - BurstOffset(l))
    IN  IF diff <= 0
        THEN Denied(-diff, from, now)
        ELSE Granted(n, diff \div l.interval, newTat, now)

\* Mutant: retry_after is computed as in the other script.
AllowNRetriesLikeAtMost(from, now, l, n) ==
    LET newTat == from + l.interval * n
        diff   == now - (newTat - BurstOffset(l))
    IN  IF diff < 0
        THEN Denied(l.interval - diff, from, now)
        ELSE Granted(n, diff \div l.interval, newTat, now)

(* allowN: all n events or none.  `from' is math.max(tat, now).            *)
AllowN(from, now, l, n) ==
    LET newTat == from + l.interval * n
        diff   == now - (newTat - BurstOffset(l))
    IN  IF diff < 0
        THEN Denied(-diff, from, now)
        ELSE Granted(n, diff \div l.interval, newTat, now)

\* Mutant: nothing is denied, not even when less than one event fits.
AllowAtMostUnchecked(from, now, l, n) ==
    LET diff == now - (from - BurstOffset(l))
    IN  IF diff < l.interval * n
        THEN Granted(diff \div l.interval, 0, from + diff, now)
        ELSE Granted(n, (diff - l.interval * n) \div l.interval,
                     from + l.interval * n, now)

\* Mutant: remaining is what was there before the call.
AllowAtMostKeepsRemaining(from, now, l, n) ==
    LET diff == now - (from - BurstOffset(l))
    IN  IF diff < l.interval
        THEN Denied(l.interval - diff, from, now)
        ELSE IF diff < l.interval * n
        THEN Granted(diff \div l.interval, 0, from + diff, now)
        ELSE Granted(n, diff \div l.interval, from + l.interval * n, now)

(* allowAtMost: as many of the n events as fit.  When fewer than n fit,    *)
(* cost = remaining, a fraction: the script charges the whole of diff but  *)
(* the integer it returns is cut.                                          *)
AllowAtMost(from, now, l, n) ==
    LET diff == now - (from - BurstOffset(l))
    IN  IF diff < l.interval
        THEN Denied(l.interval - diff, from, now)
        ELSE IF diff < l.interval * n
        THEN Granted(diff \div l.interval, 0, from + diff, now)
        ELSE Granted(n, (diff - l.interval * n) \div l.interval,
                     from + l.interval * n, now)

=============================================================================
