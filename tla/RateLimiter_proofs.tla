------------------------- MODULE RateLimiter_proofs -------------------------
(***************************************************************************)
(* What the two scripts guarantee for every clock, TAT, limit and request; *)
(* the rate limiter's invariants, the truth of what its replies say of     *)
(* other calls, and its implementation of the leaky bucket, for every set  *)
(* of keys, limits and bounds.                                             *)
(***************************************************************************)
EXTENDS RateLimiter, TLAPS

-----------------------------------------------------------------------------
(* The scripts.                                                            *)

(* Integer division: q = a \div i is the most intervals of length i that   *)
(* fit into a.                                                             *)
LEMMA QuotientFits ==
    ASSUME NEW a \in Nat, NEW i \in Nat \ {0}
    PROVE  /\ a \div i \in Nat
           /\ i * (a \div i) <= a
           /\ a < i * ((a \div i) + 1)
  OBVIOUS

\* Products of naturals are naturals, and multiplication is monotone.
LEMMA ProductNat ==
    ASSUME NEW i \in Nat, NEW m \in Nat
    PROVE  i * m \in Nat
  OBVIOUS

LEMMA ProductMonotone ==
    ASSUME NEW i \in Nat, NEW m \in Nat, NEW n \in Nat, m <= n
    PROVE  i * m <= i * n
  OBVIOUS

LEMMA ProductSuccessor ==
    ASSUME NEW i \in Nat, NEW m \in Nat
    PROVE  i * (m + 1) = i * m + i
  OBVIOUS

\* The expiry in whole seconds is never short of the time it stands for.
LEMMA CeilSecondsCovers ==
    ASSUME NEW d \in Nat
    PROVE  /\ CeilSeconds(d) \in Nat
           /\ CeilSeconds(d) >= d
<1> DEFINE top == d + TicksPerSecond - 1
           q   == top \div TicksPerSecond
<1>1. top \in Nat
  BY TicksAssumption
<1>2. /\ q \in Nat
      /\ top < TicksPerSecond * (q + 1)
  BY <1>1, TicksAssumption, QuotientFits
<1>3. TicksPerSecond * (q + 1) = TicksPerSecond * q + TicksPerSecond
  BY <1>2, TicksAssumption, ProductSuccessor
<1>4. TicksPerSecond * q \in Nat
  BY <1>2, TicksAssumption, ProductNat
<1> HIDE DEF q
<1>5. TicksPerSecond * q >= d
  BY <1>2, <1>3, <1>4, TicksAssumption
<1>6. QED
  BY <1>4, <1>5 DEF CeilSeconds, q

-----------------------------------------------------------------------------
(* A reply r, given at time t from the TAT `from', is honest when what it  *)
(* grants is paid for in full, no grant leaves the TAT more than a burst   *)
(* ahead, and a denial changes nothing.                                    *)
Honest(r, from, t, l) ==
    /\ r \in Reply
    /\ r.tat >= from
    /\ r.resetAfter = r.tat - t
    /\ l.interval * r.allowed <= r.tat - from
    /\ r.granted => r.tat <= t + BurstOffset(l)
    /\ ~r.granted => r.tat = from /\ r.allowed = 0

(* AllowN is honest: its one addition to the TAT pays for all n events.    *)
THEOREM AllowNHonest ==
    ASSUME NEW t \in Nat, NEW from \in Nat, from >= t,
           NEW l \in Limit, NEW n \in Nat
    PROVE  Honest(AllowN(from, t, l, n), from, t, l)
<1> DEFINE newTat == from + l.interval * n
           diff   == t - (newTat - BurstOffset(l))
           r      == AllowN(from, t, l, n)
<1>1. l.interval \in Nat \ {0} /\ l.burst \in Nat
  BY DEF Limit
<1>2. l.interval * n \in Nat /\ l.interval * 0 = 0 /\ BurstOffset(l) \in Nat
  BY <1>1, ProductNat DEF BurstOffset
<1>3. newTat \in Nat /\ newTat >= from /\ diff \in Int
  BY <1>2
<1>4. CASE diff < 0
  <2>1. r = Denied(-diff, from, t)
    BY <1>4 DEF AllowN
  <2>2. QED
    BY <2>1, <1>2, <1>3 DEF Honest, Denied, Reply
<1>5. CASE ~(diff < 0)
  <2>1. r = Granted(n, diff \div l.interval, newTat, t)
    BY <1>5 DEF AllowN
  <2>2. diff \in Nat
    BY <1>3, <1>5
  <2>3. diff \div l.interval \in Nat
    BY <2>2, <1>1, QuotientFits
  <2>4. r \in Reply
    BY <2>1, <2>3, <1>3 DEF Granted, Reply, NoRetry
  <2>5. QED
    BY <2>1, <2>2, <2>4, <1>2, <1>3 DEF Honest, Granted
<1>6. QED
  BY <1>4, <1>5

(* AllowAtMost is honest: even when it returns the integer part of what is *)
(* left, it charges at least that.                                         *)
THEOREM AllowAtMostHonest ==
    ASSUME NEW t \in Nat, NEW from \in Nat, from >= t,
           NEW l \in Limit, NEW n \in Nat
    PROVE  Honest(AllowAtMost(from, t, l, n), from, t, l)
<1> DEFINE diff == t - (from - BurstOffset(l))
           cost == l.interval * n
           r    == AllowAtMost(from, t, l, n)
<1>1. l.interval \in Nat \ {0} /\ l.burst \in Nat
  BY DEF Limit
<1>2. cost \in Nat /\ l.interval * 0 = 0 /\ BurstOffset(l) \in Nat /\ diff \in Int
  BY <1>1, ProductNat DEF BurstOffset
<1>3. CASE diff < l.interval
  <2>1. r = Denied(l.interval - diff, from, t)
    BY <1>3 DEF AllowAtMost
  <2>2. QED
    BY <2>1, <1>1, <1>2 DEF Honest, Denied, Reply
<1>4. CASE ~(diff < l.interval) /\ diff < cost
  <2>1. r = Granted(diff \div l.interval, 0, from + diff, t)
    BY <1>4 DEF AllowAtMost
  <2>2. diff \in Nat
    BY <1>1, <1>2, <1>4
  <2>3. diff \div l.interval \in Nat /\ l.interval * (diff \div l.interval) <= diff
    BY <2>2, <1>1, QuotientFits
  <2>4. from + diff = t + BurstOffset(l) /\ from + diff \in Nat /\ from + diff - t \in Nat
    BY <1>2, <2>2
  <2> HIDE DEF diff
  <2>5. r \in Reply
    BY <2>1, <2>2, <2>3, <2>4 DEF Granted, Reply, NoRetry
  <2>6. QED
    BY <2>1, <2>2, <2>3, <2>4, <2>5, <1>2 DEF Honest, Granted
<1>5. CASE ~(diff < l.interval) /\ ~(diff < cost)
  <2>1. r = Granted(n, (diff - cost) \div l.interval, from + cost, t)
    BY <1>5 DEF AllowAtMost
  <2>2. diff - cost \in Nat
    BY <1>2, <1>5
  <2>3. (diff - cost) \div l.interval \in Nat
    BY <2>2, <1>1, QuotientFits
  <2>4. r \in Reply
    BY <2>1, <2>3, <1>2 DEF Granted, Reply, NoRetry
  <2>5. QED
    BY <2>1, <2>2, <2>4, <1>2 DEF Honest, Granted
<1>6. QED
  BY <1>3, <1>4, <1>5

-----------------------------------------------------------------------------
(* No call is allowed more than it asks for, and AllowAtMost is allowed    *)
(* less than that only in whole events.                                    *)
LEMMA AllowedWithinAsked ==
    \A t \in Nat, from \in Nat, l \in Limit, n \in Nat :
        /\ AllowN(from, t, l, n).allowed \in 0..n
        /\ AllowAtMost(from, t, l, n).allowed \in 0..n
<1> SUFFICES ASSUME NEW t \in Nat, NEW from \in Nat, NEW l \in Limit, NEW n \in Nat
             PROVE  /\ AllowN(from, t, l, n).allowed \in 0..n
                    /\ AllowAtMost(from, t, l, n).allowed \in 0..n
  OBVIOUS
<1> DEFINE diff == t - (from - BurstOffset(l))
           q    == diff \div l.interval
<1>1. l.interval \in Nat \ {0} /\ l.burst \in Nat
  BY DEF Limit
<1>2. l.interval * n \in Nat /\ BurstOffset(l) \in Nat /\ diff \in Int
  BY <1>1, ProductNat DEF BurstOffset
<1>3. AllowN(from, t, l, n).allowed \in {0, n}
  BY DEF AllowN, Denied, Granted
<1>4. ASSUME ~(diff < l.interval), diff < l.interval * n
      PROVE  q \in 0..n
  <2>1. diff \in Nat
    BY <1>1, <1>2, <1>4
  <2>2. q \in Nat /\ l.interval * q <= diff
    BY <1>1, <2>1, QuotientFits
  <2> HIDE DEF q, diff
  <2>3. n <= q => l.interval * n <= l.interval * q
    BY <1>1, <2>2, ProductMonotone
  <2>4. l.interval * q \in Nat
    BY <1>1, <2>2, ProductNat
  <2>5. QED
    BY <1>2, <1>4, <2>2, <2>3, <2>4
<1>5. AllowAtMost(from, t, l, n).allowed \in 0..n
  <2>1. CASE diff < l.interval
    BY <2>1 DEF AllowAtMost, Denied
  <2>2. CASE ~(diff < l.interval) /\ diff < l.interval * n
    BY <1>4, <2>2 DEF AllowAtMost, Granted
  <2>3. CASE ~(diff < l.interval) /\ ~(diff < l.interval * n)
    BY <2>3 DEF AllowAtMost, Granted
  <2>4. QED
    BY <2>1, <2>2, <2>3
<1>6. QED
  BY <1>3, <1>5

-----------------------------------------------------------------------------

(* The inductive invariant.  TATs never lie more than the largest burst    *)
(* ahead, an entry outlives its debt, and the grants of a window are all   *)
(* paid for by the distance from its start to the TAT.                     *)
TatBounded == \A k \in Keys : store[k].tat <= now + MaxOffset

WindowPaid ==
    \A k \in Keys :
        /\ window[k].start <= now
        /\ window[k].spent <= Later(store[k].tat, now) - window[k].start

IInv ==
    /\ TypeOK
    /\ EntryOutlivesDebt
    /\ TatBounded
    /\ WindowPaid

-----------------------------------------------------------------------------
(* While an entry outlives its debt, losing it to its expiry is invisible: *)
(* scripts always start from max(tat, now).                                *)
LEMMA FromIsLater ==
    ASSUME TypeOK, EntryOutlivesDebt, NEW k \in Keys
    PROVE  /\ From(k, now) = Later(store[k].tat, now)
           /\ From(k, now) \in Nat
           /\ From(k, now) >= now
           /\ From(k, now) >= store[k].tat
<1>1. now \in Nat /\ store[k].tat \in Nat /\ store[k].expires \in Int
  BY BoundsAssumption DEF TypeOK, Entry
<1>2. store[k].tat > now => store[k].tat <= store[k].expires
  BY DEF EntryOutlivesDebt
<1>3. QED
  BY <1>1, <1>2 DEF From, Alive, Later

LEMMA LimitFacts ==
    ASSUME NEW l \in Limits
    PROVE  /\ l \in Limit
           /\ l.interval \in Nat \ {0}
           /\ l.burst \in Nat
           /\ BurstOffset(l) \in Nat
           /\ BurstOffset(l) <= MaxOffset
<1>1. l \in Limit
  BY LimitsAssumption
<1>2. l.interval \in Nat \ {0} /\ l.burst \in Nat
  BY <1>1 DEF Limit
<1>3. QED
  BY <1>1, <1>2, LimitsAssumption, ProductNat DEF BurstOffset

(* A script run with an honest reply preserves the invariant.              *)
LEMMA RunPreserves ==
    ASSUME IInv, NEW op \in {"allowN", "allowAtMost"},
           NEW k \in Keys, NEW l \in Limits, NEW n \in Nat, NEW r,
           Honest(r, From(k, now), now, l),
           Run(op, k, l, n, r)
    PROVE  IInv'
<1> DEFINE from == From(k, now)
           paid == l.interval * r.allowed
<1>1. /\ now \in 0..MaxTime /\ now \in Nat /\ now' = now
      /\ store \in [Keys -> Entry]
      /\ window \in [Keys -> [start : 0..MaxTime, spent : Nat]]
  BY BoundsAssumption DEF IInv, TypeOK, Run
<1>2. /\ from = Later(store[k].tat, now) /\ from \in Nat
      /\ from >= now /\ from >= store[k].tat
  BY FromIsLater DEF IInv
<1>3. /\ r.granted \in BOOLEAN /\ r.allowed \in Nat /\ r.tat \in Nat
      /\ r.resetAfter \in Nat
      /\ r.tat >= from /\ r.resetAfter = r.tat - now
      /\ paid <= r.tat - from
      /\ r.granted => r.tat <= now + BurstOffset(l)
      /\ ~r.granted => r.tat = from /\ r.allowed = 0
  BY DEF Honest, Reply
<1>4. /\ l.interval \in Nat /\ BurstOffset(l) \in Nat /\ MaxOffset \in Nat
      /\ BurstOffset(l) <= MaxOffset
  BY LimitFacts, LimitsAssumption
<1>5. paid \in Nat
  BY <1>3, <1>4, ProductNat
<1> DEFINE ttl == CeilSeconds(r.resetAfter)
<1>6. ttl \in Nat /\ ttl >= r.resetAfter
  BY <1>3, CeilSecondsCovers
<1>7. /\ store' \in [Keys -> Entry]
      /\ \A j \in Keys \ {k} : store'[j] = store[j]
  BY <1>1, <1>3, <1>6 DEF Run, Saved, Entry
<1>8. /\ window' \in [Keys -> [start : 0..MaxTime, spent : Nat]]
      /\ \A j \in Keys \ {k} : window'[j] = window[j]
      /\ window'[k].start = window[k].start
      /\ window'[k].spent = window[k].spent + paid
  BY <1>1, <1>5 DEF Run
<1> HIDE DEF from, paid, ttl
<1>9. answer' \in Answer \cup {NoAnswer}
  BY <1>3 DEF Run, Answer
<1>10. /\ store'[k].tat <= now + MaxOffset
       /\ store'[k].tat > now => store'[k].tat <= store'[k].expires
       /\ Later(store'[k].tat, now) >= from + paid
  <2>1. CASE r.granted /\ r.resetAfter > 0
    <3>1. store'[k].tat = r.tat /\ store'[k].expires = now + ttl
      BY <2>1, <1>1 DEF Run, Saved, ttl
    <3>2. QED
      BY <2>1, <3>1, <1>1, <1>2, <1>3, <1>4, <1>5, <1>6 DEF Later
  <2>2. CASE ~(r.granted /\ r.resetAfter > 0)
    <3>1. store' = store
      BY <2>2 DEF Run, Saved
    <3>2. store[k].tat \in Nat
      BY <1>1 DEF Entry
    <3>3. r.tat = from
      BY <2>2, <1>1, <1>2, <1>3
    <3>4. paid = 0
      BY <3>3, <1>2, <1>3, <1>5
    <3>5. Later(store[k].tat, now) >= from
      BY <1>1, <1>2, <3>2 DEF Later
    <3>6. QED
      BY <3>1, <3>4, <3>5, <1>2 DEF IInv, TatBounded, EntryOutlivesDebt
  <2>3. QED
    BY <2>1, <2>2
<1>11. TypeOK'
  BY <1>1, <1>7, <1>8, <1>9 DEF TypeOK
<1>12. EntryOutlivesDebt'
  BY <1>1, <1>7, <1>10 DEF IInv, EntryOutlivesDebt
<1>13. TatBounded'
  BY <1>1, <1>7, <1>10 DEF IInv, TatBounded
<1>14. WindowPaid'
  <2> SUFFICES ASSUME NEW j \in Keys
               PROVE  /\ window'[j].start <= now
                      /\ window'[j].spent <=
                             Later(store'[j].tat, now) - window'[j].start
    BY <1>1 DEF WindowPaid, Later
  <2>1. /\ window[j].start <= now
        /\ window[j].spent <= Later(store[j].tat, now) - window[j].start
    BY DEF IInv, WindowPaid
  <2>2. CASE j # k
    BY <2>1, <2>2, <1>7, <1>8
  <2>3. CASE j = k
    <3>1. window[k].start \in Nat /\ window[k].spent \in Nat /\ store'[k].tat \in Nat
      BY <1>1, <1>7, BoundsAssumption DEF Entry
    <3>2. Later(store'[k].tat, now) \in Int
      BY <3>1, <1>1 DEF Later
    <3>3. QED
      BY <2>1, <2>3, <3>1, <3>2, <1>1, <1>2, <1>5, <1>8, <1>10
  <2>4. QED
    BY <2>2, <2>3
<1>15. QED
  BY <1>11, <1>12, <1>13, <1>14 DEF IInv

\* Forgetting keys, with their windows started afresh, preserves it too.
LEMMA ForgetPreserves ==
    ASSUME IInv, NEW ks \in SUBSET Keys,
           store' = [k \in Keys |-> IF k \in ks THEN NoEntry ELSE store[k]],
           window' = [k \in Keys |-> IF k \in ks THEN FreshWindow ELSE window[k]],
           answer' = NoAnswer,
           UNCHANGED now
    PROVE  IInv'
<1>1. /\ now \in 0..MaxTime /\ now \in Nat /\ MaxOffset \in Nat
      /\ store \in [Keys -> Entry]
      /\ window \in [Keys -> [start : 0..MaxTime, spent : Nat]]
  BY BoundsAssumption, LimitsAssumption DEF IInv, TypeOK
<1>2. NoEntry \in Entry /\ NoEntry.tat = 0
  BY DEF NoEntry, Entry
<1>3. /\ FreshWindow \in [start : 0..MaxTime, spent : Nat]
      /\ FreshWindow.start = now /\ FreshWindow.spent = 0
  BY <1>1 DEF FreshWindow
<1>4. TypeOK'
  BY <1>1, <1>2, <1>3 DEF IInv, TypeOK
<1>5. EntryOutlivesDebt' /\ TatBounded'
  BY <1>1, <1>2 DEF IInv, EntryOutlivesDebt, TatBounded
<1>6. WindowPaid'
  <2> SUFFICES ASSUME NEW j \in Keys
               PROVE  /\ window'[j].start <= now
                      /\ window'[j].spent <=
                             Later(store'[j].tat, now) - window'[j].start
    BY <1>1 DEF WindowPaid, Later
  <2>1. CASE j \in ks
    BY <2>1, <1>1, <1>2, <1>3 DEF Later
  <2>2. CASE j \notin ks
    BY <2>2 DEF IInv, WindowPaid
  <2>3. QED
    BY <2>1, <2>2
<1>7. QED
  BY <1>4, <1>5, <1>6 DEF IInv

LEMMA IInvInit == Init => IInv
<1> SUFFICES ASSUME Init PROVE IInv
  OBVIOUS
<1>1. TypeOK
  BY BoundsAssumption DEF Init, TypeOK, NoEntry, Entry
<1>2. EntryOutlivesDebt /\ TatBounded /\ WindowPaid
  BY LimitsAssumption
     DEF Init, NoEntry, EntryOutlivesDebt, TatBounded, WindowPaid, Later
<1>3. QED
  BY <1>1, <1>2 DEF IInv

LEMMA IInvStep == IInv /\ [Next]_vars => IInv'
<1> SUFFICES ASSUME IInv, [Next]_vars PROVE IInv'
  OBVIOUS
<1>1. /\ now \in 0..MaxTime /\ now \in Nat
      /\ store \in [Keys -> Entry]
      /\ window \in [Keys -> [start : 0..MaxTime, spent : Nat]]
  BY BoundsAssumption DEF IInv, TypeOK
<1>2. ASSUME NEW k \in Keys, NEW l \in Limits, NEW n \in 0..MaxAsk,
             RunAllowN(k, l, n)
      PROVE  IInv'
  <2>1. From(k, now) \in Nat /\ From(k, now) >= now
    BY FromIsLater DEF IInv
  <2>2. l \in Limit /\ n \in Nat
    BY LimitFacts, BoundsAssumption
  <2>3. Honest(AllowN(From(k, now), now, l, n), From(k, now), now, l)
    BY <2>1, <2>2, <1>1, AllowNHonest
  <2>4. QED
    BY <1>2, <2>2, <2>3, RunPreserves DEF RunAllowN
<1>3. ASSUME NEW k \in Keys, NEW l \in Limits, NEW n \in 0..MaxAsk,
             RunAllowAtMost(k, l, n)
      PROVE  IInv'
  <2>1. From(k, now) \in Nat /\ From(k, now) >= now
    BY FromIsLater DEF IInv
  <2>2. l \in Limit /\ n \in Nat
    BY LimitFacts, BoundsAssumption
  <2>3. Honest(AllowAtMost(From(k, now), now, l, n), From(k, now), now, l)
    BY <2>1, <2>2, <1>1, AllowAtMostHonest
  <2>4. QED
    BY <1>3, <2>2, <2>3, RunPreserves DEF RunAllowAtMost
<1>4. ASSUME NEW k \in Keys, Reset(k)
      PROVE  IInv'
  <2>1. store' = [j \in Keys |-> IF j \in {k} THEN NoEntry ELSE store[j]]
    BY <1>1, <1>4 DEF Reset
  <2>2. window' = [j \in Keys |-> IF j \in {k} THEN FreshWindow ELSE window[j]]
    BY <1>1, <1>4 DEF Reset
  <2>3. QED
    BY ZenonT(40), <2>1, <2>2, <1>4, ForgetPreserves DEF Reset
<1>5. ASSUME Lose
      PROVE  IInv'
  <2>1. store' = [j \in Keys |-> IF j \in Keys THEN NoEntry ELSE store[j]]
    BY <1>5 DEF Lose
  <2>2. window' = [j \in Keys |-> IF j \in Keys THEN FreshWindow ELSE window[j]]
    BY <1>5 DEF Lose
  <2>3. QED
    BY <2>1, <2>2, <1>5, ForgetPreserves DEF Lose
<1>6. ASSUME Tick
      PROVE  IInv'
  <2>1. /\ now' = now + 1 /\ now' \in 0..MaxTime
        /\ UNCHANGED <<store, answer, window>>
    BY <1>1, <1>6, BoundsAssumption DEF Tick
  <2>2. TypeOK'
    BY <2>1 DEF IInv, TypeOK
  <2>3. ASSUME NEW k \in Keys
        PROVE  /\ store[k].tat > now + 1 => store[k].tat <= store[k].expires
               /\ store[k].tat <= now + 1 + MaxOffset
               /\ window[k].start <= now + 1
               /\ window[k].spent <=
                      Later(store[k].tat, now + 1) - window[k].start
    <3>1. /\ store[k].tat \in Nat /\ store[k].expires \in Int
          /\ window[k].start \in Nat /\ window[k].spent \in Nat
      BY <1>1, BoundsAssumption DEF Entry
    <3>2. QED
      BY <3>1, <1>1, LimitsAssumption
         DEF IInv, EntryOutlivesDebt, TatBounded, WindowPaid, Later
  <2>4. QED
    BY <2>1, <2>2, <2>3 DEF IInv, EntryOutlivesDebt, TatBounded, WindowPaid, Later
<1>7. ASSUME NEW k \in Keys, Observe(k)
      PROVE  IInv'
  <2>1. /\ window' = [j \in Keys |-> IF j = k THEN FreshWindow ELSE window[j]]
        /\ UNCHANGED <<now, store, answer>>
    BY <1>1, <1>7 DEF Observe
  <2>2. FreshWindow \in [start : 0..MaxTime, spent : Nat]
    BY <1>1 DEF FreshWindow
  <2>3. TypeOK'
    BY <2>1, <2>2, <1>1 DEF IInv, TypeOK
  <2>4. WindowPaid'
    <3> SUFFICES ASSUME NEW j \in Keys
                 PROVE  /\ window'[j].start <= now
                        /\ window'[j].spent <=
                               Later(store[j].tat, now) - window'[j].start
      BY <2>1 DEF WindowPaid, Later
    <3>1. store[j].tat \in Nat
      BY <1>1 DEF Entry
    <3>2. CASE j = k
      BY <3>1, <3>2, <2>1, <1>1 DEF FreshWindow, Later
    <3>3. CASE j # k
      BY <3>3, <2>1 DEF IInv, WindowPaid
    <3>4. QED
      BY <3>2, <3>3
  <2>5. QED
    BY <2>1, <2>3, <2>4 DEF IInv, EntryOutlivesDebt, TatBounded
<1>8. ASSUME UNCHANGED vars
      PROVE  IInv'
  BY <1>8 DEF vars, IInv, TypeOK, EntryOutlivesDebt, TatBounded, WindowPaid, Later
<1>9. QED
  BY <1>2, <1>3, <1>4, <1>5, <1>6, <1>7, <1>8 DEF Next

(* Every reachable state of the limiter satisfies the inductive invariant. *)
THEOREM Invariance == Spec => []IInv
<1>1. QED
  BY IInvInit, IInvStep, PTL DEF Spec

(* The limiter's variables keep their types.                               *)
THEOREM TypeCorrect == Spec => []TypeOK
<1>1. IInv => TypeOK
  BY DEF IInv
<1>2. QED
  BY <1>1, Invariance, PTL

(* A TAT ahead of the clock is never lost to the expiry of its key.        *)
THEOREM EntriesOutliveDebt == Spec => []EntryOutlivesDebt
<1>1. IInv => EntryOutlivesDebt
  BY DEF IInv
<1>2. QED
  BY <1>1, Invariance, PTL

(* The rate limit: whatever the calls, in every interval of time a key's   *)
(* grants cost at most the length of the interval plus the largest burst.  *)
THEOREM RateLimited == Spec => []WindowBound
<1>1. IInv => WindowBound
  <2> SUFFICES ASSUME IInv, NEW k \in Keys
               PROVE  window[k].spent <= (now - window[k].start) + MaxOffset
    BY DEF WindowBound
  <2>1. /\ now \in Nat /\ store[k].tat \in Nat /\ MaxOffset \in Nat
        /\ window[k].start \in Nat /\ window[k].spent \in Nat
    BY BoundsAssumption, LimitsAssumption DEF IInv, TypeOK, Entry
  <2>2. QED
    BY <2>1 DEF IInv, TatBounded, WindowPaid, Later
<1>2. QED
  BY <1>1, Invariance, PTL

-----------------------------------------------------------------------------
(* Replies: what they say of other calls, RetryAfter and Remaining.        *)

\* What is left, at time t, of l's burst for a key whose TAT is `from'.
Room(from, t, l) == BurstOffset(l) - (from - t)

(* AllowN grants n events exactly if there is room for all of them.        *)
LEMMA AllowNGrants ==
    ASSUME NEW t \in Nat, NEW from \in Nat, NEW l \in Limit, NEW n \in Nat
    PROVE  AllowN(from, t, l, n).granted <=> l.interval * n <= Room(from, t, l)
<1> DEFINE newTat == from + l.interval * n
           diff   == t - (newTat - BurstOffset(l))
           r      == AllowN(from, t, l, n)
<1>1. l.interval * n \in Nat /\ BurstOffset(l) \in Nat
  BY ProductNat DEF Limit, BurstOffset
<1>2. diff < 0 <=> ~(l.interval * n <= Room(from, t, l))
  BY <1>1 DEF Room
<1>3. CASE diff < 0
  <2>1. r = Denied(-diff, from, t)
    BY <1>3 DEF AllowN
  <2>2. QED
    BY <2>1, <1>2, <1>3 DEF Denied
<1>4. CASE ~(diff < 0)
  <2>1. r = Granted(n, diff \div l.interval, newTat, t)
    BY <1>4 DEF AllowN
  <2>2. QED
    BY <2>1, <1>2, <1>4 DEF Granted
<1>5. QED
  BY <1>3, <1>4

(* AllowAtMost grants something exactly if there is room for one event.    *)
LEMMA AllowAtMostGrants ==
    ASSUME NEW t \in Nat, NEW from \in Nat, NEW l \in Limit, NEW n \in Nat
    PROVE  AllowAtMost(from, t, l, n).granted <=> l.interval <= Room(from, t, l)
<1> DEFINE diff == t - (from - BurstOffset(l))
           r    == AllowAtMost(from, t, l, n)
<1>1. l.interval \in Nat /\ BurstOffset(l) \in Nat
  BY ProductNat DEF Limit, BurstOffset
<1>2. diff < l.interval <=> ~(l.interval <= Room(from, t, l))
  BY <1>1 DEF Room
<1>3. CASE diff < l.interval
  <2>1. r = Denied(l.interval - diff, from, t)
    BY <1>3 DEF AllowAtMost
  <2>2. QED
    BY <2>1, <1>2, <1>3 DEF Denied
<1>4. CASE ~(diff < l.interval)
  <2>1. r.granted = TRUE
    BY <1>4 DEF AllowAtMost, Granted
  <2>2. QED
    BY <2>1, <1>2, <1>4
<1>5. QED
  BY <1>3, <1>4

-----------------------------------------------------------------------------
(* As long as the clock has not passed a key's TAT, every call starts from *)
(* that TAT: waiting does not make the key expire under a caller.          *)
LEMMA FromStays ==
    ASSUME TypeOK, EntryOutlivesDebt, NEW k \in Keys,
           From(k, now) > now, NEW t \in now..From(k, now)
    PROVE  From(k, t) = From(k, now)
<1>1. now \in Nat /\ store[k].tat \in Nat /\ store[k].expires \in Int
  BY BoundsAssumption DEF TypeOK, Entry
<1>2. store[k].tat > now => store[k].tat <= store[k].expires
  BY DEF EntryOutlivesDebt
<1>3. From(k, now) = store[k].tat /\ store[k].tat > now
  BY <1>1, FromIsLater DEF Later
<1>4. t \in Nat /\ t <= store[k].tat /\ t <= store[k].expires
  BY <1>1, <1>2, <1>3
<1>5. QED
  BY <1>1, <1>3, <1>4 DEF From, Alive, Later

(* A denied AllowN of no more than the burst is permitted after exactly    *)
(* RetryAfter.                                                             *)
LEMMA AllowNRetry ==
    ASSUME TypeOK, EntryOutlivesDebt, NEW k \in Keys, NEW l \in Limits,
           NEW n \in 0..l.burst
    PROVE  PermittedExactlyAt(AllowN, k, l, n)
<1> DEFINE from == From(k, now)
           cost == l.interval * n
           r    == AllowN(from, now, l, n)
<1>1. /\ now \in Nat /\ l \in Limit /\ l.interval \in Nat \ {0}
      /\ l.burst \in Nat /\ n \in Nat /\ BurstOffset(l) \in Nat
  BY BoundsAssumption, LimitFacts DEF TypeOK
<1>2. from \in Nat /\ from >= now
  BY FromIsLater
<1>3. cost \in Nat /\ cost <= BurstOffset(l)
  BY <1>1, ProductNat, ProductMonotone DEF BurstOffset
<1> SUFFICES ASSUME ~r.granted, NEW t \in now..(now + r.retryAfter)
             PROVE  AllowN(From(k, t), t, l, n).granted <=> t = now + r.retryAfter
  BY DEF PermittedExactlyAt
<1>4. ~(cost <= Room(from, now, l))
  BY <1>1, <1>2, AllowNGrants
<1>5. r.retryAfter = cost - Room(from, now, l)
  <2> DEFINE newTat == from + cost
             diff   == now - (newTat - BurstOffset(l))
  <2>1. diff < 0 /\ -diff = cost - Room(from, now, l)
    <3> HIDE DEF from, cost
    <3>1. QED
      BY <1>1, <1>2, <1>3, <1>4 DEF Room
  <2>2. r = Denied(-diff, from, now)
    BY <2>1 DEF AllowN
  <2>3. r.retryAfter = -diff
    BY <2>2 DEF Denied
  <2>4. QED
    BY <2>1, <2>3
<1> HIDE DEF from, cost, r
<1>6. from > now /\ t \in now..from
  BY <1>1, <1>2, <1>3, <1>4, <1>5 DEF Room
<1>7. From(k, t) = from
  BY <1>6, FromStays DEF from
<1>8. AllowN(from, t, l, n).granted <=> cost <= Room(from, t, l)
  <2>1. t \in Nat
    BY <1>1, <1>2, <1>6
  <2>2. AllowN(from, t, l, n).granted <=> l.interval * n <= Room(from, t, l)
    BY <2>1, <1>1, <1>2, AllowNGrants
  <2>3. QED
    BY <2>2 DEF cost
<1>9. QED
  BY <1>1, <1>2, <1>3, <1>5, <1>6, <1>7, <1>8 DEF Room

(* A denied AllowAtMost is permitted after exactly RetryAfter if its limit *)
(* allows anything at all.                                                 *)
LEMMA AllowAtMostRetry ==
    ASSUME TypeOK, EntryOutlivesDebt, NEW k \in Keys, NEW l \in Limits,
           l.burst > 0, NEW n \in 1..MaxAsk
    PROVE  PermittedExactlyAt(AllowAtMost, k, l, n)
<1> DEFINE from == From(k, now)
           i    == l.interval
           r    == AllowAtMost(from, now, l, n)
<1>1. /\ now \in Nat /\ l \in Limit /\ i \in Nat \ {0}
      /\ l.burst \in Nat /\ n \in Nat /\ BurstOffset(l) \in Nat
  BY BoundsAssumption, LimitFacts DEF TypeOK
<1>2. from \in Nat /\ from >= now
  BY FromIsLater
<1>3. i <= BurstOffset(l)
  <2>1. i * 1 <= i * l.burst
    BY <1>1, ProductMonotone
  <2>2. QED
    BY <2>1, <1>1 DEF BurstOffset
<1> SUFFICES ASSUME ~r.granted, NEW t \in now..(now + r.retryAfter)
             PROVE  AllowAtMost(From(k, t), t, l, n).granted <=>
                        t = now + r.retryAfter
  BY DEF PermittedExactlyAt
<1>4. ~(i <= Room(from, now, l))
  BY <1>1, <1>2, AllowAtMostGrants
<1>5. r.retryAfter = i - Room(from, now, l)
  <2> DEFINE diff == now - (from - BurstOffset(l))
  <2>1. diff < i /\ i - diff = i - Room(from, now, l)
    <3> HIDE DEF from, i
    <3>1. QED
      BY <1>1, <1>2, <1>3, <1>4 DEF Room
  <2>2. r = Denied(i - diff, from, now)
    BY <2>1 DEF AllowAtMost
  <2>3. r.retryAfter = i - diff
    BY <2>2 DEF Denied
  <2>4. QED
    BY <2>1, <2>3
<1> HIDE DEF from, i, r
<1>6. from > now /\ t \in now..from
  BY <1>1, <1>2, <1>3, <1>4, <1>5 DEF Room
<1>7. From(k, t) = from
  BY <1>6, FromStays DEF from
<1>8. AllowAtMost(from, t, l, n).granted <=> i <= Room(from, t, l)
  BY SMTT(30), <1>1, <1>2, <1>6, AllowAtMostGrants DEF i
<1>9. QED
  BY <1>1, <1>2, <1>3, <1>5, <1>6, <1>7, <1>8 DEF Room

-----------------------------------------------------------------------------
(* If rem is the room after a call, counted in whole events, then rem      *)
(* events more would be granted at once, and rem + 1 would not.            *)
LEMMA CapacityOfRoom ==
    ASSUME NEW l \in Limit, NEW r, r.tat \in Nat, now \in Nat,
           NEW room \in Nat, room = Room(r.tat, now, l),
           r.remaining = room \div l.interval
    PROVE  RemainingIsCapacity(r, l)
<1> DEFINE i   == l.interval
           rem == r.remaining
<1>1. i \in Nat \ {0}
  BY DEF Limit
<1>2. rem \in Nat /\ i * rem <= room /\ room < i * (rem + 1)
  BY <1>1, QuotientFits
<1>3. i * (rem + 1) \in Nat
  BY <1>1, <1>2, ProductNat
<1>4. AllowN(r.tat, now, l, rem).granted
  BY <1>2, AllowNGrants
<1>5. ~(i * (rem + 1) <= room)
  <2> HIDE DEF i, rem
  <2>1. QED
    BY <1>2, <1>3
<1>6. ~AllowN(r.tat, now, l, rem + 1).granted
  <2>1. rem + 1 \in Nat
    BY <1>2
  <2>2. QED
    BY <2>1, <1>5, AllowNGrants
<1>7. QED
  BY <1>4, <1>6 DEF RemainingIsCapacity

LEMMA AllowNRemaining ==
    ASSUME now \in Nat, NEW from \in Nat, from >= now, NEW l \in Limit, NEW n \in Nat,
           AllowN(from, now, l, n).granted
    PROVE  RemainingIsCapacity(AllowN(from, now, l, n), l)
<1> DEFINE newTat == from + l.interval * n
           diff   == now - (newTat - BurstOffset(l))
           r      == AllowN(from, now, l, n)
<1>1. l.interval * n \in Nat /\ BurstOffset(l) \in Nat
  BY ProductNat DEF Limit, BurstOffset
<1>2. l.interval * n <= Room(from, now, l)
  BY AllowNGrants
<1>3. diff \in Nat /\ diff = Room(newTat, now, l)
  BY <1>1, <1>2 DEF Room
<1>4. r = Granted(n, diff \div l.interval, newTat, now)
  BY <1>3 DEF AllowN
<1>5. r.tat = newTat /\ r.remaining = diff \div l.interval
  BY <1>4 DEF Granted
<1>6. newTat \in Nat
  BY <1>1
<1> HIDE DEF diff, newTat, r
<1>7. RemainingIsCapacity(r, l)
  BY <1>3, <1>5, <1>6, CapacityOfRoom
<1>8. QED
  BY <1>7 DEF r

LEMMA AllowAtMostRemaining ==
    ASSUME now \in Nat, NEW from \in Nat, from >= now, NEW l \in Limit, NEW n \in Nat,
           AllowAtMost(from, now, l, n).granted
    PROVE  RemainingIsCapacity(AllowAtMost(from, now, l, n), l)
<1> DEFINE cost == l.interval * n
           diff == now - (from - BurstOffset(l))
           r    == AllowAtMost(from, now, l, n)
<1>1. cost \in Nat /\ BurstOffset(l) \in Nat /\ l.interval \in Nat \ {0}
  BY ProductNat DEF Limit, BurstOffset
<1>2. l.interval <= Room(from, now, l)
  BY AllowAtMostGrants
<1>3. diff \in Nat /\ diff = Room(from, now, l) /\ ~(diff < l.interval)
  BY <1>1, <1>2 DEF Room
<1>4. CASE diff < cost
  <2>1. r = Granted(diff \div l.interval, 0, from + diff, now)
    BY <1>3, <1>4 DEF AllowAtMost
  <2>2. r.tat = from + diff /\ r.remaining = 0
    BY <2>1 DEF Granted
  <2>3. Room(from + diff, now, l) = 0
    BY <1>1, <1>3 DEF Room
  <2>4. 0 \div l.interval = 0
    BY <1>1
  <2>5. from + diff \in Nat
    BY <1>3
  <2> HIDE DEF diff, r
  <2>6. RemainingIsCapacity(r, l)
    BY <2>2, <2>3, <2>4, <2>5, CapacityOfRoom
  <2>7. QED
    BY <2>6 DEF r
<1>5. CASE ~(diff < cost)
  <2> DEFINE left == diff - cost
  <2>1. r = Granted(n, left \div l.interval, from + cost, now)
    BY <1>3, <1>5 DEF AllowAtMost
  <2>2. r.tat = from + cost /\ r.remaining = left \div l.interval
    BY <2>1 DEF Granted
  <2>3. left \in Nat /\ left = Room(from + cost, now, l) /\ from + cost \in Nat
    <3> HIDE DEF cost
    <3>1. QED
      BY <1>1, <1>3, <1>5 DEF Room
  <2> HIDE DEF left, cost, r
  <2>4. RemainingIsCapacity(r, l)
    BY <2>2, <2>3, CapacityOfRoom
  <2>5. QED
    BY <2>4 DEF r
<1>6. QED
  BY <1>4, <1>5

-----------------------------------------------------------------------------
(* RetryAfter is exact, in every reachable state: a denied request that    *)
(* can fit at all is permitted then, and at no earlier tick.               *)
THEOREM RetriesAreExact == Spec => []RetryAfterExact
<1>1. IInv => RetryAfterExact
  BY AllowNRetry, AllowAtMostRetry DEF IInv, RetryAfterExact
<1>2. QED
  BY <1>1, Invariance, PTL

(* Remaining of a granted call is exact, in every reachable state: that    *)
(* many events more are permitted at once, and not one more.               *)
THEOREM RemainingIsExact == Spec => []RemainingExact
<1>1. IInv => RemainingExact
  <2> SUFFICES ASSUME IInv, NEW k \in Keys, NEW l \in Limits, NEW n \in 0..MaxAsk,
                      NEW r \in {AllowN(From(k, now), now, l, n),
                                 AllowAtMost(From(k, now), now, l, n)},
                      r.granted
               PROVE  RemainingIsCapacity(r, l)
    BY DEF RemainingExact
  <2>1. now \in Nat /\ n \in Nat /\ l \in Limit
    BY BoundsAssumption, LimitFacts DEF IInv, TypeOK
  <2>2. From(k, now) \in Nat /\ From(k, now) >= now
    BY FromIsLater DEF IInv
  <2>3. QED
    BY <2>1, <2>2, AllowNRemaining, AllowAtMostRemaining
<1>2. QED
  BY <1>1, Invariance, PTL

-----------------------------------------------------------------------------
(* The leaky bucket: each step of the limiter is a step of the bucket or   *)
(* leaves the bucket as it is.                                             *)

\* Under the invariant a key's debt is how far its stored TAT lies ahead.
LEMMA DebtIsLead ==
    ASSUME IInv, NEW k \in Keys
    PROVE  /\ Debt[k] = From(k, now) - now
           /\ Debt[k] = Later(store[k].tat, now) - now
           /\ Debt[k] \in Nat
<1>1. now \in Nat
  BY BoundsAssumption DEF IInv, TypeOK
<1>2. Debt[k] = From(k, now) - now
  BY DEF Debt
<1>3. QED
  BY <1>1, <1>2, FromIsLater DEF IInv

LEMMA DebtIsLeadNext ==
    ASSUME IInv', NEW k \in Keys
    PROVE  Debt'[k] = Later(store'[k].tat, now') - now'
<1>1. now' \in Nat /\ store'[k].tat \in Nat /\ store'[k].expires \in Int
  BY BoundsAssumption DEF IInv, TypeOK, Entry
<1>2. store'[k].tat > now' => store'[k].tat <= store'[k].expires
  BY DEF IInv, EntryOutlivesDebt
<1>3. From(k, now)' = Later(store'[k].tat, now')
  BY <1>1, <1>2 DEF From, Alive, Later
<1>4. QED
  BY <1>3 DEF Debt

\* The debt is a function of the keys, now and after the step.
LEMMA DebtIsFunction ==
    /\ Debt = [k \in Keys |-> Debt[k]]
    /\ Debt' = [k \in Keys |-> Debt'[k]]
BY DEF Debt

(* A run of a script moves the debt of its key to the TAT of its reply and *)
(* leaves the others alone.                                                *)
LEMMA RunMovesDebt ==
    ASSUME IInv, IInv', NEW op, NEW k \in Keys, NEW l \in Limits, NEW n, NEW r,
           Honest(r, From(k, now), now, l),
           Run(op, k, l, n, r)
    PROVE  Debt' = [Debt EXCEPT ![k] = r.tat - now]
<1> DEFINE from == From(k, now)
<1>1. now \in Nat /\ now' = now /\ store \in [Keys -> Entry]
  BY BoundsAssumption DEF IInv, TypeOK, Run
<1>2. from = Later(store[k].tat, now) /\ from \in Nat /\ from >= now
  BY FromIsLater DEF IInv
<1>3. /\ r.granted \in BOOLEAN /\ r.tat \in Nat /\ r.tat >= from
      /\ r.resetAfter = r.tat - now
      /\ ~r.granted => r.tat = from
  BY DEF Honest, Reply
<1>4. ASSUME NEW j \in Keys, j # k
      PROVE  Debt'[j] = Debt[j]
  <2>1. store'[j] = store[j]
    BY <1>1, <1>4 DEF Run, Saved
  <2>2. QED
    BY <2>1, <1>1, DebtIsLead, DebtIsLeadNext
<1> HIDE DEF from
<1>5. Debt'[k] = r.tat - now
  <2>1. CASE r.granted /\ r.resetAfter > 0
    <3>1. store'[k].tat = r.tat
      BY <2>1, <1>1 DEF Run, Saved
    <3>2. Later(r.tat, now) = r.tat
      BY <1>1, <1>2, <1>3 DEF Later
    <3>3. QED
      BY <3>1, <3>2, <1>1, DebtIsLeadNext
  <2>2. CASE ~(r.granted /\ r.resetAfter > 0)
    <3>1. store' = store
      BY <2>2 DEF Run, Saved
    <3>2. r.tat = from
      BY <2>2, <1>1, <1>2, <1>3
    <3>3. QED
      BY <3>1, <3>2, <1>1, <1>2, DebtIsLeadNext
  <2>3. QED
    BY <2>1, <2>2
<1>6. QED
  BY <1>4, <1>5, DebtIsFunction

-----------------------------------------------------------------------------
(* The bucket's vocabulary, in the limiter's.                              *)
LEMMA FitsInTerms ==
    ASSUME NEW k \in Keys, NEW l \in Limits, NEW m
    PROVE  Bucket!Fits(k, l, m) <=> Debt[k] + l.interval * m <= BurstOffset(l)
BY DEF Bucket!Fits, Bucket!Cost, Bucket!Capacity, BurstOffset

LEMMA AllowNIsBucketStep ==
    ASSUME IInv, IInv', NEW k \in Keys, NEW l \in Limits, NEW n \in 0..MaxAsk,
           RunAllowN(k, l, n)
    PROVE  Bucket!Next
<1> DEFINE from == From(k, now)
           cost == l.interval * n
           newTat == from + cost
           diff == now - (newTat - BurstOffset(l))
           r    == AllowN(from, now, l, n)
<1>1. now \in Nat /\ n \in Nat /\ l \in Limit /\ l.interval \in Nat \ {0}
      /\ BurstOffset(l) \in Nat
  BY BoundsAssumption, LimitFacts DEF IInv, TypeOK
<1>2. from \in Nat /\ from >= now /\ Debt[k] = from - now
  BY FromIsLater, DebtIsLead DEF IInv
<1>3. cost \in Nat
  BY <1>1, ProductNat
<1>4. Honest(r, from, now, l)
  BY <1>1, <1>2, AllowNHonest
<1>5. Debt' = [Debt EXCEPT ![k] = r.tat - now]
  BY <1>4, RunMovesDebt DEF RunAllowN
<1>6. answer' = Bucket!Told("allowN", k, l, n, r.allowed)
  BY DEF RunAllowN, Run, Bucket!Told
<1>7. Bucket!Fits(k, l, n) <=> ~(diff < 0)
  <2>1. Bucket!Fits(k, l, n) <=> Debt[k] + cost <= BurstOffset(l)
    BY FitsInTerms
  <2> HIDE DEF from, cost
  <2>2. QED
    BY <2>1, <1>1, <1>2, <1>3 DEF diff
<1>8. CASE Bucket!Fits(k, l, n)
  <2>1. r.tat = from + cost /\ r.allowed = n
    <3>1. ~(diff < 0)
      BY <1>7, <1>8
    <3>2. r = Granted(n, diff \div l.interval, from + cost, now)
      BY <3>1 DEF AllowN, Granted, Denied
    <3>3. QED
      BY <3>2 DEF Granted
  <2> HIDE DEF from, cost, r
  <2>2. r.tat - now = Debt[k] + cost
    BY <2>1, <1>1, <1>2, <1>3
  <2>3. Bucket!AllOrNone(k, l, n)
    BY <2>1, <2>2, <1>5, <1>6, <1>8 DEF Bucket!AllOrNone, Bucket!Cost, cost
  <2>4. QED
    BY <2>3 DEF Bucket!Next
<1>9. CASE ~Bucket!Fits(k, l, n)
  <2>1. r.tat = from /\ r.allowed = 0
    <3>1. diff < 0
      BY <1>7, <1>9
    <3>2. r = Denied(-diff, from, now)
      BY <3>1 DEF AllowN, Granted, Denied
    <3>3. QED
      BY <3>2 DEF Denied
  <2>2. Debt' = [Debt EXCEPT ![k] = @ + l.interval * 0]
    <3>1. Debt[k] + l.interval * 0 = r.tat - now
      BY <2>1, <1>1, <1>2
    <3> HIDE DEF r
    <3>2. QED
      BY <3>1, <1>5
  <2>3. Bucket!AllOrNone(k, l, n)
    BY <2>1, <2>2, <1>6, <1>9 DEF Bucket!AllOrNone, Bucket!Cost
  <2>4. QED
    BY <2>3 DEF Bucket!Next
<1>10. QED
  BY <1>8, <1>9

LEMMA AllowAtMostIsBucketStep ==
    ASSUME IInv, IInv', NEW k \in Keys, NEW l \in Limits, NEW n \in 0..MaxAsk,
           RunAllowAtMost(k, l, n)
    PROVE  Bucket!Next
<1> DEFINE from == From(k, now)
           i    == l.interval
           cost == i * n
           diff == now - (from - BurstOffset(l))
           r    == AllowAtMost(from, now, l, n)
<1>1. now \in Nat /\ n \in Nat /\ l \in Limit /\ i \in Nat \ {0}
      /\ BurstOffset(l) \in Nat
  BY BoundsAssumption, LimitFacts DEF IInv, TypeOK
<1>2. from \in Nat /\ from >= now /\ Debt[k] = from - now
  BY FromIsLater, DebtIsLead DEF IInv
<1>3. cost \in Nat /\ diff \in Int /\ Debt[k] = BurstOffset(l) - diff
  BY <1>1, <1>2, ProductNat
<1>4. Honest(r, from, now, l)
  BY <1>1, <1>2, AllowAtMostHonest
<1>5. Debt' = [Debt EXCEPT ![k] = r.tat - now]
  BY <1>4, RunMovesDebt DEF RunAllowAtMost
<1>6. answer' = Bucket!Told("allowAtMost", k, l, n, r.allowed)
  BY DEF RunAllowAtMost, Run, Bucket!Told
<1>7. ASSUME NEW m \in Nat
      PROVE  Bucket!Fits(k, l, m) <=> i * m <= diff
  <2>1. Bucket!Fits(k, l, m) <=> Debt[k] + i * m <= BurstOffset(l)
    BY FitsInTerms
  <2>2. i * m \in Nat
    BY <1>1, ProductNat
  <2> HIDE DEF diff
  <2>3. QED
    BY <2>1, <2>2, <1>1, <1>3
<1>8. CASE diff < i
  <2>1. r = Denied(i - diff, from, now)
    BY <1>8 DEF AllowAtMost
  <2>2. r.tat = from /\ r.allowed = 0
    BY <2>1 DEF Denied
  <2>3. Debt' = [Debt EXCEPT ![k] = @ + i * 0 + 0]
    <3>1. Debt[k] + i * 0 + 0 = r.tat - now
      BY <2>2, <1>1, <1>2
    <3> HIDE DEF r
    <3>2. QED
      BY <3>1, <1>5
  <2>4. 0 < n => ~Bucket!Fits(k, l, 1)
    <3>1. Bucket!Fits(k, l, 1) <=> i * 1 <= diff
      BY <1>7
    <3> HIDE DEF diff
    <3>2. QED
      BY <3>1, <1>1, <1>3, <1>8
  <2>5. Bucket!AsManyAsFit(k, l, n)
    <3>1. Debt' = [Debt EXCEPT ![k] = @ + Bucket!Cost(l, 0) + 0]
      BY <2>3 DEF Bucket!Cost
    <3>2. answer' = Bucket!Told("allowAtMost", k, l, n, 0)
      BY <2>2, <1>6
    <3>3. 0 \in 0..n /\ 0 \in 0..(l.interval - 1) /\ ~(0 > 0)
      BY <1>1
    <3>4. 0 < n => ~Bucket!Fits(k, l, 0 + 1)
      BY <2>4
    <3>5. QED
      BY <3>1, <3>2, <3>3, <3>4, Zenon DEF Bucket!AsManyAsFit
  <2>6. QED
    BY <2>5 DEF Bucket!Next
<1>9. CASE ~(diff < i) /\ diff < cost
  <2> DEFINE m == diff \div i
             waste == diff - i * m
  <2>1. r = Granted(m, 0, from + diff, now)
    BY <1>9 DEF AllowAtMost
  <2>2. r.tat = from + diff /\ r.allowed = m
    BY <2>1 DEF Granted
  <2>3. diff \in Nat
    BY <1>1, <1>3, <1>9
  <2>4. m \in Nat /\ i * m <= diff /\ diff < i * (m + 1)
    BY <2>3, <1>1, QuotientFits
  <2> HIDE DEF diff, m
  <2>5. i * m \in Nat /\ i * (m + 1) = i * m + i
    BY <2>4, <1>1, ProductNat, ProductSuccessor
  <2>6. waste \in 0..(i - 1)
    BY <2>3, <2>4, <2>5, <1>1
  <2>7. m >= 1
    <3>1. m = 0 => i * m = 0
      BY <1>1
    <3>2. QED
      BY <3>1, <2>3, <2>4, <2>5, <1>1, <1>9
  <2>8. m < n
    <3>1. n <= m => i * n <= i * m
      BY <2>4, <1>1, ProductMonotone
    <3> HIDE DEF cost
    <3>2. QED
      BY <3>1, <2>3, <2>4, <2>5, <1>1, <1>3, <1>9 DEF cost
  <2>10. Bucket!Fits(k, l, m) /\ ~Bucket!Fits(k, l, m + 1)
    <3>1. m + 1 \in Nat
      BY <2>4
    <3>2. ~(i * (m + 1) <= diff)
      BY <2>3, <2>4, <2>5, <1>1
    <3>3. QED
      BY <3>1, <3>2, <2>4, <1>7
  <2>11. Debt[k] + i * m + waste = r.tat - now
    BY <2>2, <2>3, <2>5, <1>1, <1>2
  <2>12. Debt[k] + i * m + waste <= BurstOffset(l)
    BY <2>3, <2>5, <1>1, <1>3
  <2>13. Debt' = [Debt EXCEPT ![k] = @ + i * m + waste]
    BY <2>11, <1>5
  <2> HIDE DEF waste
  <2>14. Bucket!AsManyAsFit(k, l, n)
    <3>1. Debt[k] + Bucket!Cost(l, m) + waste <= Bucket!Capacity(l)
      BY <2>12 DEF Bucket!Cost, Bucket!Capacity, BurstOffset
    <3>2. Debt' = [Debt EXCEPT ![k] = @ + Bucket!Cost(l, m) + waste]
      BY <2>13 DEF Bucket!Cost
    <3>3. answer' = Bucket!Told("allowAtMost", k, l, n, m)
      BY <2>2, <1>6
    <3>4. (m \in {0, n} => waste = 0) /\ (m < n => ~Bucket!Fits(k, l, m + 1))
      BY <2>4, <2>7, <2>8, <2>10, <1>1
    <3>5. m \in 0..n /\ waste \in 0..(l.interval - 1)
      BY <2>4, <2>6, <2>8, <1>1
    <3> HIDE DEF i
    <3>6. QED
      BY <3>1, <3>2, <3>3, <3>4, <3>5, Zenon DEF Bucket!AsManyAsFit
  <2>15. QED
    BY <2>14 DEF Bucket!Next
<1>10. CASE ~(diff < i) /\ ~(diff < cost)
  <2>1. r = Granted(n, (diff - cost) \div i, from + cost, now)
    BY <1>10 DEF AllowAtMost
  <2>2. r.tat = from + cost /\ r.allowed = n
    BY <2>1 DEF Granted
  <2>3. Bucket!Fits(k, l, n)
    BY <1>1, <1>3, <1>7, <1>10
  <2> HIDE DEF from, cost, r
  <2>4. r.tat - now = Debt[k] + cost
    BY <2>2, <1>1, <1>2, <1>3
  <2>5. Debt' = [Debt EXCEPT ![k] = @ + Bucket!Cost(l, n) + 0]
    <3>1. Debt[k] + cost + 0 = r.tat - now
      BY <2>4, <1>3, DebtIsLead
    <3> HIDE DEF diff
    <3>2. QED
      BY <3>1, <1>5 DEF Bucket!Cost, cost
  <2>6. Debt[k] + Bucket!Cost(l, n) + 0 <= Bucket!Capacity(l)
    <3>1. Bucket!Cost(l, n) = cost /\ Debt[k] \in Nat
      BY <1>1, DebtIsLead DEF Bucket!Cost, cost
    <3>2. QED
      BY <3>1, <2>3, <1>3 DEF Bucket!Fits
  <2>7. Bucket!AsManyAsFit(k, l, n)
    <3>1. n \in 0..n /\ 0 \in 0..(l.interval - 1) /\ ~(n < n)
      BY <1>1
    <3>2. answer' = Bucket!Told("allowAtMost", k, l, n, n)
      BY <2>2, <1>6
    <3>3. QED
      BY <3>1, <3>2, <2>5, <2>6, Zenon DEF Bucket!AsManyAsFit
  <2>8. QED
    BY <2>7 DEF Bucket!Next
<1>11. QED
  BY <1>8, <1>9, <1>10

LEMMA TickIsDrain ==
    ASSUME IInv, IInv', Tick
    PROVE  Bucket!Drain
<1>1. now \in Nat /\ now' = now + 1 /\ UNCHANGED <<store, answer>>
  BY BoundsAssumption DEF IInv, TypeOK, Tick
<1>2. ASSUME NEW k \in Keys
      PROVE  Debt'[k] = IF Debt[k] > 0 THEN Debt[k] - 1 ELSE 0
  <2>1. store[k].tat \in Nat
    BY DEF IInv, TypeOK, Entry
  <2>2. QED
    BY <2>1, <1>1, DebtIsLead, DebtIsLeadNext DEF Later
<1>3. QED
  BY <1>1, <1>2, DebtIsFunction DEF Bucket!Drain

LEMMA ForgettingIsForget ==
    ASSUME IInv, IInv', NEW ks \in SUBSET Keys,
           store' = [k \in Keys |-> IF k \in ks THEN NoEntry ELSE store[k]],
           answer' = NoAnswer,
           UNCHANGED now
    PROVE  Bucket!Forget(ks)
<1>1. now \in Nat
  BY BoundsAssumption DEF IInv, TypeOK
<1>2. ASSUME NEW k \in Keys
      PROVE  Debt'[k] = IF k \in ks THEN 0 ELSE Debt[k]
  <2>1. Debt'[k] = Later(store'[k].tat, now) - now
    BY DebtIsLeadNext
  <2>2. CASE k \in ks
    BY <2>1, <2>2, <1>1 DEF NoEntry, Later
  <2>3. CASE k \notin ks
    BY <2>1, <2>3, DebtIsLead
  <2>4. QED
    BY <2>2, <2>3
<1>3. QED
  BY <1>2, DebtIsFunction DEF Bucket!Forget

-----------------------------------------------------------------------------
LEMMA BucketInit == Init => Bucket!Init
<1> SUFFICES ASSUME Init PROVE Bucket!Init
  OBVIOUS
<1>1. \A k \in Keys : From(k, now) = 0 /\ now = 0
  BY DEF Init, From, Alive, NoEntry
<1>2. Debt = [k \in Keys |-> 0]
  BY <1>1 DEF Debt
<1>3. QED
  BY <1>2 DEF Init, Bucket!Init

LEMMA BucketStep ==
    IInv /\ IInv' /\ [Next]_vars => [Bucket!Next]_(Bucket!vars)
<1> SUFFICES ASSUME IInv, IInv', [Next]_vars
             PROVE  Bucket!Next \/ UNCHANGED Bucket!vars
  OBVIOUS
<1>1. ASSUME NEW k \in Keys, NEW l \in Limits, NEW n \in 0..MaxAsk,
             RunAllowN(k, l, n)
      PROVE  Bucket!Next
  BY <1>1, AllowNIsBucketStep
<1>2. ASSUME NEW k \in Keys, NEW l \in Limits, NEW n \in 0..MaxAsk,
             RunAllowAtMost(k, l, n)
      PROVE  Bucket!Next
  BY <1>2, AllowAtMostIsBucketStep
<1>3. ASSUME NEW k \in Keys, Reset(k)
      PROVE  Bucket!Next
  <2>1. store' = [j \in Keys |-> IF j \in {k} THEN NoEntry ELSE store[j]]
    BY <1>3 DEF Reset, IInv, TypeOK
  <2>2. Bucket!Forget({k})
    BY <2>1, <1>3, ForgettingIsForget DEF Reset
  <2>3. QED
    BY <2>2 DEF Bucket!Next
<1>4. ASSUME Lose
      PROVE  Bucket!Next
  <2>1. store' = [j \in Keys |-> IF j \in Keys THEN NoEntry ELSE store[j]]
    BY <1>4 DEF Lose
  <2>2. Bucket!Forget(Keys)
    BY <2>1, <1>4, ForgettingIsForget DEF Lose
  <2>3. QED
    BY <2>2 DEF Bucket!Next
<1>5. ASSUME Tick
      PROVE  Bucket!Next
  BY <1>5, TickIsDrain DEF Bucket!Next
<1>6. ASSUME UNCHANGED <<now, store, answer>>
      PROVE  UNCHANGED Bucket!vars
  BY <1>6 DEF Bucket!vars, Debt, From, Alive
<1>7. QED
  BY <1>1, <1>2, <1>3, <1>4, <1>5, <1>6 DEF Next, Observe, vars

(* The limiter behaves as leaky buckets do, one per key: whatever expires  *)
(* in Redis, every call is answered, and paid for, as the bucket would.    *)
THEOREM Refinement == Spec => ImplementsLeakyBucket
<1>1. Spec => []IInv
  BY Invariance
<1>2. Spec => Bucket!Spec
  BY <1>1, BucketInit, BucketStep, PTL DEF Spec, Bucket!Spec
<1>3. QED
  BY <1>2 DEF ImplementsLeakyBucket

=============================================================================
