------------------------------ MODULE CacheBus ------------------------------
(***************************************************************************)
(* GoRedisCli of service/ecacherdb.go: the bus by which ecache tells the   *)
(* caches of all processes that a key was deleted.  Pub is PUBLISH through *)
(* go-redis with its retries; Sub is a loop that polls the channel go-redis*)
(* fills from a subscribed connection, and calls ecache back for each      *)
(* message.  The channel's size is what InitLocalCache was given.          *)
(***************************************************************************)
EXTENDS Naturals, Sequences, FiniteSets

CONSTANTS Messages,     \* the deletions, each published by one call of Pub
          Subscribers,  \* the processes that call Sub
          Sizes,        \* sizes of the channel
          MaxRetries,   \* redis.Options.MaxRetries
          MaxBreaks,    \* bound: broken connections of a subscriber
          None

ASSUME BusAssumption ==
    /\ Sizes \subseteq Nat /\ MaxRetries \in Nat /\ MaxBreaks \in Nat
    /\ None \notin Messages

VARIABLES size,    \* GoRedisCli.chanSize
          call,    \* call[m]: the call of Pub for m
          conn,    \* conn[s]: the subscription's connection, with what is on it
          hand,    \* hand[s]: the message go-redis is putting in the channel
          chan,    \* chan[s]: the channel
          loop,    \* loop[s]: where the loop of Sub is
          heard,   \* history: what the callback of s was called with
          missed   \* history: what s was not told, once at least

subscription == <<conn, hand, chan, loop>>
vars == <<size, call, subscription, heard, missed>>

TypeOK ==
    /\ size \in Sizes
    /\ call \in [Messages ->
           [pc : {"idle", "waiting", "ok", "error"}, tried : 0..(MaxRetries + 1),
            awaited : BOOLEAN, late : 0..(MaxRetries + 1), reply : BOOLEAN]]
    /\ \A s \in Subscribers :
          /\ conn[s].up \in BOOLEAN
          /\ conn[s].on \in Seq(Messages)
          /\ conn[s].breaks \in 0..MaxBreaks
          /\ conn[s].closed \in BOOLEAN
          /\ hand[s] \in Messages \cup {None}
          /\ chan[s] \in Seq(Messages) /\ Len(chan[s]) <= size
          /\ loop[s] \in {"polling", "callback", "returned"}
          /\ heard[s] \subseteq Messages
          /\ missed[s] \subseteq Messages

\* Subscribe connects later; what fails then is tried again.
Init ==
    /\ size \in Sizes
    /\ call = [m \in Messages |-> [pc |-> "idle", tried |-> 0, awaited |-> FALSE,
                                   late |-> 0, reply |-> FALSE]]
    /\ conn = [s \in Subscribers |-> [up |-> FALSE, on |-> <<>>, breaks |-> 0,
                                      closed |-> FALSE]]
    /\ hand = [s \in Subscribers |-> None]
    /\ chan = [s \in Subscribers |-> <<>>]
    /\ loop = [s \in Subscribers |-> "polling"]
    /\ heard = [s \in Subscribers |-> {}]
    /\ missed = [s \in Subscribers |-> {}]

-----------------------------------------------------------------------------
(* Pub.  Every attempt is on a connection of its own; one that has been    *)
(* given up may still reach Redis.                                         *)

Trying(c) == [c EXCEPT !.pc = "waiting", !.tried = @ + 1, !.awaited = TRUE,
                       !.reply = FALSE]

GivenUp(c) == [c EXCEPT !.awaited = FALSE, !.reply = FALSE,
                        !.late = IF c.awaited THEN @ + 1 ELSE @]

Pub(m) ==
    /\ call[m].pc = "idle"
    /\ call' = [call EXCEPT ![m] = Trying(@)]
    /\ UNCHANGED <<size, subscription, heard, missed>>

\* Mutant: an attempt that failed is taken for one that was published.
PubFailsUnnoticed(m) ==
    /\ call[m].pc = "waiting"
    /\ call' = [call EXCEPT ![m] = [GivenUp(@) EXCEPT !.pc = "ok"]]
    /\ UNCHANGED <<size, subscription, heard, missed>>

PubFails(m) ==
    /\ call[m].pc = "waiting"
    /\ call' = [call EXCEPT ![m] =
                   IF @.tried <= MaxRetries
                   THEN Trying(GivenUp(@))
                   ELSE [GivenUp(@) EXCEPT !.pc = "error"]]
    /\ UNCHANGED <<size, subscription, heard, missed>>

PubReturns(m) ==
    /\ call[m].pc = "waiting" /\ call[m].reply
    /\ call' = [call EXCEPT ![m].pc = "ok", ![m].reply = FALSE]
    /\ UNCHANGED <<size, subscription, heard, missed>>

\* Redis takes up an attempt and sends the message to who is connected.
Publish(m) ==
    /\ \/ /\ call[m].awaited
          /\ call' = [call EXCEPT ![m].awaited = FALSE, ![m].reply = TRUE]
       \/ /\ call[m].late > 0
          /\ call' = [call EXCEPT ![m].late = @ - 1]
    /\ conn' = [s \in Subscribers |->
                   IF conn[s].up THEN [conn[s] EXCEPT !.on = Append(@, m)] ELSE conn[s]]
    /\ missed' = [s \in Subscribers |->
                     IF conn[s].up THEN missed[s] ELSE missed[s] \cup {m}]
    /\ UNCHANGED <<size, hand, chan, loop, heard>>

-----------------------------------------------------------------------------
(* go-redis's side of the subscription: it keeps connecting, reads one     *)
(* message at a time and waits up to a minute for room in the channel.     *)

Connect(s) ==
    /\ ~conn[s].up /\ ~conn[s].closed
    /\ conn' = [conn EXCEPT ![s].up = TRUE]
    /\ UNCHANGED <<size, call, hand, chan, loop, heard, missed>>

Carried(s) == {conn[s].on[i] : i \in 1..Len(conn[s].on)}

Disconnected(s, closed) ==
    /\ conn' = [conn EXCEPT ![s].up = FALSE, ![s].on = <<>>, ![s].closed = closed,
                            ![s].breaks = IF closed THEN @ ELSE @ + 1]
    /\ missed' = [missed EXCEPT ![s] = @ \cup Carried(s)]
    /\ UNCHANGED <<size, call, hand, chan, loop, heard>>

Break(s) == conn[s].up /\ conn[s].breaks < MaxBreaks /\ Disconnected(s, FALSE)

\* The client is closed, with it the connection; the channel comes next.
Close(s) == ~conn[s].closed /\ Disconnected(s, TRUE)

Read(s) ==
    /\ hand[s] = None /\ conn[s].on # <<>>
    /\ hand' = [hand EXCEPT ![s] = Head(conn[s].on)]
    /\ conn' = [conn EXCEPT ![s].on = Tail(@)]
    /\ UNCHANGED <<size, call, chan, loop, heard, missed>>

\* Mutant: the channel takes what it is given.
PutAlways(s) ==
    /\ hand[s] # None
    /\ chan' = [chan EXCEPT ![s] = Append(@, hand[s])]
    /\ hand' = [hand EXCEPT ![s] = None]
    /\ UNCHANGED <<size, call, conn, loop, heard, missed>>

Put(s) ==
    /\ hand[s] # None /\ Len(chan[s]) < size
    /\ chan' = [chan EXCEPT ![s] = Append(@, hand[s])]
    /\ hand' = [hand EXCEPT ![s] = None]
    /\ UNCHANGED <<size, call, conn, loop, heard, missed>>

\* A minute has passed, all of it in one callback.
Drop(s) ==
    /\ hand[s] # None /\ Len(chan[s]) = size /\ loop[s] = "callback"
    /\ hand' = [hand EXCEPT ![s] = None]
    /\ missed' = [missed EXCEPT ![s] = @ \cup {hand[s]}]
    /\ UNCHANGED <<size, call, conn, chan, loop, heard>>

-----------------------------------------------------------------------------
(* Sub.  The default branch only goes around again.                        *)

Callback(s, m) ==
    /\ heard' = [heard EXCEPT ![s] = @ \cup {m}]
    /\ loop' = [loop EXCEPT ![s] = "callback"]

\* A channel without a buffer hands over what go-redis has in hand.
Receive(s) ==
    /\ loop[s] = "polling"
    /\ \/ /\ chan[s] # <<>>
          /\ Callback(s, Head(chan[s]))
          /\ chan' = [chan EXCEPT ![s] = Tail(@)]
          /\ UNCHANGED hand
       \/ /\ size = 0 /\ hand[s] # None
          /\ Callback(s, hand[s])
          /\ hand' = [hand EXCEPT ![s] = None]
          /\ UNCHANGED chan
    /\ UNCHANGED <<size, call, conn, missed>>

\* Mutant: the select is left when its case is done, and Sub with it.
CallbackReturnsOnce(s) ==
    /\ loop[s] = "callback"
    /\ loop' = [loop EXCEPT ![s] = "returned"]
    /\ UNCHANGED <<size, call, conn, hand, chan, heard, missed>>

CallbackReturns(s) ==
    /\ loop[s] = "callback"
    /\ loop' = [loop EXCEPT ![s] = "polling"]
    /\ UNCHANGED <<size, call, conn, hand, chan, heard, missed>>

\* The closed channel is found empty.
Return(s) ==
    /\ loop[s] = "polling"
    /\ conn[s].closed /\ hand[s] = None /\ chan[s] = <<>>
    /\ loop' = [loop EXCEPT ![s] = "returned"]
    /\ UNCHANGED <<size, call, conn, hand, chan, heard, missed>>

Sub(s) == Receive(s) \/ CallbackReturns(s) \/ Return(s)

Redis(s) == Connect(s) \/ Break(s) \/ Close(s) \/ Read(s) \/ Put(s) \/ Drop(s)

Next ==
    \/ \E m \in Messages : Pub(m) \/ PubFails(m) \/ PubReturns(m) \/ Publish(m)
    \/ \E s \in Subscribers : Sub(s) \/ Redis(s)

\* The goroutine of Sub spins, so it is there when a message is; callbacks
\* return, and go-redis reads what has come.
Fairness ==
    \A s \in Subscribers : WF_vars(Sub(s)) /\ WF_vars(Read(s)) /\ WF_vars(Put(s))

Spec == Init /\ [][Next]_vars /\ Fairness

-----------------------------------------------------------------------------
(* Properties.                                                             *)

InHand(s) == IF hand[s] = None THEN <<>> ELSE <<hand[s]>>

Owed == [s \in Subscribers |-> chan[s] \o InHand(s) \o conn[s].on]

Accepted == {m \in Messages : call[m].pc = "ok"}

(* The bus is the broadcast of Broadcast: when Pub has returned nil, every *)
(* process has heard of the deletion, is about to, or was away or blocked; *)
(* and it hears of deletions in the order in which Redis took them.        *)
AbstractBus == INSTANCE Broadcast WITH accepted <- Accepted, owed <- Owed

ImplementsBroadcast == AbstractBus!Spec

(* A deletion that has reached a process, or is on its way there, is given *)
(* to the callback, though nothing ever wakes the loop and the channel may *)
(* have no room: unless the connection breaks or a callback takes minutes. *)
TransitIsHeard ==
    \A m \in Messages, s \in Subscribers :
        m \in AbstractBus!InSeq(Owed[s]) ~> m \in heard[s] \cup missed[s]

=============================================================================
