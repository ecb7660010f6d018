----------------------------- MODULE Broadcast ------------------------------
(***************************************************************************)
(* What the cache bus promises its users, without connections, channels or *)
(* retries: a message whose publication succeeded is owed to every         *)
(* subscriber or counted among those it misses; what is owed is heard in   *)
(* the order in which it was published, each time it was published.        *)
(***************************************************************************)
EXTENDS Naturals, Sequences

CONSTANTS Messages, Subscribers

VARIABLES accepted,  \* the messages whose publisher was told of success
          owed,      \* owed[s]: what s is going to hear, in order
          heard,     \* heard[s]: what s has heard so far
          missed     \* missed[s]: what s was not told once at least

vars == <<accepted, owed, heard, missed>>

Init ==
    /\ accepted = {}
    /\ owed = [s \in Subscribers |-> <<>>]
    /\ heard = [s \in Subscribers |-> {}]
    /\ missed = [s \in Subscribers |-> {}]

InSeq(q) == {q[i] : i \in 1..Len(q)}

\* A message may be published more than once, by the retries of one call.
Publish(m) ==
    \E reached \in SUBSET Subscribers :
        /\ owed' = [s \in Subscribers |->
                       IF s \in reached THEN Append(owed[s], m) ELSE owed[s]]
        /\ missed' = [s \in Subscribers |->
                         IF s \in reached THEN missed[s] ELSE missed[s] \cup {m}]
        /\ UNCHANGED <<accepted, heard>>

Accept(m) ==
    /\ \A s \in Subscribers : m \in InSeq(owed[s]) \cup heard[s] \cup missed[s]
    /\ accepted' = accepted \cup {m}
    /\ UNCHANGED <<owed, heard, missed>>

Hear(s) ==
    /\ owed[s] # <<>>
    /\ owed' = [owed EXCEPT ![s] = Tail(@)]
    /\ heard' = [heard EXCEPT ![s] = @ \cup {Head(owed[s])}]
    /\ UNCHANGED <<accepted, missed>>

\* Some of what is owed is lost: all that comes after the first n, or the
\* one that does.
Miss(s) ==
    \E n \in 0..(Len(owed[s]) - 1) :
        LET kept == SubSeq(owed[s], 1, n)
            rest == SubSeq(owed[s], n + 1, Len(owed[s]))
        IN  \/ /\ owed' = [owed EXCEPT ![s] = kept]
               /\ missed' = [missed EXCEPT ![s] = @ \cup InSeq(rest)]
               /\ UNCHANGED <<accepted, heard>>
            \/ /\ owed' = [owed EXCEPT ![s] = kept \o Tail(rest)]
               /\ missed' = [missed EXCEPT ![s] = @ \cup {Head(rest)}]
               /\ UNCHANGED <<accepted, heard>>

Next ==
    \/ \E m \in Messages : Publish(m) \/ Accept(m)
    \/ \E s \in Subscribers : Hear(s) \/ Miss(s)

Spec == Init /\ [][Next]_vars

=============================================================================
