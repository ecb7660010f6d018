------------------------ MODULE MCRateLimiterClient -------------------------
EXTENDS RateLimiterClient

\* One second is one tick; one event a second, bursts of two.
OneLimit == [interval |-> 1, burst |-> 2]

MCLimits == {OneLimit}

\* One request per operation, the scripts' for the whole burst: two of them
\* never fit together.
WholeBursts == {q \in Request : q.n = OneLimit.burst}

=============================================================================
