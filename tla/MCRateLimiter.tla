--------------------------- MODULE MCRateLimiter ----------------------------
EXTENDS RateLimiter

\* One second is three ticks: a key's expiry, which SET rounds up to whole
\* seconds, can then be one or two ticks after its TAT, and before it if the
\* rounding went the wrong way.
MCTicksPerSecond == 3

\* Three callers that disagree about the limit of the key they share: three
\* events a second in bursts of three, one and a half in bursts of two, and
\* one with no burst.  An interval of one, two and three ticks.
MCLimits == {PerSecond(3),
             [interval |-> 2, burst |-> 2],
             PerSecond(1)}

\* The largest of their burst offsets.
MCMaxOffset == 4

=============================================================================
