---------------------------- MODULE MCFastHttp ------------------------------
EXTENDS FastHttp, TLC

\* No cookie, or two that are not in order.
MCSetCookies == {<<>>, <<2, 1>>}

\* Any response of the pool serves as well as another, and any connection.
Symmetry == Permutations(Buffers) \cup Permutations(Conns)

=============================================================================
