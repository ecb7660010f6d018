----------------------------- MODULE MCCacheBus -----------------------------
EXTENDS CacheBus

\* No buffer, which is what a configuration without `size' gives, and one
\* that two messages fill.
MCSizes == {0, 1}

=============================================================================
