--------------------------- MODULE MCIpdbUpdater ----------------------------
EXTENDS IpdbUpdater

CONSTANTS v1, v2

\* A release of one block and one of two: the longer one can be cut short,
\* and the shorter one leaves a tail of it if the file is not truncated.
MCVersions == {v1, v2}
MCLength == [v \in MCVersions |-> IF v = v1 THEN 1 ELSE 2]

=============================================================================
