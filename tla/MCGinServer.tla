---------------------------- MODULE MCGinServer -----------------------------
EXTENDS GinServer, TLC

\* A struct with a field and a struct that has a field of the same name.
MCFields == << <<"Name">>, <<"Owner", "Name">>, <<"Owner", "Age">> >>

MCSymmetry == Permutations(Requests)

=============================================================================
