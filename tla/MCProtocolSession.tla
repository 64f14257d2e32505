------------------------- MODULE MCProtocolSession -------------------------
(* Bounds for TLC: an account without a password, one with, and no account. *)
EXTENDS ProtocolSession, TLC

SomeUsers == {"root", "test", "nobody"}
SomeSecrets == {"", "test"}
SomeSeqs == {255}
SomeRowCounts == {0, 2}

NameSymmetry == Permutations(Challenges) \cup Permutations(Databases)
=============================================================================
