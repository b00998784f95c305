---------------------------- MODULE MCPttPersist ----------------------------
(* Small instances of PttPersist for TLC. *)
EXTENDS PttPersist, TLC

Symmetry == Permutations(Users) \cup Permutations(Chans) \cup Permutations(Threads)
=============================================================================
