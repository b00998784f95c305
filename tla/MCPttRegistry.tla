--------------------------- MODULE MCPttRegistry ---------------------------
(* Small instances of PttRegistry for TLC. *)
EXTENDS PttRegistry, TLC

Symmetry == Permutations(Users) \cup Permutations(Chans) \cup Permutations(Threads)
=============================================================================
