---------------------------- MODULE MCPttEvents ----------------------------
(* Small instances of PttEvents for TLC. *)
EXTENDS PttEvents, TLC

Symmetry == Permutations(Threads) \cup Permutations(Users) \cup Permutations(Chans)
              \cup Permutations(Conns)
=============================================================================
