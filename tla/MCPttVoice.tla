----------------------------- MODULE MCPttVoice -----------------------------
(* Small instances of PttVoice for TLC. *)
EXTENDS PttVoice, TLC

CONSTANTS u1, u2, stranger, m1, m2, m3

\* Two recordings of members, and one that claims to be from nobody.
MCSenderOf == (m1 :> u1) @@ (m2 :> u2) @@ (m3 :> stranger)
=============================================================================
