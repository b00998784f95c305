----------------------------- MODULE MCDevices -----------------------------
(* Small instances of Devices for TLC. *)
EXTENDS Devices, TLC

Stranger == [known |-> FALSE, basic |-> "none", post |-> TRUE,
             query |-> [user |-> "", password |-> ""],
             form |-> [user |-> "", password |-> ""],
             app |-> FALSE, signature |-> [readable |-> FALSE, age |-> 0]]

App(age) == [Stranger EXCEPT !.app = TRUE,
                             !.signature = [readable |-> TRUE, age |-> age]]

\* An app with a fresh signature, with an old one and with one of the future; a
\* stranger; an admin by device, by password, and by neither of two halves.
SomeCallers ==
  {Stranger, App(10), App(11), App(-1),
   [Stranger EXCEPT !.known = TRUE],
   [Stranger EXCEPT !.basic = "right"],
   [Stranger EXCEPT !.query.user = "right", !.form.password = "right"],
   [Stranger EXCEPT !.basic = "wrong", !.query.user = "right", !.query.password = "right"]}

Symmetry == Permutations(Threads) \cup Permutations(Tokens)
=============================================================================
