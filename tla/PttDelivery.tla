---------------------------- MODULE PttDelivery ----------------------------
(***************************************************************************)
(* What the push-to-talk service promises of a recording: once it has been *)
(* taken, its listeners are chosen at one instant and for good, its sender *)
(* is none of them, and for each of them the recording is due until it has *)
(* been pushed, has failed or was dropped, once and for ever.  PttVoice is *)
(* the program that implements this with two queues and two kinds of       *)
(* goroutines.                                                             *)
(***************************************************************************)

CONSTANTS
  Users, Messages,
  SenderOf    \* the id a recording says it is from

VARIABLES
  taken,      \* the recordings the service has accepted
  chosen,     \* those whose listeners are chosen
  due,        \* who is still to hear what
  settled     \* what became of the rest

dvars == <<taken, chosen, due, settled>>

Outcomes == {"pushed", "failed", "dropped"}

DeliveryInit ==
  /\ taken = {}
  /\ chosen = {}
  /\ due = {}
  /\ settled = [e \in Outcomes |-> {}]

Take(m) ==
  /\ m \notin taken
  /\ taken' = taken \cup {m}
  /\ UNCHANGED <<chosen, due, settled>>

Choose(m, listeners) ==
  /\ m \in taken \ chosen
  /\ SenderOf[m] \notin listeners
  /\ chosen' = chosen \cup {m}
  /\ due' = due \cup [msg : {m}, user : listeners]
  /\ UNCHANGED <<taken, settled>>

Settle(k, e) ==
  /\ k \in due
  /\ due' = due \ {k}
  /\ settled' = [settled EXCEPT ![e] = @ \cup {k}]
  /\ UNCHANGED <<taken, chosen>>

DeliveryNext ==
  \/ \E m \in Messages : Take(m) \/ \E listeners \in SUBSET Users : Choose(m, listeners)
  \/ \E k \in due, e \in Outcomes : Settle(k, e)

DeliverySpec == DeliveryInit /\ [][DeliveryNext]_dvars
=============================================================================
