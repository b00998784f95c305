--------------------------- MODULE PttMembership ---------------------------
(***************************************************************************)
(* What the push-to-talk registry promises to its callers: a relation      *)
(* between users and channels, and requests that each take effect on it    *)
(* exactly once, at one instant between their arrival and their answer.    *)
(*                                                                         *)
(* A "connect" request makes its channels the user's channels; a "leave"   *)
(* request (the one with an empty device token) gives up the channels it   *)
(* names and keeps the others.  PttRegistry is the program that implements *)
(* this with two maps, a lock, and a read that does not take the lock.     *)
(***************************************************************************)

EXTENDS PttRequests

VARIABLES
  member,     \* the channels of each user
  serving,    \* the request each goroutine serves
  applied     \* the goroutines whose request has taken effect

mvars == <<member, serving, applied>>

MembershipInit ==
  /\ member = [u \in Users |-> {}]
  /\ serving = [t \in Threads |-> NoRequest]
  /\ applied = {}

Accept(t, r) ==
  /\ serving[t] = NoRequest
  /\ serving' = [serving EXCEPT ![t] = r]
  /\ UNCHANGED <<member, applied>>

\* The channels a request leaves its user with.
Outcome(r) == IF r.kind = "connect" THEN r.chans ELSE member[r.user] \ r.chans

TakeEffect(t) ==
  /\ serving[t] # NoRequest /\ t \notin applied
  /\ member' = [member EXCEPT ![serving[t].user] = Outcome(serving[t])]
  /\ applied' = applied \cup {t}
  /\ UNCHANGED serving

Answer(t) ==
  /\ t \in applied
  /\ serving' = [serving EXCEPT ![t] = NoRequest]
  /\ applied' = applied \ {t}
  /\ UNCHANGED member

MembershipNext ==
  \E t \in Threads :
    \/ \E r \in Request : Accept(t, r)
    \/ TakeEffect(t)
    \/ Answer(t)

MembershipSpec == MembershipInit /\ [][MembershipNext]_mvars
=============================================================================
