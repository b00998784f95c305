---------------------------- MODULE PttRequests ----------------------------
(***************************************************************************)
(* The requests of the push-to-talk service, JoinParams in                 *)
(* controller/PushToTalk/models.go: who asks, and for which channels.  The *)
(* list of channels is a set: SyncChannels and PttConnect put it in a map  *)
(* before they compare it, and its order reaches no state.                 *)
(***************************************************************************)

CONSTANTS
  Users,      \* user ids
  Chans,      \* channel names
  Threads,    \* goroutines that serve HTTP requests
  Lists,      \* the sets of channels a request may name
  NoRequest   \* what an idle goroutine serves

\* "connect" carries a device token; "leave" is the request whose token is empty.
Request == [kind : {"connect", "leave"}, user : Users, chans : Lists]

ASSUME RequestAssumption ==
  /\ Lists \subseteq SUBSET Chans
  /\ NoRequest \notin Request
=============================================================================
