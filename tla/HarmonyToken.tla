---------------------------- MODULE HarmonyToken ----------------------------
(***************************************************************************)
(* The token with which the server signs in to Huawei (Harmony/JWT.go): a  *)
(* token and the time it is kept until, two variables of the package that  *)
(* every request reads and writes without a lock.                          *)
(*                                                                         *)
(* The unit of time is half of the five minutes a token is valid for after *)
(* it is no longer kept; it is kept for CacheAge units instead of 22.      *)
(* Requests race: the stores of one come between the steps of another.     *)
(* What is assumed of time: to build a token and store it takes up to one  *)
(* unit, to compare the time and then return takes less.  A processor that *)
(* orders stores as the program does (amd64) shows the token first; on     *)
(* others (arm64) the time it is kept until may be seen before it.         *)
(***************************************************************************)
EXTENDS Integers

CONSTANTS
  Threads,    \* goroutines that serve requests
  CacheAge,   \* for how many units a token is kept
  MaxClock    \* bound: of the time

ASSUME HarmonyTokenAssumption == CacheAge \in Nat \ {0} /\ MaxClock \in Nat

VARIABLES
  clock,
  setup,       \* the processor and the credentials, which stay as they are
  token,       \* when the token was issued
  expiration,  \* until when it is kept
  step,        \* where a thread is in GetToken
  made         \* when the token was issued that a thread has built

tokenVars == <<clock, setup, token, expiration, step, made>>

NoToken == -1

\* ordered: the processor orders stores as the program does.  credentials: key
\* id, sub-account and private key are there and the key is one, or they are not.
Setups == [ordered : BOOLEAN, credentials : {"good", "unreadable", "missing"}]

\* A token is good for an hour, five minutes longer than it is kept.
Life == CacheAge + 2

Times == 0..MaxClock

TokenTypeOK ==
  /\ clock \in Times
  /\ setup \in Setups
  /\ token \in Times \cup {NoToken}
  /\ expiration \in 0..(MaxClock + Life)
  /\ step \in [Threads -> {"none", "check", "build", "store", "storeToken", "storeTime",
                           "clearTime", "clearToken", "read", "returned", "failed"}]
  /\ made \in [Threads -> Times \cup {NoToken}]

TokenInit ==
  /\ clock = 0
  /\ setup \in Setups
  /\ token = NoToken
  /\ expiration = 0
  /\ step = [t \in Threads |-> "none"]
  /\ made = [t \in Threads |-> NoToken]

GoOn(t, from, to) == step[t] = from /\ step' = [step EXCEPT ![t] = to]

\* A request is about to ask for a token, or is refused before that.
Ask(t, next) ==
  /\ GoOn(t, "none", next)
  /\ UNCHANGED <<clock, setup, token, expiration, made>>

\* The expiration is always a moment of the past when it is not ahead.
Check(t) ==
  /\ GoOn(t, "check", IF setup.credentials = "missing" THEN "failed"
                      ELSE IF expiration <= clock THEN "build" ELSE "read")
  /\ UNCHANGED <<clock, setup, token, expiration, made>>

Build(t) ==
  /\ setup.credentials = "good"
  /\ GoOn(t, "build", "store")
  /\ made' = [made EXCEPT ![t] = clock]
  /\ UNCHANGED <<clock, setup, token, expiration>>

\* A key that cannot be read: the token is empty, and emptied once more after the
\* time was set.
BuildFails(t) ==
  /\ setup.credentials # "good"
  /\ GoOn(t, "build", "clearTime")
  /\ token' = NoToken
  /\ UNCHANGED <<clock, setup, expiration, made>>

ClearTime(t) ==
  /\ GoOn(t, "clearTime", "clearToken")
  /\ expiration' = clock
  /\ UNCHANGED <<clock, setup, token, made>>

ClearToken(t) ==
  /\ GoOn(t, "clearToken", "failed")
  /\ token' = NoToken
  /\ UNCHANGED <<clock, setup, expiration, made>>

StoreToken(t) ==
  /\ GoOn(t, "store", "storeTime") \/ GoOn(t, "storeToken", "read")
  /\ token' = made[t]
  /\ UNCHANGED <<clock, setup, expiration, made>>

\* Mutated form of Until: a token is kept for as long as it is good.
UntilItEnds == clock + Life

Until == clock + CacheAge

StoreTime(t) ==
  /\ GoOn(t, "storeTime", "read") \/ (~setup.ordered /\ GoOn(t, "store", "storeToken"))
  /\ expiration' = Until
  /\ UNCHANGED <<clock, setup, token, made>>

\* What token then holds is returned.
Return(t) ==
  /\ GoOn(t, "read", "returned")
  /\ made' = [made EXCEPT ![t] = NoToken]
  /\ UNCHANGED <<clock, setup, token, expiration>>

\* A request is done with its call, or with having no token for it.
Leave(t) ==
  /\ GoOn(t, "returned", "none") \/ GoOn(t, "failed", "none")
  /\ UNCHANGED <<clock, setup, token, expiration, made>>

GetToken(t) ==
  \/ Check(t)
  \/ Build(t) \/ StoreToken(t) \/ StoreTime(t)
  \/ BuildFails(t) \/ ClearTime(t) \/ ClearToken(t)
  \/ Return(t)

\* Time matters from when the first token is asked for.
Tick ==
  /\ clock < MaxClock
  /\ token # NoToken \/ \E t \in Threads : step[t] # "none"
  /\ \A t \in Threads : step[t] \in {"store", "storeToken", "storeTime", "read"} =>
       step[t] # "read" /\ clock = made[t]
  /\ clock' = clock + 1
  /\ UNCHANGED <<setup, token, expiration, step, made>>

\* Requests that ask for tokens, in any order.
TokenNext ==
  \/ \E t \in Threads :
       Ask(t, "check") \/ Ask(t, "failed") \/ GetToken(t) \/ Leave(t)
  \/ Tick

TokenSpec == TokenInit /\ [][TokenNext]_tokenVars

-----------------------------------------------------------------------------
(* Property *)

\* GetToken never returns a token that Huawei would refuse, one that is empty or
\* out of date, however requests race to renew it, where stores are seen in order:
\* the five minutes of JWT.go's comment are enough for two late requests.
ReturnedTokensAreValid ==
  [][setup.ordered => \A t \in Threads :
       step[t] = "read" /\ step'[t] = "returned" =>
         token # NoToken /\ clock < token + Life]_tokenVars
=============================================================================
