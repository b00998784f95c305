------------------------- MODULE HarmonyTokenProofs -------------------------
(***************************************************************************)
(* Theorems about the token of HarmonyToken, for any number of requests,   *)
(* any age and any time, whether requests only ask for tokens (TokenSpec)  *)
(* or push to devices with them (DispatchSpec).                            *)
(***************************************************************************)
EXTENDS PushDispatch, TLAPS

-----------------------------------------------------------------------------
(* Types *)

\* The numbers that the types speak of.
LEMMA TokenNumbers ==
  /\ CacheAge \in Nat /\ CacheAge > 0 /\ MaxClock \in Nat /\ Life = CacheAge + 2
  /\ Times = 0..MaxClock /\ NoToken = -1
BY HarmonyTokenAssumption DEF Life, Times, NoToken

\* A step of GetToken keeps the types.
LEMMA GetTokenTypes ==
  ASSUME TokenTypeOK, NEW t \in Threads, GetToken(t)
  PROVE  TokenTypeOK'
<1>1. CASE Check(t)
  BY <1>1 DEF Check, GoOn, TokenTypeOK
<1>2. CASE Build(t) \/ BuildFails(t) \/ ClearToken(t)
  BY <1>2 DEF Build, BuildFails, ClearToken, GoOn, TokenTypeOK
<1>3. CASE StoreToken(t)
  BY <1>3 DEF StoreToken, GoOn, TokenTypeOK
<1>4. CASE StoreTime(t) \/ ClearTime(t)
  <2>1. expiration' \in 0..(MaxClock + Life)
    BY <1>4, TokenNumbers DEF StoreTime, ClearTime, Until, TokenTypeOK
  <2> QED BY <1>4, <2>1 DEF StoreTime, ClearTime, GoOn, TokenTypeOK
<1>5. CASE Return(t)
  BY <1>5 DEF Return, GoOn, TokenTypeOK
<1> QED BY <1>1, <1>2, <1>3, <1>4, <1>5 DEF GetToken

\* Every step keeps the types.
LEMMA TokenTypesKept ==
  TokenTypeOK /\ [TokenNext]_tokenVars => TokenTypeOK'
<1> SUFFICES ASSUME TokenTypeOK, [TokenNext]_tokenVars PROVE TokenTypeOK'
  OBVIOUS
<1>1. ASSUME NEW t \in Threads, Ask(t, "check") \/ Ask(t, "failed") \/ Leave(t)
      PROVE  TokenTypeOK'
  BY <1>1 DEF Ask, Leave, GoOn, TokenTypeOK
<1>2. CASE Tick
  <2>1. clock' \in Times
    BY <1>2, TokenNumbers DEF Tick, TokenTypeOK
  <2> QED BY <1>2, <2>1 DEF Tick, TokenTypeOK
<1>3. CASE UNCHANGED tokenVars
  BY <1>3 DEF tokenVars, TokenTypeOK
<1> QED BY <1>1, <1>2, <1>3, GetTokenTypes DEF TokenNext

\* They hold at first.
LEMMA TokenInitTypes == TokenInit => TokenTypeOK
BY TokenNumbers DEF TokenInit, TokenTypeOK

-----------------------------------------------------------------------------
(* Tokens *)

\* A token that is about to be stored has just been built.
BuiltAreFresh ==
  \A t \in Threads : step[t] \in {"store", "storeTime"} =>
    made[t] # NoToken /\ made[t] <= clock /\ clock <= made[t] + 1

\* The time is stored after the token, which others may have replaced since, by
\* one that was built at most a unit earlier.
TimesFollowTokens ==
  \A t \in Threads :
    /\ step[t] # "storeToken"
    /\ step[t] = "storeTime" => token # NoToken /\ token >= made[t] - 1

\* A token is not kept for longer than it is good, nor than the cache's age.
KeptTokensAreGood ==
  /\ expiration > clock => token # NoToken /\ expiration <= token + Life
  /\ expiration <= clock + CacheAge

\* What is about to be returned is good.
ReadTokensAreGood ==
  \A t \in Threads : step[t] = "read" => token # NoToken /\ clock < token + Life

\* With credentials that are not good nothing is ever built, with good ones no
\* token is emptied.
NothingFromBadCredentials ==
  /\ setup.credentials # "good" =>
       /\ expiration <= clock
       /\ \A t \in Threads : step[t] \notin {"store", "storeToken", "storeTime", "read"}
  /\ setup.credentials = "good" =>
       \A t \in Threads : step[t] \notin {"clearTime", "clearToken"}

\* What makes the tokens that are returned valid, on a processor that orders stores.
TokenInv ==
  /\ BuiltAreFresh
  /\ TimesFollowTokens
  /\ KeptTokensAreGood
  /\ ReadTokensAreGood
  /\ NothingFromBadCredentials

\* The types of what the arithmetic below is about.
LEMMA TokenIntegers ==
  ASSUME TokenTypeOK
  PROVE  /\ clock \in Int /\ token \in Int /\ expiration \in Int
         /\ clock >= 0
         /\ \A t \in Threads : made[t] \in Int
BY TokenNumbers DEF TokenTypeOK

\* GetToken, on a processor that orders stores, keeps TokenInv.
LEMMA GetTokenKeeps ==
  ASSUME TokenTypeOK, setup.ordered, TokenInv, NEW t \in Threads, GetToken(t)
  PROVE  TokenInv'
<1> USE TokenNumbers, TokenIntegers
<1>t. step \in [Threads -> {"none", "check", "build", "store", "storeToken", "storeTime",
                            "clearTime", "clearToken", "read", "returned", "failed"}]
      /\ made \in [Threads -> Times \cup {NoToken}]
  BY DEF TokenTypeOK
<1>1. CASE Check(t)
  <2>1. UNCHANGED <<clock, setup, token, expiration, made>>
        /\ \A u \in Threads :
             \/ step'[u] = step[u]
             \/ step'[u] \in {"failed", "build"}
             \/ step'[u] = "read" /\ ~(expiration <= clock)
    BY <1>1, <1>t DEF Check, GoOn
  <2>2. BuiltAreFresh' /\ TimesFollowTokens' /\ KeptTokensAreGood'
    BY <2>1 DEF TokenInv, BuiltAreFresh, TimesFollowTokens, KeptTokensAreGood
  <2>3. ReadTokensAreGood'
    BY <2>1 DEF TokenInv, KeptTokensAreGood, ReadTokensAreGood
  <2>4. NothingFromBadCredentials'
    BY <2>1 DEF TokenInv, NothingFromBadCredentials
  <2> QED BY <2>2, <2>3, <2>4 DEF TokenInv
<1>2. CASE Build(t)
  <2>1. UNCHANGED <<clock, setup, token, expiration>>
        /\ \A u \in Threads : \/ step'[u] = step[u] /\ made'[u] = made[u]
                              \/ step'[u] = "store" /\ made'[u] = clock
    BY <1>2, <1>t DEF Build, GoOn
  <2>2. BuiltAreFresh'
    BY <2>1 DEF TokenInv, BuiltAreFresh
  <2>3. TimesFollowTokens'
    BY <2>1 DEF TokenInv, TimesFollowTokens
  <2>4. KeptTokensAreGood' /\ ReadTokensAreGood'
    BY <2>1 DEF TokenInv, KeptTokensAreGood, ReadTokensAreGood
  <2>5. NothingFromBadCredentials'
    BY <1>2, <2>1 DEF Build, TokenInv, NothingFromBadCredentials
  <2> QED BY <2>2, <2>3, <2>4, <2>5 DEF TokenInv
<1>3. CASE BuildFails(t) \/ ClearTime(t) \/ ClearToken(t)
  <2>1. UNCHANGED <<clock, setup, made>> /\ expiration' \in {expiration, clock}
        /\ \A u \in Threads : IF u = t THEN step'[u] \in {"clearTime", "clearToken", "failed"}
                               ELSE step'[u] = step[u]
    BY <1>3, <1>t DEF BuildFails, ClearTime, ClearToken, GoOn
  <2>b. setup.credentials # "good"
    BY <1>3 DEF BuildFails, ClearTime, ClearToken, GoOn, TokenInv, NothingFromBadCredentials
  <2>2. \A u \in Threads : step'[u] \notin {"store", "storeToken", "storeTime", "read"}
    BY <2>1, <2>b DEF TokenInv, NothingFromBadCredentials
  <2>3. BuiltAreFresh' /\ TimesFollowTokens' /\ ReadTokensAreGood'
    BY <2>2 DEF BuiltAreFresh, TimesFollowTokens, ReadTokensAreGood
  <2>4. expiration' <= clock'
    BY <2>1, <2>b DEF TokenInv, NothingFromBadCredentials
  <2>5. KeptTokensAreGood' /\ NothingFromBadCredentials'
    BY <2>1, <2>2, <2>4, <2>b DEF KeptTokensAreGood, NothingFromBadCredentials
  <2> QED BY <2>3, <2>5 DEF TokenInv
<1>4. CASE StoreToken(t)
  <2>1. UNCHANGED <<clock, setup, expiration, made>> /\ token' = made[t]
        /\ step[t] = "store"
        /\ \A u \in Threads : step'[u] = IF u = t THEN "storeTime" ELSE step[u]
    BY <1>4, <1>t DEF StoreToken, GoOn, TokenInv, TimesFollowTokens
  <2>2. made[t] # NoToken /\ made[t] <= clock /\ clock <= made[t] + 1
    BY <2>1 DEF TokenInv, BuiltAreFresh
  <2>3. BuiltAreFresh'
    BY <2>1, <2>2 DEF TokenInv, BuiltAreFresh
  <2>4. TimesFollowTokens'
    BY <2>1, <2>2, <2>3 DEF TokenInv, BuiltAreFresh, TimesFollowTokens
  <2>5. KeptTokensAreGood' /\ ReadTokensAreGood'
    BY <2>1, <2>2 DEF TokenInv, KeptTokensAreGood, ReadTokensAreGood
  <2>6. NothingFromBadCredentials'
    BY <2>1 DEF TokenInv, NothingFromBadCredentials
  <2> QED BY <2>3, <2>4, <2>5, <2>6 DEF TokenInv
<1>5. CASE StoreTime(t)
  <2>1. UNCHANGED <<clock, setup, token, made>> /\ expiration' = clock + CacheAge
        /\ step[t] = "storeTime"
        /\ \A u \in Threads : step'[u] = IF u = t THEN "read" ELSE step[u]
    <3>1. step[t] = "storeTime" /\ step' = [step EXCEPT ![t] = "read"]
      BY <1>5, <1>t DEF StoreTime, GoOn
    <3>2. UNCHANGED <<clock, setup, token, made>> /\ expiration' = clock + CacheAge
      BY <1>5 DEF StoreTime, Until
    <3> QED BY <1>t, <3>1, <3>2
  <2>2. token # NoToken /\ clock <= token + 2
    <3>1. token # NoToken /\ token >= made[t] - 1
      BY <2>1 DEF TokenInv, TimesFollowTokens
    <3>2. clock <= made[t] + 1
      BY <2>1 DEF TokenInv, BuiltAreFresh
    <3>3. clock \in Int /\ token \in Int /\ made[t] \in Int
      OBVIOUS
    <3> QED BY ONLY <3>1, <3>2, <3>3
  <2>3. BuiltAreFresh' /\ TimesFollowTokens'
    BY <2>1 DEF TokenInv, BuiltAreFresh, TimesFollowTokens
  <2>4. KeptTokensAreGood'
    BY <2>1, <2>2 DEF KeptTokensAreGood
  <2>5. ReadTokensAreGood'
    BY <2>1, <2>2 DEF TokenInv, ReadTokensAreGood
  <2>6. NothingFromBadCredentials'
    BY <2>1 DEF TokenInv, NothingFromBadCredentials
  <2> QED BY <2>3, <2>4, <2>5, <2>6 DEF TokenInv
<1>6. CASE Return(t)
  <2>1. UNCHANGED <<clock, setup, token, expiration>>
        /\ \A u \in Threads : \/ step'[u] = step[u] /\ made'[u] = made[u]
                              \/ step'[u] = "returned"
    BY <1>6, <1>t DEF Return, GoOn
  <2>2. BuiltAreFresh' /\ TimesFollowTokens'
    BY <2>1 DEF TokenInv, BuiltAreFresh, TimesFollowTokens
  <2>3. KeptTokensAreGood' /\ ReadTokensAreGood' /\ NothingFromBadCredentials'
    BY <2>1 DEF TokenInv, KeptTokensAreGood, ReadTokensAreGood, NothingFromBadCredentials
  <2> QED BY <2>2, <2>3 DEF TokenInv
<1> QED BY <1>1, <1>2, <1>3, <1>4, <1>5, <1>6 DEF GetToken

\* Time goes on only when a token that was built is not stored too late.
LEMMA TickKeeps ==
  ASSUME TokenTypeOK, TokenInv, Tick
  PROVE  TokenInv'
<1> USE TokenNumbers, TokenIntegers
<1>1. UNCHANGED <<setup, token, expiration, step, made>> /\ clock' = clock + 1
      /\ \A t \in Threads : step[t] \in {"store", "storeToken", "storeTime", "read"} =>
           step[t] # "read" /\ clock = made[t]
  BY DEF Tick
<1>2. BuiltAreFresh' /\ TimesFollowTokens'
  BY <1>1 DEF TokenInv, BuiltAreFresh, TimesFollowTokens
<1>3. KeptTokensAreGood'
  BY <1>1 DEF TokenInv, KeptTokensAreGood
<1>4. ReadTokensAreGood'
  BY <1>1 DEF ReadTokensAreGood
<1>5. NothingFromBadCredentials'
  BY <1>1 DEF TokenInv, NothingFromBadCredentials
<1> QED BY <1>2, <1>3, <1>4, <1>5 DEF TokenInv

\* A request that comes or goes touches nothing but its own step.
LEMMA AskKeeps ==
  ASSUME TokenTypeOK, TokenInv, NEW t \in Threads,
         Ask(t, "check") \/ Ask(t, "failed") \/ Leave(t)
  PROVE  TokenInv'
<1>1. UNCHANGED <<clock, setup, token, expiration, made>>
      /\ \A u \in Threads : step'[u] = step[u] \/ step'[u] \in {"check", "failed", "none"}
  BY DEF Ask, Leave, GoOn, TokenTypeOK
<1>2. BuiltAreFresh' /\ TimesFollowTokens'
  BY <1>1 DEF TokenInv, BuiltAreFresh, TimesFollowTokens
<1>3. KeptTokensAreGood' /\ ReadTokensAreGood' /\ NothingFromBadCredentials'
  BY <1>1 DEF TokenInv, KeptTokensAreGood, ReadTokensAreGood, NothingFromBadCredentials
<1> QED BY <1>2, <1>3 DEF TokenInv

\* Every step keeps TokenInv where stores are seen in order.
LEMMA TokenInvKept ==
  TokenTypeOK /\ (setup.ordered => TokenInv) /\ [TokenNext]_tokenVars
    => (setup.ordered => TokenInv)'
<1> SUFFICES ASSUME TokenTypeOK, setup.ordered => TokenInv, [TokenNext]_tokenVars, setup'.ordered
             PROVE  TokenInv'
  OBVIOUS
<1>1. setup' = setup
  BY DEF TokenNext, Ask, Leave, GetToken, Check, Build, BuildFails, ClearTime, ClearToken,
         StoreToken, StoreTime, Return, Tick, tokenVars
<1>2. setup.ordered /\ TokenInv
  BY <1>1
<1>3. CASE UNCHANGED tokenVars
  BY <1>2, <1>3 DEF tokenVars, TokenInv, BuiltAreFresh, TimesFollowTokens, KeptTokensAreGood,
                    ReadTokensAreGood, NothingFromBadCredentials
<1> QED BY <1>2, <1>3, GetTokenKeeps, TickKeeps, AskKeeps DEF TokenNext

\* It holds at first, when no token has been asked for.
LEMMA TokenInitInv == TokenInit => TokenInv
BY TokenNumbers DEF TokenInit, TokenInv, BuiltAreFresh, TimesFollowTokens, KeptTokensAreGood,
                    ReadTokensAreGood, NothingFromBadCredentials

\* A step that returns a token returns one that is good.
LEMMA ReturnsAreValid ==
  ASSUME TokenTypeOK, setup.ordered => TokenInv, setup.ordered,
         NEW t \in Threads, step[t] = "read"
  PROVE  token # NoToken /\ clock < token + Life
BY DEF TokenInv, ReadTokensAreGood

\* However many requests ask for tokens, and however old they get: none is given
\* one that is empty or out of date.
THEOREM TokensReturnedAreValid == TokenSpec => ReturnedTokensAreValid
<1>1. TokenTypeOK /\ (setup.ordered => TokenInv) /\ [TokenNext]_tokenVars
        => (TokenTypeOK /\ (setup.ordered => TokenInv))'
  BY TokenTypesKept, TokenInvKept
<1>2. TokenTypeOK /\ (setup.ordered => TokenInv) =>
        [setup.ordered => \A t \in Threads :
           step[t] = "read" /\ step'[t] = "returned" =>
             token # NoToken /\ clock < token + Life]_tokenVars
  BY ReturnsAreValid
<1>3. TokenInit => TokenTypeOK /\ (setup.ordered => TokenInv)
  BY TokenInitTypes, TokenInitInv
<1> QED BY <1>1, <1>2, <1>3, PTL DEF TokenSpec, ReturnedTokensAreValid

-----------------------------------------------------------------------------
(* Tokens of requests that push *)


\* To the token, requests that push are requests that ask for tokens.
LEMMA DispatchStepsAskForTokens == [DispatchNext]_vars => [TokenNext]_tokenVars
<1> SUFFICES ASSUME [DispatchNext]_vars PROVE [TokenNext]_tokenVars
  OBVIOUS
<1>1. ASSUME NEW t \in Threads, Arrive(t) PROVE UNCHANGED tokenVars
  BY <1>1 DEF Arrive
<1>2. ASSUME NEW t \in Threads, Lookup(t) PROVE [TokenNext]_tokenVars
  BY <1>2 DEF Lookup, TokenNext
<1>3. ASSUME NEW t \in Threads, SignIn(t) PROVE TokenNext
  BY <1>3 DEF SignIn, TokenNext
<1>4. ASSUME NEW t \in Threads, NEW result \in Ended, HuaweiEnds(t, result) PROVE TokenNext
  BY <1>4 DEF HuaweiEnds, TokenNext
<1>5. ASSUME NEW t \in Threads, NEW i, Goroutine(t, i) PROVE UNCHANGED tokenVars
  BY <1>5 DEF Goroutine, NoAddress, TakeClient, PutBack, PushEnds, Push
<1>6. ASSUME NEW t \in Threads, Answer(t) PROVE UNCHANGED tokenVars
  BY <1>6 DEF Answer
<1>7. CASE StopServing \/ CloseClient \/ Exit \/ Time \/ UNCHANGED vars
  BY <1>7 DEF StopServing, CloseClient, Exit, Time, TokenNext, vars
<1> QED BY <1>1, <1>2, <1>3, <1>4, <1>5, <1>6, <1>7 DEF DispatchNext, GoOnWith

\* However many requests push to whatever devices: none signs in to Huawei with a
\* token that is empty or out of date.
THEOREM DispatchReturnsValidTokens == DispatchSpec => ReturnedTokensAreValid
<1>1. DispatchInit => TokenInit
  BY DEF DispatchInit
<1> QED BY <1>1, DispatchStepsAskForTokens, TokensReturnedAreValid, PTL DEF DispatchSpec, TokenSpec
=============================================================================
