------------------------------- MODULE Access -------------------------------
(***************************************************************************)
(* Who a caller is taken for: Verification, which every request passes,    *)
(* and GCMDecryptMiddleware, which guards the registration of devices      *)
(* (router/middleware.go).                                                 *)
(***************************************************************************)
EXTENDS Integers

CONSTANTS
  Account,   \* a user name and a password are configured
  SignKey    \* a sign key of ten characters or more is configured

ASSUME AccessAssumption == Account \in BOOLEAN /\ SignKey \in BOOLEAN

\* A name or password: left empty, that of the account, or another one.
Field == {"", "right", "wrong"}

\* What a request says of its caller.  Decrypt finds no time in a signature
\* that is missing, garbled, or made with another key; the age is that of the
\* time it finds, negative if it lies ahead.
Caller == [known     : BOOLEAN,                       \* X-Device is one of Auths
           basic     : {"none", "right", "wrong"},    \* basic authentication
           post      : BOOLEAN,
           query     : [user : Field, password : Field],
           form      : [user : Field, password : Field],
           app       : BOOLEAN,                       \* the User-Agent is the app's
           signature : [readable : BOOLEAN, age : Int]]

\* Name and password are looked for in the query, and in the form of a POST.
Given(c, field) ==
  IF c.query[field] = "" /\ c.post THEN c.form[field] ELSE c.query[field]

\* Basic authentication, if present, decides, even against a right query.
Admin(c) ==
  \/ c.known
  \/ /\ Account
     /\ IF c.basic # "none"
        THEN c.basic = "right"
        ELSE \A field \in {"user", "password"} : Given(c, field) = "right"

\* A signature is good for ten seconds.
Fresh(signature) == signature.readable /\ signature.age \in 0..10

Admitted(c) == Admin(c) \/ (c.app /\ (SignKey => Fresh(c.signature)))
=============================================================================
