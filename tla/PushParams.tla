----------------------------- MODULE PushParams -----------------------------
(***************************************************************************)
(* What a request to push asks for: how its parameters are collected,      *)
(* brought into form and completed (common/params.go), what its keys are,  *)
(* and which notification Apple (push/push.go) and Huawei (Harmony/push.go)*)
(* get for them.  Parameters are a function from the names a request gives *)
(* to values.  A name stands for all its spellings (NormalizeKey), of which *)
(* the request has one; a text of spaces is empty, a ring that is no number *)
(* is none of 10..60, and a sound is the sequence of its parts between dots.*)
(***************************************************************************)
EXTENDS Naturals, SequencesExt

CONSTANTS
  KeyLength   \* the length of a key of a device, for the keys there are

Keys == DOMAIN KeyLength

\* The value null of JSON: it counts as empty, but is printed as a text.
Null == "null"

Printed(value) == IF value = Null THEN "<nil>" ELSE value

Given(p, name) == name \in DOMAIN p

GetString(p, name) == IF Given(p, name) THEN Printed(p[name]) ELSE ""

Nan(p, name) == ~Given(p, name) \/ p[name] \in {"", Null}

\* What p gives, and what only q gives.
Over(p, q) ==
  [name \in DOMAIN p \cup DOMAIN q |-> IF name \in DOMAIN p THEN p[name] ELSE q[name]]

Set(p, name, value) == Over([n \in {name} |-> value], p)

Without(p, names) == [name \in DOMAIN p \ names |-> p[name]]

-----------------------------------------------------------------------------
(* Collecting *)

\* The names of what follows the keys in the path, by how much follows.
PathNames == <<<<"body">>, <<"title", "body">>, <<"title", "subtitle", "body">>>>

FromPath(texts) ==
  [name \in IF texts = <<>> THEN {} ELSE ToSet(PathNames[Len(texts)]) |->
     texts[CHOOSE i \in DOMAIN texts : PathNames[Len(texts)][i] = name]]

\* Body over query, query over path; the host of an admin under all of them.
HandlerParamsToMapOrder(r) ==
  Over(r.posted, Over(r.query,
    Over(FromPath(r.path), IF r.admin THEN [host |-> "address"] ELSE <<>>)))

\* A text of keys with commas between them, as a sequence, is split in the path
\* and in a JSON string (posted); in the query, in a form and in a JSON array
\* (listed) it is taken for one key, of no device.  The tool splits all of them.
Split(texts) == UNION {ToSet(text) : text \in texts}

Unsplit(texts) == Split({text \in texts : Len(text) = 1})

GivenKeys(r) ==
  CASE r.by = "mcp" -> Split(r.pathKeys \cup r.queryKeys \cup r.postedKeys \cup r.listedKeys)
    [] r.by = "http" ->
         Split(r.pathKeys \cup r.postedKeys) \cup Unsplit(r.queryKeys \cup r.listedKeys)

FilterShortStrings(keys, low, high) == {k \in keys : KeyLength[k] \in low..high}

\* The tool takes the AUTOCOPY of a model for yes or no, whatever its type.
normalizeMCPArgumentValue(value) ==
  CASE value \in {"true", "1", "number"} -> "1"
    [] value \in {"false", "0", "zero"} -> "0"
    [] OTHER -> value

Arguments(r) ==
  [name \in DOMAIN r.posted |->
     IF name = "autocopy" THEN normalizeMCPArgumentValue(r.posted[name]) ELSE r.posted[name]]

-----------------------------------------------------------------------------
(* Convenient forms *)

Aliases == <<"data", "content", "message", "text">>

\* The first alias that is given is the body, even if it is empty.
FromAlias(p) ==
  LET given == SelectSeq(Aliases, LAMBDA alias : Given(p, alias))
  IN  IF given = <<>> THEN p
      ELSE Set(Without(p, {given[1]}), "body", Printed(p[given[1]]))

\* Categories: some twenty more names are valid, too.
Valid(category) == category \in {"markdown", "myNotificationCategory", "reply"}

\* Markdown is the body rather than any alias, MD rather than MARKDOWN.
FromMarkdown(p) ==
  LET given == SelectSeq(<<"md", "markdown">>, LAMBDA name : Given(p, name))
  IN  IF given = <<>> THEN p
      ELSE Over([body |-> Printed(p[given[1]]), style |-> "markdown",
                 category |-> IF Valid(GetString(p, "category")) THEN p.category ELSE "markdown"],
                Without(p, {"md", "markdown"}))

IsCaf(sound) == Len(sound) > 1 /\ Last(sound) = "caf"

WithSuffix(p) ==
  IF Given(p, "sound") /\ ~IsCaf(p.sound) THEN Set(p, "sound", Append(p.sound, "caf")) ELSE p

ConvenientParamsHandler(p) == WithSuffix(FromMarkdown(FromAlias(p)))

-----------------------------------------------------------------------------
(* Kind of push, and defaults *)

\* Of the values of LOCATION that occur, only "url" has a scheme and a host.
PushType(p) ==
  LET empty == \A name \in {"title", "subtitle", "body", "ciphertext", "image"} : Nan(p, name)
  IN  CASE GetString(p, "location") = "url" -> "location"
        [] GetString(p, "location") # "url" /\ empty /\ ~Nan(p, "id") -> "background"
        [] GetString(p, "location") # "url" /\ ~empty -> "alert"
        [] OTHER -> "0"

\* Something to show where only the app could tell what.
WithBody(p) ==
  IF (~Nan(p, "ciphertext") \/ ~Nan(p, "image"))
       /\ \A name \in {"title", "subtitle", "body"} : Nan(p, name)
  THEN Set(p, "body", "-")
  ELSE p

Default == [autocopy |-> "0", level |-> "active", id |-> "uuid"]

Filled(p) == Over([name \in {name \in DOMAIN Default : Nan(p, name)} |-> Default[name]], p)

\* Mutated form of WithDefaults: a category that is given is taken as it is.
WithDefaultsIfAbsent(p) == Over(Filled(p), [category |-> "myNotificationCategory"])

WithDefaults(p) ==
  LET q == Filled(p)
  IN  IF Valid(GetString(q, "category")) THEN q
      ELSE Set(q, "category", "myNotificationCategory")

ParamsNanAndDefault(p) == IF PushType(p) = "0" THEN p ELSE WithDefaults(WithBody(p))

Collected(r) ==
  ConvenientParamsHandler(IF r.by = "mcp" THEN Arguments(r) ELSE HandlerParamsToMapOrder(r))

-----------------------------------------------------------------------------
(* Notifications *)

\* Names that are not passed on to the app as custom data of an alert.
skipParamNames ==
  {"devicekey", "devicekeys", "devicetoken", "title", "subtitle", "body", "sound", "category"}

\* What BatchPush and LocationPush send to Apple.
ApnsNotification(p, type) ==
  [collapse |-> GetString(p, "id"),
   shown    |-> IF type # "alert" THEN {}
                ELSE {GetString(p, name) : name \in {"title", "subtitle", "body"}},
   category |-> IF type = "alert" THEN GetString(p, "category") ELSE "",
   custom   |-> IF type = "location" THEN p ELSE Without(p, skipParamNames)]

normalizeSound(sound) ==
  LET bare == IF IsCaf(sound) THEN Front(sound) ELSE sound
  IN  IF Len(bare) = 1 THEN Append(bare, "mp3") ELSE bare

\* A call rings for ten to sixty seconds, and has a sound of its own if no other.
Rings(p) == Given(p, "call") /\ p.call \in 10..60

HuaweiSound(p) ==
  CASE Given(p, "sound") -> normalizeSound(p.sound)
    [] ~Given(p, "sound") /\ Rings(p) -> <<"call", "mp3">>
    [] OTHER -> <<>>

\* What AutoPush sends to Huawei: a background push revokes the notification of
\* its id.  The number of a notification is computed from the id alone.
HuaweiRequest(p, type) ==
  CASE type = "background" /\ GetString(p, "id") = "" -> [kind |-> "refused"]
    [] type = "background" /\ GetString(p, "id") # "" ->
         [kind |-> "revoke", notifyId |-> GetString(p, "id")]
    [] type # "background" ->
         [kind |-> "send", notifyId |-> GetString(p, "id"), sound |-> HuaweiSound(p),
          duration |-> IF Rings(p) THEN p.call ELSE 0]
=============================================================================
