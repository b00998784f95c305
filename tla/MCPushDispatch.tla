--------------------------- MODULE MCPushDispatch ---------------------------
(* Small instances of PushDispatch for TLC. *)
EXTENDS PushDispatch

\* Two phones, one of which is registered twice, with the same address for location
\* but another token; a phone of Huawei; a restored key without a device; keys of
\* no device, one of them too long.
MCKeyLength ==
  [k1 |-> 22, k2 |-> 22, k3 |-> 22, k4 |-> 22, k5 |-> 5, none |-> 22, long |-> 70]

Phone(key, address, location, group, os) ==
  [key |-> key, token |-> address, talk |-> "", location |-> location, group |-> group, os |-> os]

MCTable ==
  <<Phone("k1", "a", "l", "g", "apple"), Phone("k2", "b", "", "g", "apple"),
    Phone("k3", "c", "", "", "harmony"), Phone("k4", "d", "l", "", "apple"),
    Phone("k5", "", "", "", "apple")>>

Setup == [ordered |-> TRUE, credentials |-> "good"]

Plain ==
  [by |-> "http", admin |-> FALSE, path |-> <<>>, query |-> <<>>, posted |-> [body |-> "text"],
   pathKeys |-> {}, queryKeys |-> {}, postedKeys |-> {}, listedKeys |-> {},
   tokens |-> <<>>, groups |-> {}]

ToKeys(keys) == [Plain EXCEPT !.postedKeys = {keys}]

ByTool(r) == [r EXCEPT !.by = "mcp"]

Alone(r) == [t \in Threads |-> IF t = "t1" THEN r ELSE NoRequest]

Two(r, q) == [t \in Threads |-> CASE t = "t1" -> r [] t = "t2" -> q [] OTHER -> NoRequest]

Where(r) == [r EXCEPT !.posted = [location |-> "url"]]

\* Requests that meet each other: of all kinds, and of two ways to name devices.
Meetings ==
  {Two(ByTool(ToKeys(<<"k1">>)), [ToKeys(<<"k1", "k2">>) EXCEPT !.posted = [location |-> "url"]]),
   Two(ToKeys(<<"k1", "k3">>), ToKeys(<<"k2">>))}

\* Every way to give a value or two, by query, body and tool.
RingValues ==
  {<<"sound", <<"">>>>, <<"sound", <<"bell", "caf">>>>, <<"call", 9>>, <<"call", 60>>}

Values ==
  RingValues
    \cup {<<n, v>> : n \in {"title", "body", "data", "md"}, v \in {"", "text", Null}}
    \cup {<<n, v>> : n \in {"text", "markdown", "image", "ciphertext", "id"}, v \in {"", "text"}}
    \cup {<<"location", "url">>, <<"location", "text">>, <<"sound", <<"bell">>>>,
          <<"category", "reply">>, <<"category", "other">>, <<"autocopy", "true">>}

Param(value) == [name \in {value[1]} |-> value[2]]

Odd ==
  {[Plain EXCEPT !.pathKeys = {<<"k1">>}, !.query = Param(v), !.posted = Param(w)] :
     v \in Values, w \in Values}
    \cup {[Plain EXCEPT !.pathKeys = {<<"k3">>}, !.query = Param(v), !.posted = Param(w)] :
            v \in RingValues, w \in {<<"body", "text">>, <<"id", "text">>, <<"sound", <<"bell">>>>}}
    \cup {[Plain EXCEPT !.by = "mcp", !.pathKeys = {<<"k1">>}, !.posted = Param(v) @@ Param(w)] :
            v \in Values, w \in Values}

\* Every way to name devices; a group not with keys in the path as well, and a
\* list of keys in place of the text and without a token.
Named ==
  {r \in {[Plain EXCEPT !.by = by, !.admin = admin, !.path = path,
                 !.pathKeys = pathKeys, !.queryKeys = queryKeys, !.postedKeys = postedKeys,
                 !.listedKeys = listedKeys, !.tokens = tokens, !.groups = groups] :
     by \in {"http", "mcp"}, admin \in BOOLEAN,
     path \in {<<>>, <<"text">>, <<"text", "text", "text">>},
     pathKeys \in {{}, {<<"k5", "k2">>}}, queryKeys \in {{}, {<<"long">>, <<"k4", "none">>, <<"k4">>}},
     postedKeys \in {{}, {<<"k1", "k2">>}}, listedKeys \in {{}, {<<"k1", "k2">>, <<"k1">>}},
     tokens \in {<<>>, <<"a">>}, groups \in {{}, {"g"}}} :
     /\ r.path # <<>> <=> r.by = "http" /\ r.pathKeys # {}
     /\ r.listedKeys # {} => r.postedKeys = {} /\ r.tokens = <<>> /\ ~r.admin
     /\ r.groups # {} => r.pathKeys = {}}

\* A group without a name is that of the devices without a group.
Nameless == {[ToKeys(<<"k1", "k2">>) EXCEPT !.groups = {""}],
             [Plain EXCEPT !.groups = {""}, !.admin = TRUE]}

MCScenarios ==
  {[setup |-> Setup, requests |-> w] :
     w \in Meetings \cup {Alone(r) : r \in Odd \cup Named \cup Nameless}}
    \cup {[setup |-> Setup, requests |-> [t \in Threads |-> ToKeys(<<"k3">>)]]}
    \cup {[setup |-> s, requests |-> Two(ToKeys(<<"k3">>), ToKeys(<<"k3">>))] : s \in Setups \ {Setup}}
=============================================================================
