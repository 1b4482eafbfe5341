----------------------------- MODULE MCClientCalls -----------------------------
(* Every input of each function within small bounds.                       *)
EXTENDS ClientCalls

(* Error trees of five nodes, in the order of the walk.                    *)
MCNode == 1..5

MCParents ==
  {parent \in [Node -> 0..4] : parent[1] = 0 /\ \A k \in 2..5 : parent[k] \in 1..k-1}

(* Two-digit numbers, with and without leading zeros, and one too large.   *)
MCModels ==
  Licensed \cup
  [major : {<<4>>, <<5>>, <<1, 0>>, <<0, 5>>, <<1, 0, 0>>},
   minor : {<<0>>, <<4>>, <<5>>, <<1, 0>>, <<0, 4>>, <<4, 9>>, <<1, 0, 0>>},
   rest  : {"", "-codex"}]

(* Ten units of time to the second, sixty seconds' margin, 17-bit times.   *)
MCAnswers ==
  {[got |-> "nothing"]}
  \cup [got : {"refusal"}, error : {"invalid_grant", "invalid_client", "odd", ""}]
  \cup [got : {"success"}, json : BOOLEAN, access : {"", "a2"}, refresh : {"", "r2"},
        expires_in : {-1, 0, 30, 60, 61, 3600, 7000}]

MCEntries ==
  {NoEntry} \cup [access : {"", "a1"}, refresh : {"r1"}, expires : {0, 1600, 1601, 9000}]
            \cup [access : {"a1"}, refresh : {""}, expires : {1600, 1601}]

MCTimes == {1000, 1009, 1010, 36399, 36400}

MCBaseErrors == {NoError, Failure("", {})}

(* Hosts with dots, cleartext and other schemes; escaped slashes, empty    *)
(* segments and those that path.Clean removes.                             *)
MCHosts == [name : {"localhost", "example.com"}, dots : 0..2] \cup {NoHost}

MCSegments == {<<"a">>, <<"a", "b">>, <<"">>, <<"..">>, <<"models">>}

MCEndpoints ==
  {NoEndpoint}
  \cup [scheme : {"http", "https", "ftp"}, user : {"", "u"}, host : MCHosts,
        path : UNION {[1..n -> MCSegments] : n \in 0..3}, query : {"", "q"},
        fragment : {""}]

MCDefault ==
  [scheme |-> "https", user |-> "", host |-> [name |-> "chatgpt.com", dots |-> 0],
   path |-> <<"backend-api", "codex", "responses">>, query |-> "", fragment |-> ""]

Elsewhere(scheme) ==
  [scheme |-> scheme, user |-> "u", host |-> [name |-> "elsewhere.org", dots |-> 0],
   path |-> <<"a">>, query |-> "v", fragment |-> ""]

MCRequests == {Elsewhere("https"), Elsewhere("http"), MCDefault}

MCRedirects ==
  {<<>>, <<Elsewhere("http")>>, <<MCDefault>>, <<Elsewhere("https"), MCDefault>>}

(* Catalogs of up to three entries.                                        *)
MCKinds == [flaw : {"", "effort"}, visibility : {"list", "hide"}, priority : {-1, 0, 2}]

MCCatalogs ==
  {[i \in DOMAIN kinds |->
      [slug |-> i, flaw |-> kinds[i].flaw, visibility |-> kinds[i].visibility,
       priority |-> kinds[i].priority]] : kinds \in UNION {[1..n -> MCKinds] : n \in 0..3}}

MCResponses ==
  [status : {"2xx"}, body : {"models"}, models : MCCatalogs]
  \cup [status : {"2xx"}, models : {<<>>},
        body : {"broken", "too long", "not JSON", "more than one", "no models"}]
  \cup [status : {"other"}, body : {"models"}, models : {<<>>}]

MCIDTokens ==
  [segments : 1..3, text : 4..7, pad : 0..4, base64 : BOOLEAN, json : BOOLEAN,
   claims : [chatgpt_account_id : {"", "a"}, auth_account_id : {"", "b"},
             organization_id : {"", "c"},
             organizations : {<<>>, <<"">>, <<"d">>, <<"", "e">>, <<"d", "e">>}]]
=============================================================================
