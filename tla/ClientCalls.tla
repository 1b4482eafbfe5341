------------------------------- MODULE ClientCalls -------------------------------
(***************************************************************************)
(* One call of the parts of the client that keep no state between calls.   *)
(* Each action is a call with an input from a set that the model gives,    *)
(* and what it returns; GenerateVerifier (pkce.go) takes a step for each   *)
(* random byte.                                                            *)
(***************************************************************************)
EXTENDS Classifier, Allowlist, Pkce, SafeErrors, Endpoint, CatalogAnswer, AccountId

CONSTANTS
  Parents, Models,                  \* shapes of error trees, model names
  Answers, Entries, Times, Now,     \* of the token endpoint; stored; times
  Loads, BaseErrors,                \* of loadCreds and of the base transport
  Endpoints, Requests, Redirects,   \* raw endpoints, URLs, redirect targets
  Responses, IDTokens               \* of the models route; of a login

(* Times are milliseconds since 1970, which an int64 counts for 292 million *)
(* years.                                                                  *)
ASSUME ClientCallsAssumption ==
  /\ Parents \subseteq [Node -> Nat]
  /\ Models \subseteq Model
  /\ Answers \subseteq Answer
  /\ Now \in Nat /\ Times \subseteq Nat
  /\ \A t \in Times : t + Skew * Milli < Word \div 2
  /\ Endpoints \subseteq RawURL
  /\ Requests \subseteq URL(STRING) /\ Redirects \subseteq Seq(URL(STRING))
  /\ \A resp \in Responses :
       /\ resp.models \in Seq(modelCatalogWireEntry)
       /\ \A i \in DOMAIN resp.models : resp.models[i].slug = i
  /\ IDTokens \subseteq IDToken

VARIABLES
  call,   \* the function that is called and its input
  ret,    \* what it has returned
  gen     \* the state of GenerateVerifier's loop

callVars == <<call, ret, gen>>

NoCall == [f |-> "none"]

CallInit == call = NoCall /\ ret = <<>> /\ gen = NoVerifier

Idle == call.f = "none"

Returns(f, x, r) ==
  /\ call' = [f |-> f, x |-> x]
  /\ ret' = r
  /\ UNCHANGED gen

Classify ==
  /\ Idle
  /\ \E parent \in Parents, joined \in [Node -> BOOLEAN] :
       /\ IsTree(parent, joined)
       /\ \E code \in [Node -> Code] :
            LET t == [parent |-> parent, joined |-> joined, code |-> code]
            IN Returns("ClassifyCodexError", t, ClassifyCodexError(t))

Allow ==
  /\ Idle
  /\ \E m \in Models : Returns("IsCodexAllowed", m, IsCodexAllowed(m))

(* Status, a login or the first request of a client, Status again, and     *)
(* whether the token then stored is still used at a later time.            *)
UseEntry ==
  /\ Idle
  /\ \E logsIn \in BOOLEAN, a \in Answers, entry \in Entries, later \in Times :
       LET did == IF logsIn THEN Login(a, entry, Now) ELSE Request(a, entry, Now)
       IN Returns("use entry",
                  [logsIn |-> logsIn, answer |-> a, later |-> later],
                  [before |-> Status(entry, Now), did |-> did,
                   after  |-> Status(did.entry, Now),
                   valid  |-> isValid(did.entry, later)])

AskStale ==
  /\ Idle
  /\ \E safe, saves \in BOOLEAN, a \in Answers, load \in Loads, base \in BaseErrors :
       Returns("ask", [safe |-> safe, answer |-> a, load |-> load],
               Ask(safe, a, load, saves, base))

SendRequest ==
  /\ Idle
  /\ \E raw \in Endpoints, u \in Requests, to \in Redirects :
       Returns("HTTPClient", [raw |-> raw, query |-> u.query], SentByClient(raw, u, to))

SendListModels ==
  /\ Idle
  /\ \E raw \in Endpoints, to \in Redirects :
       Returns("ListModels", [raw |-> raw, query |-> "client_version"],
               SentByListModels(raw, "client_version", to))

DecodeCatalog ==
  /\ Idle
  /\ \E resp \in Responses : Returns("decode", resp, decodeModelCatalogResponse(resp))

Extract ==
  /\ Idle
  /\ \E t \in IDTokens : Returns("ExtractAccountID", t, ExtractAccountID(t))

GenerateVerifier ==
  /\ Idle
  /\ call' = [f |-> "GenerateVerifier"]
  /\ UNCHANGED <<ret, gen>>

Generating == call.f = "GenerateVerifier" /\ ret = <<>> /\ ~Complete(gen)

Read ==
  /\ Generating /\ gen.unread = 0
  /\ gen' = ReadRandom(gen)
  /\ UNCHANGED <<call, ret>>

ReadFails ==
  /\ Generating /\ gen.unread = 0
  /\ ret' = <<"error">>
  /\ UNCHANGED <<call, gen>>

Take ==
  /\ Generating /\ gen.unread > 0
  /\ \E b \in Byte : gen' = TakeByte(gen, b)
  /\ UNCHANGED <<call, ret>>

CallNext ==
  \/ Classify \/ Allow \/ UseEntry \/ AskStale \/ SendRequest \/ SendListModels
  \/ DecodeCatalog \/ Extract \/ GenerateVerifier \/ Read \/ ReadFails \/ Take

CallSpec == CallInit /\ [][CallNext]_callVars
-----------------------------------------------------------------------------
(* An error is classed by the first code in it, in the order in which the  *)
(* errors are joined and wrapped.  Left out are the codes that errors.As   *)
(* passes over (classifier.go:62).                                         *)
FirstCodeInOrder ==
  call.f = "ClassifyCodexError" => ret = ClassOf(call.x)

(* A model that is allowed by its version stays allowed in every later     *)
(* version, by the digits and not by a rounding of them (models.go:24), as *)
(* long as both numbers fit an int.                                        *)
NewerStaysAllowed ==
  call.f = "IsCodexAllowed" /\ ret /\ call.x \notin Licensed =>
    \A n \in Models :
      Later(n, call.x) /\ Fits(n.major) /\ Fits(n.minor) => IsCodexAllowed(n)

(* Status tells what the next request does: it is sent without asking the  *)
(* token endpoint, or asks it first.  Only a revoked token ends a session: *)
(* no other answer, and none that leaves the refresh token out, does       *)
(* (status.go:24, exchange.go:90).                                         *)
StatusForetells ==
  call.f = "use entry" /\ ~call.x.logsIn =>
    LET before == ret.before  did == ret.did IN
    /\ before.LoggedIn => did.posts = before.Stale
    /\ before.LoggedIn /\ ~before.Stale => did.err = NoError
    /\ ~before.LoggedIn => ~did.posts
    /\ ret.after.LoggedIn = (before.LoggedIn /\ did.err.code # "invalid_grant")

(* How long a token lives, an hour if the answer does not say.             *)
Lifetime(a) == IF a.expires_in > 0 THEN a.expires_in ELSE 3600

(* A token just granted is used for the time it has been granted for, an   *)
(* hour if the answer does not say, but for the last Skew seconds; unless  *)
(* its end is beyond an int64 (exchange.go:104-112, transport.go:128).     *)
GrantIsUsed ==
  call.f = "use entry" /\ ret.did.posts /\ ret.did.err = NoError =>
    LET end == Now + Milli * Lifetime(call.x.answer)
    IN end < Word \div 2 => (ret.valid <=> call.x.later + Skew * Milli < end)

(* ListModels neither returns nor logs what the token endpoint said or the *)
(* client version (transport.go:88-90, catalog.go:117-120), but keeps an   *)
(* OAuth code that is known; HTTPClient keeps every code.                  *)
CatalogErrorsAreSafe ==
  call.f = "ask" =>
    LET a == call.x.answer IN
    /\ call.x.safe =>
         {"token answer", "client_version"} \cap (ret.err.shows \cup ret.log) = {}
    /\ /\ a.got = "refusal"
       /\ a.error = "invalid_grant" => call.x.load # "rotated"
       /\ call.x.safe => isSafeOAuthErrorCode(a.error)
       => ret.err.code = a.error

(* A bearer token leaves the client in one request at most, to the host of *)
(* the endpoint, over https or to this machine, redirects included; the    *)
(* caller's user info is not sent with it, the query is                    *)
(* (endpoint.go:26, transport.go:315-327, 374-385).                        *)
BearerOnlyWhereAllowed ==
  call.f \in {"HTTPClient", "ListModels"} =>
    /\ Len(ret) = IF Accepted(call.x.raw) THEN 1 ELSE 0
    /\ \A i \in DOMAIN ret :
         LET sent == ret[i] IN
         /\ sent.scheme = "https" \/ sent.host.name \in Loopback
         /\ sent.host = Chosen(call.x.raw).host
         /\ sent.user = "" /\ sent.query = call.x.query

(* The models route is a sibling of the endpoint, and an endpoint itself:  *)
(* deriving it again changes nothing, nor do trailing slashes, user info,  *)
(* a query or a fragment (endpoint.go:53-77, client.go:91-100).            *)
ModelsRouteIsStable ==
  call.f = "ListModels" /\ Accepted(call.x.raw) =>
    LET raw    == call.x.raw
        models == modelsEndpoint(raw)
        path   == TrimRight(Chosen(raw).path)
    IN /\ Accepted(models) /\ modelsEndpoint(models) = models
       /\ raw # NoEndpoint =>
            modelsEndpoint([raw EXCEPT !.path = @ \o <<<<"">>, <<"">>>>, !.user = "u",
                                       !.query = "q", !.fragment = "f"]) = models
       /\ path # <<>> /\ Clean(path) = path =>
            ret[1].path = Append(Front(path), "models")

(* A catalog has every visible model once, by priority and then in the     *)
(* server's order; a flawed entry, although hidden, fails the call         *)
(* (catalog.go:179-190).                                                   *)
CatalogSortedStably ==
  call.f = "decode" =>
    LET models == call.x.models
        shown  == {i \in DOMAIN models : models[i].visibility = "list"}
        order  == [k \in DOMAIN ret.models |-> ret.models[k].slug]
    IN IF Unreadable(call.x) # "" \/ \E i \in DOMAIN models : models[i].flaw # ""
       THEN ret.err # ""
       ELSE /\ ret.err = "" /\ Range(order) = shown
            /\ \A j, k \in DOMAIN order : j < k =>
                 \/ models[order[j]].priority < models[order[k]].priority
                 \/ /\ models[order[j]].priority = models[order[k]].priority
                    /\ order[j] < order[k]

(* The padding of an ID token's payload, all of it, some or none, does not *)
(* change the account it names, and only an id in its claims is taken,     *)
(* that of the first organization at the least (jwt.go:78-95).             *)
AccountIdSurvivesPadding ==
  call.f = "ExtractAccountID" =>
    LET t == call.x  c == t.claims IN
    /\ t.pad <= (4 - (t.text % 4)) % 4 => ret = ExtractAccountID([t EXCEPT !.pad = 0])
    /\ ret \in {"", c.chatgpt_account_id, c.auth_account_id, c.organization_id}
                 \cup {c.organizations[i] : i \in DOMAIN c.organizations \cap {1}}

(* Every character of the alphabet comes from equally many values of the   *)
(* next byte, some value or other, whatever has been filled in; and no     *)
(* verifier is longer than it should be (pkce.go:21-26).                   *)
VerifierUniform ==
  call.f = "GenerateVerifier" =>
    /\ Len(gen.out) <= length
    /\ Generating /\ gen.unread > 0 =>
         LET Giving(c) == {b \in Byte : TakeByte(gen, b).out = Append(gen.out, c)}
         IN \A c, d \in Character :
              Giving(c) # {} /\ Cardinality(Giving(c)) = Cardinality(Giving(d))
=============================================================================
