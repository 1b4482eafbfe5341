-------------------------------- MODULE Endpoint --------------------------------
(***************************************************************************)
(* Where a request goes: the endpoint (endpoint.go), its models route, the *)
(* rewriting of a request by RoundTrip and the redirect policy             *)
(* (transport.go).                                                         *)
(*                                                                         *)
(* A raw URL is a record; its path is a sequence of segments, the text     *)
(* after each "/", and a segment the sequence of what its escaped slashes  *)
(* (%2F) separate.  url.Parse (external) takes them for slashes.  A host   *)
(* is a name in lower case with the dots that follow it; ports are left    *)
(* out.                                                                    *)
(***************************************************************************)
EXTENDS Naturals, SequencesExt

CONSTANTS
  Loopback,          \* the names that are "localhost" or a loopback address
  defaultCodexURL    \* as url.Parse returns it

NoHost == [name |-> "", dots |-> 0]

URL(segment) ==
  [scheme : STRING, user : STRING, host : [name : STRING, dots : Nat],
   path : Seq(segment), query : STRING, fragment : STRING]

RawURL == URL(Seq(STRING))

ASSUME EndpointAssumption ==
  /\ defaultCodexURL \in URL(STRING)
  /\ defaultCodexURL.scheme = "https" /\ defaultCodexURL.host # NoHost

(* Options.Endpoint when it is empty.                                      *)
NoEndpoint == [scheme |-> "", user |-> "", host |-> NoHost, path |-> <<>>,
               query |-> "", fragment |-> ""]

Parse(raw) == [raw EXCEPT !.path = FlattenSeq(raw.path)]
String(u) == [u EXCEPT !.path = [i \in DOMAIN u.path |-> <<u.path[i]>>]]

isLoopbackHost(host) == host.dots <= 1 /\ host.name \in Loopback

(* Whether parseEndpoint returns no error.                                 *)
Accepted(raw) ==
  \/ raw = NoEndpoint
  \/ /\ raw.scheme \in {"http", "https"}
     /\ raw.host # NoHost
     /\ raw.scheme = "http" => isLoopbackHost(raw.host)

(* path.Clean (external) of a rooted path.                                 *)
Clean(path) ==
  FoldLeft(LAMBDA clean, s :
             CASE s \in {"", "."} -> clean
               [] s = ".."        -> SubSeq(clean, 1, Len(clean) - 1)
               [] OTHER           -> Append(clean, s),
           <<>>, path)

TrimRight(path) ==
  LET kept == {i \in 0..Len(path) : \A j \in i+1..Len(path) : path[j] = ""}
  IN SubSeq(path, 1, Min(kept))

(* Operators named Bad... are the next definition with a plausible bug.    *)
BadmodelsPath(path) ==
  IF path = <<>> THEN <<"models">> ELSE Append(Clean(Front(path)), "models")

modelsPath(path) ==
  LET trimmed == TrimRight(path)
  IN IF trimmed = <<>> THEN <<"models">>
     ELSE Append(Clean(Front(trimmed)), "models")

(* parseEndpoint of an endpoint that it accepts, or the default for none.  *)
Chosen(raw) == IF raw = NoEndpoint THEN defaultCodexURL ELSE Parse(raw)

modelsEndpoint(raw) ==
  LET u == Chosen(raw)
  IN String([u EXCEPT !.path = modelsPath(u.path),
                      !.user = "", !.query = "", !.fragment = ""])

(* RoundTrip: the request for URL u as it is sent.                         *)
RoundTrip(u, endpoint) ==
  [u EXCEPT !.scheme = endpoint.scheme, !.host = endpoint.host,
            !.path = endpoint.path, !.user = ""]

BadCheckRedirect(target, first) ==
  IF target.scheme # "https" THEN "refused" ELSE "followed"

(* Cross-host, the Authorization header is removed from a request that is  *)
(* not sent either way.                                                    *)
CheckRedirect(target, first) ==
  IF target.scheme # "https" THEN "refused" ELSE "last response"

(* http.Client.Do (external): what is sent for u when the answer redirects *)
(* to the members of redirects in turn.                                    *)
Do(u, endpoint, redirects) ==
  LET followed == {n \in 0..Len(redirects) :
                     \A i \in 1..n : CheckRedirect(redirects[i], u) = "followed"}
      asked == <<u>> \o redirects
  IN [i \in 1..Max(followed)+1 |-> RoundTrip(asked[i], endpoint)]

(* The requests of HTTPClient, and of ListModels, which parses the derived *)
(* URL again; none if the endpoint is refused.                             *)
SentByClient(raw, u, redirects) ==
  IF Accepted(raw) THEN Do(u, Chosen(raw), redirects) ELSE <<>>

SentByListModels(raw, clientVersion, redirects) ==
  LET models == modelsEndpoint(raw) IN
  IF Accepted(raw) /\ Accepted(models)
    THEN Do([Parse(models) EXCEPT !.query = clientVersion], Parse(models), redirects)
    ELSE <<>>
=============================================================================
