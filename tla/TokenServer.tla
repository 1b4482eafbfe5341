------------------------------ MODULE TokenServer ------------------------------
(***************************************************************************)
(* The token endpoint as the client can tell it (external: known from how  *)
(* exchange.go and token_http.go use it, and from their comments).  Every  *)
(* token set it issues has a number; access token n ages, refresh token n *)
(* is accepted while it is live.                                           *)
(***************************************************************************)
EXTENDS Naturals

CONSTANT MaxGrants   \* bound: the number of token sets the endpoint issues

ASSUME TokenServerAssumption == MaxGrants \in Nat \ {0}

VARIABLES
  minted,   \* the number of token sets issued
  live,     \* the refresh tokens the endpoint accepts
  young,    \* the access tokens with more than refreshSkewMargin (60 s) to live
  orphan    \* refresh requests nobody waits for that may still be handled

serverVars == <<minted, live, young, orphan>>

Grant == 1..MaxGrants

ServerInit ==
  /\ minted = 1
  /\ live \in SUBSET {1}
  /\ young = {1}
  /\ orphan = {}

ServerTypeOK ==
  /\ minted \in Grant
  /\ live \subseteq Grant
  /\ young \subseteq Grant
  /\ orphan \subseteq Grant

Mint ==
  /\ minted < MaxGrants
  /\ minted' = minted + 1
  /\ young' = young \cup {minted'}

(* The endpoint handles a refresh with token r: it issues token set        *)
(* minted', and answers with a new refresh token, the old one being dead   *)
(* from then on (exchange.go:72), or without one (exchange.go:91), the old *)
(* one staying live.                                                       *)
Rotates(r) ==
  /\ r \in live
  /\ Mint
  /\ live' = (live \ {r}) \cup {minted'}

Keeps(r) ==
  /\ r \in live
  /\ Mint
  /\ UNCHANGED live

(* A request that timed out, or whose sender died, is handled after all.   *)
HandleOrphan ==
  \E r \in orphan :
    /\ Rotates(r) \/ Keeps(r)
    /\ orphan' = orphan \ {r}

(* Revoked by the user or at /oauth/revoke, or expired after 90 days.      *)
Revoke ==
  /\ live # {}
  /\ \E r \in live : live' = live \ {r}
  /\ UNCHANGED <<minted, young, orphan>>

Age(n) ==
  /\ n \in young
  /\ young' = young \ {n}
  /\ UNCHANGED <<minted, live, orphan>>
=============================================================================
