------------------------------- MODULE AuthSession -------------------------------
(***************************************************************************)
(* Login and Logout (public.go, the ends of login_browser.go and           *)
(* login_device.go) next to transports that refresh: users of several      *)
(* accounts log in and out of the auth.json that the transports share.     *)
(*                                                                         *)
(* step[u] names what user u's call does next:                             *)
(*   idle     the caller's code          revoke  POST /oauth/revoke        *)
(*   save     saveCreds, of a login      delete  deleteCreds("openai")     *)
(***************************************************************************)
EXTENDS CodexTransport

CONSTANT User   \* callers of Login and Logout

VARIABLES
  label,   \* history: label[n] is the account id found at the login n comes from
  step,
  held     \* held[u]: what Login has exchanged, or Logout loaded

sessionVars == <<label, step, held>>
allVars == <<vars, sessionVars>>

(* ExtractAccountID: the account an ID token names, or "" for any fault.   *)
ExtractAccountID == Account \cup {NoAccount}

Tokens(n, r, id) == [access |-> n, refresh |-> r, account |-> id]

SessionInit ==
  /\ Init
  /\ disk.account \in ExtractAccountID
  /\ label = [n \in Grant |-> disk.account]
  /\ step = [u \in User |-> "idle"]
  /\ held = [u \in User |-> NoCreds]

Go(u, l) == step' = [step EXCEPT ![u] = l]
-----------------------------------------------------------------------------
(* The user has authorized; the code is exchanged and the ID token read.   *)
(* The answer may lack a refresh token.  (A login that fails before it     *)
(* saves changes nothing.)                                                 *)
ExchangeCode(u) ==
  /\ step[u] = "idle"
  /\ Mint
  /\ \E id \in ExtractAccountID, r \in {minted', 0} :
       /\ held' = [held EXCEPT ![u] = Tokens(minted', r, id)]
       /\ live' = live \cup ({r} \ {0})
       /\ label' = [label EXCEPT ![minted'] = id]
  /\ Go(u, "save")
  /\ UNCHANGED <<orphan, disk, mem, up, leader, pc, locals, history>>

SaveLogin(u) ==
  /\ step[u] = "save"
  /\ disk' = held[u]
  /\ persisted' = persisted \cup {held[u].access}
  /\ held' = [held EXCEPT ![u] = NoCreds]
  /\ Go(u, "idle")
  /\ UNCHANGED <<serverVars, mem, up, leader, pc, locals, dead, label>>

(* Operators named Bad... are the next definition with a plausible bug; the *)
(* specification does not use them.                                        *)
BadLoadLogout(u) ==
  /\ step[u] = "idle"
  /\ held' = [held EXCEPT ![u] = disk]
  /\ Go(u, IF disk.refresh = 0 THEN "delete" ELSE "revoke")
  /\ UNCHANGED <<vars, label>>

(* With nothing stored Logout has nothing to do; without a refresh token   *)
(* it has nothing to revoke.                                               *)
LoadLogout(u) ==
  /\ step[u] = "idle" /\ disk # NoCreds
  /\ held' = [held EXCEPT ![u] = disk]
  /\ Go(u, IF disk.refresh = 0 THEN "delete" ELSE "revoke")
  /\ UNCHANGED <<vars, label>>

(* Best effort: the request may never get to the endpoint.                 *)
RevokeLogout(u) ==
  /\ step[u] = "revoke"
  /\ \/ live' = live \ {held[u].refresh}
     \/ "call" \in Faults /\ UNCHANGED live
  /\ Go(u, "delete")
  /\ UNCHANGED <<minted, young, orphan, disk, mem, up, leader, pc,
                 locals, history, label, held>>

DeleteLogout(u) ==
  /\ step[u] = "delete"
  /\ disk' = NoCreds
  /\ held' = [held EXCEPT ![u] = NoCreds]
  /\ Go(u, "idle")
  /\ UNCHANGED <<serverVars, mem, up, leader, pc, locals, history, label>>

(* saveCreds or deleteCreds fails, and so does the call.                   *)
StoreFails(u) ==
  /\ \/ step[u] = "save" /\ "save" \in Faults
     \/ step[u] = "delete" /\ "wipe" \in Faults
  /\ held' = [held EXCEPT ![u] = NoCreds]
  /\ Go(u, "idle")
  /\ UNCHANGED <<vars, label>>

Session ==
  \E u \in User : ExchangeCode(u) \/ SaveLogin(u) \/ LoadLogout(u)
                  \/ RevokeLogout(u) \/ DeleteLogout(u) \/ StoreFails(u)

(* A refresh issues tokens for the login that the spent token comes from.  *)
Inherits(r) ==
  label' = IF minted' = minted THEN label ELSE [label EXCEPT ![minted'] = label[r]]

Transports ==
  /\ \/ \E g \in Goroutine : (EnsureFresh(g) \/ Step(g)) /\ Inherits(old[g].refresh)
     \/ (\E x \in Transport : Seed(x) \/ Crash(x)) /\ UNCHANGED label
     \/ /\ Server
        /\ \E r \in orphan \cup {1} :
             (orphan' # orphan => r \in orphan \ orphan') /\ Inherits(r)
  /\ UNCHANGED <<step, held>>

SessionNext == Session \/ Transports

SessionSpec == SessionInit /\ [][SessionNext]_allVars
-----------------------------------------------------------------------------
SessionTypeOK ==
  /\ TypeOK
  /\ label \in [Grant -> Account \cup {NoAccount}]
  /\ step \in [User -> {"idle", "save", "revoke", "delete"}]
  /\ held \in [User -> Creds]
  /\ \A u \in User : step[u] = "idle" <=> held[u] = NoCreds

(* Whatever logs in, refreshes, is adopted or logs out meanwhile, tokens   *)
(* stay with the account that their login named, on disk and in every      *)
(* transport: no request carries one account's token and another's id.     *)
(* (Tokens of a login that named none may get the id of the transport that *)
(* adopts them, transport.go:195.)                                         *)
TokensKeepTheirAccount ==
  \A c \in {disk} \cup {mem[x] : x \in Transport} :
    c.access # 0 => label[c.access] \in {c.account, NoAccount}

(* "Logout revokes this client's stored refresh token and deletes local    *)
(* credentials" (public.go:104): what it deletes is what it revoked.       *)
LogoutRevokesStored ==
  [][\A u \in User : DeleteLogout(u) => disk.refresh \in {0, held[u].refresh}]_allVars
=============================================================================
