---------------------------- MODULE CodexTransport ----------------------------
(***************************************************************************)
(* codexTransport (transport.go): goroutines of several processes send     *)
(* requests through transports that refresh one OAuth token set, kept in   *)
(* memory by each transport and shared on disk.  loadCreds, saveCreds and  *)
(* wipeCreds are single steps on the disk entry: CredStoreProofs proves    *)
(* that the store behaves so to its callers.                               *)
(*                                                                         *)
(* pc[g] names what g does next in RoundTrip:                              *)
(*   idle     the caller's code          load     t.loadCreds()            *)
(*   flight   t.sf.Do("refresh", ...)    adopt    t.creds = loaded         *)
(*   wait     for the flight's leader    wipe     t.wipeCreds()            *)
(*   recheck  the second isValid         zero     t.creds = Credentials{}  *)
(*   post     RefreshToken(rctx, old)    succeed  return nil, nil          *)
(*   save     t.saveCreds(fresh)         fail     return nil, err          *)
(*   commit   t.creds = fresh            send     read t.creds, delegate   *)
(***************************************************************************)
EXTENDS TokenServer

CONSTANTS
  Transport,     \* *http.Clients made by HTTPClient, one in each process
  Goroutine,     \* goroutines that call RoundTrip
  TransportOf,   \* TransportOf[g]: the transport g uses
  Account,       \* ChatGPT account ids
  NoAccount,     \* the empty account id
  Nobody,        \* the leader when no flight is up
  Faults         \* what the environment may do, of FaultKinds

FaultKinds ==
  {"call",    \* a token call times out, or its answer is lost or not understood
   "save",    \* saveCreds fails and the disk is as before
   "dirty",   \* saveCreds fails after its rename (credstore.go:344)
   "load",    \* loadCreds fails
   "wipe",    \* wipeCreds fails
   "crash",   \* a process dies
   "revoke"}  \* the endpoint revokes a refresh token

ASSUME CodexTransportAssumption ==
  /\ TransportOf \in [Goroutine -> Transport]
  /\ NoAccount \notin Account
  /\ Nobody \notin Goroutine
  /\ Faults \subseteq FaultKinds

VARIABLES
  disk,       \* the openai entry of auth.json
  mem,        \* mem[x]: t.creds
  up,         \* the transports that exist
  leader,     \* leader[x]: the goroutine that runs x's singleflight function
  pc,
  old,        \* old[g]: oldRefresh and oldAccountID
  got,        \* got[g]: fresh or loaded
  persisted,  \* history: the access tokens that have been saved
  dead        \* history: dead[x] are the refresh tokens rejected to x

locals == <<old, got>>
history == <<persisted, dead>>
vars == <<serverVars, disk, mem, up, leader, pc, locals, history>>

(* Credentials: the numbers of its tokens, 0 for "".                       *)
Creds == [access : Grant \cup {0}, refresh : Grant \cup {0},
          account : Account \cup {NoAccount}]

(* Credentials{}, and an entry that is not there.                          *)
NoCreds == [access |-> 0, refresh |-> 0, account |-> NoAccount]

PC == {"idle", "flight", "wait", "recheck", "post", "save", "commit", "load",
       "adopt", "wipe", "zero", "succeed", "fail", "send"}

(* Where the singleflight function runs. *)
InFlight == PC \ {"idle", "flight", "wait", "send"}

isValid(c) == c.access # 0 /\ c.access \in young

Goto(g, l) == pc' = [pc EXCEPT ![g] = l]

Init ==
  /\ ServerInit
  /\ disk \in [access : {1}, refresh : {1}, account : Account \cup {NoAccount}]
  /\ mem = [x \in Transport |-> NoCreds]
  /\ up = {}
  /\ leader = [x \in Transport |-> Nobody]
  /\ pc = [g \in Goroutine |-> "idle"]
  /\ old = [g \in Goroutine |-> NoCreds]
  /\ got = [g \in Goroutine |-> NoCreds]
  /\ persisted = {1}
  /\ dead = [x \in Transport |-> {}]
-----------------------------------------------------------------------------
(* HTTPClient: a transport is seeded from disk, or ErrNotLoggedIn.         *)
Seed(x) ==
  /\ x \notin up /\ disk # NoCreds
  /\ up' = up \cup {x}
  /\ mem' = [mem EXCEPT ![x] = disk]
  /\ UNCHANGED <<serverVars, disk, leader, pc, locals, history>>

(* RoundTrip is called: ensureFresh's first check.                         *)
EnsureFresh(g) ==
  LET x == TransportOf[g] IN
  /\ pc[g] = "idle" /\ x \in up
  /\ Goto(g, IF isValid(mem[x]) THEN "send" ELSE "flight")
  /\ UNCHANGED <<serverVars, disk, mem, up, leader, locals, history>>

(* Operators named Bad... are the next definition with a plausible bug; the *)
(* specification does not use them.                                        *)
BadDo(g) ==
  /\ pc[g] = "flight"
  /\ leader' = [leader EXCEPT ![TransportOf[g]] = g]
  /\ Goto(g, "recheck")
  /\ UNCHANGED <<serverVars, disk, mem, up, locals, history>>

(* singleflight.Group.Do: lead the flight, or wait for the one that is up. *)
Do(g) ==
  LET x == TransportOf[g] IN
  /\ pc[g] = "flight"
  /\ IF leader[x] = Nobody
       THEN leader' = [leader EXCEPT ![x] = g] /\ Goto(g, "recheck")
       ELSE Goto(g, "wait") /\ UNCHANGED leader
  /\ UNCHANGED <<serverVars, disk, mem, up, locals, history>>

BadDoubleCheck(g) ==
  LET x == TransportOf[g] IN
  /\ pc[g] = "recheck"
  /\ old' = [old EXCEPT ![g] = mem[x]]
  /\ Goto(g, IF isValid(mem[x]) THEN "succeed" ELSE "post")
  /\ UNCHANGED <<serverVars, disk, mem, up, leader, got, history>>

DoubleCheck(g) ==
  LET x == TransportOf[g] IN
  /\ pc[g] = "recheck"
  /\ old' = [old EXCEPT ![g] = mem[x]]
  /\ Goto(g, IF isValid(mem[x]) THEN "succeed"
             ELSE IF mem[x].refresh = 0 THEN "fail" ELSE "post")
  /\ UNCHANGED <<serverVars, disk, mem, up, leader, got, history>>

BadGranted(g) ==
  /\ pc[g] = "post"
  /\ Rotates(old[g].refresh) \/ Keeps(old[g].refresh)
  /\ got' = [got EXCEPT ![g] = [old[g] EXCEPT !.access = minted']]
  /\ Goto(g, "save")
  /\ UNCHANGED <<orphan, disk, mem, up, leader, old, history>>

(* RefreshToken succeeds.  An answer without a refresh token keeps the old *)
(* one; the account id is carried forward.                                 *)
Granted(g) ==
  /\ pc[g] = "post"
  /\ \/ /\ Rotates(old[g].refresh)
        /\ got' = [got EXCEPT ![g] =
                     [old[g] EXCEPT !.access = minted', !.refresh = minted']]
     \/ /\ Keeps(old[g].refresh)
        /\ got' = [got EXCEPT ![g] = [old[g] EXCEPT !.access = minted']]
  /\ Goto(g, "save")
  /\ UNCHANGED <<orphan, disk, mem, up, leader, old, history>>

(* invalid_grant. *)
Rejected(g) ==
  LET x == TransportOf[g] IN
  /\ pc[g] = "post"
  /\ old[g].refresh \notin live
  /\ dead' = [dead EXCEPT ![x] = @ \cup {old[g].refresh}]
  /\ Goto(g, "load")
  /\ UNCHANGED <<serverVars, disk, mem, up, leader, locals, persisted>>

(* Any other error, refreshTimeout included; the endpoint may yet handle   *)
(* the request, which changes nothing unless its token is live.            *)
Abandoned(gs) == {old[g].refresh : g \in {h \in gs : pc[h] = "post"}} \cap live

BadTokenCallFails(g) ==
  /\ pc[g] = "post"
  /\ "call" \in Faults \/ minted = MaxGrants
  /\ orphan' = orphan \cup Abandoned({g})
  /\ Goto(g, "load")
  /\ UNCHANGED <<minted, live, young, disk, mem, up, leader, locals, history>>

TokenCallFails(g) ==
  /\ pc[g] = "post"
  /\ "call" \in Faults \/ minted = MaxGrants
  /\ orphan' = orphan \cup Abandoned({g})
  /\ Goto(g, "fail")
  /\ UNCHANGED <<minted, live, young, disk, mem, up, leader, locals, history>>

Save(g) ==
  /\ pc[g] = "save"
  /\ disk' = got[g]
  /\ persisted' = persisted \cup {got[g].access}
  /\ \/ Goto(g, "commit")
     \/ "dirty" \in Faults /\ Goto(g, "fail")
  /\ UNCHANGED <<serverVars, mem, up, leader, locals, dead>>

BadSaveFails(g) ==
  /\ pc[g] = "save" /\ "save" \in Faults
  /\ Goto(g, "commit")
  /\ UNCHANGED <<serverVars, disk, mem, up, leader, locals, history>>

SaveFails(g) ==
  /\ pc[g] = "save" /\ "save" \in Faults
  /\ Goto(g, "fail")
  /\ UNCHANGED <<serverVars, disk, mem, up, leader, locals, history>>

Commit(g) ==
  /\ pc[g] = "commit"
  /\ mem' = [mem EXCEPT ![TransportOf[g]] = got[g]]
  /\ Goto(g, "succeed")
  /\ UNCHANGED <<serverVars, disk, up, leader, locals, history>>

BadLoadDisk(g) ==
  /\ pc[g] = "load"
  /\ got' = [got EXCEPT ![g] = disk]
  /\ Goto(g, IF disk.access # 0 THEN "adopt" ELSE "wipe")
  /\ UNCHANGED <<serverVars, disk, mem, up, leader, old, history>>

(* After invalid_grant, an entry with another refresh token is adopted.    *)
LoadDisk(g) ==
  /\ pc[g] = "load"
  /\ got' = [got EXCEPT ![g] =
       IF disk.account = NoAccount
         THEN [disk EXCEPT !.account = old[g].account] ELSE disk]
  /\ Goto(g, IF disk.access # 0 /\ disk.refresh # old[g].refresh
               THEN "adopt" ELSE "wipe")
  /\ UNCHANGED <<serverVars, disk, mem, up, leader, old, history>>

LoadFails(g) ==
  /\ pc[g] = "load" /\ "load" \in Faults
  /\ Goto(g, "zero")
  /\ UNCHANGED <<serverVars, disk, mem, up, leader, locals, history>>

BadAdopt(g) ==
  LET x == TransportOf[g] IN
  /\ pc[g] = "adopt"
  /\ mem' = [mem EXCEPT ![x] = [got[g] EXCEPT !.account = old[g].account]]
  /\ Goto(g, "succeed")
  /\ UNCHANGED <<serverVars, disk, up, leader, locals, history>>

Adopt(g) ==
  /\ pc[g] = "adopt"
  /\ mem' = [mem EXCEPT ![TransportOf[g]] = got[g]]
  /\ Goto(g, "succeed")
  /\ UNCHANGED <<serverVars, disk, up, leader, locals, history>>

(* Whether the wipe works is not looked at. *)
Wipe(g) ==
  /\ pc[g] = "wipe"
  /\ disk' = NoCreds
  /\ Goto(g, "zero")
  /\ UNCHANGED <<serverVars, mem, up, leader, locals, history>>

WipeFails(g) ==
  /\ pc[g] = "wipe" /\ "wipe" \in Faults
  /\ Goto(g, "zero")
  /\ UNCHANGED <<serverVars, disk, mem, up, leader, locals, history>>

Zero(g) ==
  /\ pc[g] = "zero"
  /\ mem' = [mem EXCEPT ![TransportOf[g]] = NoCreds]
  /\ Goto(g, "fail")
  /\ UNCHANGED <<serverVars, disk, up, leader, locals, history>>

BadFinish(g) ==
  /\ pc[g] \in {"succeed", "fail"}
  /\ Goto(g, IF pc[g] = "succeed" THEN "send" ELSE "idle")
  /\ leader' = [leader EXCEPT ![TransportOf[g]] = Nobody]
  /\ old' = [old EXCEPT ![g] = NoCreds]
  /\ got' = [got EXCEPT ![g] = NoCreds]
  /\ UNCHANGED <<serverVars, disk, mem, up, history>>

(* The singleflight function returns: its leader and all who waited go on  *)
(* with its result, and the next caller leads a new flight.                *)
Finish(g) ==
  LET x == TransportOf[g]
      on(h) == h = g \/ (TransportOf[h] = x /\ pc[h] = "wait")
  IN
  /\ pc[g] \in {"succeed", "fail"}
  /\ pc' = [h \in Goroutine |-> IF ~on(h) THEN pc[h]
                               ELSE IF pc[g] = "succeed" THEN "send" ELSE "idle"]
  /\ leader' = [leader EXCEPT ![x] = Nobody]
  /\ old' = [old EXCEPT ![g] = NoCreds]
  /\ got' = [got EXCEPT ![g] = NoCreds]
  /\ UNCHANGED <<serverVars, disk, mem, up, history>>

(* The request leaves with mem's access token and account in its header    *)
(* (or GetBody fails, and RoundTrip returns without sending it).           *)
Send(g) ==
  /\ pc[g] = "send"
  /\ Goto(g, "idle")
  /\ UNCHANGED <<serverVars, disk, mem, up, leader, locals, history>>
-----------------------------------------------------------------------------
Crash(x) ==
  LET gs == {g \in Goroutine : TransportOf[g] = x} IN
  /\ "crash" \in Faults /\ x \in up
  /\ up' = up \ {x}
  /\ mem' = [mem EXCEPT ![x] = NoCreds]
  /\ leader' = [leader EXCEPT ![x] = Nobody]
  /\ orphan' = orphan \cup Abandoned(gs)
  /\ pc' = [g \in Goroutine |-> IF g \in gs THEN "idle" ELSE pc[g]]
  /\ old' = [g \in Goroutine |-> IF g \in gs THEN NoCreds ELSE old[g]]
  /\ got' = [g \in Goroutine |-> IF g \in gs THEN NoCreds ELSE got[g]]
  /\ dead' = [dead EXCEPT ![x] = {}]
  /\ UNCHANGED <<minted, live, young, disk, persisted>>

Step(g) ==
  \/ Do(g) \/ DoubleCheck(g) \/ Granted(g) \/ Rejected(g) \/ TokenCallFails(g)
  \/ Save(g) \/ SaveFails(g) \/ Commit(g) \/ LoadDisk(g) \/ LoadFails(g)
  \/ Adopt(g) \/ Wipe(g) \/ WipeFails(g) \/ Zero(g) \/ Finish(g) \/ Send(g)

Client == \E g \in Goroutine : EnsureFresh(g) \/ Step(g)

Server ==
  /\ \/ HandleOrphan
     \/ \E n \in Grant : Age(n)
     \/ "revoke" \in Faults /\ Revoke
  /\ UNCHANGED <<disk, mem, up, leader, pc, locals, history>>

Environment == (\E x \in Transport : Seed(x) \/ Crash(x)) \/ Server

Next == Client \/ Environment

Spec == Init /\ [][Next]_vars

(* A goroutine that can run is run; a token call ends with an answer or at *)
(* refreshTimeout.  Callers and the endpoint owe nothing.                  *)
Fairness == \A g \in Goroutine : WF_vars(Step(g))

FairSpec == Spec /\ Fairness
-----------------------------------------------------------------------------
TypeOK ==
  /\ ServerTypeOK
  /\ disk \in Creds
  /\ mem \in [Transport -> Creds]
  /\ up \subseteq Transport
  /\ leader \in [Transport -> Goroutine \cup {Nobody}]
  /\ pc \in [Goroutine -> PC]
  /\ old \in [Goroutine -> Creds]
  /\ got \in [Goroutine -> Creds]
  /\ persisted \subseteq Grant
  /\ dead \in [Transport -> SUBSET Grant]

(* At most one refresh of a transport is under way, whoever asks for one   *)
(* (transport.go:133), and only while it is needed: a caller that found a  *)
(* token stale which another has refreshed since does not spend another    *)
(* refresh token (the double-check, transport.go:155).                     *)
RefreshOnceWhenStale ==
  \A g \in Goroutine :
    /\ \A h \in Goroutine \ {g} :
         TransportOf[g] = TransportOf[h] => ~(pc[g] \in InFlight /\ pc[h] \in InFlight)
    /\ pc[g] = "post" => /\ ~isValid(mem[TransportOf[g]])
                         /\ mem[TransportOf[g]] = old[g]

(* No transport ever uses an access token that auth.json did not hold      *)
(* before (transport.go:229): a crash loses no token that was in use.      *)
PersistBeforeUse ==
  \A x \in Transport : mem[x].access \in persisted \cup {0}

(* A refresh token the endpoint has rejected is not tried again by the     *)
(* same transport: it is replaced from disk or given up (transport.go:177).*)
NoDeadLoop ==
  \A g \in Goroutine :
    pc[g] = "post" => old[g].refresh \notin dead[TransportOf[g]]

(* While no refresh is under way a transport holds what auth.json holds,   *)
(* or nothing: a failed save leaves both as they were (transport.go:229).  *)
(* For a transport that has auth.json to itself.                           *)
MemMatchesDisk ==
  \A x \in up :
    leader[x] = Nobody => mem[x] \in {disk, NoCreds}

(* What invalid_grant makes ensureFresh delete is "the dead entry"         *)
(* (transport.go:142): never a refresh token the endpoint would accept.    *)
WipesOnlyTheDead ==
  [][\A g \in Goroutine : Wipe(g) => disk.refresh \notin live]_vars

(* A refresh token that is still good is never dropped by the clients: it  *)
(* is on disk, in memory, or in the hands of a refresh about to save it.   *)
(* (As long as no answer of the endpoint is lost, no save fails and no     *)
(* process dies with the answer in its hands.)                             *)
Custody ==
  \A r \in live :
    \/ disk.refresh = r
    \/ \E x \in up : mem[x].refresh = r
    \/ \E g \in Goroutine : pc[g] \in {"save", "commit"} /\ got[g].refresh = r

(* Every request is sent with a bearer token (transport.go:282).           *)
BearerPresent ==
  [][\A g \in Goroutine : Send(g) => mem[TransportOf[g]].access # 0]_vars

(* Every RoundTrip gets past ensureFresh, with a request sent or an error: *)
(* nobody waits for ever for a flight, whatever fails.                     *)
RoundTripReturns == \A g \in Goroutine : pc[g] # "idle" ~> pc[g] = "idle"
=============================================================================
