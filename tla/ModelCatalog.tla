------------------------------ MODULE ModelCatalog ------------------------------
(***************************************************************************)
(* Client.ListModels (catalog.go): callers of one Client take turns at its *)
(* catalogGate (client.go); each call makes a transport of its own, seeded *)
(* from disk, and sends one request through it unless its context is       *)
(* cancelled.  Caller c is Goroutine c, with the transport TransportOf[c]. *)
(*                                                                         *)
(* call[c] names what c does next:                                         *)
(*   idle     the caller's code       within   inside RoundTrip            *)
(*   gate     acquireCatalogGate      checked  RoundTrip delegates to base *)
(*   open     httpClientForApp        release  the deferred release()      *)
(*   trip     httpClient.Do                                                *)
(***************************************************************************)
EXTENDS CodexTransport

ASSUME ModelCatalogAssumption ==
  \A c, d \in Goroutine : TransportOf[c] = TransportOf[d] => c = d

VARIABLES
  gate,       \* the caller that has taken catalogGate's one element
  call,
  cancelled,  \* the calls whose context is done
  late        \* history: those for which it was done when their flight ended

catalogVars == <<gate, call, cancelled, late>>
allVars == <<vars, catalogVars>>

CallPC == {"idle", "gate", "open", "trip", "within", "checked", "release"}

GoOn(c, l) == call' = [call EXCEPT ![c] = l]

CatalogInit ==
  /\ Init
  /\ gate = Nobody
  /\ call = [c \in Goroutine |-> "idle"]
  /\ cancelled = {}
  /\ late = {}
-----------------------------------------------------------------------------
ListModels(c) ==
  /\ call[c] = "idle"
  /\ GoOn(c, "gate")
  /\ UNCHANGED <<vars, gate, cancelled, late>>

(* Any time; it says nothing to the refresh, whose context is detached.    *)
Cancel(c) ==
  /\ call[c] # "idle"
  /\ cancelled' = cancelled \cup {c}
  /\ late' = IF call[c] = "checked" \/ pc[c] = "send" THEN late ELSE late \cup {c}
  /\ UNCHANGED <<vars, gate, call>>

(* Operators named Bad... are the next definition with a plausible bug; the *)
(* specification does not use them.                                        *)
BadAcquireCatalogGate(c) ==
  /\ call[c] = "gate"
  /\ gate' = c
  /\ GoOn(c, "open")
  /\ UNCHANGED <<vars, cancelled, late>>

(* select with both cases ready takes either.                              *)
AcquireCatalogGate(c) ==
  /\ call[c] = "gate" /\ gate = Nobody
  /\ gate' = c
  /\ GoOn(c, "open")
  /\ UNCHANGED <<vars, cancelled, late>>

GiveUp(c) ==
  /\ call[c] = "gate" /\ c \in cancelled
  /\ GoOn(c, "idle")
  /\ cancelled' = cancelled \ {c} /\ late' = late \ {c}
  /\ UNCHANGED <<vars, gate>>

Open(c) ==
  /\ call[c] = "open" /\ c \notin cancelled
  /\ Seed(TransportOf[c])
  /\ GoOn(c, "trip")
  /\ UNCHANGED <<gate, cancelled, late>>

(* The context is done, the load fails, or ErrNotLoggedIn.                 *)
Refuse(c) ==
  /\ call[c] = "open"
  /\ c \in cancelled \/ "load" \in Faults \/ disk = NoCreds
  /\ GoOn(c, "release")
  /\ UNCHANGED <<vars, gate, cancelled, late>>

StartRoundTrip(c) ==
  /\ call[c] = "trip"
  /\ EnsureFresh(c)
  /\ GoOn(c, "within")
  /\ UNCHANGED <<gate, cancelled, late>>

Refresh(c) ==
  /\ call[c] = "within" /\ pc[c] # "send"
  /\ Step(c)
  /\ UNCHANGED catalogVars

BadCheckContext(c) ==
  /\ call[c] = "within" /\ pc[c] = "send"
  /\ GoOn(c, "checked")
  /\ UNCHANGED <<vars, gate, cancelled, late>>

(* RoundTrip looks at the context again when the flight has ended.         *)
CheckContext(c) ==
  /\ call[c] = "within" /\ pc[c] = "send"
  /\ IF c \in cancelled THEN Goto(c, "idle") /\ GoOn(c, "release")
                        ELSE GoOn(c, "checked") /\ UNCHANGED pc
  /\ UNCHANGED <<serverVars, disk, mem, up, leader, locals, history>>
  /\ UNCHANGED <<gate, cancelled, late>>

SendRequest(c) ==
  /\ call[c] = "checked"
  /\ Send(c)
  /\ GoOn(c, "release")
  /\ UNCHANGED <<gate, cancelled, late>>

RefreshFailed(c) ==
  /\ call[c] = "within" /\ pc[c] = "idle"
  /\ GoOn(c, "release")
  /\ UNCHANGED <<vars, gate, cancelled, late>>

(* The call returns, with the decoded models or an error.  Its transport   *)
(* goes with it; which tokens were rejected is kept for the property.      *)
Drop(c) ==
  /\ up' = up \ {TransportOf[c]}
  /\ mem' = [mem EXCEPT ![TransportOf[c]] = NoCreds]
  /\ cancelled' = cancelled \ {c} /\ late' = late \ {c}
  /\ GoOn(c, "idle")
  /\ UNCHANGED <<serverVars, disk, leader, pc, locals, history>>

BadRelease(c) ==
  /\ call[c] = "release"
  /\ Drop(c)
  /\ UNCHANGED gate

Release(c) ==
  /\ call[c] = "release"
  /\ Drop(c)
  /\ gate' = Nobody
-----------------------------------------------------------------------------
CatalogStep(c) ==
  \/ Open(c) \/ Refuse(c) \/ StartRoundTrip(c) \/ Refresh(c) \/ CheckContext(c)
  \/ SendRequest(c) \/ RefreshFailed(c) \/ Release(c)

CatalogNext ==
  \/ \E c \in Goroutine : ListModels(c) \/ Cancel(c) \/ AcquireCatalogGate(c)
                          \/ GiveUp(c) \/ CatalogStep(c)
  \/ Server /\ UNCHANGED catalogVars

CatalogSpec == CatalogInit /\ [][CatalogNext]_allVars

(* Receivers that wait on a channel are served in turn.                    *)
CatalogFairness ==
  \A c \in Goroutine : WF_allVars(CatalogStep(c)) /\ SF_allVars(AcquireCatalogGate(c))

FairCatalogSpec == CatalogSpec /\ CatalogFairness
-----------------------------------------------------------------------------
CatalogTypeOK ==
  /\ TypeOK
  /\ gate \in Goroutine \cup {Nobody}
  /\ call \in [Goroutine -> CallPC]
  /\ cancelled \subseteq Goroutine
  /\ late \subseteq cancelled
  /\ \A c \in Goroutine :
       gate = c <=> call[c] \in {"open", "trip", "within", "checked", "release"}

(* "Calls through one Client are serialized so stale rotating refresh      *)
(* tokens are not used concurrently" (catalog.go:52): at most one call is  *)
(* refreshing, although each has a singleflight group of its own, and the  *)
(* refresh token it spends is the one on disk.                             *)
RefreshesSerialized ==
  \A c \in Goroutine :
    /\ pc[c] \in InFlight => \A d \in Goroutine \ {c} : pc[d] \notin InFlight
    /\ pc[c] = "post" => old[c].refresh = disk.refresh

(* A refresh token rejected in one call is not tried by a later one: the   *)
(* entry is gone from disk by then (transport.go:65-68, "rather than       *)
(* looping on a dead refresh token").  If the disk can be read and wiped.  *)
NoDeadLoopAcrossCalls ==
  \A c \in Goroutine :
    pc[c] = "post" => \A x \in Transport : old[c].refresh \notin dead[x]

(* A call cancelled before the end of its refresh sends no catalog request *)
(* (catalog.go:54-56), although the refresh itself goes on to its end.     *)
NothingSentWhenLate ==
  [][\A c \in Goroutine : SendRequest(c) => c \notin late]_allVars

(* What a call wipes is a dead entry: taking turns, callers are free of    *)
(* the race that independent transports run (WipesOnlyTheDead).            *)
CallsWipeOnlyTheDead ==
  [][\A c \in Goroutine : Wipe(c) => disk.refresh \notin live]_allVars

(* Every call returns, and gives the gate back whichever way it ends.      *)
ListModelsReturns ==
  \A c \in Goroutine : call[c] = "gate" ~> call[c] = "idle"
=============================================================================
