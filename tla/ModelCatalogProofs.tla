--------------------------- MODULE ModelCatalogProofs ---------------------------
(* Theorems about ModelCatalog, for every number of callers, every bound   *)
(* on the token sets and every set of faults.                              *)
EXTENDS ModelCatalog, CodexTransportProofs

(* A goroutine is in RoundTrip only in the call that started it, and a     *)
(* request that has passed the last look at the context is not late.       *)
CallInv ==
  \A c \in Goroutine :
    /\ pc[c] # "idle" => call[c] \in {"within", "checked"}
    /\ call[c] = "checked" => pc[c] = "send" /\ c \notin late

(* From the load of its transport until it saves or wipes, a call holds    *)
(* what is on disk: nobody else has the gate.                              *)
Loaded == {"flight", "recheck", "post", "load", "wipe"}

SeedInv ==
  \A c \in Goroutine :
    call[c] = "trip" \/ pc[c] \in Loaded => mem[TransportOf[c]] = disk

(* A rejected token is on disk only until the call that saw it rejected    *)
(* has wiped it, and nobody saves it again.                                *)
WipedInv ==
  /\ \A x \in Transport : disk.refresh \in dead[x] =>
       \E c \in Goroutine : pc[c] \in {"load", "wipe"}
  /\ \A c \in Goroutine : pc[c] = "save" =>
       \A x \in Transport : got[c].refresh \notin dead[x]

CatalogInv == FullInv /\ CatalogTypeOK /\ CallInv /\ SeedInv
-----------------------------------------------------------------------------
(* A step of one call is seen by no other: each has its own transport.     *)
LEMMA OwnStep ==
  ASSUME FullInv, NEW c \in Goroutine, Step(c)
  PROVE  /\ pc[c] # "idle" /\ up' = up
         /\ \A d \in Goroutine \ {c} :
              pc'[d] = pc[d] /\ mem'[TransportOf[d]] = mem[TransportOf[d]]
         /\ pc[c] \notin {"save", "wipe"} => disk' = disk
         /\ pc'[c] \in Loaded => /\ pc[c] \in Loaded
                                 /\ mem'[TransportOf[c]] = mem[TransportOf[c]]
                                 /\ disk' = disk
         /\ pc[c] # "send" => pc'[c] \in PC
<1> USE CodexTransportAssumption, ModelCatalogAssumption
    DEF FullInv, IInv, TypeOK, PC, Goto, Loaded
<1>1. CASE Do(c)
  BY <1>1 DEF Do
<1>2. CASE DoubleCheck(c)
  BY <1>2 DEF DoubleCheck
<1>3. CASE Granted(c)
  BY <1>3 DEF Granted
<1>4. CASE Rejected(c) \/ TokenCallFails(c)
  BY <1>4 DEF Rejected, TokenCallFails
<1>5. CASE Save(c) \/ SaveFails(c)
  BY <1>5 DEF Save, SaveFails
<1>6. CASE Commit(c) \/ Adopt(c) \/ Zero(c)
  BY <1>6 DEF Commit, Adopt, Zero
<1>7. CASE LoadDisk(c) \/ LoadFails(c)
  BY <1>7 DEF LoadDisk, LoadFails
<1>8. CASE Wipe(c) \/ WipeFails(c)
  BY <1>8 DEF Wipe, WipeFails
<1>9. CASE Finish(c)
  BY <1>9 DEF Finish
<1>10. CASE Send(c)
  BY <1>10 DEF Send
<1> QED
  BY <1>1, <1>2, <1>3, <1>4, <1>5, <1>6, <1>7, <1>8, <1>9, <1>10 DEF Step

(* The two steps of a call that are no steps of the transport: the request *)
(* is dropped, and the transport with it.                                  *)
LEMMA CancelledStep ==
  ASSUME CatalogInv, NEW c \in Goroutine, CheckContext(c)
  PROVE  FullInv'
  BY CodexTransportAssumption
  DEF CheckContext, Goto, CatalogInv, FullInv, IInv, TypeOK, ServerTypeOK, FlightInv,
      LeaderInv, SavedInv, TokenInv, HasOld, AfterRejection, PC, InFlight, isValid,
      serverVars, locals, history

LEMMA DropStep ==
  ASSUME CatalogInv, NEW c \in Goroutine, Release(c)
  PROVE  FullInv'
<1> USE CodexTransportAssumption, ModelCatalogAssumption, NoCredsType, GrantFacts
    DEF CatalogInv, FullInv, CallInv
<1>1. pc[c] = "idle" /\ \A d \in Goroutine : TransportOf[d] = TransportOf[c] => d = c
  BY DEF Release
<1>2. /\ UNCHANGED <<minted, live, young, orphan, disk, leader, pc, old, got, persisted, dead>>
      /\ up' = up \ {TransportOf[c]}
      /\ mem' = [mem EXCEPT ![TransportOf[c]] = NoCreds]
  BY DEF Release, Drop, serverVars, locals, history
<1>3. TypeOK'
  BY <1>2 DEF IInv, TypeOK, ServerTypeOK
<1>4. FlightInv'
  BY <1>1, <1>2 DEF IInv, TypeOK, FlightInv, isValid, PC, InFlight
<1>5. LeaderInv' /\ SavedInv'
  BY <1>2 DEF IInv, TypeOK, LeaderInv, SavedInv, NoCreds
<1>6. TokenInv'
  BY <1>1, <1>2, RefreshFacts
  DEF IInv, TypeOK, TokenInv, NoCreds, HasOld, AfterRejection
<1> QED
  BY <1>3, <1>4, <1>5, <1>6 DEF IInv

LEMMA CatalogFullStep ==
  ASSUME CatalogInv, [CatalogNext]_allVars
  PROVE  FullInv'
<1>1. ASSUME [Next]_vars PROVE FullInv'
  BY <1>1, FullInvStep DEF CatalogInv
<1>2. ASSUME NEW c \in Goroutine,
             ListModels(c) \/ Cancel(c) \/ AcquireCatalogGate(c) \/ GiveUp(c)
             \/ Refuse(c) \/ RefreshFailed(c)
      PROVE  FullInv'
  BY <1>1, <1>2
  DEF ListModels, Cancel, AcquireCatalogGate, GiveUp, Refuse, RefreshFailed
<1>3. ASSUME NEW c \in Goroutine, Open(c) PROVE FullInv'
  BY <1>1, <1>3, CodexTransportAssumption DEF Open, Next, Environment
<1>4. ASSUME NEW c \in Goroutine, StartRoundTrip(c) \/ Refresh(c) \/ SendRequest(c)
      PROVE  FullInv'
  BY <1>1, <1>4 DEF StartRoundTrip, Refresh, SendRequest, Next, Client, Step
<1>5. CASE Server
  BY <1>1, <1>5 DEF Next, Environment
<1>6. CASE UNCHANGED allVars
  BY <1>1, <1>6 DEF allVars
<1> QED
  BY <1>2, <1>3, <1>4, <1>5, <1>6, CancelledStep, DropStep
  DEF CatalogNext, CatalogStep
-----------------------------------------------------------------------------
LEMMA InitCatalogInv == CatalogInit => CatalogInv
<1>1. Init => FullInv
  BY InitFullInv
<1> QED
  BY <1>1, CodexTransportAssumption
  DEF CatalogInit, Init, CatalogInv, FullInv, IInv, CatalogTypeOK, CallPC, CallInv,
      SeedInv, Loaded

LEMMA CatalogTypeStep ==
  ASSUME CatalogInv, [CatalogNext]_allVars
  PROVE  CatalogTypeOK'
<1> USE CodexTransportAssumption
    DEF CatalogInv, CatalogTypeOK, CallPC, GoOn, catalogVars, allVars
<1>1. TypeOK'
  BY CatalogFullStep DEF FullInv, IInv
<1>2. ASSUME NEW c \in Goroutine, ListModels(c) \/ AcquireCatalogGate(c) \/ GiveUp(c)
      PROVE  CatalogTypeOK'
  BY <1>1, <1>2 DEF ListModels, AcquireCatalogGate, GiveUp
<1>3. ASSUME NEW c \in Goroutine, Cancel(c) PROVE CatalogTypeOK'
  BY <1>1, <1>3 DEF Cancel
<1>4. ASSUME NEW c \in Goroutine, Open(c) \/ Refuse(c) \/ StartRoundTrip(c)
      PROVE  CatalogTypeOK'
  BY <1>1, <1>4 DEF Open, Refuse, StartRoundTrip
<1>5. ASSUME NEW c \in Goroutine, Refresh(c) PROVE CatalogTypeOK'
  BY <1>1, <1>5 DEF Refresh
<1>6. ASSUME NEW c \in Goroutine, CheckContext(c) \/ SendRequest(c) \/ RefreshFailed(c)
      PROVE  CatalogTypeOK'
  BY <1>1, <1>6 DEF CheckContext, SendRequest, RefreshFailed
<1>7. ASSUME NEW c \in Goroutine, Release(c) PROVE CatalogTypeOK'
  BY <1>1, <1>7 DEF Release, Drop
<1>8. CASE UNCHANGED catalogVars
  BY <1>1, <1>8
<1> QED
  BY <1>2, <1>3, <1>4, <1>5, <1>6, <1>7, <1>8 DEF CatalogNext, CatalogStep

LEMMA CallStep ==
  ASSUME CatalogInv, [CatalogNext]_allVars
  PROVE  CallInv'
<1> USE CodexTransportAssumption
    DEF CatalogInv, FullInv, IInv, TypeOK, CatalogTypeOK, CallPC, GoOn, Goto,
        catalogVars, allVars, CallInv
<1>1. ASSUME NEW c \in Goroutine, ListModels(c) \/ AcquireCatalogGate(c) \/ GiveUp(c)
      PROVE  CallInv'
  BY <1>1 DEF ListModels, AcquireCatalogGate, GiveUp, vars
<1>2. ASSUME NEW c \in Goroutine, Cancel(c) PROVE CallInv'
  BY <1>2 DEF Cancel, vars
<1>3. ASSUME NEW c \in Goroutine, Open(c) \/ Refuse(c) PROVE CallInv'
  BY <1>3 DEF Open, Refuse, Seed, vars
<1>4. ASSUME NEW c \in Goroutine, StartRoundTrip(c) PROVE CallInv'
  BY <1>4 DEF StartRoundTrip, EnsureFresh
<1>5. ASSUME NEW c \in Goroutine, Refresh(c) PROVE CallInv'
  BY <1>5, OwnStep DEF Refresh
<1>6. ASSUME NEW c \in Goroutine, CheckContext(c) PROVE CallInv'
  BY <1>6 DEF CheckContext
<1>7. ASSUME NEW c \in Goroutine, SendRequest(c) PROVE CallInv'
  BY <1>7 DEF SendRequest, Send
<1>8. ASSUME NEW c \in Goroutine, RefreshFailed(c) PROVE CallInv'
  BY <1>8 DEF RefreshFailed, vars
<1>9. ASSUME NEW c \in Goroutine, Release(c) PROVE CallInv'
  BY <1>9 DEF Release, Drop
<1>10. CASE Server /\ UNCHANGED catalogVars
  BY <1>10 DEF Server
<1>11. CASE UNCHANGED allVars
  BY <1>11 DEF vars
<1> QED
  BY <1>1, <1>2, <1>3, <1>4, <1>5, <1>6, <1>7, <1>8, <1>9, <1>10, <1>11
  DEF CatalogNext, CatalogStep

(* Only the call that has the gate saves or wipes. *)
LEMMA SeedStep ==
  ASSUME CatalogInv, [CatalogNext]_allVars
  PROVE  SeedInv'
<1> USE CodexTransportAssumption, ModelCatalogAssumption
    DEF CatalogInv, FullInv, IInv, TypeOK, CatalogTypeOK, CallPC, GoOn, Goto,
        catalogVars, allVars, CallInv, SeedInv, Loaded
<1>1. ASSUME NEW c \in Goroutine, ListModels(c) \/ AcquireCatalogGate(c) \/ GiveUp(c)
      PROVE  SeedInv'
  BY <1>1 DEF ListModels, AcquireCatalogGate, GiveUp, vars
<1>2. ASSUME NEW c \in Goroutine, Cancel(c) PROVE SeedInv'
  BY <1>2 DEF Cancel, vars
<1>3. ASSUME NEW c \in Goroutine, Open(c) \/ Refuse(c) PROVE SeedInv'
  BY <1>3 DEF Open, Refuse, Seed, vars
<1>4. ASSUME NEW c \in Goroutine, StartRoundTrip(c) PROVE SeedInv'
  BY <1>4 DEF StartRoundTrip, EnsureFresh
<1>5. ASSUME NEW c \in Goroutine, Refresh(c) PROVE SeedInv'
  <2>1. call[c] = "within" /\ call' = call /\ Step(c)
    BY <1>5 DEF Refresh
  <2>2. ASSUME NEW d \in Goroutine \ {c}, call[d] = "trip" \/ pc[d] \in Loaded
        PROVE  FALSE
    BY <2>1, <2>2
  <2>3. \A d \in Goroutine \ {c} : call'[d] = call[d] /\ pc'[d] = pc[d]
    BY <2>1, OwnStep
  <2>4. pc'[c] \in Loaded => mem'[TransportOf[c]] = disk'
    BY <2>1, OwnStep
  <2> QED
    BY <2>1, <2>2, <2>3, <2>4
<1>6. ASSUME NEW c \in Goroutine, CheckContext(c) PROVE SeedInv'
  BY <1>6 DEF CheckContext
<1>7. ASSUME NEW c \in Goroutine, SendRequest(c) PROVE SeedInv'
  BY <1>7 DEF SendRequest, Send
<1>8. ASSUME NEW c \in Goroutine, RefreshFailed(c) PROVE SeedInv'
  BY <1>8 DEF RefreshFailed, vars
<1>9. ASSUME NEW c \in Goroutine, Release(c) PROVE SeedInv'
  BY <1>9 DEF Release, Drop
<1>10. CASE Server /\ UNCHANGED catalogVars
  BY <1>10 DEF Server
<1>11. CASE UNCHANGED allVars
  BY <1>11 DEF vars
<1> QED
  BY <1>1, <1>2, <1>3, <1>4, <1>5, <1>6, <1>7, <1>8, <1>9, <1>10, <1>11
  DEF CatalogNext, CatalogStep

(* Every reachable state satisfies the inductive invariant.                *)
THEOREM CatalogCorrect == CatalogSpec => []CatalogInv
<1>1. CatalogInv /\ [CatalogNext]_allVars => CatalogInv'
  BY CatalogFullStep, CatalogTypeStep, CallStep, SeedStep DEF CatalogInv
<1> QED
  BY InitCatalogInv, <1>1, PTL DEF CatalogSpec

(* Type correctness (ListModels, catalogGate): in particular the gate is   *)
(* held by the one call that is past it, whichever way calls end.          *)
THEOREM CatalogTypeCorrect == CatalogSpec => []CatalogTypeOK
<1>1. CatalogInv => CatalogTypeOK
  BY DEF CatalogInv
<1> QED
  BY CatalogCorrect, <1>1, PTL

(* Calls through one Client are serialized (catalog.go:52): at most one is *)
(* refreshing, with the refresh token that is on disk.                     *)
THEOREM Serialized == CatalogSpec => []RefreshesSerialized
<1>1. CatalogInv => RefreshesSerialized
  BY CodexTransportAssumption
  DEF CatalogInv, FullInv, IInv, TypeOK, CatalogTypeOK, CallInv, SeedInv, Loaded,
      TokenInv, HasOld, RefreshesSerialized, InFlight, PC
<1> QED
  BY CatalogCorrect, <1>1, PTL

(* A call cancelled before its flight ended sends no catalog request       *)
(* (catalog.go:54-56).                                                     *)
THEOREM LateCallsSendNothing == CatalogSpec => NothingSentWhenLate
<1> DEFINE NotLate == \A c \in Goroutine : SendRequest(c) => c \notin late
<1>1. CatalogInv => NotLate
  BY DEF CatalogInv, CallInv, SendRequest
<1> QED
  BY CatalogCorrect, <1>1, PTL DEF NothingSentWhenLate

(* What a call wipes is a dead entry, whatever fails: the calls are free   *)
(* of the race that independent transports run.                            *)
THEOREM CallsWipeTheDead == CatalogSpec => CallsWipeOnlyTheDead
<1> DEFINE WipesDead == \A c \in Goroutine : Wipe(c) => disk.refresh \notin live
<1>1. CatalogInv => WipesDead
  BY DEF CatalogInv, FullInv, TokenInv, HasOld, AfterRejection, SeedInv, Loaded, Wipe
<1> QED
  BY CatalogCorrect, <1>1, PTL DEF CallsWipeOnlyTheDead
-----------------------------------------------------------------------------
(* loadCreds and wipeCreds do what they should. *)
LoadsAndWipesWork == Faults \cap {"load", "wipe"} = {}

(* Where a transport's flight can be while nobody else saves or loads.     *)
LEMMA GateHeld ==
  ASSUME CatalogInv, NEW c \in Goroutine, NEW d \in Goroutine,
         pc[c] \in InFlight, pc[d] \in InFlight
  PROVE  c = d
  BY DEF CatalogInv, CatalogTypeOK, CallInv, InFlight, PC

LEMMA WipedFlightStep ==
  ASSUME LoadsAndWipesWork, CatalogInv, WipedInv, NEW c \in Goroutine, pc[c] # "send", Step(c)
  PROVE  WipedInv'
<1> USE CodexTransportAssumption
    DEF CatalogInv, FullInv, IInv, TypeOK, PC, InFlight, Goto, WipedInv, HasOld,
        AfterRejection, LoadsAndWipesWork, locals, history
<1>1. pc[c] \in InFlight => \A d \in Goroutine \ {c} : pc[d] \notin InFlight
  BY GateHeld
<1>2. CASE Do(c)
  BY <1>2 DEF Do
<1>3. CASE DoubleCheck(c)
  BY <1>3 DEF DoubleCheck
<1>4. CASE Granted(c)
  <2>1. /\ UNCHANGED <<disk, dead>> /\ pc' = [pc EXCEPT ![c] = "save"] /\ pc[c] = "post"
        /\ \A h \in Goroutine \ {c} : got'[h] = got[h]
    BY <1>4 DEF Granted
  <2>2. \A x \in Transport : old[c].refresh \notin dead[x]
    BY <1>1, <2>1 DEF SeedInv, Loaded, TokenInv
  <2>3. \A x \in Transport : minted' \notin dead[x]
    BY <1>4, IssueFacts DEF Granted, TokenInv
  <2>4. \A x \in Transport : got'[c].refresh \notin dead[x]
    BY <1>4, <2>2, <2>3, GrantedRefresh
  <2> QED
    BY <1>1, <2>1, <2>4
<1>5. CASE Rejected(c)
  BY <1>1, <1>5 DEF Rejected, SeedInv, Loaded, TokenInv
<1>6. CASE TokenCallFails(c)
  BY <1>1, <1>6 DEF TokenCallFails
<1>7. CASE Save(c) \/ SaveFails(c)
  BY <1>1, <1>7 DEF Save, SaveFails
<1>8. CASE Commit(c) \/ Adopt(c) \/ Zero(c)
  BY <1>1, <1>8 DEF Commit, Adopt, Zero
<1>9. CASE LoadDisk(c)
  BY <1>1, <1>9 DEF LoadDisk, SeedInv, Loaded, TokenInv
<1>10. CASE Wipe(c)
  BY <1>1, <1>10, RefreshFacts DEF Wipe, NoCreds, TokenInv
<1>11. CASE Finish(c)
  BY <1>1, <1>11 DEF Finish
<1> QED
  BY <1>2, <1>3, <1>4, <1>5, <1>6, <1>7, <1>8, <1>9, <1>10, <1>11
  DEF Step, LoadFails, WipeFails, Send

LEMMA WipedStep ==
  ASSUME LoadsAndWipesWork, CatalogInv, WipedInv, [CatalogNext]_allVars
  PROVE  WipedInv'
<1> USE CodexTransportAssumption
    DEF CatalogInv, FullInv, IInv, TypeOK, Goto, CallInv, WipedInv, catalogVars, allVars
<1>1. ASSUME NEW c \in Goroutine,
             ListModels(c) \/ Cancel(c) \/ AcquireCatalogGate(c) \/ GiveUp(c)
             \/ Refuse(c) \/ RefreshFailed(c)
      PROVE  WipedInv'
  BY <1>1
  DEF ListModels, Cancel, AcquireCatalogGate, GiveUp, Refuse, RefreshFailed, vars, locals,
      history
<1>2. ASSUME NEW c \in Goroutine, Open(c) PROVE WipedInv'
  BY <1>2 DEF Open, Seed, locals, history
<1>3. ASSUME NEW c \in Goroutine, StartRoundTrip(c) PROVE WipedInv'
  BY <1>3 DEF StartRoundTrip, EnsureFresh, locals, history
<1>4. ASSUME NEW c \in Goroutine, Refresh(c) PROVE WipedInv'
  BY <1>4, WipedFlightStep DEF Refresh
<1>5. ASSUME NEW c \in Goroutine, CheckContext(c) PROVE WipedInv'
  BY <1>5 DEF CheckContext, locals, history
<1>6. ASSUME NEW c \in Goroutine, SendRequest(c) PROVE WipedInv'
  BY <1>6 DEF SendRequest, Send, locals, history
<1>7. ASSUME NEW c \in Goroutine, Release(c) PROVE WipedInv'
  BY <1>7 DEF Release, Drop, locals, history
<1>8. CASE Server
  BY <1>8 DEF Server, locals, history
<1>9. CASE UNCHANGED allVars
  BY <1>9 DEF vars, locals, history
<1> QED
  BY <1>1, <1>2, <1>3, <1>4, <1>5, <1>6, <1>7, <1>8, <1>9 DEF CatalogNext, CatalogStep

(* While the disk can be read and wiped, a refresh token rejected in one   *)
(* call is not tried by another (transport.go:65-68).                      *)
THEOREM RejectedOnceAcrossCalls ==
  ASSUME LoadsAndWipesWork
  PROVE  CatalogSpec => []NoDeadLoopAcrossCalls
<1>1. CatalogInv /\ WipedInv /\ [CatalogNext]_allVars => WipedInv'
  BY LoadsAndWipesWork, WipedStep
<1>2. CatalogInit => WipedInv
  BY DEF CatalogInit, Init, WipedInv
<1>3. CatalogInv /\ WipedInv => NoDeadLoopAcrossCalls
  <2> SUFFICES ASSUME CatalogInv, WipedInv, NEW c \in Goroutine, pc[c] = "post"
               PROVE  \A x \in Transport : old[c].refresh \notin dead[x]
    BY DEF NoDeadLoopAcrossCalls
  <2>1. old[c].refresh = disk.refresh
    BY DEF CatalogInv, FullInv, TokenInv, HasOld, SeedInv, Loaded
  <2>2. \A d \in Goroutine : pc[d] \notin {"load", "wipe"}
    BY GateHeld DEF InFlight, PC
  <2> QED
    BY <2>1, <2>2 DEF WipedInv
<1> QED
  BY CatalogCorrect, <1>1, <1>2, <1>3, PTL DEF CatalogSpec
=============================================================================
