-------------------------- MODULE CodexTransportProofs --------------------------
(* Theorems about CodexTransport, for every number of transports and       *)
(* goroutines, every bound on the token sets and every set of faults.      *)
EXTENDS CodexTransport, TLAPS

(* The leader of a flight, and nobody else, runs its function; what it     *)
(* posts is what the transport still holds.                                *)
FlightInv ==
  \A g \in Goroutine :
    /\ pc[g] \in InFlight <=> leader[TransportOf[g]] = g
    /\ pc[g] # "idle" => TransportOf[g] \in up
    /\ pc[g] = "post" => /\ old[g] = mem[TransportOf[g]]
                         /\ old[g].refresh # 0
                         /\ ~isValid(mem[TransportOf[g]])
    /\ pc[g] \in {"save", "commit"} => got[g].access # 0

(* A flight is led by a goroutine of its own transport. *)
LeaderInv ==
  \A x \in Transport : leader[x] # Nobody => TransportOf[leader[x]] = x

(* Every access token on disk has been saved, and so has what a flight is  *)
(* about to put in memory.                                                 *)
SavedInv ==
  /\ persisted \subseteq 1..minted
  /\ \A g \in Goroutine : got[g].access <= minted
  /\ disk.access \in persisted \cup {0}
  /\ \A x \in Transport : mem[x].access \in persisted \cup {0}
  /\ \A g \in Goroutine : pc[g] \in {"commit", "adopt"} =>
       got[g].access \in persisted \cup {0}

IInv == TypeOK /\ FlightInv /\ LeaderInv /\ SavedInv

(* Where the transport's credentials are the ones its flight started from, *)
(* and where the endpoint has rejected their refresh token.                *)
HasOld == {"post", "save", "commit", "load", "adopt", "wipe", "zero"}
AfterRejection == {"load", "adopt", "wipe", "zero"}

(* Refresh tokens: all of them have been issued, what a flight spends is   *)
(* what its transport holds, and a token that was rejected, or replaced in *)
(* the answer that waits to be saved, is not accepted any more.            *)
TokenInv ==
  /\ live \subseteq 1..minted
  /\ disk.refresh <= minted
  /\ disk.access = 0 => disk.refresh = 0
  /\ \A x \in Transport : mem[x].refresh <= minted /\ dead[x] \subseteq 1..minted
  /\ \A g \in Goroutine :
       /\ old[g].refresh <= minted /\ got[g].refresh <= minted
       /\ pc[g] \in HasOld => old[g] = mem[TransportOf[g]]
       /\ pc[g] \in AfterRejection => old[g].refresh \notin live
       /\ pc[g] \in {"save", "commit"} =>
            got[g].refresh = old[g].refresh \/ old[g].refresh \notin live

FullInv == IInv /\ TokenInv

(* No answer of the endpoint is lost, no save fails, no process dies. *)
NothingLost == Faults \cap {"call", "save", "dirty", "crash"} = {}

(* Somebody has r in memory: a transport, or a refresh about to save it.   *)
Held(r) ==
  \/ \E x \in up : mem[x].refresh = r
  \/ \E g \in Goroutine : pc[g] \in {"save", "commit"} /\ got[g].refresh = r

(* With transports up, every live token is in memory somewhere; Custody    *)
(* alone is not inductive, as a wipe may delete a good entry (the run      *)
(* transport_wipe_race).  Requests without an answer come with MaxGrants.  *)
CustodyInv ==
  /\ orphan # {} => minted = MaxGrants
  /\ \A r \in live : Held(r) \/ (up = {} /\ disk.refresh = r)

(* One transport has auth.json to itself. *)
Alone == \A x, y \in Transport : x = y

(* What the transport, or its flight, or the disk behind it holds has not  *)
(* been rejected, but for the flight that has just seen it rejected and    *)
(* for an entry that could not be wiped, which is not loaded again.        *)
DeadInv ==
  /\ \A x \in Transport :
       /\ x \notin up => dead[x] = {}
       /\ mem[x].refresh \in dead[x] =>
            \E g \in Goroutine : TransportOf[g] = x /\ pc[g] \in AfterRejection
       /\ disk.refresh \in dead[x] => mem[x].refresh \in {0, disk.refresh}
  /\ \A g \in Goroutine :
       /\ pc[g] = "load" => old[g].refresh # 0
       /\ pc[g] \in {"save", "commit", "adopt"} => got[g].refresh \notin dead[TransportOf[g]]
       /\ pc[g] \in {"commit", "adopt"} => disk.refresh = got[g].refresh
       /\ pc[g] = "wipe" => disk.refresh \in {0, old[g].refresh}

(* What a transport that is alone holds, step by step through its flight.  *)
MatchInv ==
  /\ \A x \in up : leader[x] = Nobody \/ pc[leader[x]] \in {"recheck", "fail"} =>
       mem[x] \in {disk, NoCreds}
  /\ \A g \in Goroutine :
       /\ pc[g] \in {"post", "save", "load", "succeed"} => mem[TransportOf[g]] = disk
       /\ pc[g] = "commit" => disk = got[g]
       /\ pc[g] # "adopt"
-----------------------------------------------------------------------------
LEMMA GrantFacts == 0 \notin Grant /\ 1 \in Grant /\ Grant \subseteq Nat
  BY TokenServerAssumption DEF Grant

LEMMA NoCredsType == NoCreds \in Creds
  BY DEF NoCreds, Creds

LEMMA CredsFields ==
  ASSUME NEW c \in Creds
  PROVE  /\ c.access \in Grant \cup {0} /\ c.refresh \in Grant \cup {0}
         /\ c.account \in Account \cup {NoAccount}
  BY DEF Creds

LEMMA GotAccess ==
  ASSUME TypeOK, NEW g \in Goroutine
  PROVE  got[g].access \in Nat /\ got[g].access \in Grant \cup {0}
<1>1. got[g] \in Creds
  BY DEF TypeOK
<1>2. got[g].access \in Grant \cup {0}
  BY <1>1 DEF Creds
<1> QED
  BY <1>2, TokenServerAssumption DEF Grant

LEMMA WithTokens ==
  ASSUME NEW c \in Creds, NEW n \in Grant
  PROVE  /\ [c EXCEPT !.access = n] \in Creds
         /\ [c EXCEPT !.access = n].access = n
         /\ [c EXCEPT !.access = n].refresh = c.refresh
         /\ [c EXCEPT !.access = n, !.refresh = n] \in Creds
         /\ [c EXCEPT !.access = n, !.refresh = n].access = n
         /\ [c EXCEPT !.access = n, !.refresh = n].refresh = n
  BY DEF Creds

LEMMA WithAccount ==
  ASSUME NEW c \in Creds, NEW a \in Account \cup {NoAccount}
  PROVE  /\ [c EXCEPT !.account = a] \in Creds
         /\ [c EXCEPT !.account = a].access = c.access
         /\ [c EXCEPT !.account = a].refresh = c.refresh
  BY DEF Creds

LEMMA InitIInv == Init => IInv
  BY CodexTransportAssumption, GrantFacts, NoCredsType
  DEF Init, ServerInit, IInv, TypeOK, ServerTypeOK, FlightInv, LeaderInv, SavedInv,
      PC, InFlight, NoCreds, Creds

(* What the endpoint issues is within the bound. *)
LEMMA MintStep ==
  ASSUME ServerTypeOK, Mint
  PROVE  minted' \in Grant /\ young' \subseteq Grant
  BY TokenServerAssumption DEF ServerTypeOK, Mint, Grant

LEMMA HandlesStep ==
  ASSUME ServerTypeOK, NEW r, Rotates(r) \/ Keeps(r)
  PROVE  /\ minted' \in Grant /\ young' \subseteq Grant
         /\ live' \subseteq Grant
         /\ minted' = minted + 1 /\ young' = young \cup {minted'}
  BY MintStep DEF ServerTypeOK, Rotates, Keeps, Mint

LEMMA GrantedCreds ==
  ASSUME TypeOK, NEW g \in Goroutine, Granted(g)
  PROVE  \E c \in Creds : c.access = minted' /\ minted' \in Grant
                           /\ got' = [got EXCEPT ![g] = c]
<1>1. minted' \in Grant /\ old[g] \in Creds
  BY HandlesStep DEF Granted, TypeOK
<1>2. CASE got' = [got EXCEPT ![g] = [old[g] EXCEPT !.access = minted', !.refresh = minted']]
  BY <1>1, <1>2, WithTokens
<1>3. CASE got' = [got EXCEPT ![g] = [old[g] EXCEPT !.access = minted']]
  BY <1>1, <1>3, WithTokens
<1> QED
  BY <1>2, <1>3 DEF Granted

LEMMA TypeStep ==
  ASSUME IInv, [Next]_vars
  PROVE  TypeOK'
<1> USE CodexTransportAssumption, GrantFacts, NoCredsType
    DEF IInv, TypeOK, ServerTypeOK, PC, InFlight, serverVars, locals, history, Goto
<1>1. ASSUME NEW g \in Goroutine, EnsureFresh(g) PROVE TypeOK'
  BY <1>1 DEF EnsureFresh
<1>2. ASSUME NEW g \in Goroutine, Do(g) PROVE TypeOK'
  BY <1>2 DEF Do
<1>3. ASSUME NEW g \in Goroutine, DoubleCheck(g) PROVE TypeOK'
  BY <1>3 DEF DoubleCheck
<1>4. ASSUME NEW g \in Goroutine, Granted(g) PROVE TypeOK'
  <2>1. /\ minted' \in Grant /\ young' \subseteq Grant
        /\ live' \subseteq Grant
    BY <1>4, HandlesStep DEF Granted
  <2>2. got' \in [Goroutine -> Creds]
    BY <1>4, GrantedCreds DEF Granted
  <2> QED
    BY <1>4, <2>1, <2>2 DEF Granted
<1>5. ASSUME NEW g \in Goroutine, Rejected(g) PROVE TypeOK'
  BY <1>5 DEF Rejected, FlightInv, Creds
<1>6. ASSUME NEW g \in Goroutine, TokenCallFails(g) PROVE TypeOK'
  BY <1>6 DEF TokenCallFails, Abandoned
<1>7. ASSUME NEW g \in Goroutine, Save(g) PROVE TypeOK'
  <2>1. got[g].access \in Grant
    BY <1>7, CredsFields DEF Save, FlightInv
  <2> QED
    BY <1>7, <2>1 DEF Save
<1>8. ASSUME NEW g \in Goroutine, SaveFails(g) PROVE TypeOK'
  BY <1>8 DEF SaveFails
<1>9. ASSUME NEW g \in Goroutine, Commit(g) PROVE TypeOK'
  BY <1>9 DEF Commit
<1>10. ASSUME NEW g \in Goroutine, LoadDisk(g) PROVE TypeOK'
  <2>1. [disk EXCEPT !.account = old[g].account] \in Creds
    BY CredsFields, WithAccount
  <2> QED
    BY <1>10, <2>1 DEF LoadDisk
<1>11. ASSUME NEW g \in Goroutine, LoadFails(g) PROVE TypeOK'
  BY <1>11 DEF LoadFails
<1>12. ASSUME NEW g \in Goroutine, Adopt(g) PROVE TypeOK'
  BY <1>12 DEF Adopt
<1>13. ASSUME NEW g \in Goroutine, Wipe(g) PROVE TypeOK'
  BY <1>13 DEF Wipe
<1>14. ASSUME NEW g \in Goroutine, WipeFails(g) PROVE TypeOK'
  BY <1>14 DEF WipeFails
<1>15. ASSUME NEW g \in Goroutine, Zero(g) PROVE TypeOK'
  BY <1>15 DEF Zero
<1>16. ASSUME NEW g \in Goroutine, Finish(g) PROVE TypeOK'
  BY <1>16 DEF Finish
<1>17. ASSUME NEW g \in Goroutine, Send(g) PROVE TypeOK'
  BY <1>17 DEF Send
<1>18. ASSUME NEW x \in Transport, Seed(x) PROVE TypeOK'
  BY <1>18 DEF Seed
<1>19. ASSUME NEW x \in Transport, Crash(x) PROVE TypeOK'
  BY <1>19 DEF Crash, Abandoned
<1>20. ASSUME HandleOrphan, UNCHANGED <<disk, mem, up, leader, pc, locals, history>> PROVE TypeOK'
  BY <1>20, HandlesStep DEF HandleOrphan
<1>21. ASSUME NEW n \in Grant, Age(n),
             UNCHANGED <<disk, mem, up, leader, pc, locals, history>> PROVE TypeOK'
  BY <1>21 DEF Age
<1>22. ASSUME Revoke, UNCHANGED <<disk, mem, up, leader, pc, locals, history>> PROVE TypeOK'
  BY <1>22 DEF Revoke
<1>23. CASE UNCHANGED vars
  BY <1>23 DEF vars
<1> QED
  BY <1>1, <1>2, <1>3, <1>4, <1>5, <1>6, <1>7, <1>8, <1>9, <1>10, <1>11,
     <1>12, <1>13, <1>14, <1>15, <1>16, <1>17, <1>18, <1>19, <1>20, <1>21,
     <1>22, <1>23
  DEF Next, Client, Environment, Server, Step

LEMMA FlightStep ==
  ASSUME IInv, [Next]_vars
  PROVE  FlightInv'
<1> USE CodexTransportAssumption, GrantFacts, NoCredsType
    DEF IInv, TypeOK, ServerTypeOK, PC, InFlight, serverVars, locals, history, Goto, FlightInv, LeaderInv, isValid
<1>1. ASSUME NEW g \in Goroutine, EnsureFresh(g) PROVE FlightInv'
  BY <1>1 DEF EnsureFresh
<1>2. ASSUME NEW g \in Goroutine, Do(g) PROVE FlightInv'
  BY <1>2 DEF Do
<1>3. ASSUME NEW g \in Goroutine, DoubleCheck(g) PROVE FlightInv'
  BY <1>3 DEF DoubleCheck
<1>4. ASSUME NEW g \in Goroutine, Granted(g) PROVE FlightInv'
  <2>1. minted' = minted + 1 /\ young' = young \cup {minted'} /\ minted \in Nat
    BY <1>4, HandlesStep DEF Granted
  <2>2. \A x \in Transport : ~isValid(mem[x]) => ~isValid(mem[x])'
    BY <1>4, <2>1 DEF Granted, SavedInv
  <2>3. PICK c \in Creds : c.access = minted' /\ got' = [got EXCEPT ![g] = c]
    BY <1>4, GrantedCreds
  <2>4. old' = old /\ mem' = mem /\ leader' = leader /\ up' = up /\ pc' = [pc EXCEPT ![g] = "save"]
    BY <1>4 DEF Granted
  <2> QED
    BY <1>4, <2>1, <2>2, <2>3, <2>4 DEF Granted
<1>5. ASSUME NEW g \in Goroutine, Rejected(g) PROVE FlightInv'
  BY <1>5 DEF Rejected
<1>6. ASSUME NEW g \in Goroutine, TokenCallFails(g) PROVE FlightInv'
  BY <1>6 DEF TokenCallFails
<1>7. ASSUME NEW g \in Goroutine, Save(g) PROVE FlightInv'
  BY <1>7 DEF Save
<1>8. ASSUME NEW g \in Goroutine, SaveFails(g) PROVE FlightInv'
  BY <1>8 DEF SaveFails
<1>9. ASSUME NEW g \in Goroutine, Commit(g) PROVE FlightInv'
  BY <1>9 DEF Commit
<1>10. ASSUME NEW g \in Goroutine, LoadDisk(g) PROVE FlightInv'
  BY <1>10 DEF LoadDisk
<1>11. ASSUME NEW g \in Goroutine, LoadFails(g) PROVE FlightInv'
  BY <1>11 DEF LoadFails
<1>12. ASSUME NEW g \in Goroutine, Adopt(g) PROVE FlightInv'
  BY <1>12 DEF Adopt
<1>13. ASSUME NEW g \in Goroutine, Wipe(g) PROVE FlightInv'
  BY <1>13 DEF Wipe
<1>14. ASSUME NEW g \in Goroutine, WipeFails(g) PROVE FlightInv'
  BY <1>14 DEF WipeFails
<1>15. ASSUME NEW g \in Goroutine, Zero(g) PROVE FlightInv'
  BY <1>15 DEF Zero
<1>16. ASSUME NEW g \in Goroutine, Finish(g) PROVE FlightInv'
  BY <1>16 DEF Finish
<1>17. ASSUME NEW g \in Goroutine, Send(g) PROVE FlightInv'
  BY <1>17 DEF Send
<1>18. ASSUME NEW x \in Transport, Seed(x) PROVE FlightInv'
  BY <1>18 DEF Seed
<1>19. ASSUME NEW x \in Transport, Crash(x) PROVE FlightInv'
  BY <1>19 DEF Crash
<1>20. ASSUME HandleOrphan, UNCHANGED <<disk, mem, up, leader, pc, locals, history>> PROVE FlightInv'
  <2>1. minted' = minted + 1 /\ young' = young \cup {minted'} /\ minted \in Nat
    BY <1>20, HandlesStep DEF HandleOrphan
  <2>2. \A x \in Transport : ~isValid(mem[x]) => ~isValid(mem[x])'
    BY <1>20, <2>1 DEF HandleOrphan, SavedInv
  <2> QED
    BY <1>20, <2>1, <2>2 DEF HandleOrphan
<1>21. ASSUME NEW n \in Grant, Age(n),
             UNCHANGED <<disk, mem, up, leader, pc, locals, history>> PROVE FlightInv'
  BY <1>21 DEF Age
<1>22. ASSUME Revoke, UNCHANGED <<disk, mem, up, leader, pc, locals, history>> PROVE FlightInv'
  BY <1>22 DEF Revoke
<1>23. CASE UNCHANGED vars
  BY <1>23 DEF vars
<1> QED
  BY <1>1, <1>2, <1>3, <1>4, <1>5, <1>6, <1>7, <1>8, <1>9, <1>10, <1>11,
     <1>12, <1>13, <1>14, <1>15, <1>16, <1>17, <1>18, <1>19, <1>20, <1>21,
     <1>22, <1>23
  DEF Next, Client, Environment, Server, Step

LEMMA LeaderStep ==
  ASSUME IInv, [Next]_vars
  PROVE  LeaderInv'
<1> USE CodexTransportAssumption
    DEF IInv, TypeOK, ServerTypeOK, PC, InFlight, serverVars, locals, history, Goto, FlightInv, LeaderInv
<1>1. ASSUME NEW g \in Goroutine, EnsureFresh(g) PROVE LeaderInv'
  BY <1>1 DEF EnsureFresh
<1>2. ASSUME NEW g \in Goroutine, Do(g) PROVE LeaderInv'
  BY <1>2 DEF Do
<1>3. ASSUME NEW g \in Goroutine, DoubleCheck(g) PROVE LeaderInv'
  BY <1>3 DEF DoubleCheck
<1>4. ASSUME NEW g \in Goroutine, Granted(g) PROVE LeaderInv'
  BY <1>4 DEF Granted
<1>5. ASSUME NEW g \in Goroutine, Rejected(g) PROVE LeaderInv'
  BY <1>5 DEF Rejected
<1>6. ASSUME NEW g \in Goroutine, TokenCallFails(g) PROVE LeaderInv'
  BY <1>6 DEF TokenCallFails
<1>7. ASSUME NEW g \in Goroutine, Save(g) PROVE LeaderInv'
  BY <1>7 DEF Save
<1>8. ASSUME NEW g \in Goroutine, SaveFails(g) PROVE LeaderInv'
  BY <1>8 DEF SaveFails
<1>9. ASSUME NEW g \in Goroutine, Commit(g) PROVE LeaderInv'
  BY <1>9 DEF Commit
<1>10. ASSUME NEW g \in Goroutine, LoadDisk(g) PROVE LeaderInv'
  BY <1>10 DEF LoadDisk
<1>11. ASSUME NEW g \in Goroutine, LoadFails(g) PROVE LeaderInv'
  BY <1>11 DEF LoadFails
<1>12. ASSUME NEW g \in Goroutine, Adopt(g) PROVE LeaderInv'
  BY <1>12 DEF Adopt
<1>13. ASSUME NEW g \in Goroutine, Wipe(g) PROVE LeaderInv'
  BY <1>13 DEF Wipe
<1>14. ASSUME NEW g \in Goroutine, WipeFails(g) PROVE LeaderInv'
  BY <1>14 DEF WipeFails
<1>15. ASSUME NEW g \in Goroutine, Zero(g) PROVE LeaderInv'
  BY <1>15 DEF Zero
<1>16. ASSUME NEW g \in Goroutine, Finish(g) PROVE LeaderInv'
  BY <1>16 DEF Finish
<1>17. ASSUME NEW g \in Goroutine, Send(g) PROVE LeaderInv'
  BY <1>17 DEF Send
<1>18. ASSUME NEW x \in Transport, Seed(x) PROVE LeaderInv'
  BY <1>18 DEF Seed
<1>19. ASSUME NEW x \in Transport, Crash(x) PROVE LeaderInv'
  BY <1>19 DEF Crash
<1>20. ASSUME HandleOrphan, UNCHANGED <<disk, mem, up, leader, pc, locals, history>> PROVE LeaderInv'
  BY <1>20 DEF HandleOrphan
<1>21. ASSUME NEW n \in Grant, Age(n),
             UNCHANGED <<disk, mem, up, leader, pc, locals, history>> PROVE LeaderInv'
  BY <1>21 DEF Age
<1>22. ASSUME Revoke, UNCHANGED <<disk, mem, up, leader, pc, locals, history>> PROVE LeaderInv'
  BY <1>22 DEF Revoke
<1>23. CASE UNCHANGED vars
  BY <1>23 DEF vars
<1> QED
  BY <1>1, <1>2, <1>3, <1>4, <1>5, <1>6, <1>7, <1>8, <1>9, <1>10, <1>11,
     <1>12, <1>13, <1>14, <1>15, <1>16, <1>17, <1>18, <1>19, <1>20, <1>21,
     <1>22, <1>23
  DEF Next, Client, Environment, Server, Step

LEMMA SavedStep ==
  ASSUME IInv, [Next]_vars
  PROVE  SavedInv'
<1> USE CodexTransportAssumption, GrantFacts, NoCredsType
    DEF IInv, TypeOK, ServerTypeOK, PC, InFlight, serverVars, locals, history, Goto, FlightInv, LeaderInv, SavedInv, NoCreds
<1>1. ASSUME NEW g \in Goroutine, EnsureFresh(g) PROVE SavedInv'
  BY <1>1 DEF EnsureFresh
<1>2. ASSUME NEW g \in Goroutine, Do(g) PROVE SavedInv'
  BY <1>2 DEF Do
<1>3. ASSUME NEW g \in Goroutine, DoubleCheck(g) PROVE SavedInv'
  BY <1>3 DEF DoubleCheck
<1>4. ASSUME NEW g \in Goroutine, Granted(g) PROVE SavedInv'
  <2>1. minted' = minted + 1 /\ minted \in Nat
    BY <1>4, HandlesStep DEF Granted
  <2>2. PICK c \in Creds : c.access = minted' /\ got' = [got EXCEPT ![g] = c]
    BY <1>4, GrantedCreds
  <2>3. \A h \in Goroutine : got'[h].access <= minted'
    BY <2>1, <2>2, GotAccess
  <2> QED
    BY <1>4, <2>1, <2>2, <2>3 DEF Granted
<1>5. ASSUME NEW g \in Goroutine, Rejected(g) PROVE SavedInv'
  BY <1>5 DEF Rejected
<1>6. ASSUME NEW g \in Goroutine, TokenCallFails(g) PROVE SavedInv'
  BY <1>6 DEF TokenCallFails
<1>7. ASSUME NEW g \in Goroutine, Save(g) PROVE SavedInv'
  <2>1. got[g].access \in 1..minted
    BY <1>7, GotAccess DEF Save, Grant
  <2>2. persisted' \subseteq 1..minted' /\ got' = got /\ mem' = mem
    BY <1>7, <2>1 DEF Save
  <2>3. disk' = got[g] /\ persisted' = persisted \cup {got[g].access}
    BY <1>7 DEF Save
  <2>4. \A h \in Goroutine : pc'[h] \in {"commit", "adopt"} => got[h].access \in persisted' \cup {0}
    BY <1>7, <2>3 DEF Save
  <2> QED
    BY <1>7, <2>2, <2>3, <2>4 DEF Save
<1>8. ASSUME NEW g \in Goroutine, SaveFails(g) PROVE SavedInv'
  BY <1>8 DEF SaveFails
<1>9. ASSUME NEW g \in Goroutine, Commit(g) PROVE SavedInv'
  BY <1>9 DEF Commit
<1>10. ASSUME NEW g \in Goroutine, LoadDisk(g) PROVE SavedInv'
  BY <1>10, CredsFields, WithAccount DEF LoadDisk
<1>11. ASSUME NEW g \in Goroutine, LoadFails(g) PROVE SavedInv'
  BY <1>11 DEF LoadFails
<1>12. ASSUME NEW g \in Goroutine, Adopt(g) PROVE SavedInv'
  BY <1>12 DEF Adopt
<1>13. ASSUME NEW g \in Goroutine, Wipe(g) PROVE SavedInv'
  BY <1>13 DEF Wipe
<1>14. ASSUME NEW g \in Goroutine, WipeFails(g) PROVE SavedInv'
  BY <1>14 DEF WipeFails
<1>15. ASSUME NEW g \in Goroutine, Zero(g) PROVE SavedInv'
  BY <1>15 DEF Zero
<1>16. ASSUME NEW g \in Goroutine, Finish(g) PROVE SavedInv'
  BY <1>16 DEF Finish
<1>17. ASSUME NEW g \in Goroutine, Send(g) PROVE SavedInv'
  BY <1>17 DEF Send
<1>18. ASSUME NEW x \in Transport, Seed(x) PROVE SavedInv'
  BY <1>18 DEF Seed
<1>19. ASSUME NEW x \in Transport, Crash(x) PROVE SavedInv'
  BY <1>19 DEF Crash
<1>20. ASSUME HandleOrphan, UNCHANGED <<disk, mem, up, leader, pc, locals, history>> PROVE SavedInv'
  <2>1. minted' = minted + 1 /\ minted \in Nat
    BY <1>20, HandlesStep DEF HandleOrphan
  <2>2. \A h \in Goroutine : got[h].access <= minted'
    BY <2>1, GotAccess
  <2> QED
    BY <1>20, <2>1, <2>2 DEF HandleOrphan
<1>21. ASSUME NEW n \in Grant, Age(n),
             UNCHANGED <<disk, mem, up, leader, pc, locals, history>> PROVE SavedInv'
  BY <1>21 DEF Age
<1>22. ASSUME Revoke, UNCHANGED <<disk, mem, up, leader, pc, locals, history>> PROVE SavedInv'
  BY <1>22 DEF Revoke
<1>23. CASE UNCHANGED vars
  BY <1>23 DEF vars
<1> QED
  BY <1>1, <1>2, <1>3, <1>4, <1>5, <1>6, <1>7, <1>8, <1>9, <1>10, <1>11,
     <1>12, <1>13, <1>14, <1>15, <1>16, <1>17, <1>18, <1>19, <1>20, <1>21,
     <1>22, <1>23
  DEF Next, Client, Environment, Server, Step

(* Every reachable state satisfies the inductive invariant.                *)
THEOREM Correct == Spec => []IInv
<1>1. IInv /\ [Next]_vars => IInv'
  BY TypeStep, FlightStep, LeaderStep, SavedStep DEF IInv
<1> QED
  BY InitIInv, <1>1, PTL DEF Spec

(* Type correctness (codexTransport, Credentials).                         *)
THEOREM TypeCorrect == Spec => []TypeOK
<1>1. IInv => TypeOK
  BY DEF IInv
<1> QED
  BY Correct, <1>1, PTL

(* The singleflight group and the double-check keep each transport to one  *)
(* refresh at a time, and to the refreshes it needs, however many callers. *)
THEOREM SingleFlight == Spec => []RefreshOnceWhenStale
<1>1. IInv => RefreshOnceWhenStale
  BY DEF IInv, FlightInv, RefreshOnceWhenStale
<1> QED
  BY Correct, <1>1, PTL

(* Whatever fails and whoever else writes auth.json, no transport holds an *)
(* access token that was not saved before.                                 *)
THEOREM SavedBeforeUse == Spec => []PersistBeforeUse
<1>1. IInv => PersistBeforeUse
  BY DEF IInv, SavedInv, PersistBeforeUse
<1> QED
  BY Correct, <1>1, PTL
-----------------------------------------------------------------------------
LEMMA RefreshFacts ==
  ASSUME TypeOK
  PROVE  /\ minted \in Nat
         /\ disk.refresh \in Nat
         /\ \A x \in Transport : mem[x].refresh \in Nat
         /\ \A g \in Goroutine : old[g].refresh \in Nat /\ got[g].refresh \in Nat
<1>1. ASSUME NEW c \in Creds PROVE c.refresh \in Nat
  <2>1. c.refresh \in Grant \cup {0}
    BY CredsFields
  <2> QED
    BY <2>1, TokenServerAssumption DEF Grant
<1>2. minted \in Nat
  BY GrantFacts DEF TypeOK, ServerTypeOK
<1>3. disk \in Creds /\ mem \in [Transport -> Creds]
  BY DEF TypeOK
<1>4. old \in [Goroutine -> Creds] /\ got \in [Goroutine -> Creds]
  BY DEF TypeOK
<1> QED
  BY <1>1, <1>2, <1>3, <1>4

(* The flight of a transport has its credentials to itself. *)
LEMMA SoleFlight ==
  ASSUME IInv, NEW g \in Goroutine, pc[g] \in InFlight
  PROVE  /\ leader[TransportOf[g]] = g /\ TransportOf[g] \in up
         /\ \A h \in Goroutine \ {g} :
              TransportOf[h] = TransportOf[g] => pc[h] \notin InFlight \cup HasOld
  BY CodexTransportAssumption DEF IInv, TypeOK, FlightInv, InFlight, PC, HasOld

(* What the endpoint issues is new, so no token becomes live again. *)
LEMMA IssueFacts ==
  ASSUME TypeOK, TokenInv, NEW r, Rotates(r) \/ Keeps(r)
  PROVE  /\ minted \in Nat /\ minted' = minted + 1
         /\ live' \subseteq 1..minted'
         /\ \A n \in Nat : n <= minted /\ n \notin live => n \notin live'
<1>1. minted \in Nat
  BY RefreshFacts
<1>2. minted' = minted + 1
  BY DEF Rotates, Keeps, Mint
<1>3. live' \subseteq live \cup {minted'}
  BY DEF Rotates, Keeps
<1> QED
  BY <1>1, <1>2, <1>3 DEF TokenInv

LEMMA GrantedRefresh ==
  ASSUME TypeOK, TokenInv, NEW g \in Goroutine, Granted(g)
  PROVE  \/ /\ Rotates(old[g].refresh)
            /\ got'[g].refresh = minted' /\ old[g].refresh \notin live'
         \/ Keeps(old[g].refresh) /\ got'[g].refresh = old[g].refresh
<1>1. old[g] \in Creds /\ got \in [Goroutine -> Creds]
  BY DEF TypeOK
<1>2. minted' \in Grant
  BY HandlesStep DEF Granted, TypeOK
<1>3. old[g].refresh # minted'
  <2>1. minted' = minted + 1
    BY IssueFacts DEF Granted
  <2> QED
    BY <2>1, RefreshFacts DEF TokenInv
<1>4. CASE /\ Rotates(old[g].refresh)
           /\ got' = [got EXCEPT ![g] =
                        [old[g] EXCEPT !.access = minted', !.refresh = minted']]
  BY <1>1, <1>2, <1>3, <1>4, WithTokens DEF Rotates
<1>5. CASE /\ Keeps(old[g].refresh)
           /\ got' = [got EXCEPT ![g] = [old[g] EXCEPT !.access = minted']]
  BY <1>1, <1>2, <1>5, WithTokens
<1> QED
  BY <1>4, <1>5 DEF Granted

LEMMA InitTokenInv == Init => TokenInv
  BY CodexTransportAssumption, GrantFacts
  DEF Init, ServerInit, TokenInv, HasOld, AfterRejection, NoCreds, Creds

(* A rejected token stays rejected: what the endpoint issues is new. *)
LEMMA TokenStep ==
  ASSUME IInv, TokenInv, [Next]_vars
  PROVE  TokenInv'
<1> USE CodexTransportAssumption, GrantFacts, NoCredsType
    DEF IInv, TypeOK, ServerTypeOK, PC, InFlight, serverVars, locals, history, Goto,
        FlightInv, LeaderInv, TokenInv, HasOld, AfterRejection, NoCreds
<1>1. ASSUME NEW g \in Goroutine, EnsureFresh(g) PROVE TokenInv'
  BY <1>1 DEF EnsureFresh
<1>2. ASSUME NEW g \in Goroutine, Do(g) PROVE TokenInv'
  BY <1>2 DEF Do
<1>3. ASSUME NEW g \in Goroutine, DoubleCheck(g) PROVE TokenInv'
  BY <1>3 DEF DoubleCheck
<1>4. ASSUME NEW g \in Goroutine, Granted(g) PROVE TokenInv'
  <2>1. /\ minted' = minted + 1 /\ live' \subseteq 1..minted'
        /\ \A n \in Nat : n <= minted /\ n \notin live => n \notin live'
    BY <1>4, IssueFacts DEF Granted
  <2>2. \/ got'[g].refresh = minted' /\ old[g].refresh \notin live'
        \/ got'[g].refresh = old[g].refresh
    BY <1>4, GrantedRefresh
  <2>3. /\ UNCHANGED <<disk, mem, up, leader, old, history>>
        /\ pc' = [pc EXCEPT ![g] = "save"]
        /\ \A h \in Goroutine \ {g} : got'[h] = got[h]
    BY <1>4 DEF Granted
  <2> QED
    BY <1>4, <2>1, <2>2, <2>3, RefreshFacts DEF Granted
<1>5. ASSUME NEW g \in Goroutine, Rejected(g) PROVE TokenInv'
  <2>1. old[g].refresh \in 1..minted
    BY <1>5, RefreshFacts DEF Rejected
  <2> QED
    BY <1>5, <2>1 DEF Rejected
<1>6. ASSUME NEW g \in Goroutine, TokenCallFails(g) PROVE TokenInv'
  BY <1>6 DEF TokenCallFails
<1>7. ASSUME NEW g \in Goroutine, Save(g) PROVE TokenInv'
  BY <1>7 DEF Save
<1>8. ASSUME NEW g \in Goroutine, SaveFails(g) PROVE TokenInv'
  BY <1>8 DEF SaveFails
<1>9. ASSUME NEW g \in Goroutine, Commit(g) PROVE TokenInv'
  <2>1. /\ mem' = [mem EXCEPT ![TransportOf[g]] = got[g]]
        /\ pc' = [pc EXCEPT ![g] = "succeed"]
        /\ UNCHANGED <<minted, live, disk, old, got, dead>>
    BY <1>9 DEF Commit
  <2>2. \A h \in Goroutine \ {g} : pc[h] \in HasOld => TransportOf[h] # TransportOf[g]
    BY <1>9, SoleFlight DEF Commit
  <2> QED
    BY <2>1, <2>2
<1>10. ASSUME NEW g \in Goroutine, LoadDisk(g) PROVE TokenInv'
  BY <1>10 DEF LoadDisk
<1>11. ASSUME NEW g \in Goroutine, LoadFails(g) PROVE TokenInv'
  BY <1>11 DEF LoadFails
<1>12. ASSUME NEW g \in Goroutine, Adopt(g) PROVE TokenInv'
  <2>1. /\ mem' = [mem EXCEPT ![TransportOf[g]] = got[g]]
        /\ pc' = [pc EXCEPT ![g] = "succeed"]
        /\ UNCHANGED <<minted, live, disk, old, got, dead>>
    BY <1>12 DEF Adopt
  <2>2. \A h \in Goroutine \ {g} : pc[h] \in HasOld => TransportOf[h] # TransportOf[g]
    BY <1>12, SoleFlight DEF Adopt
  <2> QED
    BY <2>1, <2>2
<1>13. ASSUME NEW g \in Goroutine, Wipe(g) PROVE TokenInv'
  BY <1>13 DEF Wipe
<1>14. ASSUME NEW g \in Goroutine, WipeFails(g) PROVE TokenInv'
  BY <1>14 DEF WipeFails
<1>15. ASSUME NEW g \in Goroutine, Zero(g) PROVE TokenInv'
  <2>1. \A h \in Goroutine : h # g /\ pc[h] \in HasOld => TransportOf[h] # TransportOf[g]
    <3>1. IInv /\ pc[g] \in InFlight
      BY <1>15 DEF Zero
    <3> HIDE DEF IInv, TypeOK, FlightInv, LeaderInv, TokenInv
    <3> QED
      BY <3>1, SoleFlight
  <2>2. mem'[TransportOf[g]].refresh = 0
    BY <1>15 DEF Zero
  <2> QED
    BY <1>15, <2>1, <2>2, RefreshFacts DEF Zero
<1>16. ASSUME NEW g \in Goroutine, Finish(g) PROVE TokenInv'
  BY <1>16 DEF Finish
<1>17. ASSUME NEW g \in Goroutine, Send(g) PROVE TokenInv'
  BY <1>17 DEF Send
<1>18. ASSUME NEW x \in Transport, Seed(x) PROVE TokenInv'
  BY <1>18 DEF Seed
<1>19. ASSUME NEW x \in Transport, Crash(x) PROVE TokenInv'
  BY <1>19 DEF Crash
<1>20. ASSUME HandleOrphan,
             UNCHANGED <<disk, mem, up, leader, pc, locals, history>> PROVE TokenInv'
  <2>1. /\ minted' = minted + 1 /\ live' \subseteq 1..minted'
        /\ \A n \in Nat : n <= minted /\ n \notin live => n \notin live'
    BY <1>20, IssueFacts DEF HandleOrphan
  <2> QED
    BY <1>20, <2>1, RefreshFacts
<1>21. ASSUME NEW n \in Grant, Age(n),
             UNCHANGED <<disk, mem, up, leader, pc, locals, history>> PROVE TokenInv'
  BY <1>21 DEF Age
<1>22. ASSUME Revoke,
             UNCHANGED <<disk, mem, up, leader, pc, locals, history>> PROVE TokenInv'
  BY <1>22 DEF Revoke
<1>23. CASE UNCHANGED vars
  BY <1>23 DEF vars
<1> QED
  BY <1>1, <1>2, <1>3, <1>4, <1>5, <1>6, <1>7, <1>8, <1>9, <1>10, <1>11,
     <1>12, <1>13, <1>14, <1>15, <1>16, <1>17, <1>18, <1>19, <1>20, <1>21,
     <1>22, <1>23
  DEF Next, Client, Environment, Server, Step

LEMMA InitFullInv == Init => FullInv
  BY InitIInv, InitTokenInv DEF FullInv

LEMMA FullInvStep == FullInv /\ [Next]_vars => FullInv'
  BY TypeStep, FlightStep, LeaderStep, SavedStep, TokenStep DEF FullInv, IInv

THEOREM FullyCorrect == Spec => []FullInv
  BY InitFullInv, FullInvStep, PTL DEF Spec
-----------------------------------------------------------------------------
(* Whoever gives a token up has seen it rejected or replaced. *)
LEMMA CustodyStep ==
  ASSUME NothingLost, FullInv, CustodyInv, [Next]_vars
  PROVE  CustodyInv'
<1> USE CodexTransportAssumption, GrantFacts, NoCredsType
    DEF FullInv, IInv, TypeOK, ServerTypeOK, PC, InFlight, serverVars, locals, history,
        Goto, FlightInv, LeaderInv, TokenInv, HasOld, AfterRejection, NoCreds,
        NothingLost, CustodyInv, Held
<1>1. ASSUME NEW g \in Goroutine, EnsureFresh(g) PROVE CustodyInv'
  BY <1>1 DEF EnsureFresh
<1>2. ASSUME NEW g \in Goroutine, Do(g) PROVE CustodyInv'
  <2>1. \A h \in Goroutine : pc[h] \in {"save", "commit"} => pc'[h] = pc[h]
    BY <1>2 DEF Do
  <2> QED
    BY <1>2, <2>1 DEF Do
<1>3. ASSUME NEW g \in Goroutine, DoubleCheck(g) PROVE CustodyInv'
  BY <1>3 DEF DoubleCheck
<1>4. ASSUME NEW g \in Goroutine, Granted(g) PROVE CustodyInv'
  <2>1. orphan' = {}
    BY <1>4, RefreshFacts, TokenServerAssumption
    DEF Granted, Rotates, Keeps, Mint
  <2>2. up # {} /\ UNCHANGED <<mem, up>> /\ pc[g] = "post" /\ pc'[g] = "save"
    BY <1>4 DEF Granted
  <2>3. \A h \in Goroutine \ {g} : pc'[h] = pc[h] /\ got'[h] = got[h]
    BY <1>4 DEF Granted
  <2>4. \A r : Held(r) => Held(r)'
    BY <2>2, <2>3
  <2>5. \A r : r = got'[g].refresh => Held(r)'
    BY <2>2
  <2>6. \A r \in live : Held(r)
    BY <2>2
  <2> HIDE DEF Held
  <2>7. CASE Keeps(old[g].refresh)
    BY <2>1, <2>4, <2>6, <2>7 DEF Keeps
  <2>8. CASE Rotates(old[g].refresh) /\ got'[g].refresh = minted'
    <3>1. live' \subseteq live \cup {minted'}
      BY <2>8 DEF Rotates
    <3> QED
      BY <2>1, <2>4, <2>5, <2>6, <2>8, <3>1
  <2> QED
    BY <1>4, <2>7, <2>8, GrantedRefresh
<1>5. ASSUME NEW g \in Goroutine, Rejected(g) PROVE CustodyInv'
  BY <1>5 DEF Rejected
<1>6. ASSUME NEW g \in Goroutine, TokenCallFails(g) PROVE CustodyInv'
  BY <1>6 DEF TokenCallFails
<1>7. ASSUME NEW g \in Goroutine, Save(g) PROVE CustodyInv'
  <2>1. pc' = [pc EXCEPT ![g] = "commit"] /\ up # {} /\ pc[g] = "save"
    BY <1>7 DEF Save
  <2>2. UNCHANGED <<minted, live, orphan, mem, up, got>>
    BY <1>7 DEF Save
  <2>3. \A r : Held(r) => Held(r)'
    BY <2>1, <2>2
  <2> HIDE DEF Held
  <2> QED
    BY <2>1, <2>2, <2>3
<1>8. ASSUME NEW g \in Goroutine, SaveFails(g) PROVE CustodyInv'
  BY <1>8 DEF SaveFails
<1>9. ASSUME NEW g \in Goroutine, Commit(g) PROVE CustodyInv'
  <2>1. pc[g] = "commit" /\ TransportOf[g] \in up
    BY <1>9 DEF Commit
  <2>2. mem[TransportOf[g]] = old[g]
    BY <2>1
  <2>3. /\ UNCHANGED <<minted, live, orphan, up, got>>
        /\ mem' = [mem EXCEPT ![TransportOf[g]] = got[g]]
        /\ pc' = [pc EXCEPT ![g] = "succeed"]
    BY <1>9 DEF Commit
  <2>4. \A r \in live : Held(r) => Held(r)'
    BY <2>1, <2>2, <2>3
  <2> HIDE DEF Held
  <2> QED
    BY <2>1, <2>3, <2>4
<1>10. ASSUME NEW g \in Goroutine, LoadDisk(g) PROVE CustodyInv'
  BY <1>10 DEF LoadDisk
<1>11. ASSUME NEW g \in Goroutine, LoadFails(g) PROVE CustodyInv'
  BY <1>11 DEF LoadFails
<1>12. ASSUME NEW g \in Goroutine, Adopt(g) PROVE CustodyInv'
  <2>1. pc[g] = "adopt" /\ TransportOf[g] \in up /\ mem[TransportOf[g]].refresh \notin live
    BY <1>12 DEF Adopt
  <2>2. /\ UNCHANGED <<minted, live, orphan, up, got>>
        /\ mem' = [mem EXCEPT ![TransportOf[g]] = got[g]]
        /\ pc' = [pc EXCEPT ![g] = "succeed"]
    BY <1>12 DEF Adopt
  <2>3. \A r \in live : Held(r) => Held(r)'
    BY <2>1, <2>2
  <2> HIDE DEF Held
  <2> QED
    BY <2>1, <2>2, <2>3
<1>13. ASSUME NEW g \in Goroutine, Wipe(g) PROVE CustodyInv'
  BY <1>13 DEF Wipe
<1>14. ASSUME NEW g \in Goroutine, WipeFails(g) PROVE CustodyInv'
  BY <1>14 DEF WipeFails
<1>15. ASSUME NEW g \in Goroutine, Zero(g) PROVE CustodyInv'
  BY <1>15 DEF Zero
<1>16. ASSUME NEW g \in Goroutine, Finish(g) PROVE CustodyInv'
  BY <1>16 DEF Finish
<1>17. ASSUME NEW g \in Goroutine, Send(g) PROVE CustodyInv'
  BY <1>17 DEF Send
<1>18. ASSUME NEW x \in Transport, Seed(x) PROVE CustodyInv'
  <2>1. mem'[x] = disk /\ x \in up' /\ \A y \in up : y \in up' /\ mem'[y] = mem[y]
    BY <1>18 DEF Seed
  <2>2. UNCHANGED <<minted, live, orphan, pc, got>>
    BY <1>18 DEF Seed
  <2>3. \A r : Held(r) \/ disk.refresh = r => Held(r)'
    BY <2>1, <2>2
  <2> HIDE DEF Held
  <2> QED
    BY <2>2, <2>3
<1>19. ASSUME NEW x \in Transport, Crash(x) PROVE CustodyInv'
  BY <1>19 DEF Crash
<1>20. ASSUME HandleOrphan,
             UNCHANGED <<disk, mem, up, leader, pc, locals, history>> PROVE CustodyInv'
  BY <1>20, RefreshFacts, TokenServerAssumption
  DEF HandleOrphan, Rotates, Keeps, Mint
<1>21. ASSUME NEW n \in Grant, Age(n),
             UNCHANGED <<disk, mem, up, leader, pc, locals, history>> PROVE CustodyInv'
  BY <1>21 DEF Age
<1>22. ASSUME Revoke,
             UNCHANGED <<disk, mem, up, leader, pc, locals, history>> PROVE CustodyInv'
  BY <1>22 DEF Revoke
<1>23. CASE UNCHANGED vars
  BY <1>23 DEF vars
<1> QED
  BY <1>1, <1>2, <1>3, <1>4, <1>5, <1>6, <1>7, <1>8, <1>9, <1>10, <1>11,
     <1>12, <1>13, <1>14, <1>15, <1>16, <1>17, <1>18, <1>19, <1>20, <1>21,
     <1>22, <1>23
  DEF Next, Client, Environment, Server, Step
-----------------------------------------------------------------------------
(* What replaces a rejected token is new, or is not the rejected one. *)
LEMMA DeadStep ==
  ASSUME Alone, FullInv, DeadInv, [Next]_vars
  PROVE  DeadInv'
<1> USE CodexTransportAssumption, GrantFacts, NoCredsType
    DEF FullInv, IInv, TypeOK, ServerTypeOK, PC, InFlight, serverVars, locals, history,
        Goto, FlightInv, LeaderInv, TokenInv, HasOld, AfterRejection, NoCreds,
        Alone, DeadInv
<1>1. ASSUME NEW g \in Goroutine, EnsureFresh(g) PROVE DeadInv'
  BY <1>1 DEF EnsureFresh
<1>2. ASSUME NEW g \in Goroutine, Do(g) PROVE DeadInv'
  BY <1>2 DEF Do
<1>3. ASSUME NEW g \in Goroutine, DoubleCheck(g) PROVE DeadInv'
  BY <1>3 DEF DoubleCheck
<1>4. ASSUME NEW g \in Goroutine, Granted(g) PROVE DeadInv'
  <2>1. /\ UNCHANGED <<disk, mem, up, old, dead>> /\ pc' = [pc EXCEPT ![g] = "save"]
        /\ \A h \in Goroutine \ {g} : got'[h] = got[h]
    BY <1>4 DEF Granted
  <2>2. old[g].refresh \notin dead[TransportOf[g]]
    <3>1. IInv /\ pc[g] \in InFlight /\ old[g] = mem[TransportOf[g]]
      BY <1>4 DEF Granted
    <3>2. mem[TransportOf[g]].refresh \in dead[TransportOf[g]] =>
            \E h \in Goroutine : TransportOf[h] = TransportOf[g] /\ pc[h] \in HasOld \ {"post"}
      OBVIOUS
    <3>3. pc[g] = "post"
      BY <1>4 DEF Granted
    <3> HIDE DEF FullInv, IInv, TypeOK, FlightInv, LeaderInv, TokenInv, DeadInv, HasOld, InFlight
    <3> QED
      BY <3>1, <3>2, <3>3, SoleFlight
  <2>3. minted' \notin dead[TransportOf[g]]
    BY <1>4, IssueFacts DEF Granted
  <2>4. got'[g].refresh \notin dead[TransportOf[g]]
    BY <1>4, <2>2, <2>3, GrantedRefresh
  <2> QED
    BY <1>4, <2>1, <2>4 DEF Granted
<1>5. ASSUME NEW g \in Goroutine, Rejected(g) PROVE DeadInv'
  BY <1>5 DEF Rejected
<1>6. ASSUME NEW g \in Goroutine, TokenCallFails(g) PROVE DeadInv'
  BY <1>6 DEF TokenCallFails
<1>7. ASSUME NEW g \in Goroutine, Save(g) PROVE DeadInv'
  <2>1. /\ disk' = got[g] /\ pc[g] = "save"
        /\ \E l \in {"commit", "fail"} : pc' = [pc EXCEPT ![g] = l]
        /\ UNCHANGED <<mem, up, leader, old, got, dead>>
    BY <1>7 DEF Save
  <2>2. \A h \in Goroutine \ {g} : pc[h] \notin InFlight
    BY <2>1
  <2>3. \A x \in Transport : got[g].refresh \notin dead[x]
    BY <2>1
  <2>4. \A x \in Transport : mem[x].refresh \notin dead[x]
    BY <2>1, <2>2
  <2> QED
    BY <2>1, <2>2, <2>3, <2>4
<1>8. ASSUME NEW g \in Goroutine, SaveFails(g) PROVE DeadInv'
  BY <1>8 DEF SaveFails
<1>9. ASSUME NEW g \in Goroutine, Commit(g) PROVE DeadInv'
  <2>1. /\ mem' = [mem EXCEPT ![TransportOf[g]] = got[g]]
        /\ pc' = [pc EXCEPT ![g] = "succeed"] /\ pc[g] \in InFlight
        /\ UNCHANGED <<disk, up, leader, old, got, dead>>
    BY <1>9 DEF Commit
  <2>2. \A h \in Goroutine \ {g} : pc[h] \notin InFlight
    BY <2>1
  <2> QED
    BY <1>9, <2>1, <2>2 DEF Commit
<1>10. ASSUME NEW g \in Goroutine, LoadDisk(g) PROVE DeadInv'
  BY <1>10 DEF LoadDisk
<1>11. ASSUME NEW g \in Goroutine, LoadFails(g) PROVE DeadInv'
  BY <1>11 DEF LoadFails
<1>12. ASSUME NEW g \in Goroutine, Adopt(g) PROVE DeadInv'
  <2>1. /\ mem' = [mem EXCEPT ![TransportOf[g]] = got[g]]
        /\ pc' = [pc EXCEPT ![g] = "succeed"] /\ pc[g] \in InFlight
        /\ UNCHANGED <<disk, up, leader, old, got, dead>>
    BY <1>12 DEF Adopt
  <2>2. \A h \in Goroutine \ {g} : pc[h] \notin InFlight
    BY <2>1
  <2> QED
    BY <1>12, <2>1, <2>2 DEF Adopt
<1>13. ASSUME NEW g \in Goroutine, Wipe(g) PROVE DeadInv'
  <2>1. /\ disk' = NoCreds
        /\ pc' = [pc EXCEPT ![g] = "zero"] /\ pc[g] \in InFlight
        /\ UNCHANGED <<mem, up, leader, old, got, dead>>
    BY <1>13 DEF Wipe
  <2>2. \A h \in Goroutine \ {g} : pc[h] \notin InFlight
    BY <2>1
  <2> QED
    BY <1>13, <2>1, <2>2 DEF Wipe
<1>14. ASSUME NEW g \in Goroutine, WipeFails(g) PROVE DeadInv'
  BY <1>14 DEF WipeFails
<1>15. ASSUME NEW g \in Goroutine, Zero(g) PROVE DeadInv'
  BY <1>15 DEF Zero
<1>16. ASSUME NEW g \in Goroutine, Finish(g) PROVE DeadInv'
  BY <1>16 DEF Finish
<1>17. ASSUME NEW g \in Goroutine, Send(g) PROVE DeadInv'
  BY <1>17 DEF Send
<1>18. ASSUME NEW x \in Transport, Seed(x) PROVE DeadInv'
  BY <1>18 DEF Seed
<1>19. ASSUME NEW x \in Transport, Crash(x) PROVE DeadInv'
  BY <1>19 DEF Crash
<1>20. ASSUME HandleOrphan,
             UNCHANGED <<disk, mem, up, leader, pc, locals, history>> PROVE DeadInv'
  BY <1>20 DEF HandleOrphan
<1>21. ASSUME NEW n \in Grant, Age(n),
             UNCHANGED <<disk, mem, up, leader, pc, locals, history>> PROVE DeadInv'
  BY <1>21 DEF Age
<1>22. ASSUME Revoke,
             UNCHANGED <<disk, mem, up, leader, pc, locals, history>> PROVE DeadInv'
  BY <1>22 DEF Revoke
<1>23. CASE UNCHANGED vars
  BY <1>23 DEF vars
<1> QED
  BY <1>1, <1>2, <1>3, <1>4, <1>5, <1>6, <1>7, <1>8, <1>9, <1>10, <1>11,
     <1>12, <1>13, <1>14, <1>15, <1>16, <1>17, <1>18, <1>19, <1>20, <1>21,
     <1>22, <1>23
  DEF Next, Client, Environment, Server, Step

(* One transport, one flight. *)
LEMMA OneFlight ==
  ASSUME Alone, IInv, NEW g \in Goroutine, pc[g] \in InFlight
  PROVE  /\ \A x \in Transport : leader[x] = g /\ x = TransportOf[g]
         /\ \A h \in Goroutine \ {g} : pc[h] \notin InFlight
  BY SoleFlight, CodexTransportAssumption DEF Alone

(* A flight that fails leaves memory and disk as they were, or empty. *)
LEMMA MatchStep ==
  ASSUME Alone, "dirty" \notin Faults, FullInv, MatchInv, [Next]_vars
  PROVE  MatchInv'
<1> USE CodexTransportAssumption, GrantFacts, NoCredsType
    DEF FullInv, IInv, TypeOK, ServerTypeOK, PC, InFlight, serverVars, locals, history,
        Goto, FlightInv, LeaderInv, TokenInv, HasOld, AfterRejection, NoCreds,
        Alone, MatchInv, isValid
<1>1. ASSUME NEW g \in Goroutine, EnsureFresh(g) PROVE MatchInv'
  BY <1>1 DEF EnsureFresh
<1>2. ASSUME NEW g \in Goroutine, Do(g) PROVE MatchInv'
  BY <1>2 DEF Do
<1>3. ASSUME NEW g \in Goroutine, DoubleCheck(g) PROVE MatchInv'
  BY <1>3 DEF DoubleCheck
<1>4. ASSUME NEW g \in Goroutine, Granted(g) PROVE MatchInv'
  BY <1>4 DEF Granted
<1>5. ASSUME NEW g \in Goroutine, Rejected(g) PROVE MatchInv'
  BY <1>5 DEF Rejected
<1>6. ASSUME NEW g \in Goroutine, TokenCallFails(g) PROVE MatchInv'
  BY <1>6 DEF TokenCallFails
<1>7. ASSUME NEW g \in Goroutine, Save(g) PROVE MatchInv'
  <2>1. /\ \A x \in Transport : leader[x] = g
        /\ \A h \in Goroutine \ {g} : pc[h] \notin InFlight
    BY <1>7, OneFlight DEF Save
  <2>2. /\ pc' = [pc EXCEPT ![g] = "commit"] /\ disk' = got[g]
        /\ UNCHANGED <<up, leader, mem, got>>
    BY <1>7 DEF Save
  <2> QED
    BY <2>1, <2>2
<1>8. ASSUME NEW g \in Goroutine, SaveFails(g) PROVE MatchInv'
  BY <1>8 DEF SaveFails
<1>9. ASSUME NEW g \in Goroutine, Commit(g) PROVE MatchInv'
  BY <1>9 DEF Commit
<1>10. ASSUME NEW g \in Goroutine, LoadDisk(g) PROVE MatchInv'
  BY <1>10 DEF LoadDisk
<1>11. ASSUME NEW g \in Goroutine, LoadFails(g) PROVE MatchInv'
  BY <1>11 DEF LoadFails
<1>12. ASSUME NEW g \in Goroutine, Adopt(g) PROVE MatchInv'
  BY <1>12 DEF Adopt
<1>13. ASSUME NEW g \in Goroutine, Wipe(g) PROVE MatchInv'
  <2>1. /\ \A x \in Transport : leader[x] = g
        /\ \A h \in Goroutine \ {g} : pc[h] \notin InFlight
    BY <1>13, OneFlight DEF Wipe
  <2>2. pc' = [pc EXCEPT ![g] = "zero"] /\ UNCHANGED <<up, leader, mem, got>>
    BY <1>13 DEF Wipe
  <2> QED
    BY <2>1, <2>2
<1>14. ASSUME NEW g \in Goroutine, WipeFails(g) PROVE MatchInv'
  BY <1>14 DEF WipeFails
<1>15. ASSUME NEW g \in Goroutine, Zero(g) PROVE MatchInv'
  <2>1. /\ \A x \in Transport : leader[x] = g /\ x = TransportOf[g]
        /\ \A h \in Goroutine \ {g} : pc[h] \notin InFlight
    BY <1>15, OneFlight DEF Zero
  <2>2. /\ pc' = [pc EXCEPT ![g] = "fail"] /\ mem' = [mem EXCEPT ![TransportOf[g]] = NoCreds]
        /\ UNCHANGED <<disk, up, leader, got>>
    BY <1>15 DEF Zero
  <2> QED
    BY <2>1, <2>2
<1>16. ASSUME NEW g \in Goroutine, Finish(g) PROVE MatchInv'
  <2>1. /\ \A x \in Transport : leader[x] = g /\ x = TransportOf[g]
        /\ \A h \in Goroutine \ {g} : pc[h] \notin InFlight
    BY <1>16, OneFlight DEF Finish
  <2>2. \A x \in up : mem[x] \in {disk, NoCreds}
    BY <1>16, <2>1 DEF Finish
  <2>3. /\ UNCHANGED <<disk, mem, up>>
        /\ \A h \in Goroutine : pc'[h] \in {pc[h], "send", "idle"} /\ pc'[g] \in {"send", "idle"}
    BY <1>16 DEF Finish
  <2> QED
    BY <2>1, <2>2, <2>3
<1>17. ASSUME NEW g \in Goroutine, Send(g) PROVE MatchInv'
  BY <1>17 DEF Send
<1>18. ASSUME NEW x \in Transport, Seed(x) PROVE MatchInv'
  BY <1>18 DEF Seed
<1>19. ASSUME NEW x \in Transport, Crash(x) PROVE MatchInv'
  BY <1>19 DEF Crash
<1>20. ASSUME HandleOrphan,
             UNCHANGED <<disk, mem, up, leader, pc, locals, history>> PROVE MatchInv'
  BY <1>20 DEF HandleOrphan
<1>21. ASSUME NEW n \in Grant, Age(n),
             UNCHANGED <<disk, mem, up, leader, pc, locals, history>> PROVE MatchInv'
  BY <1>21 DEF Age
<1>22. ASSUME Revoke,
             UNCHANGED <<disk, mem, up, leader, pc, locals, history>> PROVE MatchInv'
  BY <1>22 DEF Revoke
<1>23. CASE UNCHANGED vars
  BY <1>23 DEF vars
<1> QED
  BY <1>1, <1>2, <1>3, <1>4, <1>5, <1>6, <1>7, <1>8, <1>9, <1>10, <1>11,
     <1>12, <1>13, <1>14, <1>15, <1>16, <1>17, <1>18, <1>19, <1>20, <1>21,
     <1>22, <1>23
  DEF Next, Client, Environment, Server, Step

-----------------------------------------------------------------------------
LEMMA InitCustodyInv == Init => CustodyInv
  BY DEF Init, ServerInit, CustodyInv

LEMMA InitAloneInv == Init => DeadInv /\ MatchInv
  BY DEF Init, DeadInv, MatchInv, NoCreds

(* As long as no answer of the endpoint is lost, no save fails and no      *)
(* process dies, no refresh token that is still good is dropped, however   *)
(* many transports share auth.json, and although one may wipe what another *)
(* has just saved.                                                         *)
THEOREM TokensInCustody ==
  ASSUME NothingLost
  PROVE  Spec => []Custody
<1>1. FullInv /\ CustodyInv /\ [Next]_vars => CustodyInv'
  BY NothingLost, CustodyStep
<1>2. CustodyInv => Custody
  BY DEF CustodyInv, Custody, Held
<1> QED
  BY FullyCorrect, InitCustodyInv, <1>1, <1>2, PTL DEF Spec

LEMMA DeadStays ==
  ASSUME Alone
  PROVE  Spec => []DeadInv
<1>1. FullInv /\ DeadInv /\ [Next]_vars => DeadInv'
  BY Alone, DeadStep
<1>2. Init => DeadInv
  BY InitAloneInv
<1> QED
  BY FullyCorrect, <1>1, <1>2, PTL DEF Spec

(* A transport that has auth.json to itself never spends a refresh token   *)
(* that was rejected to it, whatever fails (transport.go:177).             *)
THEOREM RejectedOnce ==
  ASSUME Alone
  PROVE  Spec => []NoDeadLoop
<1>1. FullInv /\ DeadInv => NoDeadLoop
  BY CodexTransportAssumption
  DEF FullInv, IInv, TypeOK, FlightInv, TokenInv, DeadInv, NoDeadLoop, HasOld,
      AfterRejection, InFlight, PC
<1> QED
  BY FullyCorrect, DeadStays, <1>1, PTL

(* While no refresh is under way it holds what auth.json holds, or nothing *)
(* (transport.go:229); a save that fails half done is the exception.       *)
THEOREM MemoryMatches ==
  ASSUME Alone, "dirty" \notin Faults
  PROVE  Spec => []MemMatchesDisk
<1>1. FullInv /\ MatchInv /\ [Next]_vars => MatchInv'
  BY MatchStep
<1>2. Init => MatchInv
  BY InitAloneInv
<1>3. MatchInv => MemMatchesDisk
  BY DEF MatchInv, MemMatchesDisk
<1> QED
  BY FullyCorrect, <1>1, <1>2, <1>3, PTL DEF Spec

(* And what it wipes is a dead entry (transport.go:142).                   *)
THEOREM WipesTheDead ==
  ASSUME Alone
  PROVE  Spec => WipesOnlyTheDead
<1> DEFINE WipesDead == \A g \in Goroutine : Wipe(g) => disk.refresh \notin live
<1>1. FullInv /\ DeadInv => WipesDead
  BY RefreshFacts DEF FullInv, IInv, TokenInv, DeadInv, AfterRejection, Wipe
<1> QED
  BY FullyCorrect, DeadStays, <1>1, PTL DEF WipesOnlyTheDead
=============================================================================
