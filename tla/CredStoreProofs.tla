---------------------------- MODULE CredStoreProofs ----------------------------
(* Theorems about CredStore, for every set of processes, threads, requests *)
(* and entries.                                                            *)
EXTENDS CredStore, TLAPS

Writing == {"write", "sync", "rename", "syncdir", "chmoddir"}

(* Who holds which lock, by program counter. *)
LockInv ==
  /\ \A t \in Thread : pc[t] \notin {"idle", "mu"} => mu[ProcessOf[t]] = t
  /\ \A t \in shLock : Reads(t) /\ pc[t] \in {"read", "unlock"}
  /\ exLock # Nobody =>
       /\ shLock = {}
       /\ ~Reads(exLock) /\ pc[exLock] \in Writing \cup {"read", "unlock"}
  /\ \A t \in Thread : ~Reads(t) /\ pc[t] \in Writing \cup {"read"} => exLock = t
  /\ \A t \in Thread : Reads(t) => pc[t] \notin Writing \cup {"mkdir"}
  /\ \A t \in Thread : Reads(t) /\ pc[t] = "read" => t \in shLock
  /\ \A t \in Thread : pc[t] = "stat" => Reads(t)

(* What a thread's locals hold, by program counter. *)
LocalInv ==
  \A t \in Thread :
    /\ pc[t] = "idle" => op[t] = LoadRequest
    /\ pc[t] \in {"unlock", "return"} <=> res[t] # "none"
    /\ committed[t] => ~Reads(t) /\ pc[t] \in {"syncdir", "chmoddir", "unlock", "return"}
    /\ pc[t] \in {"syncdir", "chmoddir"} => committed[t]
    /\ Reads(t) /\ pc[t] \notin {"unlock", "return"} => buf[t] = Empty
    /\ pc[t] \in {"idle", "mu", "stat", "mkdir", "flock"} => buf[t] = Empty

(* What a thread renames has been synced, into a directory that exists.   *)
SyncInv ==
  /\ synced = TRUE
  /\ \A t \in Thread : pc[t] \in Writing \cup {"flock", "read"} => dir
  /\ ~dir => stable = NoFile
  /\ \A t \in Thread : pc[t] = "rename" => tmp[t] = "synced"

(* With a directory sync that always works. *)
DurableInv ==
  \A t \in Thread :
    pc[t] = "chmoddir" \/ (pc[t] = "unlock" /\ committed[t]) =>
      exLock = t /\ (~DirSyncFails => stable = file)

IInv == TypeOK /\ LockInv /\ LocalInv /\ MergeIsCurrent /\ SyncInv /\ DurableInv
-----------------------------------------------------------------------------
LEMMA EmptyContents == Empty \in Contents
  BY DEF Empty, Contents

LEMMA LoadRequestType == LoadRequest \in Request
  BY EmptyContents DEF LoadRequest, Request

LEMMA ParsedContents ==
  ASSUME NEW f \in Contents \cup {NoFile, Corrupt}
  PROVE  Parsed(f) \in Contents
  BY EmptyContents DEF Parsed

LEMMA EditedContents ==
  ASSUME NEW r \in Request, NEW c \in Contents
  PROVE  Edited(r, c) \in Contents
  BY DEF Edited, Request, Contents

LEMMA InitIInv == Init => IInv
  BY CredStoreAssumption, EmptyContents, LoadRequestType
  DEF Init, IInv, TypeOK, LockInv, LocalInv, MergeIsCurrent, SyncInv, DurableInv, PC,
      Reads, LoadRequest, Writing, lockVars

LEMMA TypeStep ==
  ASSUME IInv, [Next]_vars
  PROVE  TypeOK'
<1> USE CredStoreAssumption, EmptyContents, LoadRequestType, ParsedContents, EditedContents
    DEF IInv, TypeOK, PC, lockVars, diskVars, threadVars, Goto, Finish, Reset
<1>1. ASSUME NEW t \in Thread, NEW r \in Requests, Call(t, r) PROVE TypeOK'
  BY <1>1 DEF Call
<1>2. ASSUME NEW t \in Thread, LockMu(t) PROVE TypeOK'
  BY <1>2 DEF LockMu
<1>3. ASSUME NEW t \in Thread, Stat(t) PROVE TypeOK'
  BY <1>3 DEF Stat
<1>4. ASSUME NEW t \in Thread, Mkdir(t) PROVE TypeOK'
  BY <1>4 DEF Mkdir
<1>5. ASSUME NEW t \in Thread, AcquireShared(t) PROVE TypeOK'
  BY <1>5 DEF AcquireShared
<1>6. ASSUME NEW t \in Thread, AcquireExclusive(t) PROVE TypeOK'
  BY <1>6 DEF AcquireExclusive
<1>7. ASSUME NEW t \in Thread, ReadLoad(t) PROVE TypeOK'
  BY <1>7 DEF ReadLoad
<1>8. ASSUME NEW t \in Thread, ReadEdit(t) PROVE TypeOK'
  BY <1>8 DEF ReadEdit
<1>9. ASSUME NEW t \in Thread, Write(t) PROVE TypeOK'
  BY <1>9 DEF Write
<1>10. ASSUME NEW t \in Thread, Sync(t) PROVE TypeOK'
  BY <1>10 DEF Sync
<1>11. ASSUME NEW t \in Thread, Rename(t) PROVE TypeOK'
  BY <1>11 DEF Rename, SyncInv, Writing
<1>12. ASSUME NEW t \in Thread, SyncDir(t) PROVE TypeOK'
  BY <1>12 DEF SyncDir, Durable
<1>13. ASSUME NEW t \in Thread, ChmodDir(t) PROVE TypeOK'
  BY <1>13 DEF ChmodDir
<1>14. ASSUME NEW t \in Thread, Fail(t) PROVE TypeOK'
  BY <1>14 DEF Fail
<1>15. ASSUME NEW t \in Thread, Unlock(t) PROVE TypeOK'
  BY <1>15 DEF Unlock
<1>16. ASSUME NEW t \in Thread, Return(t) PROVE TypeOK'
  BY <1>16 DEF Return
<1>17. ASSUME NEW p \in Process, Crash(p) PROVE TypeOK'
  BY <1>17 DEF Crash
<1>18. CASE PowerLoss
  BY <1>18 DEF PowerLoss, Durable, SyncInv
<1>19. CASE UNCHANGED vars
  BY <1>19 DEF vars
<1> QED
  BY <1>1, <1>2, <1>3, <1>4, <1>5, <1>6, <1>7, <1>8, <1>9, <1>10, <1>11, <1>12, <1>13, <1>14, <1>15, <1>16, <1>17, <1>18, <1>19 DEF Next, Step

LEMMA LockStep ==
  ASSUME IInv, [Next]_vars
  PROVE  LockInv'
<1> USE CredStoreAssumption, LoadRequestType
    DEF IInv, TypeOK, PC, Writing, Reads, lockVars, diskVars, threadVars, Goto, Finish, Reset, LockInv, LoadRequest
<1>1. ASSUME NEW t \in Thread, NEW r \in Requests, Call(t, r) PROVE LockInv'
  BY <1>1 DEF Call
<1>2. ASSUME NEW t \in Thread, LockMu(t) PROVE LockInv'
  BY <1>2 DEF LockMu
<1>3. ASSUME NEW t \in Thread, Stat(t) PROVE LockInv'
  BY <1>3 DEF Stat
<1>4. ASSUME NEW t \in Thread, Mkdir(t) PROVE LockInv'
  BY <1>4 DEF Mkdir
<1>5. ASSUME NEW t \in Thread, AcquireShared(t) PROVE LockInv'
  BY <1>5 DEF AcquireShared
<1>6. ASSUME NEW t \in Thread, AcquireExclusive(t) PROVE LockInv'
  BY <1>6 DEF AcquireExclusive
<1>7. ASSUME NEW t \in Thread, ReadLoad(t) PROVE LockInv'
  BY <1>7 DEF ReadLoad
<1>8. ASSUME NEW t \in Thread, ReadEdit(t) PROVE LockInv'
  BY <1>8 DEF ReadEdit
<1>9. ASSUME NEW t \in Thread, Write(t) PROVE LockInv'
  BY <1>9 DEF Write
<1>10. ASSUME NEW t \in Thread, Sync(t) PROVE LockInv'
  BY <1>10 DEF Sync
<1>11. ASSUME NEW t \in Thread, Rename(t) PROVE LockInv'
  BY <1>11 DEF Rename
<1>12. ASSUME NEW t \in Thread, SyncDir(t) PROVE LockInv'
  BY <1>12 DEF SyncDir
<1>13. ASSUME NEW t \in Thread, ChmodDir(t) PROVE LockInv'
  BY <1>13 DEF ChmodDir
<1>14. ASSUME NEW t \in Thread, Fail(t) PROVE LockInv'
  BY <1>14 DEF Fail
<1>15. ASSUME NEW t \in Thread, Unlock(t) PROVE LockInv'
  BY <1>15 DEF Unlock
<1>16. ASSUME NEW t \in Thread, Return(t) PROVE LockInv'
  BY <1>16 DEF Return
<1>17. ASSUME NEW p \in Process, Crash(p) PROVE LockInv'
  BY <1>17 DEF Crash
<1>18. CASE PowerLoss
  BY <1>18 DEF PowerLoss, Durable, SyncInv
<1>19. CASE UNCHANGED vars
  BY <1>19 DEF vars
<1> QED
  BY <1>1, <1>2, <1>3, <1>4, <1>5, <1>6, <1>7, <1>8, <1>9, <1>10, <1>11, <1>12, <1>13, <1>14, <1>15, <1>16, <1>17, <1>18, <1>19 DEF Next, Step

LEMMA LocalStep ==
  ASSUME IInv, [Next]_vars
  PROVE  LocalInv'
<1> USE CredStoreAssumption, LoadRequestType, EmptyContents, ParsedContents, EditedContents
    DEF IInv, TypeOK, PC, Writing, Reads, lockVars, diskVars, threadVars, Goto, Finish, Reset, LocalInv, LockInv, LoadRequest
<1>1. ASSUME NEW t \in Thread, NEW r \in Requests, Call(t, r) PROVE LocalInv'
  BY <1>1 DEF Call
<1>2. ASSUME NEW t \in Thread, LockMu(t) PROVE LocalInv'
  BY <1>2 DEF LockMu
<1>3. ASSUME NEW t \in Thread, Stat(t) PROVE LocalInv'
  BY <1>3 DEF Stat
<1>4. ASSUME NEW t \in Thread, Mkdir(t) PROVE LocalInv'
  BY <1>4 DEF Mkdir
<1>5. ASSUME NEW t \in Thread, AcquireShared(t) PROVE LocalInv'
  BY <1>5 DEF AcquireShared
<1>6. ASSUME NEW t \in Thread, AcquireExclusive(t) PROVE LocalInv'
  BY <1>6 DEF AcquireExclusive
<1>7. ASSUME NEW t \in Thread, ReadLoad(t) PROVE LocalInv'
  BY <1>7 DEF ReadLoad
<1>8. ASSUME NEW t \in Thread, ReadEdit(t) PROVE LocalInv'
  BY <1>8 DEF ReadEdit
<1>9. ASSUME NEW t \in Thread, Write(t) PROVE LocalInv'
  BY <1>9 DEF Write
<1>10. ASSUME NEW t \in Thread, Sync(t) PROVE LocalInv'
  BY <1>10 DEF Sync
<1>11. ASSUME NEW t \in Thread, Rename(t) PROVE LocalInv'
  BY <1>11 DEF Rename
<1>12. ASSUME NEW t \in Thread, SyncDir(t) PROVE LocalInv'
  BY <1>12 DEF SyncDir
<1>13. ASSUME NEW t \in Thread, ChmodDir(t) PROVE LocalInv'
  BY <1>13 DEF ChmodDir
<1>14. ASSUME NEW t \in Thread, Fail(t) PROVE LocalInv'
  BY <1>14 DEF Fail
<1>15. ASSUME NEW t \in Thread, Unlock(t) PROVE LocalInv'
  BY <1>15 DEF Unlock
<1>16. ASSUME NEW t \in Thread, Return(t) PROVE LocalInv'
  BY <1>16 DEF Return
<1>17. ASSUME NEW p \in Process, Crash(p) PROVE LocalInv'
  BY <1>17 DEF Crash
<1>18. CASE PowerLoss
  BY <1>18 DEF PowerLoss, Durable, SyncInv
<1>19. CASE UNCHANGED vars
  BY <1>19 DEF vars
<1> QED
  BY <1>1, <1>2, <1>3, <1>4, <1>5, <1>6, <1>7, <1>8, <1>9, <1>10, <1>11, <1>12, <1>13, <1>14, <1>15, <1>16, <1>17, <1>18, <1>19 DEF Next, Step

LEMMA MergeStep ==
  ASSUME IInv, [Next]_vars
  PROVE  MergeIsCurrent'
<1> USE CredStoreAssumption, LoadRequestType, EmptyContents, ParsedContents, EditedContents
    DEF IInv, TypeOK, PC, Writing, Reads, lockVars, diskVars, threadVars, Goto, Finish, Reset, MergeIsCurrent, LockInv, LoadRequest
<1>1. ASSUME NEW t \in Thread, NEW r \in Requests, Call(t, r) PROVE MergeIsCurrent'
  BY <1>1 DEF Call
<1>2. ASSUME NEW t \in Thread, LockMu(t) PROVE MergeIsCurrent'
  BY <1>2 DEF LockMu
<1>3. ASSUME NEW t \in Thread, Stat(t) PROVE MergeIsCurrent'
  BY <1>3 DEF Stat
<1>4. ASSUME NEW t \in Thread, Mkdir(t) PROVE MergeIsCurrent'
  BY <1>4 DEF Mkdir
<1>5. ASSUME NEW t \in Thread, AcquireShared(t) PROVE MergeIsCurrent'
  BY <1>5 DEF AcquireShared
<1>6. ASSUME NEW t \in Thread, AcquireExclusive(t) PROVE MergeIsCurrent'
  BY <1>6 DEF AcquireExclusive
<1>7. ASSUME NEW t \in Thread, ReadLoad(t) PROVE MergeIsCurrent'
  BY <1>7 DEF ReadLoad
<1>8. ASSUME NEW t \in Thread, ReadEdit(t) PROVE MergeIsCurrent'
  BY <1>8 DEF ReadEdit
<1>9. ASSUME NEW t \in Thread, Write(t) PROVE MergeIsCurrent'
  BY <1>9 DEF Write
<1>10. ASSUME NEW t \in Thread, Sync(t) PROVE MergeIsCurrent'
  BY <1>10 DEF Sync
<1>11. ASSUME NEW t \in Thread, Rename(t) PROVE MergeIsCurrent'
  BY <1>11 DEF Rename
<1>12. ASSUME NEW t \in Thread, SyncDir(t) PROVE MergeIsCurrent'
  BY <1>12 DEF SyncDir
<1>13. ASSUME NEW t \in Thread, ChmodDir(t) PROVE MergeIsCurrent'
  BY <1>13 DEF ChmodDir
<1>14. ASSUME NEW t \in Thread, Fail(t) PROVE MergeIsCurrent'
  BY <1>14 DEF Fail
<1>15. ASSUME NEW t \in Thread, Unlock(t) PROVE MergeIsCurrent'
  BY <1>15 DEF Unlock
<1>16. ASSUME NEW t \in Thread, Return(t) PROVE MergeIsCurrent'
  BY <1>16 DEF Return
<1>17. ASSUME NEW p \in Process, Crash(p) PROVE MergeIsCurrent'
  BY <1>17 DEF Crash
<1>18. CASE PowerLoss
  BY <1>18 DEF PowerLoss, Durable, SyncInv
<1>19. CASE UNCHANGED vars
  BY <1>19 DEF vars
<1> QED
  BY <1>1, <1>2, <1>3, <1>4, <1>5, <1>6, <1>7, <1>8, <1>9, <1>10, <1>11, <1>12, <1>13, <1>14, <1>15, <1>16, <1>17, <1>18, <1>19 DEF Next, Step

LEMMA SyncStep ==
  ASSUME IInv, [Next]_vars
  PROVE  SyncInv'
<1> USE CredStoreAssumption
    DEF IInv, TypeOK, PC, Writing, Reads, lockVars, diskVars, threadVars, Goto, Finish, Reset, SyncInv, LockInv
<1>1. ASSUME NEW t \in Thread, NEW r \in Requests, Call(t, r) PROVE SyncInv'
  BY <1>1 DEF Call
<1>2. ASSUME NEW t \in Thread, LockMu(t) PROVE SyncInv'
  BY <1>2 DEF LockMu
<1>3. ASSUME NEW t \in Thread, Stat(t) PROVE SyncInv'
  BY <1>3 DEF Stat
<1>4. ASSUME NEW t \in Thread, Mkdir(t) PROVE SyncInv'
  BY <1>4 DEF Mkdir
<1>5. ASSUME NEW t \in Thread, AcquireShared(t) PROVE SyncInv'
  BY <1>5 DEF AcquireShared
<1>6. ASSUME NEW t \in Thread, AcquireExclusive(t) PROVE SyncInv'
  BY <1>6 DEF AcquireExclusive
<1>7. ASSUME NEW t \in Thread, ReadLoad(t) PROVE SyncInv'
  BY <1>7 DEF ReadLoad
<1>8. ASSUME NEW t \in Thread, ReadEdit(t) PROVE SyncInv'
  BY <1>8 DEF ReadEdit
<1>9. ASSUME NEW t \in Thread, Write(t) PROVE SyncInv'
  BY <1>9 DEF Write
<1>10. ASSUME NEW t \in Thread, Sync(t) PROVE SyncInv'
  BY <1>10 DEF Sync
<1>11. ASSUME NEW t \in Thread, Rename(t) PROVE SyncInv'
  BY <1>11 DEF Rename
<1>12. ASSUME NEW t \in Thread, SyncDir(t) PROVE SyncInv'
  BY <1>12 DEF SyncDir, Durable
<1>13. ASSUME NEW t \in Thread, ChmodDir(t) PROVE SyncInv'
  BY <1>13 DEF ChmodDir
<1>14. ASSUME NEW t \in Thread, Fail(t) PROVE SyncInv'
  BY <1>14 DEF Fail
<1>15. ASSUME NEW t \in Thread, Unlock(t) PROVE SyncInv'
  BY <1>15 DEF Unlock
<1>16. ASSUME NEW t \in Thread, Return(t) PROVE SyncInv'
  BY <1>16 DEF Return
<1>17. ASSUME NEW p \in Process, Crash(p) PROVE SyncInv'
  BY <1>17 DEF Crash
<1>18. CASE PowerLoss
  BY <1>18 DEF PowerLoss, Durable, SyncInv
<1>19. CASE UNCHANGED vars
  BY <1>19 DEF vars
<1> QED
  BY <1>1, <1>2, <1>3, <1>4, <1>5, <1>6, <1>7, <1>8, <1>9, <1>10, <1>11, <1>12, <1>13, <1>14, <1>15, <1>16, <1>17, <1>18, <1>19 DEF Next, Step

LEMMA DurableStep ==
  ASSUME IInv, [Next]_vars
  PROVE  DurableInv'
<1> USE CredStoreAssumption
    DEF IInv, TypeOK, PC, Writing, Reads, lockVars, diskVars, threadVars, Goto, Finish, Reset, DurableInv, LockInv, LocalInv, SyncInv, Durable
<1>1. ASSUME NEW t \in Thread, NEW r \in Requests, Call(t, r) PROVE DurableInv'
  BY <1>1 DEF Call
<1>2. ASSUME NEW t \in Thread, LockMu(t) PROVE DurableInv'
  BY <1>2 DEF LockMu
<1>3. ASSUME NEW t \in Thread, Stat(t) PROVE DurableInv'
  BY <1>3 DEF Stat
<1>4. ASSUME NEW t \in Thread, Mkdir(t) PROVE DurableInv'
  BY <1>4 DEF Mkdir
<1>5. ASSUME NEW t \in Thread, AcquireShared(t) PROVE DurableInv'
  BY <1>5 DEF AcquireShared
<1>6. ASSUME NEW t \in Thread, AcquireExclusive(t) PROVE DurableInv'
  BY <1>6 DEF AcquireExclusive
<1>7. ASSUME NEW t \in Thread, ReadLoad(t) PROVE DurableInv'
  BY <1>7 DEF ReadLoad
<1>8. ASSUME NEW t \in Thread, ReadEdit(t) PROVE DurableInv'
  BY <1>8 DEF ReadEdit
<1>9. ASSUME NEW t \in Thread, Write(t) PROVE DurableInv'
  BY <1>9 DEF Write
<1>10. ASSUME NEW t \in Thread, Sync(t) PROVE DurableInv'
  BY <1>10 DEF Sync
<1>11. ASSUME NEW t \in Thread, Rename(t) PROVE DurableInv'
  BY <1>11 DEF Rename
<1>12. ASSUME NEW t \in Thread, SyncDir(t) PROVE DurableInv'
  BY <1>12 DEF SyncDir
<1>13. ASSUME NEW t \in Thread, ChmodDir(t) PROVE DurableInv'
  BY <1>13 DEF ChmodDir
<1>14. ASSUME NEW t \in Thread, Fail(t) PROVE DurableInv'
  BY <1>14 DEF Fail
<1>15. ASSUME NEW t \in Thread, Unlock(t) PROVE DurableInv'
  BY <1>15 DEF Unlock
<1>16. ASSUME NEW t \in Thread, Return(t) PROVE DurableInv'
  BY <1>16 DEF Return
<1>17. ASSUME NEW p \in Process, Crash(p) PROVE DurableInv'
  BY <1>17 DEF Crash
<1>18. CASE PowerLoss
  BY <1>18 DEF PowerLoss, Durable, SyncInv
<1>19. CASE UNCHANGED vars
  BY <1>19 DEF vars
<1> QED
  BY <1>1, <1>2, <1>3, <1>4, <1>5, <1>6, <1>7, <1>8, <1>9, <1>10, <1>11, <1>12, <1>13, <1>14, <1>15, <1>16, <1>17, <1>18, <1>19 DEF Next, Step

(* Every reachable state satisfies the inductive invariant.                *)
THEOREM Correct == Spec => []IInv
<1>1. IInv /\ [Next]_vars => IInv'
  BY TypeStep, LockStep, LocalStep, MergeStep, SyncStep, DurableStep DEF IInv
<1> QED
  BY InitIInv, <1>1, PTL DEF Spec
-----------------------------------------------------------------------------
(* Type correctness (the variables of credstore.go).                       *)
THEOREM TypeCorrect == Spec => []TypeOK
<1>1. IInv => TypeOK
  BY DEF IInv
<1> QED
  BY Correct, <1>1, PTL

(* No Save or Delete ever undoes an update made since it read the file     *)
(* (credstore.go:211), whatever threads and processes run.                 *)
THEOREM NoLostUpdate == Spec => []MergeIsCurrent
<1>1. IInv => MergeIsCurrent
  BY DEF IInv
<1> QED
  BY Correct, <1>1, PTL

(* While a Load holds the shared lock no writer is at work.                *)
THEOREM ReadersAlone == Spec => []ReadersExcludeWriters
<1>1. IInv => ReadersExcludeWriters
  BY CredStoreAssumption DEF IInv, LockInv, TypeOK, ReadersExcludeWriters, Writing, Reads
<1> QED
  BY Correct, <1>1, PTL

(* When the directory sync works, a successful Save or Delete survives a   *)
(* power loss (credstore.go:337).                                          *)
THEOREM Durability == ASSUME ~DirSyncFails PROVE Spec => []SuccessIsDurable
<1>1. IInv => SuccessIsDurable
  BY DEF IInv, DurableInv, SuccessIsDurable
<1> QED
  BY Correct, <1>1, PTL

(* No step of any thread, no kill and no power loss tears auth.json.       *)
THEOREM Untorn == Spec => NeverTorn
<1>1. IInv /\ [Next]_vars => [file' = Corrupt => Corrupt \in {file, stable}]_vars
  <2> SUFFICES ASSUME IInv, [Next]_vars, file' = Corrupt, file # Corrupt
               PROVE  stable = Corrupt
    OBVIOUS
  <2> USE AuthFileAssumption DEF IInv, diskVars
  <2>1. ASSUME NEW t \in Thread, Rename(t) PROVE FALSE
    BY <2>1 DEF Rename, TypeOK
  <2>2. CASE PowerLoss
    BY <2>2 DEF PowerLoss, Durable, SyncInv
  <2>3. ASSUME NEW t \in Thread, NEW r \in Requests, Call(t, r) PROVE FALSE
    BY <2>3 DEF Call
  <2>4. ASSUME NEW t \in Thread,
               \/ LockMu(t) \/ Stat(t) \/ Mkdir(t) \/ AcquireShared(t)
               \/ AcquireExclusive(t) \/ ReadLoad(t) \/ ReadEdit(t) \/ Write(t)
               \/ Sync(t) \/ SyncDir(t) \/ ChmodDir(t) \/ Fail(t) \/ Unlock(t)
               \/ Return(t)
        PROVE  FALSE
    BY <2>4 DEF LockMu, Stat, Mkdir, AcquireShared, AcquireExclusive, ReadLoad,
                ReadEdit, Write, Sync, SyncDir, ChmodDir, Fail, Unlock, Return
  <2>5. ASSUME NEW p \in Process, Crash(p) PROVE FALSE
    BY <2>5 DEF Crash
  <2>6. CASE UNCHANGED vars
    BY <2>6 DEF vars
  <2> QED
    BY <2>1, <2>2, <2>3, <2>4, <2>5, <2>6 DEF Next, Step
<1> QED
  BY Correct, <1>1, PTL DEF NeverTorn, Spec
-----------------------------------------------------------------------------
(* The refinement: each step of the detailed store is a step of the        *)
(* abstract one, or leaves what it shows unchanged.                        *)
LEMMA SameAuthFile ==
  /\ Abstract!Empty = Empty /\ Abstract!LoadRequest = LoadRequest
  /\ Abstract!Contents = Contents
  /\ \A f : Abstract!Parsed(f) = Parsed(f)
  /\ \A r, c : Abstract!Edited(r, c) = Edited(r, c)
  BY DEF Abstract!Empty, Abstract!LoadRequest, Abstract!Contents, Abstract!Parsed,
         Abstract!Edited, Abstract!Provider, Empty, LoadRequest, Contents, Parsed,
         Edited, Provider

LEMMA AbstractInit == Init => Abstract!Init
  BY SameAuthFile, EmptyContents DEF Init, Abstract!Init, Visible, AbsPhase, AbsValue, Phase, Reads, LoadRequest

LEMMA PhaseChange ==
  ASSUME NEW t \in Thread, NEW l, Phase(t)' = l,
         \A u \in Thread \ {t} :
           pc'[u] = pc[u] /\ res'[u] = res[u] /\ committed'[u] = committed[u]
  PROVE  AbsPhase' = [AbsPhase EXCEPT ![t] = l]
<1>1. \A u \in Thread \ {t} : Phase(u)' = Phase(u)
  BY DEF Phase
<1> QED
  BY <1>1 DEF AbsPhase

LEMMA ValueChange ==
  ASSUME NEW t \in Thread, NEW v, v = (IF Reads(t)' THEN buf'[t] ELSE Empty),
         \A u \in Thread \ {t} : op'[u] = op[u] /\ buf'[u] = buf[u]
  PROVE  AbsValue' = [AbsValue EXCEPT ![t] = v]
  BY DEF AbsValue, Reads

LEMMA AbstractStep ==
  ASSUME IInv, [Next]_vars
  PROVE  [Abstract!Next]_Abstract!vars
<1> USE CredStoreAssumption, AuthFileAssumption, SameAuthFile, EmptyContents
    DEF IInv, TypeOK, PC, Writing, lockVars, diskVars, Goto, Finish
<1>1. ASSUME NEW t \in Thread, NEW r \in Requests, Call(t, r) PROVE Abstract!Call(t, r)
  <2>1. AbsPhase[t] = "idle" /\ AbsPhase' = [AbsPhase EXCEPT ![t] = "called"]
    <3>1. Phase(t)' = "called"
      BY <1>1 DEF Call, Phase, LocalInv
    <3> QED
      BY <1>1, <3>1, PhaseChange DEF Call, AbsPhase, Phase
  <2>2. AbsValue' = AbsValue
    BY <1>1 DEF Call, AbsValue, LocalInv, Reads
  <2> QED
    BY <1>1, <2>1, <2>2 DEF Call, Abstract!Call
<1>2. ASSUME NEW t \in Thread, LockMu(t) PROVE UNCHANGED Abstract!vars
  BY <1>2 DEF LockMu, Abstract!vars, AbsPhase, AbsValue, Phase, Reads
<1>3. ASSUME NEW t \in Thread, Mkdir(t) PROVE UNCHANGED Abstract!vars
  BY <1>3 DEF Mkdir, Abstract!vars, AbsPhase, AbsValue, Phase, Reads
<1>4. ASSUME NEW t \in Thread, AcquireShared(t) PROVE UNCHANGED Abstract!vars
  BY <1>4 DEF AcquireShared, Abstract!vars, AbsPhase, AbsValue, Phase, Reads
<1>5. ASSUME NEW t \in Thread, AcquireExclusive(t) PROVE UNCHANGED Abstract!vars
  BY <1>5 DEF AcquireExclusive, Abstract!vars, AbsPhase, AbsValue, Phase, Reads
<1>6. ASSUME NEW t \in Thread, Write(t) PROVE UNCHANGED Abstract!vars
  BY <1>6 DEF Write, Abstract!vars, AbsPhase, AbsValue, Phase, Reads
<1>7. ASSUME NEW t \in Thread, Sync(t) PROVE UNCHANGED Abstract!vars
  BY <1>7 DEF Sync, Abstract!vars, AbsPhase, AbsValue, Phase, Reads
<1>8. ASSUME NEW t \in Thread, ChmodDir(t) PROVE UNCHANGED Abstract!vars
  BY <1>8 DEF ChmodDir, Abstract!vars, AbsPhase, AbsValue, Phase, Reads, LocalInv
<1>9. ASSUME NEW t \in Thread, Fail(t) PROVE UNCHANGED Abstract!vars
  BY <1>9 DEF Fail, Abstract!vars, AbsPhase, AbsValue, Phase, Reads, LocalInv
<1>10. ASSUME NEW t \in Thread, Stat(t) PROVE Abstract!Apply(t) \/ UNCHANGED Abstract!vars
  <2>1. CASE dir
    BY <1>10, <2>1 DEF Stat, Abstract!vars, AbsPhase, AbsValue, Phase, Reads
  <2>2. CASE ~dir
    <3>1. Phase(t)' = "applied" /\ AbsPhase[t] = "called"
      BY <1>10, <2>2 DEF Stat, Phase, AbsPhase, LocalInv
    <3>2. AbsPhase' = [AbsPhase EXCEPT ![t] = "applied"]
      BY <1>10, <2>2, <3>1, PhaseChange DEF Stat
    <3>3. Reads(t) /\ buf[t] = Empty /\ Visible(file) = Empty
      BY <1>10, <2>2 DEF Stat, LockInv, LocalInv, Visible
    <3>4. AbsValue' = [AbsValue EXCEPT ![t] = Empty]
      BY <1>10, <3>3, ValueChange DEF Stat, Reads
    <3>5. Empty # Corrupt
      OBVIOUS
    <3> QED
      BY <1>10, <3>1, <3>2, <3>3, <3>4, <3>5 DEF Stat, Abstract!Apply, Reads
  <2> QED BY <2>1, <2>2
<1>11. ASSUME NEW t \in Thread, ReadLoad(t) PROVE Abstract!Apply(t)
  <2>1. Phase(t)' = "applied" /\ AbsPhase[t] = "called"
    BY <1>11 DEF ReadLoad, Phase, AbsPhase, LocalInv
  <2>2. AbsPhase' = [AbsPhase EXCEPT ![t] = "applied"]
    BY <1>11, <2>1, PhaseChange DEF ReadLoad
  <2>3. Parsed(file) = Visible(file) /\ Visible(file) # Corrupt
    BY <1>11 DEF ReadLoad, Parsed, Visible
  <2>4. AbsValue' = [AbsValue EXCEPT ![t] = Visible(file)]
    BY <1>11, <2>3, ValueChange DEF ReadLoad, Reads
  <2> QED
    BY <1>11, <2>1, <2>2, <2>3, <2>4 DEF ReadLoad, Abstract!Apply, Reads
<1>12. ASSUME NEW t \in Thread, ReadEdit(t) PROVE Abstract!Apply(t) \/ UNCHANGED Abstract!vars
  <2>1. CASE op[t].kind = "delete" /\ file = NoFile
    <3>1. Phase(t)' = "applied" /\ AbsPhase[t] = "called"
      BY <1>12, <2>1 DEF ReadEdit, Phase, AbsPhase, LocalInv
    <3>2. AbsPhase' = [AbsPhase EXCEPT ![t] = "applied"]
      BY <1>12, <2>1, <3>1, PhaseChange DEF ReadEdit
    <3>3. Edited(op[t], Parsed(Visible(file))) = Visible(file)
      BY <2>1 DEF Edited, Parsed, Visible, Empty
    <3>4. AbsValue' = AbsValue
      BY <1>12, <2>1 DEF ReadEdit, AbsValue, Reads
    <3> QED
      BY <1>12, <2>1, <3>1, <3>2, <3>3, <3>4 DEF ReadEdit, Abstract!Apply
  <2>2. CASE ~(op[t].kind = "delete" /\ file = NoFile)
    BY <1>12, <2>2 DEF ReadEdit, Abstract!vars, AbsPhase, AbsValue, Phase, Reads
  <2> QED BY <2>1, <2>2
<1>13. ASSUME NEW t \in Thread, Rename(t) PROVE Abstract!Apply(t)
  <2>1. ~Reads(t)
    BY <1>13 DEF Rename, LockInv
  <2>2. buf[t] = Edited(op[t], Parsed(Visible(file)))
    BY <1>13 DEF Rename, MergeIsCurrent, Parsed, Visible
  <2>3. Visible(file)' = buf[t]
    BY <1>13 DEF Rename, Visible
  <2>4. Phase(t)' = "applied" /\ AbsPhase[t] = "called"
    BY <1>13 DEF Rename, Phase, AbsPhase, LocalInv
  <2>5. AbsPhase' = [AbsPhase EXCEPT ![t] = "applied"]
    BY <1>13, <2>4, PhaseChange DEF Rename
  <2>6. AbsValue' = AbsValue
    BY <1>13 DEF Rename, AbsValue, Reads
  <2> QED
    BY <1>13, <2>1, <2>2, <2>3, <2>4, <2>5, <2>6 DEF Rename, Abstract!Apply, Reads
<1>14. ASSUME NEW t \in Thread, SyncDir(t) PROVE Abstract!Flush \/ UNCHANGED Abstract!vars
  <2>1. UNCHANGED <<Visible(file), AbsPhase, op, AbsValue>>
    BY <1>14 DEF SyncDir, AbsPhase, AbsValue, Phase, Reads, Visible
  <2>2. stable' = file \/ stable' = stable
    BY <1>14 DEF SyncDir, Durable, SyncInv
  <2> QED
    BY <2>1, <2>2 DEF Abstract!Flush, Abstract!vars, Visible
<1>15. ASSUME NEW t \in Thread, Unlock(t) PROVE Abstract!Answer(t)
  <2>1. /\ Phase(t)' = res[t] /\ res[t] \in {"ok", "error"}
        /\ res[t] = "ok" => AbsPhase[t] = "applied"
        /\ AbsPhase[t] \in {"called", "applied"}
    <3>1. pc[t] = "unlock" /\ pc'[t] = "return" /\ res' = res
      BY <1>15 DEF Unlock
    <3>2. res[t] \in {"ok", "error"}
      BY <3>1 DEF LocalInv
    <3> QED
      BY <3>1, <3>2 DEF Phase, AbsPhase
  <2>2. AbsPhase' = [AbsPhase EXCEPT ![t] = res[t]]
    BY <1>15, <2>1, PhaseChange DEF Unlock
  <2>3. AbsValue' = AbsValue
    BY <1>15 DEF Unlock, AbsValue, Reads
  <2> QED
    BY <1>15, <2>1, <2>2, <2>3 DEF Unlock, Abstract!Answer
<1>16. ASSUME NEW t \in Thread, Return(t) PROVE Abstract!Return(t)
  <2>1. Phase(t)' = "idle" /\ AbsPhase[t] \in {"ok", "error"}
    <3>1. pc[t] = "return" /\ pc'[t] = "idle"
      BY <1>16 DEF Return, Reset
    <3>2. res[t] \in {"ok", "error"}
      BY <3>1 DEF LocalInv
    <3> QED
      BY <3>1, <3>2 DEF Phase, AbsPhase
  <2>2. AbsPhase' = [AbsPhase EXCEPT ![t] = "idle"]
    BY <1>16, <2>1, PhaseChange DEF Return, Reset
  <2>3. op' = [op EXCEPT ![t] = LoadRequest] /\ buf'[t] = Empty
    BY <1>16 DEF Return, Reset
  <2>4. AbsValue' = [AbsValue EXCEPT ![t] = Empty]
    BY <1>16, <2>3, ValueChange DEF Return, Reset, Reads
  <2> QED
    BY <1>16, <2>1, <2>2, <2>3, <2>4 DEF Return, Abstract!Return
<1>17. ASSUME NEW p \in Process, Crash(p) PROVE Abstract!Crash
  <2> DEFINE S == {t \in Thread : ProcessOf[t] = p}
  <2>1. S \in SUBSET Thread
    OBVIOUS
  <2>2. Abstract!Abandon(S) /\ UNCHANGED <<Visible(file), Visible(stable)>>
    BY <1>17 DEF Crash, Reset, Abstract!Abandon, LoadRequest, AbsPhase, AbsValue, Phase, Reads, Visible
  <2> QED
    BY <2>1, <2>2 DEF Abstract!Crash
<1>18. CASE PowerLoss
  <2>1. Abstract!Abandon(Thread)
    BY <1>18 DEF PowerLoss, Reset, Abstract!Abandon, LoadRequest, AbsPhase, AbsValue, Phase, Reads
  <2>2. file' \in {stable, file} /\ stable' = file'
    BY <1>18 DEF PowerLoss, Durable, SyncInv
  <2> QED
    BY <2>1, <2>2 DEF Abstract!PowerLoss, Abstract!Next, Visible
<1>19. CASE UNCHANGED vars
  BY <1>19 DEF vars, threadVars, Abstract!vars, AbsPhase, AbsValue, Phase, Reads, Visible
<1> QED
  BY <1>1, <1>2, <1>3, <1>4, <1>5, <1>6, <1>7, <1>8, <1>9, <1>10, <1>11, <1>12, <1>13, <1>14, <1>15, <1>16, <1>17, <1>18, <1>19 DEF Next, Step, Abstract!Next

(* Save, Load and Delete of any number of threads and processes are atomic *)
(* to their callers, through failures, kills and power loss.               *)
THEOREM Refinement == Spec => ImplementsAuthStore
  BY Correct, AbstractInit, AbstractStep, PTL DEF Spec, ImplementsAuthStore, Abstract!Spec
=============================================================================
