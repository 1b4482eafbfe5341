------------------------------- MODULE CredStore -------------------------------
(***************************************************************************)
(* The credential store of credstore.go, call by call: Load, Save and      *)
(* Delete run by the threads of several processes on one auth.json, under  *)
(* the package mutex mu (one per process) and the advisory lock on the     *)
(* .lock file (one per machine), with any system call failing, processes   *)
(* killed between two steps, and power loss.                               *)
(*                                                                         *)
(* pc[t] names the call t is about to make:                                *)
(*   mu      mu.Lock()                    rename    os.Rename(tmp, p)      *)
(*   stat    os.Stat(dir), Load only      syncdir   d.Sync(), best effort  *)
(*   mkdir   os.MkdirAll(dir)             chmoddir  os.Chmod(dir, 0700)    *)
(*   flock   acquireFlock...(p)           unlock    deferred lk.Unlock()   *)
(*   read    os.ReadFile(p), parse, edit  return    deferred mu.Unlock()   *)
(*   write   CreateTemp, tmp.Write        sync      tmp.Sync, Close, Chmod *)
(***************************************************************************)
EXTENDS AuthFile

CONSTANTS
  Process,       \* processes that use this auth.json
  Thread,        \* goroutines that call the store
  ProcessOf,     \* ProcessOf[t]: the process t belongs to
  Requests,      \* the requests callers make
  Nobody,        \* the holder of a free lock
  DirSyncFails   \* TRUE: opening or syncing the directory can fail

ASSUME CredStoreAssumption ==
  /\ ProcessOf \in [Thread -> Process]
  /\ Requests \subseteq Request
  /\ Nobody \notin Thread
  /\ DirSyncFails \in BOOLEAN

VARIABLES
  dir,        \* the directory of auth.json exists
  file,       \* auth.json as every process sees it
  synced,     \* the bytes of the visible auth.json have reached the disk
  stable,     \* auth.json as a power loss before the next directory sync leaves it
  mu,         \* mu[p]: the thread of p that holds the package mutex
  exLock,     \* the thread that holds the .lock file exclusively
  shLock,     \* the threads that hold it shared
  pc, op,     \* per thread: the next call, and the request being served
  buf,        \* per thread: the variable disk (af, in Load)
  tmp,        \* per thread: its temporary file
  committed,  \* per thread: atomicWrite's committed
  res         \* per thread: the result, once it is decided

lockVars == <<mu, exLock, shLock>>
diskVars == <<dir, file, synced, stable>>
threadVars == <<pc, op, buf, tmp, committed, res>>
vars == <<lockVars, diskVars, threadVars>>

PC == {"idle", "mu", "stat", "mkdir", "flock", "read", "write", "sync",
       "rename", "syncdir", "chmoddir", "unlock", "return"}

Goto(t, l) == pc' = [pc EXCEPT ![t] = l]

Finish(t, r) == res' = [res EXCEPT ![t] = r] /\ Goto(t, "unlock")

Reads(t) == op[t].kind = "load"

Init ==
  /\ file \in Contents \cup {NoFile, Corrupt}
  /\ dir \in BOOLEAN /\ (~dir => file = NoFile)
  /\ synced = TRUE
  /\ stable = file
  /\ mu = [p \in Process |-> Nobody]
  /\ exLock = Nobody
  /\ shLock = {}
  /\ pc = [t \in Thread |-> "idle"]
  /\ op = [t \in Thread |-> LoadRequest]
  /\ buf = [t \in Thread |-> Empty]
  /\ tmp = [t \in Thread |-> "none"]
  /\ committed = [t \in Thread |-> FALSE]
  /\ res = [t \in Thread |-> "none"]
-----------------------------------------------------------------------------
(* A caller enters loadWithPath, saveWithPath or deleteWithPath.           *)
Call(t, r) ==
  /\ pc[t] = "idle"
  /\ op' = [op EXCEPT ![t] = r]
  /\ Goto(t, "mu")
  /\ UNCHANGED <<lockVars, diskVars, buf, tmp, committed, res>>

LockMu(t) ==
  /\ pc[t] = "mu"
  /\ mu[ProcessOf[t]] = Nobody
  /\ mu' = [mu EXCEPT ![ProcessOf[t]] = t]
  /\ Goto(t, IF Reads(t) THEN "stat" ELSE "mkdir")
  /\ UNCHANGED <<exLock, shLock, diskVars, op, buf, tmp, committed, res>>

(* Load of a missing directory answers an empty AuthFile without locking.  *)
Stat(t) ==
  /\ pc[t] = "stat"
  /\ IF dir THEN Goto(t, "flock") /\ UNCHANGED res ELSE Finish(t, "ok")
  /\ UNCHANGED <<lockVars, diskVars, op, buf, tmp, committed>>

(* Operators named Bad... are the next definition with a plausible bug; the *)
(* specification does not use them.                                        *)
BadMkdir(t) ==
  /\ pc[t] = "mkdir"
  /\ Goto(t, "flock")
  /\ UNCHANGED <<lockVars, diskVars, op, buf, tmp, committed, res>>

Mkdir(t) ==
  /\ pc[t] = "mkdir"
  /\ dir' = TRUE
  /\ Goto(t, "flock")
  /\ UNCHANGED <<lockVars, file, synced, stable, op, buf, tmp, committed, res>>

BadAcquireShared(t) ==
  /\ pc[t] = "flock" /\ Reads(t)
  /\ shLock' = shLock \cup {t}
  /\ Goto(t, "read")
  /\ UNCHANGED <<mu, exLock, diskVars, op, buf, tmp, committed, res>>

AcquireShared(t) ==
  /\ pc[t] = "flock" /\ Reads(t)
  /\ exLock = Nobody
  /\ shLock' = shLock \cup {t}
  /\ Goto(t, "read")
  /\ UNCHANGED <<mu, exLock, diskVars, op, buf, tmp, committed, res>>

BadAcquireExclusive(t) ==
  /\ pc[t] = "flock" /\ ~Reads(t)
  /\ shLock = {}
  /\ exLock' = t
  /\ Goto(t, "read")
  /\ UNCHANGED <<mu, shLock, diskVars, op, buf, tmp, committed, res>>

AcquireExclusive(t) ==
  /\ pc[t] = "flock" /\ ~Reads(t)
  /\ exLock = Nobody /\ shLock = {}
  /\ exLock' = t
  /\ Goto(t, "read")
  /\ UNCHANGED <<mu, shLock, diskVars, op, buf, tmp, committed, res>>

BadReadLoad(t) ==
  /\ pc[t] = "read" /\ Reads(t)
  /\ buf' = [buf EXCEPT ![t] = Parsed(file)]
  /\ Finish(t, "ok")
  /\ UNCHANGED <<lockVars, diskVars, op, tmp, committed>>

ReadLoad(t) ==
  /\ pc[t] = "read" /\ Reads(t)
  /\ file # Corrupt
  /\ buf' = [buf EXCEPT ![t] = Parsed(file)]
  /\ Finish(t, "ok")
  /\ UNCHANGED <<lockVars, diskVars, op, tmp, committed>>

(* Save and Delete re-read under the lock and edit what they find; Delete  *)
(* has nothing to do when there is no file.                                *)
ReadEdit(t) ==
  /\ pc[t] = "read" /\ ~Reads(t)
  /\ IF op[t].kind = "delete" /\ file = NoFile
       THEN Finish(t, "ok") /\ UNCHANGED buf
       ELSE /\ buf' = [buf EXCEPT ![t] = Edited(op[t], Parsed(file))]
            /\ Goto(t, "write")
            /\ UNCHANGED res
  /\ UNCHANGED <<lockVars, diskVars, op, tmp, committed>>

Write(t) ==
  /\ pc[t] = "write"
  /\ tmp' = [tmp EXCEPT ![t] = "written"]
  /\ Goto(t, "sync")
  /\ UNCHANGED <<lockVars, diskVars, op, buf, committed, res>>

BadSync(t) ==
  /\ pc[t] = "sync"
  /\ Goto(t, "rename")
  /\ UNCHANGED <<lockVars, diskVars, op, buf, tmp, committed, res>>

Sync(t) ==
  /\ pc[t] = "sync"
  /\ tmp' = [tmp EXCEPT ![t] = "synced"]
  /\ Goto(t, "rename")
  /\ UNCHANGED <<lockVars, diskVars, op, buf, committed, res>>

Rename(t) ==
  /\ pc[t] = "rename"
  /\ file' = buf[t]
  /\ synced' = (tmp[t] = "synced")
  /\ tmp' = [tmp EXCEPT ![t] = "none"]
  /\ committed' = [committed EXCEPT ![t] = TRUE]
  /\ Goto(t, "syncdir")
  /\ UNCHANGED <<lockVars, dir, stable, op, buf, res>>

(* The directory entry alone is made durable: the bytes are if Sync ran.   *)
Durable == IF synced THEN file ELSE Corrupt

BadSyncDir(t) ==
  /\ pc[t] = "syncdir"
  /\ Goto(t, "chmoddir")
  /\ UNCHANGED <<lockVars, diskVars, op, buf, tmp, committed, res>>

SyncDir(t) ==
  /\ pc[t] = "syncdir"
  /\ \/ stable' = Durable
     \/ DirSyncFails /\ UNCHANGED stable
  /\ Goto(t, "chmoddir")
  /\ UNCHANGED <<lockVars, dir, file, synced, op, buf, tmp, committed, res>>

ChmodDir(t) ==
  /\ pc[t] = "chmoddir"
  /\ Finish(t, "ok")
  /\ UNCHANGED <<lockVars, diskVars, op, buf, tmp, committed>>

(* Every call with an error return: the lock file cannot be opened or is   *)
(* held for longer than flockTimeout, the file cannot be read or (in Load) *)
(* parsed, the disk is full...  The temporary file is removed.             *)
Fail(t) ==
  /\ pc[t] \in {"mkdir", "flock", "read", "write", "sync", "rename", "chmoddir"}
  /\ tmp' = [tmp EXCEPT ![t] = "none"]
  /\ Finish(t, "error")
  /\ UNCHANGED <<lockVars, diskVars, op, buf, committed>>

(* The deferred calls, last registered first.                              *)
Unlock(t) ==
  /\ pc[t] = "unlock"
  /\ exLock' = IF exLock = t THEN Nobody ELSE exLock
  /\ shLock' = shLock \ {t}
  /\ Goto(t, "return")
  /\ UNCHANGED <<mu, diskVars, op, buf, tmp, committed, res>>

Reset(S) ==
  /\ pc' = [t \in Thread |-> IF t \in S THEN "idle" ELSE pc[t]]
  /\ op' = [t \in Thread |-> IF t \in S THEN LoadRequest ELSE op[t]]
  /\ buf' = [t \in Thread |-> IF t \in S THEN Empty ELSE buf[t]]
  /\ tmp' = [t \in Thread |-> IF t \in S THEN "none" ELSE tmp[t]]
  /\ committed' = [t \in Thread |-> IF t \in S THEN FALSE ELSE committed[t]]
  /\ res' = [t \in Thread |-> IF t \in S THEN "none" ELSE res[t]]

BadReturn(t) ==
  /\ pc[t] = "return"
  /\ Reset({t})
  /\ UNCHANGED <<lockVars, diskVars>>

Return(t) ==
  /\ pc[t] = "return"
  /\ mu' = [mu EXCEPT ![ProcessOf[t]] = Nobody]
  /\ Reset({t})
  /\ UNCHANGED <<exLock, shLock, diskVars>>
-----------------------------------------------------------------------------
(* The environment.  A process that is killed loses its mutex and, the     *)
(* kernel closing its descriptors, its file locks; its temporary file      *)
(* stays behind under a name no call ever looks up.                        *)
Crash(p) ==
  LET S == {t \in Thread : ProcessOf[t] = p} IN
  /\ mu' = [mu EXCEPT ![p] = Nobody]
  /\ exLock' = IF exLock \in S THEN Nobody ELSE exLock
  /\ shLock' = shLock \ S
  /\ Reset(S)
  /\ UNCHANGED diskVars

(* Renames not yet followed by a directory sync may or may not survive.    *)
PowerLoss ==
  /\ mu' = [p \in Process |-> Nobody]
  /\ exLock' = Nobody
  /\ shLock' = {}
  /\ Reset(Thread)
  /\ file' \in {stable, Durable}
  /\ stable' = file'
  /\ synced' = TRUE
  /\ UNCHANGED dir

Step(t) ==
  \/ Stat(t) \/ Mkdir(t) \/ AcquireShared(t) \/ AcquireExclusive(t)
  \/ ReadLoad(t) \/ ReadEdit(t) \/ Write(t) \/ Sync(t) \/ Rename(t)
  \/ SyncDir(t) \/ ChmodDir(t) \/ Fail(t) \/ Unlock(t) \/ Return(t)

Next ==
  \/ \E t \in Thread : (\E r \in Requests : Call(t, r)) \/ LockMu(t) \/ Step(t)
  \/ \E p \in Process : Crash(p)
  \/ PowerLoss

Spec == Init /\ [][Next]_vars

(* A goroutine that can run is run; sync.Mutex hands the mutex to a waiter *)
(* that has starved for a millisecond.  Waiting for the .lock file ends    *)
(* with the lock or, after flockTimeout, with Fail.                        *)
Fairness == \A t \in Thread : WF_vars(Step(t)) /\ SF_vars(LockMu(t))

FairSpec == Spec /\ Fairness
-----------------------------------------------------------------------------
TypeOK ==
  /\ dir \in BOOLEAN /\ (~dir => file = NoFile)
  /\ file \in Contents \cup {NoFile, Corrupt}
  /\ synced \in BOOLEAN
  /\ stable \in Contents \cup {NoFile, Corrupt}
  /\ mu \in [Process -> Thread \cup {Nobody}]
  /\ exLock \in Thread \cup {Nobody}
  /\ shLock \subseteq Thread
  /\ pc \in [Thread -> PC]
  /\ op \in [Thread -> Request]
  /\ buf \in [Thread -> Contents]
  /\ tmp \in [Thread -> {"none", "written", "synced"}]
  /\ committed \in [Thread -> BOOLEAN]
  /\ res \in [Thread -> {"none", "ok", "error"}]

(* No lost update (credstore.go:211, "re-read under lock to merge          *)
(* concurrent writes from other processes"): what a Save or Delete is      *)
(* about to put in place is its edit of the file as it is now, so the      *)
(* rename never undoes what another thread or process wrote meanwhile.     *)
MergeIsCurrent ==
  \A t \in Thread : pc[t] \in {"write", "sync", "rename"} =>
    buf[t] = Edited(op[t], Parsed(file))

(* A reader that holds the lock sees one version of the file: no writer is *)
(* between its read and its rename meanwhile.                              *)
ReadersExcludeWriters ==
  \A t \in shLock, u \in Thread :
    pc[u] \notin {"write", "sync", "rename", "syncdir", "chmoddir"}

(* Neither a killed process nor a power loss between any two steps leaves  *)
(* an auth.json that does not parse, unless it was already so: the         *)
(* temporary file is synced before it is renamed (credstore.go:319,332).   *)
NeverTorn == [][file' = Corrupt => Corrupt \in {file, stable}]_vars

(* A writer that reports success has made its update durable against power *)
(* loss (credstore.go:337).                                                *)
SuccessIsDurable ==
  \A t \in Thread :
    pc[t] = "unlock" /\ committed[t] /\ res[t] = "ok" => stable = file

(* The store of CredStore, seen through what callers can observe.  A       *)
(* request has taken effect once its rename is done or, when it writes     *)
(* nothing, once its result is "ok".                                       *)
Visible(f) == IF f = NoFile THEN Empty ELSE f

Phase(t) ==
  IF pc[t] = "idle" THEN "idle"
  ELSE IF pc[t] = "return" THEN res[t]
  ELSE IF committed[t] \/ res[t] = "ok" THEN "applied"
  ELSE "called"

AbsPhase == [t \in Thread |-> Phase(t)]
AbsValue == [t \in Thread |-> IF Reads(t) THEN buf[t] ELSE Empty]

Abstract == INSTANCE AuthStore WITH
  store <- Visible(file),
  safe <- Visible(stable),
  phase <- AbsPhase,
  request <- op,
  value <- AbsValue

(* Every behaviour of the locks, the merge and the atomic rename is one of *)
(* the atomic store: requests of all threads and processes take effect one *)
(* at a time, in the order of some instant inside each call.               *)
ImplementsAuthStore == Abstract!Spec

(* Every call of Load, Save and Delete returns, unless its process dies.   *)
CallsReturn == \A t \in Thread : pc[t] = "mu" ~> pc[t] = "idle"
=============================================================================
