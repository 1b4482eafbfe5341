SPECIFICATION FairSpec
CONSTANTS
  p1 = p1  p2 = p2  t1 = t1  t2 = t2  t3 = t3  e1 = e1
  None = None  NoFile = NoFile  Corrupt = Corrupt  Nobody = Nobody
  Process <- MCProcess
  Thread <- MCThread
  ProcessOf <- MCProcessOf
  Entry = {e1}
  Requests <- MCRequests
  DirSyncFails = FALSE
INVARIANTS TypeOK MergeIsCurrent ReadersExcludeWriters SuccessIsDurable
PROPERTIES NeverTorn ImplementsAuthStore CallsReturn
