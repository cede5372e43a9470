\* Both kinds of mutex on a kernel whose semaphore answers a relock with
\* rc 640, the answer uthread_mutex.c is written for.
SPECIFICATION FairSpec
CONSTANTS
  t1 = t1
  t2 = t2
  t3 = t3
  Threads = {t1, t2, t3}
  NoThread = NoThread
  OwnerReenters = FALSE
  Kinds = {"MUTEX_TYPE_FAST", "MUTEX_TYPE_COUNTING_FAST"}
  MaxDepth = 2
  DestroyInUse = FALSE
INVARIANTS
  TypeOK
  RecordMatchesHolds
  NoSelfDeadlock
  SemFreeWhenUnused
  MutualExclusion
  OwnerHoldsSem
  OwnershipInv
PROPERTIES
  ImplementsAbstractMutex
  LockReturns
  DestroyReturns
