\* A COUNTING mutex relocked on a kernel whose semaphore lets its owner in.
SPECIFICATION Spec
CONSTANTS
  t1 = t1
  t2 = t2
  Threads = {t1, t2}
  NoThread = NoThread
  OwnerReenters = TRUE
  Kinds = {"MUTEX_TYPE_COUNTING_FAST"}
  MaxDepth = 2
  DestroyInUse = FALSE
INVARIANT
  RecursiveUnlock
