\* A pthread_once_t initialised by PTHREAD_ONCE_INIT.
SPECIFICATION OnceSpec
CONSTANTS
  t1 = t1
  t2 = t2
  t3 = t3
  t4 = t4
  Threads = {t1, t2, t3, t4}
  NoThread = NoThread
  OwnerReenters = TRUE
  Kinds = {"MUTEX_TYPE_FAST"}
  MaxDepth = 1
  DestroyInUse = FALSE
  StaticInit = TRUE
INVARIANT
  RunsOnce
CHECK_DEADLOCK FALSE
