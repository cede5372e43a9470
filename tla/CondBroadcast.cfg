\* A broadcast misses a thread that was waiting when it began.
SPECIFICATION CondSpec
CONSTANTS
  t1 = t1
  t2 = t2
  t3 = t3
  Threads = {t1, t2, t3}
  NoThread = NoThread
  OwnerReenters = TRUE
  Kinds = {"MUTEX_TYPE_FAST"}
  MaxDepth = 2
  DestroyInUse = FALSE
  MaxPosts = 3
  Timed = FALSE
  Destroys = FALSE
  MaxOnwait = 4
INVARIANT
  BroadcastWakesAll
CHECK_DEADLOCK FALSE
