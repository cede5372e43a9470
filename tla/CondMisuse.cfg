\* Waits that may time out, on a condition variable destroyed at any time.
SPECIFICATION CondFairSpec
CONSTANTS
  t1 = t1
  t2 = t2
  t3 = t3
  Threads = {t1, t2}
  NoThread = NoThread
  OwnerReenters = TRUE
  Kinds = {"MUTEX_TYPE_FAST"}
  MaxDepth = 2
  DestroyInUse = FALSE
  MaxPosts = 2
  Timed = TRUE
  Destroys = TRUE
  MaxOnwait = 2
INVARIANT
  MutualExclusion
PROPERTIES
  OkWaitHolds
  CondDestroyReturns
CHECK_DEADLOCK FALSE
