\* A wait that times out comes back without the mutex.
SPECIFICATION CondSpec
CONSTANTS
  t1 = t1
  t2 = t2
  t3 = t3
  Threads = {t1, t2}
  NoThread = NoThread
  OwnerReenters = TRUE
  Kinds = {"MUTEX_TYPE_FAST"}
  MaxDepth = 2
  DestroyInUse = FALSE
  MaxPosts = 3
  Timed = TRUE
  Destroys = FALSE
  MaxOnwait = 4
PROPERTY
  WaitReturnsHolding
CHECK_DEADLOCK FALSE
