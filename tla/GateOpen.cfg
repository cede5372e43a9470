\* Waiters at a gate that one thread opens; the event remembers a post for
\* every waiter.
SPECIFICATION GateSpec
CONSTANTS
  t1 = t1
  t2 = t2
  t3 = t3
  t4 = t4
  Threads = {t1, t2, t3, t4}
  Waiters = {t1, t2, t3}
  NoThread = NoThread
  OwnerReenters = TRUE
  Kinds = {"MUTEX_TYPE_FAST"}
  MaxDepth = 1
  DestroyInUse = FALSE
  MaxPosts = 3
  Timed = FALSE
  Destroys = FALSE
  MaxOnwait = 4
INVARIANTS
  GateTypeOK
  BroadcastWakesAll
  WaitersCounted
PROPERTIES
  WaitReturnsHolding
  EverybodyPasses
CHECK_DEADLOCK FALSE
