\* Three threads, two of which use two keys.
SPECIFICATION KeyOnceSpec
CONSTANTS
  t1 = t1
  t2 = t2
  t3 = t3
  Threads = {t1, t2, t3}
  NoThread = NoThread
  OwnerReenters = TRUE
  Kinds = {"MUTEX_TYPE_FAST"}
  MaxDepth = 1
  DestroyInUse = FALSE
  StaticInit = FALSE
  KeysMax = 2
  Iterations = 2
  Destroyed = {0}
  Pushers = {t1}
  MaxPush = 2
  NewKeys = 2
  Users = {t1, t2}
INVARIANTS
  
  RunsOnce
  ReturnsInitialised
  
  
  DestructorsRun
  HandlersFirst
PROPERTIES
  OnceReturns
  ExitEnds
CHECK_DEADLOCK FALSE
