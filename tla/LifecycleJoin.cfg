\* Threads that create, join, detach, suspend and resume each other.
SPECIFICATION LifeFairSpec
CONSTANTS
  main = main
  t1 = t1
  t2 = t2
  Threads = {main, t1, t2}
  NoThread = NoThread
  Main = main
  FreshStates = {"PS_DEAD"}
  FreshDetached = {FALSE}
  Creators = {main}
  Controllers = {t1}
INVARIANTS
  
  OnOneList
  

  
  
CHECK_DEADLOCK FALSE
