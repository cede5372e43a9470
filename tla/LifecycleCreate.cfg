\* Join while the new thread is not on the list of threads yet.
SPECIFICATION LifeSpec
CONSTANTS
  main = main
  t1 = t1
  t2 = t2
  Threads = {main, t1, t2}
  NoThread = NoThread
  Main = main
  FreshStates = {"PS_DEAD"}
  FreshDetached = {FALSE}
  Creators = {main}
  Controllers = {t1}
PROPERTY
  CreatedCanBeJoined
CHECK_DEADLOCK FALSE
