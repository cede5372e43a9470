\* Thread 1 and another.  Signal 2 ends the process by default, and signal 3
\* always.
SPECIFICATION SelSpec
CONSTANTS
  t1 = t1
  t2 = t2
  Threads = {t1, t2}
  Main = t1
  Selecter = t2
  NoThread = NoThread
  Sigs = {1, 2, 3}
  Fatal = {2, 3}
  AlwaysFatal = {3}
  SaMask = {2}
  Installed <- MCInstalled
  NewModes = {"IGN", "DFL", "SYSV"}
  Masks = {{}, {1}}
  MainCalls = 1
  OtherCalls = 2
INVARIANTS
  SelTypeOK
  NoReentry
  MaskRestored
  SelectSafe
PROPERTIES
  WaitsEnd
CHECK_DEADLOCK FALSE
