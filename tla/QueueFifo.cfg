\* Four threads on two queues and a plain list.
SPECIFICATION QueueSpec
CONSTANTS
  t1 = t1
  t2 = t2
  t3 = t3
  t4 = t4
  Threads = {t1, t2, t3, t4}
  NoThread = NoThread
  q1 = q1
  q2 = q2
  l1 = l1
  Queues = {q1, q2}
  PlainLists = {l1}
  NoQueue = NoQueue
INVARIANTS
  QueueTypeOK
  WellLinked
PROPERTY
  ImplementsFifo
