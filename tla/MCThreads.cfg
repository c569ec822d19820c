CONSTANTS
  t1 = t1
  t2 = t2
  t3 = t3
  mutex = mutex
  device = device
  Thread = {t1, t2, t3}
  Main = t1
  Sem = {mutex, device}
  DeviceSem = {device}
  InitialValue <- MCInitialValue
  MaxValue = 2
  NoThread = NoThread
  NoSem = NoSem
SPECIFICATION FairSpec
INVARIANTS
  Consistent
  NoLostWakeup
PROPERTIES
  ReadyRuns
  SemaphoreProgress
