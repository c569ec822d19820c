SPECIFICATION FairSpec
CONSTANTS
  a = a
  b = b
  t1 = t1
  t2 = t2
  t3 = t3
  Thread = {t1, t2, t3}
  Item = {a, b}
  NoItem = NoItem
  NoThread = NoThread
  MaxCalls = 6
INVARIANT MonitorSound
INVARIANT NoLostSignal
PROPERTY ListProgress
CHECK_DEADLOCK FALSE
