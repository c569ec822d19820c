SPECIFICATION DiskSpec
CONSTANTS
  t1 = t1
  t2 = t2
  timer = timer
  keyboard = keyboard
  disk = disk
  Thread = {t1, t2}
  First = t1
  Device = {timer, keyboard, disk}
  Timer = timer
  Polling = {keyboard}
  Delay <- MCDelay
  UserTick = 1
  SystemTick = 2
  MaxTicks = 7
  MaxDepth = 2
  Disk = disk
  NumSectors = 4
  SectorsPerTrack = 3
  RotationTime = 2
  SeekTime = 1
CHECK_DEADLOCK FALSE
INVARIANTS TimeConsistent SectorPassed
PROPERTIES FiredInOrder
