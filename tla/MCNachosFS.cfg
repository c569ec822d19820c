SPECIFICATION Spec
CONSTANTS
  p1 = p1
  p2 = p2
  a = a
  b = b
  NoProc = NoProc
  NoEntry = NoEntry
  NoFile = NoFile
  NoDatum = NoDatum
  Proc = {p1, p2}
  Name = {a, b}
  NumSectors = 9
  NumDirEntries = 2
  MaxCreates = 2
  Sizes = {1, 2}
  SectorSize = 2
  MaxWrites = 2
  d1 = d1
  Datum = {d1}
SYMMETRY Sym
CHECK_DEADLOCK FALSE
INVARIANTS DiskConsistent DataKept RequestsSound
