CONSTANTS
  m = m
  c = c
  d = d
  f = f
  Procs = {m, c, d, f}
  Callers = {m, c, d}
  Main = m
  Children <- MCChildren
  Free = {f}
  Names <- MCNames
  Output = "output"
  SemNames = {"ping", "pong", "print", "tape"}
  MaxSemaphore = 4
  Bytes = {1, 2, 3}
  NFile = 3
  Buffers <- MCBuffers
  Counts = {2}
  HostMax = 3
  MaxLength = 3
  Turns = 2
  Records = 1
  MaxFreeCalls = 3
SPECIFICATION ProgramsSpec
CHECK_DEADLOCK FALSE
INVARIANTS FilesSound AppendsKept ReaderSeesLog TurnsTaken
PROPERTIES FailureChangesNothing ProgramsEnd
