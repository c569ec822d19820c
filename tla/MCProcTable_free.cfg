SPECIFICATION Spec
CONSTANTS
  MaxProcess = 3
  ExitCodes = {7}
  Disciplined = FALSE
  LoadMayFail = TRUE
  MaxExec = 5
  MaxWait = 1
INVARIANT TableConsistent
INVARIANT ExitCodeReady
CHECK_DEADLOCK FALSE
