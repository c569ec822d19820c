SPECIFICATION FairSpec
CONSTANTS
  MaxProcess = 4
  ExitCodes = {7}
  Disciplined = TRUE
  LoadMayFail = FALSE
  MaxExec = 4
  MaxWait = 1
INVARIANT LiveReferences
INVARIANT AllReleasedAtHalt
PROPERTY SlotHeldUntilJoined
PROPERTY Terminates
