CONSTANTS
  ByteBits = 2
  GPR <- MCGPR
  PageSize = 4
  NumPhysPages = 2
  Results = {5}
  Repertoires = {"arithmetic", "memory"}
  Starts <- MCStarts
  Programs <- MCPrograms
  Steps <- MCSteps
SPECIFICATION ProcessorSpec
CHECK_DEADLOCK FALSE
INVARIANTS InterruptsUnseen TrapsPrecise PairsWhole ArithmeticCorrect
