SPECIFICATION Spec
CONSTANTS
  a = a
  b = b
  c = c
  None = None
  Proc = {a, b}
  NumPhysPages = 6
  PageSize = 3
  StackSize = 2
  Programs <- Shapes
  MaxStore = 1
SYMMETRY Sym
INVARIANT MemoryOwned
INVARIANT ImageLoaded
