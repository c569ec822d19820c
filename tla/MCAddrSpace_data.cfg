SPECIFICATION Spec
CONSTANTS
  a = a
  b = b
  c = c
  None = None
  Proc = {a}
  NumPhysPages = 8
  PageSize = 3
  StackSize = 2
  Programs <- Shapes
  MaxStore = 1
INVARIANT DataLoaded
