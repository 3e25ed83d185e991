SPECIFICATION Spec
CONSTANTS
  InitShape <- MCInitShape
  MaxShape <- MCMaxShape
  Axis = 1
  MaxOps = 3
  MaxAttempts = 2
  Zeros = Zeros
  None = None
  Error = Error
INVARIANTS
  FileShapeBacked
  
PROPERTIES
  NeverStranded
