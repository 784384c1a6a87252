SPECIFICATION Spec
CONSTANTS
  Deep = 4
  Busy = 1
  Programs <- ManyPrograms
INVARIANTS
  TypeOK
  
  ScopesMatchFrames
