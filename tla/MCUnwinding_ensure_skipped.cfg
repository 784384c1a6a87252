SPECIFICATION Spec
CONSTANTS
  Deep = 2
  Busy = 0
  Programs <- ThrowsThrough
INVARIANTS
  EnsuresRun
