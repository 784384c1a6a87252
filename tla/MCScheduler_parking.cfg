SPECIFICATION Spec
CONSTANTS
  t1 = t1
  t2 = t2
  t3 = t3
  w1 = w1
  w2 = w2
  h1 = h1
  None = None
  Tasks <- TwoTasks
  Workers <- OneWorker
  Hosts = {}
  Policies <- CancelScopeOnly
  Resumable <- Always
  Features <- Parking
  MaxGen = 2
SYMMETRY TaskSymmetry
INVARIANTS
  TypeOK
  WakesInStep
PROPERTIES
  DeadlinesKept
  ParkedProgramsUnwind
