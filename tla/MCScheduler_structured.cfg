SPECIFICATION Spec
CONSTANTS
  t1 = t1
  t2 = t2
  t3 = t3
  w1 = w1
  w2 = w2
  h1 = h1
  None = None
  Tasks <- ThreeTasks
  Workers <- TwoWorkers
  Hosts = {}
  Policies <- AllPolicies
  Resumable <- Never
  Features <- Structured
  MaxGen = 0
SYMMETRY TaskSymmetry
INVARIANTS
  ChildrenEndFirst
  ChildFailureReachesParent
  FamiliesInStep
PROPERTIES
  ImplementsLifecycle
