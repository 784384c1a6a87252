SPECIFICATION Spec
CONSTANTS
  v1 = v1
  v2 = v2
  h1 = h1
  w0 = w0
  w1 = w1
  o1 = o1
  o2 = o2
  o3 = o3
  None = None
  Programs <- OneProgram
  Natives <- OneNative
  Workers <- TwoWorkers
  NativeId = w0
  Objects <- ThreeObjects
  Scopes <- HeapScopes
SYMMETRY ObjectSymmetry
INVARIANTS
  TypeOK
  EdgesRemembered
  LiveCountsExact

  
CHECK_DEADLOCK FALSE
