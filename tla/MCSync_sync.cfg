SPECIFICATION FairSpec
CONSTANTS
  p1 = p1
  p2 = p2
  p3 = p3
  None = None
  Procs <- ThreeProcs
  Cancellable <- OnlyP1
  Timeouts <- TimeoutNames
  MaxSections = 1
  PartiesChoices <- TwoOrThree
  MaxGenerations = 2
  MaxValue = 2
  ObjectSets <- Shared
  FlowPlans <- Plans
INVARIANTS
  TypeOK
  ArrivalsCounted
  OneResult
  NoUpdateLost
  FlowAnswersTrue
PROPERTIES
  MutexServesInTurn
  FlowEnds
CHECK_DEADLOCK FALSE
