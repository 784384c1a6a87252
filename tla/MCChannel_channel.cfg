SPECIFICATION FairSpec
CONSTANTS
  p1 = p1
  p2 = p2
  p3 = p3
  s1 = s1
  None = None
  Procs <- ThreeProcs
  Cancellable <- OnlyP1
  Slots <- OneSlot
  Settings <- SlotsOrThree
  MaxSends = 3
  MaxResets = 1
INVARIANTS
  TypeOK
  AnswersTrue
  SlotsOwned
PROPERTIES
  ImplementsFifo
  WaitersServed
CHECK_DEADLOCK FALSE
