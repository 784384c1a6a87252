SPECIFICATION FairSpec
CONSTANTS
  s1 = s1
  h1 = h1
  f1 = f1
  q1 = q1
  q2 = q2
  None = None
  Strands <- OneStrand
  Threads <- OneThread
  Cancellable <- OneStrand
  Fds <- OneFd
  Waits <- TwoWaits
  FeatureSets <- EachWithIts
INVARIANTS
  TypeOK
  SleepersAreWatched
  NoStrayCompletion
PROPERTIES
  WaitsEnd
CHECK_DEADLOCK FALSE
