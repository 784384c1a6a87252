SPECIFICATION FairSpec
CONSTANTS
  t1 = t1
  t2 = t2
  t3 = t3
  w1 = w1
  w2 = w2
  h1 = h1
  None = None
  Tasks <- TwoTasks
  Workers <- TwoWorkers
  Hosts = {}
  Policies <- CancelScopeOnly
  Resumable <- Never
  Features <- Progress
  MaxGen = 1
PROPERTIES
  RunnableIsDispatched
  SleepersWake
