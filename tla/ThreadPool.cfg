CONSTANTS
  t1 = t1  t2 = t2
  w1 = w1  w2 = w2
  s1 = s1  s2 = s2
  Tasks <- MCTasks
  Workers <- MCWorkers
  Stoppers <- MCStoppers
  Capacity = 1
  NoTask = NoTask
SPECIFICATION FairSpec
INVARIANTS
  QuietAfterStop
PROPERTIES
  StopReturns
  AcceptedIsServed
  ImplementsContract
