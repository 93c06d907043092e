SPECIFICATION QueueSpec
CONSTANTS
  Jobs = {j1, j2}
  Loops = {w1, w2}
  NoJob = NoJob
  DefaultAttempts = 2
  MaxDeadLetter = 1
  MaxFaults = 2
  MaxLoad = 4
CHECK_DEADLOCK FALSE
INVARIANTS
  QueueTypeOK
  JobsConserved
  WorkIsDoneOnce
  ProcessingMeansALoop
  OneLoopInMemory
PROPERTY JobsSettle
