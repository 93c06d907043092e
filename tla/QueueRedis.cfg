SPECIFICATION QueueSpec
CONSTANTS
  Jobs = {j1, j2}
  Loops = {w1, w2}
  NoJob = NoJob
  DefaultAttempts = 1
  MaxDeadLetter = 1
  MaxFaults = 0
  MaxLoad = 2
CHECK_DEADLOCK FALSE
PROPERTY JobsGetTaken
