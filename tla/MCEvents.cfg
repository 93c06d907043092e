SPECIFICATION PipelineSpec
CONSTANTS
  t1 = t1
  t2 = t2
  r1 = r1
  Txs = {t1, t2}
  MaxSubs = 2
  MaxHashCache = 1
  Milestones = {1, 2}
  Refreshes = {r1}
  Instances <- MCInstances
CHECK_DEADLOCK FALSE
INVARIANTS
  PipelineTypeOK
  DuplicatesExplained
  RecoveryReachesLost
  CacheFollowsActivity
  EffectsAreLogged
 
