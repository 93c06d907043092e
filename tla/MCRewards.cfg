SPECIFICATION MCSpec
CONSTANTS
  Keys = {k1, k2}
  Learners = {l1, l2}
  Courses = {}
  Achievements = {t1, t2}
  Assets = {a1, a2, a3}
  NoKey = NoKey
  NoAsset = NoAsset
  Tracks = {}
  Stats = {}
  LessonIndexes = {}
  CourseParams <- NoCourses
  UpdateParams = {}
  AchievementParams <- MCAchievementParams
  Amounts = {0, 1, 2}
  Caps = {0, 1}
  U16Max = 1
  U32Max = 2
  U64Max = 4
  UnenrollCooldown = 0
  MaxTime = 0
SYMMETRY Symmetry
CHECK_DEADLOCK FALSE
INVARIANTS
  SupplyCountsReceipts
  ReceiptsMatchNfts
PROPERTY RetirementIsFinal
