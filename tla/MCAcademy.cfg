SPECIFICATION Spec
CONSTANTS
  Keys = {k1, k2}
  Learners = {l1}
  c1 = c1
  Courses = {c1}
  Achievements = {t1}
  Assets = {a1, a2}
  NoKey = NoKey
  NoAsset = NoAsset
  track = track
  Tracks = {track}
  Stats = {0, 1}
  LessonIndexes = {0, 1}
  CourseParams <- MCCourseParams
  UpdateParams <- MCUpdateParams
  AchievementParams <- MCAchievementParams
  Amounts = {1}
  Caps = {0}
  U16Max = 1
  U32Max = 2
  U64Max = 5
  UnenrollCooldown = 0
  MaxTime = 1
SYMMETRY Symmetry
CHECK_DEADLOCK FALSE
INVARIANTS
  TypeOK
  XpAccounted
PROPERTY KeepsTranscript
