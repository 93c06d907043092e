SPECIFICATION MCSpec
CONSTANTS
  Keys = {k1}
  Learners = {l1}
  c1 = c1
  c2 = c2
  Courses = {c1, c2}
  Achievements = {}
  Assets = {a1, a2}
  NoKey = NoKey
  NoAsset = NoAsset
  track = track
  Tracks = {track}
  Stats = {0}
  LessonIndexes = {0, 1, 2}
  CourseParams <- MCCourseParams
  UpdateParams <- MCUpdateParams
  AchievementParams = {}
  Amounts = {}
  Caps = {}
  U16Max = 2
  U32Max = 2
  U64Max = 40
  UnenrollCooldown = 0
  MaxTime = 1
CHECK_DEADLOCK FALSE
INVARIANT OneCredentialPerTrack
