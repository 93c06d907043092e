--------------------------- MODULE CourseProofs -----------------------------
(***************************************************************************)
(* Type correctness of the on-chain program, and what holds of enrollments, *)
(* for every value of the constants: a finished enrollment has every        *)
(* lesson, a prerequisite was earned, counters cover the live accounts and  *)
(* are inflated no faster than the cooldown allows, creators are paid right.*)
(***************************************************************************)
EXTENDS Academy, Counting, FiniteSetTheorems, TLAPS

(* Types: the strengthening every other proof of Academy builds on. *)

(* An Option argument replaces a field by a value of the same type. *)
LEMMA OrElseType ==
  ASSUME NEW S, NEW opt \in SUBSET S, NEW default \in S
  PROVE  OrElse(opt, default) \in S
BY DEF OrElse

LEMMA NewCourseType ==
  ASSUME NEW p \in CourseParamType
  PROVE  NewCourse(p) \in CourseType
<1>1. 1 \in 0..U16Max /\ 0 \in 0..U32Max
  BY ConstantsAssumption
<1> QED
  BY <1>1 DEF CourseParamType, NewCourse, CourseType

LEMMA UpdatedType ==
  ASSUME NEW course \in CourseType, NEW u \in UpdateParamType,
         u.content => course.version < U16Max
  PROVE  Updated(course, u) \in CourseType
<1>1. /\ OrElse(u.active, course.active) \in BOOLEAN
      /\ OrElse(u.xpPerLesson, course.xpPerLesson) \in 0..U32Max
      /\ OrElse(u.creatorRewardXp, course.creatorRewardXp) \in 0..U32Max
      /\ OrElse(u.minCompletions, course.minCompletions) \in Nat
  BY OrElseType DEF CourseType, UpdateParamType
<1>2. (IF u.content THEN course.version + 1 ELSE course.version) \in 0..U16Max
  BY ConstantsAssumption DEF CourseType, UpdateParamType
<1> QED
  BY <1>1, <1>2 DEF Updated, CourseType

(* What finalize_course mints is a natural number. *)
LEMMA MintedType ==
  ASSUME NEW course \in CourseType
  PROVE  CompletionBonus(course) \in Nat /\ CreatorReward(course) \in Nat
<1>1. course.xpPerLesson \in Nat /\ course.lessonCount \in Nat /\ course.creatorRewardXp \in Nat
  BY ConstantsAssumption DEF CourseType
<1>2. course.xpPerLesson * course.lessonCount \in Nat
  BY <1>1
<1>3. (course.xpPerLesson * course.lessonCount) \div 2 \in Nat
  BY <1>2
<1> QED
  BY <1>1, <1>3 DEF CompletionBonus, CreatorReward

(* The mint's supply stays a u64: mint_to fails rather than wrap. *)
LEMMA MintXpType ==
  ASSUME TypeOK, NEW amount \in Nat, MintXp(amount)
  PROVE  xpSupply' \in 0..U64Max
BY ConstantsAssumption DEF TypeOK, MintXp, CanMint

LEMMA InitType == Init => TypeOK
BY ConstantsAssumption
   DEF Init, TypeOK, NoConfig, ConfigType, NoCourse, CourseType, NoEnrollment,
       EnrollmentType, NoMinter, MinterType, NoAchievement, AchievementType, NoNft, NftType

(* The accounts an instruction reads are well formed. *)
LEMMA AccountTypes ==
  ASSUME TypeOK
  PROVE  /\ \A c \in Courses : courses[c] \in CourseType
         /\ \A l \in Learners, c \in Courses : enrollments[l][c] \in EnrollmentType
         /\ \A m \in Keys : minters[m] \in MinterType
         /\ \A t \in Achievements : achievements[t] \in AchievementType
         /\ \A a \in Assets : nfts[a] \in NftType
BY DEF TypeOK

(* A u32 counter below its largest value stays a u32 when it is incremented. *)
LEMMA Incremented == \A n \in 0..U32Max : n < U32Max => n + 1 \in 0..U32Max
BY ConstantsAssumption

LEMMA CourseStepType == TypeOK /\ CourseNext => TypeOK'
<1> SUFFICES ASSUME TypeOK, CourseNext
             PROVE  TypeOK'
  OBVIOUS
<1>0. /\ \A c \in Courses : courses[c] \in CourseType
      /\ \A l \in Learners, c \in Courses : enrollments[l][c] \in EnrollmentType
      /\ \A a \in Assets : nfts[a] \in NftType
  BY AccountTypes
<1>1. ASSUME NEW k \in Keys, NEW c \in Courses, NEW p \in CourseParams[c], CreateCourse(k, c, p)
      PROVE  TypeOK'
  <2>1. NewCourse(p) \in CourseType
    BY NewCourseType, ConstantsAssumption
  <2> QED
    BY <1>1, <2>1 DEF TypeOK, CreateCourse, PutCourse, rewardVars, historyVars
<1>2. ASSUME NEW k \in Keys, NEW c \in Courses, NEW u \in UpdateParams, UpdateCourse(k, c, u)
      PROVE  TypeOK'
  <2>1. Updated(courses[c], u) \in CourseType
    BY <1>2, UpdatedType, ConstantsAssumption DEF TypeOK, UpdateCourse
  <2> QED
    BY <1>2, <2>1 DEF TypeOK, UpdateCourse, PutCourse, rewardVars, historyVars
<1>3. ASSUME NEW l \in Learners, NEW c \in Courses, Enroll(l, c)
      PROVE  TypeOK'
  <2>1. NewEnrollment \in EnrollmentType
    BY DEF TypeOK, NewEnrollment, EnrollmentType
  <2>2. [courses[c] EXCEPT !.enrolled = @ + 1] \in CourseType
    BY <1>0, <1>3, Incremented DEF Enroll, CourseType
  <2> QED
    BY <1>3, <2>1, <2>2 DEF TypeOK, Enroll, Put, PutCourse, rewardVars, historyVars
<1>4. ASSUME NEW l \in Learners, NEW c \in Courses, CloseEnrollment(l, c)
      PROVE  TypeOK'
  <2>1. NoEnrollment \in EnrollmentType
    BY DEF NoEnrollment, EnrollmentType
  <2> QED
    BY <1>4, <2>1 DEF TypeOK, CloseEnrollment, Put, rewardVars, historyVars
<1>5. ASSUME NEW k \in Keys, NEW l \in Learners, NEW c \in Courses, NEW i \in LessonIndexes,
             CompleteLesson(k, l, c, i)
      PROVE  TypeOK'
  <2>1. [enrollments[l][c] EXCEPT !.flags = @ \cup {i}] \in EnrollmentType
    BY <1>0, ConstantsAssumption DEF EnrollmentType
  <2>2. courses[c].xpPerLesson \in Nat
    BY ConstantsAssumption DEF TypeOK, CourseType
  <2>3. xpSupply' \in 0..U64Max
    BY <1>5, <2>2, MintXpType DEF CompleteLesson
  <2> QED
    BY <1>5, <2>1, <2>2, <2>3 DEF TypeOK, CompleteLesson, Put, rewardVars
<1>6. ASSUME NEW k \in Keys, NEW l \in Learners, NEW c \in Courses, FinalizeCourse(k, l, c)
      PROVE  TypeOK'
  <2> DEFINE reward == CreatorReward(courses[c])
             minted == CompletionBonus(courses[c]) + reward
  <2>1. reward \in Nat /\ minted \in Nat
    BY MintedType DEF TypeOK
  <2>2. Finalized(enrollments[l][c]) \in EnrollmentType
    BY <1>0 DEF EnrollmentType, Finalized
  <2>3. [courses[c] EXCEPT !.completions = @ + 1] \in CourseType
    BY <1>0, <1>6, Incremented DEF CourseType, FinalizeCourse
  <2>4. xpSupply' \in 0..U64Max
    BY <1>6, <2>1, MintXpType DEF FinalizeCourse
  <2>5. enrollments' \in [Learners -> [Courses -> EnrollmentType]]
    BY <1>6, <2>2 DEF TypeOK, FinalizeCourse, Put
  <2>6. courses' \in [Courses -> CourseType]
    BY <1>6, <2>3 DEF TypeOK, FinalizeCourse, PutCourse
  <2>7. /\ courseXp' \in Nat
        /\ creatorXp' \in [Courses -> Nat]
        /\ finalisers' \in [Courses -> SUBSET Learners]
    BY <1>6, <2>1 DEF TypeOK, FinalizeCourse
  <2> QED
    BY <1>6, <2>4, <2>5, <2>6, <2>7 DEF TypeOK, FinalizeCourse, rewardVars
<1>7. ASSUME NEW k \in Keys, NEW l \in Learners, NEW c \in Courses, NEW a \in Assets,
             NEW s \in Stats, IssueCredential(k, l, c, a, s)
      PROVE  TypeOK'
  <2>1. [enrollments[l][c] EXCEPT !.asset = a] \in EnrollmentType
    BY <1>0 DEF EnrollmentType
  <2>2. nfts' \in [Assets -> NftType]
    BY <1>7 DEF TypeOK, IssueCredential, CreateNft, NftType, CourseType
  <2> QED
    BY <1>7, <2>1, <2>2 DEF TypeOK, IssueCredential, Put, rewardVars, historyVars
<1>8. ASSUME NEW k \in Keys, NEW l \in Learners, NEW c \in Courses, NEW a \in Assets,
             NEW s \in Stats, UpgradeCredential(k, l, c, a, s)
      PROVE  TypeOK'
  <2>1. [nfts[a] EXCEPT !.stats = {s}] \in NftType
    BY <1>0 DEF NftType
  <2>2. nfts' \in [Assets -> NftType]
    BY <1>8, <2>1 DEF TypeOK, UpgradeCredential
  <2> QED
    BY <1>8, <2>2 DEF TypeOK, UpgradeCredential, courseVars, rewardVars, historyVars
<1> QED
  BY <1>1, <1>2, <1>3, <1>4, <1>5, <1>6, <1>7, <1>8 DEF CourseNext

LEMMA RewardStepType == TypeOK /\ RewardNext => TypeOK'
<1> SUFFICES ASSUME TypeOK, RewardNext
             PROVE  TypeOK'
  OBVIOUS
<1>0. \A cap \in 0..U64Max : NewMinter(cap) \in MinterType
  BY ConstantsAssumption DEF NewMinter, MinterType
<1>1. ASSUME NEW k \in Keys, Initialize(k)
      PROVE  TypeOK'
  <2>1. NewMinter(0) \in MinterType
    BY <1>0, ConstantsAssumption
  <2> QED
    BY <1>1, <2>1 DEF TypeOK, Initialize, PutMinter, ConfigType, courseVars, historyVars
<1>2. ASSUME NEW k \in Keys, NEW s \in Keys, NEW old \in Option(Keys), UpdateConfig(k, s, old)
      PROVE  TypeOK'
  <2>1. config' \in ConfigType
    BY <1>2 DEF TypeOK, UpdateConfig, ConfigType
  <2>2. minters' \in [Keys -> MinterType]
    <3>1. \A m \in Keys : minters[m] \in MinterType
      BY DEF TypeOK
    <3>2. \A m \in Keys : Retired(minters[m]) \in MinterType
      BY <3>1 DEF MinterType, Retired
    <3>3. minters' = [m \in Keys |-> IF m \in old THEN Retired(minters[m]) ELSE minters[m]]
      BY <1>2 DEF UpdateConfig
    <3> QED
      BY <3>1, <3>2, <3>3
  <2> QED
    BY <1>2, <2>1, <2>2 DEF TypeOK, UpdateConfig, courseVars, historyVars
<1>3. ASSUME NEW k \in Keys, NEW m \in Keys, NEW cap \in Caps, RegisterMinter(k, m, cap)
      PROVE  TypeOK'
  <2>1. NewMinter(cap) \in MinterType
    BY <1>0, ConstantsAssumption
  <2> QED
    BY <1>3, <2>1 DEF TypeOK, RegisterMinter, PutMinter, courseVars, historyVars
<1>4. ASSUME NEW k \in Keys, NEW m \in Keys, RevokeMinter(k, m)
      PROVE  TypeOK'
  <2>1. NoMinter \in MinterType
    BY ConstantsAssumption DEF NoMinter, MinterType
  <2>2. revokedXp' \in Nat
    BY <1>4, ConstantsAssumption DEF TypeOK, RevokeMinter, MinterType
  <2> QED
    BY <1>4, <2>1, <2>2 DEF TypeOK, RevokeMinter, PutMinter, courseVars
<1>5. ASSUME NEW m \in Keys, NEW amount \in Nat, CanAdd(minters[m], amount)
      PROVE  Credited(minters[m], amount) \in MinterType
  BY <1>5, ConstantsAssumption, SMTT(40) DEF TypeOK, CanAdd, Credited, MinterType
<1>6. ASSUME NEW m \in Keys, NEW amount \in Amounts, RewardXp(m, amount)
      PROVE  TypeOK'
  <2>1. amount \in Nat
    BY ConstantsAssumption
  <2>2. xpSupply' \in 0..U64Max
    BY <1>6, <2>1, MintXpType DEF RewardXp
  <2>3. Credited(minters[m], amount) \in MinterType
    BY <1>5, <1>6, <2>1 DEF RewardXp
  <2> QED
    BY <1>6, <2>2, <2>3 DEF TypeOK, RewardXp, PutMinter, courseVars, historyVars
<1>7. ASSUME NEW k \in Keys, NEW t \in Achievements, NEW p \in AchievementParams,
             CreateAchievementType(k, t, p)
      PROVE  TypeOK'
  <2>1. achievements' \in [Achievements -> AchievementType]
    BY <1>7, ConstantsAssumption
       DEF TypeOK, CreateAchievementType, PutAchievement, AchievementType, AchievementParamType
  <2> QED
    BY <1>7, <2>1 DEF TypeOK, CreateAchievementType, courseVars, historyVars
<1>8. ASSUME NEW k \in Keys, NEW t \in Achievements, DeactivateAchievementType(k, t)
      PROVE  TypeOK'
  <2>1. achievements' \in [Achievements -> AchievementType]
    BY <1>8 DEF TypeOK, DeactivateAchievementType, PutAchievement, AchievementType
  <2> QED
    BY <1>8, <2>1 DEF TypeOK, DeactivateAchievementType, courseVars, historyVars
<1>9. ASSUME NEW m \in Keys, NEW t \in Achievements, NEW l \in Learners, NEW a \in Assets,
             AwardAchievement(m, t, l, a)
      PROVE  TypeOK'
  <2>1. achievements[t].xpReward \in Nat
    BY ConstantsAssumption DEF TypeOK, AchievementType
  <2>2. xpSupply' \in 0..U64Max
    BY <1>9, <2>1, MintXpType DEF AwardAchievement
  <2>3. Credited(minters[m], achievements[t].xpReward) \in MinterType
    BY <1>5, <1>9, <2>1 DEF AwardAchievement
  <2>4. [achievements[t] EXCEPT !.supply = @ + 1] \in AchievementType
    <3>1. achievements[t] \in AchievementType
      BY AccountTypes
    <3> QED
      BY <1>9, <3>1, Incremented DEF AwardAchievement, AchievementType
  <2>5. nfts' \in [Assets -> NftType]
    BY <1>9 DEF TypeOK, AwardAchievement, CreateNft, NftType
  <2>6. receipts' \in [Achievements -> [Learners -> Assets \cup {NoAsset}]]
    BY <1>9 DEF TypeOK, AwardAchievement
  <2> QED
    BY <1>9, <2>2, <2>3, <2>4, <2>5, <2>6
       DEF TypeOK, AwardAchievement, PutMinter, PutAchievement, courseVars, historyVars
<1> QED
  BY <1>1, <1>2, <1>3, <1>4, <1>6, <1>7, <1>8, <1>9 DEF RewardNext

LEMMA NextType == TypeOK /\ [Next]_vars => TypeOK'
<1>1. TypeOK /\ Tick => TypeOK'
  BY DEF TypeOK, Tick, courseVars, rewardVars, historyVars
<1>2. TypeOK /\ UNCHANGED vars => TypeOK'
  BY DEF TypeOK, vars, courseVars, rewardVars, historyVars
<1> QED
  BY <1>1, <1>2, CourseStepType, RewardStepType DEF Next

(* Every account keeps a value of its Rust type: no counter, total or       *)
(* supply wraps and every Option field stays well formed, whatever sequence *)
(* of instructions is executed.                                             *)
THEOREM TypeCorrect == Spec => []TypeOK
BY InitType, NextType, PTL DEF Spec

-----------------------------------------------------------------------------
(* Enrollments. *)

(* The strengthening.  A course keeps at least one lesson, an enrollment is *)
(* an account of an existing course, and a missing one is all zeroes.       *)
WellFormed ==
  /\ \A c \in Courses : courses[c].live => courses[c].lessonCount > 0
  /\ \A l \in Learners, c \in Courses : enrollments[l][c].live => courses[c].live
  /\ \A l \in Learners, c \in Courses :
       ~enrollments[l][c].live => enrollments[l][c] = NoEnrollment

CourseInv == TypeOK /\ WellFormed /\ FinishedMeansEveryLesson

(* What no instruction changes about an existing course. *)
Fixed(course) == <<course.live, course.lessonCount, course.prerequisite, course.track>>

-----------------------------------------------------------------------------
(* Only course instructions touch courses and enrollments. *)
LEMMA OthersLeaveCourses ==
  Tick \/ RewardNext \/ UNCHANGED vars =>
    UNCHANGED <<courses, enrollments, courseXp, creatorXp, finalisers>>
BY DEF Tick, RewardNext, Initialize, UpdateConfig, RegisterMinter, RevokeMinter, RewardXp,
       CreateAchievementType, DeactivateAchievementType, AwardAchievement,
       vars, courseVars, historyVars

(* Once created, a course exists for ever with the same lessons,            *)
(* prerequisite and track.                                                  *)
LEMMA CoursesStayFixed ==
  ASSUME TypeOK, [Next]_vars, NEW c \in Courses, courses[c].live
  PROVE  Fixed(courses'[c]) = Fixed(courses[c])
<1>0. courses[c] \in CourseType /\ courses \in [Courses -> CourseType]
  BY AccountTypes DEF TypeOK
<1>1. ASSUME NEW k \in Keys, NEW d \in Courses, NEW p \in CourseParams[d], CreateCourse(k, d, p)
      PROVE  courses'[c] = courses[c]
  BY <1>0, <1>1 DEF CreateCourse, PutCourse
<1>2. ASSUME NEW k \in Keys, NEW d \in Courses, NEW u \in UpdateParams, UpdateCourse(k, d, u)
      PROVE  Fixed(courses'[c]) = Fixed(courses[c])
  <2>1. Fixed(Updated(courses[c], u)) = Fixed(courses[c])
    BY <1>0 DEF Updated, Fixed, CourseType
  <2> QED
    BY <1>0, <1>2, <2>1 DEF UpdateCourse, PutCourse
<1>3. ASSUME NEW l \in Learners, NEW d \in Courses, Enroll(l, d)
      PROVE  Fixed(courses'[c]) = Fixed(courses[c])
  BY <1>0, <1>3 DEF Enroll, PutCourse, Fixed, CourseType
<1>4. ASSUME NEW k \in Keys, NEW l \in Learners, NEW d \in Courses, FinalizeCourse(k, l, d)
      PROVE  Fixed(courses'[c]) = Fixed(courses[c])
  BY <1>0, <1>4 DEF FinalizeCourse, PutCourse, Fixed, CourseType
<1>5. ASSUME NEW l \in Learners, NEW d \in Courses, CloseEnrollment(l, d)
      PROVE  courses' = courses
  BY <1>5 DEF CloseEnrollment
<1>6. ASSUME NEW k \in Keys, NEW l \in Learners, NEW d \in Courses, NEW i \in LessonIndexes,
             CompleteLesson(k, l, d, i)
      PROVE  courses' = courses
  BY <1>6 DEF CompleteLesson
<1>7. ASSUME NEW k \in Keys, NEW l \in Learners, NEW d \in Courses, NEW a \in Assets,
             NEW s \in Stats, IssueCredential(k, l, d, a, s) \/ UpgradeCredential(k, l, d, a, s)
      PROVE  courses' = courses
  BY <1>7 DEF IssueCredential, UpgradeCredential, courseVars
<1> QED
  BY <1>1, <1>2, <1>3, <1>4, <1>5, <1>6, <1>7, OthersLeaveCourses DEF Next, CourseNext

LEMMA OnlyCreateCourseCreates ==
  ASSUME TypeOK, WellFormed, [Next]_vars, NEW c \in Courses, ~courses[c].live, courses'[c].live
  PROVE  \E k \in Keys : \E p \in CourseParams[c] : CreateCourse(k, c, p)
<1>0. courses \in [Courses -> CourseType]
  BY DEF TypeOK
<1>1. ASSUME NEW k \in Keys, NEW d \in Courses, NEW p \in CourseParams[d], CreateCourse(k, d, p)
      PROVE  d = c
  BY <1>0, <1>1 DEF CreateCourse, PutCourse
<1>2. ASSUME NEW k \in Keys, NEW d \in Courses, NEW u \in UpdateParams, UpdateCourse(k, d, u)
      PROVE  FALSE
  BY <1>0, <1>2 DEF UpdateCourse, PutCourse
<1>3. ASSUME NEW l \in Learners, NEW d \in Courses, Enroll(l, d)
      PROVE  FALSE
  BY <1>0, <1>3 DEF Enroll, PutCourse
<1>4. ASSUME NEW k \in Keys, NEW l \in Learners, NEW d \in Courses, FinalizeCourse(k, l, d)
      PROVE  FALSE
  BY <1>0, <1>4 DEF FinalizeCourse, PutCourse, WellFormed
<1>5. \A l \in Learners, d \in Courses : ~CloseEnrollment(l, d)
  BY DEF CloseEnrollment
<1>6. \A k \in Keys, l \in Learners, d \in Courses, i \in LessonIndexes : ~CompleteLesson(k, l, d, i)
  BY DEF CompleteLesson
<1>7. \A k \in Keys, l \in Learners, d \in Courses, a \in Assets, s \in Stats :
        ~IssueCredential(k, l, d, a, s) /\ ~UpgradeCredential(k, l, d, a, s)
  BY DEF IssueCredential, UpgradeCredential, courseVars
<1>8. CourseNext
  BY OthersLeaveCourses DEF Next
<1>9. PICK k \in Keys, d \in Courses : \E p \in CourseParams[d] : CreateCourse(k, d, p)
  BY <1>2, <1>3, <1>4, <1>5, <1>6, <1>7, <1>8 DEF CourseNext
<1> QED
  BY <1>1, <1>9

(* The instructions that write an enrollment write that one only. *)
LEMMA EnrollmentSteps ==
  ASSUME TypeOK, [Next]_vars, NEW l \in Learners, NEW c \in Courses,
         enrollments'[l][c] # enrollments[l][c]
  PROVE  \/ Enroll(l, c)
         \/ CloseEnrollment(l, c)
         \/ \E k \in Keys, i \in LessonIndexes : CompleteLesson(k, l, c, i)
         \/ \E k \in Keys : FinalizeCourse(k, l, c)
         \/ \E k \in Keys, a \in Assets, s \in Stats : IssueCredential(k, l, c, a, s)
<1>0. ASSUME NEW m \in Learners, NEW d \in Courses, NEW e, Put(m, d, e)
      PROVE  m = l /\ d = c
  BY <1>0 DEF TypeOK, Put
<1>1. ~UNCHANGED enrollments
  OBVIOUS
<1>2. CourseNext
  BY <1>1, OthersLeaveCourses DEF Next
<1>3. ASSUME NEW m \in Learners, NEW d \in Courses, Enroll(m, d) \/ CloseEnrollment(m, d)
      PROVE  m = l /\ d = c
  BY <1>0, <1>3 DEF Enroll, CloseEnrollment
<1>4. ASSUME NEW k \in Keys, NEW m \in Learners, NEW d \in Courses, NEW i \in LessonIndexes,
             CompleteLesson(k, m, d, i)
      PROVE  m = l /\ d = c
  BY <1>0, <1>4 DEF CompleteLesson
<1>5. ASSUME NEW k \in Keys, NEW m \in Learners, NEW d \in Courses, FinalizeCourse(k, m, d)
      PROVE  m = l /\ d = c
  BY <1>0, <1>5 DEF FinalizeCourse
<1>6. ASSUME NEW k \in Keys, NEW m \in Learners, NEW d \in Courses, NEW a \in Assets,
             NEW s \in Stats, IssueCredential(k, m, d, a, s)
      PROVE  m = l /\ d = c
  BY <1>0, <1>6 DEF IssueCredential
<1> QED
  BY <1>1, <1>2, <1>3, <1>4, <1>5, <1>6
     DEF CourseNext, CreateCourse, UpdateCourse, UpgradeCredential, courseVars

(* A set of lessons of a course whose size is the lesson count is all of    *)
(* them: what makes the population count of finalize_course sufficient.     *)
LEMMA FullCount ==
  ASSUME NEW n \in Nat, NEW S \in SUBSET (0 .. n - 1), Cardinality(S) = n
  PROVE  S = 0 .. n - 1
<1>1. IsFiniteSet(0 .. n - 1) /\ Cardinality(0 .. n - 1) = n
  <2>1. 0 \in Int /\ n - 1 \in Int
    OBVIOUS
  <2>2. /\ IsFiniteSet(0 .. n - 1)
        /\ Cardinality(0 .. n - 1) = IF 0 > n - 1 THEN 0 ELSE n - 1 - 0 + 1
    BY <2>1, FS_Interval, Zenon
  <2> QED
    BY <2>2
<1> QED
  BY <1>1, FS_Subset
-----------------------------------------------------------------------------
LEMMA CourseInvInit == Init => CourseInv
BY InitType DEF Init, CourseInv, WellFormed, FinishedMeansEveryLesson, NoCourse, NoEnrollment

(* Two facts about one enrollment that together are WellFormed and          *)
(* FinishedMeansEveryLesson for it.                                         *)
Sound(e, course) ==
  /\ e.live => course.live
  /\ ~e.live => e = NoEnrollment
  /\ e.flags \subseteq 0 .. (course.lessonCount - 1)
  /\ e.completed => e.live /\ e.flags = 0 .. (course.lessonCount - 1)

LEMMA SoundEnrollments ==
  (\A l \in Learners, c \in Courses : Sound(enrollments[l][c], courses[c]))
    <=> /\ \A l \in Learners, c \in Courses : enrollments[l][c].live => courses[c].live
        /\ \A l \in Learners, c \in Courses :
             ~enrollments[l][c].live => enrollments[l][c] = NoEnrollment
        /\ FinishedMeansEveryLesson
BY DEF Sound, FinishedMeansEveryLesson, LessonsOf

(* An enrollment no instruction touches stays sound: its course is fixed,   *)
(* and an enrollment that does not exist is sound for any course.           *)
LEMMA UntouchedStaysSound ==
  ASSUME CourseInv, [Next]_vars, NEW l \in Learners, NEW c \in Courses,
         enrollments'[l][c] = enrollments[l][c]
  PROVE  Sound(enrollments'[l][c], courses'[c])
<1>1. Sound(enrollments[l][c], courses[c])
  BY SoundEnrollments DEF CourseInv, WellFormed
<1>2. CASE courses[c].live
  BY <1>1, <1>2, CoursesStayFixed DEF Sound, Fixed, CourseInv
<1>3. CASE ~courses[c].live
  <2>1. enrollments[l][c] = NoEnrollment
    BY <1>1, <1>3 DEF Sound
  <2> QED
    BY <2>1 DEF Sound, NoEnrollment
<1> QED
  BY <1>2, <1>3

LEMMA CourseInvStep == CourseInv /\ [Next]_vars => CourseInv'
<1> SUFFICES ASSUME CourseInv, [Next]_vars
             PROVE  CourseInv'
  OBVIOUS
<1>0. /\ TypeOK /\ WellFormed
      /\ \A l \in Learners, c \in Courses : Sound(enrollments[l][c], courses[c])
      /\ \A c \in Courses : courses[c] \in CourseType
      /\ \A l \in Learners, c \in Courses : enrollments[l][c] \in EnrollmentType
      /\ enrollments \in [Learners -> [Courses -> EnrollmentType]]
      /\ courses \in [Courses -> CourseType]
  BY SoundEnrollments, AccountTypes DEF CourseInv, WellFormed, TypeOK
<1>1. \A c \in Courses : courses'[c].live => courses'[c].lessonCount > 0
  <2> SUFFICES ASSUME NEW c \in Courses, ~courses[c].live, courses'[c].live
               PROVE  courses'[c].lessonCount > 0
    BY <1>0, CoursesStayFixed DEF Fixed, WellFormed
  <2>1. PICK k \in Keys, p \in CourseParams[c] : CreateCourse(k, c, p)
    BY <1>0, OnlyCreateCourseCreates
  <2> QED
    BY <1>0, <2>1 DEF CreateCourse, PutCourse, NewCourse, ValidCourse
<1>2. ASSUME NEW l \in Learners, NEW c \in Courses
      PROVE  Sound(enrollments'[l][c], courses'[c])
  <2>0. CASE enrollments'[l][c] = enrollments[l][c]
    BY <2>0, UntouchedStaysSound
  <2>1. CASE Enroll(l, c)
    <3>1. enrollments'[l][c] = NewEnrollment /\ courses'[c].live
      BY <1>0, <2>1, CoursesStayFixed DEF Enroll, Put, Fixed
    <3> QED
      BY <3>1 DEF Sound, NewEnrollment
  <2>2. CASE CloseEnrollment(l, c)
    <3>1. enrollments'[l][c] = NoEnrollment
      BY <1>0, <2>2 DEF CloseEnrollment, Put
    <3> QED
      BY <3>1 DEF Sound, NoEnrollment
  <2>3. ASSUME NEW k \in Keys, NEW i \in LessonIndexes, CompleteLesson(k, l, c, i)
        PROVE  Sound(enrollments'[l][c], courses'[c])
    <3>1. /\ enrollments'[l][c] = [enrollments[l][c] EXCEPT !.flags = @ \cup {i}]
          /\ courses' = courses
      BY <1>0, <2>3 DEF CompleteLesson, Put
    <3>2. i \in 0 .. (courses[c].lessonCount - 1) /\ i \notin enrollments[l][c].flags
      BY <1>0, <2>3, ConstantsAssumption DEF CompleteLesson, CourseType
    <3>3. enrollments[l][c].live /\ ~enrollments[l][c].completed
      <4>1. enrollments[l][c].live
        BY <2>3 DEF CompleteLesson
      <4>2. enrollments[l][c].completed => i \in enrollments[l][c].flags
        BY <1>0, <3>2 DEF Sound
      <4> QED
        BY <3>2, <4>1, <4>2
    <3> QED
      BY <1>0, <3>1, <3>2, <3>3 DEF Sound, EnrollmentType
  <2>4. ASSUME NEW k \in Keys, FinalizeCourse(k, l, c)
        PROVE  Sound(enrollments'[l][c], courses'[c])
    <3>1. /\ enrollments'[l][c] = [enrollments[l][c] EXCEPT !.completed = TRUE]
          /\ enrollments[l][c].live
          /\ Cardinality(enrollments[l][c].flags) = courses[c].lessonCount
      BY <1>0, <2>4 DEF FinalizeCourse, Put, Finalized, AllLessonsDone
    <3>2. enrollments[l][c].flags = 0 .. (courses[c].lessonCount - 1)
      BY <1>0, <3>1, FullCount DEF Sound, CourseType
    <3>3. Fixed(courses'[c]) = Fixed(courses[c])
      BY <1>0, <3>1, CoursesStayFixed DEF Sound
    <3> QED
      BY <1>0, <3>1, <3>2, <3>3 DEF Sound, EnrollmentType, Fixed
  <2>5. ASSUME NEW k \in Keys, NEW a \in Assets, NEW s \in Stats, IssueCredential(k, l, c, a, s)
        PROVE  Sound(enrollments'[l][c], courses'[c])
    <3>1. /\ enrollments'[l][c] = [enrollments[l][c] EXCEPT !.asset = a]
          /\ enrollments[l][c].live
          /\ courses' = courses
      BY <1>0, <2>5 DEF IssueCredential, Put
    <3> QED
      BY <1>0, <3>1 DEF Sound, EnrollmentType
  <2> QED
    BY <1>0, <2>0, <2>1, <2>2, <2>3, <2>4, <2>5, EnrollmentSteps
<1>3. TypeOK'
  BY <1>0, NextType
<1> QED
  BY <1>1, <1>2, <1>3 DEF CourseInv, WellFormed, FinishedMeansEveryLesson, LessonsOf, Sound

(* A learner whose course is finalised has completed every lesson of it,    *)
(* and the bitmap keeps saying so while the enrollment lives (complete_     *)
(* lesson, finalize_course and update_course together).                     *)
THEOREM FinishedCorrect == Spec => []FinishedMeansEveryLesson
<1>1. CourseInv => FinishedMeansEveryLesson
  BY DEF CourseInv
<1> QED
  BY <1>1, CourseInvInit, CourseInvStep, PTL DEF Spec

-----------------------------------------------------------------------------
(* Whoever has completed a course, and not closed the enrollment, is among  *)
(* those its CourseFinalized events name.                                   *)
FinishIsRecorded ==
  \A l \in Learners, c \in Courses : enrollments[l][c].completed => l \in finalisers[c]

PrerequisiteInv == CourseInv /\ FinishIsRecorded /\ PrerequisiteEarned

LEMMA FinalisersGrow ==
  ASSUME TypeOK, [Next]_vars, NEW c \in Courses
  PROVE  finalisers[c] \subseteq finalisers'[c]
<1>1. ASSUME NEW k \in Keys, NEW l \in Learners, NEW d \in Courses, FinalizeCourse(k, l, d)
      PROVE  finalisers[c] \subseteq finalisers'[c]
  BY <1>1 DEF TypeOK, FinalizeCourse
<1>2. ASSUME NEW k \in Keys, NEW d \in Courses,
             \/ \E p \in CourseParams[d] : CreateCourse(k, d, p)
             \/ \E u \in UpdateParams : UpdateCourse(k, d, u)
      PROVE  finalisers' = finalisers
  BY <1>2 DEF CreateCourse, UpdateCourse, historyVars
<1>3. ASSUME NEW l \in Learners, NEW d \in Courses, Enroll(l, d) \/ CloseEnrollment(l, d)
      PROVE  finalisers' = finalisers
  BY <1>3 DEF Enroll, CloseEnrollment, historyVars
<1>4. ASSUME NEW k \in Keys, NEW l \in Learners, NEW d \in Courses, NEW i \in LessonIndexes,
             CompleteLesson(k, l, d, i)
      PROVE  finalisers' = finalisers
  BY <1>4 DEF CompleteLesson
<1>5. ASSUME NEW k \in Keys, NEW l \in Learners, NEW d \in Courses, NEW a \in Assets,
             NEW s \in Stats, IssueCredential(k, l, d, a, s) \/ UpgradeCredential(k, l, d, a, s)
      PROVE  finalisers' = finalisers
  BY <1>5 DEF IssueCredential, UpgradeCredential, historyVars
<1> QED
  BY <1>1, <1>2, <1>3, <1>4, <1>5, OthersLeaveCourses DEF Next, CourseNext

LEMMA FinishIsRecordedStep ==
  ASSUME TypeOK, FinishIsRecorded, [Next]_vars
  PROVE  FinishIsRecorded'
<1> SUFFICES ASSUME NEW l \in Learners, NEW c \in Courses, enrollments'[l][c].completed,
                    enrollments'[l][c] # enrollments[l][c]
             PROVE  l \in finalisers'[c]
  BY FinalisersGrow DEF FinishIsRecorded
<1>0. enrollments \in [Learners -> [Courses -> EnrollmentType]] /\ enrollments[l][c] \in EnrollmentType
  BY DEF TypeOK
<1>1. ~Enroll(l, c) /\ ~CloseEnrollment(l, c)
  BY <1>0 DEF Enroll, CloseEnrollment, Put, NewEnrollment, NoEnrollment
<1>2. ASSUME NEW k \in Keys, NEW i \in LessonIndexes, CompleteLesson(k, l, c, i)
      PROVE  enrollments[l][c].completed
  <2>1. enrollments'[l][c] = [enrollments[l][c] EXCEPT !.flags = @ \cup {i}]
    BY <1>0, <1>2 DEF CompleteLesson, Put
  <2> QED
    BY <1>0, <2>1 DEF EnrollmentType
<1>3. ASSUME NEW k \in Keys, NEW a \in Assets, NEW s \in Stats, IssueCredential(k, l, c, a, s)
      PROVE  enrollments[l][c].completed
  BY <1>3 DEF IssueCredential, MayIssue
<1>4. ASSUME NEW k \in Keys, FinalizeCourse(k, l, c)
      PROVE  l \in finalisers'[c]
  BY <1>4 DEF TypeOK, FinalizeCourse
<1> QED
  BY <1>1, <1>2, <1>3, <1>4, EnrollmentSteps, FinalisersGrow DEF FinishIsRecorded

LEMMA PrerequisiteStep == PrerequisiteInv /\ [Next]_vars => PrerequisiteInv'
<1> SUFFICES ASSUME PrerequisiteInv, [Next]_vars
             PROVE  PrerequisiteInv'
  OBVIOUS
<1>0. TypeOK /\ WellFormed /\ FinishIsRecorded /\ PrerequisiteEarned
  BY DEF PrerequisiteInv, CourseInv
<1>1. ASSUME NEW l \in Learners, NEW c \in Courses, enrollments'[l][c].live,
             NEW q \in courses'[c].prerequisite
      PROVE  l \in finalisers'[q]
  <2>1. CASE enrollments[l][c].live
    <3>1. courses[c].live /\ courses[c] \in CourseType
      BY <1>0, <2>1, AccountTypes DEF WellFormed
    <3>2. q \in courses[c].prerequisite
      BY <1>0, <1>1, <3>1, CoursesStayFixed DEF Fixed
    <3>3. q \in Courses /\ l \in finalisers[q]
      BY <1>0, <2>1, <3>1, <3>2 DEF PrerequisiteEarned, CourseType
    <3> QED
      BY <1>0, <3>3, FinalisersGrow
  <2>2. CASE ~enrollments[l][c].live
    <3>1. Enroll(l, c)
      BY <1>0, <1>1, <2>2, EnrollmentSteps
         DEF CloseEnrollment, CompleteLesson, FinalizeCourse, IssueCredential
    <3>2. courses[c].live /\ courses[c] \in CourseType
      BY <1>0, <3>1, AccountTypes DEF Enroll
    <3>3. q \in courses[c].prerequisite
      BY <1>0, <1>1, <3>2, CoursesStayFixed DEF Fixed
    <3>4. q \in Courses /\ enrollments[l][q].completed
      BY <3>1, <3>2, <3>3 DEF Enroll, MeetsPrerequisite, CourseType
    <3> QED
      BY <1>0, <3>4, FinalisersGrow DEF FinishIsRecorded
  <2> QED
    BY <2>1, <2>2
<1>2. CourseInv' /\ FinishIsRecorded'
  BY <1>0, CourseInvStep, FinishIsRecordedStep DEF PrerequisiteInv
<1> QED
  BY <1>1, <1>2 DEF PrerequisiteInv, PrerequisiteEarned

(* Nobody is ever enrolled in a course without having finished its          *)
(* prerequisite, whatever was closed since (enroll and close_enrollment).   *)
THEOREM PrerequisiteCorrect == Spec => []PrerequisiteEarned
<1>1. Init => PrerequisiteInv
  BY CourseInvInit DEF Init, PrerequisiteInv, FinishIsRecorded, PrerequisiteEarned, NoEnrollment
<1>2. PrerequisiteInv => PrerequisiteEarned
  BY DEF PrerequisiteInv
<1> QED
  BY <1>1, <1>2, PrerequisiteStep, PTL DEF Spec
-----------------------------------------------------------------------------
(* The counters of a course against its live enrollments. *)

LEMMA CourseSteps ==
  ASSUME TypeOK, [Next]_vars, NEW c \in Courses, courses'[c] # courses[c]
  PROVE  \/ \E k \in Keys : \E p \in CourseParams[c] : CreateCourse(k, c, p)
         \/ \E k \in Keys, u \in UpdateParams : UpdateCourse(k, c, u)
         \/ \E l \in Learners : Enroll(l, c)
         \/ \E k \in Keys, l \in Learners : FinalizeCourse(k, l, c)
<1>0. ASSUME NEW d \in Courses, NEW course, PutCourse(d, course)
      PROVE  d = c
  BY <1>0 DEF TypeOK, PutCourse
<1>1. CourseNext
  BY OthersLeaveCourses DEF Next
<1>2. ASSUME NEW k \in Keys, NEW d \in Courses,
             \/ \E p \in CourseParams[d] : CreateCourse(k, d, p)
             \/ \E u \in UpdateParams : UpdateCourse(k, d, u)
      PROVE  d = c
  BY <1>0, <1>2 DEF CreateCourse, UpdateCourse
<1>3. ASSUME NEW l \in Learners, NEW d \in Courses, Enroll(l, d)
      PROVE  d = c
  BY <1>0, <1>3 DEF Enroll
<1>4. ASSUME NEW k \in Keys, NEW l \in Learners, NEW d \in Courses, FinalizeCourse(k, l, d)
      PROVE  d = c
  BY <1>0, <1>4 DEF FinalizeCourse
<1>5. \A l \in Learners, d \in Courses : ~CloseEnrollment(l, d)
  BY DEF CloseEnrollment
<1>6. \A k \in Keys, l \in Learners, d \in Courses, i \in LessonIndexes : ~CompleteLesson(k, l, d, i)
  BY DEF CompleteLesson
<1>7. \A k \in Keys, l \in Learners, d \in Courses, a \in Assets, s \in Stats :
        ~IssueCredential(k, l, d, a, s) /\ ~UpgradeCredential(k, l, d, a, s)
  BY DEF IssueCredential, UpgradeCredential, courseVars
<1> QED
  BY <1>1, <1>2, <1>3, <1>4, <1>5, <1>6, <1>7 DEF CourseNext

LEMMA LearnersAreFinite ==
  ASSUME NEW c \in Courses
  PROVE  /\ IsFiniteSet(Studying(c)) /\ IsFiniteSet(Finished(c))
         /\ Cardinality(Studying(c)) \in Nat /\ Cardinality(Finished(c)) \in Nat
<1>1. Studying(c) \subseteq Learners /\ Finished(c) \subseteq Learners
  BY DEF Studying, Finished
<1> QED
  BY <1>1, ConstantsAssumption, FS_Subset, FS_CardinalityType

LEMMA LearnersAreFiniteNext ==
  ASSUME NEW c \in Courses
  PROVE  /\ IsFiniteSet(Studying(c)') /\ IsFiniteSet(Finished(c)')
         /\ Cardinality(Studying(c)') \in Nat /\ Cardinality(Finished(c)') \in Nat
<1>1. Studying(c)' \subseteq Learners /\ Finished(c)' \subseteq Learners
  BY DEF Studying, Finished
<1> QED
  BY <1>1, ConstantsAssumption, FS_Subset, FS_CardinalityType

(* What CountersCoverLiveEnrollments says of one course. *)
Covered(c) ==
  /\ courses[c].completions + Cardinality(Studying(c)) <= courses[c].enrolled
  /\ Cardinality(Finished(c)) <= courses[c].completions

LEMMA EnrollKeepsCovered ==
  ASSUME CourseInv, [Next]_vars, NEW c \in Courses, Covered(c), NEW l \in Learners, Enroll(l, c)
  PROVE  Covered(c)'
<1>0. /\ courses \in [Courses -> CourseType] /\ courses[c] \in CourseType
      /\ enrollments \in [Learners -> [Courses -> EnrollmentType]]
  BY DEF CourseInv, TypeOK
<1>1. /\ courses'[c].enrolled = courses[c].enrolled + 1
      /\ courses'[c].completions = courses[c].completions
  BY <1>0 DEF Enroll, PutCourse, CourseType
<1>2. enrollments[l][c] = NoEnrollment
  BY DEF Enroll, CourseInv, WellFormed
<1>3. enrollments'[l][c] = NewEnrollment /\ \A m \in Learners \ {l} : enrollments'[m] = enrollments[m]
  BY <1>0 DEF Enroll, Put
<1>4. Studying(c)' = Studying(c) \cup {l} /\ l \notin Studying(c)
  BY <1>2, <1>3 DEF Studying, NewEnrollment, NoEnrollment
<1>5. Finished(c)' = Finished(c)
  BY <1>2, <1>3 DEF Finished, NewEnrollment, NoEnrollment
<1>6. Cardinality(Studying(c) \cup {l}) = Cardinality(Studying(c)) + 1
  BY <1>4, LearnersAreFinite, FS_AddElement
<1>7. courses[c].completions \in Int /\ courses[c].enrolled \in Int
  BY <1>0, ConstantsAssumption DEF CourseType
<1> QED
  BY <1>1, <1>4, <1>5, <1>6, <1>7, LearnersAreFinite DEF Covered

LEMMA FinalizeKeepsCovered ==
  ASSUME CourseInv, [Next]_vars, NEW c \in Courses, Covered(c),
         NEW k \in Keys, NEW l \in Learners, FinalizeCourse(k, l, c)
  PROVE  Covered(c)'
<1>0. /\ courses \in [Courses -> CourseType] /\ courses[c] \in CourseType
      /\ enrollments \in [Learners -> [Courses -> EnrollmentType]]
      /\ enrollments[l][c] \in EnrollmentType
  BY DEF CourseInv, TypeOK
<1>1. /\ courses'[c].enrolled = courses[c].enrolled
      /\ courses'[c].completions = courses[c].completions + 1
  BY <1>0 DEF FinalizeCourse, PutCourse, CourseType
<1>2. enrollments[l][c].live /\ ~enrollments[l][c].completed
  BY DEF FinalizeCourse
<1>3. /\ enrollments'[l][c].completed
      /\ \A m \in Learners \ {l} : enrollments'[m] = enrollments[m]
  BY <1>0 DEF FinalizeCourse, Put, Finalized, EnrollmentType
<1>4. Studying(c)' = Studying(c) \ {l} /\ l \in Studying(c)
  BY <1>2, <1>3 DEF Studying
<1>5. Finished(c)' = Finished(c) \cup {l} /\ l \notin Finished(c)
  BY <1>2, <1>3 DEF Finished
<1>6. Cardinality(Studying(c) \ {l}) = Cardinality(Studying(c)) - 1
  BY <1>4, LearnersAreFinite, FS_RemoveElement
<1>7. Cardinality(Finished(c) \cup {l}) = Cardinality(Finished(c)) + 1
  BY <1>5, LearnersAreFinite, FS_AddElement
<1>8. courses[c].completions \in Int /\ courses[c].enrolled \in Int
  BY <1>0, ConstantsAssumption DEF CourseType
<1> QED
  BY <1>1, <1>4, <1>5, <1>6, <1>7, <1>8, LearnersAreFinite DEF Covered

(* Every other instruction only takes learners away, or leaves them; it     *)
(* moves the counters only when it creates the course.                      *)
LEMMA OthersKeepCovered ==
  ASSUME CourseInv, [Next]_vars, NEW c \in Courses, Covered(c),
         \A l \in Learners : ~Enroll(l, c) /\ \A k \in Keys : ~FinalizeCourse(k, l, c)
  PROVE  Covered(c)'
<1>0. /\ TypeOK /\ courses \in [Courses -> CourseType] /\ courses[c] \in CourseType
      /\ enrollments \in [Learners -> [Courses -> EnrollmentType]]
      /\ courses[c].completions \in Int /\ courses[c].enrolled \in Int
  BY ConstantsAssumption DEF CourseInv, TypeOK, CourseType
<1>1. ASSUME NEW l \in Learners, enrollments'[l][c] # enrollments[l][c]
      PROVE  /\ enrollments'[l][c].live => enrollments[l][c].live
             /\ enrollments'[l][c].live => enrollments'[l][c].completed = enrollments[l][c].completed
             /\ enrollments'[l][c].completed => enrollments[l][c].completed
  <2>0. enrollments[l][c] \in EnrollmentType
    BY <1>0
  <2>1. CASE CloseEnrollment(l, c)
    <3>1. enrollments'[l][c] = NoEnrollment
      BY <1>0, <2>1 DEF CloseEnrollment, Put
    <3> QED
      BY <3>1 DEF NoEnrollment
  <2>2. ASSUME NEW k \in Keys, NEW i \in LessonIndexes, CompleteLesson(k, l, c, i)
        PROVE  /\ enrollments'[l][c].live = enrollments[l][c].live
               /\ enrollments'[l][c].completed = enrollments[l][c].completed
    <3>1. enrollments'[l][c] = [enrollments[l][c] EXCEPT !.flags = @ \cup {i}]
      BY <1>0, <2>2 DEF CompleteLesson, Put
    <3> QED
      BY <2>0, <3>1 DEF EnrollmentType
  <2>3. ASSUME NEW k \in Keys, NEW a \in Assets, NEW s \in Stats, IssueCredential(k, l, c, a, s)
        PROVE  /\ enrollments'[l][c].live = enrollments[l][c].live
               /\ enrollments'[l][c].completed = enrollments[l][c].completed
    <3>1. enrollments'[l][c] = [enrollments[l][c] EXCEPT !.asset = a]
      BY <1>0, <2>3 DEF IssueCredential, Put
    <3> QED
      BY <2>0, <3>1 DEF EnrollmentType
  <2> QED
    BY <1>0, <1>1, <2>1, <2>2, <2>3, EnrollmentSteps
<1>2. Studying(c)' \subseteq Studying(c) /\ Finished(c)' \subseteq Finished(c)
  BY <1>1 DEF Studying, Finished
<1>3. /\ Cardinality(Studying(c)') <= Cardinality(Studying(c))
      /\ Cardinality(Finished(c)') <= Cardinality(Finished(c))
  BY <1>2, LearnersAreFinite, FS_Subset
<1>4. CASE /\ courses'[c].enrolled = courses[c].enrolled
           /\ courses'[c].completions = courses[c].completions
  BY <1>0, <1>3, <1>4, LearnersAreFinite, LearnersAreFiniteNext DEF Covered
<1>5. ASSUME NEW k \in Keys, NEW u \in UpdateParams, UpdateCourse(k, c, u)
      PROVE  /\ courses'[c].enrolled = courses[c].enrolled
             /\ courses'[c].completions = courses[c].completions
  BY <1>0, <1>5 DEF UpdateCourse, PutCourse, Updated, CourseType
<1>6. ASSUME NEW k \in Keys, NEW p \in CourseParams[c], CreateCourse(k, c, p)
      PROVE  Covered(c)'
  <2>1. Studying(c) = {} /\ Finished(c) = {}
    BY <1>6 DEF CreateCourse, CourseInv, WellFormed, Studying, Finished, NoEnrollment
  <2>2. Cardinality(Studying(c)') = 0 /\ Cardinality(Finished(c)') = 0
    <3>1. Studying(c)' = {} /\ Finished(c)' = {}
      BY <1>2, <2>1
    <3> QED
      BY <3>1, FS_EmptySet
  <2>3. courses'[c].enrolled = 0 /\ courses'[c].completions = 0
    BY <1>0, <1>6 DEF CreateCourse, PutCourse, NewCourse
  <2> QED
    BY <2>2, <2>3 DEF Covered
<1> QED
  BY <1>0, <1>4, <1>5, <1>6, CourseSteps

(* total_enrollments and total_completions never fall behind the accounts   *)
(* that live, however often enrollments are closed and opened again         *)
(* (enroll, finalize_course and close_enrollment).                          *)
THEOREM CountersCorrect == Spec => []CountersCoverLiveEnrollments
<1>0. CountersCoverLiveEnrollments <=> \A c \in Courses : Covered(c)
  BY DEF CountersCoverLiveEnrollments, Covered
<1>1. Init => CountersCoverLiveEnrollments
  <2> SUFFICES ASSUME Init, NEW c \in Courses
               PROVE  Covered(c)
    BY <1>0
  <2>1. Studying(c) = {} /\ Finished(c) = {}
    BY DEF Init, Studying, Finished, NoEnrollment
  <2> QED
    BY <2>1, FS_EmptySet DEF Init, Covered, NoCourse
<1>2. CourseInv /\ CountersCoverLiveEnrollments /\ [Next]_vars => CountersCoverLiveEnrollments'
  <2> SUFFICES ASSUME CourseInv, [Next]_vars, NEW c \in Courses, Covered(c)
               PROVE  Covered(c)'
    BY <1>0 DEF CountersCoverLiveEnrollments, Covered
  <2> QED
    BY EnrollKeepsCovered, FinalizeKeepsCovered, OthersKeepCovered
<1> QED
  BY <1>1, <1>2, CourseInvInit, CourseInvStep, PTL DEF Spec
-----------------------------------------------------------------------------
(* Unfinished enrollments.  Period is the shortest time an abandoned one    *)
(* occupies its learner: close_enrollment refuses it for the cooldown.      *)
Period == UnenrollCooldown + 1

(* Some tally f of each learner's unfinished enrollments in c accounts for  *)
(* the gap between the counters and fits in the time each learner had: an   *)
(* enrollment that was given up took a period, the open one took nothing    *)
(* before it began.                                                         *)
InTime(l, c, n) ==
  IF l \in Studying(c)
  THEN enrollments[l][c].enrolledAt <= now /\ n * Period <= enrollments[l][c].enrolledAt + Period
  ELSE n * Period <= now

Tally(f, c) ==
  /\ courses[c].enrolled - courses[c].completions <= SumFunctionOnSet(f, Learners)
  /\ \A l \in Learners : InTime(l, c, f[l])

Paced(c) == \E f \in [Learners -> Int] : Tally(f, c)

LEMMA PeriodType == Period \in Nat /\ Period > 0
BY ConstantsAssumption DEF Period

LEMMA PeriodTimes == \A n \in Int : (n + 1) * Period = n * Period + Period
                                    /\ (n - 1) * Period = n * Period - Period
                                    /\ n * Period \in Int
<1>1. \A k \in Int : \A n \in Int : (n + 1) * k = n * k + k /\ (n - 1) * k = n * k - k /\ n * k \in Int
  OBVIOUS
<1> QED
  BY <1>1, PeriodType

LEMMA EnrollKeepsPace ==
  ASSUME CourseInv, [Next]_vars, NEW c \in Courses, Paced(c), NEW l \in Learners, Enroll(l, c)
  PROVE  Paced(c)'
<1>0. /\ courses \in [Courses -> CourseType] /\ courses[c] \in CourseType
      /\ enrollments \in [Learners -> [Courses -> EnrollmentType]]
      /\ now \in Nat /\ now' = now
  BY DEF CourseInv, TypeOK, Enroll
<1>1. PICK f \in [Learners -> Int] : Tally(f, c)
  BY DEF Paced
<1> DEFINE g == [f EXCEPT ![l] = f[l] + 1]
<1>2. /\ courses'[c].enrolled = courses[c].enrolled + 1
      /\ courses'[c].completions = courses[c].completions
      /\ courses[c].enrolled \in Int /\ courses[c].completions \in Int
  BY <1>0, ConstantsAssumption DEF Enroll, PutCourse, CourseType
<1>3. enrollments[l][c] = NoEnrollment
  BY DEF Enroll, CourseInv, WellFormed
<1>4. enrollments'[l][c] = NewEnrollment /\ \A m \in Learners \ {l} : enrollments'[m] = enrollments[m]
  BY <1>0 DEF Enroll, Put
<1>5. /\ g \in [Learners -> Int] /\ g[l] = f[l] + 1
      /\ \A m \in Learners \ {l} : f[m] = g[m]
  OBVIOUS
<1> HIDE DEF g
<1>6. SumFunctionOnSet(g, Learners) = SumFunctionOnSet(f, Learners) + 1
  <2>1. SumFunctionOnSet(g, Learners) = SumFunctionOnSet(f, Learners) - f[l] + g[l]
    BY <1>5, ConstantsAssumption, SumChanges
  <2>2. SumFunctionOnSet(f, Learners) \in Int
    BY ConstantsAssumption, SumType
  <2> QED
    BY <1>5, <2>1, <2>2
<1>7. courses'[c].enrolled - courses'[c].completions <= SumFunctionOnSet(g, Learners)
  <2>1. courses[c].enrolled - courses[c].completions <= SumFunctionOnSet(f, Learners)
    BY <1>1 DEF Tally
  <2>2. SumFunctionOnSet(f, Learners) \in Int
    BY ConstantsAssumption, SumType
  <2> QED
    BY <1>2, <1>6, <2>1, <2>2
<1>8. ASSUME NEW m \in Learners
      PROVE  InTime(m, c, g[m])'
  <2>1. CASE m = l
    <3>1. l \in Studying(c)' /\ enrollments'[l][c].enrolledAt = now
      BY <1>4 DEF Studying, NewEnrollment
    <3>2. f[l] * Period <= now
      BY <1>1, <1>3 DEF Tally, InTime, Studying, NoEnrollment
    <3>3. g[l] * Period = f[l] * Period + Period /\ f[l] * Period \in Int
      BY <1>5, PeriodTimes
    <3> QED
      BY <1>0, <2>1, <3>1, <3>2, <3>3, PeriodType DEF InTime
  <2>2. CASE m # l
    <3>1. enrollments'[m] = enrollments[m] /\ g[m] = f[m]
      BY <1>4, <1>5, <2>2
    <3> QED
      BY <1>0, <1>1, <3>1 DEF Tally, InTime, Studying
  <2> QED
    BY <2>1, <2>2
<1> QED
  BY <1>5, <1>7, <1>8 DEF Paced, Tally

LEMMA FinalizeKeepsPace ==
  ASSUME CourseInv, [Next]_vars, NEW c \in Courses, Paced(c),
         NEW k \in Keys, NEW l \in Learners, FinalizeCourse(k, l, c)
  PROVE  Paced(c)'
<1>0. /\ courses \in [Courses -> CourseType] /\ courses[c] \in CourseType
      /\ enrollments \in [Learners -> [Courses -> EnrollmentType]]
      /\ enrollments[l][c] \in EnrollmentType
      /\ now \in Nat /\ now' = now
  BY DEF CourseInv, TypeOK, FinalizeCourse
<1>1. PICK f \in [Learners -> Int] : Tally(f, c)
  BY DEF Paced
<1> DEFINE g == [f EXCEPT ![l] = f[l] - 1]
<1>2. /\ courses'[c].enrolled = courses[c].enrolled
      /\ courses'[c].completions = courses[c].completions + 1
      /\ courses[c].enrolled \in Int /\ courses[c].completions \in Int
  BY <1>0, ConstantsAssumption DEF FinalizeCourse, PutCourse, CourseType
<1>3. l \in Studying(c) /\ enrollments[l][c].enrolledAt \in Nat
  BY <1>0 DEF FinalizeCourse, Studying, EnrollmentType
<1>4. /\ enrollments'[l][c].completed
      /\ \A m \in Learners \ {l} : enrollments'[m] = enrollments[m]
  BY <1>0 DEF FinalizeCourse, Put, Finalized, EnrollmentType
<1>5. /\ g \in [Learners -> Int] /\ g[l] = f[l] - 1
      /\ \A m \in Learners \ {l} : f[m] = g[m]
  OBVIOUS
<1> HIDE DEF g
<1>6. SumFunctionOnSet(g, Learners) = SumFunctionOnSet(f, Learners) - 1
  <2>1. SumFunctionOnSet(g, Learners) = SumFunctionOnSet(f, Learners) - f[l] + g[l]
    BY <1>5, ConstantsAssumption, SumChanges
  <2>2. SumFunctionOnSet(f, Learners) \in Int
    BY ConstantsAssumption, SumType
  <2> QED
    BY <1>5, <2>1, <2>2
<1>7. courses'[c].enrolled - courses'[c].completions <= SumFunctionOnSet(g, Learners)
  <2>1. courses[c].enrolled - courses[c].completions <= SumFunctionOnSet(f, Learners)
    BY <1>1 DEF Tally
  <2>2. SumFunctionOnSet(f, Learners) \in Int
    BY ConstantsAssumption, SumType
  <2> QED
    BY <1>2, <1>6, <2>1, <2>2
<1>8. ASSUME NEW m \in Learners
      PROVE  InTime(m, c, g[m])'
  <2>1. CASE m = l
    <3>1. l \notin Studying(c)'
      BY <1>4 DEF Studying
    <3>2. /\ enrollments[l][c].enrolledAt <= now
          /\ f[l] * Period <= enrollments[l][c].enrolledAt + Period
      BY <1>1, <1>3 DEF Tally, InTime
    <3>3. g[l] * Period = f[l] * Period - Period /\ f[l] * Period \in Int
      BY <1>5, PeriodTimes
    <3>4. g[l] * Period <= now
      BY <1>0, <1>3, <3>2, <3>3, PeriodType
    <3> QED
      BY <1>0, <2>1, <3>1, <3>4 DEF InTime
  <2>2. CASE m # l
    <3>1. enrollments'[m] = enrollments[m] /\ g[m] = f[m]
      BY <1>4, <1>5, <2>2
    <3> QED
      BY <1>0, <1>1, <3>1 DEF Tally, InTime, Studying
  <2> QED
    BY <2>1, <2>2
<1> QED
  BY <1>5, <1>7, <1>8 DEF Paced, Tally

(* close_enrollment gives an unfinished enrollment up only after a whole    *)
(* period; the other instructions leave who studies since when.             *)
LEMMA OthersKeepTime ==
  ASSUME CourseInv, [Next]_vars, NEW c \in Courses, NEW l \in Learners, NEW n \in Int,
         InTime(l, c, n), ~Enroll(l, c), \A k \in Keys : ~FinalizeCourse(k, l, c)
  PROVE  InTime(l, c, n)'
<1>0. /\ TypeOK /\ enrollments \in [Learners -> [Courses -> EnrollmentType]]
      /\ enrollments[l][c] \in EnrollmentType /\ enrollments[l][c].enrolledAt \in Nat
      /\ now \in Nat /\ now' \in Nat /\ n * Period \in Int
  BY NextType, PeriodTimes DEF CourseInv, TypeOK, EnrollmentType
<1>1. now <= now'
  <2>1. now' = now \/ now' = now + 1
    <3>1. CASE CourseNext
      <4>1. \A k \in Keys, d \in Courses : \A p \in CourseParams[d] : CreateCourse(k, d, p) => now' = now
        BY DEF CreateCourse
      <4>2. \A k \in Keys, d \in Courses, u \in UpdateParams : UpdateCourse(k, d, u) => now' = now
        BY DEF UpdateCourse
      <4>3. \A m \in Learners, d \in Courses : Enroll(m, d) \/ CloseEnrollment(m, d) => now' = now
        BY DEF Enroll, CloseEnrollment
      <4>4. \A k \in Keys, m \in Learners, d \in Courses :
              /\ \A i \in LessonIndexes : CompleteLesson(k, m, d, i) => now' = now
              /\ FinalizeCourse(k, m, d) => now' = now
              /\ \A a \in Assets, s \in Stats :
                   IssueCredential(k, m, d, a, s) \/ UpgradeCredential(k, m, d, a, s) => now' = now
        BY DEF CompleteLesson, FinalizeCourse, IssueCredential, UpgradeCredential
      <4> QED
        BY <3>1, <4>1, <4>2, <4>3, <4>4 DEF CourseNext
    <3>2. CASE RewardNext
      BY <3>2 DEF RewardNext, Initialize, UpdateConfig, RegisterMinter, RevokeMinter, RewardXp,
                  CreateAchievementType, DeactivateAchievementType, AwardAchievement
    <3> QED
      BY <3>1, <3>2 DEF Next, Tick, vars
  <2> QED
    BY <1>0, <2>1
<1>2. CASE /\ enrollments'[l][c].live = enrollments[l][c].live
           /\ enrollments'[l][c].completed = enrollments[l][c].completed
           /\ enrollments'[l][c].enrolledAt = enrollments[l][c].enrolledAt
  <2>1. l \in Studying(c)' <=> l \in Studying(c)
    BY <1>2 DEF Studying
  <2> QED
    BY <1>0, <1>1, <1>2, <2>1, PeriodType DEF InTime
<1>3. CASE CloseEnrollment(l, c)
  <2>1. enrollments'[l][c] = NoEnrollment /\ now' = now
    BY <1>0, <1>3 DEF CloseEnrollment, Put
  <2>2. l \notin Studying(c)'
    BY <2>1 DEF Studying, NoEnrollment
  <2>3. n * Period <= now
    <3>1. CASE l \in Studying(c)
      <4>1. now - enrollments[l][c].enrolledAt > UnenrollCooldown
        BY <1>3, <3>1 DEF CloseEnrollment, MayClose, Studying
      <4>2. n * Period <= enrollments[l][c].enrolledAt + Period
        BY <3>1 DEF InTime
      <4>3. UnenrollCooldown \in Nat /\ Period = UnenrollCooldown + 1
        BY ConstantsAssumption DEF Period
      <4> QED
        BY <1>0, <4>1, <4>2, <4>3
    <3>2. CASE l \notin Studying(c)
      BY <3>2 DEF InTime
    <3> QED
      BY <3>1, <3>2
  <2> QED
    BY <2>1, <2>2, <2>3 DEF InTime
<1>4. ASSUME NEW k \in Keys, NEW i \in LessonIndexes, CompleteLesson(k, l, c, i)
      PROVE  InTime(l, c, n)'
  <2>1. enrollments'[l][c] = [enrollments[l][c] EXCEPT !.flags = @ \cup {i}]
    BY <1>0, <1>4 DEF CompleteLesson, Put
  <2> QED
    BY <1>0, <1>2, <2>1 DEF EnrollmentType
<1>5. ASSUME NEW k \in Keys, NEW a \in Assets, NEW s \in Stats, IssueCredential(k, l, c, a, s)
      PROVE  InTime(l, c, n)'
  <2>1. enrollments'[l][c] = [enrollments[l][c] EXCEPT !.asset = a]
    BY <1>0, <1>5 DEF IssueCredential, Put
  <2> QED
    BY <1>0, <1>2, <2>1 DEF EnrollmentType
<1> QED
  BY <1>0, <1>2, <1>3, <1>4, <1>5, EnrollmentSteps

LEMMA OthersKeepPace ==
  ASSUME CourseInv, [Next]_vars, NEW c \in Courses, Paced(c),
         \A l \in Learners : ~Enroll(l, c) /\ \A k \in Keys : ~FinalizeCourse(k, l, c)
  PROVE  Paced(c)'
<1>0. TypeOK /\ courses \in [Courses -> CourseType] /\ courses[c] \in CourseType
  BY DEF CourseInv, TypeOK
<1>1. CASE /\ courses'[c].enrolled = courses[c].enrolled
           /\ courses'[c].completions = courses[c].completions
  <2>1. PICK f \in [Learners -> Int] : Tally(f, c)
    BY DEF Paced
  <2>2. \A l \in Learners : InTime(l, c, f[l])'
    BY <2>1, OthersKeepTime DEF Tally
  <2> QED
    BY <1>1, <2>1, <2>2 DEF Paced, Tally
<1>2. ASSUME NEW k \in Keys, NEW u \in UpdateParams, UpdateCourse(k, c, u)
      PROVE  /\ courses'[c].enrolled = courses[c].enrolled
             /\ courses'[c].completions = courses[c].completions
  BY <1>0, <1>2 DEF UpdateCourse, PutCourse, Updated, CourseType
<1>3. ASSUME NEW k \in Keys, NEW p \in CourseParams[c], CreateCourse(k, c, p)
      PROVE  Paced(c)'
  <2> DEFINE f == [l \in Learners |-> 0]
  <2>1. f \in [Learners -> Int] /\ \A l \in Learners : f[l] = 0
    OBVIOUS
  <2> HIDE DEF f
  <2>2. SumFunctionOnSet(f, Learners) = 0
    BY <2>1, ConstantsAssumption, SumOfZeroes
  <2>3. courses'[c].enrolled = 0 /\ courses'[c].completions = 0
    BY <1>0, <1>3 DEF CreateCourse, PutCourse, NewCourse
  <2>4. ASSUME NEW l \in Learners
        PROVE  InTime(l, c, f[l])'
    <3>1. l \notin Studying(c)'
      BY <1>3 DEF CreateCourse, CourseInv, WellFormed, Studying, NoEnrollment
    <3>2. f[l] * Period = 0 /\ now' \in Nat
      BY <2>1, PeriodType, NextType DEF CourseInv, TypeOK
    <3> QED
      BY <3>1, <3>2 DEF InTime
  <2> QED
    BY <2>1, <2>2, <2>3, <2>4 DEF Paced, Tally
<1> QED
  BY <1>0, <1>1, <1>2, <1>3, CourseSteps

LEMMA PaceBounds ==
  ASSUME TypeOK, NEW c \in Courses, Paced(c)
  PROVE  courses[c].enrolled - courses[c].completions
           <= Cardinality(Learners) * (1 + (now \div (UnenrollCooldown + 1)))
<1> DEFINE k == 1 + (now \div Period)
           g == [l \in Learners |-> k]
<1>0. now \in Nat /\ courses[c].enrolled \in Int /\ courses[c].completions \in Int
  BY ConstantsAssumption DEF TypeOK, CourseType
<1>1. PICK f \in [Learners -> Int] : Tally(f, c)
  BY DEF Paced
<1>2. k \in Int /\ \A n \in Int : n * Period <= now + Period => n <= k
  <2>1. \A q \in Nat : q > 0 =>
          /\ now \div q \in Int
          /\ \A n \in Int : n * q <= now + q => n <= 1 + (now \div q)
    <3> SUFFICES ASSUME NEW q \in Nat, q > 0
                 PROVE  /\ now \div q \in Int
                        /\ \A n \in Int : n * q <= now + q => n <= 1 + (now \div q)
      OBVIOUS
    <3>1. now \div q \in Int /\ now < (now \div q) * q + q
      BY <1>0, Quotient
    <3>2. ASSUME NEW n \in Int, n * q <= now + q, n > 1 + (now \div q)
          PROVE  FALSE
      <4>1. n - 2 - (now \div q) \in Nat
        BY <3>1, <3>2
      <4> DEFINE d == n - 2 - (now \div q)
      <4>2. d \in Nat /\ n = d + 2 + (now \div q)
        BY <3>1, <4>1
      <4> HIDE DEF d
      <4>3. n * q = d * q + 2 * q + (now \div q) * q
        BY <3>1, <4>2
      <4>4. d * q >= 0 /\ d * q \in Int /\ (now \div q) * q \in Int
        BY <3>1, <4>2
      <4> QED
        BY <1>0, <3>1, <3>2, <4>3, <4>4
    <3> QED
      BY <3>1, <3>2
  <2> QED
    BY <2>1, PeriodType
<1>3. g \in [Learners -> Int] /\ \A l \in Learners : g[l] = k
  BY <1>2
<1> HIDE DEF k, g
<1>4. \A l \in Learners : f[l] <= g[l]
  <2> SUFFICES ASSUME NEW l \in Learners
               PROVE  f[l] * Period <= now + Period
    BY <1>2, <1>3
  <2>1. f[l] * Period \in Int /\ InTime(l, c, f[l])
    BY <1>1, PeriodTimes DEF Tally
  <2>2. enrollments[l][c].enrolledAt \in Nat
    BY DEF TypeOK, EnrollmentType
  <2> QED
    BY <1>0, <2>1, <2>2, PeriodType DEF InTime
<1>5. SumFunctionOnSet(g, Learners) = Cardinality(Learners) * k
  BY <1>2, <1>3, ConstantsAssumption, SumOfEqual
<1>6. SumFunctionOnSet(f, Learners) <= SumFunctionOnSet(g, Learners)
  BY <1>3, <1>4, ConstantsAssumption, SumMonotone
<1>7. courses[c].enrolled - courses[c].completions <= SumFunctionOnSet(g, Learners)
  <2>1. courses[c].enrolled - courses[c].completions <= SumFunctionOnSet(f, Learners)
    BY <1>1 DEF Tally
  <2>2. SumFunctionOnSet(f, Learners) \in Int /\ SumFunctionOnSet(g, Learners) \in Int
    BY <1>3, ConstantsAssumption, SumType
  <2> QED
    BY <1>0, <1>6, <2>1, <2>2
<1> QED
  BY <1>5, <1>7 DEF k, Period

(* The counters drift apart by at most one unfinished enrollment per        *)
(* learner and cooldown (close_enrollment's comparison with the clock),     *)
(* whatever the learners do.                                                *)
THEOREM AbandonmentCorrect == Spec => []AbandonmentRateLimited
<1> DEFINE Pace == \A c \in Courses : Paced(c)
<1>1. Init => Pace
  <2> SUFFICES ASSUME Init, NEW c \in Courses
               PROVE  Paced(c)
    OBVIOUS
  <2> DEFINE f == [l \in Learners |-> 0]
  <2>1. f \in [Learners -> Int] /\ \A l \in Learners : f[l] = 0
    OBVIOUS
  <2> HIDE DEF f
  <2>2. SumFunctionOnSet(f, Learners) = 0
    BY <2>1, ConstantsAssumption, SumOfZeroes
  <2>3. courses[c].enrolled = 0 /\ courses[c].completions = 0 /\ now = 0
    BY DEF Init, NoCourse
  <2>4. ASSUME NEW l \in Learners
        PROVE  InTime(l, c, f[l])
    <3>1. l \notin Studying(c)
      BY DEF Init, Studying, NoEnrollment
    <3>2. f[l] * Period = 0
      BY <2>1, PeriodType
    <3> QED
      BY <2>3, <3>1, <3>2 DEF InTime
  <2> QED
    BY <2>1, <2>2, <2>3, <2>4 DEF Paced, Tally
<1>2. CourseInv /\ Pace /\ [Next]_vars => Pace'
  <2> SUFFICES ASSUME CourseInv, [Next]_vars, NEW c \in Courses, Paced(c)
               PROVE  Paced(c)'
    OBVIOUS
  <2> QED
    BY EnrollKeepsPace, FinalizeKeepsPace, OthersKeepPace
<1>3. CourseInv /\ Pace => AbandonmentRateLimited
  BY PaceBounds DEF CourseInv, AbandonmentRateLimited
<1> QED
  BY <1>1, <1>2, <1>3, CourseInvInit, CourseInvStep, PTL DEF Spec

-----------------------------------------------------------------------------
(* How many of n completions pay when the m-th is the first to, and what    *)
(* CreatorPaidFromThresholdOn says of one course.                           *)
First(m)   == IF m = 0 THEN 1 ELSE m
Paid(n, m) == IF n < First(m) THEN 0 ELSE n - First(m) + 1

PaidRight(c) ==
  creatorXp[c] = Paid(courses[c].completions, courses[c].minCompletions)
                   * courses[c].creatorRewardXp

RewardSettingsFixed == \A u \in UpdateParams : u.creatorRewardXp = {} /\ u.minCompletions = {}

(* A course that does not exist has no settings yet to pay a creator by. *)
AbsentCourses == \A c \in Courses : ~courses[c].live => courses[c] = NoCourse

LEMMA AbsentCoursesStep ==
  ASSUME CourseInv, AbsentCourses, [Next]_vars
  PROVE  AbsentCourses'
<1> SUFFICES ASSUME NEW c \in Courses, courses'[c] # courses[c]
             PROVE  courses'[c].live
  BY DEF AbsentCourses
<1>0. TypeOK /\ WellFormed /\ courses \in [Courses -> CourseType] /\ courses[c] \in CourseType
  BY DEF CourseInv, TypeOK
<1>1. CASE courses[c].live
  BY <1>0, <1>1, CoursesStayFixed DEF Fixed
<1>2. CASE ~courses[c].live
  <2>1. \A l \in Learners : ~Enroll(l, c) /\ \A k \in Keys : ~FinalizeCourse(k, l, c)
    BY <1>0, <1>2 DEF Enroll, FinalizeCourse, WellFormed
  <2>2. PICK k \in Keys, p \in CourseParams[c] : CreateCourse(k, c, p)
    BY <1>0, <1>2, <2>1, CourseSteps DEF UpdateCourse
  <2> QED
    BY <1>0, <2>2 DEF CreateCourse, PutCourse, NewCourse
<1> QED
  BY <1>1, <1>2

(* One more completion is one more payment, from the first that counts on. *)
LEMMA OneMorePayment ==
  ASSUME NEW n \in Nat, NEW m \in Nat, NEW r \in Nat
  PROVE  Paid(n + 1, m) * r = Paid(n, m) * r + (IF n + 1 >= m THEN r ELSE 0)
<1>1. \A k \in Nat : (k + 1) * r = k * r + r
  OBVIOUS
<1>2. CASE n + 1 >= m
  <2>1. Paid(n, m) \in Nat /\ Paid(n + 1, m) = Paid(n, m) + 1
    BY <1>2 DEF Paid, First
  <2> QED
    BY <1>1, <1>2, <2>1
<1>3. CASE n + 1 < m
  <2>1. Paid(n, m) = 0 /\ Paid(n + 1, m) = 0
    BY <1>3 DEF Paid, First
  <2> QED
    BY <1>3, <2>1
<1> QED
  BY <1>2, <1>3

LEMMA FinalizePaysRight ==
  ASSUME CourseInv, [Next]_vars, NEW c \in Courses, PaidRight(c),
         NEW k \in Keys, NEW l \in Learners, FinalizeCourse(k, l, c)
  PROVE  PaidRight(c)'
<1>0. /\ courses \in [Courses -> CourseType] /\ courses[c] \in CourseType
      /\ creatorXp \in [Courses -> Nat]
  BY DEF CourseInv, TypeOK
<1>1. /\ courses'[c].completions = courses[c].completions + 1
      /\ courses'[c].minCompletions = courses[c].minCompletions
      /\ courses'[c].creatorRewardXp = courses[c].creatorRewardXp
  BY <1>0 DEF FinalizeCourse, PutCourse, CourseType
<1>2. creatorXp'[c] = creatorXp[c] + CreatorReward(courses[c])
  BY <1>0 DEF FinalizeCourse
<1>3. /\ courses[c].completions \in Nat /\ courses[c].minCompletions \in Nat
      /\ courses[c].creatorRewardXp \in Nat
  BY <1>0, ConstantsAssumption DEF CourseType
<1> QED
  BY <1>1, <1>2, <1>3, OneMorePayment DEF PaidRight, CreatorReward

LEMMA CreatorXpSteps ==
  ASSUME TypeOK, [Next]_vars, NEW c \in Courses, creatorXp'[c] # creatorXp[c]
  PROVE  \E k \in Keys, l \in Learners : FinalizeCourse(k, l, c)
<1>1. CourseNext
  BY OthersLeaveCourses DEF Next
<1>2. ASSUME NEW k \in Keys, NEW d \in Courses,
             \/ \E p \in CourseParams[d] : CreateCourse(k, d, p)
             \/ \E u \in UpdateParams : UpdateCourse(k, d, u)
      PROVE  FALSE
  BY <1>2 DEF CreateCourse, UpdateCourse, historyVars
<1>3. ASSUME NEW l \in Learners, NEW d \in Courses, Enroll(l, d) \/ CloseEnrollment(l, d)
      PROVE  FALSE
  BY <1>3 DEF Enroll, CloseEnrollment, historyVars
<1>4. ASSUME NEW k \in Keys, NEW l \in Learners, NEW d \in Courses, NEW i \in LessonIndexes,
             CompleteLesson(k, l, d, i)
      PROVE  FALSE
  BY <1>4 DEF CompleteLesson
<1>5. ASSUME NEW k \in Keys, NEW l \in Learners, NEW d \in Courses, NEW a \in Assets,
             NEW s \in Stats, IssueCredential(k, l, d, a, s) \/ UpgradeCredential(k, l, d, a, s)
      PROVE  FALSE
  BY <1>5 DEF IssueCredential, UpgradeCredential, historyVars
<1>6. ASSUME NEW k \in Keys, NEW l \in Learners, NEW d \in Courses, FinalizeCourse(k, l, d)
      PROVE  d = c
  BY <1>6 DEF TypeOK, FinalizeCourse
<1> QED
  BY <1>1, <1>2, <1>3, <1>4, <1>5, <1>6 DEF CourseNext

LEMMA OthersPayNothing ==
  ASSUME CourseInv, AbsentCourses, RewardSettingsFixed, [Next]_vars, NEW c \in Courses,
         PaidRight(c), \A k \in Keys, l \in Learners : ~FinalizeCourse(k, l, c)
  PROVE  PaidRight(c)'
<1>0. /\ TypeOK /\ courses \in [Courses -> CourseType] /\ courses[c] \in CourseType
      /\ creatorXp'[c] = creatorXp[c]
  BY CreatorXpSteps DEF CourseInv, TypeOK
<1>1. CASE /\ courses'[c].completions = courses[c].completions
           /\ courses'[c].minCompletions = courses[c].minCompletions
           /\ courses'[c].creatorRewardXp = courses[c].creatorRewardXp
  BY <1>0, <1>1 DEF PaidRight
<1>2. ASSUME NEW k \in Keys, NEW p \in CourseParams[c], CreateCourse(k, c, p)
      PROVE  PaidRight(c)'
  <2>1. courses[c] = NoCourse
    BY <1>2 DEF CreateCourse, AbsentCourses
  <2>2. creatorXp[c] = 0
    BY <2>1 DEF PaidRight, Paid, First, NoCourse
  <2>3. courses'[c] = NewCourse(p) /\ p \in CourseParamType
    BY <1>0, <1>2, ConstantsAssumption DEF CreateCourse, PutCourse
  <2>4. p.minCompletions \in Nat /\ p.creatorRewardXp \in Int
    BY <2>3, ConstantsAssumption DEF CourseParamType
  <2> QED
    BY <1>0, <2>2, <2>3, <2>4 DEF PaidRight, Paid, First, NewCourse
<1>3. ASSUME NEW k \in Keys, NEW u \in UpdateParams, UpdateCourse(k, c, u)
      PROVE  /\ courses'[c].completions = courses[c].completions
             /\ courses'[c].minCompletions = courses[c].minCompletions
             /\ courses'[c].creatorRewardXp = courses[c].creatorRewardXp
  BY <1>0, <1>3 DEF UpdateCourse, PutCourse, Updated, OrElse, CourseType, RewardSettingsFixed
<1>4. ASSUME NEW l \in Learners, Enroll(l, c)
      PROVE  /\ courses'[c].completions = courses[c].completions
             /\ courses'[c].minCompletions = courses[c].minCompletions
             /\ courses'[c].creatorRewardXp = courses[c].creatorRewardXp
  BY <1>0, <1>4 DEF Enroll, PutCourse, CourseType
<1> QED
  BY <1>0, <1>1, <1>2, <1>3, <1>4, CourseSteps

(* While nobody changes the reward settings, the creator of a course has    *)
(* been paid exactly once for each completion from the min_completions-th   *)
(* on (finalize_course, update_course).                                     *)
THEOREM CreatorCorrect == Spec => []CreatorPaidFromThresholdOn
<1> DEFINE CreatorInv == CourseInv /\ AbsentCourses /\ CreatorPaidFromThresholdOn
<1>0. CreatorPaidFromThresholdOn <=> (RewardSettingsFixed => \A c \in Courses : PaidRight(c))
  BY DEF CreatorPaidFromThresholdOn, RewardSettingsFixed, PaidRight, Paid, First
<1>1. Init => CreatorInv
  <2> SUFFICES ASSUME Init
               PROVE  AbsentCourses /\ \A c \in Courses : PaidRight(c)
    BY <1>0, CourseInvInit
  <2> QED
    BY DEF Init, AbsentCourses, PaidRight, Paid, First, NoCourse
<1>2. CreatorInv /\ [Next]_vars => CreatorInv'
  <2> SUFFICES ASSUME CreatorInv, [Next]_vars
               PROVE  CreatorPaidFromThresholdOn'
    BY CourseInvStep, AbsentCoursesStep
  <2>1. ASSUME RewardSettingsFixed, NEW c \in Courses
        PROVE  PaidRight(c)'
    <3>1. PaidRight(c)
      BY <1>0, <2>1
    <3> QED
      BY <2>1, <3>1, FinalizePaysRight, OthersPayNothing
  <2> QED
    BY <2>1 DEF CreatorPaidFromThresholdOn, RewardSettingsFixed, PaidRight, Paid, First
<1>3. CreatorInv => CreatorPaidFromThresholdOn
  OBVIOUS
<1> QED
  BY <1>1, <1>2, <1>3, PTL DEF Spec
=============================================================================
