--------------------------- MODULE RewardProofs -----------------------------
(***************************************************************************)
(* Credentials, minters and achievements for every value of the constants:  *)
(* the NFT an enrollment records is the learner's own, was earned and is    *)
(* recorded nowhere else; retirement is final, every XP is accounted for,   *)
(* receipts and NFTs correspond one to one, supplies count receipts; the    *)
(* accounts implement Transcript.                                           *)
(***************************************************************************)
EXTENDS CourseProofs

(* Credentials. *)

CredentialInv == CourseInv /\ CredentialBacked

(* The instructions that write an asset. *)
LEMMA NftWriters ==
  ASSUME [Next]_vars
  PROVE  \/ UNCHANGED nfts
         \/ \E k \in Keys, l \in Learners, c \in Courses, a \in Assets, s \in Stats :
               IssueCredential(k, l, c, a, s) \/ UpgradeCredential(k, l, c, a, s)
         \/ \E m \in Keys, t \in Achievements, l \in Learners, a \in Assets :
               AwardAchievement(m, t, l, a)
<1>1. ASSUME NEW k \in Keys, NEW c \in Courses,
             \/ \E p \in CourseParams[c] : CreateCourse(k, c, p)
             \/ \E u \in UpdateParams : UpdateCourse(k, c, u)
      PROVE  UNCHANGED nfts
  BY <1>1 DEF CreateCourse, UpdateCourse
<1>2. ASSUME NEW l \in Learners, NEW c \in Courses,
             \/ Enroll(l, c) \/ CloseEnrollment(l, c)
             \/ \E k \in Keys : FinalizeCourse(k, l, c)
             \/ \E k \in Keys, i \in LessonIndexes : CompleteLesson(k, l, c, i)
      PROVE  UNCHANGED nfts
  BY <1>2 DEF Enroll, CloseEnrollment, FinalizeCourse, CompleteLesson
<1>3. CASE CourseNext
  BY <1>1, <1>2, <1>3 DEF CourseNext
<1>4. CASE RewardNext
  BY <1>4 DEF RewardNext, Initialize, UpdateConfig, RegisterMinter, RevokeMinter,
     RewardXp, CreateAchievementType, DeactivateAchievementType
<1> QED
  BY <1>3, <1>4 DEF Next, Tick, vars

(* An asset in use keeps its owner, its track and its achievement: creating *)
(* takes an unused address, upgrading rewrites the attributes only.         *)
LEMMA UsedNftsKeep ==
  ASSUME TypeOK, [Next]_vars, NEW a \in Assets, ~Unused(a)
  PROVE  /\ nfts'[a].owner = nfts[a].owner
         /\ nfts'[a].track = nfts[a].track
         /\ nfts'[a].achievement = nfts[a].achievement
<1> DEFINE Kept == /\ nfts'[a].owner = nfts[a].owner
                   /\ nfts'[a].track = nfts[a].track
                   /\ nfts'[a].achievement = nfts[a].achievement
<1>0. nfts \in [Assets -> NftType] /\ nfts[a] \in NftType
  BY DEF TypeOK
<1>1. ASSUME NEW b \in Assets, NEW l, NEW ts, NEW as, NEW ss, CreateNft(b, l, ts, as, ss)
      PROVE  Kept
  BY <1>0, <1>1 DEF CreateNft
<1>2. ASSUME NEW k \in Keys, NEW l \in Learners, NEW c \in Courses, NEW b \in Assets,
             NEW s \in Stats, IssueCredential(k, l, c, b, s)
      PROVE  Kept
  BY <1>1, <1>2 DEF IssueCredential
<1>3. ASSUME NEW k \in Keys, NEW l \in Learners, NEW c \in Courses, NEW b \in Assets,
             NEW s \in Stats, UpgradeCredential(k, l, c, b, s)
      PROVE  Kept
  BY <1>0, <1>3 DEF UpgradeCredential, NftType
<1>4. ASSUME NEW m \in Keys, NEW t \in Achievements, NEW l \in Learners, NEW b \in Assets,
             AwardAchievement(m, t, l, b)
      PROVE  Kept
  BY <1>1, <1>4 DEF AwardAchievement
<1> QED
  BY <1>2, <1>3, <1>4, NftWriters

(* The only ways an enrollment comes to record an asset. *)
LEMMA AssetSteps ==
  ASSUME TypeOK, [Next]_vars, NEW l \in Learners, NEW c \in Courses,
         enrollments'[l][c].asset # NoAsset
  PROVE  \/ /\ enrollments'[l][c].asset = enrollments[l][c].asset
            /\ enrollments[l][c].completed => enrollments'[l][c].completed
         \/ /\ enrollments'[l][c].asset \in Assets
            /\ \E k \in Keys, s \in Stats : IssueCredential(k, l, c, enrollments'[l][c].asset, s)
<1>0. /\ enrollments \in [Learners -> [Courses -> EnrollmentType]]
      /\ enrollments[l][c] \in EnrollmentType
  BY DEF TypeOK
<1>1. CASE enrollments'[l][c] = enrollments[l][c]
  BY <1>1
<1>2. ~Enroll(l, c) /\ ~CloseEnrollment(l, c)
  BY <1>0 DEF Enroll, CloseEnrollment, Put, NewEnrollment, NoEnrollment
<1>3. ASSUME NEW k \in Keys, NEW i \in LessonIndexes, CompleteLesson(k, l, c, i)
      PROVE  /\ enrollments'[l][c].asset = enrollments[l][c].asset
             /\ enrollments'[l][c].completed = enrollments[l][c].completed
  <2>1. enrollments'[l][c] = [enrollments[l][c] EXCEPT !.flags = @ \cup {i}]
    BY <1>0, <1>3 DEF CompleteLesson, Put
  <2> QED
    BY <1>0, <2>1 DEF EnrollmentType
<1>4. ASSUME NEW k \in Keys, FinalizeCourse(k, l, c)
      PROVE  /\ enrollments'[l][c].asset = enrollments[l][c].asset
             /\ enrollments'[l][c].completed
  <2>1. enrollments'[l][c] = [enrollments[l][c] EXCEPT !.completed = TRUE]
    BY <1>0, <1>4 DEF FinalizeCourse, Put, Finalized
  <2> QED
    BY <1>0, <2>1 DEF EnrollmentType
<1>5. ASSUME NEW k \in Keys, NEW a \in Assets, NEW s \in Stats, IssueCredential(k, l, c, a, s)
      PROVE  a = enrollments'[l][c].asset
  <2>1. enrollments'[l][c] = [enrollments[l][c] EXCEPT !.asset = a]
    BY <1>0, <1>5 DEF IssueCredential, Put
  <2> QED
    BY <1>0, <2>1 DEF EnrollmentType
<1> QED
  BY <1>1, <1>2, <1>3, <1>4, <1>5, EnrollmentSteps

LEMMA CredentialStep == CredentialInv /\ [Next]_vars => CredentialInv'
<1> SUFFICES ASSUME CredentialInv, [Next]_vars
             PROVE  CredentialBacked'
  BY CourseInvStep DEF CredentialInv
<1>0. TypeOK /\ WellFormed /\ CredentialBacked /\ TypeOK'
  BY NextType DEF CredentialInv, CourseInv
<1> DEFINE Asset(l, c)    == enrollments[l][c].asset
           Issued(l, c)   ==
             Asset(l, c)' \in Assets /\ \E k \in Keys, s \in Stats : IssueCredential(k, l, c, Asset(l, c)', s)
<1>1. ASSUME NEW l \in Learners, NEW c \in Courses, Asset(l, c) # NoAsset
      PROVE  /\ Asset(l, c) \in Assets
             /\ enrollments[l][c].completed
             /\ enrollments[l][c].live /\ courses[c].live
             /\ nfts[Asset(l, c)].owner = {l}
             /\ nfts[Asset(l, c)].track = courses[c].track
             /\ ~Unused(Asset(l, c))
  <2>1. enrollments[l][c].asset \in Assets /\ enrollments[l][c].live
    BY <1>0, <1>1 DEF TypeOK, EnrollmentType, WellFormed, NoEnrollment
  <2> QED
    BY <1>0, <1>1, <2>1 DEF CredentialBacked, WellFormed, Unused
<1>2. ASSUME NEW l \in Learners, NEW c \in Courses, Issued(l, c)
      PROVE  /\ Unused(Asset(l, c)') /\ Asset(l, c)' \in Assets
             /\ enrollments'[l][c].completed
             /\ nfts'[Asset(l, c)'].owner = {l}
             /\ nfts'[Asset(l, c)'].track = courses'[c].track
             /\ \A m \in Learners, d \in Courses :
                  m # l \/ d # c => enrollments'[m][d] = enrollments[m][d]
  <2>1. PICK a \in Assets, k \in Keys, s \in Stats :
          IssueCredential(k, l, c, a, s) /\ a = Asset(l, c)'
    BY <1>2
  <2>2. /\ enrollments' = [enrollments EXCEPT ![l][c] = [enrollments[l][c] EXCEPT !.asset = a]]
        /\ enrollments[l][c].completed
        /\ CreateNft(a, l, courses[c].track, {}, {s})
        /\ courses' = courses
    BY <2>1 DEF IssueCredential, MayIssue, Put
  <2>3. enrollments'[l][c] = [enrollments[l][c] EXCEPT !.asset = a]
    BY <1>0, <2>2 DEF TypeOK
  <2>4. enrollments'[l][c].completed
    BY <1>0, <2>2, <2>3 DEF TypeOK, EnrollmentType
  <2>5. \A m \in Learners, d \in Courses :
          m # l \/ d # c => enrollments'[m][d] = enrollments[m][d]
    BY <1>0, <2>2 DEF TypeOK
  <2>6. /\ Unused(a)
        /\ nfts'[a].owner = {l}
        /\ nfts'[a].track = courses'[c].track
    BY <1>0, <2>2 DEF TypeOK, CreateNft
  <2> QED
    BY <2>1, <2>4, <2>5, <2>6
<1>3. ASSUME NEW l \in Learners, NEW c \in Courses, Asset(l, c)' # NoAsset
      PROVE  /\ enrollments'[l][c].completed
             /\ nfts'[Asset(l, c)'].owner = {l}
             /\ nfts'[Asset(l, c)'].track = courses'[c].track
  <2>1. CASE Issued(l, c)
    BY <1>2, <2>1
  <2>2. CASE /\ Asset(l, c)' = Asset(l, c)
             /\ enrollments[l][c].completed => enrollments'[l][c].completed
    <3>1. /\ nfts'[Asset(l, c)].owner = {l}
          /\ nfts'[Asset(l, c)].track = courses[c].track
      BY <1>0, <1>1, <1>3, <2>2, UsedNftsKeep
    <3>2. courses'[c].track = courses[c].track
      BY <1>0, <1>1, <1>3, <2>2, CoursesStayFixed DEF Fixed
    <3> QED
      BY <1>1, <1>3, <2>2, <3>1, <3>2
  <2> QED
    BY <1>0, <1>3, <2>1, <2>2, AssetSteps
<1>4. ASSUME NEW l \in Learners, NEW c \in Courses, NEW m \in Learners, NEW d \in Courses,
             Asset(l, c)' # NoAsset, Asset(m, d)' = Asset(l, c)'
      PROVE  m = l /\ d = c
  <2>1. CASE Asset(l, c)' = Asset(l, c) /\ Asset(m, d)' = Asset(m, d)
    BY <1>0, <1>4, <2>1 DEF CredentialBacked
  <2>2. CASE Issued(l, c)
    BY <1>1, <1>2, <1>4, <2>2
  <2>3. CASE Issued(m, d)
    BY <1>1, <1>2, <1>4, <2>3
  <2> QED
    BY <1>0, <1>4, <2>1, <2>2, <2>3, AssetSteps
<1> QED
  BY <1>3, <1>4 DEF CredentialBacked

(* The credential an enrollment records is the learner's own, for the track *)
(* of that course, earned, and recorded by no other enrollment.             *)
THEOREM CredentialCorrect == Spec => []CredentialBacked
<1>1. Init => CredentialInv
  BY CourseInvInit DEF Init, CredentialInv, CredentialBacked, NoEnrollment
<1>2. CredentialInv => CredentialBacked
  BY DEF CredentialInv
<1> QED
  BY <1>1, <1>2, CredentialStep, PTL DEF Spec

-----------------------------------------------------------------------------
(* Minters and achievements. *)

(* Only reward instructions touch minters, achievements and receipts. *)
LEMMA OthersLeaveRewards ==
  ASSUME Tick \/ CourseNext \/ UNCHANGED vars
  PROVE  UNCHANGED rewardVars
<1>1. ASSUME NEW k \in Keys, NEW c \in Courses,
             \/ \E p \in CourseParams[c] : CreateCourse(k, c, p)
             \/ \E u \in UpdateParams : UpdateCourse(k, c, u)
      PROVE  UNCHANGED rewardVars
  BY <1>1 DEF CreateCourse, UpdateCourse
<1>2. ASSUME NEW l \in Learners, NEW c \in Courses,
             \/ Enroll(l, c) \/ CloseEnrollment(l, c)
             \/ \E k \in Keys : FinalizeCourse(k, l, c)
             \/ \E k \in Keys, i \in LessonIndexes : CompleteLesson(k, l, c, i)
      PROVE  UNCHANGED rewardVars
  BY <1>2 DEF Enroll, CloseEnrollment, FinalizeCourse, CompleteLesson
<1>3. ASSUME NEW k \in Keys, NEW l \in Learners, NEW c \in Courses, NEW a \in Assets,
             NEW s \in Stats, IssueCredential(k, l, c, a, s) \/ UpgradeCredential(k, l, c, a, s)
      PROVE  UNCHANGED rewardVars
  BY <1>3 DEF IssueCredential, UpgradeCredential
<1>4. CASE CourseNext
  BY <1>1, <1>2, <1>3, <1>4 DEF CourseNext
<1> QED
  BY <1>4 DEF Tick, vars, rewardVars

(* The instructions that write an achievement type or a receipt. *)
LEMMA AchievementSteps ==
  ASSUME [Next]_vars
  PROVE  \/ UNCHANGED <<achievements, receipts>>
         \/ \E k \in Keys, t \in Achievements :
               \/ \E p \in AchievementParams : CreateAchievementType(k, t, p)
               \/ DeactivateAchievementType(k, t)
         \/ \E m \in Keys, t \in Achievements, l \in Learners, a \in Assets :
               AwardAchievement(m, t, l, a)
<1>1. CASE RewardNext
  BY <1>1 DEF RewardNext, Initialize, UpdateConfig, RegisterMinter, RevokeMinter, RewardXp
<1> QED
  BY <1>1, OthersLeaveRewards DEF Next, rewardVars

-----------------------------------------------------------------------------
LEMMA TypesRetire ==
  ASSUME TypeOK, [Next]_vars, NEW t \in Achievements, achievements[t].live, ~achievements[t].active
  PROVE  achievements'[t] = achievements[t] /\ receipts'[t] = receipts[t]
<1>0. achievements[t] \in AchievementType
  BY AccountTypes
<1>1. ASSUME NEW k \in Keys, NEW u \in Achievements, NEW p \in AchievementParams,
             CreateAchievementType(k, u, p)
      PROVE  achievements'[t] = achievements[t] /\ receipts'[t] = receipts[t]
  BY <1>1 DEF TypeOK, CreateAchievementType, PutAchievement
<1>2. ASSUME NEW k \in Keys, NEW u \in Achievements, DeactivateAchievementType(k, u)
      PROVE  achievements'[t] = achievements[t] /\ receipts'[t] = receipts[t]
  <2>1. [achievements[t] EXCEPT !.active = FALSE] = achievements[t]
    BY <1>0 DEF AchievementType
  <2> QED
    BY <1>2, <2>1 DEF TypeOK, DeactivateAchievementType, PutAchievement
<1>3. ASSUME NEW m \in Keys, NEW u \in Achievements, NEW l \in Learners, NEW a \in Assets,
             AwardAchievement(m, u, l, a)
      PROVE  achievements'[t] = achievements[t] /\ receipts'[t] = receipts[t]
  BY <1>3 DEF TypeOK, AwardAchievement, Awardable, PutAchievement
<1> QED
  BY <1>1, <1>2, <1>3, AchievementSteps

LEMMA MintersRetire ==
  ASSUME TypeOK, [Next]_vars, NEW m \in Keys, minters[m].live, ~minters[m].active
  PROVE  minters'[m] \in {minters[m], NoMinter}
<1>0. minters[m] \in MinterType
  BY AccountTypes
<1>1. ASSUME NEW k \in Keys, Initialize(k)
      PROVE  minters'[m] = minters[m]
  BY <1>1 DEF TypeOK, Initialize, PutMinter
<1>2. ASSUME NEW k \in Keys, NEW s \in Keys, NEW old \in Option(Keys), UpdateConfig(k, s, old)
      PROVE  minters'[m] = minters[m]
  <2>1. Retired(minters[m]) = minters[m]
    BY <1>0 DEF Retired, MinterType
  <2> QED
    BY <1>2, <2>1 DEF UpdateConfig
<1>3. ASSUME NEW k \in Keys, NEW n \in Keys, NEW cap \in Caps, RegisterMinter(k, n, cap)
      PROVE  minters'[m] = minters[m]
  BY <1>3 DEF TypeOK, RegisterMinter, PutMinter
<1>4. ASSUME NEW k \in Keys, NEW n \in Keys, RevokeMinter(k, n)
      PROVE  minters'[m] \in {minters[m], NoMinter}
  BY <1>4 DEF TypeOK, RevokeMinter, PutMinter
<1>5. ASSUME NEW n \in Keys, NEW amount \in Amounts, RewardXp(n, amount)
      PROVE  minters'[m] = minters[m]
  BY <1>5 DEF TypeOK, RewardXp, PutMinter
<1>6. ASSUME NEW n \in Keys, NEW t \in Achievements, NEW l \in Learners, NEW a \in Assets,
             AwardAchievement(n, t, l, a)
      PROVE  minters'[m] = minters[m]
  BY <1>6 DEF TypeOK, AwardAchievement, PutMinter
<1>7. ASSUME NEW k \in Keys, NEW t \in Achievements,
             \/ \E p \in AchievementParams : CreateAchievementType(k, t, p)
             \/ DeactivateAchievementType(k, t)
      PROVE  minters'[m] = minters[m]
  BY <1>7 DEF CreateAchievementType, DeactivateAchievementType
<1>8. CASE RewardNext
  BY <1>1, <1>2, <1>3, <1>4, <1>5, <1>6, <1>7, <1>8 DEF RewardNext
<1> QED
  BY <1>8, OthersLeaveRewards DEF Next, rewardVars

(* A retired achievement type is never changed or awarded again, and a      *)
(* retired minter role never mints again: it stays as it is until the       *)
(* authority revokes it.                                                    *)
THEOREM RetirementCorrect == Spec => RetirementIsFinal
<1>1. TypeOK /\ [Next]_vars => [RetiredStaysRetired]_vars
  BY TypesRetire, MintersRetire DEF RetiredStaysRetired
<1> QED
  BY <1>1, TypeCorrect, PTL DEF Spec, RetirementIsFinal

-----------------------------------------------------------------------------
(* The XP in circulation. *)

Minted == [m \in Keys |-> minters[m].total]

(* The strengthening: a role that does not exist has minted nothing, so     *)
(* initialize and register_minter cannot forget a total.                    *)
XpInv ==
  /\ TypeOK
  /\ XpAccounted
  /\ \A m \in Keys : ~minters[m].live => minters[m].total = 0

LEMMA BalanceType ==
  ASSUME TypeOK
  PROVE  /\ IsFiniteSet(Keys) /\ Minted \in [Keys -> Int]
         /\ SumFunctionOnSet(Minted, Keys) \in Int
         /\ xpSupply \in Int /\ courseXp \in Int /\ revokedXp \in Int
<1>1. Minted \in [Keys -> Int]
  BY ConstantsAssumption DEF TypeOK, MinterType, Minted
<1>2. IsFiniteSet(Keys) /\ xpSupply \in Int /\ courseXp \in Int /\ revokedXp \in Int
  BY ConstantsAssumption DEF TypeOK
<1> QED
  BY <1>1, <1>2, SumType

(* Writing one role moves the sum by that role's difference. *)
LEMMA OneRole ==
  ASSUME TypeOK, TypeOK', NEW w \in Keys, \A m \in Keys \ {w} : minters'[m] = minters[m]
  PROVE  SumFunctionOnSet(Minted', Keys) =
           SumFunctionOnSet(Minted, Keys) - minters[w].total + minters'[w].total
<1>1. PICK e : e = Minted
  OBVIOUS
<1>2. PICK f : f = Minted'
  OBVIOUS
<1>3. /\ e \in [Keys -> Int] /\ f \in [Keys -> Int]
      /\ e[w] = minters[w].total /\ f[w] = minters'[w].total
      /\ \A m \in Keys \ {w} : e[m] = f[m]
  BY <1>1, <1>2, ConstantsAssumption DEF Minted, TypeOK, MinterType
<1>4. SumFunctionOnSet(f, Keys) = SumFunctionOnSet(e, Keys) - e[w] + f[w]
  BY <1>3, ConstantsAssumption, SumChanges
<1> QED
  BY <1>1, <1>2, <1>3, <1>4

LEMMA SameTotals ==
  ASSUME \A m \in Keys : minters'[m].total = minters[m].total
  PROVE  SumFunctionOnSet(Minted', Keys) = SumFunctionOnSet(Minted, Keys)
<1>1. Minted' = Minted
  BY DEF Minted
<1> QED
  BY <1>1

(* A new role starts at the zero of the missing one, a reward adds to the   *)
(* supply what it adds to a role, a revocation moves a total to the history.*)
LEMMA XpRewardStep == XpInv /\ RewardNext => XpInv'
<1> SUFFICES ASSUME XpInv, RewardNext
             PROVE  XpInv'
  OBVIOUS
<1>0. /\ TypeOK /\ TypeOK'
      /\ minters \in [Keys -> MinterType]
      /\ xpSupply = courseXp + revokedXp + SumFunctionOnSet(Minted, Keys)
      /\ \A m \in Keys : ~minters[m].live => minters[m].total = 0
      /\ \A m \in Keys : minters[m].total \in Int
  BY RewardStepType, ConstantsAssumption DEF XpInv, XpAccounted, Minted, TypeOK, MinterType
<1> DEFINE Goal ==
      /\ xpSupply' = courseXp' + revokedXp' + SumFunctionOnSet(Minted', Keys)
      /\ \A m \in Keys : ~minters'[m].live => minters'[m].total = 0
<1>1. ASSUME NEW w \in Keys, NEW cap \in 0..U64Max, PutMinter(w, NewMinter(cap)), ~minters[w].live,
             UNCHANGED <<xpSupply, courseXp, revokedXp>>
      PROVE  Goal
  <2>1. minters'[w] = NewMinter(cap) /\ \A m \in Keys \ {w} : minters'[m] = minters[m]
    BY <1>0, <1>1 DEF PutMinter
  <2>2. minters'[w].live /\ minters'[w].total = 0 /\ minters[w].total = 0
    BY <1>0, <1>1, <2>1 DEF NewMinter
  <2>3. SumFunctionOnSet(Minted', Keys) =
          SumFunctionOnSet(Minted, Keys) - minters[w].total + minters'[w].total
    BY <1>0, <2>1, OneRole
  <2>4. SumFunctionOnSet(Minted', Keys) = SumFunctionOnSet(Minted, Keys)
    BY <1>0, <2>2, <2>3, BalanceType
  <2> QED
    BY <1>0, <1>1, <2>1, <2>2, <2>4
<1>2. ASSUME NEW w \in Keys, NEW amount \in Nat, PutMinter(w, Credited(minters[w], amount)),
             minters[w].live, MintXp(amount), UNCHANGED <<courseXp, revokedXp>>
      PROVE  Goal
  <2>1. minters'[w] = Credited(minters[w], amount) /\ \A m \in Keys \ {w} : minters'[m] = minters[m]
    BY <1>0, <1>2 DEF PutMinter
  <2>2. minters'[w].live /\ minters'[w].total = minters[w].total + amount
    BY <1>0, <1>2, <2>1 DEF Credited, MinterType
  <2>3. SumFunctionOnSet(Minted', Keys) =
          SumFunctionOnSet(Minted, Keys) - minters[w].total + minters'[w].total
    BY <1>0, <2>1, OneRole
  <2>4. SumFunctionOnSet(Minted', Keys) = SumFunctionOnSet(Minted, Keys) + amount
    BY <1>0, <2>2, <2>3, BalanceType
  <2>5. xpSupply' = xpSupply + amount
    BY <1>2 DEF MintXp
  <2> QED
    BY <1>0, <1>2, <2>1, <2>2, <2>4, <2>5, BalanceType
<1>3. ASSUME NEW k \in Keys, Initialize(k)
      PROVE  Goal
  <2>1. 0 \in 0..U64Max
    BY ConstantsAssumption
  <2> QED
    BY <1>1, <1>3, <2>1 DEF Initialize, historyVars
<1>4. ASSUME NEW k \in Keys, NEW m \in Keys, NEW cap \in Caps, RegisterMinter(k, m, cap)
      PROVE  Goal
  BY <1>1, <1>4, ConstantsAssumption DEF RegisterMinter, historyVars
<1>5. ASSUME NEW m \in Keys, NEW amount \in Amounts, RewardXp(m, amount)
      PROVE  Goal
  BY <1>2, <1>5, ConstantsAssumption DEF RewardXp, historyVars
<1>6. ASSUME NEW m \in Keys, NEW t \in Achievements, NEW l \in Learners, NEW a \in Assets,
             AwardAchievement(m, t, l, a)
      PROVE  Goal
  <2>1. achievements[t].xpReward \in Nat
    BY <1>0, ConstantsAssumption DEF TypeOK, AchievementType
  <2> QED
    BY <1>2, <1>6, <2>1 DEF AwardAchievement, historyVars
<1>7. ASSUME NEW k \in Keys, NEW s \in Keys, NEW old \in Option(Keys), UpdateConfig(k, s, old)
      PROVE  Goal
  <2>1. ASSUME NEW m \in Keys
        PROVE  /\ minters'[m].total = minters[m].total
               /\ minters'[m].live = minters[m].live
    <3>1. minters'[m] = minters[m] \/ minters'[m] = Retired(minters[m])
      BY <1>7 DEF UpdateConfig
    <3> QED
      BY <1>0, <3>1 DEF Retired, MinterType
  <2> QED
    BY <1>0, <1>7, <2>1, SameTotals DEF UpdateConfig, historyVars
<1>8. ASSUME NEW k \in Keys, NEW w \in Keys, RevokeMinter(k, w)
      PROVE  Goal
  <2>1. minters'[w] = NoMinter /\ \A m \in Keys \ {w} : minters'[m] = minters[m]
    BY <1>0, <1>8 DEF RevokeMinter, PutMinter
  <2>2. minters'[w].total = 0
    BY <2>1 DEF NoMinter
  <2>3. SumFunctionOnSet(Minted', Keys) =
          SumFunctionOnSet(Minted, Keys) - minters[w].total + minters'[w].total
    BY <1>0, <2>1, OneRole
  <2>4. SumFunctionOnSet(Minted', Keys) = SumFunctionOnSet(Minted, Keys) - minters[w].total
    BY <1>0, <2>2, <2>3, BalanceType
  <2>5. xpSupply' = xpSupply /\ courseXp' = courseXp /\ revokedXp' = revokedXp + minters[w].total
    BY <1>8 DEF RevokeMinter
  <2> QED
    BY <1>0, <2>1, <2>2, <2>4, <2>5, BalanceType
<1>9. ASSUME NEW k \in Keys, NEW t \in Achievements,
             \/ \E p \in AchievementParams : CreateAchievementType(k, t, p)
             \/ DeactivateAchievementType(k, t)
      PROVE  Goal
  <2>1. UNCHANGED <<minters, xpSupply, courseXp, revokedXp>>
    BY <1>9 DEF CreateAchievementType, DeactivateAchievementType, historyVars
  <2> QED
    BY <1>0, <2>1, SameTotals
<1>10. Goal
  <2> HIDE DEF Goal
  <2> QED
    BY <1>3, <1>4, <1>5, <1>6, <1>7, <1>8, <1>9 DEF RewardNext
<1> QED
  BY <1>0, <1>10 DEF XpInv, XpAccounted, Minted

(* The course instructions mint what their events report. *)
LEMMA CourseXpSteps ==
  ASSUME TypeOK, Tick \/ CourseNext \/ UNCHANGED vars
  PROVE  /\ UNCHANGED <<minters, revokedXp>>
         /\ \/ UNCHANGED <<xpSupply, courseXp>>
            \/ \E n \in Nat : xpSupply' = xpSupply + n /\ courseXp' = courseXp + n
<1>1. UNCHANGED minters
  BY OthersLeaveRewards DEF rewardVars
<1> DEFINE Goal == /\ revokedXp' = revokedXp
                   /\ \/ UNCHANGED <<xpSupply, courseXp>>
                      \/ \E n \in Nat : xpSupply' = xpSupply + n /\ courseXp' = courseXp + n
<1>2. ASSUME NEW k \in Keys, NEW c \in Courses,
             \/ \E p \in CourseParams[c] : CreateCourse(k, c, p)
             \/ \E u \in UpdateParams : UpdateCourse(k, c, u)
      PROVE  Goal
  BY <1>2 DEF CreateCourse, UpdateCourse, historyVars
<1>3. ASSUME NEW l \in Learners, NEW c \in Courses, Enroll(l, c) \/ CloseEnrollment(l, c)
      PROVE  Goal
  BY <1>3 DEF Enroll, CloseEnrollment, historyVars
<1>4. ASSUME NEW k \in Keys, NEW l \in Learners, NEW c \in Courses, NEW i \in LessonIndexes,
             CompleteLesson(k, l, c, i)
      PROVE  Goal
  <2>1. courses[c].xpPerLesson \in Nat
    BY ConstantsAssumption DEF TypeOK, CourseType
  <2> QED
    BY <1>4, <2>1 DEF CompleteLesson, MintXp
<1>5. ASSUME NEW k \in Keys, NEW l \in Learners, NEW c \in Courses, FinalizeCourse(k, l, c)
      PROVE  Goal
  <2>1. CompletionBonus(courses[c]) + CreatorReward(courses[c]) \in Nat
    BY MintedType DEF TypeOK
  <2> QED
    BY <1>5, <2>1 DEF FinalizeCourse, MintXp
<1>6. ASSUME NEW k \in Keys, NEW l \in Learners, NEW c \in Courses, NEW a \in Assets,
             NEW s \in Stats, IssueCredential(k, l, c, a, s) \/ UpgradeCredential(k, l, c, a, s)
      PROVE  Goal
  BY <1>6 DEF IssueCredential, UpgradeCredential, historyVars
<1>7. ASSUME Tick \/ UNCHANGED vars
      PROVE  Goal
  BY <1>7 DEF Tick, vars, historyVars
<1>8. Goal
  <2> HIDE DEF Goal
  <2> QED
    BY <1>2, <1>3, <1>4, <1>5, <1>6, <1>7 DEF CourseNext
<1> QED
  BY <1>1, <1>8

(* Every XP in circulation is in a course event, in a live role's total or  *)
(* in the total a revoked role reported: no instruction mints without       *)
(* recording it, and revoking and registering a role again loses nothing.   *)
THEOREM XpCorrect == Spec => []XpAccounted
<1>1. Init => XpInv
  <2> SUFFICES ASSUME Init
               PROVE  XpInv
    OBVIOUS
  <2>1. TypeOK /\ xpSupply = 0 /\ courseXp = 0 /\ revokedXp = 0
    BY InitType DEF Init
  <2>2. \A m \in Keys : Minted[m] = 0 /\ minters[m].total = 0
    BY DEF Init, NoMinter, Minted
  <2>3. SumFunctionOnSet(Minted, Keys) = 0
    <3>1. PICK f : f = Minted
      OBVIOUS
    <3> QED
      BY <2>1, <2>2, <3>1, BalanceType, SumOfZeroes
  <2> QED
    BY <2>1, <2>2, <2>3 DEF XpInv, XpAccounted, Minted
<1>2. XpInv /\ (Tick \/ CourseNext \/ UNCHANGED vars) => XpInv'
  <2> SUFFICES ASSUME XpInv, Tick \/ CourseNext \/ UNCHANGED vars
               PROVE  XpInv'
    OBVIOUS
  <2>1. TypeOK /\ TypeOK' /\ UNCHANGED <<minters, revokedXp>>
    BY NextType, CourseXpSteps DEF XpInv, Next
  <2>2. SumFunctionOnSet(Minted', Keys) = SumFunctionOnSet(Minted, Keys)
    BY <2>1, SameTotals
  <2>3. xpSupply = courseXp + revokedXp + SumFunctionOnSet(Minted, Keys)
    BY DEF XpInv, XpAccounted, Minted
  <2>4. xpSupply' = courseXp' + revokedXp' + SumFunctionOnSet(Minted', Keys)
    BY <2>1, <2>2, <2>3, CourseXpSteps, BalanceType
  <2> QED
    BY <2>1, <2>4 DEF XpInv, XpAccounted, Minted
<1>3. XpInv /\ [Next]_vars => XpInv'
  BY <1>2, XpRewardStep DEF Next
<1>4. XpInv => XpAccounted
  BY DEF XpInv
<1> QED
  BY <1>1, <1>3, <1>4, PTL DEF Spec

-----------------------------------------------------------------------------
(* The strengthening: an achievement type that was never created has never  *)
(* been awarded.                                                            *)
SupplyInv ==
  /\ TypeOK
  /\ SupplyCountsReceipts
  /\ \A t \in Achievements : ~achievements[t].live => achievements[t].supply = 0

LEMMA SupplyInit == Init => SupplyInv
<1> SUFFICES ASSUME Init
             PROVE  SupplyInv
  OBVIOUS
<1>1. ASSUME NEW t \in Achievements
      PROVE  Recipients(t) = {}
  BY <1>1 DEF Init, Recipients
<1>2. Cardinality({}) = 0
  BY FS_EmptySet
<1>3. ASSUME NEW t \in Achievements
      PROVE  achievements[t].supply = 0 /\ achievements[t].maxSupply = 0
  BY <1>3 DEF Init, NoAchievement
<1>4. SupplyCountsReceipts
  BY <1>1, <1>2, <1>3 DEF SupplyCountsReceipts
<1> QED
  BY <1>3, <1>4, InitType DEF SupplyInv

LEMMA SupplyStep == SupplyInv /\ [Next]_vars => SupplyInv'
<1> SUFFICES ASSUME SupplyInv, [Next]_vars
             PROVE  SupplyInv'
  OBVIOUS
<1> DEFINE Holds(t) ==
             /\ achievements'[t].supply = Cardinality(Recipients(t)')
             /\ achievements'[t].maxSupply > 0 =>
                  achievements'[t].supply <= achievements'[t].maxSupply
             /\ ~achievements'[t].live => achievements'[t].supply = 0
<1>0. /\ TypeOK /\ TypeOK'
      /\ \A t \in Achievements :
           /\ achievements[t] \in AchievementType
           /\ achievements[t].supply = Cardinality(Recipients(t))
           /\ achievements[t].maxSupply > 0 => achievements[t].supply <= achievements[t].maxSupply
           /\ ~achievements[t].live => achievements[t].supply = 0
  BY NextType, AccountTypes DEF SupplyInv, SupplyCountsReceipts
<1>1. ASSUME NEW t \in Achievements, achievements'[t] = achievements[t], receipts'[t] = receipts[t]
      PROVE  Holds(t)
  <2>1. Recipients(t)' = Recipients(t)
    BY <1>1 DEF Recipients
  <2> QED
    BY <1>0, <1>1, <2>1
<1>2. ASSUME NEW k \in Keys, NEW u \in Achievements, NEW p \in AchievementParams,
             CreateAchievementType(k, u, p), NEW t \in Achievements
      PROVE  Holds(t)
  <2>1. CASE t # u
    BY <1>0, <1>1, <1>2, <2>1 DEF TypeOK, CreateAchievementType, PutAchievement
  <2>2. CASE t = u
    <3>1. /\ receipts' = receipts /\ ~achievements[t].live
          /\ achievements'[t].supply = 0 /\ achievements'[t].live
          /\ achievements'[t].maxSupply \in 0..U32Max
      BY <1>0, <1>2, <2>2 DEF TypeOK, CreateAchievementType, PutAchievement, AchievementType
    <3>2. Recipients(t)' = Recipients(t)
      BY <3>1 DEF Recipients
    <3> QED
      BY <1>0, <3>1, <3>2
  <2> QED
    BY <2>1, <2>2
<1>3. ASSUME NEW k \in Keys, NEW u \in Achievements, DeactivateAchievementType(k, u),
             NEW t \in Achievements
      PROVE  Holds(t)
  <2>1. CASE t # u
    BY <1>0, <1>1, <1>3, <2>1 DEF TypeOK, DeactivateAchievementType, PutAchievement
  <2>2. CASE t = u
    <3>1. achievements'[t] = [achievements[t] EXCEPT !.active = FALSE] /\ receipts' = receipts
      BY <1>0, <1>3, <2>2 DEF TypeOK, DeactivateAchievementType, PutAchievement
    <3>2. /\ achievements'[t].supply = achievements[t].supply
          /\ achievements'[t].maxSupply = achievements[t].maxSupply
          /\ achievements'[t].live = achievements[t].live
      BY <1>0, <3>1 DEF AchievementType
    <3>3. Recipients(t)' = Recipients(t)
      BY <3>1 DEF Recipients
    <3> QED
      BY <1>0, <3>2, <3>3
  <2> QED
    BY <2>1, <2>2
<1>4. ASSUME NEW m \in Keys, NEW u \in Achievements, NEW l \in Learners, NEW a \in Assets,
             AwardAchievement(m, u, l, a), NEW t \in Achievements
      PROVE  Holds(t)
  <2>1. CASE t # u
    BY <1>0, <1>1, <1>4, <2>1 DEF TypeOK, AwardAchievement, PutAchievement
  <2>2. CASE t = u
    <3>1. /\ achievements'[t] = [achievements[t] EXCEPT !.supply = @ + 1]
          /\ SupplyLeft(achievements[t]) /\ achievements[t].live
          /\ receipts[t][l] = NoAsset
          /\ receipts' = [receipts EXCEPT ![t][l] = a]
      BY <1>0, <1>4, <2>2 DEF TypeOK, AwardAchievement, PutAchievement, Awardable, NotAwarded
    <3>2. Recipients(t)' = Recipients(t) \cup {l} /\ l \notin Recipients(t)
      BY <1>0, <3>1, ConstantsAssumption DEF TypeOK, Recipients
    <3>3. IsFiniteSet(Recipients(t))
      BY ConstantsAssumption, FS_Subset DEF Recipients
    <3>4. Cardinality(Recipients(t)') = Cardinality(Recipients(t)) + 1
      BY <3>2, <3>3, FS_AddElement
    <3>5. /\ achievements'[t].supply = achievements[t].supply + 1
          /\ achievements'[t].maxSupply = achievements[t].maxSupply
          /\ achievements'[t].live
      BY <1>0, <3>1 DEF AchievementType
    <3>6. achievements[t].supply \in Nat /\ achievements[t].maxSupply \in Nat
      BY <1>0, ConstantsAssumption DEF AchievementType
    <3> QED
      BY <1>0, <3>1, <3>4, <3>5, <3>6 DEF SupplyLeft
  <2> QED
    BY <2>1, <2>2
<1>5. ASSUME NEW t \in Achievements
      PROVE  Holds(t)
  BY <1>1, <1>2, <1>3, <1>4, AchievementSteps
<1> QED
  BY <1>0, <1>5 DEF SupplyInv, SupplyCountsReceipts

(* However many minters award it, an achievement's supply is the number of  *)
(* learners who hold a receipt, and it never exceeds max_supply.            *)
THEOREM SupplyCorrect == Spec => []SupplyCountsReceipts
<1>1. SupplyInv => SupplyCountsReceipts
  BY DEF SupplyInv
<1> QED
  BY <1>1, SupplyInit, SupplyStep, PTL DEF Spec

-----------------------------------------------------------------------------
ReceiptInv == TypeOK /\ ReceiptsMatchNfts

(* An asset keeps its owner and achievement, becomes a credential, or is    *)
(* created by an award.                                                     *)
LEMMA NftSteps ==
  ASSUME TypeOK, [Next]_vars, NEW a \in Assets
  PROVE  \/ nfts'[a].owner = nfts[a].owner /\ nfts'[a].achievement = nfts[a].achievement
         \/ nfts'[a].achievement = {}
         \/ \E m \in Keys, t \in Achievements, l \in Learners : AwardAchievement(m, t, l, a)
<1> DEFINE Kept == nfts'[a].owner = nfts[a].owner /\ nfts'[a].achievement = nfts[a].achievement
<1>0. nfts \in [Assets -> NftType] /\ nfts[a] \in NftType
  BY DEF TypeOK
<1>1. CASE ~Unused(a)
  BY <1>1, UsedNftsKeep
<1>2. ASSUME NEW k \in Keys, NEW l \in Learners, NEW c \in Courses, NEW b \in Assets,
             NEW s \in Stats, IssueCredential(k, l, c, b, s)
      PROVE  Kept \/ nfts'[a].achievement = {}
  BY <1>0, <1>2 DEF IssueCredential, CreateNft
<1>3. ASSUME NEW k \in Keys, NEW l \in Learners, NEW c \in Courses, NEW b \in Assets,
             NEW s \in Stats, UpgradeCredential(k, l, c, b, s)
      PROVE  Kept
  BY <1>0, <1>3 DEF UpgradeCredential, NftType
<1>4. ASSUME NEW m \in Keys, NEW t \in Achievements, NEW l \in Learners, NEW b \in Assets,
             AwardAchievement(m, t, l, b)
      PROVE  Kept \/ a = b
  BY <1>0, <1>4 DEF AwardAchievement, CreateNft
<1>5. \/ UNCHANGED nfts
      \/ \E k \in Keys, l \in Learners, c \in Courses, b \in Assets, s \in Stats :
            IssueCredential(k, l, c, b, s) \/ UpgradeCredential(k, l, c, b, s)
      \/ \E m \in Keys, t \in Achievements, l \in Learners, b \in Assets :
            AwardAchievement(m, t, l, b)
  BY NftWriters
<1> QED
  BY <1>2, <1>3, <1>4, <1>5

LEMMA ReceiptStep == ReceiptInv /\ [Next]_vars => ReceiptInv'
<1> SUFFICES ASSUME ReceiptInv, [Next]_vars
             PROVE  ReceiptsMatchNfts'
  BY NextType DEF ReceiptInv
<1>0. /\ TypeOK /\ TypeOK' /\ ReceiptsMatchNfts
      /\ receipts \in [Achievements -> [Learners -> Assets \cup {NoAsset}]]
      /\ \A a \in Assets : nfts[a] \in NftType
  BY NextType DEF ReceiptInv, TypeOK
<1>1. ASSUME NEW t \in Achievements, NEW l \in Learners, receipts[t][l] # NoAsset
      PROVE  /\ receipts[t][l] \in Assets
             /\ ~Unused(receipts[t][l])
             /\ nfts[receipts[t][l]].owner = {l}
             /\ nfts[receipts[t][l]].achievement = {t}
  <2>1. nfts[receipts[t][l]].owner = {l} /\ nfts[receipts[t][l]].achievement = {t}
    BY <1>0, <1>1 DEF ReceiptsMatchNfts
  <2> QED
    BY <1>0, <1>1, <2>1 DEF Unused
<1>2. ASSUME NEW m \in Keys, NEW t \in Achievements, NEW l \in Learners, NEW a \in Assets,
             AwardAchievement(m, t, l, a)
      PROVE  /\ receipts'[t][l] = a /\ receipts[t][l] = NoAsset
             /\ nfts'[a].owner = {l} /\ nfts'[a].achievement = {t}
             /\ \A u \in Achievements, n \in Learners :
                  u # t \/ n # l => receipts'[u][n] = receipts[u][n]
  BY <1>0, <1>2 DEF TypeOK, AwardAchievement, CreateNft, NotAwarded
<1>3. ASSUME NEW t \in Achievements, NEW l \in Learners, receipts'[t][l] # receipts[t][l]
      PROVE  \E m \in Keys, a \in Assets : AwardAchievement(m, t, l, a)
  <2>1. \A k \in Keys, u \in Achievements :
          /\ \A p \in AchievementParams : ~CreateAchievementType(k, u, p)
          /\ ~DeactivateAchievementType(k, u)
    BY <1>3 DEF CreateAchievementType, DeactivateAchievementType
  <2>2. PICK m \in Keys, u \in Achievements, n \in Learners, a \in Assets :
          AwardAchievement(m, u, n, a)
    BY <1>3, <2>1, AchievementSteps
  <2>3. u = t /\ n = l
    BY <1>2, <1>3, <2>2
  <2> QED
    BY <2>2, <2>3
<1>4. ASSUME NEW t \in Achievements, NEW l \in Learners, receipts'[t][l] # NoAsset
      PROVE  nfts'[receipts'[t][l]].owner = {l} /\ nfts'[receipts'[t][l]].achievement = {t}
  <2>1. CASE receipts'[t][l] = receipts[t][l]
    <3>1. receipts[t][l] # NoAsset
      BY <1>4, <2>1
    <3>2. receipts[t][l] \in Assets /\ ~Unused(receipts[t][l])
      BY <1>1, <3>1
    <3>3. /\ nfts'[receipts[t][l]].owner = nfts[receipts[t][l]].owner
          /\ nfts'[receipts[t][l]].achievement = nfts[receipts[t][l]].achievement
      BY <1>0, <3>2, UsedNftsKeep
    <3> QED
      BY <1>1, <2>1, <3>1, <3>3
  <2>2. CASE receipts'[t][l] # receipts[t][l]
    BY <1>2, <1>3, <2>2
  <2> QED
    BY <2>1, <2>2
<1>5. ASSUME NEW a \in Assets, NEW t \in nfts'[a].achievement, NEW l \in nfts'[a].owner
      PROVE  receipts'[t][l] = a
  <2>1. CASE nfts'[a].owner = nfts[a].owner /\ nfts'[a].achievement = nfts[a].achievement
    <3>1. receipts[t][l] = a /\ t \in Achievements /\ l \in Learners /\ a # NoAsset
      BY <1>0, <1>5, <2>1, ConstantsAssumption DEF NftType, ReceiptsMatchNfts
    <3> QED
      BY <1>2, <1>3, <3>1
  <2>2. CASE \E m \in Keys, u \in Achievements, n \in Learners : AwardAchievement(m, u, n, a)
    BY <1>2, <2>2
  <2> QED
    BY <1>0, <2>1, <2>2, NftSteps
<1> QED
  BY <1>4, <1>5 DEF ReceiptsMatchNfts

(* A receipt always names an NFT of its achievement owned by its recipient, *)
(* and every achievement NFT is named by its owner's receipt: nobody is     *)
(* given the same achievement twice.                                        *)
THEOREM ReceiptsCorrect == Spec => []ReceiptsMatchNfts
<1>1. Init => ReceiptInv
  BY InitType DEF Init, ReceiptInv, ReceiptsMatchNfts, NoNft
<1>2. ReceiptInv => ReceiptsMatchNfts
  BY DEF ReceiptInv
<1> QED
  BY <1>1, <1>2, ReceiptStep, PTL DEF Spec

-----------------------------------------------------------------------------
(* The refinement of Transcript that run "academy" checks on an instance. *)

(* The abstract stage and lessons, as the refinement mapping computes them. *)
StageMap   == [l \in Learners |-> [c \in Courses |-> StageOf(enrollments[l][c])]]
LessonsMap == [l \in Learners |-> [c \in Courses |-> enrollments[l][c].flags]]

LEMMA TranscriptInit == Init => T!Init
BY DEF Init, T!Init, StageOf, NoEnrollment

(* Two functions of a learner and a course that agree everywhere are equal. *)
LEMMA SameTable ==
  ASSUME NEW f, NEW g,
         f = [l \in Learners |-> [c \in Courses |-> f[l][c]]],
         g = [l \in Learners |-> [c \in Courses |-> g[l][c]]],
         \A l \in Learners, c \in Courses : f[l][c] = g[l][c]
  PROVE  f = g
<1>1. \A l \in Learners : f[l] = [c \in Courses |-> f[l][c]] /\ g[l] = [c \in Courses |-> g[l][c]]
  OBVIOUS
<1>2. \A l \in Learners : f[l] = g[l]
  BY <1>1
<1> QED
  BY <1>2

(* Writing one entry of a table. *)
LEMMA WriteTable ==
  ASSUME NEW f, f = [l \in Learners |-> [c \in Courses |-> f[l][c]]],
         NEW g, g = [l \in Learners |-> [c \in Courses |-> g[l][c]]],
         NEW l \in Learners, NEW c \in Courses, NEW x, g[l][c] = x,
         \A m \in Learners, d \in Courses : m # l \/ d # c => g[m][d] = f[m][d]
  PROVE  g = [f EXCEPT ![l][c] = x]
<1> DEFINE h == [f EXCEPT ![l][c] = x]
<1>1. \A m \in Learners : h[m] = IF m = l THEN [f[l] EXCEPT ![c] = x] ELSE f[m]
  OBVIOUS
<1>2. [f[l] EXCEPT ![c] = x] = [d \in Courses |-> IF d = c THEN x ELSE f[l][d]]
  <2>1. f[l] = [d \in Courses |-> f[l][d]]
    OBVIOUS
  <2> QED
    BY <2>1
<1>3. h = [m \in Learners |-> h[m]]
  OBVIOUS
<1> HIDE DEF h
<1>4. ASSUME NEW m \in Learners
      PROVE  h[m] = [d \in Courses |-> h[m][d]]
  <2>1. CASE m = l
    BY <1>1, <1>2, <2>1
  <2>2. CASE m # l
    <3>1. f[m] = [d \in Courses |-> f[m][d]]
      OBVIOUS
    <3> QED
      BY <1>1, <2>2, <3>1
  <2> QED
    BY <2>1, <2>2
<1>5. h = [m \in Learners |-> [d \in Courses |-> h[m][d]]]
  BY <1>3, <1>4
<1>6. ASSUME NEW m \in Learners, NEW d \in Courses
      PROVE  g[m][d] = h[m][d]
  <2>1. CASE m = l
    <3>1. h[m][d] = IF d = c THEN x ELSE f[l][d]
      BY <1>1, <1>2, <2>1
    <3> QED
      BY <2>1, <3>1
  <2>2. CASE m # l
    BY <1>1, <2>2
  <2> QED
    BY <2>1, <2>2
<1>7. g = h
  BY <1>5, <1>6, SameTable
<1> QED
  BY <1>7 DEF h

(* Writing one enrollment moves one learner in one course. *)
LEMMA Moved ==
  ASSUME TypeOK, NEW l \in Learners, NEW c \in Courses, NEW e, Put(l, c, e)
  PROVE  /\ StageMap' = [StageMap EXCEPT ![l][c] = StageOf(e)]
         /\ LessonsMap' = [LessonsMap EXCEPT ![l][c] = e.flags]
<1>1. /\ enrollments'[l][c] = e
      /\ \A m \in Learners, d \in Courses :
           m # l \/ d # c => enrollments'[m][d] = enrollments[m][d]
  BY DEF TypeOK, Put
<1>2. /\ StageMap'[l][c] = StageOf(e) /\ LessonsMap'[l][c] = e.flags
      /\ \A m \in Learners, d \in Courses :
           m # l \/ d # c =>
             StageMap'[m][d] = StageMap[m][d] /\ LessonsMap'[m][d] = LessonsMap[m][d]
  BY <1>1 DEF StageMap, LessonsMap
<1>3. /\ StageMap = [m \in Learners |-> [d \in Courses |-> StageMap[m][d]]]
      /\ StageMap' = [m \in Learners |-> [d \in Courses |-> StageMap'[m][d]]]
      /\ LessonsMap = [m \in Learners |-> [d \in Courses |-> LessonsMap[m][d]]]
      /\ LessonsMap' = [m \in Learners |-> [d \in Courses |-> LessonsMap'[m][d]]]
  BY DEF StageMap, LessonsMap
<1> QED
  BY <1>2, <1>3, WriteTable

(* A write that keeps the lessons leaves the abstract lessons alone, and    *)
(* one that keeps the stage leaves the abstract stage alone.                *)
LEMMA Unmoved ==
  ASSUME TypeOK, NEW l \in Learners, NEW c \in Courses
  PROVE  /\ [StageMap EXCEPT ![l][c] = StageOf(enrollments[l][c])] = StageMap
         /\ [LessonsMap EXCEPT ![l][c] = enrollments[l][c].flags] = LessonsMap
         /\ StageMap[l][c] = StageOf(enrollments[l][c])
         /\ LessonsMap[l][c] = enrollments[l][c].flags
BY DEF StageMap, LessonsMap

LEMMA TranscriptStep == CredentialInv /\ [Next]_vars => [T!Next]_(T!vars)
<1> SUFFICES ASSUME CredentialInv, [Next]_vars
             PROVE  T!Next \/ UNCHANGED T!vars
  OBVIOUS
<1> USE DEF T!Next, T!vars
<1>0. /\ TypeOK /\ WellFormed /\ FinishedMeansEveryLesson /\ CredentialBacked
      /\ \A c \in Courses : courses[c] \in CourseType
      /\ \A l \in Learners, c \in Courses : enrollments[l][c] \in EnrollmentType
      /\ courseXp \in Nat
  BY AccountTypes DEF CredentialInv, CourseInv, TypeOK
<1>1. ASSUME NEW l \in Learners, NEW c \in Courses, Enroll(l, c)
      PROVE  T!Join(l, c)
  <2>1. enrollments[l][c] = NoEnrollment /\ Put(l, c, NewEnrollment) /\ courseXp' = courseXp
    BY <1>0, <1>1 DEF Enroll, WellFormed, historyVars
  <2>2. /\ StageMap' = [StageMap EXCEPT ![l][c] = "studying"]
        /\ LessonsMap' = LessonsMap
        /\ StageMap[l][c] = "none"
    <3>1. /\ StageOf(NewEnrollment) = "studying" /\ NewEnrollment.flags = {}
          /\ StageOf(enrollments[l][c]) = "none" /\ enrollments[l][c].flags = {}
      BY <2>1 DEF NewEnrollment, NoEnrollment, StageOf
    <3>2. /\ StageMap' = [StageMap EXCEPT ![l][c] = StageOf(NewEnrollment)]
          /\ LessonsMap' = [LessonsMap EXCEPT ![l][c] = NewEnrollment.flags]
      BY <1>0, <2>1, Moved
    <3> QED
      BY <1>0, <3>1, <3>2, Unmoved
  <2> QED
    BY <2>1, <2>2 DEF T!Join, T!Move, StageMap, LessonsMap
<1>2. ASSUME NEW l \in Learners, NEW c \in Courses, CloseEnrollment(l, c)
      PROVE  T!Leave(l, c)
  <2>1. enrollments[l][c].live /\ Put(l, c, NoEnrollment) /\ courseXp' = courseXp
    BY <1>2 DEF CloseEnrollment, historyVars
  <2>2. /\ StageMap' = [StageMap EXCEPT ![l][c] = "none"]
        /\ LessonsMap' = [LessonsMap EXCEPT ![l][c] = {}]
        /\ StageMap[l][c] \in T!Stages \ {"none"}
    BY <1>0, <2>1, Moved, Unmoved DEF NoEnrollment, StageOf, T!Stages
  <2> QED
    BY <2>1, <2>2 DEF T!Leave, T!Move, StageMap, LessonsMap
<1>3. ASSUME NEW k \in Keys, NEW l \in Learners, NEW c \in Courses, NEW i \in LessonIndexes,
             CompleteLesson(k, l, c, i)
      PROVE  T!Study(l, c)
  <2> DEFINE e == enrollments[l][c]
             f == [e EXCEPT !.flags = @ \cup {i}]
  <2>1. /\ e.live /\ i \notin e.flags /\ i \in 0 .. (courses[c].lessonCount - 1)
        /\ Put(l, c, f)
        /\ courseXp' >= courseXp
    BY <1>0, <1>3, ConstantsAssumption DEF CompleteLesson, CourseType
  <2>2. ~e.completed
    BY <1>0, <2>1 DEF FinishedMeansEveryLesson, LessonsOf
  <2>3. e.asset = NoAsset /\ f.flags = e.flags \cup {i} /\ StageOf(f) = StageOf(e)
    BY <1>0, <2>2 DEF CredentialBacked, EnrollmentType, StageOf
  <2>4. /\ StageMap' = StageMap
        /\ LessonsMap' = [LessonsMap EXCEPT ![l][c] = e.flags \cup {i}]
        /\ StageMap[l][c] = "studying"
        /\ LessonsMap[l][c] = e.flags
    <3>1. StageOf(e) = "studying"
      BY <2>1, <2>2 DEF StageOf
    <3> HIDE DEF f
    <3> QED
      BY <1>0, <2>1, <2>3, <3>1, Moved, Unmoved
  <2>5. LessonsMap'[l][c] = e.flags \cup {i}
    BY <2>4 DEF LessonsMap
  <2> QED
    BY <2>1, <2>4, <2>5 DEF T!Study, StageMap, LessonsMap
<1>4. ASSUME NEW k \in Keys, NEW l \in Learners, NEW c \in Courses, FinalizeCourse(k, l, c)
      PROVE  T!Finish(l, c)
  <2> DEFINE e == enrollments[l][c]
             f == [e EXCEPT !.completed = TRUE]
             minted == CompletionBonus(courses[c]) + CreatorReward(courses[c])
  <2>1. /\ e.live /\ ~e.completed
        /\ Cardinality(e.flags) = courses[c].lessonCount
        /\ Put(l, c, f)
        /\ courseXp' = courseXp + minted
    BY <1>4 DEF FinalizeCourse, Finalized, AllLessonsDone
  <2>2. minted \in Nat
    BY <1>0, MintedType
  <2>3. e.flags # {}
    <3>1. courses[c].lessonCount > 0
      BY <1>0, <2>1 DEF WellFormed
    <3>2. Cardinality({}) = 0
      BY FS_EmptySet
    <3>3. Cardinality(e.flags) # 0
      BY <2>1, <3>1
    <3> QED
      BY <3>2, <3>3
  <2>4. e.asset = NoAsset /\ f.flags = e.flags /\ StageOf(f) = "finished"
    BY <1>0, <2>1 DEF CredentialBacked, EnrollmentType, StageOf
  <2>5. /\ StageMap' = [StageMap EXCEPT ![l][c] = "finished"]
        /\ LessonsMap' = LessonsMap
        /\ StageMap[l][c] = "studying"
        /\ LessonsMap[l][c] # {}
    <3>1. StageOf(e) = "studying"
      BY <2>1 DEF StageOf
    <3> HIDE DEF f
    <3> QED
      BY <1>0, <2>1, <2>3, <2>4, <3>1, Moved, Unmoved
  <2>6. courseXp' >= courseXp
    BY <1>0, <2>1, <2>2
  <2> QED
    BY <2>5, <2>6 DEF T!Finish, T!Move, StageMap, LessonsMap
<1>5. ASSUME NEW k \in Keys, NEW l \in Learners, NEW c \in Courses, NEW a \in Assets,
             NEW s \in Stats, IssueCredential(k, l, c, a, s)
      PROVE  T!Certify(l, c)
  <2> DEFINE e == enrollments[l][c]
             f == [e EXCEPT !.asset = a]
  <2>1. e.live /\ e.completed /\ e.asset = NoAsset /\ Put(l, c, f) /\ courseXp' = courseXp
    BY <1>5 DEF IssueCredential, MayIssue, historyVars
  <2>2. f.flags = e.flags /\ StageOf(f) = "certified"
    BY <1>0, <2>1, ConstantsAssumption DEF EnrollmentType, StageOf
  <2>3. /\ StageMap' = [StageMap EXCEPT ![l][c] = "certified"]
        /\ LessonsMap' = LessonsMap
        /\ StageMap[l][c] = "finished"
    <3>1. StageOf(e) = "finished"
      BY <2>1 DEF StageOf
    <3> HIDE DEF f
    <3> QED
      BY <1>0, <2>1, <2>2, <3>1, Moved, Unmoved
  <2> QED
    BY <2>1, <2>3 DEF T!Certify, T!Move, StageMap, LessonsMap
<1>6. ASSUME UNCHANGED <<enrollments, courseXp>>
      PROVE  UNCHANGED T!vars
  BY <1>6
<1>7. ASSUME NEW k \in Keys, NEW c \in Courses,
             \/ \E p \in CourseParams[c] : CreateCourse(k, c, p)
             \/ \E u \in UpdateParams : UpdateCourse(k, c, u)
      PROVE  UNCHANGED <<enrollments, courseXp>>
  BY <1>7 DEF CreateCourse, UpdateCourse, historyVars
<1>8. ASSUME NEW k \in Keys, NEW l \in Learners, NEW c \in Courses, NEW a \in Assets,
             NEW s \in Stats, UpgradeCredential(k, l, c, a, s)
      PROVE  UNCHANGED <<enrollments, courseXp>>
  BY <1>8 DEF UpgradeCredential, courseVars, historyVars
<1>9. CASE CourseNext
  <2> HIDE DEF T!vars
  <2> QED
    BY <1>1, <1>2, <1>3, <1>4, <1>5, <1>6, <1>7, <1>8, <1>9 DEF CourseNext
<1> QED
  BY <1>6, <1>9, OthersLeaveCourses DEF Next

(* The program keeps the abstract transcript: it joins, studies, finishes,  *)
(* certifies and leaves one course at a time in that order, and pays course *)
(* XP only for a lesson that is new in this enrollment or for the finish.   *)
THEOREM ImplementsTranscript == Spec => KeepsTranscript
<1>1. Init => CredentialInv
  BY CourseInvInit DEF Init, CredentialInv, CredentialBacked, NoEnrollment
<1> QED
  BY <1>1, CredentialStep, TranscriptInit, TranscriptStep, PTL
     DEF Spec, KeepsTranscript, T!TranscriptSpec
=============================================================================
