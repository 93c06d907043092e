------------------------------ MODULE Academy ------------------------------
(***************************************************************************)
(* The on-chain program as a whole: its instructions in any order, signed  *)
(* by anyone entitled to, and the correctness properties of its accounts.  *)
(***************************************************************************)
EXTENDS Courses, Rewards, Functions

Init ==
  /\ now = 0
  /\ config = NoConfig
  /\ courses = [c \in Courses |-> NoCourse]
  /\ enrollments = [l \in Learners |-> [c \in Courses |-> NoEnrollment]]
  /\ minters = [m \in Keys |-> NoMinter]
  /\ achievements = [t \in Achievements |-> NoAchievement]
  /\ receipts = [t \in Achievements |-> [l \in Learners |-> NoAsset]]
  /\ nfts = [a \in Assets |-> NoNft]
  /\ xpSupply = 0
  /\ courseXp = 0
  /\ revokedXp = 0
  /\ creatorXp = [c \in Courses |-> 0]
  /\ finalisers = [c \in Courses |-> {}]

Next == Tick \/ CourseNext \/ RewardNext

Spec == Init /\ [][Next]_vars

-----------------------------------------------------------------------------
(* Every account holds a value of its Rust type, and the history variables  *)
(* are natural numbers and sets of learners.                                *)
TypeOK ==
  /\ now \in Nat
  /\ config \in ConfigType
  /\ courses \in [Courses -> CourseType]
  /\ enrollments \in [Learners -> [Courses -> EnrollmentType]]
  /\ minters \in [Keys -> MinterType]
  /\ achievements \in [Achievements -> AchievementType]
  /\ receipts \in [Achievements -> [Learners -> Assets \cup {NoAsset}]]
  /\ nfts \in [Assets -> NftType]
  /\ xpSupply \in 0..U64Max
  /\ courseXp \in Nat
  /\ revokedXp \in Nat
  /\ creatorXp \in [Courses -> Nat]
  /\ finalisers \in [Courses -> SUBSET Learners]

-----------------------------------------------------------------------------
(* Course accounts. *)

LessonsOf(c) == 0 .. (courses[c].lessonCount - 1)

(* finalize_course compares a population count with lesson_count.  The bits *)
(* of a live enrollment are lessons of its course, so equal counts mean     *)
(* every lesson was done, and stays done for as long as the enrollment      *)
(* lives: update_course cannot add a lesson behind a finished learner.      *)
FinishedMeansEveryLesson ==
  \A l \in Learners, c \in Courses :
    /\ enrollments[l][c].flags \subseteq LessonsOf(c)
    /\ enrollments[l][c].completed =>
         enrollments[l][c].live /\ enrollments[l][c].flags = LessonsOf(c)

(* The credential an enrollment records belongs to that learner, names the  *)
(* track of that course, was earned, and is recorded by no other enrollment *)
(* (issue_credential, upgrade_credential and close_enrollment together).    *)
CredentialBacked ==
  \A l \in Learners, c \in Courses :
    LET e == enrollments[l][c] IN
    e.asset # NoAsset =>
      /\ e.completed
      /\ nfts[e.asset].owner = {l}
      /\ nfts[e.asset].track = courses[c].track
      /\ \A m \in Learners, d \in Courses :
           enrollments[m][d].asset = e.asset => m = l /\ d = c

Studying(c)  == {l \in Learners : enrollments[l][c].live /\ ~enrollments[l][c].completed}
Finished(c)  == {l \in Learners : enrollments[l][c].completed}

(* total_enrollments and total_completions only ever grow while             *)
(* enrollments are closed and reopened, yet they never fall behind the live *)
(* accounts: every completion was an enrollment, and whoever is studying    *)
(* is an enrollment that has not completed.                                 *)
CountersCoverLiveEnrollments ==
  \A c \in Courses :
    /\ courses[c].completions + Cardinality(Studying(c)) <= courses[c].enrolled
    /\ Cardinality(Finished(c)) <= courses[c].completions

(* enroll checks the prerequisite once.  Whoever holds an enrollment in a   *)
(* course has finished its prerequisite, even if that enrollment was closed *)
(* since.                                                                   *)
PrerequisiteEarned ==
  \A l \in Learners, c \in Courses :
    enrollments[l][c].live => \A q \in courses[c].prerequisite : l \in finalisers[q]

(* The cooldown of close_enrollment bounds how fast the enrollment counter  *)
(* can be inflated without finishing: one abandoned enrollment per learner  *)
(* and cooldown, plus the one that is open.                                 *)
AbandonmentRateLimited ==
  \A c \in Courses :
    courses[c].enrolled - courses[c].completions
      <= Cardinality(Learners) * (1 + (now \div (UnenrollCooldown + 1)))

(* While the authority leaves the reward settings alone, the creator has    *)
(* been paid once for each completion from the min_completions-th on.       *)
CreatorPaidFromThresholdOn ==
  (\A u \in UpdateParams : u.creatorRewardXp = {} /\ u.minCompletions = {}) =>
  \A c \in Courses :
    LET course == courses[c]
        first  == IF course.minCompletions = 0 THEN 1 ELSE course.minCompletions
        paid   == IF course.completions < first THEN 0 ELSE course.completions - first + 1
    IN  creatorXp[c] = paid * course.creatorRewardXp

(* The refinement mapping: where the accounts put each learner in each course. *)
StageOf(e) ==
  IF ~e.live THEN "none"
  ELSE IF ~e.completed THEN "studying"
  ELSE IF e.asset = NoAsset THEN "finished" ELSE "certified"

T == INSTANCE Transcript WITH
       stage   <- [l \in Learners |-> [c \in Courses |-> StageOf(enrollments[l][c])]],
       lessons <- [l \in Learners |-> [c \in Courses |-> enrollments[l][c].flags]],
       earned  <- courseXp

(* The program keeps the promise of Transcript: in particular complete_lesson, *)
(* which never looks at completed_at, pays nothing after the finish.           *)
KeepsTranscript == T!TranscriptSpec

-----------------------------------------------------------------------------
(* Minters and achievements. *)

Recipients(t) == {l \in Learners : receipts[t][l] # NoAsset}

(* current_supply is the number of receipts and respects max_supply, also   *)
(* when several minters award at the same time.                             *)
SupplyCountsReceipts ==
  \A t \in Achievements :
    /\ achievements[t].supply = Cardinality(Recipients(t))
    /\ achievements[t].maxSupply > 0 => achievements[t].supply <= achievements[t].maxSupply

(* Receipts and achievement NFTs correspond one to one: a receipt names an  *)
(* NFT of that achievement owned by that recipient, and every achievement   *)
(* NFT is named by its owner's receipt, so nobody owns two of one kind.     *)
ReceiptsMatchNfts ==
  /\ \A t \in Achievements, l \in Learners :
       receipts[t][l] # NoAsset =>
         /\ nfts[receipts[t][l]].owner = {l}
         /\ nfts[receipts[t][l]].achievement = {t}
  /\ \A a \in Assets :
       \A t \in nfts[a].achievement, l \in nfts[a].owner : receipts[t][l] = a

RetiredStaysRetired ==
  /\ \A t \in Achievements :
       achievements[t].live /\ ~achievements[t].active =>
         achievements'[t] = achievements[t] /\ receipts'[t] = receipts[t]
  /\ \A m \in Keys :
       minters[m].live /\ ~minters[m].active => minters'[m] \in {minters[m], NoMinter}

(* A deactivated achievement type or minter role never comes back to life:  *)
(* the type is never awarded again and the role never mints again, and only *)
(* revoke_minter, which forgets the role, can make room for a new one.      *)
RetirementIsFinal == [][RetiredStaysRetired]_vars

(* Every XP in circulation is accounted for: the supply of the mint is what *)
(* the course events, the live minter roles and the totals reported by      *)
(* revoked roles add up to.                                                 *)
XpAccounted ==
  LET minted == [m \in Keys |-> minters[m].total]
  IN  xpSupply = courseXp + revokedXp + SumFunctionOnSet(minted, Keys)

-----------------------------------------------------------------------------
(* Statements of the documentation that the program does not keep. *)

(* docs/SPEC.md, Credentials: one credential NFT exists per learner and     *)
(* track.                                                                   *)
OneCredentialPerTrack ==
  \A a, b \in Assets :
    /\ nfts[a].track # {} /\ nfts[a].track = nfts[b].track
    /\ nfts[a].owner = nfts[b].owner
    => a = b

(* docs/SPEC.md, XP Economics: the creator reward waits for                 *)
(* min_completions_for_reward completions, preventing alt-account farming,  *)
(* so it takes that many learners.                                          *)
CreatorRewardTakesManyLearners ==
  \A c \in Courses :
    creatorXp[c] > 0 => Cardinality(finalisers[c]) >= courses[c].minCompletions
=============================================================================
