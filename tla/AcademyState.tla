---------------------------- MODULE AcademyState ----------------------------
(***************************************************************************)
(* The accounts of the on-chain program (programs/onchain-academy/src) and *)
(* the helpers every instruction shares.  A program-derived account is a   *)
(* record with a "live" flag: a missing account, or one closed by Anchor,  *)
(* is the zeroed record.  Every instruction is one atomic transaction, so  *)
(* an instruction that fails a require! or a CPI leaves no trace and is    *)
(* simply a disabled action.  An Option<T> is a set with at most one       *)
(* element.                                                                *)
(*                                                                         *)
(* An operator whose name ends in _x... is a faulty variant of the         *)
(* definition that follows it.  No specification uses it: the variants     *)
(* measure whether the properties would notice such a fault.               *)
(***************************************************************************)
EXTENDS Integers, FiniteSets

CONSTANTS
  Keys,              \* public keys that sign as authority, backend or minter
  Learners,          \* wallets that enroll and receive achievements
  Courses,           \* course ids (1..32 bytes each)
  Achievements,      \* achievement ids (1..32 bytes each)
  Assets,            \* addresses of Metaplex Core assets
  NoKey,             \* Pubkey::default()
  NoAsset,           \* an absent asset address
  Tracks,            \* track ids
  Stats,             \* (courses_completed, total_xp) attributes the backend passes
  LessonIndexes,     \* values of the u8 lesson_index argument
  CourseParams,      \* for each course id, arguments of create_course the authority may pass
  UpdateParams,      \* arguments of update_course
  AchievementParams, \* arguments of create_achievement_type
  Amounts,           \* amounts passed to reward_xp
  Caps,              \* max_xp_per_call values, 0 = unlimited
  U16Max, U32Max, U64Max, \* the largest values of the three integer widths
  UnenrollCooldown,  \* 86400 s in the program
  MaxTime            \* bound: the last instant the model's clock reaches

Option(S) == {{}} \cup {{x} : x \in S}
OrElse(opt, default) == IF opt = {} THEN default ELSE CHOOSE x \in opt : TRUE

CourseParamType ==
  [lessonCount : Nat, difficulty : Nat, xpPerLesson : 0..U32Max, track : Tracks,
   prerequisite : SUBSET Courses, creatorRewardXp : 0..U32Max, minCompletions : Nat]

UpdateParamType ==
  [content : BOOLEAN, active : SUBSET BOOLEAN, xpPerLesson : SUBSET (0..U32Max),
   creatorRewardXp : SUBSET (0..U32Max), minCompletions : SUBSET Nat]

AchievementParamType == [maxSupply : 0..U32Max, xpReward : 0..U32Max]

ASSUME ConstantsAssumption ==
  /\ NoKey \notin Keys
  /\ NoAsset \notin Assets
  /\ IsFiniteSet(Learners)
  /\ IsFiniteSet(Keys)
  /\ LessonIndexes \subseteq Nat
  /\ CourseParams \in [Courses -> SUBSET CourseParamType]
  /\ UpdateParams \subseteq UpdateParamType
  /\ AchievementParams \subseteq AchievementParamType
  /\ Amounts \subseteq 0..U64Max
  /\ Caps \subseteq 0..U64Max
  /\ {U16Max, U32Max, U64Max, UnenrollCooldown, MaxTime} \subseteq Nat
  /\ 1 <= U16Max /\ U32Max <= U64Max

VARIABLES
  now,          \* Clock::get()?.unix_timestamp
  config,       \* the Config PDA
  courses,      \* the Course PDA of each course id
  enrollments,  \* the Enrollment PDA of each learner and course
  minters,      \* the MinterRole PDA of each key
  achievements, \* the AchievementType PDA of each achievement id
  receipts,     \* the asset in each AchievementReceipt PDA, NoAsset if none exists
  nfts,         \* the Metaplex Core assets
  xpSupply,     \* the supply field of the Token-2022 XP mint
  \* History, read by properties only: what the emitted events add up to.
  courseXp,     \* XP in LessonCompleted and CourseFinalized events
  revokedXp,    \* XP in MinterRevoked.total_xp_minted
  creatorXp,    \* CourseFinalized.creator_xp of each course
  finalisers    \* the learners in the CourseFinalized events of each course

courseVars  == <<courses, enrollments>>
rewardVars  == <<minters, achievements, receipts>>
historyVars == <<courseXp, revokedXp, creatorXp, finalisers>>
vars == <<now, config, courseVars, rewardVars, nfts, xpSupply, historyVars>>

-----------------------------------------------------------------------------
(* The accounts. *)

ConfigType == [live : BOOLEAN, authority : Keys \cup {NoKey}, backend : Keys \cup {NoKey}]
NoConfig   == [live |-> FALSE, authority |-> NoKey, backend |-> NoKey]

CourseType ==
  [live : BOOLEAN, active : BOOLEAN, version : 0..U16Max, lessonCount : Nat,
   xpPerLesson : 0..U32Max, track : SUBSET Tracks, prerequisite : SUBSET Courses,
   creatorRewardXp : 0..U32Max, minCompletions : Nat,
   completions : 0..U32Max, enrolled : 0..U32Max]
NoCourse ==
  [live |-> FALSE, active |-> FALSE, version |-> 0, lessonCount |-> 0,
   xpPerLesson |-> 0, track |-> {}, prerequisite |-> {},
   creatorRewardXp |-> 0, minCompletions |-> 0, completions |-> 0, enrolled |-> 0]

(* lesson_flags, 4 x u64, is the set of the lesson indexes whose bit is 1. *)
EnrollmentType ==
  [live : BOOLEAN, enrolledAt : Nat, flags : SUBSET Nat, completed : BOOLEAN,
   asset : Assets \cup {NoAsset}]
NoEnrollment ==
  [live |-> FALSE, enrolledAt |-> 0, flags |-> {}, completed |-> FALSE, asset |-> NoAsset]

MinterType == [live : BOOLEAN, active : BOOLEAN, cap : 0..U64Max, total : 0..U64Max]
NoMinter   == [live |-> FALSE, active |-> FALSE, cap |-> 0, total |-> 0]

AchievementType ==
  [live : BOOLEAN, active : BOOLEAN, maxSupply : 0..U32Max, supply : 0..U32Max,
   xpReward : 0..U32Max]
NoAchievement ==
  [live |-> FALSE, active |-> FALSE, maxSupply |-> 0, supply |-> 0, xpReward |-> 0]

(* A Metaplex Core asset: its owner, the track or the achievement it stands *)
(* for (the set is empty on an unused address), and its mutable attributes. *)
NftType ==
  [owner : SUBSET Learners, track : SUBSET Tracks, achievement : SUBSET Achievements,
   stats : SUBSET Stats]
NoNft == [owner |-> {}, track |-> {}, achievement |-> {}, stats |-> {}]

-----------------------------------------------------------------------------
(* Guards and effects shared by the instructions. *)

(* has_one = authority, or authority.key() == config.authority. *)
IsAuthority(k) == config.live /\ k = config.authority

(* backend_signer.key() == config.backend_signer. *)
IsBackend(k) == config.live /\ k = config.backend

CanMint_xUnchecked(amount) == TRUE

(* The mint_to CPI fails, and the transaction with it, if the supply would  *)
(* exceed u64.                                                              *)
CanMint(amount) == xpSupply + amount <= U64Max

(* mint_xp: the receiving token account is whatever account the signer      *)
(* passes and the program never reads a balance, so only the mint's supply  *)
(* is kept.                                                                 *)
MintXp(amount) == CanMint(amount) /\ xpSupply' = xpSupply + amount

Unused(a) == nfts[a].owner = {}

(* A Metaplex Core create CPI: the new asset must sign, so its address is   *)
(* one that no asset has used.                                              *)
CreateNft(a, l, tracks, achs, stats) ==
  /\ Unused(a)
  /\ nfts' = [nfts EXCEPT ![a] = [owner |-> {l}, track |-> tracks,
                                  achievement |-> achs, stats |-> stats]]

(* The cluster's clock advances between transactions. *)
Tick ==
  /\ now < MaxTime
  /\ now' = now + 1
  /\ UNCHANGED <<config, courseVars, rewardVars, nfts, xpSupply, historyVars>>
=============================================================================
