------------------------------ MODULE Courses ------------------------------
(***************************************************************************)
(* The course instructions: the registry (create_course, update_course)    *)
(* and the life of an enrollment (enroll, complete_lesson,                 *)
(* finalize_course, issue_credential, upgrade_credential,                  *)
(* close_enrollment).                                                      *)
(*                                                                         *)
(* An operator whose name ends in _x... is a faulty variant of the         *)
(* definition that follows it.  No specification uses it: the variants     *)
(* measure whether the properties would notice such a fault.               *)
(***************************************************************************)
EXTENDS AcademyState

Put(l, c, e) == enrollments' = [enrollments EXCEPT ![l][c] = e]
PutCourse(c, course) == courses' = [courses EXCEPT ![c] = course]

-----------------------------------------------------------------------------
(* create_course and update_course, signed by the authority. *)

ValidCourse(p) == p.lessonCount > 0 /\ p.difficulty \in 1..3

NewCourse(p) ==
  [live |-> TRUE, active |-> TRUE, version |-> 1, lessonCount |-> p.lessonCount,
   xpPerLesson |-> p.xpPerLesson, track |-> {p.track}, prerequisite |-> p.prerequisite,
   creatorRewardXp |-> p.creatorRewardXp, minCompletions |-> p.minCompletions,
   completions |-> 0, enrolled |-> 0]

CreateCourse(k, c, p) ==
  /\ IsAuthority(k)
  /\ ~courses[c].live
  /\ ValidCourse(p)
  /\ PutCourse(c, NewCourse(p))
  /\ UNCHANGED <<now, config, enrollments, rewardVars, nfts, xpSupply, historyVars>>

(* New content makes a new version; the lesson count and the prerequisite   *)
(* are fixed for the life of the course.                                    *)
Updated(course, u) ==
  [course EXCEPT !.version = IF u.content THEN @ + 1 ELSE @,
                 !.active = OrElse(u.active, @),
                 !.xpPerLesson = OrElse(u.xpPerLesson, @),
                 !.creatorRewardXp = OrElse(u.creatorRewardXp, @),
                 !.minCompletions = OrElse(u.minCompletions, @)]

UpdateCourse(k, c, u) ==
  /\ IsAuthority(k)
  /\ courses[c].live
  /\ u.content => courses[c].version < U16Max
  /\ PutCourse(c, Updated(courses[c], u))
  /\ UNCHANGED <<now, config, enrollments, rewardVars, nfts, xpSupply, historyVars>>

-----------------------------------------------------------------------------
(* enroll, signed by the learner. *)

NewEnrollment ==
  [live |-> TRUE, enrolledAt |-> now, flags |-> {}, completed |-> FALSE, asset |-> NoAsset]

MeetsPrerequisite_xEnrolledIsEnough(l, c) ==
  \A q \in courses[c].prerequisite : courses[q].live /\ enrollments[l][q].live

(* The remaining accounts are the prerequisite course and this learner's    *)
(* enrollment in it, with completed_at set.                                 *)
MeetsPrerequisite(l, c) ==
  \A q \in courses[c].prerequisite : courses[q].live /\ enrollments[l][q].completed

Enroll(l, c) ==
  /\ courses[c].live
  /\ courses[c].active
  /\ ~enrollments[l][c].live
  /\ MeetsPrerequisite(l, c)
  /\ courses[c].enrolled < U32Max
  /\ Put(l, c, NewEnrollment)
  /\ PutCourse(c, [courses[c] EXCEPT !.enrolled = @ + 1])
  /\ UNCHANGED <<now, config, rewardVars, nfts, xpSupply, historyVars>>

-----------------------------------------------------------------------------
(* complete_lesson and finalize_course, signed by the backend. *)

CompleteLesson(k, l, c, i) ==
  /\ IsBackend(k)
  /\ enrollments[l][c].live
  /\ i < courses[c].lessonCount
  /\ i \notin enrollments[l][c].flags
  /\ Put(l, c, [enrollments[l][c] EXCEPT !.flags = @ \cup {i}])
  /\ MintXp(courses[c].xpPerLesson)
  /\ courseXp' = courseXp + courses[c].xpPerLesson
  /\ UNCHANGED <<now, config, courses, rewardVars, nfts, revokedXp, creatorXp, finalisers>>

AllLessonsDone_xOneShort(course, e) == Cardinality(e.flags) + 1 >= course.lessonCount

(* The population count of the bitmap equals lesson_count. *)
AllLessonsDone(course, e) == Cardinality(e.flags) = course.lessonCount

(* floor(xp_per_lesson * lesson_count / 2), computed in u64. *)
CompletionBonus(course) == (course.xpPerLesson * course.lessonCount) \div 2

CreatorReward_xOneEarly(course) ==
  IF course.completions + 2 >= course.minCompletions THEN course.creatorRewardXp ELSE 0

(* total_completions is incremented before it is compared. *)
CreatorReward(course) ==
  IF course.completions + 1 >= course.minCompletions THEN course.creatorRewardXp ELSE 0

(* The event's total_xp is a u32 product: its overflow aborts the whole     *)
(* transaction although the bonus was computed in u64.                      *)
EventTotalFits(course, e) == Cardinality(e.flags) * course.xpPerLesson <= U32Max

Finalized_xStaysOpen(e) == e
Finalized(e) == [e EXCEPT !.completed = TRUE]

FinalizeCourse(k, l, c) ==
  LET course == courses[c]
      e      == enrollments[l][c]
      reward == CreatorReward(course)
      minted == CompletionBonus(course) + reward
  IN  /\ IsBackend(k)
      /\ e.live
      /\ ~e.completed
      /\ AllLessonsDone(course, e)
      /\ course.completions < U32Max
      /\ EventTotalFits(course, e)
      /\ Put(l, c, Finalized(e))
      /\ PutCourse(c, [course EXCEPT !.completions = @ + 1])
      /\ MintXp(minted)
      /\ courseXp' = courseXp + minted
      /\ creatorXp' = [creatorXp EXCEPT ![c] = @ + reward]
      /\ finalisers' = [finalisers EXCEPT ![c] = @ \cup {l}]
      /\ UNCHANGED <<now, config, rewardVars, nfts, revokedXp>>

-----------------------------------------------------------------------------
(* issue_credential and upgrade_credential, signed by the backend. *)

MayIssue_xUnfinished(e) == e.asset = NoAsset
MayIssue(e) == e.completed /\ e.asset = NoAsset

IssueCredential(k, l, c, a, s) ==
  /\ IsBackend(k)
  /\ enrollments[l][c].live
  /\ MayIssue(enrollments[l][c])
  /\ CreateNft(a, l, courses[c].track, {}, {s})
  /\ Put(l, c, [enrollments[l][c] EXCEPT !.asset = a])
  /\ UNCHANGED <<now, config, courses, rewardVars, xpSupply, historyVars>>

(* Only the attributes of the asset recorded in this enrollment change; the *)
(* enrollment is read-only.                                                 *)
UpgradeCredential(k, l, c, a, s) ==
  /\ IsBackend(k)
  /\ enrollments[l][c].live
  /\ enrollments[l][c].completed
  /\ a = enrollments[l][c].asset
  /\ nfts' = [nfts EXCEPT ![a] = [@ EXCEPT !.stats = {s}]]
  /\ UNCHANGED <<now, config, courseVars, rewardVars, xpSupply, historyVars>>

-----------------------------------------------------------------------------
(* close_enrollment, signed by the learner. *)

MayClose_xAtCooldown(e) == e.completed \/ now - e.enrolledAt >= UnenrollCooldown

(* A finished enrollment closes freely, an unfinished one only after more   *)
(* than the cooldown.                                                       *)
MayClose(e) == e.completed \/ now - e.enrolledAt > UnenrollCooldown

CloseEnrollment(l, c) ==
  /\ courses[c].live
  /\ enrollments[l][c].live
  /\ MayClose(enrollments[l][c])
  /\ Put(l, c, NoEnrollment)
  /\ UNCHANGED <<now, config, courses, rewardVars, nfts, xpSupply, historyVars>>

-----------------------------------------------------------------------------
CourseNext ==
  \/ \E k \in Keys, c \in Courses :
        \/ \E p \in CourseParams[c] : CreateCourse(k, c, p)
        \/ \E u \in UpdateParams : UpdateCourse(k, c, u)
  \/ \E l \in Learners, c \in Courses : Enroll(l, c) \/ CloseEnrollment(l, c)
  \/ \E k \in Keys, l \in Learners, c \in Courses :
        \/ \E i \in LessonIndexes : CompleteLesson(k, l, c, i)
        \/ FinalizeCourse(k, l, c)
        \/ \E a \in Assets, s \in Stats :
              IssueCredential(k, l, c, a, s) \/ UpgradeCredential(k, l, c, a, s)
=============================================================================
