------------------------------ MODULE MCAcademy ------------------------------
(* Instance for the whole program: one learner, a course, an achievement and *)
(* two keys that take turns as backend signer and minter.                    *)
EXTENDS Academy, TLC

CONSTANTS c1, track

MCCourseParams ==
  c1 :> {[lessonCount |-> 2, difficulty |-> 1, xpPerLesson |-> 1, track |-> track,
          prerequisite |-> {}, creatorRewardXp |-> 1, minCompletions |-> 1]}

MCUpdateParams ==
  {[content |-> FALSE, active |-> {}, xpPerLesson |-> {0},
    creatorRewardXp |-> {}, minCompletions |-> {}]}

MCAchievementParams == {[maxSupply |-> 1, xpReward |-> 2]}

Symmetry == Permutations(Keys) \cup Permutations(Assets)
==============================================================================
