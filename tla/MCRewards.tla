------------------------------ MODULE MCRewards ------------------------------
(* Instance for the minter and achievement instructions: two keys, two       *)
(* recipients, a capped and an unlimited achievement type.                   *)
EXTENDS Academy, TLC

MCAchievementParams ==
  {[maxSupply |-> 1, xpReward |-> 2], [maxSupply |-> 0, xpReward |-> 1],
   [maxSupply |-> 0, xpReward |-> 0]}

NoCourses == << >>

MCNext == RewardNext
MCSpec == Init /\ [][MCNext]_vars

Symmetry == Permutations(Keys) \cup Permutations(Learners)
              \cup Permutations(Assets) \cup Permutations(Achievements)
==============================================================================
