------------------------------ MODULE MCCourses ------------------------------
(* Instance for the course instructions: two learners, a course and a second *)
(* one that requires it, both in one track; reward settings never change.    *)
EXTENDS Academy, TLC

CONSTANTS c1, c2, track

Params(n, xp, pre, reward, min) ==
  [lessonCount |-> n, difficulty |-> 1, xpPerLesson |-> xp, track |-> track,
   prerequisite |-> pre, creatorRewardXp |-> reward, minCompletions |-> min]

(* No lessons is a rejected argument. *)
MCCourseParams ==
  c1 :> {Params(2, 1, {}, 1, 2), Params(0, 1, {}, 0, 0)} @@ c2 :> {Params(1, 1, {c1}, 0, 0)}

NoUpdate == [content |-> FALSE, active |-> {}, xpPerLesson |-> {},
             creatorRewardXp |-> {}, minCompletions |-> {}]
MCUpdateParams ==
  {[NoUpdate EXCEPT !.content = TRUE, !.active = {FALSE}, !.xpPerLesson = {2}]}

(* No minter or achievement instruction but initialize. *)
MCNext == Tick \/ CourseNext \/ \E k \in Keys : Initialize(k)
MCSpec == Init /\ [][MCNext]_vars

Symmetry == Permutations(Learners)
==============================================================================
