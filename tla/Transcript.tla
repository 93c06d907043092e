----------------------------- MODULE Transcript -----------------------------
(***************************************************************************)
(* What the academy promises about a learner's transcript, whatever the    *)
(* accounts look like: a course is joined, studied one new lesson at a     *)
(* time, finished once and certified at most once, until the learner       *)
(* leaves it; and course XP is earned only by studying a new lesson or by  *)
(* finishing.  There is no XP for a lesson already done, after the finish, *)
(* for a certificate or for leaving.                                       *)
(***************************************************************************)
EXTENDS Integers

CONSTANTS Learners, Courses

VARIABLES
  stage,    \* where each learner stands in each course
  lessons,  \* the lessons done since the learner last joined
  earned    \* the XP that courses have paid out

vars == <<stage, lessons, earned>>

Stages == {"none", "studying", "finished", "certified"}

TypeOK ==
  /\ stage \in [Learners -> [Courses -> Stages]]
  /\ lessons \in [Learners -> [Courses -> SUBSET Nat]]
  /\ earned \in Nat

Init ==
  /\ stage = [l \in Learners |-> [c \in Courses |-> "none"]]
  /\ lessons = [l \in Learners |-> [c \in Courses |-> {}]]
  /\ earned = 0

Move(l, c, from, to) ==
  stage[l][c] \in from /\ stage' = [stage EXCEPT ![l][c] = to]

Join(l, c) == Move(l, c, {"none"}, "studying") /\ UNCHANGED <<lessons, earned>>

Study(l, c) ==
  /\ stage[l][c] = "studying"
  /\ \E i \in lessons'[l][c] \ lessons[l][c] :
        lessons' = [lessons EXCEPT ![l][c] = @ \cup {i}]
  /\ earned' >= earned
  /\ UNCHANGED stage

Finish(l, c) ==
  /\ Move(l, c, {"studying"}, "finished")
  /\ lessons[l][c] # {}
  /\ earned' >= earned
  /\ UNCHANGED lessons

Certify(l, c) == Move(l, c, {"finished"}, "certified") /\ UNCHANGED <<lessons, earned>>

Leave(l, c) ==
  /\ Move(l, c, Stages \ {"none"}, "none")
  /\ lessons' = [lessons EXCEPT ![l][c] = {}]
  /\ UNCHANGED earned

Next ==
  \E l \in Learners, c \in Courses :
     Join(l, c) \/ Study(l, c) \/ Finish(l, c) \/ Certify(l, c) \/ Leave(l, c)

TranscriptSpec == Init /\ [][Next]_vars
=============================================================================
