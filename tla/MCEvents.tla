------------------------------ MODULE MCEvents ------------------------------
(* Instances for the event pipeline: one transaction under two              *)
(* subscriptions and the scan, one under the scan and a fault, two that make *)
(* the hashes overflow; then those that change the leaderboard, under its    *)
(* refresh and while the streak routes, the award route and the purge change *)
(* the learner's account.                                                    *)
EXTENDS EventPipeline, TLC

CONSTANTS t1, t2, r1

Of(txs, k1, k2, maxSubs, maxScans, rs, maxVisits, maxFaults) ==
  [txs |-> txs, kind |-> (t1 :> k1 @@ t2 :> k2),
   names |-> (t1 :> (IF k1 = "AchievementAwarded" THEN 2 ELSE t1) @@ t2 :> t2), subs |-> maxSubs, scans |-> maxScans,
   refreshes |-> rs, visits |-> maxVisits, faults |-> maxFaults]

MCInstances ==
  {Of({t1}, "Enrolled", "Other", 2, 1, {}, 0, 1),
   Of({t1}, "CredentialIssued", "Other", 1, 1, {}, 0, 1),
   Of({t1, t2}, "Other", "Other", 2, 0, {}, 0, 0),
   Of({t1, t2}, "XpRewarded", "LessonCompleted", 1, 0, {r1}, 0, 0),
   Of({t1}, "XpRewarded", "Other", 1, 0, {r1}, 2, 0),
   Of({t1}, "CourseFinalized", "Other", 1, 0, {}, 2, 1),
   Of({t1}, "AchievementAwarded", "Other", 1, 0, {}, 2, 1),
   Of({t1}, "CourseFinalized", "Other", 1, 1, {r1}, 0, 0)}
=============================================================================
