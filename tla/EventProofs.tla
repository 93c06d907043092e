---------------------------- MODULE EventProofs ----------------------------
(* Proofs about EventPipeline: its typing, what may duplicate a dispatch,    *)
(* what a recovery scan reaches, what the cached leaderboard shows, and      *)
(* that what a learner was credited with is logged.                          *)
EXTENDS EventPipeline, Counting, SequenceTheorems

Kinds == {"Enrolled", "LessonCompleted", "CourseFinalized", "CredentialIssued",
          "XpRewarded", "AchievementAwarded", "Other"}
StepName == {"check", "add", "log", "audit", "notify", "record", "award", "certify", "del"}

First(r) == IF r = << >> THEN "none" ELSE r[1]
Has(r, step) == \E i \in 1..Len(r) : r[i] = step

(* What every remaining program obeys: the hash is dealt with first and the *)
(* log written next; the activity is recorded right after the log; where it *)
(* is recorded the cached leaderboard is deleted later; and what looks the  *)
(* account up to record nothing deletes nothing.                            *)
Program(r) ==
  /\ r \in Seq(StepName)
  /\ \A i \in 2..Len(r) : r[i] \notin {"check", "add"}
  /\ \A i \in 2..Len(r) : r[i] = "log" => i = 2 /\ r[1] \in {"check", "add"}
  /\ First(r) \in {"check", "add"} => Len(r) >= 2 /\ r[2] = "log"
  /\ \A i \in 2..Len(r) : r[i] = "record" => r[i - 1] = "log"
  /\ \A i \in 1..Len(r) : r[i] = "record" => \E j \in (i + 1)..Len(r) : r[j] = "del"
  /\ First(r) \in {"check", "add", "log"} /\ Has(r, "del") => Has(r, "record")
  /\ Has(r, "audit") \/ Has(r, "certify") => ~Has(r, "del")

LEMMA SequenceFacts ==
  ASSUME NEW S, NEW r \in Seq(S)
  PROVE  /\ Len(r) \in Nat /\ (r = << >> <=> Len(r) = 0)
         /\ r # << >> => /\ Tail(r) \in Seq(S) /\ Len(Tail(r)) = Len(r) - 1
                         /\ \A i \in 1..(Len(r) - 1) : Tail(r)[i] = r[i + 1]
                         /\ Head(r) = r[1] /\ r[1] \in S
BY EmptySeq, HeadTailProperties

LEMMA ConsFacts ==
  ASSUME NEW S, NEW r \in Seq(S), NEW e \in S
  PROVE  /\ <<e>> \o r \in Seq(S) /\ Len(<<e>> \o r) = Len(r) + 1
         /\ (<<e>> \o r)[1] = e
         /\ \A i \in 2..(Len(r) + 1) : (<<e>> \o r)[i] = r[i - 1]
<1>1. <<e>> \in Seq(S) /\ Len(<<e>>) = 1 /\ <<e>>[1] = e
  OBVIOUS
<1>2. PICK one : one = <<e>>
  OBVIOUS
<1>3. /\ one \o r \in Seq(S) /\ Len(one \o r) = Len(one) + Len(r)
      /\ \A i \in 1..(Len(one) + Len(r)) :
           (one \o r)[i] = IF i <= Len(one) THEN one[i] ELSE r[i - Len(one)]
  BY <1>1, <1>2, ConcatProperties
<1>4. Len(r) \in Nat
  BY LenProperties
<1> QED
  BY <1>1, <1>2, <1>3, <1>4

LEMMA ProgramTail ==
  ASSUME NEW r, Program(r), r # << >>
  PROVE  /\ Program(Tail(r)) /\ First(Tail(r)) \notin {"check", "add"}
         /\ First(Tail(r)) = "log" => First(r) \in {"check", "add"}
         /\ First(Tail(r)) = "record" => First(r) = "log"
<1> DEFINE x == Tail(r)
<1>1. r \in Seq(StepName)
  BY DEF Program
<1>2. /\ Len(r) \in Nat /\ Len(r) >= 1 /\ x \in Seq(StepName) /\ Len(x) = Len(r) - 1
      /\ \A i \in 1..Len(x) : x[i] = r[i + 1]
      /\ (x = << >> <=> Len(x) = 0)
  <2>1. /\ Len(r) \in Nat /\ Len(r) # 0 /\ x \in Seq(StepName) /\ Len(x) = Len(r) - 1
        /\ \A i \in 1..(Len(r) - 1) : x[i] = r[i + 1]
    BY <1>1, SequenceFacts
  <2> HIDE DEF x
  <2>2. x = << >> <=> Len(x) = 0
    BY <2>1, SequenceFacts
  <2> QED
    BY <2>1, <2>2
<1>3. First(r) = r[1] /\ First(x) = IF Len(x) = 0 THEN "none" ELSE r[2]
  BY <1>2 DEF First
<1> HIDE DEF x
<1>4. \A i \in 2..Len(x) : x[i] \notin {"check", "add"} /\ x[i] # "log"
  BY <1>2 DEF Program
<1>5. First(x) \notin {"check", "add"}
  BY <1>2, <1>3 DEF Program
<1>6. \A i \in 2..Len(x) : x[i] = "record" => x[i - 1] = "log"
  BY <1>2 DEF Program
<1>7. ASSUME NEW i \in 1..Len(x), x[i] = "record"
      PROVE  \E j \in (i + 1)..Len(x) : x[j] = "del"
  <2>1. PICK j \in (i + 2)..Len(r) : r[j] = "del"
    BY <1>2, <1>7 DEF Program
  <2>2. j - 1 \in (i + 1)..Len(x) /\ x[j - 1] = "del"
    BY <1>2, <2>1
  <2> QED
    BY <2>2
<1>8. ASSUME First(x) = "log"
      PROVE  First(r) \in {"check", "add"} /\ (Has(x, "del") => Has(x, "record"))
  <2>1. First(r) \in {"check", "add"}
    BY <1>2, <1>3, <1>8 DEF Program
  <2>2. ASSUME Has(x, "del")
        PROVE  Has(x, "record")
    <3>1. PICK i \in 1..Len(x) : x[i] = "del"
      BY <2>2 DEF Has
    <3>2. i + 1 \in 1..Len(r) /\ r[i + 1] = "del"
      BY <1>2, <3>1
    <3>3. PICK j \in 1..Len(r) : r[j] = "record"
      BY <2>1, <3>2 DEF Program, Has
    <3>4. j - 1 \in 1..Len(x) /\ x[j - 1] = "record"
      BY <1>2, <1>3, <2>1, <3>3
    <3> QED
      BY <3>4 DEF Has
  <2> QED
    BY <2>1, <2>2
<1>9. First(x) = "record" => First(r) = "log"
  BY <1>2, <1>3 DEF Program
<1>11. ASSUME NEW step, Has(x, step)
       PROVE  Has(r, step)
  <2>1. PICK i \in 1..Len(x) : x[i] = step
    BY <1>11 DEF Has
  <2>2. i + 1 \in 1..Len(r) /\ r[i + 1] = step
    BY <1>2, <2>1
  <2> QED
    BY <2>2 DEF Has
<1>12. Has(x, "audit") \/ Has(x, "certify") => ~Has(x, "del")
  <2>1. Has(r, "audit") \/ Has(r, "certify") => ~Has(r, "del")
    BY DEF Program
  <2> QED
    BY <1>11, <2>1
<1>10. Program(x)
  BY <1>2, <1>4, <1>5, <1>6, <1>7, <1>8, <1>12 DEF Program
<1> QED
  BY <1>5, <1>8, <1>9, <1>10 DEF x

LEMMA ProgramAdd ==
  ASSUME NEW r, Program(r), First(r) = "check"
  PROVE  LET x == <<"add">> \o Tail(r)
         IN  /\ Program(x) /\ First(x) = "add"
             /\ (Has(x, "del") => Has(x, "record"))
<1> DEFINE x == <<"add">> \o Tail(r)
<1>1. r \in Seq(StepName) /\ r # << >>
  BY DEF Program, First
<1>2. /\ Len(r) \in Nat /\ Len(r) >= 1 /\ Tail(r) \in Seq(StepName) /\ Len(Tail(r)) = Len(r) - 1
      /\ \A i \in 1..(Len(r) - 1) : Tail(r)[i] = r[i + 1]
      /\ r[1] = "check"
  BY <1>1, SequenceFacts DEF First
<1>3. /\ x \in Seq(StepName) /\ Len(x) = Len(r) /\ x[1] = "add"
      /\ \A i \in 2..Len(r) : x[i] = Tail(r)[i - 1]
  BY <1>2, ConsFacts DEF StepName
<1>4. \A i \in 2..Len(r) : x[i] = r[i]
  BY <1>2, <1>3
<1> HIDE DEF x
<1>5. First(x) = "add" /\ x # << >>
  BY <1>2, <1>3, EmptySeq DEF First
<1>6. Len(r) >= 2 /\ r[2] = "log"
  BY DEF Program
<1>7. /\ Has(x, "del") => Has(x, "record")
      /\ Has(x, "audit") \/ Has(x, "certify") => ~Has(x, "del")
  <2>1. \A step \in {"del", "record", "audit", "certify"} : Has(x, step) <=> Has(r, step)
    BY <1>2, <1>3, <1>4 DEF Has
  <2>2. Has(r, "audit") \/ Has(r, "certify") => ~Has(r, "del")
    BY DEF Program
  <2>3. Has(r, "del") => Has(r, "record")
    BY DEF Program
  <2> QED
    BY <2>1, <2>2, <2>3
<1>8. Program(x)
  BY <1>2, <1>3, <1>4, <1>5, <1>6, <1>7 DEF Program
<1> QED
  BY <1>5, <1>7, <1>8 DEF x

LEMMA ProgramCheck ==
  ASSUME NEW r, Program(r), First(r) = "log"
  PROVE  LET x == <<"check">> \o r
         IN  Program(x) /\ First(x) = "check"
<1> DEFINE x == <<"check">> \o r
<1>1. r \in Seq(StepName) /\ r # << >> /\ Len(r) \in Nat /\ Len(r) >= 1 /\ r[1] = "log"
  BY SequenceFacts DEF Program, First
<1>2. /\ x \in Seq(StepName) /\ Len(x) = Len(r) + 1 /\ x[1] = "check"
      /\ \A i \in 2..Len(x) : x[i] = r[i - 1]
  BY <1>1, ConsFacts DEF StepName
<1> HIDE DEF x
<1>3. First(x) = "check"
  BY <1>1, <1>2, EmptySeq DEF First
<1>4. \A i \in 2..Len(r) : r[i] # "log"
  BY <1>1 DEF Program
<1>5. \A i \in 2..Len(x) : x[i] \notin {"check", "add"} /\ (x[i] = "log" => i = 2)
  <2> SUFFICES ASSUME NEW i \in 2..Len(x)
               PROVE  x[i] \notin {"check", "add"} /\ (x[i] = "log" => i = 2)
    OBVIOUS
  <2>1. CASE i = 2
    BY <1>1, <1>2, <2>1
  <2>2. CASE i # 2
    <3>1. i - 1 \in 2..Len(r) /\ x[i] = r[i - 1]
      BY <1>1, <1>2, <2>2
    <3> QED
      BY <1>4, <3>1 DEF Program
  <2> QED
    BY <2>1, <2>2
<1>6. ASSUME NEW i \in 2..Len(x), x[i] = "record"
      PROVE  x[i - 1] = "log"
  <2>1. i - 1 \in 2..Len(r) /\ x[i - 1] = r[i - 2] /\ r[i - 1] = "record"
    BY <1>1, <1>2, <1>6
  <2> QED
    BY <2>1 DEF Program
<1>7. ASSUME NEW i \in 1..Len(x), x[i] = "record"
      PROVE  \E j \in (i + 1)..Len(x) : x[j] = "del"
  <2>1. i - 1 \in 1..Len(r) /\ r[i - 1] = "record"
    BY <1>1, <1>2, <1>7
  <2>2. PICK j \in i..Len(r) : r[j] = "del"
    BY <1>1, <2>1 DEF Program
  <2>3. j + 1 \in (i + 1)..Len(x) /\ x[j + 1] = "del"
    BY <1>1, <1>2, <2>2
  <2> QED
    BY <2>3
<1>8. ASSUME Has(x, "del")
      PROVE  Has(x, "record")
  <2>1. PICK i \in 1..Len(x) : x[i] = "del"
    BY <1>8 DEF Has
  <2>2. i - 1 \in 1..Len(r) /\ r[i - 1] = "del"
    BY <1>1, <1>2, <2>1
  <2>3. PICK j \in 1..Len(r) : r[j] = "record"
    BY <2>2 DEF Program, Has
  <2>4. j + 1 \in 2..Len(x) /\ (j + 1) - 1 = j
    BY <1>1, <1>2
  <2>5. j + 1 \in 1..Len(x) /\ x[j + 1] = "record"
    BY <1>2, <2>3, <2>4
  <2> QED
    BY <2>5 DEF Has
<1>10. ASSUME NEW step, Has(x, step), step # "check"
       PROVE  Has(r, step)
  <2>1. PICK i \in 1..Len(x) : x[i] = step
    BY <1>10 DEF Has
  <2>2. i # 1 /\ i - 1 \in 1..Len(r) /\ r[i - 1] = step
    BY <1>1, <1>2, <1>10, <2>1
  <2> QED
    BY <2>2 DEF Has
<1>11. Has(x, "audit") \/ Has(x, "certify") => ~Has(x, "del")
  <2>1. Has(r, "audit") \/ Has(r, "certify") => ~Has(r, "del")
    BY DEF Program
  <2> QED
    BY <1>10, <2>1
<1>9. Program(x)
  BY <1>1, <1>2, <1>3, <1>5, <1>6, <1>7, <1>8, <1>11 DEF Program
<1> QED
  BY <1>3, <1>9 DEF x

LEMMA ProgramNone == Program(<< >>) /\ First(<< >>) = "none"
<1>1. << >> \in Seq(StepName) /\ Len(<< >>) = 0
  OBVIOUS
<1> QED
  BY <1>1 DEF Program, First, Has

LEMMA ProgramSteps ==
  ASSUME NEW k \in Kinds
  PROVE  Program(Steps[k]) /\ First(Steps[k]) = "log"
<1>1. ASSUME NEW r, r = <<"log", "audit", "notify">>
      PROVE  Program(r) /\ First(r) = "log"
  <2>1. /\ r \in Seq(StepName) /\ Len(r) = 3 /\ r # << >>
        /\ r[1] = "log" /\ r[2] = "audit" /\ r[3] = "notify"
    BY <1>1 DEF StepName
  <2> QED
    BY <2>1 DEF Program, First, Has
<1>2. ASSUME NEW r, r = <<"log", "record", "notify", "del">>
      PROVE  Program(r) /\ First(r) = "log"
  <2>1. /\ r \in Seq(StepName) /\ Len(r) = 4 /\ r # << >>
        /\ r[1] = "log" /\ r[2] = "record" /\ r[3] = "notify" /\ r[4] = "del"
    BY <1>2 DEF StepName
  <2> QED
    BY <2>1 DEF Program, First, Has
<1>3. ASSUME NEW r, r = <<"log", "record", "award", "notify", "del">>
      PROVE  Program(r) /\ First(r) = "log"
  <2>1. /\ r \in Seq(StepName) /\ Len(r) = 5 /\ r # << >>
        /\ r[1] = "log" /\ r[2] = "record" /\ r[3] = "award" /\ r[4] = "notify" /\ r[5] = "del"
    BY <1>3 DEF StepName
  <2> QED
    BY <2>1 DEF Program, First, Has
<1>4. ASSUME NEW r, r = <<"log", "certify", "notify">>
      PROVE  Program(r) /\ First(r) = "log"
  <2>1. /\ r \in Seq(StepName) /\ Len(r) = 3 /\ r # << >>
        /\ r[1] = "log" /\ r[2] = "certify" /\ r[3] = "notify"
    BY <1>4 DEF StepName
  <2> QED
    BY <2>1 DEF Program, First, Has
<1>5. ASSUME NEW r, r = <<"log", "record", "del">>
      PROVE  Program(r) /\ First(r) = "log"
  <2>1. /\ r \in Seq(StepName) /\ Len(r) = 3 /\ r # << >>
        /\ r[1] = "log" /\ r[2] = "record" /\ r[3] = "del"
    BY <1>5 DEF StepName
  <2> QED
    BY <2>1 DEF Program, First, Has
<1>6. ASSUME NEW r, r = <<"log">>
      PROVE  Program(r) /\ First(r) = "log"
  <2>1. r \in Seq(StepName) /\ Len(r) = 1 /\ r # << >> /\ r[1] = "log"
    BY <1>6 DEF StepName
  <2> QED
    BY <2>1 DEF Program, First, Has
<1> HIDE DEF Program, First
<1> QED
  BY <1>1, <1>2, <1>3, <1>4, <1>5, <1>6 DEF Steps, Kinds

-----------------------------------------------------------------------------
(* The types.                                                               *)
Programs == {r \in Seq(StepName) : Program(r)}
RowType == [live : Nat, scan : Nat, failed : Nat]
RefreshType == [on : BOOLEAN, xp : Nat, direct : Nat, late : BOOLEAN]
ScanType == [on : BOOLEAN, list : Seq(Txs), left : Seq(Txs), missed : SUBSET Txs]
DirectType == [xp : Nat, courses : Nat, badges : SUBSET Milestones]
PastType ==
  [forgot : [Txs -> Nat], overlap : [Txs -> Nat], overtaken : BOOLEAN, lost : SUBSET Txs,
   direct : DirectType, shown : Nat, purged : Nat]

(* The streak routes, and the award route. *)
Claims == \E m \in Milestones : Claim(m)
Visits == \E x, c \in 0..1 : AddToDay(x, c)

PTypes ==
  /\ redis \in BOOLEAN /\ profile \in BOOLEAN /\ linked \in BOOLEAN /\ inst \in Instances
  /\ chain \in Seq(Txs) /\ IsInjective(chain)
  /\ seen \in Seq(Txs) /\ IsInjective(seen)
  /\ listening \in BOOLEAN /\ subs \in 0..MaxSubs /\ stops \in 0..MaxSubs /\ (listening => subs > 0)
  /\ inbox \in [Sources -> SUBSET Txs]
  /\ run \in [Sources -> [Txs -> Programs]]
  /\ scan \in ScanType
  /\ rows \in [Txs -> RowType] /\ xp \in Nat /\ courses \in Nat
  /\ cache \in Nat \cup {NoCache} /\ cron \in BOOLEAN /\ refresh \in [Refreshes -> RefreshType]
  /\ scans \in Nat /\ faults \in Nat /\ past \in PastType

LEMMA InstanceFacts ==
  ASSUME inst \in Instances
  PROVE  /\ inst.names \in [Txs -> Txs \cup Milestones]
         /\ inst.kind \in [Txs -> Kinds] /\ inst.subs \in 1..MaxSubs /\ inst.txs \subseteq Txs
         /\ inst.scans \in Nat /\ inst.faults \in Nat /\ inst.refreshes \subseteq Refreshes
         /\ MaxSubs \in Nat \ {0} /\ MaxHashCache \in Nat \ {0}
BY PipelineAssumption DEF InstanceType, Kinds

LEMMA ProgramsFacts ==
  ASSUME NEW r
  PROVE  (r \in Programs <=> Program(r)) /\ << >> \in Programs
BY ProgramNone DEF Programs, Program

(* Which steps may change what.                                             *)
LEMMA WhoMoves ==
  ASSUME PipelineNext
  PROVE  /\ UNCHANGED <<redis, inst>>
         /\ UNCHANGED chain \/ \E t \in Txs : Land(t)
         /\ UNCHANGED linked \/ Link \/ Unlink \/ Purge
         /\ UNCHANGED profile \/ Purge
         /\ \/ UNCHANGED seen \/ HashesExpire \/ Restart
            \/ \E t \in Txs : ScanNext(t) \/ ScanMisses(t)
            \/ \E s \in Sources, t \in Txs : CheckInMemory(s, t) \/ AddHash(s, t)
         /\ \/ UNCHANGED <<listening, subs, stops>>
            \/ StartEventListener \/ StopEventListener \/ Stopped \/ Restart
         /\ \/ UNCHANGED inbox \/ Restart \/ \E t \in Txs : Land(t)
            \/ \E s \in Sources, t \in Txs : Deliver(s, t) \/ LoseDelivery(s, t)
         /\ \/ UNCHANGED run \/ Restart \/ \E t \in Txs : ScanNext(t)
            \/ \E s \in Sources, t \in Txs : Work(s, t) \/ StatementFails(s, t)
         /\ \/ UNCHANGED scan \/ Recover \/ ScanEnds \/ Restart
            \/ \E t \in Txs : ScanNext(t) \/ ScanMisses(t)
            \/ \E s \in Sources, t \in Txs : StatementFails(s, t)
         /\ \/ UNCHANGED rows
            \/ \E s \in Sources, t \in Txs : LogEvent(s, t) \/ StatementFails(s, t)
         /\ \/ UNCHANGED <<xp, courses>> \/ Visits \/ Purge
            \/ \E s \in Sources, t \in Txs : RecordActivity(s, t)
         /\ \/ UNCHANGED board \/ StopCronJobs \/ CacheExpires \/ Restart
            \/ \E r \in Refreshes : StartCronJobs(r) \/ RefreshLeaderboard(r) \/ WriteCache(r)
            \/ \E s \in Sources, t \in Txs : DeleteCache(s, t)
         /\ UNCHANGED scans \/ Recover
         /\ \/ UNCHANGED faults \/ Restart \/ \E t \in Txs : ScanMisses(t)
            \/ \E s \in Sources, t \in Txs : StatementFails(s, t) \/ LoseDelivery(s, t)
         /\ \/ UNCHANGED past \/ HashesExpire \/ CacheExpires \/ Restart \/ Visits \/ Purge \/ Claims
            \/ \E t \in Txs : ScanNext(t) \/ ScanMisses(t)
            \/ \E r \in Refreshes : WriteCache(r)
            \/ \E s \in Sources, t \in Txs :
                 CheckInMemory(s, t) \/ CheckRedis(s, t) \/ DeleteCache(s, t) \/ StatementFails(s, t)
                   \/ LoseDelivery(s, t)
<1>1. CASE \E t \in Txs : Land(t)
  BY <1>1 DEF Land, tables, board, counts
<1>2. CASE Link \/ StartEventListener \/ StopEventListener \/ Stopped
  BY <1>2 DEF Link, StartEventListener, StopEventListener, Stopped, node, listener, tables, board, counts
<1>12. CASE DailyLogin \/ RecordDay
  <2>1. Visits
    <3>1. DailyLogin => AddToDay(1, 0) /\ 1 \in 0..1 /\ 0 \in 0..1
      BY DEF DailyLogin
    <3> QED
      BY <1>12, <3>1 DEF RecordDay, Visits
  <2>2. UNCHANGED <<redis, node, listener, run, scan, rows, achievements, board, scans, faults>>
    BY <2>1 DEF Visits, AddToDay
  <2> QED
    BY <2>1, <2>2 DEF node, listener, board
<1>13. CASE Purge
  BY <1>13 DEF Purge, listener, board
<1>17. CASE Unlink
  BY <1>17 DEF Unlink, listener, tables, board
<1>18. CASE Claims
  BY <1>18 DEF Claims, Claim, node, listener, board
<1>3. CASE \E s \in Sources, t \in Txs : Deliver(s, t)
  BY <1>3 DEF Deliver, Work, node, listener, tables, board, counts
<1>10. CASE \E s \in Sources, t \in Txs : CheckInMemory(s, t)
  BY <1>10 DEF CheckInMemory, Work, Track, node, listener, tables, board, counts
<1>11. CASE \E s \in Sources, t \in Txs : CheckRedis(s, t) \/ AddHash(s, t)
  BY <1>11 DEF CheckRedis, AddHash, Work, Track, node, listener, tables, board, counts
<1>4. CASE \E s \in Sources, t \in Txs : LogEvent(s, t) \/ Unlinked(s, t) \/ Audit(s, t) \/ RecordActivity(s, t)
  BY <1>4 DEF LogEvent, Unlinked, Audit, RecordActivity, Work, Dispatch, node, listener, tables, board, counts
<1>5. CASE \E s \in Sources, t \in Txs : AwardMilestones(s, t) \/ Certify(s, t) \/ Notify(s, t) \/ DeleteCache(s, t)
  BY <1>5 DEF AwardMilestones, Certify, Notify, DeleteCache, Work, Dispatch, node, listener, tables, board, counts
<1>6. CASE \E s \in Sources, t \in Txs : StatementFails(s, t)
  BY <1>6 DEF StatementFails, node, listener, board
<1>14. CASE \E s \in Sources, t \in Txs : LoseDelivery(s, t)
  BY <1>14 DEF LoseDelivery, node, tables, board
<1>7. CASE HashesExpire \/ Recover \/ ScanEnds
  BY <1>7 DEF HashesExpire, Recover, ScanEnds, node, listener, tables, board, counts
<1>15. CASE \E t \in Txs : ScanNext(t)
  BY <1>15 DEF ScanNext, node, tables, board, counts
<1>16. CASE \E t \in Txs : ScanMisses(t)
  BY <1>16 DEF ScanMisses, node, tables, board
<1>8. CASE \E r \in Refreshes : StartCronJobs(r) \/ RefreshLeaderboard(r) \/ WriteCache(r)
  BY <1>8 DEF StartCronJobs, RefreshLeaderboard, WriteCache, node, listener, tables, board, counts
<1>9. CASE StopCronJobs \/ CacheExpires \/ Restart
  BY <1>9 DEF StopCronJobs, CacheExpires, Restart, node, listener, tables, board, counts
<1> QED
  BY <1>1, <1>2, <1>3, <1>4, <1>5, <1>6, <1>7, <1>8, <1>9, <1>10, <1>11, <1>12, <1>13, <1>14, <1>15, <1>16, <1>17,
     <1>18
  DEF PipelineNext, Work, Track, Dispatch, Claims

(* How a program moves.                                                     *)
Moves(s, t, x) == run' = [run EXCEPT ![s][t] = x]

LEMMA MovesFacts ==
  ASSUME PTypes, NEW s \in Sources, NEW t \in Txs, NEW x \in Programs, Moves(s, t, x)
  PROVE  /\ run' \in [Sources -> [Txs -> Programs]]
         /\ run'[s][t] = x
         /\ \A u \in Sources, v \in Txs : u # s \/ v # t => run'[u][v] = run[u][v]
BY DEF Moves, PTypes

LEMMA HeadFirst ==
  ASSUME PTypes, NEW s \in Sources, NEW t \in Txs
  PROVE  /\ Program(run[s][t]) /\ run[s][t] \in Programs
         /\ run[s][t] # << >> => Head(run[s][t]) = First(run[s][t])
         /\ \A step \in StepName : First(run[s][t]) = step => run[s][t] # << >>
<1>1. run[s][t] \in Programs
  BY DEF PTypes
<1>2. Program(run[s][t]) /\ run[s][t] \in Seq(StepName)
  BY <1>1 DEF Programs
<1>3. run[s][t] # << >> => Head(run[s][t]) = First(run[s][t])
  BY <1>2, SequenceFacts DEF First
<1>4. "none" \notin StepName
  BY DEF StepName
<1> QED
  BY <1>1, <1>2, <1>3, <1>4 DEF First

LEMMA Next1Facts ==
  ASSUME PTypes, NEW s \in Sources, NEW t \in Txs, NEW step \in StepName
  PROVE  Next1(s, t, step) <=> First(run[s][t]) = step
BY HeadFirst DEF Next1

LEMMA AdvanceFacts ==
  ASSUME PTypes, NEW s \in Sources, NEW t \in Txs, run[s][t] # << >>
  PROVE  LET x == Tail(run[s][t])
         IN  /\ Advance(s, t) => Moves(s, t, x)
             /\ x \in Programs /\ First(x) \notin {"check", "add"}
             /\ First(x) = "log" => First(run[s][t]) \in {"check", "add"}
             /\ First(x) = "record" => First(run[s][t]) = "log"
BY HeadFirst, ProgramTail, ProgramsFacts DEF Advance, Moves

LEMMA DeliverFacts ==
  ASSUME PTypes, NEW t \in Txs
  PROVE  /\ Steps[inst.kind[t]] \in Programs /\ First(Steps[inst.kind[t]]) = "log"
         /\ <<"check">> \o Steps[inst.kind[t]] \in Programs
         /\ First(<<"check">> \o Steps[inst.kind[t]]) = "check"
<1>1. inst.kind[t] \in Kinds
  BY InstanceFacts DEF PTypes
<1>2. Program(Steps[inst.kind[t]]) /\ First(Steps[inst.kind[t]]) = "log"
  BY <1>1, ProgramSteps
<1> QED
  BY <1>2, ProgramCheck, ProgramsFacts

LEMMA CheckFacts ==
  ASSUME PTypes, NEW s \in Sources, NEW t \in Txs, First(run[s][t]) = "check"
  PROVE  /\ <<"add">> \o Tail(run[s][t]) \in Programs
         /\ First(<<"add">> \o Tail(run[s][t])) = "add"
BY HeadFirst, ProgramAdd, ProgramsFacts

(* What a program is left with after a step of its own.                      *)
Left(s, t, x) ==
  /\ x \in Programs /\ Moves(s, t, x)
  /\ First(x) = "check" => Deliver(s, t)
  /\ First(x) = "add" => CheckRedis(s, t) /\ IsNew(t)
  /\ First(x) = "log" => (CheckInMemory(s, t) /\ IsNew(t)) \/ AddHash(s, t)
  /\ First(x) = "record" => LogEvent(s, t)

LEMMA WorkMoves ==
  ASSUME PTypes, NEW s \in Sources, NEW t \in Txs, Work(s, t) \/ StatementFails(s, t)
  PROVE  /\ \E x \in Programs : Left(s, t, x)
         /\ Deliver(s, t) \/ run[s][t] # << >>
<1>1. << >> \in Programs /\ First(<< >>) = "none"
  BY ProgramNone, ProgramsFacts
<1>2. ASSUME Return(s, t)
      PROVE  \E x \in Programs : Left(s, t, x)
  <2>1. Left(s, t, << >>)
    BY <1>1, <1>2 DEF Return, Moves, Left
  <2> QED
    BY <1>1, <2>1
<1>3. CASE Deliver(s, t)
  <2>1. Left(s, t, <<"check">> \o Steps[inst.kind[t]])
    BY <1>3, DeliverFacts DEF Left, Deliver, Moves
  <2> QED
    BY <1>3, <2>1 DEF Left
<1>4. CASE CheckInMemory(s, t)
  <2>1. /\ run[s][t] # << >> /\ First(run[s][t]) = "check"
        /\ Moves(s, t, IF IsNew(t) THEN Tail(run[s][t]) ELSE << >>)
    BY <1>4, HeadFirst DEF CheckInMemory, Moves
  <2>2. CASE IsNew(t)
    <3>1. Left(s, t, Tail(run[s][t]))
      BY <1>4, <2>1, <2>2, AdvanceFacts DEF Left
    <3> QED
      BY <2>1, <3>1 DEF Left
  <2>3. CASE ~IsNew(t)
    <3>1. Left(s, t, << >>)
      BY <1>1, <2>1, <2>3 DEF Left
    <3> QED
      BY <1>1, <2>1, <3>1
  <2> QED
    BY <2>2, <2>3
<1>5. CASE CheckRedis(s, t)
  <2>1. /\ run[s][t] # << >> /\ First(run[s][t]) = "check"
        /\ Moves(s, t, IF IsNew(t) THEN <<"add">> \o Tail(run[s][t]) ELSE << >>)
    BY <1>5, HeadFirst DEF CheckRedis, Moves
  <2>2. CASE IsNew(t)
    <3>1. Left(s, t, <<"add">> \o Tail(run[s][t]))
      BY <1>5, <2>1, <2>2, CheckFacts DEF Left
    <3> QED
      BY <2>1, <3>1 DEF Left
  <2>3. CASE ~IsNew(t)
    <3>1. Left(s, t, << >>)
      BY <1>1, <2>1, <2>3 DEF Left
    <3> QED
      BY <1>1, <2>1, <3>1
  <2> QED
    BY <2>2, <2>3
<1>6. CASE AddHash(s, t)
  <2>1. run[s][t] # << >> /\ Advance(s, t) /\ First(run[s][t]) = "add"
    BY <1>6, HeadFirst DEF AddHash, Adding, Advance
  <2>2. Left(s, t, Tail(run[s][t]))
    BY <1>6, <2>1, AdvanceFacts DEF Left
  <2> QED
    BY <2>1, <2>2 DEF Left
<1>7. CASE LogEvent(s, t)
  <2>1. run[s][t] # << >> /\ Advance(s, t) /\ First(run[s][t]) = "log"
    BY <1>7, HeadFirst DEF LogEvent, Next1
  <2>2. Left(s, t, Tail(run[s][t]))
    BY <1>7, <2>1, AdvanceFacts DEF Left
  <2> QED
    BY <2>1, <2>2 DEF Left
<1>8. ASSUME NEW step \in {"audit", "record", "award", "certify", "notify", "del"},
             Next1(s, t, step), Advance(s, t)
      PROVE  /\ \E x \in Programs : Left(s, t, x)
             /\ run[s][t] # << >>
  <2>1. run[s][t] # << >> /\ First(run[s][t]) = step
    BY <1>8, HeadFirst DEF Next1
  <2>2. Left(s, t, Tail(run[s][t]))
    BY <1>8, <2>1, AdvanceFacts DEF Left
  <2> QED
    BY <2>1, <2>2 DEF Left
<1>9. CASE Unlinked(s, t) \/ StatementFails(s, t)
  <2>1. run[s][t] # << >> /\ Return(s, t)
    BY <1>9 DEF Unlinked, StatementFails, Next1
  <2> QED
    BY <1>2, <2>1
<1>10. CASE Audit(s, t) \/ RecordActivity(s, t)
  BY <1>8, <1>10 DEF Audit, RecordActivity
<1>11. CASE AwardMilestones(s, t) \/ Certify(s, t)
  BY <1>8, <1>11 DEF AwardMilestones, Certify
<1>12. CASE Notify(s, t) \/ DeleteCache(s, t)
  BY <1>8, <1>12 DEF Notify, DeleteCache
<1> QED
  BY <1>3, <1>4, <1>5, <1>6, <1>7, <1>9, <1>10, <1>11, <1>12 DEF Work, Track, Dispatch

(* Only a handler whose log is written goes on with a later statement.      *)
LEMMA WorkStarts ==
  ASSUME PTypes, NEW s \in Sources, NEW t \in Txs, Work(s, t) \/ StatementFails(s, t), ~LogEvent(s, t),
         First(run'[s][t]) \notin {"none", "check", "add", "log"}
  PROVE  First(run[s][t]) \notin {"none", "check", "add", "log"}
<1>1. ASSUME NEW x \in Programs, Moves(s, t, x)
      PROVE  run'[s][t] = x
  BY <1>1, MovesFacts
<1>2. First(<< >>) = "none" /\ << >> \in Programs
  BY ProgramNone, ProgramsFacts
<1>3. ~Return(s, t)
  BY <1>1, <1>2 DEF Return, Moves
<1>4. ~Deliver(s, t)
  BY <1>1, DeliverFacts DEF Deliver, Moves
<1>5. run[s][t] # << >>
  BY <1>4, WorkMoves
<1>6. ASSUME First(run[s][t]) \in {"check", "add"}
      PROVE  First(Tail(run[s][t])) = "log"
  <2>1. Program(run[s][t]) /\ run[s][t] \in Seq(StepName)
    BY HeadFirst DEF Program
  <2>2. Len(run[s][t]) >= 2 /\ run[s][t][2] = "log"
    BY <1>6, <2>1 DEF Program
  <2>3. /\ Len(run[s][t]) \in Nat /\ Len(Tail(run[s][t])) = Len(run[s][t]) - 1
        /\ Tail(run[s][t]) \in Seq(StepName)
        /\ \A i \in 1..(Len(run[s][t]) - 1) : Tail(run[s][t])[i] = run[s][t][i + 1]
    BY <1>5, <2>1, SequenceFacts
  <2>4. Tail(run[s][t])[1] = "log" /\ Len(Tail(run[s][t])) # 0
    <3>1. 1 \in 1..(Len(run[s][t]) - 1) /\ 1 + 1 = 2
      BY <2>2, <2>3
    <3> QED
      BY <2>2, <2>3, <3>1
  <2>5. Tail(run[s][t]) # << >>
    BY <2>3, <2>4, SequenceFacts
  <2> QED
    BY <2>4, <2>5 DEF First
<1>7. ~CheckInMemory(s, t)
  <2>1. CheckInMemory(s, t) => First(run[s][t]) = "check" /\ Moves(s, t, IF IsNew(t) THEN Tail(run[s][t]) ELSE << >>)
    BY <1>5, HeadFirst DEF CheckInMemory, Moves
  <2> QED
    BY <1>1, <1>2, <1>5, <1>6, <2>1, AdvanceFacts
<1>8. ~CheckRedis(s, t)
  <2>1. CheckRedis(s, t) =>
          /\ First(run[s][t]) = "check"
          /\ Moves(s, t, IF IsNew(t) THEN <<"add">> \o Tail(run[s][t]) ELSE << >>)
    BY <1>5, HeadFirst DEF CheckRedis, Moves
  <2> QED
    BY <1>1, <1>2, <2>1, CheckFacts
<1>9. ~AddHash(s, t)
  <2>1. AddHash(s, t) => First(run[s][t]) = "add" /\ Advance(s, t)
    BY <1>5, HeadFirst DEF AddHash, Adding, Advance
  <2> QED
    BY <1>1, <1>5, <1>6, <2>1, AdvanceFacts
<1>10. ASSUME NEW step \in {"audit", "record", "award", "certify", "notify", "del"}, Next1(s, t, step)
       PROVE  First(run[s][t]) \notin {"none", "check", "add", "log"}
  BY <1>10, HeadFirst DEF Next1
<1>11. Dispatch(s, t)
  BY <1>3, <1>4, <1>7, <1>8, <1>9 DEF StatementFails, Work, Track
<1> QED
  BY <1>3, <1>10, <1>11 DEF Dispatch, Unlinked, Audit, RecordActivity, AwardMilestones, Certify, Notify, DeleteCache

LEMMA VisitFacts ==
  ASSUME PTypes, NEW t \in Txs, Visit(t)
  PROVE  /\ 0 \in Sources /\ scan.left \in Seq(Txs) /\ scan.left # << >> /\ t = Head(scan.left)
         /\ Tail(scan.left) \in Seq(Txs)
         /\ \A v : Contains(scan.left, v) => v = t \/ Contains(Tail(scan.left), v)
         /\ run[0][t] = << >>
<1>1. 0 \in Sources
  BY InstanceFacts DEF PTypes, Sources
<1>2. scan.left \in Seq(Txs) /\ scan.left # << >> /\ t = Head(scan.left) /\ run[0][t] = << >>
  BY DEF PTypes, ScanType, Visit
<1>3. /\ Len(scan.left) \in Nat /\ Tail(scan.left) \in Seq(Txs)
      /\ Len(Tail(scan.left)) = Len(scan.left) - 1
      /\ \A i \in 1..(Len(scan.left) - 1) : Tail(scan.left)[i] = scan.left[i + 1]
      /\ t = scan.left[1]
  BY <1>2, SequenceFacts
<1>4. ASSUME NEW i \in 1..Len(scan.left), scan.left[i] # t
      PROVE  Contains(Tail(scan.left), scan.left[i])
  <2>1. i # 1 /\ i - 1 \in 1..(Len(scan.left) - 1) /\ Tail(scan.left)[i - 1] = scan.left[(i - 1) + 1]
    BY <1>3, <1>4
  <2>2. (i - 1) + 1 = i
    OBVIOUS
  <2> QED
    BY <1>3, <2>1, <2>2 DEF Contains
<1> QED
  BY <1>1, <1>2, <1>3, <1>4 DEF Contains

LEMMA ScanMoves ==
  ASSUME PTypes, NEW t \in Txs, ScanNext(t)
  PROVE  /\ Visit(t) /\ 0 \in Sources /\ run[0][t] = << >>
         /\ Steps[inst.kind[t]] \in Programs /\ First(Steps[inst.kind[t]]) = "log"
         /\ Moves(0, t, Steps[inst.kind[t]])
<1>1. Visit(t) /\ Moves(0, t, Steps[inst.kind[t]])
  BY DEF ScanNext, SkipsKnown, Moves
<1> QED
  BY <1>1, VisitFacts, DeliverFacts

LEMMA RunTyped ==
  ASSUME PTypes, PipelineNext
  PROVE  run' \in [Sources -> [Txs -> Programs]]
<1>1. ASSUME NEW s \in Sources, NEW t \in Txs, Work(s, t) \/ StatementFails(s, t)
      PROVE  run' \in [Sources -> [Txs -> Programs]]
  <2>1. PICK x \in Programs : Left(s, t, x)
    BY <1>1, WorkMoves
  <2> QED
    BY <2>1, MovesFacts DEF Left
<1>2. ASSUME NEW t \in Txs, ScanNext(t)
      PROVE  run' \in [Sources -> [Txs -> Programs]]
  BY <1>2, ScanMoves, MovesFacts
<1>3. CASE Restart
  BY <1>3, ProgramsFacts DEF Restart
<1>4. CASE UNCHANGED run
  BY <1>4 DEF PTypes
<1> QED
  BY <1>1, <1>2, <1>3, <1>4, WhoMoves

LEMMA AppendNew ==
  ASSUME NEW q \in Seq(Txs), IsInjective(q), NEW t \in Txs, ~Contains(q, t)
  PROVE  /\ Append(q, t) \in Seq(Txs) /\ IsInjective(Append(q, t)) /\ Len(Append(q, t)) = Len(q) + 1
         /\ \A u : Contains(Append(q, t), u) <=> Contains(q, u) \/ u = t
<1>1. /\ Append(q, t) \in Seq(Txs) /\ Len(Append(q, t)) = Len(q) + 1 /\ Len(q) \in Nat
      /\ \A i \in 1..Len(q) : Append(q, t)[i] = q[i]
      /\ Append(q, t)[Len(q) + 1] = t
      /\ DOMAIN Append(q, t) = 1..(Len(q) + 1) /\ DOMAIN q = 1..Len(q)
  BY AppendProperties, LenProperties
<1> DEFINE x == Append(q, t)
<1> HIDE DEF x
<1>2. \A i \in 1..(Len(q) + 1) : i = Len(q) + 1 \/ i \in 1..Len(q)
  BY <1>1
<1>3. IsInjective(x)
  BY <1>1, <1>2 DEF IsInjective, Contains, x
<1>4. \A u : Contains(x, u) <=> Contains(q, u) \/ u = t
  BY <1>1, <1>2 DEF Contains, x
<1> QED
  BY <1>1, <1>3, <1>4 DEF x

LEMMA RememberedFacts ==
  ASSUME PTypes, NEW t \in Txs, ~Tracked(t)
  PROVE  /\ Remembered(t) \in Seq(Txs) /\ IsInjective(Remembered(t))
         /\ Contains(Remembered(t), t)
         /\ \A u \in Txs : Contains(Remembered(t), u) => u = t \/ Tracked(u)
         /\ ~redis /\ Len(seen) <= MaxHashCache => Len(Remembered(t)) <= MaxHashCache
<1> DEFINE all == Append(seen, t)
           m == 1 + (MaxHashCache + 1) \div 2
           kept == SubSeq(all, m, Len(all))
<1>1. /\ all \in Seq(Txs) /\ IsInjective(all) /\ Len(all) = Len(seen) + 1
      /\ \A u : Contains(all, u) <=> Contains(seen, u) \/ u = t
      /\ Len(seen) \in Nat /\ all[Len(all)] = t
  BY AppendNew, AppendProperties, LenProperties DEF PTypes, Tracked
<1>2. Remembered(t) = IF redis \/ Len(all) <= MaxHashCache THEN all ELSE kept
  BY DEF Remembered
<1>3. CASE redis \/ Len(all) <= MaxHashCache
  BY <1>1, <1>2, <1>3 DEF Tracked
<1>4. CASE ~redis /\ Len(all) > MaxHashCache
  <2>1. MaxHashCache \in Nat \ {0}
    BY InstanceFacts DEF PTypes
  <2>2. m \in Nat /\ m >= 2 /\ m <= MaxHashCache + 1
    BY <2>1
  <2> HIDE DEF all, m
  <2>3. m \in 1..(Len(all) + 1) /\ Len(all) \in Nat /\ m <= Len(all)
    BY <1>1, <1>4, <2>1, <2>2
  <2>4. /\ kept \in Seq(Txs) /\ Len(kept) = Len(all) - m + 1
        /\ \A i \in 1..(Len(all) - m + 1) : kept[i] = all[m + i - 1]
    BY <1>1, <2>3, SubSeqProperties
  <2> HIDE DEF kept
  <2>5. Len(kept) \in Nat /\ DOMAIN kept = 1..Len(kept) /\ DOMAIN all = 1..Len(all)
    BY <1>1, <2>4, LenProperties
  <2>6. \A i \in 1..Len(kept) : m + i - 1 \in 1..Len(all) /\ kept[i] = all[m + i - 1]
    BY <2>2, <2>3, <2>4, <2>5
  <2>7. IsInjective(kept)
    <3>1. \A a, b \in 1..Len(all) : all[a] = all[b] => a = b
      BY <1>1, <2>5 DEF IsInjective
    <3>2. \A a, b \in 1..Len(kept) : kept[a] = kept[b] => a = b
      <4> SUFFICES ASSUME NEW a \in 1..Len(kept), NEW b \in 1..Len(kept), kept[a] = kept[b]
                   PROVE  a = b
        OBVIOUS
      <4>1. m + a - 1 \in 1..Len(all) /\ m + b - 1 \in 1..Len(all) /\ all[m + a - 1] = all[m + b - 1]
        BY <2>6
      <4>2. m + a - 1 = m + b - 1
        BY <3>1, <4>1
      <4> QED
        BY <2>2, <2>5, <4>2
    <3> QED
      BY <2>5, <3>2 DEF IsInjective
  <2>8. Contains(kept, t)
    <3>1. Len(kept) \in 1..Len(kept) /\ kept[Len(kept)] = all[Len(all)]
      BY <2>2, <2>3, <2>4, <2>5
    <3> QED
      BY <1>1, <3>1 DEF Contains
  <2>9. \A u \in Txs : Contains(kept, u) => Contains(all, u)
    BY <2>6 DEF Contains
  <2>10. Len(seen) <= MaxHashCache => Len(kept) <= MaxHashCache
    BY <1>1, <2>1, <2>2, <2>4
  <2> QED
    BY <1>1, <1>2, <1>4, <2>4, <2>7, <2>8, <2>9, <2>10 DEF Tracked
<1> QED
  BY <1>1, <1>3, <1>4, InstanceFacts DEF PTypes

LEMMA AsSequence ==
  ASSUME NEW S, NEW n \in Nat, NEW x \in [1..n -> S]
  PROVE  x \in Seq(S) /\ Len(x) = n
OBVIOUS

LEMMA NoElements ==
  << >> \in Seq(Txs) /\ IsInjective(<< >>) /\ Len(<< >>) = 0 /\ \A t : ~Contains(<< >>, t)
<1>1. << >> \in Seq(Txs) /\ DOMAIN << >> = {} /\ Len(<< >>) = 0
  OBVIOUS
<1> QED
  BY <1>1 DEF IsInjective, Contains

LEMMA ForgettingFacts ==
  ASSUME past \in PastType, NEW new, NEW lost \in SUBSET Txs, Forgetting(new, lost)
  PROVE  /\ past' \in PastType
         /\ past'.overlap = past.overlap /\ past'.overtaken = past.overtaken
         /\ past'.direct = past.direct /\ past'.shown = past.shown /\ past'.purged = past.purged
         /\ \A t \in Txs : past'.forgot[t] = past.forgot[t] + Flag(t \in Evicted(new))
<1> DEFINE f == [t \in Txs |-> past.forgot[t] + IF t \in Evicted(new) THEN 1 ELSE 0]
           l == past.lost \cup lost
<1>1. past' = [past EXCEPT !.forgot = f, !.lost = l]
  BY DEF Forgetting
<1>2. f \in [Txs -> Nat] /\ l \in SUBSET Txs
  BY DEF PastType
<1>3. \A t \in Txs : f[t] = past.forgot[t] + Flag(t \in Evicted(new))
  BY DEF Flag
<1> HIDE DEF f, l
<1> QED
  BY <1>1, <1>2, <1>3 DEF PastType

(* Who forgets, and what may be lost with it.                               *)
Forgets == \E lost \in SUBSET Txs : Forgetting(seen', lost)

LEMMA WhoForgets ==
  /\ HashesExpire \/ Restart => Forgets
  /\ \A t \in Txs : ScanNext(t) \/ ScanMisses(t) => Forgets
  /\ \A s \in Sources, t \in Txs : CheckInMemory(s, t) => Forgets
<1>1. HashesExpire => Forgetting(seen', {})
  BY DEF HashesExpire
<1>2. Restart => Forgetting(seen', Dropped)
  BY DEF Restart
<1>3. Dropped \in SUBSET Txs
  BY DEF Dropped
<1>4. ASSUME NEW t \in Txs
      PROVE  /\ ScanNext(t) => Forgetting(seen', {})
             /\ ScanMisses(t) => Forgetting(seen', {t}) /\ {t} \in SUBSET Txs
  BY DEF ScanNext, ScanMisses
<1>5. ASSUME NEW s \in Sources, NEW t \in Txs, CheckInMemory(s, t)
      PROVE  Forgetting(seen', {})
  BY <1>5 DEF CheckInMemory
<1> HIDE DEF Forgetting
<1> QED
  BY <1>1, <1>2, <1>3, <1>4, <1>5 DEF Forgets

LEMMA SeenTyped ==
  ASSUME PTypes, PipelineNext
  PROVE  seen' \in Seq(Txs) /\ IsInjective(seen')
<1>1. ASSUME NEW t \in Txs, seen' = IF Tracked(t) THEN seen ELSE Remembered(t)
      PROVE  seen' \in Seq(Txs) /\ IsInjective(seen')
  BY <1>1, RememberedFacts DEF PTypes
<1>2. ASSUME NEW t \in Txs, seen' = IF Tracked(t) THEN seen ELSE Append(seen, t)
      PROVE  seen' \in Seq(Txs) /\ IsInjective(seen')
  BY <1>2, AppendNew DEF PTypes, Tracked
<1>3. ASSUME seen' = seen \/ seen' = << >>
      PROVE  seen' \in Seq(Txs) /\ IsInjective(seen')
  BY <1>3, NoElements DEF PTypes
<1>4. ASSUME NEW t \in Txs, ScanNext(t) \/ ScanMisses(t)
      PROVE  seen' \in Seq(Txs) /\ IsInjective(seen')
  BY <1>1, <1>4 DEF ScanNext, ScanMisses, Visit
<1>5. ASSUME NEW s \in Sources, NEW t \in Txs, CheckInMemory(s, t) \/ AddHash(s, t)
      PROVE  seen' \in Seq(Txs) /\ IsInjective(seen')
  BY <1>1, <1>2, <1>5 DEF CheckInMemory, AddHash
<1>6. CASE HashesExpire \/ Restart
  BY <1>3, <1>6 DEF HashesExpire, Restart
<1> QED
  BY <1>3, <1>4, <1>5, <1>6, WhoMoves

LEMMA NodeTyped ==
  ASSUME PTypes, PipelineNext
  PROVE  /\ redis' \in BOOLEAN /\ profile' \in BOOLEAN /\ linked' \in BOOLEAN /\ inst' \in Instances
         /\ chain' \in Seq(Txs) /\ IsInjective(chain')
<1>1. redis' = redis /\ inst' = inst
  BY WhoMoves
<1>2. linked' \in BOOLEAN /\ profile' \in BOOLEAN
  BY WhoMoves DEF PTypes, Link, Unlink, Purge
<1>3. ASSUME NEW t \in Txs, Land(t)
      PROVE  chain' \in Seq(Txs) /\ IsInjective(chain')
  BY <1>3, AppendNew DEF PTypes, Land
<1> QED
  BY <1>1, <1>2, <1>3, WhoMoves DEF PTypes

LEMMA ListenerTyped ==
  ASSUME PTypes, PipelineNext
  PROVE  /\ listening' \in BOOLEAN /\ subs' \in 0..MaxSubs /\ stops' \in 0..MaxSubs
         /\ (listening' => subs' > 0)
         /\ inbox' \in [Sources -> SUBSET Txs]
<1>1. inst.subs \in 1..MaxSubs /\ MaxSubs \in Nat \ {0}
  BY InstanceFacts DEF PTypes
<1>2. /\ listening' \in BOOLEAN /\ subs' \in 0..MaxSubs /\ stops' \in 0..MaxSubs
      /\ (listening' => subs' > 0)
  <2>0. /\ listening \in BOOLEAN /\ subs \in 0..MaxSubs /\ stops \in 0..MaxSubs
        /\ (listening => subs > 0)
    BY DEF PTypes
  <2>1. CASE StartEventListener
    BY <1>1, <2>0, <2>1 DEF StartEventListener
  <2>2. CASE StopEventListener
    <3>1. UNCHANGED <<listening, subs>> /\ stops < inst.subs /\ stops' = stops + 1
      BY <2>2 DEF StopEventListener
    <3>2. stops' \in 0..MaxSubs
      BY <1>1, <2>0, <3>1
    <3> QED
      BY <2>0, <3>1, <3>2, Zenon
  <2>3. CASE Stopped \/ Restart
    <3>1. ~listening' /\ listening' = FALSE /\ subs' \in {0, subs} /\ stops' \in {0, stops - 1} /\ (stops > 0 \/ stops' = 0)
      BY <2>3 DEF Stopped, Restart
    <3>2. stops' \in 0..MaxSubs /\ subs' \in 0..MaxSubs
      BY <1>1, <2>0, <3>1
    <3> QED
      BY <3>1, <3>2, Zenon
  <2> QED
    BY <2>0, <2>1, <2>2, <2>3, WhoMoves
<1>3. inbox' \in [Sources -> SUBSET Txs]
  <2>1. ASSUME NEW t \in Txs, Land(t)
        PROVE  inbox' \in [Sources -> SUBSET Txs]
    BY <2>1 DEF Land, PTypes
  <2>2. ASSUME NEW s \in Sources, NEW t \in Txs, Deliver(s, t) \/ LoseDelivery(s, t)
        PROVE  inbox' \in [Sources -> SUBSET Txs]
    BY <2>2 DEF Deliver, LoseDelivery, PTypes
  <2>3. CASE Restart
    BY <2>3 DEF Restart
  <2> QED
    BY <2>1, <2>2, <2>3, WhoMoves DEF PTypes
<1> QED
  BY <1>2, <1>3

LEMMA ReverseFacts ==
  ASSUME NEW q \in Seq(Txs)
  PROVE  /\ Reverse(q) \in Seq(Txs)
         /\ \A t : Contains(Reverse(q), t) <=> Contains(q, t)
<1> DEFINE x == Reverse(q)
<1>1. Len(q) \in Nat /\ DOMAIN q = 1..Len(q) /\ \A i \in 1..Len(q) : q[i] \in Txs
  BY LenProperties, ElementOfSeq
<1>2. x = [i \in 1..Len(q) |-> q[(Len(q) - i) + 1]]
  BY DEF Reverse
<1>3. \A i \in 1..Len(q) : (Len(q) - i) + 1 \in 1..Len(q) /\ (Len(q) - ((Len(q) - i) + 1)) + 1 = i
  BY <1>1
<1>4. x \in [1..Len(q) -> Txs]
  BY <1>1, <1>2, <1>3
<1>5. x \in Seq(Txs) /\ Len(x) = Len(q)
  BY <1>1, <1>4, AsSequence, Zenon
<1>6. \A t : Contains(x, t) <=> Contains(q, t)
  BY <1>1, <1>2, <1>3, <1>5 DEF Contains
<1> QED
  BY <1>5, <1>6

LEMMA ScanTyped ==
  ASSUME PTypes, PipelineNext
  PROVE  scan' \in ScanType /\ scans' \in Nat
<1>1. CASE Recover
  BY <1>1, ReverseFacts DEF Recover, PTypes, ScanType
<1>2. ASSUME NEW t \in Txs, ScanNext(t) \/ ScanMisses(t)
      PROVE  scan' \in ScanType
  <2>1. Visit(t) /\ scan \in ScanType
    BY <1>2 DEF ScanNext, ScanMisses, PTypes
  <2>2. Tail(scan.left) \in Seq(Txs)
    BY <2>1, VisitFacts
  <2> QED
    BY <1>2, <2>1, <2>2 DEF ScanNext, ScanMisses, ScanType
<1>5. ASSUME NEW s \in Sources, NEW t \in Txs, StatementFails(s, t)
      PROVE  scan' \in ScanType
  <2>1. scan' = scan \/ scan' = [scan EXCEPT !.missed = scan.missed \cup {t}]
    BY <1>5 DEF StatementFails
  <2>2. scan \in ScanType
    BY DEF PTypes
  <2> QED
    BY <2>1, <2>2 DEF ScanType
<1>3. CASE ScanEnds \/ Restart
  <2>1. scan' = NoScan /\ scans' = scans
    BY <1>3 DEF ScanEnds, Restart, counts
  <2>2. NoScan \in ScanType
    BY NoElements DEF NoScan, ScanType
  <2> QED
    BY <2>1, <2>2 DEF PTypes
<1>4. UNCHANGED scans \/ Recover
  BY WhoMoves
<1>6. scans' \in Nat
  BY <1>4 DEF Recover, PTypes
<1> QED
  BY <1>1, <1>2, <1>3, <1>5, <1>6, WhoMoves DEF PTypes

(* What a log entry and a failure write.                                    *)
LEMMA LogFacts ==
  ASSUME PTypes, NEW s \in Sources, NEW t \in Txs, LogEvent(s, t)
  PROVE  /\ rows' \in [Txs -> RowType]
         /\ \A u \in Txs : u # t => rows'[u] = rows[u]
         /\ rows'[t].failed = rows[t].failed
         /\ rows'[t].live = rows[t].live + Flag(s # 0)
         /\ rows'[t].scan = rows[t].scan + Flag(s = 0)
<1>1. rows \in [Txs -> RowType]
  BY DEF PTypes
<1>2. PICK row \in RowType : row = rows[t]
  BY <1>1
<1> DEFINE new == IF s = 0 THEN [row EXCEPT !.scan = row.scan + 1] ELSE [row EXCEPT !.live = row.live + 1]
<1>3. rows' = [rows EXCEPT ![t] = new]
  BY <1>2 DEF LogEvent
<1>4. /\ new \in RowType /\ new.failed = row.failed
      /\ new.live = row.live + Flag(s # 0) /\ new.scan = row.scan + Flag(s = 0)
  BY <1>2 DEF RowType, Flag
<1> HIDE DEF new
<1> QED
  BY <1>1, <1>2, <1>3, <1>4

LEMMA FailFacts ==
  ASSUME PTypes, NEW s \in Sources, NEW t \in Txs, StatementFails(s, t)
  PROVE  /\ rows' \in [Txs -> RowType] /\ past' \in PastType
         /\ \A u \in Txs : /\ rows'[u].live = rows[u].live /\ rows'[u].scan = rows[u].scan
                          /\ rows'[u].failed >= rows[u].failed
         /\ rows'[t].failed > 0 \/ s # 0 \/ t \in scan'.missed
         /\ scan'.list = scan.list /\ scan'.left = scan.left /\ scan.missed \subseteq scan'.missed
         /\ past'.forgot = past.forgot /\ past'.overlap = past.overlap
         /\ past'.overtaken = past.overtaken
         /\ past'.direct = past.direct /\ past'.shown = past.shown /\ past'.purged = past.purged
<1>1. rows \in [Txs -> RowType] /\ past \in PastType /\ scan \in ScanType
  BY DEF PTypes
<1>2. CASE rows' = [rows EXCEPT ![t].failed = @ + 1] /\ UNCHANGED <<scan, past>>
  <2>1. PICK row \in RowType : row = rows[t]
    BY <1>1
  <2> DEFINE new == [row EXCEPT !.failed = row.failed + 1]
  <2>2. rows' = [rows EXCEPT ![t] = new]
    BY <1>2, <2>1
  <2>3. /\ new \in RowType /\ new.live = row.live /\ new.scan = row.scan
        /\ new.failed = row.failed + 1 /\ row.failed \in Nat
    BY <2>1 DEF RowType
  <2> HIDE DEF new
  <2>4. /\ rows' \in [Txs -> RowType] /\ rows'[t] = new /\ rows[t] = row
        /\ \A u \in Txs : u # t => rows'[u] = rows[u]
    BY <1>1, <2>1, <2>2, <2>3
  <2>5. \A u \in Txs : rows[u].failed \in Nat
    BY <1>1 DEF RowType
  <2>6. ASSUME NEW u \in Txs
        PROVE  /\ rows'[u].live = rows[u].live /\ rows'[u].scan = rows[u].scan
               /\ rows'[u].failed >= rows[u].failed
    BY <2>3, <2>4, <2>5
  <2> QED
    BY <1>1, <1>2, <2>3, <2>4, <2>6
<1>3. CASE /\ past' = [past EXCEPT !.lost = @ \cup {t}]
           /\ scan' = IF s = 0 THEN [scan EXCEPT !.missed = @ \cup {t}] ELSE scan
           /\ UNCHANGED rows
  <2>1. \A u \in Txs : rows[u].failed \in Nat
    BY <1>1 DEF RowType
  <2>2. /\ past' \in PastType /\ past'.forgot = past.forgot
        /\ past'.overlap = past.overlap /\ past'.overtaken = past.overtaken
        /\ past'.direct = past.direct /\ past'.shown = past.shown /\ past'.purged = past.purged
    BY <1>1, <1>3 DEF PastType
  <2>3. /\ s # 0 \/ t \in scan'.missed
        /\ scan'.list = scan.list /\ scan'.left = scan.left /\ scan.missed \subseteq scan'.missed
    BY <1>1, <1>3 DEF ScanType
  <2> QED
    BY <1>1, <1>3, <2>1, <2>2, <2>3
<1> QED
  BY <1>2, <1>3 DEF StatementFails

LEMMA OverlapFacts ==
  ASSUME PTypes, NEW s \in Sources, NEW t \in Txs, CheckRedis(s, t)
  PROVE  /\ past' \in PastType
         /\ past'.forgot = past.forgot /\ past'.overtaken = past.overtaken
         /\ past'.direct = past.direct /\ past'.shown = past.shown /\ past'.purged = past.purged
         /\ \A u \in Txs : past'.overlap[u]
                          = past.overlap[u] + Flag(u = t /\ IsNew(t) /\ Adding(t) # {})
<1>1. past \in PastType
  BY DEF PTypes
<1>2. CASE IsNew(t) /\ Adding(t) # {}
  <2> DEFINE f == [past.overlap EXCEPT ![t] = past.overlap[t] + 1]
  <2>1. past' = [past EXCEPT !.overlap = f]
    BY <1>2 DEF CheckRedis
  <2>2. /\ f \in [Txs -> Nat] /\ \A u \in Txs : f[u] = past.overlap[u] + Flag(u = t)
    BY <1>1 DEF PastType, Flag
  <2> HIDE DEF f
  <2> QED
    BY <1>1, <1>2, <2>1, <2>2 DEF PastType, Flag
<1>3. CASE ~(IsNew(t) /\ Adding(t) # {})
  BY <1>1, <1>3 DEF CheckRedis, PastType, Flag
<1> QED
  BY <1>2, <1>3

(* What the streak routes and the purge write.                              *)
LEMMA VisitsWrite ==
  ASSUME PTypes, NEW x \in 0..1, NEW c \in 0..1, AddToDay(x, c)
  PROVE  /\ profile /\ xp' = xp + x /\ courses' = courses + c
         /\ past' \in PastType
         /\ past'.direct.xp = past.direct.xp + x /\ past'.direct.courses = past.direct.courses + c
         /\ past'.direct.badges = past.direct.badges
         /\ past'.forgot = past.forgot /\ past'.overlap = past.overlap /\ past'.overtaken = past.overtaken
         /\ past'.shown = past.shown /\ past'.purged = past.purged
         /\ UNCHANGED <<redis, node, listener, run, scan, rows, achievements, board, scans, faults>>
<1>1. past \in PastType /\ past.direct \in DirectType
  BY DEF PTypes, PastType
<1>2. PICK d : d = [xp |-> past.direct.xp + x, courses |-> past.direct.courses + c,
                    badges |-> past.direct.badges]
  OBVIOUS
<1>3. past' = [past EXCEPT !.direct = d]
  BY <1>2 DEF AddToDay
<1>4. /\ d \in DirectType /\ d.xp = past.direct.xp + x /\ d.courses = past.direct.courses + c
      /\ d.badges = past.direct.badges
  BY <1>1, <1>2 DEF DirectType
<1>5. /\ past' \in PastType /\ past'.direct = d
      /\ past'.forgot = past.forgot /\ past'.overlap = past.overlap /\ past'.overtaken = past.overtaken
      /\ past'.shown = past.shown /\ past'.purged = past.purged
  BY <1>1, <1>3, <1>4 DEF PastType
<1>6. /\ profile /\ xp' = xp + x /\ courses' = courses + c
      /\ UNCHANGED <<redis, node, listener, run, scan, rows, achievements, board, scans, faults>>
  BY DEF AddToDay
<1> QED
  BY <1>4, <1>5, <1>6

LEMMA ClaimWrites ==
  ASSUME PTypes, NEW m \in Milestones, Claim(m)
  PROVE  /\ achievements' = achievements \cup {m}
         /\ past' \in PastType
         /\ past'.direct.xp = past.direct.xp /\ past'.direct.courses = past.direct.courses
         /\ past'.direct.badges = past.direct.badges \cup {m}
         /\ past'.forgot = past.forgot /\ past'.overlap = past.overlap /\ past'.overtaken = past.overtaken
         /\ past'.shown = past.shown /\ past'.purged = past.purged
         /\ UNCHANGED <<redis, node, listener, run, scan, rows, xp, courses, board, scans, faults>>
<1>1. past \in PastType /\ past.direct \in DirectType
  BY DEF PTypes, PastType
<1>2. PICK d : d = [past.direct EXCEPT !.badges = past.direct.badges \cup {m}]
  OBVIOUS
<1>3. past' = [past EXCEPT !.direct = d]
  BY <1>2 DEF Claim
<1>4. /\ d \in DirectType /\ d.xp = past.direct.xp /\ d.courses = past.direct.courses
      /\ d.badges = past.direct.badges \cup {m}
  BY <1>1, <1>2 DEF DirectType
<1>5. /\ past' \in PastType /\ past'.direct = d
      /\ past'.forgot = past.forgot /\ past'.overlap = past.overlap /\ past'.overtaken = past.overtaken
      /\ past'.shown = past.shown /\ past'.purged = past.purged
  BY <1>1, <1>3, <1>4 DEF PastType
<1>6. /\ achievements' = achievements \cup {m}
      /\ UNCHANGED <<redis, node, listener, run, scan, rows, xp, courses, board, scans, faults>>
  BY DEF Claim
<1> QED
  BY <1>4, <1>5, <1>6

LEMMA PurgeWrites ==
  ASSUME PTypes, Purge
  PROVE  /\ xp' = 0 /\ courses' = 0 /\ achievements' = {} /\ ~profile' /\ ~linked' /\ profile
         /\ past' \in PastType /\ past'.purged = xp
         /\ past'.forgot = past.forgot /\ past'.overlap = past.overlap /\ past'.overtaken = past.overtaken
         /\ past'.shown = past.shown /\ past'.direct = past.direct
         /\ UNCHANGED <<redis, chain, inst, listener, run, scan, rows, board, scans, faults>>
<1>1. past \in PastType /\ xp \in Nat
  BY DEF PTypes
<1> QED
  BY <1>1 DEF Purge, PastType

LEMMA TablesTyped ==
  ASSUME PTypes, PipelineNext
  PROVE  rows' \in [Txs -> RowType] /\ xp' \in Nat /\ courses' \in Nat
<1>1. ASSUME NEW s \in Sources, NEW t \in Txs, LogEvent(s, t) \/ StatementFails(s, t)
      PROVE  rows' \in [Txs -> RowType]
  BY <1>1, LogFacts, FailFacts
<1>2. ASSUME NEW s \in Sources, NEW t \in Txs, RecordActivity(s, t)
      PROVE  xp' \in Nat /\ courses' \in Nat
  BY <1>2 DEF RecordActivity, PTypes, XpOf
<1>3. ASSUME NEW x \in 0..1, NEW c \in 0..1, AddToDay(x, c)
      PROVE  xp' \in Nat /\ courses' \in Nat
  BY <1>3, VisitsWrite DEF PTypes
<1> QED
  BY <1>1, <1>2, <1>3, PurgeWrites, WhoMoves DEF PTypes, Visits

LEMMA BoardTyped ==
  ASSUME PTypes, PipelineNext
  PROVE  /\ cache' \in Nat \cup {NoCache} /\ cron' \in BOOLEAN
         /\ refresh' \in [Refreshes -> RefreshType]
<1>0. /\ cache \in Nat \cup {NoCache} /\ cron \in BOOLEAN /\ refresh \in [Refreshes -> RefreshType]
      /\ redis \in BOOLEAN /\ xp \in Nat /\ past.direct.xp \in Nat
  BY DEF PTypes, PastType, DirectType
<1>1. ASSUME NEW r \in Refreshes, StartRefresh(r)
      PROVE  refresh' \in [Refreshes -> RefreshType]
  BY <1>0, <1>1 DEF StartRefresh, RefreshType
<1>2. ASSUME NEW r \in Refreshes, StartCronJobs(r) \/ RefreshLeaderboard(r) \/ WriteCache(r)
      PROVE  /\ cache' \in Nat \cup {NoCache} /\ cron' \in BOOLEAN
             /\ refresh' \in [Refreshes -> RefreshType]
  <2>1. CASE StartCronJobs(r)
    BY <1>0, <1>1, <2>1 DEF StartCronJobs
  <2>2. CASE RefreshLeaderboard(r)
    BY <1>0, <1>1, <2>2 DEF RefreshLeaderboard
  <2>3. CASE WriteCache(r)
    BY <1>0, <2>3 DEF WriteCache, RefreshType, Resting
  <2> QED
    BY <1>2, <2>1, <2>2, <2>3
<1>3. ASSUME NEW s \in Sources, NEW t \in Txs, DeleteCache(s, t)
      PROVE  /\ cache' \in Nat \cup {NoCache} /\ cron' \in BOOLEAN
             /\ refresh' \in [Refreshes -> RefreshType]
  BY <1>0, <1>3 DEF DeleteCache, RefreshType
<1>4. CASE StopCronJobs \/ CacheExpires
  BY <1>0, <1>4 DEF StopCronJobs, CacheExpires
<1>5. CASE Restart
  BY <1>0, <1>5 DEF Restart, RefreshType, Resting
<1> QED
  BY <1>0, <1>2, <1>3, <1>4, <1>5, WhoMoves DEF board

LEMMA PastTyped ==
  ASSUME PTypes, PipelineNext
  PROVE  faults' \in Nat /\ past' \in PastType
<1>0. past \in PastType /\ faults \in Nat /\ refresh \in [Refreshes -> RefreshType]
  BY DEF PTypes
<1>1. faults' \in Nat
  <2>1. ASSUME NEW s \in Sources, NEW t \in Txs, StatementFails(s, t) \/ LoseDelivery(s, t)
        PROVE  faults' = faults + 1
    BY <2>1 DEF StatementFails, LoseDelivery
  <2>2. Restart \/ (\E t \in Txs : ScanMisses(t)) => faults' = faults + 1
    BY DEF Restart, ScanMisses
  <2> QED
    BY <1>0, <2>1, <2>2, WhoMoves
<1>2. ASSUME NEW s \in Sources, NEW t \in Txs, CheckRedis(s, t) \/ StatementFails(s, t)
      PROVE  past' \in PastType
  BY <1>2, OverlapFacts, FailFacts
<1>3. ASSUME NEW s \in Sources, NEW t \in Txs, DeleteCache(s, t) \/ LoseDelivery(s, t)
      PROVE  past' \in PastType
  <2>1. CASE DeleteCache(s, t)
    BY <1>0, <2>1 DEF DeleteCache, PastType
  <2>2. CASE LoseDelivery(s, t)
    BY <1>0, <2>2 DEF LoseDelivery, PastType
  <2> QED
    BY <1>3, <2>1, <2>2
<1>4. ASSUME NEW r \in Refreshes, WriteCache(r)
      PROVE  past' \in PastType
  BY <1>0, <1>4 DEF WriteCache, PastType, RefreshType
<1>5. ASSUME CacheExpires
      PROVE  past' \in PastType
  BY <1>0, <1>5 DEF CacheExpires, PastType
<1>6. ASSUME Forgets
      PROVE  past' \in PastType
  BY <1>0, <1>6, ForgettingFacts DEF Forgets
<1>7. ASSUME Visits \/ Purge \/ Claims
      PROVE  past' \in PastType
  BY <1>7, VisitsWrite, PurgeWrites, ClaimWrites DEF Visits, Claims
<1> QED
  BY <1>0, <1>1, <1>2, <1>3, <1>4, <1>5, <1>6, <1>7, WhoForgets, WhoMoves

LEMMA TypesInit ==
  ASSUME Init
  PROVE  PTypes
<1>1. /\ redis \in BOOLEAN /\ profile \in BOOLEAN /\ linked \in BOOLEAN /\ inst \in Instances
      /\ listening \in BOOLEAN /\ cron \in BOOLEAN /\ ~listening
  BY DEF Init
<1>2. /\ chain \in Seq(Txs) /\ IsInjective(chain) /\ seen \in Seq(Txs) /\ IsInjective(seen)
  BY NoElements DEF Init
<1>3. subs \in 0..MaxSubs /\ stops \in 0..MaxSubs
  BY <1>1, InstanceFacts DEF Init
<1>4. inbox \in [Sources -> SUBSET Txs] /\ run \in [Sources -> [Txs -> Programs]]
  BY ProgramsFacts DEF Init
<1>5. scan \in ScanType
  BY NoElements DEF Init, NoScan, ScanType
<1>6. rows \in [Txs -> RowType] /\ xp \in Nat /\ courses \in Nat /\ scans \in Nat /\ faults \in Nat
  BY DEF Init, RowType
<1>7. cache \in Nat \cup {NoCache} /\ refresh \in [Refreshes -> RefreshType] /\ past \in PastType
  BY DEF Init, RefreshType, Resting, PastType, DirectType
<1> QED
  BY <1>1, <1>2, <1>3, <1>4, <1>5, <1>6, <1>7 DEF PTypes

LEMMA TypesStep ==
  ASSUME PTypes, [PipelineNext]_vars
  PROVE  PTypes'
<1>1. CASE PipelineNext
  <2>1. /\ redis' \in BOOLEAN /\ profile' \in BOOLEAN /\ linked' \in BOOLEAN /\ inst' \in Instances
        /\ chain' \in Seq(Txs) /\ IsInjective(chain')
    BY <1>1, NodeTyped
  <2> QED
    BY <1>1, <2>1, SeenTyped, ListenerTyped, RunTyped, ScanTyped, TablesTyped, BoardTyped, PastTyped
    DEF PTypes
<1>2. CASE UNCHANGED vars
  BY <1>2 DEF PTypes, vars, node, listener, tables, board, counts
<1> QED
  BY <1>1, <1>2

-----------------------------------------------------------------------------
(* Who may hold what.                                                       *)

(* Nothing is written to Redis where there is none.                         *)
MemoryOnly ==
  ~redis => /\ Len(seen) <= MaxHashCache /\ cache = NoCache
            /\ \A r \in Refreshes : ~refresh[r].on
            /\ \A s \in Sources, t \in Txs : First(run[s][t]) # "add"

(* The scan asks nothing before it dispatches.                              *)
ScanChecksNothing ==
  /\ inbox[0] = {}
  /\ \A t \in Txs : First(run[0][t]) \notin {"check", "add"}

(* A subscription handles a transaction once.                               *)
HandledOnce ==
  \A s \in 1..MaxSubs, t \in Txs :
    /\ t \in inbox[s] => Contains(chain, t) /\ run[s][t] = << >>
    /\ run[s][t] # << >> => Contains(chain, t)

LEMMA MemoryOnlyStep ==
  ASSUME PTypes, MemoryOnly, PipelineNext
  PROVE  MemoryOnly'
<1> SUFFICES ASSUME ~redis
             PROVE  /\ Len(seen') <= MaxHashCache /\ cache' = NoCache
                    /\ \A r \in Refreshes : ~refresh'[r].on
                    /\ \A s \in Sources, t \in Txs : First(run'[s][t]) # "add"
  BY WhoMoves DEF MemoryOnly
<1>1. /\ Len(seen) <= MaxHashCache /\ cache = NoCache
      /\ \A r \in Refreshes : ~refresh[r].on
      /\ \A s \in Sources, t \in Txs : First(run[s][t]) # "add"
  BY DEF MemoryOnly
<1>2. Len(seen') <= MaxHashCache
  <2>1. ASSUME NEW t \in Txs, seen' = IF Tracked(t) THEN seen ELSE Remembered(t)
        PROVE  Len(seen') <= MaxHashCache
    BY <1>1, <2>1, RememberedFacts
  <2>2. ASSUME NEW s \in Sources, NEW t \in Txs, CheckInMemory(s, t) \/ AddHash(s, t)
        PROVE  Len(seen') <= MaxHashCache
    <3>1. ~AddHash(s, t)
      BY <1>1, HeadFirst DEF AddHash, Adding
    <3> QED
      BY <2>1, <2>2, <3>1 DEF CheckInMemory
  <2>3. ASSUME NEW t \in Txs, ScanNext(t) \/ ScanMisses(t)
        PROVE  Len(seen') <= MaxHashCache
    BY <2>1, <2>3 DEF ScanNext, ScanMisses, Visit
  <2>4. CASE Restart
    BY <2>4, NoElements, InstanceFacts DEF Restart, PTypes
  <2>5. ~HashesExpire
    BY DEF HashesExpire
  <2> QED
    BY <1>1, <2>2, <2>3, <2>4, <2>5, WhoMoves
<1>3. cache' = NoCache /\ \A r \in Refreshes : ~refresh'[r].on
  <2>0. refresh \in [Refreshes -> RefreshType]
    BY DEF PTypes
  <2>1. ASSUME NEW r \in Refreshes, StartCronJobs(r) \/ RefreshLeaderboard(r) \/ WriteCache(r)
        PROVE  cache' = cache /\ refresh' = refresh
    BY <1>1, <2>0, <2>1 DEF StartCronJobs, RefreshLeaderboard, WriteCache, StartRefresh
  <2>2. ASSUME NEW s \in Sources, NEW t \in Txs, DeleteCache(s, t)
        PROVE  cache' = NoCache /\ \A r \in Refreshes : refresh'[r].on = refresh[r].on
    BY <2>0, <2>2 DEF DeleteCache, RefreshType
  <2>3. CASE StopCronJobs \/ CacheExpires
    BY <1>1, <2>3 DEF StopCronJobs, CacheExpires
  <2>4. CASE Restart
    BY <1>1, <2>4 DEF Restart, Resting
  <2> QED
    BY <1>1, <2>1, <2>2, <2>3, <2>4, WhoMoves DEF board
<1>4. ASSUME NEW u \in Sources, NEW v \in Txs
      PROVE  First(run'[u][v]) # "add"
  <2>1. ASSUME NEW s \in Sources, NEW t \in Txs, Work(s, t) \/ StatementFails(s, t)
        PROVE  First(run'[u][v]) # "add"
    <3>1. PICK x \in Programs : Left(s, t, x)
      BY <2>1, WorkMoves
    <3>2. First(x) # "add"
      BY <3>1 DEF Left, CheckRedis
    <3> QED
      BY <1>1, <3>1, <3>2, MovesFacts DEF Left
  <2>2. ASSUME NEW t \in Txs, ScanNext(t)
        PROVE  First(run'[u][v]) # "add"
    BY <1>1, <2>2, ScanMoves, MovesFacts
  <2>3. CASE Restart
    BY <2>3, ProgramNone DEF Restart
  <2> QED
    BY <1>1, <2>1, <2>2, <2>3, WhoMoves
<1> QED
  BY <1>2, <1>3, <1>4

LEMMA ScanChecksNothingStep ==
  ASSUME PTypes, ScanChecksNothing, PipelineNext
  PROVE  ScanChecksNothing'
<1>0. 0 \in Sources /\ 0 \notin 1..subs /\ inbox \in [Sources -> SUBSET Txs]
  BY InstanceFacts DEF PTypes, Sources
<1>1. inbox'[0] = {}
  <2>1. ASSUME NEW t \in Txs, Land(t)
        PROVE  inbox'[0] = {}
    BY <1>0, <2>1 DEF Land, ScanChecksNothing
  <2>2. ASSUME NEW s \in Sources, NEW t \in Txs, Deliver(s, t) \/ LoseDelivery(s, t)
        PROVE  inbox'[0] = {}
    BY <1>0, <2>2 DEF Deliver, LoseDelivery, ScanChecksNothing
  <2>3. CASE Restart
    BY <1>0, <2>3 DEF Restart
  <2> QED
    BY <2>1, <2>2, <2>3, WhoMoves DEF ScanChecksNothing
<1>2. ASSUME NEW v \in Txs
      PROVE  First(run'[0][v]) \notin {"check", "add"}
  <2>1. ASSUME NEW s \in Sources, NEW t \in Txs, Work(s, t) \/ StatementFails(s, t)
        PROVE  First(run'[0][v]) \notin {"check", "add"}
    <3>1. PICK x \in Programs : Left(s, t, x)
      BY <2>1, WorkMoves
    <3>2. s = 0 => First(x) \notin {"check", "add"}
      <4>1. ~Deliver(0, t)
        BY <1>0 DEF Deliver
      <4>2. ~CheckRedis(0, t)
        BY <1>0, HeadFirst DEF CheckRedis, ScanChecksNothing
      <4> QED
        BY <3>1, <4>1, <4>2 DEF Left
    <3> QED
      BY <1>0, <3>1, <3>2, MovesFacts DEF Left, ScanChecksNothing
  <2>2. ASSUME NEW t \in Txs, ScanNext(t)
        PROVE  First(run'[0][v]) \notin {"check", "add"}
    BY <1>0, <2>2, ScanMoves, MovesFacts DEF ScanChecksNothing
  <2>3. CASE Restart
    BY <1>0, <2>3, ProgramNone DEF Restart
  <2> QED
    BY <2>1, <2>2, <2>3, WhoMoves DEF ScanChecksNothing
<1> QED
  BY <1>1, <1>2 DEF ScanChecksNothing

LEMMA HandledOnceStep ==
  ASSUME PTypes, HandledOnce, PipelineNext
  PROVE  HandledOnce'
<1> SUFFICES ASSUME NEW u \in 1..MaxSubs, NEW v \in Txs
             PROVE  /\ v \in inbox'[u] => Contains(chain', v) /\ run'[u][v] = << >>
                    /\ run'[u][v] # << >> => Contains(chain', v)
  BY DEF HandledOnce
<1>0. /\ u \in Sources /\ u # 0 /\ inbox \in [Sources -> SUBSET Txs]
      /\ v \in inbox[u] => Contains(chain, v) /\ run[u][v] = << >>
      /\ run[u][v] # << >> => Contains(chain, v)
  BY InstanceFacts DEF PTypes, Sources, HandledOnce
<1>1. ASSUME NEW t \in Txs, Land(t)
      PROVE  /\ v \in inbox'[u] => Contains(chain', v) /\ run'[u][v] = << >>
             /\ run'[u][v] # << >> => Contains(chain', v)
  <2>1. \A w : Contains(chain', w) <=> Contains(chain, w) \/ w = t
    BY <1>1, AppendNew DEF Land, PTypes
  <2>2. inbox'[u] \subseteq inbox[u] \cup {t} /\ run' = run /\ ~Contains(chain, t)
    BY <1>0, <1>1 DEF Land
  <2> QED
    BY <1>0, <2>1, <2>2
<1>2. ASSUME NEW s \in Sources, NEW t \in Txs, Work(s, t) \/ StatementFails(s, t)
      PROVE  /\ v \in inbox'[u] => Contains(chain', v) /\ run'[u][v] = << >>
             /\ run'[u][v] # << >> => Contains(chain', v)
  <2>1. PICK x \in Programs : Left(s, t, x)
    BY <1>2, WorkMoves
  <2>2. u # s \/ v # t => run'[u][v] = run[u][v]
    BY <1>0, <2>1, MovesFacts DEF Left
  <2>3. chain' = chain
    BY <1>2 DEF Work, Deliver, Track, CheckInMemory, CheckRedis, AddHash, Dispatch, LogEvent, Unlinked, Audit,
                RecordActivity, AwardMilestones, Certify, Notify, DeleteCache, StatementFails, node
  <2>4. CASE Deliver(s, t)
    <3>1. t \in inbox[s] /\ inbox' = [inbox EXCEPT ![s] = inbox[s] \ {t}]
      BY <2>4 DEF Deliver
    <3> QED
      BY <1>0, <2>2, <2>3, <3>1
  <2>5. CASE run[s][t] # << >> /\ UNCHANGED inbox
    BY <1>0, <2>2, <2>3, <2>5
  <2>6. Deliver(s, t) \/ UNCHANGED inbox
    BY <1>2 DEF Work, Track, CheckInMemory, CheckRedis, AddHash, Dispatch, LogEvent, Unlinked, Audit,
                RecordActivity, AwardMilestones, Certify, Notify, DeleteCache, StatementFails, listener
  <2> QED
    BY <1>2, <2>4, <2>5, <2>6, WorkMoves
<1>3. ASSUME NEW t \in Txs, ScanNext(t)
      PROVE  /\ v \in inbox'[u] => Contains(chain', v) /\ run'[u][v] = << >>
             /\ run'[u][v] # << >> => Contains(chain', v)
  <2>1. run'[u][v] = run[u][v]
    BY <1>0, <1>3, ScanMoves, MovesFacts
  <2>2. inbox' = inbox /\ chain' = chain
    BY <1>3 DEF ScanNext, node
  <2> QED
    BY <1>0, <2>1, <2>2
<1>4. CASE Restart
  BY <1>0, <1>4 DEF Restart, node
<1>5. ASSUME NEW s \in Sources, NEW t \in Txs, LoseDelivery(s, t)
      PROVE  /\ v \in inbox'[u] => Contains(chain', v) /\ run'[u][v] = << >>
             /\ run'[u][v] # << >> => Contains(chain', v)
  BY <1>0, <1>5 DEF LoseDelivery, node
<1>6. CASE UNCHANGED <<chain, inbox, run>>
  BY <1>0, <1>6
<1> QED
  BY <1>1, <1>2, <1>3, <1>4, <1>5, <1>6, WhoMoves DEF Work

-----------------------------------------------------------------------------
(* DuplicatesExplained: a live dispatch that is still to be logged counts   *)
(* as one already, and the one dispatch that is due to a hash stands for    *)
(* the hash being known, or about to be added.                              *)
LiveLeft(r, t) == {s \in 1..MaxSubs : First(r[s][t]) \in {"add", "log"}}
Adders(r, t) == {s \in Sources : First(r[s][t]) = "add"}
Known(q, r, t) == Contains(q, t) \/ Adders(r, t) # {}

Explained(rw, p, q, r, t) ==
  rw[t].live + Cardinality(LiveLeft(r, t)) <= p.overlap[t] + p.forgot[t] + Flag(Known(q, r, t))

LEMMA LiveLeftType ==
  ASSUME MaxSubs \in Nat, NEW r, NEW t
  PROVE  /\ Cardinality(LiveLeft(r, t)) \in Nat
         /\ LiveLeft(r, t) # {} => Cardinality(LiveLeft(r, t)) >= 1
         /\ LiveLeft(r, t) = {} => Cardinality(LiveLeft(r, t)) = 0
<1>1. IsFiniteSet(1..MaxSubs)
  BY IntervalFinite
<1>2. LiveLeft(r, t) \in SUBSET (1..MaxSubs)
  BY DEF LiveLeft
<1>3. IsFiniteSet(LiveLeft(r, t))
  BY <1>1, <1>2, FS_Subset
<1>4. Cardinality(LiveLeft(r, t)) \in Nat /\ (Cardinality(LiveLeft(r, t)) = 0 <=> LiveLeft(r, t) = {})
  BY <1>3, FS_CardinalityType, FS_EmptySet
<1> QED
  BY <1>4

LEMMA LiveLeftMoves ==
  ASSUME NEW r, NEW n, NEW s \in Sources, NEW t \in Txs,
         \A u \in Sources : u # s => n[u][t] = r[u][t], MaxSubs \in Nat
  PROVE  /\ s = 0 => Cardinality(LiveLeft(n, t)) = Cardinality(LiveLeft(r, t))
         /\ s # 0 => Cardinality(LiveLeft(n, t))
                       = Cardinality(LiveLeft(r, t)) - Flag(First(r[s][t]) \in {"add", "log"})
                           + Flag(First(n[s][t]) \in {"add", "log"})
<1>1. IsFiniteSet(1..MaxSubs)
  BY IntervalFinite
<1>2. /\ LiveLeft(r, t) \in SUBSET (1..MaxSubs) /\ LiveLeft(n, t) \in SUBSET (1..MaxSubs)
      /\ \A u \in 1..MaxSubs : u \in Sources /\ u # 0
  BY DEF LiveLeft, Sources
<1>3. \A u \in 1..MaxSubs : u # s => (u \in LiveLeft(r, t) <=> u \in LiveLeft(n, t))
  BY <1>2 DEF LiveLeft
<1>4. CASE s = 0
  <2>1. LiveLeft(n, t) = LiveLeft(r, t)
    BY <1>2, <1>3, <1>4
  <2> QED
    BY <1>4, <2>1
<1>5. CASE s # 0
  <2>1. s \in 1..MaxSubs
    BY <1>5 DEF Sources
  <2>2. Cardinality(LiveLeft(n, t)) = Cardinality(LiveLeft(r, t)) - Flag(s \in LiveLeft(r, t))
                                        + Flag(s \in LiveLeft(n, t))
    <3> HIDE DEF LiveLeft
    <3> QED
      BY <1>1, <1>2, <1>3, <2>1, OneMoves
  <2>3. /\ s \in LiveLeft(r, t) <=> First(r[s][t]) \in {"add", "log"}
        /\ s \in LiveLeft(n, t) <=> First(n[s][t]) \in {"add", "log"}
    BY <2>1 DEF LiveLeft
  <2> QED
    BY <1>5, <2>2, <2>3 DEF Flag
<1> QED
  BY <1>4, <1>5

LEMMA AddingMeans ==
  ASSUME PTypes, NEW t \in Txs
  PROVE  Adding(t) = Adders(run, t)
<1>1. \A s \in Sources : run[s][t] # << >> /\ Head(run[s][t]) = "add" <=> First(run[s][t]) = "add"
  BY HeadFirst DEF StepName
<1> QED
  BY <1>1 DEF Adding, Adders

LEMMA ExplainedTypes ==
  ASSUME PTypes, NEW v \in Txs
  PROVE  /\ rows[v].live \in Nat /\ past.overlap[v] \in Nat /\ past.forgot[v] \in Nat
         /\ MaxSubs \in Nat
<1>1. MaxSubs \in Nat
  BY InstanceFacts DEF PTypes
<1> QED
  BY <1>1 DEF PTypes, RowType, PastType

(* A hash that is lost is counted as forgotten.                             *)
LEMMA HashKept ==
  ASSUME PTypes, PipelineNext, NEW v \in Txs
  PROVE  /\ past'.forgot[v] >= past.forgot[v] /\ past'.overlap[v] >= past.overlap[v]
         /\ Tracked(v) /\ ~Contains(seen', v) => past'.forgot[v] >= past.forgot[v] + 1
<1>0. past.forgot[v] \in Nat /\ past.overlap[v] \in Nat /\ past \in PastType
  BY ExplainedTypes DEF PTypes
<1>1. CASE Forgets
  <2>1. /\ past'.overlap = past.overlap
        /\ past'.forgot[v] = past.forgot[v] + Flag(v \in Evicted(seen'))
    BY <1>0, <1>1, ForgettingFacts DEF Forgets
  <2>2. v \in Evicted(seen') <=> Tracked(v) /\ ~Contains(seen', v)
    BY DEF Evicted
  <2> QED
    BY <1>0, <2>1, <2>2 DEF Flag
<1>2. CASE seen' = seen /\ past'.forgot = past.forgot /\ past'.overlap[v] >= past.overlap[v]
  BY <1>0, <1>2 DEF Tracked
<1>3. ASSUME Visits \/ Purge \/ Claims
      PROVE  seen' = seen /\ past'.forgot = past.forgot /\ past'.overlap[v] >= past.overlap[v]
  BY <1>0, <1>3, VisitsWrite, PurgeWrites, ClaimWrites DEF Visits, Claims, listener
<1>4. ASSUME NEW s \in Sources, NEW t \in Txs, LoseDelivery(s, t)
      PROVE  seen' = seen /\ past'.forgot = past.forgot /\ past'.overlap[v] >= past.overlap[v]
  BY <1>0, <1>4 DEF LoseDelivery, PastType
<1>6. ASSUME NEW s \in Sources, NEW t \in Txs, AddHash(s, t)
      PROVE  past' = past /\ (Tracked(v) => Contains(seen', v))
  <2>1. past' = past /\ seen' = IF Tracked(t) THEN seen ELSE Append(seen, t)
    BY <1>6 DEF AddHash
  <2> QED
    BY <2>1, AppendNew DEF PTypes, Tracked
<1>7. ASSUME NEW s \in Sources, NEW t \in Txs, CheckRedis(s, t)
      PROVE  seen' = seen /\ past'.forgot = past.forgot /\ past'.overlap[v] >= past.overlap[v]
  <2>1. Flag(v = t /\ IsNew(t) /\ Adding(t) # {}) \in Nat
    BY DEF Flag
  <2> QED
    BY <1>0, <1>7, <2>1, OverlapFacts DEF CheckRedis, listener
<1>8. ASSUME NEW s \in Sources, NEW t \in Txs, DeleteCache(s, t) \/ StatementFails(s, t)
      PROVE  seen' = seen /\ past'.forgot = past.forgot /\ past'.overlap[v] >= past.overlap[v]
  <2>1. CASE DeleteCache(s, t)
    BY <1>0, <2>1 DEF DeleteCache, listener, PastType
  <2>2. CASE StatementFails(s, t)
    BY <1>0, <2>2, FailFacts DEF StatementFails, listener
  <2> QED
    BY <1>8, <2>1, <2>2
<1>9. ASSUME CacheExpires \/ \E r \in Refreshes : WriteCache(r)
      PROVE  seen' = seen /\ past'.forgot = past.forgot /\ past'.overlap[v] >= past.overlap[v]
  <2>1. CASE CacheExpires
    BY <1>0, <2>1 DEF CacheExpires, listener, PastType
  <2>2. ASSUME NEW r \in Refreshes, WriteCache(r)
        PROVE  seen' = seen /\ past'.forgot = past.forgot /\ past'.overlap[v] >= past.overlap[v]
    BY <1>0, <2>2 DEF WriteCache, listener, PastType
  <2> QED
    BY <1>9, <2>1, <2>2
<1>10. CASE UNCHANGED <<seen, past>>
  BY <1>0, <1>10 DEF Tracked
<1>11. CASE past' = past /\ (Tracked(v) => Contains(seen', v))
  BY <1>0, <1>11
<1> QED
  BY <1>1, <1>2, <1>3, <1>4, <1>6, <1>7, <1>8, <1>9, <1>10, <1>11, WhoForgets, WhoMoves

(* The number only grows with a new hash, or with an overlap.               *)
LEMMA ExplainedStays ==
  ASSUME PTypes, PTypes', PipelineNext, NEW v \in Txs, Explained(rows, past, seen, run, v),
         rows'[v].live = rows[v].live,
         Cardinality(LiveLeft(run', v)) <= Cardinality(LiveLeft(run, v)),
         Adders(run, v) # {} => Adders(run', v) # {}
  PROVE  Explained(rows', past', seen', run', v)
<1> DEFINE L == Cardinality(LiveLeft(run, v))
           L1 == Cardinality(LiveLeft(run', v))
           K == Flag(Known(seen, run, v))
           K1 == Flag(Known(seen', run', v))
           f == past.forgot[v]
           f1 == past'.forgot[v]
           o == past.overlap[v]
           o1 == past'.overlap[v]
<1>1. /\ rows[v].live \in Nat /\ o \in Nat /\ f \in Nat /\ L \in Nat /\ L1 \in Nat
      /\ o1 \in Nat /\ f1 \in Nat /\ K \in {0, 1} /\ K1 \in {0, 1}
  <2>1. o1 \in Nat /\ f1 \in Nat
    BY DEF PTypes, PastType
  <2> QED
    BY <2>1, ExplainedTypes, LiveLeftType DEF Flag
<1>2. f1 >= f /\ o1 >= o /\ (K = 1 /\ K1 = 0 => f1 >= f + 1)
  <2>1. f1 >= f /\ o1 >= o /\ (Tracked(v) /\ ~Contains(seen', v) => f1 >= f + 1)
    BY HashKept
  <2>2. K = 1 /\ K1 = 0 => Tracked(v) /\ ~Contains(seen', v)
    BY DEF Flag, Known, Tracked
  <2> QED
    BY <2>1, <2>2
<1>3. rows[v].live + L <= o + f + K
  BY DEF Explained
<1>4. L1 <= L
  OBVIOUS
<1>5. rows[v].live + L1 <= o1 + f1 + K1
  <2> HIDE DEF L, L1, K, K1, f, f1, o, o1
  <2> QED
    BY <1>1, <1>2, <1>3, <1>4
<1> QED
  BY <1>5 DEF Explained

LEMMA OthersStay ==
  ASSUME PTypes, PTypes', PipelineNext, NEW v \in Txs, Explained(rows, past, seen, run, v),
         rows'[v].live = rows[v].live, \A u \in Sources : run'[u][v] = run[u][v]
  PROVE  Explained(rows', past', seen', run', v)
<1>1. \A u \in 1..MaxSubs : u \in Sources
  BY InstanceFacts DEF PTypes, Sources
<1>2. LiveLeft(run', v) = LiveLeft(run, v) /\ Adders(run', v) = Adders(run, v)
  BY <1>1 DEF LiveLeft, Adders
<1>3. Cardinality(LiveLeft(run, v)) \in Nat
  BY ExplainedTypes, LiveLeftType
<1>4. Cardinality(LiveLeft(run', v)) <= Cardinality(LiveLeft(run, v))
  BY <1>2, <1>3
<1> QED
  BY <1>2, <1>4, ExplainedStays

(* A source that works on v itself. *)
LEMMA ExplainedWork ==
  ASSUME PTypes, PTypes', MemoryOnly, HandledOnce, ScanChecksNothing, PipelineNext, NEW v \in Txs,
         Explained(rows, past, seen, run, v),
         NEW s \in Sources, Work(s, v) \/ StatementFails(s, v)
  PROVE  Explained(rows', past', seen', run', v)
<1> DEFINE L == Cardinality(LiveLeft(run, v))
           L1 == Cardinality(LiveLeft(run', v))
           K == Flag(Known(seen, run, v))
           K1 == Flag(Known(seen', run', v))
           f == past.forgot[v]
           f1 == past'.forgot[v]
           o == past.overlap[v]
           o1 == past'.overlap[v]
           n == rows[v].live
           n1 == rows'[v].live
<1>1. /\ n \in Nat /\ n1 \in Nat /\ o \in Nat /\ f \in Nat /\ L \in Nat /\ L1 \in Nat
      /\ o1 \in Nat /\ f1 \in Nat /\ K \in {0, 1} /\ K1 \in {0, 1} /\ MaxSubs \in Nat
  <2>1. o1 \in Nat /\ f1 \in Nat /\ n1 \in Nat
    BY DEF PTypes, PastType, RowType
  <2> QED
    BY <2>1, ExplainedTypes, LiveLeftType DEF Flag
<1>2. n + L <= o + f + K
  BY DEF Explained
<1>3. f1 >= f /\ o1 >= o
  BY HashKept
<1>4. SUFFICES n1 + L1 <= o1 + f1 + K1 \/ Explained(rows', past', seen', run', v)
  BY DEF Explained
<1>5. PICK x \in Programs : Left(s, v, x)
  BY WorkMoves
<1>6. run'[s][v] = x /\ \A u \in Sources : u # s => run'[u][v] = run[u][v]
  BY <1>5, MovesFacts DEF Left
<1>7. /\ s = 0 => L1 = L
      /\ s # 0 => L1 = L - Flag(First(run[s][v]) \in {"add", "log"}) + Flag(First(x) \in {"add", "log"})
  BY <1>1, <1>6, LiveLeftMoves
<1>8. Adders(run', v) \ {s} = Adders(run, v) \ {s}
  BY <1>6 DEF Adders
<1>9. CASE LogEvent(s, v)
  <2>1. First(run[s][v]) = "log" /\ First(x) \notin {"add", "log"}
    <3>1. First(run[s][v]) = "log" /\ x = Tail(run[s][v]) /\ run[s][v] # << >>
      <4>1. First(run[s][v]) = "log"
        BY <1>9, Next1Facts DEF LogEvent, StepName
      <4>2. run[s][v] # << >> /\ Advance(s, v)
        BY <1>9 DEF LogEvent, Next1
      <4>3. Moves(s, v, Tail(run[s][v])) /\ Tail(run[s][v]) \in Programs
        BY <4>2, AdvanceFacts
      <4> QED
        BY <1>6, <4>1, <4>2, <4>3, MovesFacts
    <3> QED
      BY <3>1, AdvanceFacts
  <2>2. n1 = n + Flag(s # 0) /\ past' = past /\ seen' = seen
    BY <1>9, LogFacts DEF LogEvent, listener
  <2>3. s \notin Adders(run, v) /\ s \notin Adders(run', v)
    BY <1>6, <2>1 DEF Adders
  <2>4. Adders(run', v) = Adders(run, v)
    BY <1>8, <2>3
  <2>5. K1 = K
    BY <2>2, <2>4 DEF Known
  <2>6. n1 + L1 = n + L
    <3>1. s # 0 => L1 = L - 1
      <4> HIDE DEF L, L1
      <4> QED
        BY <1>1, <1>7, <2>1 DEF Flag
    <3> HIDE DEF L, L1, n, n1
    <3> QED
      BY <1>1, <1>7, <2>2, <3>1 DEF Flag
  <2> HIDE DEF L, L1, n, n1, K, K1
  <2> QED
    BY <1>1, <1>2, <2>2, <2>5, <2>6
<1>10. CASE ~LogEvent(s, v) /\ First(x) \notin {"add", "log"} /\ First(run[s][v]) # "add"
  <2>1. n1 = n
    BY <1>10, FailFacts
    DEF Work, Deliver, Track, CheckInMemory, CheckRedis, AddHash, Dispatch, Unlinked, Audit,
        RecordActivity, AwardMilestones, Certify, Notify, DeleteCache, tables
  <2>2. L1 <= L
    <3> HIDE DEF L, L1
    <3> QED
      BY <1>1, <1>7, <1>10 DEF Flag
  <2>3. s \notin Adders(run, v)
    BY <1>10 DEF Adders
  <2>4. Adders(run, v) # {} => Adders(run', v) # {}
    BY <1>8, <2>3
  <2> QED
    BY <2>1, <2>2, <2>4, ExplainedStays
<1>11. CASE AddHash(s, v)
  <2>1. First(run[s][v]) = "add" /\ n1 = n
    BY <1>11, HeadFirst DEF AddHash, Adding, tables
  <2>2. K = 1
    BY <2>1 DEF Flag, Known, Adders
  <2>3. Contains(seen', v)
    <3>1. seen \in Seq(Txs) /\ IsInjective(seen) /\ seen' = IF Tracked(v) THEN seen ELSE Append(seen, v)
      BY <1>11 DEF PTypes, AddHash
    <3> QED
      BY <3>1, AppendNew DEF Tracked
  <2>4. K1 = 1
    BY <2>3 DEF Flag, Known
  <2>5. L1 <= L
    <3> HIDE DEF L, L1
    <3> QED
      BY <1>1, <1>7, <2>1 DEF Flag
  <2> HIDE DEF L, L1, n, n1, K, K1, f, f1, o, o1
  <2> QED
    BY <1>1, <1>2, <1>3, <2>1, <2>2, <2>4, <2>5
<1>12. CASE CheckInMemory(s, v) /\ IsNew(v)
  <2>1. ~redis /\ n1 = n /\ seen' = Remembered(v) /\ ~Tracked(v)
    BY <1>12 DEF CheckInMemory, IsNew, tables
  <2>2. K = 0
    BY <2>1 DEF MemoryOnly, Known, Adders, Flag, Tracked
  <2>3. K1 = 1
    BY <2>1, RememberedFacts DEF Known, Flag
  <2>4. L1 <= L + 1
    <3> HIDE DEF L, L1
    <3> QED
      BY <1>1, <1>7 DEF Flag
  <2> HIDE DEF L, L1, n, n1, K, K1, f, f1, o, o1
  <2> QED
    BY <1>1, <1>2, <1>3, <2>1, <2>2, <2>3, <2>4
<1>13. CASE CheckRedis(s, v) /\ IsNew(v) /\ First(x) = "add"
  <2>1. n1 = n /\ o1 = o + Flag(Adders(run, v) # {})
    <3>1. o1 = o + Flag(v = v /\ IsNew(v) /\ Adding(v) # {})
      BY <1>13, OverlapFacts
    <3>2. Flag(v = v /\ IsNew(v) /\ Adding(v) # {}) = Flag(Adders(run, v) # {})
      BY <1>13, AddingMeans DEF Flag
    <3> QED
      BY <1>13, <3>1, <3>2 DEF CheckRedis, tables
  <2>2. K = Flag(Adders(run, v) # {})
    BY <1>13 DEF IsNew, Tracked, Known, Flag
  <2>3. K1 = 1
    BY <1>6, <1>13 DEF Known, Adders, Flag
  <2>4. L1 <= L + 1
    <3> HIDE DEF L, L1
    <3> QED
      BY <1>1, <1>7 DEF Flag
  <2> HIDE DEF L, L1, n, n1, K, K1, f, f1, o, o1
  <2> QED
    BY <1>1, <1>2, <1>3, <2>1, <2>2, <2>3, <2>4
<1>14. First(run[s][v]) = "add" => AddHash(s, v)
  <2> SUFFICES ASSUME First(run[s][v]) = "add"
               PROVE  AddHash(s, v)
    OBVIOUS
  <2>1. ASSUME Deliver(s, v)
        PROVE  FALSE
    <3>1. s \in 1..MaxSubs /\ v \in inbox[s]
      BY <1>1, <2>1 DEF Deliver, PTypes
    <3>2. run[s][v] = << >>
      BY <3>1 DEF HandledOnce
    <3> QED
      BY <3>2 DEF First
  <2> QED
    BY <2>1, HeadFirst DEF StepName, Work, Track, CheckInMemory, CheckRedis, Dispatch, LogEvent, Unlinked, Audit,
       RecordActivity, AwardMilestones, Certify, Notify, DeleteCache, StatementFails, Next1
<1> QED
  BY <1>5, <1>9, <1>10, <1>11, <1>12, <1>13, <1>14 DEF Left

LEMMA ExplainedStep ==
  ASSUME PTypes, PTypes', MemoryOnly, HandledOnce, ScanChecksNothing, PipelineNext, NEW v \in Txs,
         Explained(rows, past, seen, run, v)
  PROVE  Explained(rows', past', seen', run', v)
<1>0. MaxSubs \in Nat /\ rows[v].live \in Nat
  BY ExplainedTypes
<1>1. ASSUME NEW s \in Sources, NEW t \in Txs, Work(s, t) \/ StatementFails(s, t)
      PROVE  Explained(rows', past', seen', run', v)
  <2>1. CASE t = v
    BY <1>1, <2>1, ExplainedWork
  <2>2. CASE t # v
    <3>1. PICK x \in Programs : Left(s, t, x)
      BY <1>1, WorkMoves
    <3>2. \A u \in Sources : run'[u][v] = run[u][v]
      BY <2>2, <3>1, MovesFacts DEF Left
    <3>3. rows'[v].live = rows[v].live
      <4>1. LogEvent(s, t) => rows'[v] = rows[v]
        BY <2>2, LogFacts
      <4>2. StatementFails(s, t) => rows'[v].live = rows[v].live
        BY FailFacts
      <4> QED
        BY <1>1, <4>1, <4>2 DEF Work, Deliver, Track, CheckInMemory, CheckRedis, AddHash, Dispatch, Unlinked, Audit,
           RecordActivity, AwardMilestones, Certify, Notify, DeleteCache, tables
    <3> QED
      BY <3>2, <3>3, OthersStay
  <2> QED
    BY <2>1, <2>2
<1>2. ASSUME NEW t \in Txs, ScanNext(t)
      PROVE  Explained(rows', past', seen', run', v)
  <2>1. /\ run'[0][t] = Steps[inst.kind[t]] /\ First(Steps[inst.kind[t]]) = "log"
        /\ \A u \in Sources, w \in Txs : u # 0 \/ w # t => run'[u][w] = run[u][w]
        /\ 0 \in Sources /\ run[0][t] = << >>
    BY <1>2, ScanMoves, MovesFacts
  <2>2. \A u \in Sources : u # 0 => run'[u][v] = run[u][v]
    BY <2>1
  <2>3. Cardinality(LiveLeft(run', v)) = Cardinality(LiveLeft(run, v))
    BY <1>0, <2>1, <2>2, LiveLeftMoves
  <2>4. Adders(run, v) # {} => Adders(run', v) # {}
    <3>1. 0 \notin Adders(run, v)
      BY DEF ScanChecksNothing, Adders
    <3> QED
      BY <2>2, <3>1 DEF Adders
  <2>5. rows'[v].live = rows[v].live
    BY <1>2 DEF ScanNext, tables
  <2>6. Cardinality(LiveLeft(run', v)) <= Cardinality(LiveLeft(run, v))
    BY <1>0, <2>3, LiveLeftType
  <2> QED
    BY <2>4, <2>5, <2>6, ExplainedStays
<1>3. CASE Restart
  <2> DEFINE L == Cardinality(LiveLeft(run, v))
             L1 == Cardinality(LiveLeft(run', v))
             K == Flag(Known(seen, run, v))
             K1 == Flag(Known(seen', run', v))
             f == past.forgot[v]
             f1 == past'.forgot[v]
             o == past.overlap[v]
             o1 == past'.overlap[v]
             n == rows[v].live
             n1 == rows'[v].live
  <2>1. /\ n \in Nat /\ n1 = n /\ o \in Nat /\ f \in Nat /\ L \in Nat
        /\ o1 \in Nat /\ f1 \in Nat /\ K \in {0, 1} /\ K1 \in {0, 1}
    <3>1. o1 \in Nat /\ f1 \in Nat
      BY DEF PTypes, PastType
    <3>2. n1 = n
      BY <1>3 DEF Restart, tables
    <3> QED
      BY <3>1, <3>2, ExplainedTypes, LiveLeftType DEF Flag
  <2>2. n + L <= o + f + K
    BY DEF Explained
  <2>3. f1 >= f /\ o1 >= o /\ (Tracked(v) /\ ~Contains(seen', v) => f1 >= f + 1)
    BY HashKept
  <2>4. L1 = 0
    <3>1. \A u \in 1..MaxSubs : run'[u][v] = << >>
      BY <1>0, <1>3 DEF Restart, Sources
    <3>2. LiveLeft(run', v) = {}
      BY <3>1, ProgramNone DEF LiveLeft
    <3> QED
      BY <1>0, <3>2, LiveLeftType
  <2>5. K = 0 \/ K1 = 1 \/ f1 >= f + 1 \/ L >= 1
    <3>1. CASE Tracked(v)
      BY <2>3, <3>1 DEF Known, Flag
    <3>2. CASE ~Tracked(v) /\ Adders(run, v) # {}
      <4>1. PICK s \in Sources : First(run[s][v]) = "add"
        BY <3>2 DEF Adders
      <4>2. s \in 1..MaxSubs
        BY <1>0, <4>1 DEF ScanChecksNothing, Sources
      <4>3. LiveLeft(run, v) # {}
        BY <4>1, <4>2 DEF LiveLeft
      <4> QED
        BY <1>0, <4>3, LiveLeftType
    <3>3. CASE ~Tracked(v) /\ Adders(run, v) = {}
      BY <3>3 DEF Known, Flag, Tracked
    <3> QED
      BY <3>1, <3>2, <3>3
  <2>6. n1 + L1 <= o1 + f1 + K1
    <3> HIDE DEF L, L1, n, n1, K, K1, f, f1, o, o1
    <3> QED
      BY <2>1, <2>2, <2>3, <2>4, <2>5
  <2> QED
    BY <2>6 DEF Explained
<1>4. CASE UNCHANGED <<run, rows>>
  BY <1>4, OthersStay
<1> QED
  BY <1>1, <1>2, <1>3, <1>4, WhoMoves DEF Work, Dispatch

-----------------------------------------------------------------------------
(* RecoveryReachesLost: what the scan has to visit is still on its list, or *)
(* about to be logged.                                                      *)
Reached ==
  \A t \in Txs : Contains(scan.list, t) =>
    \/ Contains(scan.left, t)
    \/ rows[t].live + rows[t].scan + rows[t].failed > 0
    \/ t \in scan.missed
    \/ First(run[0][t]) = "log"

LEMMA RowsGrow ==
  ASSUME PTypes, PipelineNext, NEW v \in Txs
  PROVE  /\ {rows[v].live, rows[v].scan, rows[v].failed} \subseteq Nat
         /\ rows[v].live + rows[v].scan + rows[v].failed > 0
              => rows'[v].live + rows'[v].scan + rows'[v].failed > 0
<1>0. rows \in [Txs -> RowType]
  BY DEF PTypes
<1>1. {rows[v].live, rows[v].scan, rows[v].failed} \subseteq Nat
  BY <1>0 DEF RowType
<1>2. rows[v].live + rows[v].scan + rows[v].failed > 0
        => rows'[v].live + rows'[v].scan + rows'[v].failed > 0
  <2>1. ASSUME NEW s \in Sources, NEW t \in Txs, LogEvent(s, t)
        PROVE  rows'[v].live + rows'[v].scan + rows'[v].failed >= rows[v].live + rows[v].scan + rows[v].failed
    <3>1. CASE v # t
      BY <1>1, <2>1, <3>1, LogFacts
    <3>2. CASE v = t
      <4>1. /\ rows'[v].failed = rows[v].failed
            /\ rows'[v].live = rows[v].live + Flag(s # 0)
            /\ rows'[v].scan = rows[v].scan + Flag(s = 0)
        BY <2>1, <3>2, LogFacts
      <4>2. Flag(s # 0) \in Nat /\ Flag(s = 0) \in Nat
        BY DEF Flag
      <4> QED
        BY <1>1, <4>1, <4>2
    <3> QED
      BY <3>1, <3>2
  <2>2. ASSUME NEW s \in Sources, NEW t \in Txs, StatementFails(s, t)
        PROVE  rows'[v].live + rows'[v].scan + rows'[v].failed >= rows[v].live + rows[v].scan + rows[v].failed
    <3>1. /\ rows'[v].live = rows[v].live /\ rows'[v].scan = rows[v].scan
          /\ rows'[v].failed >= rows[v].failed /\ rows' \in [Txs -> RowType]
      BY <2>2, FailFacts
    <3>2. rows'[v].failed \in Nat
      BY <3>1 DEF RowType
    <3> QED
      BY <1>1, <3>1, <3>2
  <2>3. ASSUME NEW m \in Nat, NEW n, n >= m, m > 0, n \in Nat
        PROVE  n > 0
    BY <2>3
  <2>4. rows' \in [Txs -> RowType]
    BY TablesTyped
  <2>5. {rows'[v].live, rows'[v].scan, rows'[v].failed} \subseteq Nat
    BY <2>4 DEF RowType
  <2> QED
    BY <1>1, <2>1, <2>2, <2>5, WhoMoves
<1> QED
  BY <1>1, <1>2

LEMMA ReachedStep ==
  ASSUME PTypes, ScanChecksNothing, Reached, PipelineNext
  PROVE  Reached'
<1> SUFFICES ASSUME NEW v \in Txs, Contains(scan'.list, v)
             PROVE  \/ Contains(scan'.left, v)
                    \/ rows'[v].live + rows'[v].scan + rows'[v].failed > 0
                    \/ v \in scan'.missed
                    \/ First(run'[0][v]) = "log"
  BY DEF Reached
<1> DEFINE Goal == \/ Contains(scan'.left, v)
                   \/ rows'[v].live + rows'[v].scan + rows'[v].failed > 0
                   \/ v \in scan'.missed
                   \/ First(run'[0][v]) = "log"
<1>0. 0 \in Sources /\ scan \in ScanType
  BY InstanceFacts DEF PTypes, Sources
<1>1. ASSUME Recover
      PROVE  Goal
  <2>1. /\ scan' = [on |-> TRUE, list |-> chain, left |-> Reverse(chain), missed |-> {}]
        /\ chain \in Seq(Txs)
    BY <1>1 DEF Recover, PTypes
  <2> QED
    BY <2>1, ReverseFacts
<1>2. ASSUME ScanEnds \/ Restart
      PROVE  Goal
  BY <1>2, NoElements DEF ScanEnds, Restart, NoScan
<1>3. ASSUME NEW t \in Txs, ScanNext(t)
      PROVE  Goal
  <2>1. /\ run'[0][t] = Steps[inst.kind[t]] /\ First(Steps[inst.kind[t]]) = "log"
        /\ \A u \in Sources, w \in Txs : u # 0 \/ w # t => run'[u][w] = run[u][w]
        /\ Visit(t)
    BY <1>3, ScanMoves, MovesFacts
  <2>2. scan'.list = scan.list /\ scan'.left = Tail(scan.left) /\ scan'.missed = scan.missed
    BY <1>0, <1>3 DEF ScanNext, ScanType
  <2>3. CASE v = t
    BY <2>1, <2>3
  <2>4. CASE v # t
    <3>1. run'[0][v] = run[0][v]
      BY <1>0, <2>1, <2>4
    <3> QED
      BY <2>1, <2>2, <2>4, <3>1, VisitFacts, RowsGrow DEF Reached
  <2> QED
    BY <2>3, <2>4
<1>8. ASSUME NEW t \in Txs, ScanMisses(t)
      PROVE  Goal
  <2>1. /\ scan'.list = scan.list /\ scan'.left = Tail(scan.left)
        /\ scan'.missed = scan.missed \cup {t} /\ run' = run /\ Visit(t)
    BY <1>0, <1>8 DEF ScanMisses, ScanType
  <2> QED
    BY <2>1, VisitFacts, RowsGrow DEF Reached
<1>4. ASSUME scan'.list = scan.list, scan'.left = scan.left, scan.missed \subseteq scan'.missed,
             First(run[0][v]) = "log" => Goal
      PROVE  Goal
  BY <1>4, RowsGrow DEF Reached
<1>5. ASSUME NEW s \in Sources, NEW t \in Txs, Work(s, t) \/ StatementFails(s, t),
             First(run[0][v]) = "log"
      PROVE  Goal
  <2>1. CASE s # 0 \/ t # v
    <3>1. PICK x \in Programs : Left(s, t, x)
      BY <1>5, WorkMoves
    <3>2. run'[0][v] = run[0][v]
      BY <1>0, <2>1, <3>1, MovesFacts DEF Left
    <3> QED
      BY <1>5, <3>2
  <2>2. CASE s = 0 /\ t = v /\ LogEvent(s, t)
    <3>1. rows'[v].scan = rows[v].scan + 1 /\ rows'[v].live = rows[v].live + 0 /\ rows'[v].failed = rows[v].failed
      BY <2>2, LogFacts DEF Flag
    <3> QED
      BY <3>1, RowsGrow
  <2>3. CASE s = 0 /\ t = v /\ StatementFails(s, t)
    <3>1. /\ rows'[v].live = rows[v].live /\ rows'[v].scan = rows[v].scan
          /\ rows'[v].failed > 0 \/ v \in scan'.missed
          /\ rows' \in [Txs -> RowType]
      BY <2>3, FailFacts
    <3>2. rows'[v].failed \in Nat
      BY <3>1 DEF RowType
    <3> QED
      BY <3>1, <3>2, RowsGrow
  <2>4. s = 0 /\ t = v => LogEvent(s, t) \/ StatementFails(s, t)
    <3> SUFFICES ASSUME s = 0, t = v, Work(0, v)
                 PROVE  LogEvent(0, v)
      BY <1>5
    <3>1. ~Deliver(0, v)
      BY DEF Deliver
    <3> QED
      BY <1>0, <1>5, <3>1, HeadFirst DEF Work, Track, CheckInMemory, CheckRedis, AddHash, Adding, Dispatch, Unlinked,
         Audit, RecordActivity, AwardMilestones, Certify, Notify, DeleteCache, Next1
  <2> QED
    BY <2>1, <2>2, <2>3, <2>4
<1>6. ASSUME UNCHANGED <<scan, run>>
      PROVE  Goal
  BY <1>4, <1>6
<1>7. ASSUME NEW s \in Sources, NEW t \in Txs, Work(s, t) \/ StatementFails(s, t)
      PROVE  scan'.list = scan.list /\ scan'.left = scan.left /\ scan.missed \subseteq scan'.missed
  <2>1. Work(s, t) => scan' = scan
    BY DEF Work, Deliver, Track, CheckInMemory, CheckRedis, AddHash, Dispatch, LogEvent, Unlinked, Audit,
           RecordActivity, AwardMilestones, Certify, Notify, DeleteCache
  <2> QED
    BY <1>7, <2>1, FailFacts
<1> HIDE DEF Goal
<1>9. ASSUME NEW s \in Sources, NEW t \in Txs, Work(s, t) \/ StatementFails(s, t)
      PROVE  Goal
  BY <1>4, <1>5, <1>7, <1>9
<1>10. Goal
  BY <1>1, <1>2, <1>3, <1>6, <1>8, <1>9, WhoMoves
<1> QED
  BY <1>10 DEF Goal

-----------------------------------------------------------------------------
(* CacheFollowsActivity: XP that the cache does not show is owed a deletion *)
(* by a handler that has recorded its activity.                             *)
Owes(r) == Has(r, "del") /\ ~Has(r, "record")
Owed(r) == \E s \in Sources, t \in Txs : Owes(r[s][t])

(* What was queried, with what the streak routes have added since, has been *)
(* in streak_activity, and is all of it unless a deletion is owed, or came  *)
(* in between.                                                              *)
Follows(value, shown, late) ==
  /\ shown <= past.direct.xp
  /\ profile => shown <= value
  /\ value + (past.direct.xp - shown) <= xp + past.purged
  /\ value + (past.direct.xp - shown) < xp /\ faults = 0 /\ ~late => Owed(run)

(* An account holds what the routes added, and one that is purged nothing.  *)
AccountHolds ==
  /\ profile => past.direct.xp <= xp /\ past.purged = 0
  /\ ~profile => xp = 0 /\ ~linked

BoardFollows ==
  /\ AccountHolds
  /\ cache # NoCache => Follows(cache, past.shown, past.overtaken)
  /\ \A r \in Refreshes :
       refresh[r].on => Follows(refresh[r].xp, refresh[r].direct, refresh[r].late)

LEMMA TailOwes ==
  ASSUME NEW r, Program(r), r # << >>
  PROVE  /\ Owes(r) /\ First(r) # "del" => Owes(Tail(r))
         /\ First(r) = "record" => Owes(Tail(r))
         /\ First(r) \in {"check", "add", "log"} => ~Owes(r)
         /\ First(r) = "record" => ~Owes(r)
         /\ First(r) \in {"audit", "certify"} => ~Owes(r)
<1> DEFINE x == Tail(r)
<1>1. /\ Len(r) \in Nat /\ Len(r) >= 1 /\ Len(x) = Len(r) - 1
      /\ \A i \in 1..Len(x) : x[i] = r[i + 1]
      /\ First(r) = r[1]
  <2>1. r \in Seq(StepName)
    BY DEF Program
  <2> QED
    BY <2>1, SequenceFacts DEF First
<1> HIDE DEF x
<1>2. ASSUME NEW step, Has(x, step)
      PROVE  Has(r, step)
  <2>1. PICK i \in 1..Len(x) : x[i] = step
    BY <1>2 DEF Has
  <2>2. i + 1 \in 1..Len(r) /\ r[i + 1] = step
    BY <1>1, <2>1
  <2> QED
    BY <2>2 DEF Has
<1>3. ASSUME NEW step, Has(r, step), First(r) # step
      PROVE  Has(x, step)
  <2>1. PICK i \in 1..Len(r) : r[i] = step
    BY <1>3 DEF Has
  <2>2. i - 1 \in 1..Len(x) /\ x[i - 1] = r[(i - 1) + 1] /\ (i - 1) + 1 = i
    BY <1>1, <1>3, <2>1
  <2> QED
    BY <2>1, <2>2 DEF Has
<1>4. ASSUME First(r) = "record"
      PROVE  Owes(x)
  <2>1. 1 \in 1..Len(r) /\ r[1] = "record"
    BY <1>1, <1>4
  <2>2. PICK j \in 2..Len(r) : r[j] = "del"
    BY <2>1 DEF Program
  <2>3. j \in 1..Len(r)
    BY <1>1, <2>2
  <2>4. Has(x, "del")
    BY <1>3, <1>4, <2>2, <2>3 DEF Has
  <2>5. ASSUME Has(x, "record")
        PROVE  FALSE
    <3>1. PICK i \in 1..Len(x) : x[i] = "record"
      BY <2>5 DEF Has
    <3>2. i + 1 \in 2..Len(r) /\ r[i + 1] = "record" /\ (i + 1) - 1 = i
      BY <1>1, <3>1
    <3>3. r[i] = "log"
      BY <3>2 DEF Program
    <3>4. i \in 2..Len(r)
      BY <1>1, <2>1, <3>1, <3>3
    <3> QED
      BY <2>1, <3>3, <3>4 DEF Program
  <2> QED
    BY <2>4, <2>5 DEF Owes
<1>5. Owes(r) /\ First(r) # "del" => Owes(x)
  BY <1>2, <1>3 DEF Owes
<1>6. First(r) \in {"check", "add", "log"} => ~Owes(r)
  BY DEF Program, Owes
<1>7. First(r) = "record" => ~Owes(r)
  <2>1. First(r) = "record" => 1 \in 1..Len(r) /\ r[1] = "record"
    BY <1>1
  <2> QED
    BY <2>1 DEF Owes, Has
<1>8. First(r) \in {"audit", "certify"} => ~Owes(r)
  <2>1. \A step \in {"audit", "certify"} : First(r) = step => Has(r, step)
    <3>1. 1 \in 1..Len(r) /\ r[1] = First(r)
      BY <1>1
    <3> QED
      BY <3>1 DEF Has
  <2>2. Has(r, "audit") \/ Has(r, "certify") => ~Has(r, "del")
    BY DEF Program
  <2> QED
    BY <2>1, <2>2 DEF Owes
<1> QED
  BY <1>4, <1>5, <1>6, <1>7, <1>8 DEF x

LEMMA NothingOwed == ~Owes(<< >>)
BY ProgramNone, NoElements DEF Owes, Has

(* Only the deletion itself, and a fault, makes the debt go away.           *)
LEMMA OwedStays ==
  ASSUME PTypes, HandledOnce, PipelineNext, Owed(run), faults' = 0,
         \A s \in Sources, t \in Txs : ~DeleteCache(s, t)
  PROVE  Owed(run')
<1>0. faults \in Nat
  BY DEF PTypes
<1>1. PICK u \in Sources, v \in Txs : Owes(run[u][v])
  BY DEF Owed
<1>2. ASSUME run'[u][v] = run[u][v]
      PROVE  Owed(run')
  BY <1>1, <1>2 DEF Owed
<1>3. ~Restart /\ \A s \in Sources, t \in Txs : ~StatementFails(s, t)
  BY <1>0 DEF Restart, StatementFails
<1>4. ASSUME NEW t \in Txs, ScanNext(t)
      PROVE  Owed(run')
  <2>1. u # 0 \/ v # t
    BY <1>1, <1>4, ScanMoves, NothingOwed
  <2> QED
    BY <1>2, <1>4, <2>1, ScanMoves, MovesFacts
<1>5. ASSUME NEW s \in Sources, NEW t \in Txs, Work(s, t), s # u \/ t # v
      PROVE  Owed(run')
  <2>1. PICK x \in Programs : Left(s, t, x)
    BY <1>5, WorkMoves
  <2> QED
    BY <1>2, <1>5, <2>1, MovesFacts DEF Left
<1>6. ASSUME Work(u, v)
      PROVE  Owed(run')
  <2>1. Program(run[u][v]) /\ run[u][v] # << >>
    BY <1>1, HeadFirst, NothingOwed
  <2>2. First(run[u][v]) \notin {"check", "add", "log", "record"}
    BY <1>1, <2>1, TailOwes
  <2>3. ASSUME Deliver(u, v)
        PROVE  FALSE
    <3>1. u \in 1..MaxSubs /\ v \in inbox[u]
      BY <2>3, InstanceFacts DEF Deliver, PTypes
    <3> QED
      BY <2>1, <3>1 DEF HandledOnce
  <2>4. First(run[u][v]) # "del" /\ Advance(u, v)
    <3>1. ~Track(u, v)
      BY <2>2, HeadFirst DEF Track, CheckInMemory, CheckRedis, AddHash, Adding
    <3>2. Dispatch(u, v)
      BY <1>6, <2>3, <3>1 DEF Work
    <3>3. ~LogEvent(u, v) /\ ~RecordActivity(u, v)
      BY <2>2, HeadFirst DEF LogEvent, RecordActivity, Next1
    <3>4. ~Unlinked(u, v) /\ ~DeleteCache(u, v)
      <4>1. First(run[u][v]) \notin {"audit", "certify"}
        BY <1>1, <2>1, TailOwes
      <4> QED
        BY <2>1, <2>2, <4>1, HeadFirst DEF Unlinked, Next1
    <3>5. CASE Audit(u, v) \/ Certify(u, v)
      BY <2>1, <3>5, HeadFirst DEF Audit, Certify, Next1
    <3>6. CASE AwardMilestones(u, v) \/ Notify(u, v)
      BY <2>1, <3>6, HeadFirst DEF AwardMilestones, Notify, Next1
    <3> QED
      BY <3>2, <3>3, <3>4, <3>5, <3>6 DEF Dispatch
  <2>5. Owes(Tail(run[u][v]))
    BY <1>1, <2>1, <2>4, TailOwes
  <2>6. run'[u][v] = Tail(run[u][v])
    BY <2>1, <2>4, AdvanceFacts, MovesFacts
  <2> QED
    BY <2>5, <2>6 DEF Owed
<1> QED
  BY <1>2, <1>3, <1>4, <1>5, <1>6, WhoMoves

LEMMA OwedByRecord ==
  ASSUME PTypes, NEW s \in Sources, NEW t \in Txs, RecordActivity(s, t)
  PROVE  Owed(run')
<1>1. First(run[s][t]) = "record" /\ run[s][t] # << >> /\ Program(run[s][t])
  BY HeadFirst DEF RecordActivity, Next1
<1>2. run'[s][t] = Tail(run[s][t])
  BY <1>1, AdvanceFacts, MovesFacts DEF RecordActivity
<1> QED
  BY <1>1, <1>2, TailOwes DEF Owed

(* Only the streak routes and the purge move what they are counted by.      *)
LEMMA CountsStay ==
  ASSUME PTypes, PipelineNext, ~Visits, ~Purge
  PROVE  /\ past'.direct.xp = past.direct.xp /\ past'.direct.courses = past.direct.courses
         /\ past.direct.badges \subseteq past'.direct.badges
         /\ past'.purged = past.purged /\ profile' = profile
<1>1. past \in PastType
  BY DEF PTypes
<1>2. Forgets => past'.direct = past.direct /\ past'.purged = past.purged
  BY <1>1, ForgettingFacts DEF Forgets
<1>3. ASSUME NEW s \in Sources, NEW t \in Txs, CheckRedis(s, t) \/ StatementFails(s, t)
      PROVE  past'.direct = past.direct /\ past'.purged = past.purged
  BY <1>3, OverlapFacts, FailFacts
<1>4. ASSUME NEW s \in Sources, NEW t \in Txs, DeleteCache(s, t) \/ LoseDelivery(s, t)
      PROVE  past'.direct = past.direct /\ past'.purged = past.purged
  BY <1>1, <1>4 DEF DeleteCache, LoseDelivery, PastType
<1>5. ASSUME CacheExpires \/ \E r \in Refreshes : WriteCache(r)
      PROVE  past'.direct = past.direct /\ past'.purged = past.purged
  BY <1>1, <1>5 DEF CacheExpires, WriteCache, PastType
<1>6. ASSUME Claims
      PROVE  /\ past'.direct.xp = past.direct.xp /\ past'.direct.courses = past.direct.courses
             /\ past.direct.badges \subseteq past'.direct.badges /\ past'.purged = past.purged
  BY <1>6, ClaimWrites DEF Claims
<1> QED
  BY <1>2, <1>3, <1>4, <1>5, <1>6, WhoForgets, WhoMoves

LEMMA AccountHoldsStep ==
  ASSUME PTypes, AccountHolds, PipelineNext
  PROVE  AccountHolds'
<1>0. /\ xp \in Nat /\ past.direct.xp \in Nat /\ past.purged \in Nat
      /\ profile \in BOOLEAN /\ linked \in BOOLEAN
  BY DEF PTypes, PastType, DirectType
<1>1. ASSUME NEW x \in 0..1, NEW c \in 0..1, AddToDay(x, c)
      PROVE  AccountHolds'
  <2>1. /\ profile /\ xp' = xp + x /\ past'.direct.xp = past.direct.xp + x
        /\ past'.purged = past.purged /\ profile' = profile /\ linked' = linked
    BY <1>1, VisitsWrite DEF node
  <2> QED
    BY <1>0, <2>1 DEF AccountHolds
<1>2. CASE Purge
  <2>1. xp' = 0 /\ ~profile' /\ ~linked' /\ past'.direct = past.direct
    BY <1>2, PurgeWrites
  <2> QED
    BY <1>0, <2>1 DEF AccountHolds
<1>3. CASE ~Visits /\ ~Purge
  <2>1. past'.direct.xp = past.direct.xp /\ past'.purged = past.purged /\ profile' = profile
    BY <1>3, CountsStay
  <2>2. linked' = linked \/ profile \/ ~linked'
    BY <1>3, WhoMoves DEF Link, Unlink
  <2>3. ASSUME NEW s \in Sources, NEW t \in Txs, RecordActivity(s, t)
        PROVE  AccountHolds'
    <3>1. linked /\ linked' = linked /\ xp' >= xp /\ xp' \in Nat
      BY <1>0, <2>3 DEF RecordActivity, XpOf, node
    <3> QED
      BY <1>0, <2>1, <3>1 DEF AccountHolds
  <2>4. CASE xp' = xp
    BY <1>0, <2>1, <2>2, <2>4 DEF AccountHolds
  <2> QED
    BY <1>3, <2>3, <2>4, WhoMoves
<1> QED
  BY <1>1, <1>2, <1>3 DEF Visits

LEMMA FollowsStays ==
  ASSUME PTypes, HandledOnce, PipelineNext, AccountHolds,
         NEW value \in Nat, NEW shown \in Nat, NEW late \in BOOLEAN,
         Follows(value, shown, late), \A s \in Sources, t \in Txs : ~DeleteCache(s, t)
  PROVE  Follows(value, shown, late)'
<1>0. /\ xp \in Nat /\ faults \in Nat /\ past.direct.xp \in Nat /\ past.purged \in Nat
      /\ profile \in BOOLEAN /\ linked \in BOOLEAN
  BY DEF PTypes, PastType, DirectType
<1>1. faults' = 0 => faults = 0
  <2>1. ASSUME NEW s \in Sources, NEW t \in Txs, StatementFails(s, t) \/ LoseDelivery(s, t)
        PROVE  faults' = faults + 1
    BY <2>1 DEF StatementFails, LoseDelivery
  <2>2. Restart \/ (\E t \in Txs : ScanMisses(t)) => faults' = faults + 1
    BY DEF Restart, ScanMisses
  <2>3. faults' = faults + 1 \/ faults' = faults
    BY <2>1, <2>2, WhoMoves
  <2> QED
    BY <1>0, <2>3
<1>2. ASSUME NEW x \in 0..1, NEW c \in 0..1, AddToDay(x, c)
      PROVE  Follows(value, shown, late)'
  <2>1. /\ profile /\ xp' = xp + x /\ past'.direct.xp = past.direct.xp + x
        /\ past'.purged = past.purged /\ profile' = profile /\ run' = run /\ faults' = faults
    BY <1>2, VisitsWrite DEF node
  <2> HIDE DEF Owed
  <2>2. /\ shown <= past'.direct.xp /\ (profile' => shown <= value)
        /\ value + (past'.direct.xp - shown) <= xp' + past'.purged
    BY <1>0, <2>1 DEF Follows
  <2>3. value + (past'.direct.xp - shown) < xp' => value + (past.direct.xp - shown) < xp
    BY <1>0, <2>1
  <2>4. value + (past.direct.xp - shown) < xp /\ faults' = 0 /\ ~late => Owed(run')
    BY <2>1 DEF Follows
  <2> QED
    BY <2>2, <2>3, <2>4 DEF Follows
<1>3. CASE Purge
  <2>1. /\ profile /\ ~profile' /\ xp' = 0 /\ past'.direct = past.direct /\ past'.purged = xp
    BY <1>3, PurgeWrites
  <2>2. past.purged = 0
    BY <2>1 DEF AccountHolds
  <2>3. /\ shown <= past'.direct.xp
        /\ value + (past'.direct.xp - shown) <= xp' + past'.purged
        /\ ~(value + (past'.direct.xp - shown) < xp')
    BY <1>0, <2>1, <2>2 DEF Follows
  <2> QED
    BY <2>1, <2>3 DEF Follows
<1>4. ASSUME NEW s \in Sources, NEW t \in Txs, RecordActivity(s, t)
      PROVE  Follows(value, shown, late)'
  <2>1. xp' >= xp /\ xp' \in Nat /\ past' = past /\ profile' = profile
    BY <1>0, <1>4 DEF RecordActivity, XpOf, node
  <2>2. Owed(run')
    BY <1>4, OwedByRecord
  <2>3. value + (past.direct.xp - shown) <= xp' + past.purged
    BY <1>0, <2>1 DEF Follows
  <2> QED
    BY <2>1, <2>2, <2>3 DEF Follows
<1>5. ASSUME xp' = xp, ~Visits, ~Purge
      PROVE  Follows(value, shown, late)'
  <2>1. past'.direct.xp = past.direct.xp /\ past'.purged = past.purged /\ profile' = profile
    BY <1>5, CountsStay
  <2>2. ASSUME value + (past.direct.xp - shown) < xp, faults' = 0, ~late
        PROVE  Owed(run')
    <3>1. Owed(run)
      BY <1>1, <2>2 DEF Follows
    <3> QED
      BY <2>2, <3>1, OwedStays
  <2> HIDE DEF Owed
  <2> QED
    BY <1>5, <2>1, <2>2 DEF Follows
<1> QED
  BY <1>2, <1>3, <1>4, <1>5, WhoMoves DEF Visits

LEMMA OvertakenStays ==
  ASSUME PTypes, PipelineNext, ~CacheExpires, \A r \in Refreshes : ~WriteCache(r),
         \A s \in Sources, t \in Txs : ~DeleteCache(s, t)
  PROVE  past'.overtaken = past.overtaken /\ past'.shown = past.shown
<1>1. past \in PastType
  BY DEF PTypes
<1>2. Forgets => past'.overtaken = past.overtaken /\ past'.shown = past.shown
  BY <1>1, ForgettingFacts DEF Forgets
<1>3. ASSUME NEW s \in Sources, NEW t \in Txs, CheckRedis(s, t) \/ StatementFails(s, t)
      PROVE  past'.overtaken = past.overtaken /\ past'.shown = past.shown
  BY <1>3, OverlapFacts, FailFacts
<1>4. ASSUME NEW s \in Sources, NEW t \in Txs, LoseDelivery(s, t)
      PROVE  past'.overtaken = past.overtaken /\ past'.shown = past.shown
  BY <1>1, <1>4 DEF LoseDelivery, PastType
<1>5. Visits \/ Purge \/ Claims => past'.overtaken = past.overtaken /\ past'.shown = past.shown
  BY VisitsWrite, PurgeWrites, ClaimWrites DEF Visits, Claims
<1> QED
  BY <1>2, <1>3, <1>4, <1>5, WhoForgets, WhoMoves

LEMMA BoardFollowsStep ==
  ASSUME PTypes, PTypes', HandledOnce, BoardFollows, PipelineNext
  PROVE  BoardFollows'
<1>0. /\ xp \in Nat /\ cache \in Nat \cup {NoCache} /\ refresh \in [Refreshes -> RefreshType]
      /\ past \in PastType /\ AccountHolds
      /\ \A r \in Refreshes : /\ refresh[r].xp \in Nat /\ refresh[r].direct \in Nat
                              /\ refresh[r].late \in BOOLEAN
      /\ past.overtaken \in BOOLEAN /\ past.shown \in Nat
      /\ past.direct.xp \in Nat /\ past.purged \in Nat /\ profile \in BOOLEAN
  BY DEF PTypes, BoardFollows, RefreshType, PastType, DirectType
<1>1. AccountHolds'
  BY <1>0, AccountHoldsStep
<1>2. ASSUME NEW s \in Sources, NEW t \in Txs, DeleteCache(s, t)
      PROVE  BoardFollows'
  <2>1. /\ cache' = NoCache /\ xp' = xp /\ profile' = profile
        /\ past'.direct = past.direct /\ past'.purged = past.purged
    BY <1>0, <1>2 DEF DeleteCache, tables, node, PastType
  <2>2. ASSUME NEW r \in Refreshes, refresh'[r].on
        PROVE  Follows(refresh[r].xp, refresh[r].direct, refresh[r].late)'
    <3>1. refresh'[r] = [refresh[r] EXCEPT !.late = refresh[r].on]
      BY <1>2 DEF DeleteCache
    <3>2. /\ refresh'[r].on = refresh[r].on /\ refresh'[r].xp = refresh[r].xp
          /\ refresh'[r].direct = refresh[r].direct /\ refresh'[r].late = refresh[r].on
      BY <1>0, <3>1 DEF RefreshType
    <3>3. /\ refresh[r].direct <= past.direct.xp /\ (profile => refresh[r].direct <= refresh[r].xp)
          /\ refresh[r].xp + (past.direct.xp - refresh[r].direct) <= xp + past.purged
      BY <2>2, <3>2 DEF BoardFollows, Follows
    <3> QED
      BY <2>1, <2>2, <3>2, <3>3 DEF Follows
  <2> QED
    BY <1>1, <2>1, <2>2 DEF BoardFollows
<1>3. ASSUME \A s \in Sources, t \in Txs : ~DeleteCache(s, t)
      PROVE  BoardFollows'
  <2>1. cache # NoCache => Follows(cache, past.shown, past.overtaken) /\ cache \in Nat
    BY <1>0 DEF BoardFollows
  <2>2. \A r \in Refreshes :
          refresh[r].on => Follows(refresh[r].xp, refresh[r].direct, refresh[r].late)
    BY DEF BoardFollows
  <2> DEFINE Still(value, shown, late) ==
               /\ shown <= past'.direct.xp
               /\ profile' => shown <= value
               /\ value + (past'.direct.xp - shown) <= xp' + past'.purged
               /\ value + (past'.direct.xp - shown) < xp' /\ faults' = 0 /\ ~late => Owed(run')
  <2>3. ASSUME NEW value \in Nat, NEW shown \in Nat, NEW late \in BOOLEAN, Follows(value, shown, late)
        PROVE  Still(value, shown, late)
    BY <1>0, <1>3, <2>3, FollowsStays DEF Follows
  <2>4. cache # NoCache => Still(cache, past.shown, past.overtaken)
    <3> HIDE DEF Still
    <3> QED
      BY <1>0, <2>1, <2>3
  <2>5. \A r \in Refreshes : refresh[r].on => Still(refresh[r].xp, refresh[r].direct, refresh[r].late)
    <3> HIDE DEF Still
    <3> QED
      BY <1>0, <2>2, <2>3
  <2>6. Still(xp, past.direct.xp, FALSE)
    <3>1. Follows(xp, past.direct.xp, FALSE)
      <4> HIDE DEF Owed
      <4> QED
        BY <1>0 DEF Follows, AccountHolds
    <3> HIDE DEF Still
    <3> QED
      BY <1>0, <2>3, <3>1
  <2>7. BoardFollows' <=>
          /\ AccountHolds'
          /\ cache' # NoCache => Still(cache', past'.shown, past'.overtaken)
          /\ \A r \in Refreshes :
               refresh'[r].on => Still(refresh'[r].xp, refresh'[r].direct, refresh'[r].late)
    BY DEF BoardFollows, Follows
  <2> HIDE DEF Still
  <2>8. ASSUME NEW r \in Refreshes, StartRefresh(r), cache' = cache, past' = past
        PROVE  BoardFollows'
    <3> DEFINE new == [on |-> TRUE, xp |-> xp, direct |-> past.direct.xp, late |-> FALSE]
    <3>1. \A q \in Refreshes : q # r => refresh'[q] = refresh[q]
      BY <1>0, <2>8 DEF StartRefresh
    <3>2. refresh'[r] = refresh[r] \/ refresh'[r] = new
      BY <1>0, <2>8 DEF StartRefresh
    <3>3. refresh'[r].on => Still(refresh'[r].xp, refresh'[r].direct, refresh'[r].late)
      <4>1. CASE refresh'[r] = refresh[r]
        BY <2>5, <4>1
      <4>2. CASE refresh'[r] = new
        <5>1. refresh'[r].xp = xp /\ refresh'[r].direct = past.direct.xp /\ refresh'[r].late = FALSE
          BY <4>2
        <5> QED
          BY <2>6, <5>1
      <4> QED
        BY <3>2, <4>1, <4>2
    <3>4. \A q \in Refreshes : refresh'[q].on => Still(refresh'[q].xp, refresh'[q].direct, refresh'[q].late)
      BY <2>5, <3>1, <3>3
    <3> QED
      BY <1>1, <2>4, <2>7, <2>8, <3>4
  <2>9. ASSUME NEW r \in Refreshes, WriteCache(r)
        PROVE  BoardFollows'
    <3>1. /\ refresh[r].on /\ cache' = refresh[r].xp /\ past'.overtaken = refresh[r].late
          /\ past'.shown = refresh[r].direct
          /\ refresh' = [refresh EXCEPT ![r] = Resting]
      BY <1>0, <2>9 DEF WriteCache, PastType
    <3>2. \A q \in Refreshes : refresh'[q].on => refresh'[q] = refresh[q]
      BY <1>0, <3>1 DEF Resting
    <3>3. \A q \in Refreshes : refresh'[q].on => Still(refresh'[q].xp, refresh'[q].direct, refresh'[q].late)
      BY <2>5, <3>2
    <3>4. Still(cache', past'.shown, past'.overtaken)
      BY <2>5, <3>1
    <3> QED
      BY <1>1, <2>7, <3>3, <3>4
  <2>10. CASE CacheExpires
    <3>1. cache' = NoCache /\ refresh' = refresh
      BY <2>10 DEF CacheExpires
    <3> QED
      BY <1>1, <2>5, <2>7, <3>1
  <2>11. CASE /\ cache' = cache /\ past'.overtaken = past.overtaken /\ past'.shown = past.shown
              /\ refresh' = refresh
    BY <1>1, <2>4, <2>5, <2>7, <2>11
  <2>12. CASE Restart
    <3>1. cache' = cache /\ \A q \in Refreshes : refresh'[q] = Resting
      BY <2>12 DEF Restart
    <3>2. past'.overtaken = past.overtaken /\ past'.shown = past.shown
      BY <1>0, <2>12, WhoForgets, ForgettingFacts DEF Forgets
    <3>3. \A q \in Refreshes : ~refresh'[q].on
      BY <3>1 DEF Resting
    <3> QED
      BY <1>1, <2>4, <2>7, <3>1, <3>2, <3>3
  <2>13. ASSUME NEW r \in Refreshes, StartCronJobs(r) \/ RefreshLeaderboard(r)
         PROVE  BoardFollows'
    BY <2>8, <2>13 DEF StartCronJobs, RefreshLeaderboard
  <2>14. StopCronJobs => cache' = cache /\ refresh' = refresh
    BY DEF StopCronJobs
  <2>15. UNCHANGED board => cache' = cache /\ refresh' = refresh
    BY DEF board
  <2>16. \/ CacheExpires \/ \E r \in Refreshes : WriteCache(r)
         \/ past'.overtaken = past.overtaken /\ past'.shown = past.shown
    BY <1>3, OvertakenStays
  <2> QED
    BY <1>3, <2>9, <2>10, <2>11, <2>12, <2>13, <2>14, <2>15, <2>16, WhoMoves
<1> QED
  BY <1>2, <1>3

-----------------------------------------------------------------------------
(* EffectsAreLogged: what is logged and not about to be recorded pays for   *)
(* the XP and the courses, and a handler runs on what is logged.            *)
LogsFirst ==
  \A s \in Sources, t \in Txs :
    First(run[s][t]) \in {"none", "check", "add", "log"} \/ Dispatched(t) > 0

RecordLeft(r, t) == {s \in Sources : First(r[s][t]) = "record"}
Credit(rw, r, t) == rw[t].live + rw[t].scan - Cardinality(RecordLeft(r, t))
CreditXp(k, rw, r) == [t \in Txs |-> XpOf(k[t]) * Credit(rw, r, t)]
CreditCourses(rw, r) == [t \in Txs |-> Credit(rw, r, t)]

Logged ==
  /\ xp <= past.direct.xp + SumFunctionOnSet(CreditXp(inst.kind, rows, run), Txs)
  /\ courses <= past.direct.courses + SumFunctionOnSet(CreditCourses(rows, run), Txs)
  /\ 0 <= SumFunctionOnSet(CreditXp(inst.kind, rows, run), Txs)
  /\ 0 <= SumFunctionOnSet(CreditCourses(rows, run), Txs)
  /\ \A m \in Milestones : m \in achievements =>
       \/ m <= courses \/ m \in past.direct.badges
       \/ \E t \in Txs : inst.names[t] = m /\ Dispatched(t) > 0

LEMMA LogsFirstStep ==
  ASSUME PTypes, LogsFirst, PipelineNext
  PROVE  /\ LogsFirst'
         /\ \A t \in Txs : Dispatched(t) > 0 => Dispatched(t)' > 0
<1>1. \A t \in Txs : {rows[t].live, rows[t].scan, rows'[t].live, rows'[t].scan} \subseteq Nat
  BY TablesTyped DEF PTypes, RowType
<1>2. ASSUME NEW s \in Sources, NEW t \in Txs, LogEvent(s, t)
      PROVE  /\ rows'[t].live + rows'[t].scan > 0
             /\ \A v \in Txs : v # t => rows'[v] = rows[v]
  <2>1. rows'[t].live = rows[t].live + Flag(s # 0) /\ rows'[t].scan = rows[t].scan + Flag(s = 0)
    BY <1>2, LogFacts
  <2>2. Flag(s # 0) + Flag(s = 0) = 1 /\ Flag(s # 0) \in Nat /\ Flag(s = 0) \in Nat
    BY DEF Flag
  <2>3. \A v \in Txs : v # t => rows'[v] = rows[v]
    BY <1>2, LogFacts
  <2> QED
    BY <1>1, <2>1, <2>2, <2>3
<1>3. ASSUME NEW v \in Txs, rows[v].live + rows[v].scan > 0
      PROVE  rows'[v].live + rows'[v].scan > 0
  BY <1>2, <1>3, FailFacts, WhoMoves
<1>4. ASSUME NEW s \in Sources, NEW t \in Txs,
             First(run'[s][t]) \notin {"none", "check", "add", "log"}
      PROVE  rows'[t].live + rows'[t].scan > 0
  <2>1. CASE run'[s][t] = run[s][t]
    BY <1>3, <1>4, <2>1 DEF LogsFirst, Dispatched
  <2>2. ASSUME NEW u \in Sources, NEW v \in Txs, Work(u, v) \/ StatementFails(u, v)
        PROVE  rows'[t].live + rows'[t].scan > 0
    <3>1. PICK x \in Programs : Left(u, v, x)
      BY <2>2, WorkMoves
    <3>2. CASE u # s \/ v # t
      BY <2>1, <3>1, <3>2, MovesFacts DEF Left
    <3>3. CASE u = s /\ v = t /\ LogEvent(u, v)
      BY <1>2, <3>3
    <3>4. CASE u = s /\ v = t /\ ~LogEvent(u, v)
      <4>1. run'[s][t] = x
        BY <3>1, <3>4, MovesFacts DEF Left
      <4>2. First(run[s][t]) \notin {"none", "check", "add", "log"}
        BY <1>4, <2>2, <3>1, <3>4, <4>1, WorkStarts
      <4> QED
        BY <1>3, <4>2 DEF LogsFirst, Dispatched
    <3> QED
      BY <3>2, <3>3, <3>4
  <2>3. ASSUME NEW v \in Txs, ScanNext(v)
        PROVE  rows'[t].live + rows'[t].scan > 0
    <3>1. run'[0][v] = Steps[inst.kind[v]] /\ First(Steps[inst.kind[v]]) = "log"
      BY <2>3, ScanMoves, MovesFacts
    <3>2. s # 0 \/ t # v
      BY <1>4, <3>1
    <3> QED
      BY <2>1, <2>3, <3>2, ScanMoves, MovesFacts
  <2>4. CASE Restart
    <3>1. run'[s][t] = << >>
      BY <2>4 DEF Restart
    <3> QED
      BY <1>4, <3>1 DEF First
  <2> QED
    BY <2>1, <2>2, <2>3, <2>4, WhoMoves
<1>5. LogsFirst'
  BY <1>4 DEF LogsFirst, Dispatched
<1> QED
  BY <1>3, <1>5 DEF Dispatched

LEMMA RecordLeftType ==
  ASSUME MaxSubs \in Nat, NEW r, NEW t
  PROVE  /\ Cardinality(RecordLeft(r, t)) \in Nat
         /\ RecordLeft(r, t) = {} => Cardinality(RecordLeft(r, t)) = 0
<1>1. IsFiniteSet(Sources)
  <2>1. 0 \in Int /\ MaxSubs \in Int
    OBVIOUS
  <2> QED
    BY <2>1, FS_Interval, Zenon DEF Sources
<1>2. RecordLeft(r, t) \in SUBSET Sources
  BY DEF RecordLeft
<1>3. IsFiniteSet(RecordLeft(r, t))
  BY <1>1, <1>2, FS_Subset
<1> QED
  BY <1>3, FS_CardinalityType, FS_EmptySet

LEMMA RecordLeftMoves ==
  ASSUME NEW r, NEW n, NEW s \in Sources, NEW t \in Txs,
         \A u \in Sources : u # s => n[u][t] = r[u][t], MaxSubs \in Nat
  PROVE  Cardinality(RecordLeft(n, t))
           = Cardinality(RecordLeft(r, t)) - Flag(First(r[s][t]) = "record") + Flag(First(n[s][t]) = "record")
<1>1. IsFiniteSet(Sources)
  <2>1. 0 \in Int /\ MaxSubs \in Int
    OBVIOUS
  <2> QED
    BY <2>1, FS_Interval, Zenon DEF Sources
<1>2. /\ RecordLeft(r, t) \in SUBSET Sources /\ RecordLeft(n, t) \in SUBSET Sources
      /\ \A u \in Sources : u # s => (u \in RecordLeft(r, t) <=> u \in RecordLeft(n, t))
      /\ s \in RecordLeft(r, t) <=> First(r[s][t]) = "record"
      /\ s \in RecordLeft(n, t) <=> First(n[s][t]) = "record"
  BY DEF RecordLeft
<1>3. Cardinality(RecordLeft(n, t)) = Cardinality(RecordLeft(r, t)) - Flag(s \in RecordLeft(r, t))
                                        + Flag(s \in RecordLeft(n, t))
  <2> HIDE DEF RecordLeft
  <2> QED
    BY <1>1, <1>2, OneMoves
<1> QED
  BY <1>2, <1>3 DEF Flag

LEMMA CreditTypes ==
  ASSUME PTypes, NEW v \in Txs
  PROVE  /\ Credit(rows, run, v) \in Int /\ Dispatched(v) \in Nat
         /\ Credit(rows, run, v) <= Dispatched(v)
         /\ XpOf(inst.kind[v]) \in {1, 2} /\ MaxSubs \in Nat
<1>1. MaxSubs \in Nat
  BY InstanceFacts DEF PTypes
<1>2. rows[v].live \in Nat /\ rows[v].scan \in Nat
  BY DEF PTypes, RowType
<1>3. Cardinality(RecordLeft(run, v)) \in Nat
  BY <1>1, RecordLeftType
<1> QED
  BY <1>1, <1>2, <1>3 DEF Credit, Dispatched, XpOf

LEMMA CreditStep ==
  ASSUME PTypes, PipelineNext, NEW v \in Txs
  PROVE  /\ Credit(rows', run', v) \in Int
         /\ Credit(rows', run', v) >= Credit(rows, run, v)
         /\ \A s \in Sources : RecordActivity(s, v) =>
              Credit(rows', run', v) = Credit(rows, run, v) + 1
<1> DEFINE d == rows[v].live + rows[v].scan
           d1 == rows'[v].live + rows'[v].scan
           c == Cardinality(RecordLeft(run, v))
           c1 == Cardinality(RecordLeft(run', v))
           Goal == /\ d1 - c1 \in Int /\ d1 - c1 >= d - c
                   /\ \A s \in Sources : RecordActivity(s, v) => d1 - c1 = (d - c) + 1
<1>0. MaxSubs \in Nat /\ d \in Nat /\ d1 \in Nat /\ c \in Nat /\ c1 \in Nat
  <2>1. MaxSubs \in Nat
    BY InstanceFacts DEF PTypes
  <2>2. rows[v].live \in Nat /\ rows[v].scan \in Nat
    BY DEF PTypes, RowType
  <2>3. rows' \in [Txs -> RowType]
    BY TablesTyped
  <2>4. rows'[v].live \in Nat /\ rows'[v].scan \in Nat
    BY <2>3 DEF RowType
  <2> QED
    BY <2>1, <2>2, <2>4, RecordLeftType
<1>1. ASSUME d1 = d, c1 <= c, \A s \in Sources : ~RecordActivity(s, v)
      PROVE  Goal
  <2> HIDE DEF d, d1, c, c1
  <2> QED
    BY <1>0, <1>1
<1>2. ASSUME NEW s \in Sources, RecordActivity(s, v)
      PROVE  d1 = d /\ c1 = c - 1
  <2>1. rows' = rows /\ First(run[s][v]) = "record" /\ ~LogEvent(s, v)
    BY <1>2, HeadFirst DEF RecordActivity, LogEvent, Next1
  <2>2. PICK x \in Programs : Left(s, v, x)
    BY <1>2, WorkMoves DEF Work, Dispatch
  <2>3. run'[s][v] = x /\ (\A u \in Sources : u # s => run'[u][v] = run[u][v]) /\ First(x) # "record"
    BY <2>1, <2>2, MovesFacts DEF Left
  <2>4. c1 = c - Flag(First(run[s][v]) = "record") + Flag(First(run'[s][v]) = "record")
    BY <1>0, <2>3, RecordLeftMoves
  <2> HIDE DEF c, c1
  <2>5. c1 = c - 1
    BY <1>0, <2>1, <2>3, <2>4 DEF Flag
  <2> QED
    BY <2>1, <2>5
<1>3. ASSUME NEW s \in Sources, NEW t \in Txs, Work(s, t) \/ StatementFails(s, t),
             \A u \in Sources : ~RecordActivity(u, v)
      PROVE  Goal
  <2>1. PICK x \in Programs : Left(s, t, x)
    BY <1>3, WorkMoves
  <2>2. /\ run'[s][t] = x
        /\ \A u \in Sources, w \in Txs : u # s \/ w # t => run'[u][w] = run[u][w]
    BY <2>1, MovesFacts DEF Left
  <2>3. LogEvent(s, t) => d1 = d + Flag(t = v)
    <3> SUFFICES ASSUME LogEvent(s, t)
                 PROVE  d1 = d + Flag(t = v)
      OBVIOUS
    <3>1. CASE t # v
      BY <1>0, <3>1, LogFacts DEF Flag
    <3>2. CASE t = v
      <4>1. /\ rows'[v].live = rows[v].live + Flag(s # 0)
            /\ rows'[v].scan = rows[v].scan + Flag(s = 0)
        BY <3>2, LogFacts
      <4>2. rows[v].live \in Nat /\ rows[v].scan \in Nat
        BY DEF PTypes, RowType
      <4> QED
        BY <3>2, <4>1, <4>2 DEF Flag
    <3> QED
      BY <3>1, <3>2
  <2>4. ~LogEvent(s, t) => d1 = d
    BY <1>3, FailFacts
    DEF Work, Deliver, Track, CheckInMemory, CheckRedis, AddHash, Dispatch, Unlinked, Audit,
        RecordActivity, AwardMilestones, Certify, Notify, DeleteCache, tables
  <2>5. CASE t # v
    <3>1. RecordLeft(run', v) = RecordLeft(run, v)
      BY <2>2, <2>5 DEF RecordLeft
    <3>2. c1 = c
      BY <3>1
    <3>3. d1 = d
      <4> HIDE DEF d, d1
      <4> QED
        BY <1>0, <2>3, <2>4, <2>5 DEF Flag
    <3>4. c1 <= c
      <4> HIDE DEF c, c1
      <4> QED
        BY <1>0, <3>2
    <3> HIDE DEF c, c1, d, d1, Goal
    <3> QED
      BY <1>1, <1>3, <3>3, <3>4
  <2>6. CASE t = v
    <3>1. c1 = c - Flag(First(run[s][v]) = "record") + Flag(First(run'[s][v]) = "record")
      BY <1>0, <2>2, <2>6, RecordLeftMoves
    <3>2. First(run'[s][v]) = "record" => LogEvent(s, v)
      BY <2>1, <2>2, <2>6 DEF Left
    <3> HIDE DEF c, c1, d, d1
    <3>3. d1 - c1 >= d - c /\ d1 - c1 \in Int
      BY <1>0, <2>3, <2>4, <2>6, <3>1, <3>2 DEF Flag
    <3> QED
      BY <1>3, <3>3
  <2> QED
    BY <2>5, <2>6
<1>4. ASSUME NEW t \in Txs, ScanNext(t)
      PROVE  Goal
  <2>1. /\ run'[0][t] = Steps[inst.kind[t]] /\ First(Steps[inst.kind[t]]) = "log"
        /\ \A u \in Sources, w \in Txs : u # 0 \/ w # t => run'[u][w] = run[u][w]
        /\ 0 \in Sources
    BY <1>4, ScanMoves, MovesFacts
  <2>2. \A u \in Sources : u # 0 => run'[u][v] = run[u][v]
    BY <2>1
  <2>3. c1 = c - Flag(First(run[0][v]) = "record") + Flag(First(run'[0][v]) = "record")
    BY <1>0, <2>1, <2>2, RecordLeftMoves
  <2>4. First(run'[0][v]) = "record" => First(run[0][v]) = "record"
    BY <2>1
  <2>5. c1 <= c
    <3> HIDE DEF c, c1
    <3> QED
      BY <1>0, <2>3, <2>4 DEF Flag
  <2>6. d1 = d /\ \A s \in Sources : ~RecordActivity(s, v)
    <3>1. rows' = rows
      BY <1>4 DEF ScanNext, tables
    <3>2. ASSUME NEW s \in Sources, RecordActivity(s, v)
          PROVE  FALSE
      <4>1. xp' = xp
        BY <1>4 DEF ScanNext, tables
      <4>2. xp' = xp + XpOf(inst.kind[v]) /\ xp \in Nat
        BY <3>2 DEF RecordActivity, PTypes
      <4> QED
        BY <4>1, <4>2 DEF XpOf
    <3> QED
      BY <3>1, <3>2
  <2> HIDE DEF c, c1, d, d1, Goal
  <2> QED
    BY <1>1, <2>5, <2>6
<1>5. ASSUME xp' = xp, NEW s \in Sources, RecordActivity(s, v)
      PROVE  FALSE
  <2>1. xp' = xp + XpOf(inst.kind[v]) /\ xp \in Nat
    BY <1>5 DEF RecordActivity, PTypes
  <2> QED
    BY <1>5, <2>1 DEF XpOf
<1>6. ASSUME Restart
      PROVE  Goal
  <2>1. \A u \in Sources : run'[u][v] = << >>
    BY <1>6 DEF Restart
  <2>2. RecordLeft(run', v) = {}
    BY <2>1, ProgramNone DEF RecordLeft
  <2>3. c1 = 0
    BY <1>0, <2>2, RecordLeftType
  <2>4. d1 = d /\ xp' = xp
    BY <1>6 DEF Restart, tables
  <2>5. c1 <= c
    <3> HIDE DEF c, c1
    <3> QED
      BY <1>0, <2>3
  <2> HIDE DEF c, c1, d, d1, Goal
  <2> QED
    BY <1>1, <1>5, <2>4, <2>5
<1>7. ASSUME UNCHANGED <<run, rows>>
      PROVE  Goal
  <2>1. d1 = d /\ c1 = c
    BY <1>7
  <2>2. c1 <= c
    <3> HIDE DEF c, c1
    <3> QED
      BY <1>0, <2>1
  <2>3. \A s \in Sources : ~RecordActivity(s, v)
    <3> SUFFICES ASSUME NEW s \in Sources, RecordActivity(s, v)
                 PROVE  FALSE
      OBVIOUS
    <3>1. c1 = c - 1
      BY <1>2
    <3> HIDE DEF c, c1, d, d1
    <3> QED
      BY <1>0, <2>1, <3>1
  <2> HIDE DEF c, c1, d, d1, Goal
  <2> QED
    BY <1>1, <2>1, <2>2, <2>3
<1>8. Goal
  <2>1. CASE \E s \in Sources : RecordActivity(s, v)
    <3>1. d1 = d /\ c1 = c - 1
      BY <1>2, <2>1
    <3> HIDE DEF c, c1, d, d1
    <3> QED
      BY <1>0, <3>1
  <2>2. CASE \A s \in Sources : ~RecordActivity(s, v)
    <3> HIDE DEF c, c1, d, d1, Goal
    <3> QED
      BY <1>3, <1>4, <1>6, <1>7, <2>2, WhoMoves DEF Work, Dispatch
  <2> QED
    BY <2>1, <2>2
<1>9. Credit(rows, run, v) = d - c /\ Credit(rows', run', v) = d1 - c1
  <2>1. /\ rows[v].live \in Nat /\ rows[v].scan \in Nat
        /\ rows'[v].live \in Nat /\ rows'[v].scan \in Nat
    BY TablesTyped DEF PTypes, RowType
  <2> HIDE DEF c, c1, Goal
  <2>2. /\ Credit(rows, run, v) = rows[v].live + (rows[v].scan - c)
        /\ Credit(rows', run', v) = rows'[v].live + (rows'[v].scan - c1)
    BY DEF Credit, c, c1
  <2> QED
    BY <1>0, <2>1, <2>2
<1> HIDE DEF d, d1, c, c1
<1> QED
  BY <1>0, <1>8, <1>9

LEMMA Scaled ==
  ASSUME NEW x \in {1, 2}, NEW a \in Int, NEW b \in Int
  PROVE  /\ x * a \in Int
         /\ a <= b => x * a <= x * b
         /\ b = a + 1 => x * a + x <= x * b
<1>1. x = 1 \/ x = 2
  OBVIOUS
<1> QED
  BY <1>1

LEMMA CreditSums ==
  ASSUME PTypes
  PROVE  /\ CreditXp(inst.kind, rows, run) \in [Txs -> Int]
         /\ CreditCourses(rows, run) \in [Txs -> Int]
         /\ \A v \in Txs : /\ CreditXp(inst.kind, rows, run)[v] = XpOf(inst.kind[v]) * Credit(rows, run, v)
                           /\ CreditCourses(rows, run)[v] = Credit(rows, run, v)
         /\ SumFunctionOnSet(CreditXp(inst.kind, rows, run), Txs) \in Int
         /\ SumFunctionOnSet(CreditCourses(rows, run), Txs) \in Int
<1>1. ASSUME NEW v \in Txs
      PROVE  XpOf(inst.kind[v]) * Credit(rows, run, v) \in Int /\ Credit(rows, run, v) \in Int
  <2>1. XpOf(inst.kind[v]) \in {1, 2} /\ Credit(rows, run, v) \in Int
    BY CreditTypes
  <2> HIDE DEF XpOf, Credit
  <2> QED
    BY <2>1, Scaled
<1>2. /\ CreditXp(inst.kind, rows, run) \in [Txs -> Int]
      /\ CreditCourses(rows, run) \in [Txs -> Int]
  BY <1>1 DEF CreditXp, CreditCourses
<1>3. IsFiniteSet(Txs)
  BY PipelineAssumption
<1>4. \A v \in Txs : /\ CreditXp(inst.kind, rows, run)[v] = XpOf(inst.kind[v]) * Credit(rows, run, v)
                     /\ CreditCourses(rows, run)[v] = Credit(rows, run, v)
  BY DEF CreditXp, CreditCourses
<1> QED
  BY <1>2, <1>3, <1>4, SumType

LEMMA CreditSumsNext ==
  ASSUME PTypes, PipelineNext
  PROVE  LET e == CreditXp(inst.kind, rows, run)
             f == CreditXp(inst'.kind, rows', run')
             g == CreditCourses(rows, run)
             h == CreditCourses(rows', run')
         IN  /\ f \in [Txs -> Int] /\ h \in [Txs -> Int]
             /\ \A v \in Txs : e[v] <= f[v] /\ g[v] <= h[v]
             /\ \A v \in Txs : \A s \in Sources : RecordActivity(s, v) =>
                  e[v] + XpOf(inst.kind[v]) <= f[v] /\ g[v] + 1 <= h[v]
<1> DEFINE a(v) == Credit(rows, run, v)
           b(v) == Credit(rows', run', v)
           x(v) == XpOf(inst.kind[v])
<1>1. inst' = inst
  BY WhoMoves
<1>2. ASSUME NEW v \in Txs
      PROVE  /\ x(v) \in {1, 2} /\ a(v) \in Int /\ b(v) \in Int /\ a(v) <= b(v)
             /\ \A s \in Sources : RecordActivity(s, v) => b(v) = a(v) + 1
  <2>1. x(v) \in {1, 2} /\ a(v) \in Int
    BY CreditTypes
  <2>2. /\ b(v) \in Int /\ b(v) >= a(v)
        /\ \A s \in Sources : RecordActivity(s, v) => b(v) = a(v) + 1
    BY CreditStep
  <2> HIDE DEF a, b, x
  <2> QED
    BY <2>1, <2>2
<1>3. /\ CreditXp(inst.kind, rows, run) = [v \in Txs |-> x(v) * a(v)]
      /\ CreditXp(inst'.kind, rows', run') = [v \in Txs |-> x(v) * b(v)]
      /\ CreditCourses(rows, run) = [v \in Txs |-> a(v)]
      /\ CreditCourses(rows', run') = [v \in Txs |-> b(v)]
  BY <1>1 DEF CreditXp, CreditCourses
<1> HIDE DEF a, b, x
<1>4. ASSUME NEW v \in Txs
      PROVE  /\ x(v) * b(v) \in Int /\ x(v) * a(v) <= x(v) * b(v)
             /\ \A s \in Sources : RecordActivity(s, v) => x(v) * a(v) + x(v) <= x(v) * b(v)
  BY <1>2, Scaled
<1>5. \A v \in Txs : XpOf(inst.kind[v]) = x(v)
  BY DEF x
<1>6. ASSUME NEW v \in Txs, NEW s \in Sources, RecordActivity(s, v)
      PROVE  a(v) + 1 <= b(v)
  BY <1>2, <1>6
<1> QED
  BY <1>2, <1>3, <1>4, <1>5, <1>6

LEMMA AchievementsMove ==
  ASSUME PipelineNext
  PROVE  \/ UNCHANGED achievements \/ Purge \/ Claims
         \/ \E s \in Sources, t \in Txs : AwardMilestones(s, t) \/ Certify(s, t)
<1>1. CASE (\E t \in Txs : Land(t)) \/ Link \/ Unlink \/ StartEventListener \/ StopEventListener \/ Stopped
  BY <1>1 DEF Land, Link, Unlink, StartEventListener, StopEventListener, Stopped, tables
<1>2. CASE \E s \in Sources, t \in Txs : Work(s, t)
  BY <1>2 DEF Work, Track, Dispatch, Deliver, CheckInMemory, CheckRedis, AddHash, LogEvent, Unlinked, Audit,
              RecordActivity, Notify, DeleteCache, tables
<1>3. CASE \E s \in Sources, t \in Txs : StatementFails(s, t) \/ LoseDelivery(s, t)
  BY <1>3 DEF StatementFails, LoseDelivery, tables
<1>4. CASE HashesExpire \/ Recover \/ ScanEnds \/ StopCronJobs \/ CacheExpires \/ Restart
  BY <1>4 DEF HashesExpire, Recover, ScanEnds, StopCronJobs, CacheExpires, Restart, tables
<1>5. CASE \E r \in Refreshes : StartCronJobs(r) \/ RefreshLeaderboard(r) \/ WriteCache(r)
  BY <1>5 DEF StartCronJobs, RefreshLeaderboard, WriteCache, tables
<1>6. CASE \E t \in Txs : ScanNext(t) \/ ScanMisses(t)
  BY <1>6 DEF ScanNext, ScanMisses, tables
<1>7. CASE DailyLogin \/ RecordDay
  BY <1>7 DEF DailyLogin, RecordDay, AddToDay
<1> QED
  BY <1>1, <1>2, <1>3, <1>4, <1>5, <1>6, <1>7 DEF PipelineNext, Claims

LEMMA LoggedStep ==
  ASSUME PTypes, LogsFirst, Logged, PipelineNext
  PROVE  Logged'
<1> DEFINE e == CreditXp(inst.kind, rows, run)
           f == CreditXp(inst'.kind, rows', run')
           g == CreditCourses(rows, run)
           h == CreditCourses(rows', run')
           d == past.direct
           Paid == /\ xp' <= past'.direct.xp + SumFunctionOnSet(f, Txs)
                   /\ courses' <= past'.direct.courses + SumFunctionOnSet(h, Txs)
           Kept == courses' >= courses
<1>1. /\ e \in [Txs -> Int] /\ g \in [Txs -> Int]
      /\ SumFunctionOnSet(e, Txs) \in Int /\ SumFunctionOnSet(g, Txs) \in Int
  BY CreditSums
<1>2. /\ f \in [Txs -> Int] /\ h \in [Txs -> Int]
      /\ \A v \in Txs : e[v] <= f[v] /\ g[v] <= h[v]
      /\ \A v \in Txs : \A s \in Sources : RecordActivity(s, v) =>
           e[v] + XpOf(inst.kind[v]) <= f[v] /\ g[v] + 1 <= h[v]
  BY CreditSumsNext
<1>3. /\ IsFiniteSet(Txs) /\ xp \in Nat /\ courses \in Nat /\ Milestones \subseteq Nat \ Txs
      /\ d.xp \in Nat /\ d.courses \in Nat
  BY PipelineAssumption DEF PTypes, PastType, DirectType
<1>4. /\ xp <= d.xp + SumFunctionOnSet(e, Txs) /\ courses <= d.courses + SumFunctionOnSet(g, Txs)
      /\ 0 <= SumFunctionOnSet(e, Txs) /\ 0 <= SumFunctionOnSet(g, Txs)
  BY DEF Logged
<1> HIDE DEF e, f, g, h
<1>5. SumFunctionOnSet(f, Txs) \in Int /\ SumFunctionOnSet(h, Txs) \in Int
  BY <1>2, <1>3, SumType
<1>6. /\ SumFunctionOnSet(e, Txs) <= SumFunctionOnSet(f, Txs)
      /\ SumFunctionOnSet(g, Txs) <= SumFunctionOnSet(h, Txs)
  BY <1>1, <1>2, <1>3, SumMonotone
<1>7. 0 <= SumFunctionOnSet(f, Txs) /\ 0 <= SumFunctionOnSet(h, Txs)
  BY <1>1, <1>4, <1>5, <1>6
<1>8. ASSUME UNCHANGED <<xp, courses>>, ~Visits, ~Purge
      PROVE  Paid /\ Kept
  <2>1. past'.direct.xp = d.xp /\ past'.direct.courses = d.courses
    BY <1>8, CountsStay
  <2> HIDE DEF d
  <2> QED
    BY <1>1, <1>3, <1>4, <1>5, <1>6, <1>8, <2>1
<1>9. ASSUME NEW s \in Sources, NEW t \in Txs, RecordActivity(s, t)
      PROVE  Paid /\ Kept
  <2>1. XpOf(inst.kind[t]) \in Int /\ 1 \in Int
    BY DEF XpOf
  <2>2. e[t] + XpOf(inst.kind[t]) <= f[t] /\ g[t] + 1 <= h[t]
    BY <1>2, <1>9
  <2>3. /\ SumFunctionOnSet(e, Txs) + XpOf(inst.kind[t]) <= SumFunctionOnSet(f, Txs)
        /\ SumFunctionOnSet(g, Txs) + 1 <= SumFunctionOnSet(h, Txs)
    <3> HIDE DEF XpOf
    <3> QED
      BY <1>1, <1>2, <1>3, <2>1, <2>2, SumGrows
  <2>4. /\ xp' = xp + XpOf(inst.kind[t]) /\ (courses' = courses \/ courses' = courses + 1)
        /\ past'.direct = d
    BY <1>9 DEF RecordActivity
  <2> HIDE DEF XpOf, d
  <2> QED
    BY <1>1, <1>3, <1>4, <1>5, <2>1, <2>3, <2>4
<1>10. ASSUME NEW x \in 0..1, NEW c \in 0..1, AddToDay(x, c)
       PROVE  Paid /\ Kept
  <2>1. /\ xp' = xp + x /\ courses' = courses + c
        /\ past'.direct.xp = d.xp + x /\ past'.direct.courses = d.courses + c
    BY <1>10, VisitsWrite
  <2> HIDE DEF d
  <2> QED
    BY <1>1, <1>3, <1>4, <1>5, <1>6, <2>1
<1>11. ASSUME Purge
       PROVE  Paid /\ achievements' = {}
  <2>1. xp' = 0 /\ courses' = 0 /\ achievements' = {} /\ past'.direct = d
    BY <1>11, PurgeWrites
  <2> HIDE DEF d
  <2> QED
    BY <1>3, <1>5, <1>7, <2>1
<1>12. Paid /\ (Purge \/ Kept)
  <2> HIDE DEF Paid, Kept
  <2> QED
    BY <1>8, <1>9, <1>10, <1>11, WhoMoves DEF Visits
<1> DEFINE Earned(m) == \/ m <= courses' \/ m \in past'.direct.badges
                        \/ \E t \in Txs : inst'.names[t] = m /\ Dispatched(t)' > 0
<1>13. \A m \in Milestones : m \in achievements' => Earned(m)
  <2>0. inst' = inst /\ \A t \in Txs : Dispatched(t) > 0 => Dispatched(t)' > 0
    BY LogsFirstStep, WhoMoves
  <2>1. ASSUME NEW m \in Milestones, m \in achievements, ~Purge
        PROVE  Earned(m)
    <3>1. \/ m <= courses \/ m \in past.direct.badges
          \/ \E t \in Txs : inst.names[t] = m /\ Dispatched(t) > 0
      BY <2>1 DEF Logged
    <3>2. courses' \in Nat /\ m \in Nat
      BY <1>3, TablesTyped
    <3>3. m <= courses => m <= courses'
      BY <1>3, <1>12, <2>1, <3>2
    <3>4. past.direct.badges \subseteq past'.direct.badges
      BY <2>1, CountsStay, VisitsWrite DEF Visits
    <3> HIDE DEF Kept
    <3> QED
      BY <2>0, <3>1, <3>3, <3>4
  <2>2. ASSUME NEW s \in Sources, NEW t \in Txs, AwardMilestones(s, t), NEW m \in Milestones, m \in achievements'
        PROVE  m \in achievements \/ Earned(m)
    BY <2>2 DEF AwardMilestones
  <2>3. ASSUME NEW s \in Sources, NEW t \in Txs, Certify(s, t), NEW m \in Milestones, m \in achievements'
        PROVE  m \in achievements \/ Earned(m)
    <3>1. m \in achievements \/ m = inst.names[t]
      BY <2>3 DEF Certify
    <3>2. First(run[s][t]) = "certify"
      BY <2>3, HeadFirst DEF Certify, Next1
    <3>3. Dispatched(t) > 0
      BY <3>2 DEF LogsFirst
    <3> QED
      BY <2>0, <3>1, <3>3
  <2>4. CASE Purge
    BY <1>11, <2>4
  <2>5. ASSUME NEW n \in Milestones, Claim(n), NEW m \in Milestones, m \in achievements'
        PROVE  m \in achievements \/ Earned(m)
    BY <2>5, ClaimWrites
  <2>6. ASSUME ~Purge, NEW m \in Milestones, m \in achievements'
        PROVE  Earned(m)
    <3> HIDE DEF Earned
    <3> QED
      BY <2>1, <2>2, <2>3, <2>5, <2>6, AchievementsMove DEF Claims
  <2> HIDE DEF Earned
  <2> QED
    BY <2>4, <2>6
<1> QED
  BY <1>7, <1>12, <1>13 DEF Logged, e, f, g, h

-----------------------------------------------------------------------------
(* The inductive invariant.                                                 *)
PInv ==
  /\ PTypes /\ MemoryOnly /\ ScanChecksNothing /\ HandledOnce
  /\ \A t \in Txs : Explained(rows, past, seen, run, t)
  /\ Reached /\ BoardFollows /\ LogsFirst /\ Logged

LEMMA PInvInit ==
  ASSUME Init
  PROVE  PInv
<1>1. PTypes
  BY TypesInit
<1>2. \A s \in Sources, t \in Txs : run[s][t] = << >> /\ First(run[s][t]) = "none"
  BY DEF Init, First
<1>3. MaxSubs \in Nat /\ MaxHashCache \in Nat \ {0} /\ 0 \in Sources /\ 1..MaxSubs \subseteq Sources
  BY <1>1, InstanceFacts DEF PTypes, Sources
<1>4. MemoryOnly
  BY <1>2, <1>3, NoElements DEF Init, MemoryOnly, Resting
<1>5. ScanChecksNothing /\ HandledOnce
  BY <1>2, <1>3 DEF Init, ScanChecksNothing, HandledOnce
<1>6. ASSUME NEW t \in Txs
      PROVE  Explained(rows, past, seen, run, t)
  <2>1. LiveLeft(run, t) = {}
    BY <1>2, <1>3 DEF LiveLeft
  <2>2. Cardinality(LiveLeft(run, t)) = 0
    BY <1>3, <2>1, LiveLeftType
  <2>3. rows[t].live = 0 /\ past.overlap[t] = 0 /\ past.forgot[t] = 0
    BY DEF Init
  <2> QED
    BY <2>2, <2>3 DEF Explained, Flag
<1>7. Reached
  BY NoElements DEF Init, Reached, NoScan
<1>8. BoardFollows
  BY DEF Init, BoardFollows, AccountHolds, Resting
<1>9. Logged
  <2>1. ASSUME NEW t \in Txs
        PROVE  Credit(rows, run, t) = 0
    <3>1. RecordLeft(run, t) = {}
      BY <1>2 DEF RecordLeft
    <3>2. Cardinality(RecordLeft(run, t)) = 0
      BY <1>3, <3>1, RecordLeftType
    <3>3. rows[t].live = 0 /\ rows[t].scan = 0
      BY DEF Init
    <3> QED
      BY <3>2, <3>3 DEF Credit
  <2>2. \A t \in Txs : CreditXp(inst.kind, rows, run)[t] = 0 /\ CreditCourses(rows, run)[t] = 0
    <3>1. ASSUME NEW t \in Txs
          PROVE  XpOf(inst.kind[t]) * Credit(rows, run, t) = 0
      BY <2>1 DEF XpOf
    <3> QED
      BY <2>1, <3>1 DEF CreditXp, CreditCourses
  <2>3. IsFiniteSet(Txs)
    BY PipelineAssumption
  <2>4. /\ CreditXp(inst.kind, rows, run) \in [Txs -> Int]
        /\ CreditCourses(rows, run) \in [Txs -> Int]
    BY <1>1, CreditSums
  <2>5. /\ SumFunctionOnSet(CreditXp(inst.kind, rows, run), Txs) = 0
        /\ SumFunctionOnSet(CreditCourses(rows, run), Txs) = 0
    BY <2>2, <2>3, <2>4, SumOfZeroes
  <2> QED
    BY <2>5 DEF Init, Logged
<1>10. LogsFirst
  BY <1>2 DEF LogsFirst
<1> QED
  BY <1>1, <1>4, <1>5, <1>6, <1>7, <1>8, <1>9, <1>10 DEF PInv

LEMMA PInvStep ==
  ASSUME PInv, [PipelineNext]_vars
  PROVE  PInv'
<1>1. PTypes'
  BY TypesStep DEF PInv
<1>2. CASE PipelineNext
  <2>1. MemoryOnly' /\ ScanChecksNothing' /\ HandledOnce'
    BY <1>2, MemoryOnlyStep, ScanChecksNothingStep, HandledOnceStep DEF PInv
  <2>2. \A t \in Txs : Explained(rows', past', seen', run', t)
    BY <1>1, <1>2, ExplainedStep DEF PInv
  <2>3. Reached' /\ BoardFollows' /\ LogsFirst' /\ Logged'
    BY <1>1, <1>2, ReachedStep, BoardFollowsStep, LogsFirstStep, LoggedStep DEF PInv
  <2> QED
    BY <1>1, <2>1, <2>2, <2>3 DEF PInv
<1>3. CASE UNCHANGED vars
  <2>1. UNCHANGED <<redis, profile, linked, inst, chain, seen, inbox, run, scan, rows, xp, courses,
                    achievements, cache, refresh, faults, past>>
    BY <1>3 DEF vars, node, listener, tables, board, counts
  <2>2. MemoryOnly' /\ ScanChecksNothing' /\ HandledOnce'
    BY <2>1 DEF PInv, MemoryOnly, ScanChecksNothing, HandledOnce
  <2>3. \A t \in Txs : Explained(rows', past', seen', run', t)
    BY <2>1 DEF PInv
  <2>4. Reached' /\ BoardFollows'
    BY <2>1 DEF PInv, Reached, BoardFollows, AccountHolds, Follows
  <2>5. LogsFirst' /\ Logged'
    BY <2>1 DEF PInv, LogsFirst, Logged, Dispatched
  <2> QED
    BY <1>1, <2>2, <2>3, <2>4, <2>5 DEF PInv
<1> QED
  BY <1>2, <1>3

(* What it says of the properties.                                          *)
LEMMA PInvTypes ==
  ASSUME PInv
  PROVE  PipelineTypeOK
<1>1. PTypes /\ MemoryOnly
  BY DEF PInv
<1>2. Range(chain) \subseteq Txs /\ Range(seen) \subseteq Txs
  BY <1>1 DEF PTypes, Range
<1>3. ASSUME NEW t \in Txs
      PROVE  \A n \in Range(<<rows[t].live, rows[t].scan, rows[t].failed>>) : n \in Nat
  <2>1. rows[t].live \in Nat /\ rows[t].scan \in Nat /\ rows[t].failed \in Nat
    BY <1>1 DEF PTypes, RowType
  <2> QED
    BY <2>1 DEF Range
<1>4. ~redis => Len(seen) <= MaxHashCache /\ cache = NoCache
  BY <1>1 DEF MemoryOnly
<1> QED
  BY <1>1, <1>2, <1>3, <1>4 DEF PTypes, PipelineTypeOK

LEMMA PInvDuplicates ==
  ASSUME PInv
  PROVE  DuplicatesExplained
<1> SUFFICES ASSUME NEW t \in Txs
             PROVE  rows[t].live <= 1 + past.overlap[t] + past.forgot[t]
  BY DEF DuplicatesExplained
<1>1. PTypes /\ Explained(rows, past, seen, run, t)
  BY DEF PInv
<1>2. Cardinality(LiveLeft(run, t)) \in Nat
  BY <1>1, InstanceFacts, LiveLeftType DEF PTypes
<1>3. rows[t].live \in Nat /\ past.overlap[t] \in Nat /\ past.forgot[t] \in Nat
  BY <1>1 DEF PTypes, RowType, PastType
<1> QED
  BY <1>1, <1>2, <1>3 DEF Explained, Flag

LEMMA PInvRecovery ==
  ASSUME PInv
  PROVE  RecoveryReachesLost
<1> SUFFICES ASSUME NEW t \in Range(scan.list),
                    ~Contains(scan.left, t), run[0][t] = << >>, t \notin scan.missed
             PROVE  rows[t].live + rows[t].scan + rows[t].failed > 0
  BY DEF RecoveryReachesLost
<1>1. scan.list \in Seq(Txs)
  BY DEF PInv, PTypes, ScanType
<1>2. t \in Txs /\ Contains(scan.list, t)
  BY <1>1 DEF Range, Contains
<1>3. First(run[0][t]) # "log"
  BY DEF First
<1> QED
  BY <1>2, <1>3 DEF PInv, Reached

LEMMA PInvCache ==
  ASSUME PInv
  PROVE  CacheFollowsActivity
<1>1. Owed(run) => \E s \in Sources, t \in Txs : Contains(run[s][t], "del")
  BY DEF Owed, Owes, Has, Contains
<1> QED
  BY <1>1 DEF PInv, BoardFollows, Follows, CacheFollowsActivity, CachedXp

LEMMA PInvEffects ==
  ASSUME PInv
  PROVE  EffectsAreLogged
<1> DEFINE e == CreditXp(inst.kind, rows, run)
           f == [t \in Txs |-> XpOf(inst.kind[t]) * Dispatched(t)]
           g == CreditCourses(rows, run)
           h == [t \in Txs |-> Dispatched(t)]
<1>1. /\ e \in [Txs -> Int] /\ g \in [Txs -> Int]
      /\ \A t \in Txs : /\ e[t] = XpOf(inst.kind[t]) * Credit(rows, run, t)
                        /\ g[t] = Credit(rows, run, t)
      /\ SumFunctionOnSet(e, Txs) \in Int /\ SumFunctionOnSet(g, Txs) \in Int
  BY CreditSums DEF PInv
<1>2. ASSUME NEW t \in Txs
      PROVE  /\ XpOf(inst.kind[t]) * Dispatched(t) \in Int /\ Dispatched(t) \in Int
             /\ XpOf(inst.kind[t]) * Credit(rows, run, t) <= XpOf(inst.kind[t]) * Dispatched(t)
             /\ Credit(rows, run, t) <= Dispatched(t)
  <2>1. /\ Credit(rows, run, t) \in Int /\ Dispatched(t) \in Int
        /\ Credit(rows, run, t) <= Dispatched(t) /\ XpOf(inst.kind[t]) \in {1, 2}
    BY CreditTypes DEF PInv
  <2> HIDE DEF Credit, Dispatched, XpOf
  <2> QED
    BY <2>1, Scaled
<1>3. /\ f \in [Txs -> Int] /\ h \in [Txs -> Int]
      /\ \A t \in Txs : f[t] = XpOf(inst.kind[t]) * Dispatched(t) /\ h[t] = Dispatched(t)
  BY <1>2
<1> HIDE DEF e, f, g, h
<1>4. \A t \in Txs : e[t] <= f[t] /\ g[t] <= h[t]
  BY <1>1, <1>2, <1>3
<1>5. IsFiniteSet(Txs)
  BY PipelineAssumption
<1>6. /\ SumFunctionOnSet(e, Txs) <= SumFunctionOnSet(f, Txs)
      /\ SumFunctionOnSet(g, Txs) <= SumFunctionOnSet(h, Txs)
  BY <1>1, <1>3, <1>4, <1>5, SumMonotone
<1>7. SumFunctionOnSet(f, Txs) \in Int /\ SumFunctionOnSet(h, Txs) \in Int
  BY <1>3, <1>5, SumType
<1>8. /\ xp <= past.direct.xp + SumFunctionOnSet(f, Txs)
      /\ courses <= past.direct.courses + SumFunctionOnSet(h, Txs)
  <2>1. /\ xp <= past.direct.xp + SumFunctionOnSet(e, Txs)
        /\ courses <= past.direct.courses + SumFunctionOnSet(g, Txs)
    BY DEF PInv, Logged, e, g
  <2>2. xp \in Nat /\ courses \in Nat /\ past.direct.xp \in Nat /\ past.direct.courses \in Nat
    BY DEF PInv, PTypes, PastType, DirectType
  <2> QED
    BY <1>1, <1>6, <1>7, <2>1, <2>2
<1>9. \A m \in Milestones \cap achievements :
        \/ m <= courses \/ m \in past.direct.badges
        \/ \E t \in Txs : inst.names[t] = m /\ Dispatched(t) > 0
  BY DEF PInv, Logged
<1> QED
  BY <1>8, <1>9 DEF EffectsAreLogged, f, h

LEMMA PInvAlways == PipelineSpec => []PInv
<1>1. Init => PInv
  BY PInvInit
<1>2. PInv /\ [PipelineNext]_vars => PInv'
  BY PInvStep
<1> QED
  BY <1>1, <1>2, PTL DEF PipelineSpec

(* The listener's variables keep their types whatever is delivered, lost or *)
(* restarted: a hash is kept once and, in memory, at most MAX_HASH_CACHE of *)
(* them (trackTxHash), and a listener that says it listens is subscribed.   *)
THEOREM PipelineTyped == PipelineSpec => []PipelineTypeOK
<1>1. PInv => PipelineTypeOK
  BY PInvTypes
<1> QED
  BY <1>1, PInvAlways, PTL

(* However often startEventListener and stopEventListener are called, the   *)
(* live stream writes no second event_logs row of a transaction but for a   *)
(* hash forgotten in between, or two Redis checks that overlapped.          *)
THEOREM DuplicatesHaveAReason == PipelineSpec => []DuplicatesExplained
<1>1. PInv => DuplicatesExplained
  BY PInvDuplicates
<1> QED
  BY <1>1, PInvAlways, PTL

(* What recoverMissedEvents has visited has a row in event_logs, unless     *)
(* getTransaction failed on it or found no logs, or the database refused    *)
(* the row of its failure.                                                  *)
THEOREM RecoveryReaches == PipelineSpec => []RecoveryReachesLost
<1>1. PInv => RecoveryReachesLost
  BY PInvRecovery
<1> QED
  BY <1>1, PInvAlways, PTL

(* The cached leaderboard shows no XP the learner has not had (a purge      *)
(* leaves it); what it lacks was added by the streak routes since its       *)
(* query, is owed a deletion by a handler in flight, or a refresh wrote     *)
(* late or a fault came before.                                             *)
THEOREM CacheFollows == PipelineSpec => []CacheFollowsActivity
<1>1. PInv => CacheFollowsActivity
  BY PInvCache
<1> QED
  BY <1>1, PInvAlways, PTL

(* The XP and the courses of streak_activity are what the streak routes     *)
(* added, without an event, and what the rows of event_logs pay for; a      *)
(* milestone is covered by the courses, was claimed by its owner, or has    *)
(* its award in event_logs.  For every set of transactions.                 *)
THEOREM EffectsLogged == PipelineSpec => []EffectsAreLogged
<1>1. PInv => EffectsAreLogged
  BY PInvEffects
<1> QED
  BY <1>1, PInvAlways, PTL
=============================================================================
