---------------------------- MODULE QueueProofs ----------------------------
(***************************************************************************)
(* The job queue for any jobs, loops, attempts, limits and faults: types,   *)
(* a single loop in memory, a job for every loop with Redis, jobs that are  *)
(* neither lost nor doubled without a cause, work that is done once and     *)
(* attempts that have an end.                                               *)
(***************************************************************************)
EXTENDS JobQueue, Counting, SequenceTheorems

(* What is left of a list without its k-th entry. *)
LEMMA RemoveAtProperties ==
  ASSUME NEW S, NEW s \in Seq(S), NEW k \in 1..Len(s)
  PROVE  /\ RemoveAt(s, k) \in Seq(S)
         /\ Len(RemoveAt(s, k)) = Len(s) - 1
         /\ \A i \in 1..(Len(s) - 1) : RemoveAt(s, k)[i] = s[IF i < k THEN i ELSE i + 1]
<1>1. /\ SubSeq(s, 1, k - 1) \in Seq(S) /\ Len(SubSeq(s, 1, k - 1)) = k - 1
      /\ \A i \in 1..(k - 1) : SubSeq(s, 1, k - 1)[i] = s[i]
  BY SubSeqProperties, ElementOfSeq, LenProperties
<1>2. /\ SubSeq(s, k + 1, Len(s)) \in Seq(S) /\ Len(SubSeq(s, k + 1, Len(s))) = Len(s) - k
      /\ \A i \in 1..(Len(s) - k) : SubSeq(s, k + 1, Len(s))[i] = s[k + i]
  BY SubSeqProperties, ElementOfSeq, LenProperties
<1>3. Len(s) \in Nat
  BY LenProperties
<1>4. /\ RemoveAt(s, k) \in Seq(S)
      /\ Len(RemoveAt(s, k)) = Len(s) - 1
      /\ \A i \in 1..(Len(s) - 1) : RemoveAt(s, k)[i] =
           IF i <= k - 1 THEN SubSeq(s, 1, k - 1)[i] ELSE SubSeq(s, k + 1, Len(s))[i - (k - 1)]
  <2> DEFINE a == SubSeq(s, 1, k - 1)
             b == SubSeq(s, k + 1, Len(s))
  <2>1. /\ a \o b \in Seq(S) /\ Len(a \o b) = Len(a) + Len(b)
        /\ \A i \in 1..(Len(a) + Len(b)) : (a \o b)[i] = IF i <= Len(a) THEN a[i] ELSE b[i - Len(a)]
    <3> HIDE DEF a, b
    <3>1. a \in Seq(S) /\ b \in Seq(S)
      BY <1>1, <1>2 DEF a, b
    <3> QED
      BY <3>1, ConcatProperties, Zenon
  <2>2. Len(a) = k - 1 /\ Len(b) = Len(s) - k
    BY <1>1, <1>2
  <2>3. RemoveAt(s, k) = a \o b
    BY DEF RemoveAt
  <2> HIDE DEF a, b
  <2>4. Len(a) + Len(b) = Len(s) - 1
    BY <1>3, <2>2
  <2> QED
    BY <2>1, <2>2, <2>3, <2>4 DEF a, b
<1>5. ASSUME NEW i \in 1..(Len(s) - 1)
      PROVE  RemoveAt(s, k)[i] = s[IF i < k THEN i ELSE i + 1]
  <2>1. CASE i < k
    BY <1>1, <1>3, <1>4, <2>1
  <2>2. CASE i >= k
    <3>1. i - (k - 1) \in 1..(Len(s) - k) /\ k + (i - (k - 1)) = i + 1
      BY <1>3, <2>2
    <3> QED
      BY <1>2, <1>3, <1>4, <2>2, <3>1
  <2> QED
    BY <1>3, <2>1, <2>2
<1> QED
  BY <1>4, <1>5

LEMMA RemoveAtKeeps ==
  ASSUME NEW S, NEW s \in Seq(S), NEW k \in 1..Len(s)
  PROVE  RemoveAt(s, k) \in Seq(S) /\ Len(RemoveAt(s, k)) = Len(s) - 1
BY RemoveAtProperties

-----------------------------------------------------------------------------
(* How often the elements of a sequence lie in a set, and how that number   *)
(* changes with the sequence.                                               *)
Times(s, P) == Cardinality({i \in 1..Len(s) : s[i] \in P})

LEMMA TimesType ==
  ASSUME NEW S, NEW s \in Seq(S), NEW P
  PROVE  /\ IsFiniteSet(1..Len(s))
         /\ Times(s, P) \in Nat
         /\ (\E i \in 1..Len(s) : s[i] \in P) => Times(s, P) >= 1
<1>1. Len(s) \in Nat
  BY LenProperties
<1>2. IsFiniteSet(1..Len(s))
  BY <1>1, IntervalFinite
<1> DEFINE I == {i \in 1..Len(s) : s[i] \in P}
<1>3. IsFiniteSet(I)
  BY <1>2, FS_Subset
<1>4. Cardinality(I) \in Nat /\ (Cardinality(I) = 0 <=> I = {})
  BY <1>3, FS_CardinalityType, FS_EmptySet
<1> QED
  BY <1>2, <1>4 DEF Times

LEMMA AppendTimes ==
  ASSUME NEW S, NEW s \in Seq(S), NEW e \in S, NEW P
  PROVE  Times(Append(s, e), P) = Times(s, P) + Flag(e \in P)
<1> DEFINE n == Len(s)
           I == {i \in 1..n : s[i] \in P}
           J == {i \in 1..(n + 1) : Append(s, e)[i] \in P}
<1>1. n \in Nat /\ Len(Append(s, e)) = n + 1 /\ Append(s, e) \in Seq(S)
  BY LenProperties, AppendProperties
<1>2. /\ \A i \in 1..n : Append(s, e)[i] = s[i]
      /\ Append(s, e)[n + 1] = e
  BY AppendProperties
<1> HIDE DEF n
<1>3. IsFiniteSet(1..(n + 1))
  BY <1>1, IntervalFinite
<1>4. n + 1 \in 1..(n + 1) /\ n + 1 \notin I /\ (n + 1 \in J <=> e \in P)
  BY <1>1, <1>2
<1>5. \A v \in 1..(n + 1) : v # n + 1 => (v \in I <=> v \in J)
  BY <1>1, <1>2
<1>6. I \in SUBSET (1..(n + 1)) /\ J \in SUBSET (1..(n + 1))
  BY <1>1
<1>7. Cardinality(I) = Times(s, P) /\ Cardinality(J) = Times(Append(s, e), P)
  BY <1>1 DEF Times, n
<1> DEFINE D == 1..(n + 1)
           w == n + 1
<1>8. /\ IsFiniteSet(D) /\ w \in D
      /\ I \in SUBSET D /\ J \in SUBSET D
      /\ \A v \in D : v # w => (v \in I <=> v \in J)
      /\ w \notin I /\ (w \in J <=> e \in P)
  BY <1>3, <1>4, <1>5, <1>6
<1> HIDE DEF I, J, D, w
<1>9. /\ Cardinality(I) \in Nat
      /\ Cardinality(J) = Cardinality(I) - Flag(w \in I) + Flag(w \in J)
  BY <1>8, OneMoves
<1> QED
  BY <1>7, <1>8, <1>9 DEF Flag

LEMMA RemoveTimes ==
  ASSUME NEW S, NEW s \in Seq(S), NEW k \in 1..Len(s), NEW P
  PROVE  Times(RemoveAt(s, k), P) = Times(s, P) - Flag(s[k] \in P)
<1> DEFINE n == Len(s)
           I == {i \in 1..n : s[i] \in P}
<1>1. n \in Nat /\ IsFiniteSet(1..n)
  BY LenProperties, TimesType
<1>2. /\ Len(RemoveAt(s, k)) = n - 1
      /\ \A i \in 1..(n - 1) : RemoveAt(s, k)[i] = s[IF i < k THEN i ELSE i + 1]
  BY RemoveAtProperties
<1>3. Times(RemoveAt(s, k), P) = Cardinality({i \in 1..(n - 1) : (IF i < k THEN i ELSE i + 1) \in I})
  <2>1. ASSUME NEW i \in 1..(n - 1)
        PROVE  (IF i < k THEN i ELSE i + 1) \in 1..n
    BY <1>1
  <2>2. {i \in 1..(n - 1) : RemoveAt(s, k)[i] \in P}
          = {i \in 1..(n - 1) : (IF i < k THEN i ELSE i + 1) \in I}
    BY <1>2, <2>1
  <2> QED
    BY <1>2, <2>2 DEF Times
<1>4. I \in SUBSET (1..n) /\ k \in 1..n /\ (k \in I <=> s[k] \in P) /\ Times(s, P) = Cardinality(I)
  BY DEF Times
<1> HIDE DEF n, I
<1>5. Times(RemoveAt(s, k), P) = Cardinality(I \ {k})
  BY <1>1, <1>3, <1>4, CountWithout
<1>6. IsFiniteSet(I) /\ Cardinality(I) \in Nat
  BY <1>1, <1>4, FS_Subset, FS_CardinalityType
<1>7. Cardinality(I \ {k}) = IF k \in I THEN Cardinality(I) - 1 ELSE Cardinality(I)
  BY <1>6, FS_RemoveElement
<1> QED
  BY <1>4, <1>5, <1>6, <1>7 DEF Flag

LEMMA TailTimes ==
  ASSUME NEW S, NEW s \in Seq(S), s # << >>, NEW P
  PROVE  Times(Tail(s), P) = Times(s, P) - Flag(Head(s) \in P)
<1>1. Len(s) \in Nat \ {0} /\ 1 \in 1..Len(s) /\ Head(s) = s[1]
  BY EmptySeq, LenProperties
<1>2. /\ Len(Tail(s)) = Len(s) - 1
      /\ \A i \in 1..(Len(s) - 1) : Tail(s)[i] = s[i + 1]
  BY HeadTailProperties
<1>3. /\ Len(RemoveAt(s, 1)) = Len(s) - 1
      /\ \A i \in 1..(Len(s) - 1) : RemoveAt(s, 1)[i] = s[IF i < 1 THEN i ELSE i + 1]
  BY <1>1, RemoveAtProperties
<1>4. \A i \in 1..(Len(s) - 1) : RemoveAt(s, 1)[i] = Tail(s)[i]
  BY <1>1, <1>2, <1>3
<1>5. Times(Tail(s), P) = Times(RemoveAt(s, 1), P)
  <2>1. {i \in 1..(Len(s) - 1) : Tail(s)[i] \in P} = {i \in 1..(Len(s) - 1) : RemoveAt(s, 1)[i] \in P}
    BY <1>4
  <2> QED
    BY <1>2, <1>3, <2>1 DEF Times
<1> QED
  BY <1>1, <1>5, RemoveTimes

LEMMA ReplaceTimes ==
  ASSUME NEW S, NEW s \in Seq(S), NEW k \in 1..Len(s), NEW e \in S, NEW P, e \in P <=> s[k] \in P
  PROVE  Times(ReplaceAt(s, k, e), P) = Times(s, P)
<1>1. /\ Len([s EXCEPT ![k] = e]) = Len(s)
      /\ \A j \in 1..Len(s) : [s EXCEPT ![k] = e][j] = IF j = k THEN e ELSE s[j]
  BY ExceptSeq
<1>2. {j \in 1..Len(s) : [s EXCEPT ![k] = e][j] \in P} = {j \in 1..Len(s) : s[j] \in P}
  BY <1>1
<1> QED
  BY <1>1, <1>2 DEF Times, ReplaceAt

-----------------------------------------------------------------------------
(* The inductive invariant. *)

(* A job that waits has an attempt left. *)
Waiting == [id : Jobs, attempts : 0..(DefaultAttempts - 1), late : BOOLEAN]
Holding == {"parse", "run", "bury"}
LoopType == [pc : {"idle", "len", "pop"} \cup Holding, job : JobType \cup {None}]
TallyType == [buried : Nat, trimmed : Nat, dropped : Nat, lost : Nat]

QueueTypes ==
  /\ redis \in BOOLEAN /\ processing \in BOOLEAN /\ died \in BOOLEAN
  /\ queue \in Seq(Waiting)
  /\ dead \in Seq(EntryType) /\ Len(dead) <= MaxDeadLetter
  /\ callers \in [Jobs -> {"new", "pushed", "returned"}]
  /\ timers \in Nat /\ faults \in Nat /\ retried \in Nat
  /\ registered \subseteq Jobs
  /\ done \in [Jobs -> Nat] /\ tried \in [Jobs -> Nat] /\ revived \in [Jobs -> Nat]
  /\ tally \in [Jobs -> TallyType]

(* A loop holds a job exactly while it works on one. *)
Standing ==
  {r \in LoopType :
     /\ r.pc \in Holding => r.job \in JobType
     /\ r.pc \notin Holding => r.job = None}

LoopTypes == loops \in [Loops -> Standing]

(* With Redis no timer is set; in memory nothing waits for Redis, no loop   *)
(* dies and no job is dropped.                                              *)
LoopsApart ==
  \A w \in Loops : loops[w].pc \in {"idle"} \cup IF redis THEN {"len", "pop", "parse"} ELSE {"run", "bury"}
RestApart ==
  /\ redis => timers = 0
  /\ ~redis => /\ ~died
               /\ \A j \in Jobs : callers[j] # "pushed" /\ tally[j].dropped = 0

Types == QueueTypes /\ LoopTypes /\ LoopsApart /\ RestApart

Active == {w \in Loops : loops[w].pc # "idle"}

(* In memory the loop that works is the only one, and isProcessing says     *)
(* whether there is one.                                                    *)
AloneInMemory ==
  ~redis =>
    /\ \A v, w \in Active : v = w
    /\ processing <=> Active # {}
    /\ ~processing /\ queue # << >> => timers > 0

-----------------------------------------------------------------------------
(* What the model's operators mean. *)

JobOf(j) == {x \in JobType : x.id = j}
EntryOf(j) == {x \in EntryType : x.job.id = j}

LEMMA JobFacts ==
  /\ Waiting \subseteq JobType
  /\ None \notin JobType /\ None.id \notin Jobs
  /\ \A job \in JobType : /\ job.id \in Jobs /\ job.attempts \in 0..DefaultAttempts
                          /\ Reset(job) \in Waiting /\ Reset(job).id = job.id /\ Reset(job).attempts = 0
  /\ \A j \in Jobs : NewJob(j) \in Waiting /\ NewJob(j).id = j /\ NewJob(j).attempts = 0
  /\ \A job \in Waiting : /\ Started(job) \in JobType /\ Started(job).id = job.id
                          /\ Started(job).attempts = job.attempts + 1
  /\ \A job \in JobType : ~Exhausted(job) =>
       Late(job) \in Waiting /\ Late(job).id = job.id /\ Late(job).attempts = job.attempts
<1>1. DefaultAttempts \in Nat \ {0} /\ NoJob \notin Jobs
  BY QueueAssumption
<1>2. Waiting \subseteq JobType
  BY <1>1 DEF Waiting, JobType
<1>3. None \notin JobType /\ None.id \notin Jobs
  BY <1>1 DEF None, JobType
<1>4. \A job \in JobType : /\ job.id \in Jobs /\ job.attempts \in 0..DefaultAttempts
                           /\ Reset(job) \in Waiting /\ Reset(job).id = job.id /\ Reset(job).attempts = 0
  BY <1>1 DEF Waiting, JobType, Reset
<1>5. \A j \in Jobs : NewJob(j) \in Waiting /\ NewJob(j).id = j /\ NewJob(j).attempts = 0
  BY <1>1 DEF Waiting, NewJob
<1>6. \A job \in Waiting : /\ Started(job) \in JobType /\ Started(job).id = job.id
                           /\ Started(job).attempts = job.attempts + 1
  BY <1>1 DEF Waiting, JobType, Started
<1>7. \A job \in JobType : ~Exhausted(job) =>
        Late(job) \in Waiting /\ Late(job).id = job.id /\ Late(job).attempts = job.attempts
  <2> SUFFICES ASSUME NEW job \in JobType, ~Exhausted(job)
               PROVE  Late(job) \in Waiting /\ Late(job).id = job.id /\ Late(job).attempts = job.attempts
    OBVIOUS
  <2>1. job.attempts \in 0..(DefaultAttempts - 1) /\ job.id \in Jobs
    BY <1>1 DEF JobType, Exhausted
  <2> QED
    BY <2>1 DEF Waiting, JobType, Late
<1> QED
  BY <1>2, <1>3, <1>4, <1>5, <1>6, <1>7

LEMMA StandingFacts ==
  /\ [pc |-> "idle", job |-> None] \in Standing
  /\ [pc |-> "len", job |-> None] \in Standing
  /\ [pc |-> "pop", job |-> None] \in Standing
  /\ \A job \in JobType : /\ [pc |-> "run", job |-> job] \in Standing
                          /\ [pc |-> "parse", job |-> job] \in Standing
                          /\ [pc |-> "bury", job |-> job] \in Standing
  /\ \A r \in Standing : /\ r.pc \in Holding => r.job \in JobType
                         /\ r.pc \notin Holding => r.job = None
BY JobFacts DEF Standing, LoopType, Holding

LEMMA ReadyFirst ==
  ASSUME NEW q \in Seq(Waiting), {i \in 1..Len(q) : ~q[i].late} # {}
  PROVE  Min({i \in 1..Len(q) : ~q[i].late}) \in 1..Len(q)
<1> DEFINE T == {i \in 1..Len(q) : ~q[i].late}
<1>1. T \subseteq Nat /\ T # {}
  BY LenProperties
<1> HIDE DEF T
<1>2. \E m \in T : \A k \in T : m <= k
  BY <1>1, LeastNumber
<1>3. Min(T) \in T
  BY <1>2 DEF Min
<1> QED
  BY <1>3 DEF T

(* Where a loop stands once it has taken the job x: the processor is called *)
(* once more, or the job has none.                                          *)
Took(x, r) ==
  \/ /\ r = [pc |-> "run", job |-> Started(x)]
     /\ x.id \in registered
     /\ tried' = [tried EXCEPT ![x.id] = @ + 1]
  \/ /\ r = [pc |-> "bury", job |-> x]
     /\ x.id \notin registered
     /\ tried' = tried

LEMMA TakeMeans ==
  ASSUME tried \in [Jobs -> Nat], NEW w \in Loops, NEW x \in Waiting, Take(w, x)
  PROVE  \E r \in Standing : /\ loops' = [loops EXCEPT ![w] = r]
                             /\ r.pc \in {"run", "bury"} /\ r.job.id = x.id
                             /\ tried' \in [Jobs -> Nat] /\ Took(x, r)
<1>0. x.id \in Jobs /\ x \in JobType
  BY JobFacts
<1>1. CASE x.id \in registered /\ At(w, "run", Started(x)) /\ tried' = [tried EXCEPT ![x.id] = @ + 1]
  <2> DEFINE r == [pc |-> "run", job |-> Started(x)]
  <2>1. loops' = [loops EXCEPT ![w] = r]
    BY <1>1 DEF At
  <2>2. r \in Standing /\ r.job.id = x.id /\ r.pc = "run"
    BY JobFacts, StandingFacts
  <2>3. tried' \in [Jobs -> Nat]
    BY <1>0, <1>1
  <2>4. Took(x, r)
    BY <1>1 DEF Took
  <2> QED
    BY <2>1, <2>2, <2>3, <2>4
<1>2. CASE x.id \notin registered /\ At(w, "bury", x) /\ UNCHANGED tried
  <2> DEFINE r == [pc |-> "bury", job |-> x]
  <2>1. loops' = [loops EXCEPT ![w] = r]
    BY <1>2 DEF At
  <2>2. r \in Standing /\ r.job.id = x.id /\ r.pc = "bury"
    BY <1>0, StandingFacts
  <2>3. Took(x, r)
    BY <1>2 DEF Took
  <2> QED
    BY <1>2, <2>1, <2>2, <2>3
<1> QED
  BY <1>1, <1>2 DEF Take

(* processNext called with the list q and n timers: the loop ends up at r,  *)
(* and a job leaves the list exactly when the loop takes it in hand.        *)
Called(w, q, n, r) ==
  /\ loops' = [loops EXCEPT ![w] = r]
  /\ queue' \in Seq(Waiting) /\ timers' \in Nat /\ tried' \in [Jobs -> Nat]
  /\ redis => r.pc = "len" /\ processing' = processing /\ queue' = q /\ timers' = n
  /\ ~redis => /\ r.pc \in {"idle", "run", "bury"}
               /\ processing' = (r.pc # "idle")
               /\ r.pc = "idle" /\ queue' # << >> => timers' > 0
  /\ \A j \in Jobs : /\ Times(queue', JobOf(j)) \in Nat
                     /\ Times(queue', JobOf(j)) + Flag(r.job.id = j) = Times(q, JobOf(j))

(* The jobs that are left are those of q, and the one in hand was in q.     *)
Chosen(q, r) ==
  /\ \A k \in 1..Len(queue') : \E i \in 1..Len(q) : queue'[k] = q[i]
  /\ r.pc \in {"run", "bury"} => \E i \in 1..Len(q) : Took(q[i], r)
  /\ r.pc \notin {"run", "bury"} => tried' = tried

LEMMA ProcessNextMeans ==
  ASSUME tried \in [Jobs -> Nat], NEW w \in Loops, NEW q \in Seq(Waiting), NEW n \in Nat, ProcessNext(w, q, n)
  PROVE  \E r \in Standing : Called(w, q, n, r) /\ Chosen(q, r)
<1>0. q \in Seq(JobType) /\ \A j \in Jobs : Times(q, JobOf(j)) \in Nat
  BY JobFacts, SeqMonotonic, TimesType
<1>1. CASE CallWithRedis(w, q, n)
  <2> DEFINE r == [pc |-> "len", job |-> None]
  <2>1. r \in Standing /\ \A j \in Jobs : Flag(r.job.id = j) = 0
    BY StandingFacts, JobFacts DEF Flag
  <2>2. redis /\ queue' = q /\ timers' = n /\ loops' = [loops EXCEPT ![w] = r] /\ UNCHANGED <<processing, tried>>
    BY <1>1 DEF CallWithRedis, At
  <2>3. Called(w, q, n, r)
    BY <1>0, <2>1, <2>2 DEF Called
  <2>4. Chosen(q, r)
    BY <2>2 DEF Chosen
  <2> QED
    BY <2>1, <2>3, <2>4
<1>2. CASE CallInMemory(w, q, n)
  <2> DEFINE ready == {i \in 1..Len(q) : ~q[i].late}
  <2>1. CASE ready = {}
    <3> DEFINE r == [pc |-> "idle", job |-> None]
    <3>1. r \in Standing /\ \A j \in Jobs : Flag(r.job.id = j) = 0
      BY StandingFacts, JobFacts DEF Flag
    <3>2. /\ ~redis /\ queue' = q /\ timers' = (IF q = << >> THEN n ELSE n + 1)
          /\ loops' = [loops EXCEPT ![w] = r] /\ processing' = FALSE /\ tried' = tried
      BY <1>2, <2>1 DEF CallInMemory, LoopEnds, At
    <3>3. r.pc = "idle" /\ timers' \in Nat /\ (queue' # << >> => timers' > 0)
      BY <3>2
    <3> HIDE DEF r
    <3>4. processing' = (r.pc # "idle")
      BY <3>2, <3>3
    <3>5. \A j \in Jobs : /\ Times(queue', JobOf(j)) \in Nat
                           /\ Times(queue', JobOf(j)) + Flag(r.job.id = j) = Times(q, JobOf(j))
      BY <1>0, <3>1, <3>2
    <3>6. Called(w, q, n, r)
      BY <3>2, <3>3, <3>4, <3>5 DEF Called
    <3>7. Chosen(q, r)
      BY <3>2, <3>3 DEF Chosen
    <3> QED
      BY <3>1, <3>6, <3>7
  <2>2. CASE ready # {}
    <3> DEFINE m == Min(ready)
    <3>1. m \in 1..Len(q)
      BY <2>2, ReadyFirst
    <3>2. ~redis /\ queue' = RemoveAt(q, m) /\ timers' = n /\ processing' = TRUE /\ Take(w, q[m])
      BY <1>2, <2>2 DEF CallInMemory
    <3> HIDE DEF m, ready
    <3>3. q[m] \in Waiting /\ q[m] \in JobType
      BY <3>1, JobFacts, ElementOfSeq
    <3>4. PICK r \in Standing : /\ loops' = [loops EXCEPT ![w] = r]
                                /\ r.pc \in {"run", "bury"} /\ r.job.id = q[m].id
                                /\ tried' \in [Jobs -> Nat] /\ Took(q[m], r)
      BY <3>2, <3>3, TakeMeans
    <3>5. /\ queue' \in Seq(Waiting) /\ Len(queue') = Len(q) - 1 /\ Len(q) \in Nat
          /\ \A k \in 1..(Len(q) - 1) : queue'[k] = q[IF k < m THEN k ELSE k + 1]
      BY <3>1, <3>2, RemoveAtProperties, LenProperties
    <3>6. ASSUME NEW j \in Jobs
          PROVE  /\ Times(queue', JobOf(j)) \in Nat
                 /\ Times(queue', JobOf(j)) + Flag(r.job.id = j) = Times(q, JobOf(j))
      <4>1. Times(queue', JobOf(j)) = Times(q, JobOf(j)) - Flag(q[m] \in JobOf(j))
        BY <1>0, <3>1, <3>2, RemoveTimes
      <4>2. q[m] \in JobOf(j) <=> r.job.id = j
        BY <3>3, <3>4 DEF JobOf
      <4>3. Times(queue', JobOf(j)) \in Nat
        BY <3>5, TimesType
      <4> QED
        BY <1>0, <4>1, <4>2, <4>3 DEF Flag
    <3>7. Called(w, q, n, r)
      BY <3>2, <3>4, <3>5, <3>6 DEF Called
    <3>8. Chosen(q, r)
      <4>1. ASSUME NEW k \in 1..Len(queue')
            PROVE  \E i \in 1..Len(q) : queue'[k] = q[i]
        <5>1. (IF k < m THEN k ELSE k + 1) \in 1..Len(q)
          BY <3>5
        <5> QED
          BY <3>5, <5>1
      <4> QED
        BY <3>1, <3>4, <4>1 DEF Chosen
    <3> QED
      BY <3>7, <3>8
  <2> QED
    BY <2>1, <2>2
<1> QED
  BY <1>1, <1>2 DEF ProcessNext

(* if (!isProcessing) processNext(): either nothing starts, or an idle loop *)
(* is called.                                                               *)
MayBegin(q, n) ==
  \/ queue' = q /\ timers' = n /\ processing /\ UNCHANGED <<processing, loops, tried>>
  \/ ~processing /\ \E w \in Loops, r \in Standing : loops[w].pc = "idle" /\ Called(w, q, n, r) /\ Chosen(q, r)

LEMMA StartMeans ==
  ASSUME tried \in [Jobs -> Nat], NEW q \in Seq(Waiting), NEW n \in Nat, StartUnlessProcessing(q, n)
  PROVE  MayBegin(q, n)
BY ProcessNextMeans DEF StartUnlessProcessing, MayStart, MayBegin

-----------------------------------------------------------------------------
(* Counts of the jobs in hand and in the lists. *)

Hands(L, j) == Cardinality({w \in Loops : L[w].job.id = j})

LEMMA ListsAre ==
  ASSUME NEW q \in Seq(Waiting), NEW d \in Seq(EntryType), NEW j \in Jobs
  PROVE  /\ Cardinality({i \in 1..Len(q) : q[i].id = j}) = Times(q, JobOf(j))
         /\ Cardinality({i \in 1..Len(d) : d[i].job.id = j}) = Times(d, EntryOf(j))
         /\ Times(q, JobOf(j)) \in Nat /\ Times(d, EntryOf(j)) \in Nat
<1>1. \A i \in 1..Len(q) : q[i] \in JobOf(j) <=> q[i].id = j
  BY ElementOfSeq, JobFacts DEF JobOf
<1>2. \A i \in 1..Len(d) : d[i] \in EntryOf(j) <=> d[i].job.id = j
  BY ElementOfSeq DEF EntryOf
<1>3. {i \in 1..Len(q) : q[i] \in JobOf(j)} = {i \in 1..Len(q) : q[i].id = j}
  BY <1>1
<1>4. {i \in 1..Len(d) : d[i] \in EntryOf(j)} = {i \in 1..Len(d) : d[i].job.id = j}
  BY <1>2
<1>5. Times(q, JobOf(j)) \in Nat /\ Times(d, EntryOf(j)) \in Nat
  BY TimesType
<1> QED
  BY <1>3, <1>4, <1>5 DEF Times

LEMMA HandsAre == \A L, j : Hands(L, j) \in Nat
BY QueueAssumption, FS_Subset, FS_CardinalityType DEF Hands

LEMMA CountsAre ==
  ASSUME QueueTypes
  PROVE  \A j \in Jobs : /\ InHand(j) = Hands(loops, j) /\ Hands(loops, j) \in Nat
                         /\ Listed(j) = Times(queue, JobOf(j)) + Times(dead, EntryOf(j))
                         /\ Times(queue, JobOf(j)) \in Nat /\ Times(dead, EntryOf(j)) \in Nat
<1> SUFFICES ASSUME NEW j \in Jobs
             PROVE  /\ InHand(j) = Hands(loops, j) /\ Hands(loops, j) \in Nat
                    /\ Listed(j) = Times(queue, JobOf(j)) + Times(dead, EntryOf(j))
                    /\ Times(queue, JobOf(j)) \in Nat /\ Times(dead, EntryOf(j)) \in Nat
  OBVIOUS
<1>1. InHand(j) = Hands(loops, j) /\ Hands(loops, j) \in Nat
  BY HandsAre DEF InHand, Hands
<1>2. queue \in Seq(Waiting) /\ dead \in Seq(EntryType)
  BY DEF QueueTypes
<1>3. Listed(j) = Cardinality({i \in 1..Len(queue) : queue[i].id = j})
                    + Cardinality({i \in 1..Len(dead) : dead[i].job.id = j})
  BY DEF Listed
<1> QED
  BY <1>1, <1>2, <1>3, ListsAre

(* The tally counts one more at one job, or what a restart forgets.         *)
LEMMA DroppedCounts ==
  ASSUME tally \in [Jobs -> TallyType], NEW job \in JobType, Drop(job)
  PROVE  /\ tally' \in [Jobs -> TallyType]
         /\ \A j \in Jobs :
              /\ tally'[j].trimmed = tally[j].trimmed /\ tally'[j].lost = tally[j].lost
              /\ tally'[j].dropped = tally[j].dropped + Flag(job.id = j)
<1> DEFINE x == job.id
           u == [tally[x] EXCEPT !.dropped = tally[x].dropped + 1]
<1>0. x \in Jobs /\ tally' = [tally EXCEPT ![x].dropped = @ + 1]
  BY JobFacts DEF Drop
<1>1. tally[x] \in TallyType /\ tally' = [tally EXCEPT ![x] = u]
  BY <1>0
<1>2. /\ u \in TallyType /\ u.trimmed = tally[x].trimmed
      /\ u.lost = tally[x].lost /\ u.dropped = tally[x].dropped + 1
  BY <1>1 DEF TallyType
<1> HIDE DEF u
<1>3. \A j \in Jobs : tally'[j] = IF j = x THEN u ELSE tally[j]
  BY <1>1
<1>4. \A j \in Jobs : tally[j].dropped \in Nat
  BY DEF TallyType
<1>5. tally' \in [Jobs -> TallyType]
  BY <1>0, <1>1, <1>2
<1> QED
  BY <1>2, <1>3, <1>4, <1>5 DEF Flag

LEMMA RestartCounts ==
  ASSUME QueueTypes, Restart
  PROVE  /\ tally' \in [Jobs -> TallyType]
         /\ \A j \in Jobs :
              /\ tally'[j].trimmed = tally[j].trimmed /\ tally'[j].dropped = tally[j].dropped
              /\ tally'[j].lost = tally[j].lost + InHand(j) + IF redis THEN 0 ELSE Listed(j)
<1> DEFINE n(j) == tally[j].lost + InHand(j) + IF redis THEN 0 ELSE Listed(j)
           new(j) == [tally[j] EXCEPT !.lost = n(j)]
<1>1. tally' = [j \in Jobs |-> new(j)]
  BY DEF Restart
<1>2. \A t \in TallyType : \A k \in Nat :
        LET u == [t EXCEPT !.lost = k]
        IN  u \in TallyType /\ u.trimmed = t.trimmed /\ u.dropped = t.dropped /\ u.lost = k
  BY DEF TallyType
<1>3. ASSUME NEW j \in Jobs
      PROVE  /\ new(j) \in TallyType
             /\ new(j).trimmed = tally[j].trimmed /\ new(j).dropped = tally[j].dropped
             /\ new(j).lost = n(j)
  <2>1. tally[j] \in TallyType /\ tally[j].lost \in Nat /\ InHand(j) \in Nat /\ Listed(j) \in Nat
    <3>1. tally[j] \in TallyType
      BY DEF QueueTypes
    <3>2. InHand(j) \in Nat /\ Listed(j) \in Nat
      BY CountsAre
    <3> QED
      BY <3>1, <3>2 DEF TallyType
  <2>2. n(j) \in Nat
    BY <2>1
  <2> HIDE DEF n
  <2> QED
    BY <1>2, <2>1, <2>2
<1> HIDE DEF n, new
<1>4. \A j \in Jobs : tally'[j] = new(j)
  BY <1>1
<1>5. tally' \in [Jobs -> TallyType]
  BY <1>1, <1>3
<1> QED
  BY <1>3, <1>4, <1>5 DEF n

(* A burial adds to the tally of the job, and of the one that is trimmed. *)
LEMMA BuryCounts ==
  ASSUME QueueTypes, NEW job \in JobType, Bury(job)
  PROVE  /\ tally' \in [Jobs -> TallyType]
         /\ \A j \in Jobs :
              /\ tally'[j].trimmed = tally[j].trimmed
                   + Flag(Len(dead) = MaxDeadLetter
                          /\ j = Head(Append(dead, [job |-> job, failedAt |-> tally[job.id].buried + 1])).job.id)
              /\ tally'[j].dropped = tally[j].dropped /\ tally'[j].lost = tally[j].lost
<1> DEFINE cut(j) == Len(dead) = MaxDeadLetter
                       /\ j = Head(Append(dead, [job |-> job, failedAt |-> tally[job.id].buried + 1])).job.id
           b(j) == IF j = job.id THEN tally[j].buried + 1 ELSE tally[j].buried
           c(j) == IF cut(j) THEN tally[j].trimmed + 1 ELSE tally[j].trimmed
           new(j) == [tally[j] EXCEPT !.buried = b(j), !.trimmed = c(j)]
<1>1. tally' = [j \in Jobs |-> new(j)]
  BY DEF Bury
<1> HIDE DEF cut
<1>2. ASSUME NEW j \in Jobs
      PROVE  /\ new(j) \in TallyType
             /\ new(j).trimmed = tally[j].trimmed + Flag(cut(j))
             /\ new(j).dropped = tally[j].dropped /\ new(j).lost = tally[j].lost
  <2>1. tally[j] \in TallyType
    BY DEF QueueTypes
  <2>2. b(j) \in Nat /\ c(j) \in Nat /\ c(j) = tally[j].trimmed + Flag(cut(j))
    BY <2>1 DEF TallyType, Flag
  <2>3. new(j) = [tally[j] EXCEPT !.buried = b(j), !.trimmed = c(j)]
    OBVIOUS
  <2> HIDE DEF b, c, new
  <2>4. /\ new(j) \in TallyType /\ new(j).trimmed = c(j)
        /\ new(j).dropped = tally[j].dropped /\ new(j).lost = tally[j].lost
    BY <2>1, <2>2, <2>3 DEF TallyType
  <2> QED
    BY <2>2, <2>4
<1> HIDE DEF new
<1>3. tally' \in [Jobs -> TallyType]
  BY <1>1, <1>2
<1>4. ASSUME NEW j \in Jobs
      PROVE  /\ tally'[j].trimmed = tally[j].trimmed + Flag(cut(j))
             /\ tally'[j].dropped = tally[j].dropped /\ tally'[j].lost = tally[j].lost
  BY <1>1, <1>2
<1> QED
  BY <1>3, <1>4 DEF cut

(* The dead letters afterwards are those from before and the new one.       *)
LEMMA BuryKeepsTypes ==
  ASSUME QueueTypes, NEW job \in JobType, Bury(job)
  PROVE  /\ dead' \in Seq(EntryType) /\ Len(dead') <= MaxDeadLetter /\ tally' \in [Jobs -> TallyType]
         /\ \A k \in 1..Len(dead') : dead'[k].job = job \/ \E i \in 1..Len(dead) : dead'[k] = dead[i]
<1> DEFINE e == [job |-> job, failedAt |-> tally[job.id].buried + 1]
           full == Len(dead) = MaxDeadLetter
<1>1. /\ dead \in Seq(EntryType) /\ Len(dead) \in Nat /\ Len(dead) <= MaxDeadLetter /\ MaxDeadLetter \in Nat \ {0}
      /\ tally \in [Jobs -> TallyType] /\ job.id \in Jobs
  BY QueueAssumption, JobFacts, LenProperties DEF QueueTypes
<1>2. e \in EntryType /\ e.job = job
  BY <1>1 DEF EntryType, TallyType
<1>3. dead' = (IF full THEN Tail(Append(dead, e)) ELSE Append(dead, e))
  BY DEF Bury
<1>4. tally' \in [Jobs -> TallyType]
  BY BuryCounts
<1> HIDE DEF e
<1>5. /\ Append(dead, e) \in Seq(EntryType) /\ Append(dead, e) # << >> /\ Len(Append(dead, e)) = Len(dead) + 1
      /\ \A k \in 1..Len(dead) : Append(dead, e)[k] = dead[k]
      /\ Append(dead, e)[Len(dead) + 1] = e
  BY <1>1, <1>2, AppendProperties
<1>6. /\ Tail(Append(dead, e)) \in Seq(EntryType) /\ Len(Tail(Append(dead, e))) = Len(Append(dead, e)) - 1
      /\ \A k \in 1..(Len(Append(dead, e)) - 1) : Tail(Append(dead, e))[k] = Append(dead, e)[k + 1]
  BY <1>5, HeadTailProperties
<1>7. dead' \in Seq(EntryType) /\ Len(dead') <= MaxDeadLetter
  BY <1>1, <1>3, <1>5, <1>6
<1>8. \A k \in 1..(Len(dead) + 1) :
        Append(dead, e)[k].job = job \/ \E i \in 1..Len(dead) : Append(dead, e)[k] = dead[i]
  BY <1>1, <1>2, <1>5
<1>9. ASSUME NEW k \in 1..Len(dead')
      PROVE  dead'[k].job = job \/ \E i \in 1..Len(dead) : dead'[k] = dead[i]
  <2>1. CASE full
    <3>1. k + 1 \in 1..(Len(dead) + 1) /\ dead'[k] = Append(dead, e)[k + 1]
      BY <1>1, <1>3, <1>5, <1>6, <2>1
    <3> QED
      BY <1>8, <3>1
  <2>2. CASE ~full
    BY <1>1, <1>3, <1>5, <1>8, <2>2
  <2> QED
    BY <2>1, <2>2
<1> QED
  BY <1>4, <1>7, <1>9

-----------------------------------------------------------------------------
(* Types. *)

LEMMA CalledKeepsTypes ==
  ASSUME LoopTypes, LoopsApart, redis' = redis, redis \in BOOLEAN, processing \in BOOLEAN,
         NEW w \in Loops, NEW q, NEW n, NEW r \in Standing, Called(w, q, n, r)
  PROVE  /\ LoopTypes' /\ LoopsApart' /\ processing' \in BOOLEAN
         /\ queue' \in Seq(Waiting) /\ timers' \in Nat /\ tried' \in [Jobs -> Nat]
         /\ redis => timers' = n
<1>1. \A v \in Loops : loops'[v] = IF v = w THEN r ELSE loops[v]
  BY DEF Called, LoopTypes
<1>2. r.pc \in {"idle"} \cup IF redis THEN {"len", "pop", "parse"} ELSE {"run", "bury"}
  BY DEF Called
<1>3. LoopsApart'
  BY <1>1, <1>2 DEF LoopsApart
<1>4. LoopTypes'
  BY DEF Called, LoopTypes
<1> QED
  BY <1>3, <1>4 DEF Called

LEMMA CallKeepsTypes ==
  ASSUME Types, redis' = redis, NEW w \in Loops, NEW q \in Seq(Waiting), NEW n \in Nat, ProcessNext(w, q, n)
  PROVE  /\ LoopTypes' /\ LoopsApart' /\ processing' \in BOOLEAN
         /\ queue' \in Seq(Waiting) /\ timers' \in Nat /\ tried' \in [Jobs -> Nat]
         /\ redis => timers' = n
<1>1. LoopTypes /\ LoopsApart /\ redis \in BOOLEAN /\ processing \in BOOLEAN /\ tried \in [Jobs -> Nat]
  BY DEF Types, QueueTypes
<1> QED
  BY <1>1, ProcessNextMeans, CalledKeepsTypes

LEMMA BeginKeepsTypes ==
  ASSUME Types, redis' = redis, NEW q \in Seq(Waiting), NEW n \in Nat, StartUnlessProcessing(q, n)
  PROVE  /\ LoopTypes' /\ LoopsApart' /\ processing' \in BOOLEAN
         /\ queue' \in Seq(Waiting) /\ timers' \in Nat /\ tried' \in [Jobs -> Nat]
         /\ redis => timers' = n
<1>0. LoopTypes /\ LoopsApart /\ redis \in BOOLEAN /\ processing \in BOOLEAN /\ tried \in [Jobs -> Nat]
  BY DEF Types, QueueTypes
<1>1. CASE queue' = q /\ timers' = n /\ UNCHANGED <<processing, loops, tried>>
  BY <1>0, <1>1 DEF LoopTypes, LoopsApart
<1>2. CASE \E w \in Loops, r \in Standing : loops[w].pc = "idle" /\ Called(w, q, n, r)
  BY <1>0, <1>2, CalledKeepsTypes
<1> QED
  BY <1>0, <1>1, <1>2, StartMeans DEF MayBegin

LEMMA AtKeepsTypes ==
  ASSUME LoopTypes, LoopsApart, redis' = redis,
         NEW w \in Loops, NEW pc, NEW job, At(w, pc, job), [pc |-> pc, job |-> job] \in Standing,
         pc \in {"idle"} \cup IF redis THEN {"len", "pop", "parse"} ELSE {"run", "bury"}
  PROVE  LoopTypes' /\ LoopsApart'
BY DEF At, LoopTypes, LoopsApart

LEMMA InitTypes == Init => Types
<1>1. [j \in Jobs |-> [buried |-> 0, trimmed |-> 0, dropped |-> 0, lost |-> 0]] \in [Jobs -> TallyType]
  BY DEF TallyType
<1>2. << >> \in Seq(Waiting) /\ << >> \in Seq(EntryType) /\ Len(<< >>) = 0
  BY EmptySeq
<1>3. Idle \in Standing /\ Idle.pc = "idle"
  BY StandingFacts DEF Idle
<1>4. ASSUME Init
      PROVE  QueueTypes
  <2>1. dead \in Seq(EntryType) /\ Len(dead) <= MaxDeadLetter /\ queue \in Seq(Waiting)
    BY <1>2, <1>4, QueueAssumption DEF Init
  <2>2. tally \in [Jobs -> TallyType]
    BY <1>1, <1>4 DEF Init
  <2> QED
    BY <1>4, <2>1, <2>2 DEF Init, QueueTypes
<1>5. ASSUME Init
      PROVE  LoopTypes /\ LoopsApart
  BY <1>3, <1>5 DEF Init, LoopTypes, LoopsApart
<1>6. ASSUME Init
      PROVE  RestApart
  BY <1>6 DEF Init, RestApart
<1> QED
  BY <1>4, <1>5, <1>6 DEF Types

(* The steps of a loop. *)
LEMMA LoopStepTypes ==
  ASSUME Types, NEW w \in Loops, LoopStep(w)
  PROVE  Types'
<1>0. /\ QueueTypes /\ LoopTypes /\ LoopsApart /\ RestApart /\ redis' = redis
      /\ redis \in BOOLEAN /\ processing \in BOOLEAN /\ queue \in Seq(Waiting) /\ timers \in Nat
      /\ tried \in [Jobs -> Nat] /\ tally \in [Jobs -> TallyType]
  BY DEF Types, QueueTypes, LoopStep, Length, Pop, DeserializeJob, Processed, Fail, MoveToDeadLetter, fixed
<1>1. loops[w] \in Standing
  BY <1>0 DEF LoopTypes
<1>2. CASE Length(w)
  <2>1. redis
    BY <1>0, <1>2 DEF Length, LoopsApart
  <2>2. LoopTypes' /\ LoopsApart'
    BY <1>0, <1>2, <2>1, AtKeepsTypes, StandingFacts DEF Length
  <2>3. UNCHANGED <<lists, callers, fixed, timers, work, tally>> /\ processing' = TRUE
    BY <1>2 DEF Length
  <2> QED
    BY <1>0, <2>2, <2>3 DEF Types, QueueTypes, RestApart, lists, fixed, work
<1>3. CASE Pop(w)
  <2>1. redis
    BY <1>0, <1>3 DEF Pop, LoopsApart
  <2>2. Head(queue) \in Waiting /\ Tail(queue) \in Seq(Waiting)
    BY <1>0, <1>3, HeadTailProperties DEF Pop
  <2>3. [pc |-> "parse", job |-> Head(queue)] \in Standing
    BY <2>2, JobFacts, StandingFacts
  <2>4. LoopTypes' /\ LoopsApart'
    BY <1>0, <1>3, <2>1, <2>3, AtKeepsTypes DEF Pop
  <2>5. UNCHANGED <<dead, callers, fixed, processing, timers, work, tally>> /\ queue' = Tail(queue)
    BY <1>3 DEF Pop
  <2> QED
    BY <1>0, <2>2, <2>4, <2>5 DEF Types, QueueTypes, RestApart, fixed, work
<1>4. CASE DeserializeJob(w)
  <2>1. redis /\ loops[w].job \in JobType
    BY <1>0, <1>1, <1>4, StandingFacts DEF DeserializeJob, LoopsApart, Holding
  <2>2. LoopTypes' /\ LoopsApart'
    BY <1>0, <1>4, AtKeepsTypes, StandingFacts DEF DeserializeJob
  <2>3. tally' \in [Jobs -> TallyType]
    BY <1>0, <1>4, <2>1, DroppedCounts DEF DeserializeJob
  <2>4. UNCHANGED <<lists, callers, redis, registered, faults, retried, processing, timers, work>> /\ died' = TRUE
    BY <1>4 DEF DeserializeJob
  <2> QED
    BY <1>0, <2>1, <2>2, <2>3, <2>4 DEF Types, QueueTypes, RestApart, lists, work
<1>5. CASE Processed(w)
  <2>1. loops[w].job.id \in Jobs
    BY <1>1, <1>5, StandingFacts, JobFacts DEF Processed, Holding
  <2>2. /\ LoopTypes' /\ LoopsApart' /\ processing' \in BOOLEAN
        /\ queue' \in Seq(Waiting) /\ timers' \in Nat /\ tried' \in [Jobs -> Nat]
        /\ redis => timers' = timers
    BY <1>0, <1>5, CallKeepsTypes DEF Processed
  <2>3. done' = [done EXCEPT ![loops[w].job.id] = @ + 1] /\ UNCHANGED <<dead, callers, fixed, revived, tally>>
    BY <1>5 DEF Processed
  <2>4. done' \in [Jobs -> Nat]
    BY <1>0, <2>1, <2>3 DEF QueueTypes
  <2> QED
    BY <1>0, <2>2, <2>3, <2>4 DEF Types, QueueTypes, RestApart, fixed
<1>6. CASE Fail(w)
  <2> DEFINE job == loops[w].job
  <2>1. ~redis /\ job \in JobType /\ UNCHANGED <<dead, callers, fixed, done, revived, tally>>
    BY <1>0, <1>1, <1>6, StandingFacts DEF Fail, LoopsApart, Holding
  <2>2. /\ LoopTypes' /\ LoopsApart' /\ processing' \in BOOLEAN
        /\ queue' \in Seq(Waiting) /\ timers' \in Nat /\ tried' \in [Jobs -> Nat]
    <3>1. CASE At(w, "bury", job) /\ UNCHANGED <<queue, processing, timers, tried>>
      <4>1. [pc |-> "bury", job |-> job] \in Standing
        BY <2>1, StandingFacts
      <4> QED
        BY <1>0, <2>1, <3>1, <4>1, AtKeepsTypes
    <3>2. CASE ~Exhausted(job) /\ ProcessNext(w, Append(queue, Late(job)), timers)
      <4>1. Append(queue, Late(job)) \in Seq(Waiting)
        BY <1>0, <2>1, <3>2, JobFacts, AppendProperties
      <4> QED
        BY <1>0, <3>2, <4>1, CallKeepsTypes
    <3> QED
      BY <1>6, <3>1, <3>2 DEF Fail
  <2> QED
    BY <1>0, <2>1, <2>2 DEF Types, QueueTypes, RestApart, fixed
<1>7. CASE MoveToDeadLetter(w)
  <2>1. loops[w].job \in JobType
    BY <1>1, <1>7, StandingFacts, JobFacts DEF MoveToDeadLetter, Holding
  <2>2. ~redis
    BY <1>0, <1>7 DEF MoveToDeadLetter, LoopsApart
  <2>3. /\ LoopTypes' /\ LoopsApart' /\ processing' \in BOOLEAN
        /\ queue' \in Seq(Waiting) /\ timers' \in Nat /\ tried' \in [Jobs -> Nat]
    BY <1>0, <1>7, CallKeepsTypes DEF MoveToDeadLetter
  <2>4. /\ dead' \in Seq(EntryType) /\ Len(dead') <= MaxDeadLetter /\ tally' \in [Jobs -> TallyType]
        /\ \A j \in Jobs : tally'[j].dropped = tally[j].dropped
    BY <1>0, <1>7, <2>1, BuryKeepsTypes, BuryCounts DEF MoveToDeadLetter
  <2>5. UNCHANGED <<callers, fixed, done, revived>>
    BY <1>7 DEF MoveToDeadLetter
  <2>6. QueueTypes'
    BY <1>0, <2>3, <2>4, <2>5 DEF QueueTypes, fixed
  <2>7. RestApart'
    BY <1>0, <2>2, <2>4, <2>5 DEF RestApart, fixed
  <2> QED
    BY <2>3, <2>6, <2>7 DEF Types
<1> QED
  BY <1>2, <1>3, <1>4, <1>5, <1>6, <1>7 DEF LoopStep

(* The callers: enqueue, retryDeadLetter, registerProcessor, the timer.     *)
LEMMA CallerStepTypes ==
  ASSUME Types,
         \/ \E j \in Jobs : RegisterProcessor(j) \/ EnqueuePush(j) \/ Enqueue(j)
         \/ \E i \in 1..Len(queue) : Ripen(i)
         \/ \E i \in 1..Len(dead) : RetryDeadLetter(i)
         \/ TimerFires
  PROVE  Types'
<1>0. /\ QueueTypes /\ LoopTypes /\ LoopsApart /\ RestApart /\ redis' = redis
      /\ redis \in BOOLEAN /\ processing \in BOOLEAN /\ queue \in Seq(Waiting) /\ timers \in Nat
      /\ tried \in [Jobs -> Nat] /\ revived \in [Jobs -> Nat]
      /\ dead \in Seq(EntryType) /\ Len(dead) \in Nat /\ Len(dead) <= MaxDeadLetter /\ MaxDeadLetter \in Nat
  BY QueueAssumption, LenProperties
     DEF Types, QueueTypes, RegisterProcessor, EnqueuePush, Enqueue, Ripen, RetryDeadLetter, TimerFires, fixed
<1>1. ASSUME NEW j \in Jobs, RegisterProcessor(j)
      PROVE  Types'
  BY <1>0, <1>1 DEF RegisterProcessor, Types, QueueTypes, LoopTypes, LoopsApart, RestApart, lists, work
<1>2. ASSUME NEW j \in Jobs, EnqueuePush(j)
      PROVE  Types'
  <2>1. Append(queue, NewJob(j)) \in Seq(Waiting)
    BY <1>0, JobFacts, AppendProperties
  <2>2. queue' \in Seq(Waiting) /\ callers' \in [Jobs -> {"new", "pushed", "returned"}] /\ redis
    BY <1>0, <1>2, <2>1 DEF EnqueuePush, QueueTypes
  <2>3. UNCHANGED <<dead, fixed, processing, timers, loops, work, tally>>
    BY <1>2 DEF EnqueuePush
  <2> QED
    BY <1>0, <2>2, <2>3 DEF Types, QueueTypes, LoopTypes, LoopsApart, RestApart, fixed, work
<1>3. ASSUME NEW j \in Jobs, Enqueue(j)
      PROVE  Types'
  <2>1. Append(queue, NewJob(j)) \in Seq(Waiting)
    BY <1>0, JobFacts, AppendProperties
  <2>2. \E q \in Seq(Waiting) : StartUnlessProcessing(q, timers)
    BY <1>0, <1>3, <2>1 DEF Enqueue
  <2>3. /\ LoopTypes' /\ LoopsApart' /\ processing' \in BOOLEAN /\ queue' \in Seq(Waiting)
        /\ timers' \in Nat /\ tried' \in [Jobs -> Nat] /\ (redis => timers' = timers)
    BY <1>0, <2>2, BeginKeepsTypes
  <2>4. callers' = [callers EXCEPT ![j] = "returned"] /\ UNCHANGED <<dead, fixed, done, revived, tally>>
    BY <1>3 DEF Enqueue
  <2>5. /\ callers' \in [Jobs -> {"new", "pushed", "returned"}]
        /\ \A k \in Jobs : callers'[k] = "returned" \/ callers'[k] = callers[k]
    BY <1>0, <2>4 DEF QueueTypes
  <2> QED
    BY <1>0, <2>3, <2>4, <2>5 DEF Types, QueueTypes, RestApart, fixed
<1>4. ASSUME NEW i \in 1..Len(queue), Ripen(i)
      PROVE  Types'
  <2>1. [queue[i] EXCEPT !.late = FALSE] \in Waiting
    <3>1. queue[i] \in Waiting
      BY <1>0, ElementOfSeq
    <3>2. \A x \in Waiting : [x EXCEPT !.late = FALSE] \in Waiting
      BY DEF Waiting
    <3> QED
      BY <3>1, <3>2
  <2>2. queue' = [queue EXCEPT ![i] = [queue[i] EXCEPT !.late = FALSE]]
    BY <1>4 DEF Ripen
  <2>3. queue' \in Seq(Waiting)
    BY <1>0, <2>1, <2>2, ExceptSeq
  <2>4. UNCHANGED <<dead, callers, fixed, processing, timers, loops, work, tally>>
    BY <1>4 DEF Ripen
  <2> QED
    BY <1>0, <2>3, <2>4 DEF Types, QueueTypes, LoopTypes, LoopsApart, RestApart, fixed, work
<1>5. ASSUME TimerFires
      PROVE  Types'
  <2>1. UNCHANGED <<dead, callers, fixed, done, revived, tally>> /\ timers - 1 \in Nat /\ ~redis
    BY <1>0, <1>5 DEF TimerFires, RestApart
  <2>2. CASE StartUnlessProcessing(queue, timers - 1)
    <3>1. /\ LoopTypes' /\ LoopsApart' /\ processing' \in BOOLEAN /\ queue' \in Seq(Waiting)
          /\ timers' \in Nat /\ tried' \in [Jobs -> Nat]
      BY <1>0, <2>1, <2>2, BeginKeepsTypes
    <3> QED
      BY <1>0, <2>1, <3>1 DEF Types, QueueTypes, RestApart, fixed
  <2>3. CASE timers' = timers - 1 /\ UNCHANGED <<queue, processing, loops, tried>>
    BY <1>0, <2>1, <2>3 DEF Types, QueueTypes, LoopTypes, LoopsApart, RestApart, fixed
  <2> QED
    BY <1>5, <2>2, <2>3 DEF TimerFires
<1>6. ASSUME NEW i \in 1..Len(dead), RetryDeadLetter(i)
      PROVE  Types'
  <2>1. RemoveAt(dead, i) \in Seq(EntryType) /\ Len(RemoveAt(dead, i)) = Len(dead) - 1
    BY <1>0, RemoveAtKeeps
  <2>2. dead[i].job \in JobType /\ dead[i].job.id \in Jobs
    <3>1. dead[i] \in EntryType
      BY <1>0, ElementOfSeq
    <3>2. dead[i].job \in JobType
      BY <3>1 DEF EntryType
    <3> QED
      BY <3>2, JobFacts
  <2>3. Append(queue, Reset(dead[i].job)) \in Seq(Waiting)
    BY <1>0, <2>2, JobFacts, AppendProperties
  <2>4. /\ LoopTypes' /\ LoopsApart' /\ processing' \in BOOLEAN /\ queue' \in Seq(Waiting)
        /\ timers' \in Nat /\ tried' \in [Jobs -> Nat] /\ ~redis
    BY <1>0, <1>6, <2>3, BeginKeepsTypes DEF RetryDeadLetter
  <2>5. dead' \in Seq(EntryType) /\ Len(dead') <= MaxDeadLetter /\ retried' \in Nat /\ revived' \in [Jobs -> Nat]
    <3>1. dead' = RemoveAt(dead, i) /\ retried' = retried + 1 /\ retried \in Nat
      BY <1>0, <1>6 DEF RetryDeadLetter, QueueTypes
    <3>2. dead' \in Seq(EntryType) /\ Len(dead') <= MaxDeadLetter
      BY <1>0, <2>1, <3>1
    <3>3. revived' = [revived EXCEPT ![dead[i].job.id] = @ + 1]
      BY <1>6 DEF RetryDeadLetter
    <3> DEFINE k == dead[i].job.id
    <3> HIDE DEF k
    <3>4. revived' \in [Jobs -> Nat]
      BY <1>0, <2>2, <3>3 DEF k
    <3> QED
      BY <3>1, <3>2, <3>4
  <2>6. UNCHANGED <<callers, redis, registered, faults, died, done, tally>>
    BY <1>6 DEF RetryDeadLetter
  <2> QED
    BY <1>0, <2>4, <2>5, <2>6 DEF Types, QueueTypes, RestApart
<1> QED
  BY <1>1, <1>2, <1>3, <1>4, <1>5, <1>6

LEMMA FaultTypes ==
  ASSUME Types, (\E w \in Loops : LoopDies(w)) \/ Restart
  PROVE  Types'
<1>0. /\ QueueTypes /\ LoopTypes /\ LoopsApart /\ RestApart /\ redis' = redis
      /\ redis \in BOOLEAN /\ processing \in BOOLEAN /\ queue \in Seq(Waiting) /\ timers \in Nat
      /\ faults' \in Nat
  <2>1. faults \in Nat /\ faults' = faults + 1 /\ redis' = redis
    BY DEF Types, QueueTypes, LoopDies, Restart
  <2> QED
    BY <2>1 DEF Types, QueueTypes
<1>1. ASSUME NEW w \in Loops, LoopDies(w)
      PROVE  Types'
  <2>1. LoopTypes' /\ LoopsApart'
    BY <1>0, <1>1, AtKeepsTypes, StandingFacts DEF LoopDies
  <2>2. redis
    BY <1>0, <1>1 DEF LoopDies, LoopsApart
  <2>3. UNCHANGED <<lists, callers, redis, registered, retried, processing, timers, work, tally>> /\ died' = TRUE
    BY <1>1 DEF LoopDies
  <2> QED
    BY <1>0, <2>1, <2>2, <2>3 DEF Types, QueueTypes, RestApart, lists, work
<1>2. ASSUME Restart
      PROVE  Types'
  <2>1. Idle \in Standing /\ Idle.pc = "idle"
    BY StandingFacts DEF Idle
  <2>2. LoopTypes' /\ LoopsApart'
    BY <1>2, <2>1 DEF Restart, LoopTypes, LoopsApart
  <2>3. queue' \in Seq(Waiting) /\ dead' \in Seq(EntryType) /\ Len(dead') <= MaxDeadLetter
    <3>1. << >> \in Seq(Waiting) /\ << >> \in Seq(EntryType) /\ Len(<< >>) = 0 /\ MaxDeadLetter \in Nat
      BY EmptySeq, QueueAssumption
    <3>2. CASE redis
      BY <1>0, <1>2, <3>2 DEF Restart, QueueTypes, lists
    <3>3. CASE ~redis
      BY <1>2, <3>1, <3>3 DEF Restart
    <3> QED
      BY <3>2, <3>3
  <2>4. tally' \in [Jobs -> TallyType] /\ \A j \in Jobs : tally'[j].dropped = tally[j].dropped
    BY <1>0, <1>2, RestartCounts
  <2>5. callers' \in [Jobs -> {"new", "pushed", "returned"}] /\ \A j \in Jobs : callers'[j] # "pushed"
    BY <1>0, <1>2 DEF Restart, QueueTypes
  <2>6. QueueTypes'
    BY <1>0, <1>2, <2>3, <2>4, <2>5 DEF Restart, QueueTypes, work
  <2>7. RestApart'
    <3>1. timers' = 0 /\ died' = FALSE
      BY <1>2 DEF Restart
    <3> QED
      BY <1>0, <2>4, <2>5, <3>1 DEF RestApart
  <2> QED
    BY <2>2, <2>6, <2>7 DEF Types
<1> QED
  BY <1>1, <1>2

LEMMA StepTypes ==
  ASSUME Types, [QueueNext]_vars
  PROVE  Types'
<1>1. CASE \E w \in Loops : LoopStep(w)
  BY <1>1, LoopStepTypes
<1>2. CASE \/ \E j \in Jobs : RegisterProcessor(j) \/ EnqueuePush(j) \/ Enqueue(j)
           \/ \E i \in 1..Len(queue) : Ripen(i)
           \/ \E i \in 1..Len(dead) : RetryDeadLetter(i)
           \/ TimerFires
  BY <1>2, CallerStepTypes
<1>3. CASE (\E w \in Loops : LoopDies(w)) \/ Restart
  BY <1>3, FaultTypes
<1>4. CASE UNCHANGED vars
  BY <1>4 DEF Types, QueueTypes, LoopTypes, LoopsApart, RestApart, vars, lists, fixed, work
<1> QED
  BY <1>1, <1>2, <1>3, <1>4 DEF QueueNext

LEMMA TypesAreTypeOK == Types => QueueTypeOK
<1> SUFFICES ASSUME Types
             PROVE  QueueTypeOK
  OBVIOUS
<1>1. queue \in Seq(JobType)
  BY JobFacts, SeqMonotonic DEF Types, QueueTypes
<1>2. \A w \in Loops : loops[w].job \in JobType \cup {None}
  BY StandingFacts DEF Types, LoopTypes
<1> QED
  BY <1>1, <1>2 DEF Types, QueueTypes, QueueTypeOK

(* The queue's variables keep their types, with Redis and in memory: no job *)
(* takes more attempts than allowed, and the dead letters stay within       *)
(* MAX_DEAD_LETTER (queue-service.ts).                                      *)
THEOREM QueueTypeCorrect == QueueSpec => []QueueTypeOK
<1>1. QueueSpec => []Types
  BY InitTypes, StepTypes, PTL DEF QueueSpec
<1> QED
  BY <1>1, TypesAreTypeOK, PTL

-----------------------------------------------------------------------------
(* In memory one loop at most. *)

LEMMA CalledAlone ==
  ASSUME LoopTypes, ~redis, redis' = redis, NEW w \in Loops, \A v \in Active : v = w,
         NEW q, NEW n, NEW r \in Standing, Called(w, q, n, r)
  PROVE  AloneInMemory'
<1>1. \A v \in Loops : loops'[v] = IF v = w THEN r ELSE loops[v]
  BY DEF Called, LoopTypes
<1>2. \A v \in Loops : loops'[v].pc # "idle" => v = w
  BY <1>1 DEF Active
<1>3. (processing' <=> r.pc # "idle") /\ (r.pc = "idle" /\ queue' # << >> => timers' > 0)
  BY DEF Called
<1>4. Active' # {} <=> r.pc # "idle"
  BY <1>1, <1>2 DEF Active
<1> QED
  BY <1>2, <1>3, <1>4 DEF AloneInMemory, Active

LEMMA BeginAlone ==
  ASSUME Types, AloneInMemory, ~redis, redis' = redis,
         NEW q \in Seq(Waiting), NEW n \in Nat, StartUnlessProcessing(q, n)
  PROVE  AloneInMemory'
<1>0. LoopTypes /\ tried \in [Jobs -> Nat]
  BY DEF Types, QueueTypes
<1>1. CASE processing /\ UNCHANGED <<processing, loops>>
  BY <1>1 DEF AloneInMemory, Active
<1>2. CASE ~processing /\ \E w \in Loops, r \in Standing : Called(w, q, n, r)
  <2>1. Active = {}
    BY <1>2 DEF AloneInMemory
  <2> QED
    BY <1>0, <1>2, <2>1, CalledAlone
<1> QED
  BY <1>0, <1>1, <1>2, StartMeans DEF MayBegin

LEMMA CallAlone ==
  ASSUME Types, AloneInMemory, ~redis, redis' = redis, NEW w \in Loops, loops[w].pc # "idle",
         NEW q \in Seq(Waiting), NEW n \in Nat, ProcessNext(w, q, n)
  PROVE  AloneInMemory'
<1>1. \A v \in Active : v = w
  BY DEF AloneInMemory, Active
<1>2. LoopTypes /\ tried \in [Jobs -> Nat]
  BY DEF Types, QueueTypes
<1> QED
  BY <1>1, <1>2, ProcessNextMeans, CalledAlone

LEMMA StepAlone ==
  ASSUME Types, AloneInMemory, [QueueNext]_vars
  PROVE  AloneInMemory'
<1>0. /\ LoopTypes /\ RestApart /\ LoopsApart
      /\ queue \in Seq(Waiting) /\ timers \in Nat /\ dead \in Seq(EntryType)
  BY DEF Types, QueueTypes
<1> SUFFICES ASSUME ~redis'
             PROVE  AloneInMemory'
  BY DEF AloneInMemory
<1>1. ASSUME NEW j \in Jobs, RegisterProcessor(j) \/ EnqueuePush(j) \/ Enqueue(j)
      PROVE  AloneInMemory'
  <2>1. CASE RegisterProcessor(j)
    BY <2>1 DEF RegisterProcessor, AloneInMemory, Active, lists
  <2>2. CASE EnqueuePush(j)
    BY <2>2 DEF EnqueuePush, fixed
  <2>3. CASE Enqueue(j)
    <3>1. Append(queue, NewJob(j)) \in Seq(Waiting)
      BY <1>0, JobFacts, AppendProperties
    <3>2. redis' = redis /\ \E q \in Seq(Waiting) : StartUnlessProcessing(q, timers)
      BY <1>0, <2>3, <3>1 DEF Enqueue, fixed
    <3> QED
      BY <1>0, <3>2, BeginAlone
  <2> QED
    BY <1>1, <2>1, <2>2, <2>3
<1>2. ASSUME NEW w \in Loops, LoopStep(w)
      PROVE  AloneInMemory'
  <2>1. redis' = redis
    BY <1>2 DEF LoopStep, Length, Pop, DeserializeJob, Processed, Fail, MoveToDeadLetter, fixed
  <2>2. loops[w].pc \in {"idle", "run", "bury"}
    BY <1>0, <2>1 DEF LoopsApart
  <2>3. CASE Length(w) \/ Pop(w) \/ DeserializeJob(w)
    BY <2>2, <2>3 DEF Length, Pop, DeserializeJob
  <2>4. CASE Processed(w) \/ MoveToDeadLetter(w)
    BY <1>0, <2>1, <2>4, CallAlone DEF Processed, MoveToDeadLetter
  <2>5. CASE Fail(w)
    <3> DEFINE job == loops[w].job
    <3>1. CASE At(w, "bury", job) /\ UNCHANGED <<queue, processing, timers>>
      <4>1. \A v \in Loops : loops'[v].pc # "idle" <=> loops[v].pc # "idle"
        BY <1>0, <2>5, <3>1 DEF Fail, At, LoopTypes
      <4>2. Active' = Active
        BY <4>1 DEF Active
      <4> QED
        BY <2>1, <3>1, <4>2 DEF AloneInMemory
    <3>2. CASE ~Exhausted(job) /\ ProcessNext(w, Append(queue, Late(job)), timers)
      <4>1. job \in JobType
        BY <1>0, <2>5, StandingFacts DEF Fail, LoopTypes, Holding
      <4>2. Append(queue, Late(job)) \in Seq(Waiting)
        BY <1>0, <3>2, <4>1, JobFacts, AppendProperties
      <4> QED
        BY <1>0, <2>1, <2>5, <3>2, <4>2, CallAlone DEF Fail
    <3> QED
      BY <2>5, <3>1, <3>2 DEF Fail
  <2> QED
    BY <1>2, <2>3, <2>4, <2>5 DEF LoopStep
<1>3. ASSUME NEW w \in Loops, LoopDies(w)
      PROVE  AloneInMemory'
  BY <1>0, <1>3 DEF LoopDies, LoopsApart
<1>4. ASSUME NEW i \in 1..Len(queue), Ripen(i)
      PROVE  AloneInMemory'
  <2>1. queue # << >>
    BY EmptySeq
  <2> QED
    BY <1>4, <2>1 DEF Ripen, AloneInMemory, Active, fixed
<1>5. ASSUME NEW i \in 1..Len(dead), RetryDeadLetter(i)
      PROVE  AloneInMemory'
  <2>1. dead[i] \in EntryType
    BY <1>0, ElementOfSeq
  <2>2. dead[i].job \in JobType
    BY <2>1 DEF EntryType
  <2>3. Append(queue, Reset(dead[i].job)) \in Seq(Waiting)
    BY <1>0, <2>2, JobFacts, AppendProperties
  <2> QED
    BY <1>0, <1>5, <2>3, BeginAlone DEF RetryDeadLetter
<1>6. CASE TimerFires
  <2>1. timers - 1 \in Nat /\ redis' = redis
    BY <1>0, <1>6 DEF TimerFires, fixed
  <2>2. CASE StartUnlessProcessing(queue, timers - 1)
    BY <1>0, <2>1, <2>2, BeginAlone
  <2>3. CASE queue = << >> /\ UNCHANGED <<queue, processing, loops>>
    BY <2>1, <2>3 DEF AloneInMemory, Active
  <2> QED
    BY <1>6, <2>2, <2>3 DEF TimerFires
<1>7. CASE Restart
  BY <1>7 DEF Restart, AloneInMemory, Active, Idle
<1>8. CASE UNCHANGED vars
  BY <1>8 DEF vars, lists, fixed, AloneInMemory, Active
<1> QED
  BY <1>1, <1>2, <1>3, <1>4, <1>5, <1>6, <1>7, <1>8 DEF QueueNext

LEMMA InitAlone == Init => AloneInMemory
BY DEF Init, AloneInMemory, Active, Idle

(* Without Redis at most one call of processNext works, isProcessing tells  *)
(* whether one does, and a waiting job always has a loop or a timer.        *)
THEOREM OneLoop == QueueSpec => []OneLoopInMemory
<1>2. AloneInMemory => OneLoopInMemory
  <2> SUFFICES ASSUME AloneInMemory, ~redis
               PROVE  OneLoopInMemory
    BY DEF OneLoopInMemory
  <2>1. Cardinality(Active) <= 1
    <3>1. CASE Active = {}
      BY <3>1, FS_EmptySet
    <3>2. CASE Active # {}
      <4>1. PICK w : Active = {w}
        BY <3>2 DEF AloneInMemory
      <4> QED
        BY <4>1, FS_Singleton
    <3> QED
      BY <3>1, <3>2
  <2> QED
    BY <2>1 DEF AloneInMemory, OneLoopInMemory, Active
<1> QED
  BY InitAlone, <1>2, InitTypes, StepTypes, StepAlone, PTL DEF QueueSpec

-----------------------------------------------------------------------------
(* With Redis a job waits for every loop that asks for one, and the flag is *)
(* left without a loop only by one that died.                               *)

PushedJobs == {j \in Jobs : callers[j] = "pushed"}
AskingLoops == {w \in Loops : loops[w].pc \in {"len", "pop"}}

Served ==
  redis => /\ IsFiniteSet(PushedJobs)
           /\ Cardinality(AskingLoops) + Cardinality(PushedJobs) <= Len(queue)
Flagged == redis /\ processing => Active # {} \/ died

LEMMA AskingIs == IsFiniteSet(AskingLoops) /\ Cardinality(AskingLoops) \in Nat
BY QueueAssumption, FS_Subset, FS_CardinalityType DEF AskingLoops

LEMMA AskingMoves ==
  ASSUME LoopTypes, NEW w \in Loops, NEW r, loops' = [loops EXCEPT ![w] = r]
  PROVE  Cardinality(AskingLoops') = Cardinality(AskingLoops)
           - Flag(loops[w].pc \in {"len", "pop"}) + Flag(r.pc \in {"len", "pop"})
<1> DEFINE S == AskingLoops
           T == {v \in Loops : loops'[v].pc \in {"len", "pop"}}
<1>1. \A v \in Loops : loops'[v] = IF v = w THEN r ELSE loops[v]
  BY DEF LoopTypes
<1>2. /\ S \in SUBSET Loops /\ T \in SUBSET Loops /\ IsFiniteSet(Loops)
      /\ \A v \in Loops : v # w => (v \in S <=> v \in T)
      /\ (w \in S <=> loops[w].pc \in {"len", "pop"}) /\ (w \in T <=> r.pc \in {"len", "pop"})
  BY <1>1, QueueAssumption DEF AskingLoops
<1>3. AskingLoops' = T
  BY DEF AskingLoops
<1> HIDE DEF S, T
<1>4. Cardinality(T) = Cardinality(S) - Flag(w \in S) + Flag(w \in T)
  BY <1>2, OneMoves
<1> QED
  BY <1>2, <1>3, <1>4 DEF Flag, S

(* With Redis a call of processNext only asks for the length. *)
LEMMA BeginAsks ==
  ASSUME Types, redis, NEW q \in Seq(Waiting), NEW n \in Nat, StartUnlessProcessing(q, n)
  PROVE  /\ queue' = q
         /\ Cardinality(AskingLoops') <= Cardinality(AskingLoops) + 1
         /\ processing' = processing
         /\ Active # {} => Active' # {}
<1>0. LoopTypes /\ tried \in [Jobs -> Nat]
  BY DEF Types, QueueTypes
<1>1. CASE queue' = q /\ UNCHANGED <<processing, loops>>
  <2>1. AskingLoops' = AskingLoops /\ Active' = Active
    BY <1>1 DEF AskingLoops, Active
  <2> QED
    BY <1>1, <2>1, AskingIs
<1>2. ASSUME NEW w \in Loops, NEW r \in Standing, Called(w, q, n, r)
      PROVE  /\ queue' = q
             /\ Cardinality(AskingLoops') <= Cardinality(AskingLoops) + 1
             /\ processing' = processing
             /\ Active # {} => Active' # {}
  <2>1. loops' = [loops EXCEPT ![w] = r] /\ queue' = q /\ processing' = processing /\ r.pc = "len"
    BY <1>2 DEF Called
  <2>2. Cardinality(AskingLoops') = Cardinality(AskingLoops)
           - Flag(loops[w].pc \in {"len", "pop"}) + Flag(r.pc \in {"len", "pop"})
    BY <1>0, <2>1, AskingMoves
  <2>3. w \in Active'
    BY <1>0, <2>1 DEF Active, LoopTypes
  <2> QED
    BY <2>1, <2>2, <2>3, AskingIs DEF Flag
<1> QED
  BY <1>0, <1>1, <1>2, StartMeans DEF MayBegin

LEMMA StepServed ==
  ASSUME Types, Served, Flagged, [QueueNext]_vars
  PROVE  Served' /\ Flagged'
<1> SUFFICES ASSUME redis'
             PROVE  Served' /\ Flagged'
  BY DEF Served, Flagged
<1>0. redis
  BY DEF QueueNext, RegisterProcessor, EnqueuePush, Enqueue, LoopStep, Length, Pop, DeserializeJob, Processed, Fail,
         MoveToDeadLetter, LoopDies, Ripen, RetryDeadLetter, TimerFires, Restart, vars, fixed
<1>1. /\ LoopTypes /\ LoopsApart /\ RestApart /\ queue \in Seq(Waiting) /\ timers \in Nat
      /\ callers \in [Jobs -> {"new", "pushed", "returned"}] /\ Len(queue) \in Nat
  BY LenProperties DEF Types, QueueTypes
<1>2. /\ IsFiniteSet(PushedJobs) /\ Cardinality(PushedJobs) \in Nat
      /\ Cardinality(AskingLoops) + Cardinality(PushedJobs) <= Len(queue)
      /\ Cardinality(AskingLoops) \in Nat
  BY <1>0, AskingIs, FS_CardinalityType DEF Served
<1>3. ASSUME UNCHANGED <<loops, callers, processing, died>>, Len(queue') = Len(queue)
      PROVE  Served' /\ Flagged'
  <2>1. AskingLoops' = AskingLoops /\ PushedJobs' = PushedJobs /\ Active' = Active
    BY <1>3 DEF AskingLoops, PushedJobs, Active
  <2> QED
    BY <1>0, <1>2, <1>3, <2>1 DEF Served, Flagged
<1>4. ASSUME NEW j \in Jobs, EnqueuePush(j)
      PROVE  Served' /\ Flagged'
  <2>1. /\ callers[j] = "new" /\ callers' = [callers EXCEPT ![j] = "pushed"]
        /\ queue' = Append(queue, NewJob(j)) /\ UNCHANGED <<loops, processing, died>>
    BY <1>4 DEF EnqueuePush, fixed
  <2>2. PushedJobs' = PushedJobs \cup {j} /\ j \notin PushedJobs
    BY <1>1, <2>1 DEF PushedJobs
  <2>3. IsFiniteSet(PushedJobs') /\ Cardinality(PushedJobs') = Cardinality(PushedJobs) + 1
    BY <1>2, <2>2, FS_AddElement
  <2>4. Len(queue') = Len(queue) + 1
    BY <1>1, <2>1, JobFacts, AppendProperties
  <2>5. AskingLoops' = AskingLoops /\ Active' = Active
    BY <2>1 DEF AskingLoops, Active
  <2> QED
    BY <1>0, <1>2, <2>1, <2>3, <2>4, <2>5 DEF Served, Flagged
<1>5. ASSUME NEW j \in Jobs, Enqueue(j)
      PROVE  Served' /\ Flagged'
  <2>1. /\ callers[j] = "pushed" /\ StartUnlessProcessing(queue, timers)
        /\ callers' = [callers EXCEPT ![j] = "returned"] /\ died' = died
    BY <1>0, <1>5 DEF Enqueue, fixed
  <2>2. PushedJobs' = PushedJobs \ {j} /\ j \in PushedJobs
    BY <1>1, <2>1 DEF PushedJobs
  <2>3. IsFiniteSet(PushedJobs') /\ Cardinality(PushedJobs') = Cardinality(PushedJobs) - 1
    BY <1>2, <2>2, FS_RemoveElement
  <2>4. /\ queue' = queue /\ Cardinality(AskingLoops') <= Cardinality(AskingLoops) + 1
        /\ processing' = processing /\ (Active # {} => Active' # {})
    BY <1>0, <1>1, <2>1, BeginAsks
  <2>5. Cardinality(AskingLoops') \in Nat
    BY QueueAssumption, FS_Subset, FS_CardinalityType DEF AskingLoops
  <2> QED
    BY <1>0, <1>2, <2>1, <2>3, <2>4, <2>5 DEF Served, Flagged
<1>6. ASSUME NEW w \in Loops, LoopStep(w) \/ LoopDies(w)
      PROVE  Served' /\ Flagged'
  <2>0. loops[w].pc \in {"idle", "len", "pop", "parse"}
    BY <1>0, <1>1 DEF LoopsApart
  <2>1. ASSUME NEW r, loops' = [loops EXCEPT ![w] = r], callers' = callers,
               Len(queue') \in Nat,
               Len(queue') >= Len(queue) - Flag(loops[w].pc \in {"len", "pop"}) + Flag(r.pc \in {"len", "pop"}),
               r.pc # "idle" \/ died'
        PROVE  Served' /\ Flagged'
    <3>1. Cardinality(AskingLoops') = Cardinality(AskingLoops)
            - Flag(loops[w].pc \in {"len", "pop"}) + Flag(r.pc \in {"len", "pop"})
      BY <1>1, <2>1, AskingMoves
    <3>2. PushedJobs' = PushedJobs
      BY <2>1 DEF PushedJobs
    <3>3. Served'
      BY <1>2, <2>1, <3>1, <3>2 DEF Served, Flag
    <3>4. r.pc # "idle" => w \in Active'
      BY <1>1, <2>1 DEF Active, LoopTypes
    <3> QED
      BY <2>1, <3>3, <3>4 DEF Flagged
  <2>2. CASE Length(w)
    <3> DEFINE r == [pc |-> "pop", job |-> None]
    <3>1. /\ loops' = [loops EXCEPT ![w] = r] /\ callers' = callers /\ queue' = queue
          /\ loops[w].pc = "len" /\ r.pc = "pop"
      BY <2>2 DEF Length, At, lists
    <3> HIDE DEF r
    <3>2. Len(queue') >= Len(queue) - Flag(loops[w].pc \in {"len", "pop"}) + Flag(r.pc \in {"len", "pop"})
      BY <1>1, <3>1 DEF Flag
    <3> QED
      BY <1>1, <2>1, <3>1, <3>2
  <2>3. CASE Pop(w)
    <3>1. Len(queue') = Len(queue) - 1 /\ Len(queue') \in Nat
      <4>1. Tail(queue) \in Seq(Waiting) /\ Len(Tail(queue)) = Len(queue) - 1
        BY <1>1, <2>3, HeadTailProperties DEF Pop
      <4> QED
        BY <2>3, <4>1, LenProperties DEF Pop
    <3> DEFINE r == [pc |-> "parse", job |-> Head(queue)]
    <3>2. loops' = [loops EXCEPT ![w] = r] /\ callers' = callers /\ loops[w].pc = "pop" /\ r.pc = "parse"
      BY <2>3 DEF Pop, At
    <3> HIDE DEF r
    <3>3. Len(queue') >= Len(queue) - Flag(loops[w].pc \in {"len", "pop"}) + Flag(r.pc \in {"len", "pop"})
      BY <1>1, <3>1, <3>2 DEF Flag
    <3> QED
      BY <2>1, <3>1, <3>2, <3>3
  <2>4. CASE DeserializeJob(w) \/ LoopDies(w)
    <3> DEFINE r == [pc |-> "idle", job |-> None]
    <3>1. /\ loops' = [loops EXCEPT ![w] = r] /\ callers' = callers /\ queue' = queue /\ died' = TRUE
          /\ r.pc = "idle"
      BY <2>4 DEF DeserializeJob, LoopDies, At, lists
    <3> HIDE DEF r
    <3>2. Len(queue') >= Len(queue) - Flag(loops[w].pc \in {"len", "pop"}) + Flag(r.pc \in {"len", "pop"})
      BY <1>1, <3>1 DEF Flag
    <3> QED
      BY <1>1, <2>1, <3>1, <3>2
  <2>5. CASE Processed(w) \/ Fail(w) \/ MoveToDeadLetter(w)
    BY <2>0, <2>5 DEF Processed, Fail, MoveToDeadLetter
  <2> QED
    BY <1>6, <2>2, <2>3, <2>4, <2>5 DEF LoopStep
<1>7. ASSUME NEW i \in 1..Len(queue), Ripen(i)
      PROVE  Served' /\ Flagged'
  <2>1. /\ queue' = [queue EXCEPT ![i] = [queue[i] EXCEPT !.late = FALSE]]
        /\ UNCHANGED <<loops, callers, processing, died>>
    BY <1>7 DEF Ripen, fixed
  <2>2. Len(queue') = Len(queue)
    BY <1>1, <2>1, ExceptSeq
  <2> QED
    BY <1>3, <2>1, <2>2
<1>8. CASE Restart
  <2>1. /\ \A w \in Loops : loops'[w].pc = "idle"
        /\ \A j \in Jobs : callers'[j] # "pushed"
        /\ queue' = queue /\ processing' = FALSE
    BY <1>0, <1>8 DEF Restart, Idle, lists
  <2>2. AskingLoops' = {} /\ PushedJobs' = {}
    BY <2>1 DEF AskingLoops, PushedJobs
  <2> QED
    BY <1>1, <2>1, <2>2, FS_EmptySet DEF Served, Flagged
<1>9. ASSUME NEW j \in Jobs, RegisterProcessor(j)
      PROVE  Served' /\ Flagged'
  BY <1>3, <1>9 DEF RegisterProcessor, lists
<1>10. CASE UNCHANGED vars
  BY <1>3, <1>10 DEF vars, lists, fixed
<1>11. CASE TimerFires \/ \E i \in 1..Len(dead) : RetryDeadLetter(i)
  BY <1>0, <1>1, <1>11 DEF TimerFires, RetryDeadLetter, RestApart
<1> QED
  BY <1>4, <1>5, <1>6, <1>7, <1>8, <1>9, <1>10, <1>11 DEF QueueNext

(* isProcessing is never left set without a loop that will clear it, unless *)
(* a loop died, which only happens with Redis; and a loop with Redis always *)
(* finds a job to pop (queue-service.ts, processNext).                      *)
THEOREM ProcessingHasALoop == QueueSpec => []ProcessingMeansALoop
<1>1. Init => Served /\ Flagged
  <2> SUFFICES ASSUME Init
               PROVE  Served /\ Flagged
    OBVIOUS
  <2>1. AskingLoops = {} /\ PushedJobs = {} /\ queue = << >> /\ processing = FALSE
    BY DEF Init, Idle, AskingLoops, PushedJobs
  <2> QED
    BY <2>1, EmptySeq, FS_EmptySet DEF Served, Flagged
<1>2. Types /\ AloneInMemory /\ Served /\ Flagged => ProcessingMeansALoop
  <2> SUFFICES ASSUME Types, AloneInMemory, Served, Flagged
               PROVE  ProcessingMeansALoop
    OBVIOUS
  <2>1. processing => (\E w \in Loops : loops[w].pc # "idle") \/ (redis /\ died)
    BY DEF Types, QueueTypes, AloneInMemory, Flagged, Active
  <2>2. Cardinality(AskingLoops) <= Len(queue)
    <3>1. CASE redis
      BY <3>1, AskingIs, FS_CardinalityType, LenProperties DEF Served, Types, QueueTypes
    <3>2. CASE ~redis
      <4>1. AskingLoops = {}
        BY <3>2 DEF AskingLoops, Types, LoopsApart
      <4> QED
        BY <4>1, FS_EmptySet, LenProperties DEF Types, QueueTypes
    <3> QED
      BY <3>1, <3>2
  <2> QED
    BY <2>1, <2>2 DEF ProcessingMeansALoop, AskingLoops
<1> QED
  BY <1>1, <1>2, InitTypes, StepTypes, InitAlone, StepAlone, StepServed, PTL DEF QueueSpec


-----------------------------------------------------------------------------
(* No job is lost or doubled. *)

LEMMA CountsNext ==
  ASSUME NEW j \in Jobs
  PROVE  /\ Hands(loops, j)' = Hands(loops', j)
         /\ Times(queue, JobOf(j))' = Times(queue', JobOf(j))
         /\ Times(dead, EntryOf(j))' = Times(dead', EntryOf(j))
BY DEF Hands, Times, JobOf, EntryOf

(* What came in, what a loop or the list holds, and what is no longer there. *)
Came(j) == IF callers[j] = "new" THEN 0 ELSE 1
Gone(j) == done[j] + tally[j].trimmed + tally[j].dropped + tally[j].lost
Balanced(j) == Came(j) = Hands(loops, j) + Times(queue, JobOf(j)) + Times(dead, EntryOf(j)) + Gone(j)

LEMMA NumbersNow ==
  ASSUME QueueTypes, NEW j \in Jobs
  PROVE  /\ Came(j) \in Nat /\ Gone(j) \in Nat
         /\ Hands(loops, j) \in Nat /\ Times(queue, JobOf(j)) \in Nat /\ Times(dead, EntryOf(j)) \in Nat
         /\ done[j] \in Nat /\ tally[j].trimmed \in Nat /\ tally[j].dropped \in Nat /\ tally[j].lost \in Nat
<1>1. done[j] \in Nat /\ tally[j].trimmed \in Nat /\ tally[j].dropped \in Nat /\ tally[j].lost \in Nat
  BY DEF QueueTypes, TallyType
<1>2. Times(queue, JobOf(j)) \in Nat /\ Times(dead, EntryOf(j)) \in Nat
  BY ListsAre DEF QueueTypes
<1> QED
  BY <1>1, <1>2, HandsAre DEF Came, Gone

LEMMA BalancedNow ==
  ASSUME QueueTypes
  PROVE  (\A j \in Jobs : Balanced(j)) <=>
           \A j \in Jobs : (IF callers[j] = "new" THEN 0 ELSE 1) =
             done[j] + InHand(j) + Listed(j) + tally[j].trimmed + tally[j].dropped + tally[j].lost
<1>1. ASSUME NEW j \in Jobs
      PROVE  Hands(loops, j) + Times(queue, JobOf(j)) + Times(dead, EntryOf(j)) + Gone(j)
               = done[j] + InHand(j) + Listed(j) + tally[j].trimmed + tally[j].dropped + tally[j].lost
  BY CountsAre, NumbersNow DEF Gone
<1> QED
  BY <1>1 DEF Balanced, Came

(* How the counts follow the steps of a loop.                               *)
Goes(w, r) == loops' = [loops EXCEPT ![w] = r]

LEMMA LoopMoves ==
  ASSUME LoopTypes, NEW w \in Loops, NEW r, Goes(w, r), NEW j \in Jobs
  PROVE  Hands(loops', j) = Hands(loops, j) - Flag(loops[w].job.id = j) + Flag(r.job.id = j)
<1> DEFINE S == {v \in Loops : loops[v].job.id = j}
           T == {v \in Loops : loops'[v].job.id = j}
<1>1. \A v \in Loops : loops'[v] = IF v = w THEN r ELSE loops[v]
  BY DEF LoopTypes, Goes
<1>2. /\ S \in SUBSET Loops /\ T \in SUBSET Loops /\ IsFiniteSet(Loops)
      /\ \A v \in Loops : v # w => (v \in S <=> v \in T)
      /\ (w \in S <=> loops[w].job.id = j) /\ (w \in T <=> r.job.id = j)
  BY <1>1, QueueAssumption
<1>3. Hands(loops, j) = Cardinality(S) /\ Hands(loops', j) = Cardinality(T)
  BY DEF Hands
<1> HIDE DEF S, T
<1>4. Cardinality(T) = Cardinality(S) - Flag(w \in S) + Flag(w \in T)
  BY <1>2, OneMoves
<1> QED
  BY <1>2, <1>3, <1>4 DEF Flag

LEMMA AtMoves ==
  ASSUME LoopTypes, NEW w \in Loops, NEW pc, NEW job, At(w, pc, job), NEW j \in Jobs
  PROVE  Hands(loops', j) = Hands(loops, j) - Flag(loops[w].job.id = j) + Flag(job.id = j)
<1> DEFINE r == [pc |-> pc, job |-> job]
<1>1. Goes(w, r) /\ r.job = job
  BY DEF At, Goes
<1> HIDE DEF r
<1>2. Hands(loops', j) = Hands(loops, j) - Flag(loops[w].job.id = j) + Flag(r.job.id = j)
  BY <1>1, LoopMoves
<1> QED
  BY <1>1, <1>2

LEMMA EmptyHands == \A j \in Jobs : Flag(None.id = j) = 0
BY JobFacts DEF Flag

LEMMA CalledConserves ==
  ASSUME LoopTypes, NEW w \in Loops, NEW q, NEW n, NEW r \in Standing, Called(w, q, n, r), NEW j \in Jobs
  PROVE  Hands(loops', j) + Times(queue', JobOf(j)) = Hands(loops, j) - Flag(loops[w].job.id = j) + Times(q, JobOf(j))
<1>1. Hands(loops', j) = Hands(loops, j) - Flag(loops[w].job.id = j) + Flag(r.job.id = j)
  <2>1. Goes(w, r)
    BY DEF Called, Goes
  <2> QED
    BY <2>1, LoopMoves
<1>2. Times(queue', JobOf(j)) \in Nat /\ Times(queue', JobOf(j)) + Flag(r.job.id = j) = Times(q, JobOf(j))
  BY DEF Called
<1> QED
  BY <1>1, <1>2, HandsAre DEF Flag

LEMMA CallConserves ==
  ASSUME LoopTypes, tried \in [Jobs -> Nat], NEW w \in Loops, NEW q \in Seq(Waiting), NEW n \in Nat,
         ProcessNext(w, q, n), NEW j \in Jobs
  PROVE  Hands(loops', j) + Times(queue', JobOf(j)) = Hands(loops, j) - Flag(loops[w].job.id = j) + Times(q, JobOf(j))
BY ProcessNextMeans, CalledConserves

LEMMA BeginConserves ==
  ASSUME LoopTypes, tried \in [Jobs -> Nat], NEW q \in Seq(Waiting), NEW n \in Nat,
         StartUnlessProcessing(q, n), NEW j \in Jobs
  PROVE  Hands(loops', j) + Times(queue', JobOf(j)) = Hands(loops, j) + Times(q, JobOf(j))
<1>1. CASE queue' = q /\ UNCHANGED loops
  BY <1>1
<1>2. ASSUME NEW w \in Loops, NEW r \in Standing, loops[w].pc = "idle", Called(w, q, n, r)
      PROVE  Hands(loops', j) + Times(queue', JobOf(j)) = Hands(loops, j) + Times(q, JobOf(j))
  <2>1. loops[w].job = None
    BY <1>2, StandingFacts DEF LoopTypes, Holding
  <2>2. Flag(loops[w].job.id = j) = 0
    BY <2>1, EmptyHands
  <2>3. Hands(loops', j) + Times(queue', JobOf(j)) = Hands(loops, j) - Flag(loops[w].job.id = j) + Times(q, JobOf(j))
    BY <1>2, CalledConserves
  <2> QED
    BY <2>2, <2>3, HandsAre
<1> QED
  BY <1>1, <1>2, StartMeans DEF MayBegin

LEMMA PutConserves ==
  ASSUME NEW q \in Seq(Waiting), NEW x \in Waiting, NEW j \in Jobs
  PROVE  /\ Append(q, x) \in Seq(Waiting)
         /\ Times(q, JobOf(j)) \in Nat
         /\ Times(Append(q, x), JobOf(j)) = Times(q, JobOf(j)) + Flag(x.id = j)
<1>1. x \in JobOf(j) <=> x.id = j
  BY JobFacts DEF JobOf
<1>2. Times(Append(q, x), JobOf(j)) = Times(q, JobOf(j)) + Flag(x \in JobOf(j))
  BY AppendTimes
<1> QED
  BY <1>1, <1>2, TimesType, AppendProperties DEF Flag

LEMMA TakeOffConserves ==
  ASSUME NEW d \in Seq(EntryType), NEW i \in 1..Len(d), NEW j \in Jobs
  PROVE  /\ Times(d, EntryOf(j)) \in Nat
         /\ Times(RemoveAt(d, i), EntryOf(j)) = Times(d, EntryOf(j)) - Flag(d[i].job.id = j)
<1>1. d[i] \in EntryOf(j) <=> d[i].job.id = j
  BY ElementOfSeq DEF EntryOf
<1>2. Times(RemoveAt(d, i), EntryOf(j)) = Times(d, EntryOf(j)) - Flag(d[i] \in EntryOf(j))
  BY RemoveTimes
<1> QED
  BY <1>1, <1>2, TimesType DEF Flag

(* A burial moves the job to the dead letters, and may trim one off them.   *)
LEMMA BuryConserves ==
  ASSUME QueueTypes, NEW job \in JobType, Bury(job), NEW j \in Jobs
  PROVE  Times(dead', EntryOf(j)) + tally'[j].trimmed
           = Times(dead, EntryOf(j)) + tally[j].trimmed + Flag(job.id = j)
<1> DEFINE e == [job |-> job, failedAt |-> tally[job.id].buried + 1]
           full == Len(dead) = MaxDeadLetter
<1>1. /\ dead \in Seq(EntryType) /\ tally \in [Jobs -> TallyType] /\ job.id \in Jobs
  BY JobFacts DEF QueueTypes
<1>2. e \in EntryType /\ (e \in EntryOf(j) <=> job.id = j)
  BY <1>1 DEF EntryType, EntryOf, TallyType
<1>3. dead' = (IF full THEN Tail(Append(dead, e)) ELSE Append(dead, e))
  BY DEF Bury
<1>4. tally'[j].trimmed = tally[j].trimmed + Flag(full /\ j = Head(Append(dead, e)).job.id)
  BY BuryCounts
<1> HIDE DEF e, full
<1>5. Append(dead, e) \in Seq(EntryType) /\ Append(dead, e) # << >>
  BY <1>1, <1>2, AppendProperties
<1>6. Times(Append(dead, e), EntryOf(j)) = Times(dead, EntryOf(j)) + Flag(e \in EntryOf(j))
  BY <1>1, <1>2, AppendTimes
<1>7. Times(Tail(Append(dead, e)), EntryOf(j))
        = Times(Append(dead, e), EntryOf(j)) - Flag(Head(Append(dead, e)) \in EntryOf(j))
  BY <1>5, TailTimes
<1>8. Head(Append(dead, e)) \in EntryOf(j) <=> j = Head(Append(dead, e)).job.id
  BY <1>5, HeadTailProperties DEF EntryOf
<1>9. Times(dead, EntryOf(j)) \in Nat /\ tally[j].trimmed \in Nat
  BY <1>1, TimesType DEF TallyType
<1>10. CASE full
  <2>1. dead' = Tail(Append(dead, e))
    BY <1>3, <1>10
  <2> QED
    BY <1>2, <1>4, <1>6, <1>7, <1>8, <1>9, <1>10, <2>1, SMTT(40) DEF Flag
<1>11. CASE ~full
  <2>1. dead' = Append(dead, e)
    BY <1>3, <1>11
  <2> QED
    BY <1>2, <1>4, <1>6, <1>9, <1>11, <2>1, SMTT(40) DEF Flag
<1> QED
  BY <1>10, <1>11

(* The seven numbers of one job, balanced before and after a step.          *)
LEMMA StaysBalanced ==
  ASSUME QueueTypes, QueueTypes', NEW j \in Jobs, Balanced(j),
         NEW k \in Nat, NEW m \in Nat, NEW n \in Nat,
         Came(j)' = Came(j) + k,
         Hands(loops', j) + Times(queue', JobOf(j)) + m = Hands(loops, j) + Times(queue, JobOf(j)) + k + n,
         Times(dead', EntryOf(j)) + Gone(j)' + n = Times(dead, EntryOf(j)) + Gone(j) + m
  PROVE  Balanced(j)'
<1> DEFINE H == Hands(loops, j)
           Q == Times(queue, JobOf(j))
           D == Times(dead, EntryOf(j))
           G == Gone(j)
           H1 == Hands(loops', j)
           Q1 == Times(queue', JobOf(j))
           D1 == Times(dead', EntryOf(j))
           G1 == Gone(j)'
<1>1. H \in Nat /\ Q \in Nat /\ D \in Nat /\ G \in Nat /\ Came(j) \in Nat
  BY NumbersNow
<1>2. H1 \in Nat /\ Q1 \in Nat /\ D1 \in Nat /\ G1 \in Nat
  <2>1. done'[j] \in Nat /\ tally'[j].trimmed \in Nat /\ tally'[j].dropped \in Nat /\ tally'[j].lost \in Nat
    BY DEF QueueTypes, TallyType
  <2>2. Q1 \in Nat /\ D1 \in Nat
    BY ListsAre DEF QueueTypes
  <2> QED
    BY <2>1, <2>2, HandsAre DEF Gone
<1>3. Came(j) = H + Q + D + G
  BY DEF Balanced
<1>4. Came(j)' = H1 + Q1 + D1 + G1
  <2>1. Came(j)' = Came(j) + k /\ H1 + Q1 + m = H + Q + k + n /\ D1 + G1 + n = D + G + m
    OBVIOUS
  <2> HIDE DEF H, Q, D, G, H1, Q1, D1, G1
  <2> QED
    BY <1>1, <1>2, <1>3, <2>1, SMTT(30)
<1> QED
  BY <1>4, CountsNext DEF Balanced

(* What is gone grows with the work done, the jobs dropped or lost. *)
LEMMA GoneGrows ==
  ASSUME QueueTypes, NEW j \in Jobs, NEW k \in Nat, NEW m \in Nat, NEW n \in Nat,
         done'[j] = done[j] + k, tally'[j].trimmed = tally[j].trimmed,
         tally'[j].dropped = tally[j].dropped + m, tally'[j].lost = tally[j].lost + n
  PROVE  Gone(j)' = Gone(j) + k + m + n
BY NumbersNow DEF Gone

LEMMA LoopStepBalanced ==
  ASSUME Types, QueueTypes', NEW j \in Jobs, Balanced(j), NEW w \in Loops, LoopStep(w) \/ LoopDies(w)
  PROVE  Balanced(j)'
<1> DEFINE job == loops[w].job
           H == Hands(loops, j)
           Q == Times(queue, JobOf(j))
<1>0. /\ QueueTypes /\ LoopTypes /\ tried \in [Jobs -> Nat]
      /\ queue \in Seq(Waiting) /\ dead \in Seq(EntryType) /\ timers \in Nat
      /\ done \in [Jobs -> Nat] /\ tally \in [Jobs -> TallyType]
  BY DEF Types, QueueTypes
<1>1. H \in Nat /\ Q \in Nat /\ Hands(loops', j) \in Nat /\ Times(queue', JobOf(j)) \in Nat
  BY <1>0, NumbersNow, HandsAre, ListsAre DEF QueueTypes
<1>2. /\ loops[w].pc \in Holding => job \in JobType
      /\ loops[w].pc \notin Holding => Flag(job.id = j) = 0
      /\ Flag(job.id = j) \in Nat
  BY <1>0, StandingFacts, EmptyHands DEF LoopTypes, Flag
<1>3. ASSUME UNCHANGED <<callers, done, tally, dead>>, Hands(loops', j) + Times(queue', JobOf(j)) = H + Q
      PROVE  Balanced(j)'
  <2>1. Came(j)' = Came(j) + 0 /\ Gone(j)' = Gone(j)
    BY <1>0, <1>3, NumbersNow DEF Came, Gone
  <2> QED
    BY <1>0, <1>1, <1>3, <2>1, StaysBalanced
<1>4. CASE Length(w) \/ LoopDies(w)
  <2>1. loops[w].pc \in {"len", "pop"}
    BY <1>4 DEF Length, LoopDies
  <2>2. UNCHANGED <<callers, done, tally, dead, queue>> /\ \E pc : At(w, pc, None)
    BY <1>4 DEF Length, LoopDies, lists, work
  <2>3. Hands(loops', j) = H - Flag(job.id = j) + Flag(None.id = j)
    BY <1>0, <2>2, AtMoves
  <2>4. Flag(job.id = j) = 0 /\ Flag(None.id = j) = 0
    BY <1>2, <2>1, EmptyHands DEF Holding
  <2> QED
    BY <1>1, <1>3, <2>2, <2>3, <2>4
<1>5. CASE Pop(w)
  <2> DEFINE x == Head(queue)
  <2>1. x \in Waiting /\ queue' = Tail(queue) /\ queue # << >> /\ At(w, "parse", x)
    BY <1>0, <1>5, HeadTailProperties DEF Pop
  <2>2. Flag(job.id = j) = 0
    BY <1>2, <1>5 DEF Pop, Holding
  <2>3. Hands(loops', j) = H - Flag(job.id = j) + Flag(x.id = j)
    BY <1>0, <2>1, AtMoves
  <2>4. Times(queue', JobOf(j)) = Q - Flag(x.id = j)
    <3>1. Times(Tail(queue), JobOf(j)) = Q - Flag(Head(queue) \in JobOf(j))
      BY <1>0, <2>1, TailTimes
    <3>2. Head(queue) \in JobOf(j) <=> x.id = j
      BY <2>1, JobFacts DEF JobOf
    <3> QED
      BY <2>1, <3>1, <3>2
  <2>5. UNCHANGED <<callers, done, tally, dead>> /\ Flag(x.id = j) \in Nat
    BY <1>5 DEF Pop, work, Flag
  <2> HIDE DEF x
  <2>6. Hands(loops', j) + Times(queue', JobOf(j)) = H + Q
    BY <1>1, <2>2, <2>3, <2>4, <2>5
  <2> QED
    BY <1>3, <2>5, <2>6
<1>6. CASE DeserializeJob(w)
  <2>1. /\ job \in JobType /\ At(w, "idle", None) /\ Drop(job)
        /\ UNCHANGED <<callers, done, dead, queue>>
    BY <1>2, <1>6 DEF DeserializeJob, Holding, lists, work
  <2>2. Hands(loops', j) = H - Flag(job.id = j) + Flag(None.id = j) /\ Flag(None.id = j) = 0
    BY <1>0, <2>1, AtMoves, EmptyHands
  <2>3. /\ tally'[j].trimmed = tally[j].trimmed /\ tally'[j].lost = tally[j].lost
        /\ tally'[j].dropped = tally[j].dropped + Flag(job.id = j)
    BY <1>0, <2>1, DroppedCounts
  <2>4. Came(j)' = Came(j) + 0 /\ Gone(j)' = Gone(j) + Flag(job.id = j)
    <3>1. Came(j)' = Came(j) + 0 /\ Gone(j) \in Nat
      BY <1>0, <2>1, NumbersNow DEF Came
    <3>2. Gone(j)' = Gone(j) + 0 + Flag(job.id = j) + 0
      <4>1. /\ done'[j] = done[j] + 0 /\ tally'[j].trimmed = tally[j].trimmed
            /\ tally'[j].dropped = tally[j].dropped + Flag(job.id = j) /\ tally'[j].lost = tally[j].lost + 0
        BY <1>0, <2>1, <2>3, NumbersNow
      <4>2. QueueTypes /\ Flag(job.id = j) \in Nat /\ 0 \in Nat
        BY <1>0, <1>2
      <4> HIDE DEF job
      <4> QED
        BY <4>1, <4>2, GoneGrows, SMTT(30)
    <3> HIDE DEF job
    <3> QED
      BY <1>2, <3>1, <3>2
  <2>5. /\ Hands(loops', j) + Times(queue', JobOf(j)) + Flag(job.id = j) = H + Q + 0 + 0
        /\ Times(dead', EntryOf(j)) + Gone(j)' + 0 = Times(dead, EntryOf(j)) + Gone(j) + Flag(job.id = j)
    <3>1. Times(dead', EntryOf(j)) = Times(dead, EntryOf(j)) /\ Times(queue', JobOf(j)) = Q
      BY <2>1
    <3>2. Times(dead, EntryOf(j)) \in Nat /\ Gone(j) \in Nat
      BY <1>0, NumbersNow
    <3> HIDE DEF job, H, Q
    <3> QED
      BY <1>1, <1>2, <2>2, <2>4, <3>1, <3>2
  <2> QED
    BY <1>0, <1>2, <2>4, <2>5, StaysBalanced
<1>7. CASE Processed(w)
  <2>1. /\ job \in JobType /\ ProcessNext(w, queue, timers)
        /\ done' = [done EXCEPT ![job.id] = @ + 1] /\ UNCHANGED <<callers, dead, tally>>
    BY <1>2, <1>7 DEF Processed, Holding
  <2>2. Hands(loops', j) + Times(queue', JobOf(j)) = H - Flag(job.id = j) + Q
    BY <1>0, <2>1, CallConserves
  <2>3. done'[j] = done[j] + Flag(job.id = j)
    <3>1. job.id \in Jobs
      BY <2>1, JobFacts
    <3>2. done'[j] = IF job.id = j THEN done[j] + 1 ELSE done[j]
      BY <1>0, <2>1, <3>1
    <3> HIDE DEF job
    <3> QED
      BY <1>0, <3>2 DEF Flag
  <2>4. Came(j)' = Came(j) + 0 /\ Gone(j)' = Gone(j) + Flag(job.id = j)
    <3>1. Came(j)' = Came(j) + 0 /\ Gone(j) \in Nat
      BY <1>0, <2>1, NumbersNow DEF Came
    <3>2. Gone(j)' = Gone(j) + Flag(job.id = j) + 0 + 0
      <4>1. /\ done'[j] = done[j] + Flag(job.id = j) /\ tally'[j].trimmed = tally[j].trimmed
            /\ tally'[j].dropped = tally[j].dropped + 0 /\ tally'[j].lost = tally[j].lost + 0
        <5>1. tally' = tally /\ tally[j].dropped \in Nat /\ tally[j].lost \in Nat
          BY <1>0, <2>1, NumbersNow
        <5> HIDE DEF job
        <5> QED
          BY <2>3, <5>1
      <4>2. QueueTypes /\ Flag(job.id = j) \in Nat /\ 0 \in Nat
        BY <1>0, <1>2
      <4> HIDE DEF job
      <4> QED
        BY <4>1, <4>2, GoneGrows, SMTT(30)
    <3> HIDE DEF job
    <3> QED
      BY <1>2, <3>1, <3>2
  <2>5. /\ Hands(loops', j) + Times(queue', JobOf(j)) + Flag(job.id = j) = H + Q + 0 + 0
        /\ Times(dead', EntryOf(j)) + Gone(j)' + 0 = Times(dead, EntryOf(j)) + Gone(j) + Flag(job.id = j)
    <3>1. Times(dead', EntryOf(j)) = Times(dead, EntryOf(j))
      BY <2>1
    <3>2. Times(dead, EntryOf(j)) \in Nat /\ Gone(j) \in Nat
      BY <1>0, NumbersNow
    <3> HIDE DEF job, H, Q
    <3> QED
      BY <1>1, <1>2, <2>2, <2>4, <3>1, <3>2
  <2> QED
    BY <1>0, <1>2, <2>4, <2>5, StaysBalanced
<1>8. CASE Fail(w)
  <2>1. job \in JobType /\ UNCHANGED <<callers, done, tally, dead>>
    BY <1>2, <1>8 DEF Fail, Holding
  <2>2. CASE At(w, "bury", job) /\ UNCHANGED queue
    <3>1. Hands(loops', j) = H - Flag(job.id = j) + Flag(job.id = j)
      BY <1>0, <2>2, AtMoves
    <3> QED
      BY <1>1, <1>2, <1>3, <2>1, <2>2, <3>1
  <2>3. CASE ~Exhausted(job) /\ ProcessNext(w, Append(queue, Late(job)), timers)
    <3>1. Late(job) \in Waiting /\ Late(job).id = job.id
      BY <2>1, <2>3, JobFacts
    <3>2. /\ Append(queue, Late(job)) \in Seq(Waiting)
          /\ Times(Append(queue, Late(job)), JobOf(j)) = Q + Flag(job.id = j)
      BY <1>0, <3>1, PutConserves
    <3>3. Hands(loops', j) + Times(queue', JobOf(j))
            = H - Flag(job.id = j) + Times(Append(queue, Late(job)), JobOf(j))
      BY <1>0, <2>3, <3>2, CallConserves
    <3> QED
      BY <1>1, <1>2, <1>3, <2>1, <3>2, <3>3
  <2> QED
    BY <1>8, <2>2, <2>3 DEF Fail
<1>9. CASE MoveToDeadLetter(w)
  <2>1. UNCHANGED <<callers, done>> /\ job \in JobType /\ Bury(job) /\ ProcessNext(w, queue, timers)
    BY <1>2, <1>9 DEF MoveToDeadLetter, Holding
  <2>2. Hands(loops', j) + Times(queue', JobOf(j)) = H - Flag(job.id = j) + Q
    BY <1>0, <2>1, CallConserves
  <2>3. /\ Times(dead', EntryOf(j)) + tally'[j].trimmed
             = Times(dead, EntryOf(j)) + tally[j].trimmed + Flag(job.id = j)
        /\ tally'[j].dropped = tally[j].dropped /\ tally'[j].lost = tally[j].lost
        /\ tally'[j].trimmed \in Nat /\ Times(dead', EntryOf(j)) \in Nat
    BY <1>0, <2>1, BuryConserves, BuryCounts, ListsAre DEF QueueTypes, TallyType
  <2>4. Came(j)' = Came(j) + 0
    BY <1>0, <2>1, NumbersNow DEF Came
  <2>5. Times(dead', EntryOf(j)) + Gone(j)' = Times(dead, EntryOf(j)) + Gone(j) + Flag(job.id = j)
    <3>1. Gone(j)' = done[j] + tally'[j].trimmed + tally[j].dropped + tally[j].lost
      BY <2>1, <2>3 DEF Gone
    <3>2. /\ done[j] \in Nat /\ tally[j].trimmed \in Nat /\ tally[j].dropped \in Nat /\ tally[j].lost \in Nat
          /\ Times(dead, EntryOf(j)) \in Nat
      BY <1>0, NumbersNow
    <3> DEFINE k == Flag(job.id = j)
               t == tally[j].trimmed
               t1 == tally'[j].trimmed
               D == Times(dead, EntryOf(j))
               D1 == Times(dead', EntryOf(j))
               R == tally[j].dropped + tally[j].lost
    <3>3. /\ k \in Nat /\ t \in Nat /\ t1 \in Nat /\ D \in Nat /\ D1 \in Nat /\ R \in Nat /\ done[j] \in Nat
          /\ D1 + t1 = D + t + k
          /\ Gone(j)' = done[j] + t1 + R /\ Gone(j) = done[j] + t + R
      BY <1>2, <2>3, <3>1, <3>2 DEF Gone
    <3> HIDE DEF k, t, t1, D, D1, R
    <3>4. D1 + Gone(j)' = D + Gone(j) + k
      BY <3>3
    <3> QED
      BY <3>4 DEF D, D1, k
  <2>6. /\ Hands(loops', j) + Times(queue', JobOf(j)) + Flag(job.id = j) = H + Q + 0 + 0
        /\ Times(dead', EntryOf(j)) + Gone(j)' + 0 = Times(dead, EntryOf(j)) + Gone(j) + Flag(job.id = j)
    <3>1. Times(dead', EntryOf(j)) + Gone(j)' \in Nat
      BY <1>0, <1>2, <2>5, NumbersNow
    <3> QED
      BY <1>1, <1>2, <2>2, <2>5, <3>1
  <2> QED
    BY <1>0, <1>2, <2>4, <2>6, StaysBalanced
<1> QED
  BY <1>4, <1>5, <1>6, <1>7, <1>8, <1>9 DEF LoopStep

LEMMA CallerStepBalanced ==
  ASSUME Types, QueueTypes', NEW j \in Jobs, Balanced(j),
         \/ \E i \in Jobs : RegisterProcessor(i) \/ EnqueuePush(i) \/ Enqueue(i)
         \/ \E i \in 1..Len(queue) : Ripen(i)
         \/ \E i \in 1..Len(dead) : RetryDeadLetter(i)
         \/ TimerFires
  PROVE  Balanced(j)'
<1> DEFINE H == Hands(loops, j)
           Q == Times(queue, JobOf(j))
<1>0. /\ QueueTypes /\ LoopTypes /\ tried \in [Jobs -> Nat]
      /\ queue \in Seq(Waiting) /\ dead \in Seq(EntryType) /\ timers \in Nat
      /\ callers \in [Jobs -> {"new", "pushed", "returned"}]
  BY DEF Types, QueueTypes
<1>1. H \in Nat /\ Q \in Nat /\ Hands(loops', j) \in Nat /\ Times(queue', JobOf(j)) \in Nat
  BY <1>0, NumbersNow, HandsAre, ListsAre DEF QueueTypes
<1>3. ASSUME UNCHANGED <<callers, done, tally, dead>>, Hands(loops', j) + Times(queue', JobOf(j)) = H + Q
      PROVE  Balanced(j)'
  <2>1. Came(j)' = Came(j) + 0 /\ Gone(j)' = Gone(j)
    BY <1>0, <1>3, NumbersNow DEF Came, Gone
  <2> QED
    BY <1>0, <1>1, <1>3, <2>1, StaysBalanced
<1>4. ASSUME NEW i \in Jobs, RegisterProcessor(i)
      PROVE  Balanced(j)'
  BY <1>3, <1>4 DEF RegisterProcessor, lists, work
<1>5. ASSUME NEW i \in Jobs, callers[i] = "new", callers'[i] # "new",
             \A k \in Jobs \ {i} : callers'[k] = callers[k],
             Hands(loops', j) + Times(queue', JobOf(j)) = H + Q + Flag(i = j), UNCHANGED <<done, tally, dead>>
      PROVE  Balanced(j)'
  <2>1. Came(j)' = Came(j) + Flag(i = j) /\ Gone(j)' = Gone(j) /\ Flag(i = j) \in Nat
    BY <1>0, <1>5, NumbersNow DEF Came, Gone, Flag
  <2>2. /\ Hands(loops', j) + Times(queue', JobOf(j)) + 0 = H + Q + Flag(i = j) + 0
        /\ Times(dead', EntryOf(j)) + Gone(j)' + 0 = Times(dead, EntryOf(j)) + Gone(j) + 0
    BY <1>0, <1>1, <1>5, <2>1, NumbersNow
  <2> QED
    BY <1>0, <2>1, <2>2, StaysBalanced
<1>6. ASSUME NEW i \in Jobs, EnqueuePush(i) \/ Enqueue(i)
      PROVE  Balanced(j)'
  <2>0. NewJob(i) \in Waiting /\ NewJob(i).id = i
    BY JobFacts
  <2>1. /\ Append(queue, NewJob(i)) \in Seq(Waiting) /\ Flag(i = j) \in Nat
        /\ Times(Append(queue, NewJob(i)), JobOf(j)) = Q + Flag(i = j)
    BY <1>0, <2>0, PutConserves DEF Flag
  <2>2. UNCHANGED <<done, tally, dead>> /\ \E s \in {"pushed", "returned"} : callers' = [callers EXCEPT ![i] = s]
    BY <1>6 DEF EnqueuePush, Enqueue, work
  <2>3. callers'[i] # "new" /\ \A k \in Jobs \ {i} : callers'[k] = callers[k]
    BY <1>0, <2>2
  <2>4. CASE callers[i] = "new" /\ queue' = Append(queue, NewJob(i)) /\ loops' = loops
    BY <1>1, <1>5, <2>1, <2>2, <2>3, <2>4
  <2>5. CASE callers[i] = "new" /\ StartUnlessProcessing(Append(queue, NewJob(i)), timers)
    <3>1. Hands(loops', j) + Times(queue', JobOf(j)) = H + Times(Append(queue, NewJob(i)), JobOf(j))
      BY <1>0, <2>1, <2>5, BeginConserves
    <3> QED
      BY <1>1, <1>5, <2>1, <2>2, <2>3, <2>5, <3>1
  <2>6. CASE callers[i] = "pushed" /\ StartUnlessProcessing(queue, timers)
    <3>1. Hands(loops', j) + Times(queue', JobOf(j)) = H + Q
      BY <1>0, <2>6, BeginConserves
    <3>2. Came(j)' = Came(j) + 0 /\ Gone(j)' = Gone(j)
      BY <1>0, <2>2, <2>3, <2>6, NumbersNow DEF Came, Gone
    <3> QED
      BY <1>0, <1>1, <2>2, <3>1, <3>2, StaysBalanced
  <2> QED
    BY <1>6, <2>4, <2>5, <2>6 DEF EnqueuePush, Enqueue
<1>7. ASSUME NEW i \in 1..Len(queue), Ripen(i)
      PROVE  Balanced(j)'
  <2> DEFINE x == [queue[i] EXCEPT !.late = FALSE]
  <2>1. queue[i] \in Waiting
    BY <1>0, ElementOfSeq
  <2>2. \A y \in Waiting : [y EXCEPT !.late = FALSE] \in Waiting /\ [y EXCEPT !.late = FALSE].id = y.id
    BY DEF Waiting
  <2>3. x \in Waiting /\ x.id = queue[i].id
    BY <2>1, <2>2
  <2>4. queue' = [queue EXCEPT ![i] = x] /\ UNCHANGED <<callers, done, tally, dead, loops>>
    BY <1>7 DEF Ripen, work
  <2>5. x \in JobOf(j) <=> queue[i] \in JobOf(j)
    BY <2>1, <2>3, JobFacts DEF JobOf
  <2> HIDE DEF x
  <2>6. Times(ReplaceAt(queue, i, x), JobOf(j)) = Times(queue, JobOf(j))
    BY <1>0, <2>3, <2>5, ReplaceTimes
  <2>7. Hands(loops', j) + Times(queue', JobOf(j)) = H + Q
    BY <2>4, <2>6 DEF ReplaceAt
  <2> QED
    BY <1>3, <2>4, <2>7
<1>8. ASSUME NEW i \in 1..Len(dead), RetryDeadLetter(i)
      PROVE  Balanced(j)'
  <2> DEFINE e == dead[i]
             k == Flag(e.job.id = j)
  <2>0. e \in EntryType /\ e.job \in JobType
    <3>1. e \in EntryType
      BY <1>0, ElementOfSeq
    <3> HIDE DEF e
    <3> QED
      BY <3>1 DEF EntryType
  <2>1. Reset(e.job) \in Waiting /\ Reset(e.job).id = e.job.id /\ k \in Nat
    BY <2>0, JobFacts DEF Flag
  <2>2. /\ dead' = RemoveAt(dead, i) /\ StartUnlessProcessing(Append(queue, Reset(e.job)), timers)
        /\ UNCHANGED <<callers, done, tally>>
    BY <1>8 DEF RetryDeadLetter
  <2>3. /\ Append(queue, Reset(e.job)) \in Seq(Waiting)
        /\ Times(Append(queue, Reset(e.job)), JobOf(j)) = Q + k
    BY <1>0, <2>1, PutConserves
  <2>4. Hands(loops', j) + Times(queue', JobOf(j)) = H + Times(Append(queue, Reset(e.job)), JobOf(j))
    BY <1>0, <2>2, <2>3, BeginConserves
  <2>5. Times(dead', EntryOf(j)) = Times(dead, EntryOf(j)) - k
    BY <1>0, <2>2, TakeOffConserves
  <2>6. Came(j)' = Came(j) + 0 /\ Gone(j)' = Gone(j)
    BY <1>0, <2>2, NumbersNow DEF Came, Gone
  <2>7. /\ Hands(loops', j) + Times(queue', JobOf(j)) + 0 = H + Q + 0 + k
        /\ Times(dead', EntryOf(j)) + Gone(j)' + k = Times(dead, EntryOf(j)) + Gone(j) + 0
    <3>1. Times(dead, EntryOf(j)) \in Nat /\ Gone(j) \in Nat
      BY <1>0, NumbersNow
    <3> HIDE DEF k, e, H, Q
    <3> QED
      BY <1>1, <2>1, <2>3, <2>4, <2>5, <2>6, <3>1
  <2> HIDE DEF k, e
  <2> QED
    BY <1>0, <2>1, <2>6, <2>7, StaysBalanced
<1>9. CASE TimerFires
  <2>1. timers - 1 \in Nat /\ UNCHANGED <<dead, callers, done, tally>>
    BY <1>0, <1>9 DEF TimerFires
  <2>2. CASE StartUnlessProcessing(queue, timers - 1)
    <3>1. Hands(loops', j) + Times(queue', JobOf(j)) = H + Q
      BY <1>0, <2>1, <2>2, BeginConserves
    <3> QED
      BY <1>3, <2>1, <3>1
  <2>3. CASE UNCHANGED <<queue, processing, loops>>
    BY <1>3, <2>1, <2>3
  <2> QED
    BY <1>9, <2>2, <2>3 DEF TimerFires
<1> QED
  BY <1>4, <1>6, <1>7, <1>8, <1>9

LEMMA EmptyTimes == \A P : Times(<< >>, P) = 0
<1>1. 1..Len(<< >>) = {}
  BY EmptySeq
<1>2. \A P : {i \in 1..Len(<< >>) : << >>[i] \in P} = {}
  BY <1>1
<1> QED
  BY <1>2, FS_EmptySet DEF Times

LEMMA RestartBalanced ==
  ASSUME Types, QueueTypes', NEW j \in Jobs, Balanced(j), Restart
  PROVE  Balanced(j)'
<1> DEFINE H == Hands(loops, j)
           Q == Times(queue, JobOf(j))
           D == Times(dead, EntryOf(j))
<1>0. QueueTypes /\ callers \in [Jobs -> {"new", "pushed", "returned"}]
  BY DEF Types, QueueTypes
<1>1. /\ tally'[j].trimmed = tally[j].trimmed /\ tally'[j].dropped = tally[j].dropped
      /\ tally'[j].lost = tally[j].lost + H + IF redis THEN 0 ELSE Q + D
  BY <1>0, RestartCounts, CountsAre
<1>2. Hands(loops', j) = 0
  <2>1. {w \in Loops : loops'[w].job.id = j} = {}
    BY JobFacts DEF Restart, Idle
  <2> QED
    BY <2>1, FS_EmptySet DEF Hands
<1>3. Came(j)' = Came(j) + 0 /\ done'[j] = done[j]
  BY <1>0, NumbersNow DEF Restart, Came, work
<1>4. /\ H \in Nat /\ Q \in Nat /\ D \in Nat /\ Gone(j) \in Nat /\ done[j] \in Nat
      /\ tally[j].trimmed \in Nat /\ tally[j].dropped \in Nat /\ tally[j].lost \in Nat
  BY <1>0, NumbersNow
<1>5. CASE redis
  <2>1. Times(queue', JobOf(j)) = Q /\ Times(dead', EntryOf(j)) = D
    BY <1>5 DEF Restart, lists
  <2>2. Gone(j)' = Gone(j) + H
    <3> HIDE DEF H, Q, D
    <3> QED
      BY <1>1, <1>3, <1>4, <1>5 DEF Gone
  <2>3. /\ Hands(loops', j) + Times(queue', JobOf(j)) + H = H + Q + 0 + 0
        /\ Times(dead', EntryOf(j)) + Gone(j)' + 0 = D + Gone(j) + H
    BY <1>2, <1>4, <2>1, <2>2
  <2> QED
    BY <1>0, <1>3, <1>4, <2>3, StaysBalanced
<1>6. CASE ~redis
  <2>1. Times(queue', JobOf(j)) = 0 /\ Times(dead', EntryOf(j)) = 0
    BY <1>6, EmptyTimes DEF Restart
  <2>2. Gone(j)' = Gone(j) + H + Q + D
    <3> HIDE DEF H, Q, D
    <3> QED
      BY <1>1, <1>3, <1>4, <1>6 DEF Gone
  <2>3. /\ Hands(loops', j) + Times(queue', JobOf(j)) + (H + Q) = H + Q + 0 + 0
        /\ Times(dead', EntryOf(j)) + Gone(j)' + 0 = D + Gone(j) + (H + Q)
    BY <1>2, <1>4, <2>1, <2>2
  <2>4. H + Q \in Nat
    BY <1>4
  <2> QED
    BY <1>0, <1>3, <2>3, <2>4, StaysBalanced
<1> QED
  BY <1>5, <1>6

LEMMA StepBalanced ==
  ASSUME Types, QueueTypes', [QueueNext]_vars, NEW j \in Jobs, Balanced(j)
  PROVE  Balanced(j)'
<1>1. CASE \E w \in Loops : LoopStep(w) \/ LoopDies(w)
  BY <1>1, LoopStepBalanced
<1>2. CASE \/ \E i \in Jobs : RegisterProcessor(i) \/ EnqueuePush(i) \/ Enqueue(i)
           \/ \E i \in 1..Len(queue) : Ripen(i)
           \/ \E i \in 1..Len(dead) : RetryDeadLetter(i)
           \/ TimerFires
  BY <1>2, CallerStepBalanced
<1>3. CASE Restart
  BY <1>3, RestartBalanced
<1>4. CASE UNCHANGED vars
  BY <1>4 DEF vars, lists, work, Balanced, Came, Gone, Hands, Times, JobOf, EntryOf
<1> QED
  BY <1>1, <1>2, <1>3, <1>4 DEF QueueNext

AllBalanced == \A j \in Jobs : Balanced(j)

LEMMA InitBalanced == Init => AllBalanced
<1> SUFFICES ASSUME Init, NEW j \in Jobs
             PROVE  Balanced(j)
  BY DEF AllBalanced
<1>1. Hands(loops, j) = 0
  <2>1. {w \in Loops : loops[w].job.id = j} = {}
    BY JobFacts DEF Init, Idle
  <2> QED
    BY <2>1, FS_EmptySet DEF Hands
<1>2. Times(queue, JobOf(j)) = 0 /\ Times(dead, EntryOf(j)) = 0
  BY EmptyTimes DEF Init
<1>3. Came(j) = 0 /\ Gone(j) = 0
  BY DEF Init, Came, Gone
<1> QED
  BY <1>1, <1>2, <1>3 DEF Balanced

LEMMA StepAllBalanced ==
  ASSUME Types, AllBalanced, [QueueNext]_vars
  PROVE  AllBalanced'
BY StepTypes, StepBalanced DEF AllBalanced, Types

LEMMA BalancedConserves == Types /\ AllBalanced => JobsConserved
<1> SUFFICES ASSUME Types, AllBalanced
             PROVE  JobsConserved
  OBVIOUS
<1>1. \A j \in Jobs : (IF callers[j] = "new" THEN 0 ELSE 1) =
        done[j] + InHand(j) + Listed(j) + tally[j].trimmed + tally[j].dropped + tally[j].lost
  BY BalancedNow DEF Types, AllBalanced
<1>2. \A j \in Jobs : tally[j].dropped > 0 => redis
  BY DEF Types, RestApart
<1> QED
  BY <1>1, <1>2 DEF JobsConserved

(* Every job that enqueue accepted is in one place (queue-service.ts): it   *)
(* is done, in hand, listed, trimmed, lost by a restart or, with Redis      *)
(* only, dropped by deserializeJob.                                         *)
THEOREM JobsAreConserved == QueueSpec => []JobsConserved
BY InitTypes, StepTypes, InitBalanced, StepAllBalanced, BalancedConserves, PTL DEF QueueSpec

-----------------------------------------------------------------------------
(* Work is done once, and attempts have an end. *)

(* With the counts t of calls and v of retries, the job x has been tried as *)
(* often as it counts since its last retry, and only with a processor in g. *)
FairJob(x, t, v, g) ==
  /\ t[x.id] <= DefaultAttempts * v[x.id] + x.attempts
  /\ x.attempts > 0 => x.id \in g
FairLoop(r, t, v, g) ==
  /\ r.pc = "run" => FairJob(r.job, t, v, g)
  /\ r.pc = "bury" => r.job.attempts \in {0, DefaultAttempts}
FairDead(d) == \A i \in 1..Len(d) : d[i].job.attempts \in {0, DefaultAttempts}
FairCounts(t, v, c) ==
  \A j \in Jobs : /\ t[j] <= DefaultAttempts * v[j] + DefaultAttempts
                  /\ c[j] = "new" => t[j] = 0

Accounted ==
  /\ redis => dead = << >> /\ \A j \in Jobs : tried[j] = 0
  /\ ~redis => /\ FairCounts(tried, revived, callers)
               /\ \A k \in 1..Len(queue) : FairJob(queue[k], tried, revived, registered)
               /\ \A w \in Loops : FairLoop(loops[w], tried, revived, registered)
               /\ FairDead(dead)

LEMMA NextAccounted ==
  ASSUME ~redis', FairCounts(tried', revived', callers'),
         \A k \in 1..Len(queue') : FairJob(queue'[k], tried', revived', registered'),
         \A w \in Loops : FairLoop(loops'[w], tried', revived', registered'),
         FairDead(dead')
  PROVE  Accounted'
BY DEF Accounted, FairCounts, FairJob, FairLoop, FairDead

(* A job in hand is in no list, and was accepted. *)
OnlyInHand ==
  \A w \in Loops : loops[w].job.id \in Jobs =>
    /\ callers[loops[w].job.id] # "new"
    /\ \A k \in 1..Len(queue) : queue[k].id # loops[w].job.id

LEMMA InHandOnly == Types /\ AllBalanced => OnlyInHand
<1> SUFFICES ASSUME Types, AllBalanced, NEW w \in Loops, loops[w].job.id \in Jobs
             PROVE  /\ callers[loops[w].job.id] # "new"
                    /\ \A k \in 1..Len(queue) : queue[k].id # loops[w].job.id
  BY DEF OnlyInHand
<1> DEFINE j == loops[w].job.id
           S == {v \in Loops : loops[v].job.id = j}
<1>1. Came(j) = Hands(loops, j) + Times(queue, JobOf(j)) + Times(dead, EntryOf(j)) + Gone(j)
  BY DEF AllBalanced, Balanced
<1>2. Hands(loops, j) # 0
  <2>1. IsFiniteSet(S) /\ w \in S
    BY QueueAssumption, FS_Subset
  <2> HIDE DEF S
  <2>2. Cardinality(S) # 0
    BY <2>1, FS_EmptySet
  <2> QED
    BY <2>2 DEF S, Hands
<1>3. /\ Came(j) \in Nat /\ Gone(j) \in Nat /\ Came(j) <= 1
      /\ Hands(loops, j) \in Nat /\ Times(queue, JobOf(j)) \in Nat /\ Times(dead, EntryOf(j)) \in Nat
  BY NumbersNow DEF Types, Came
<1>4. Came(j) = 1 /\ Times(queue, JobOf(j)) = 0
  <2> HIDE DEF j
  <2> QED
    BY <1>1, <1>2, <1>3
<1>5. ASSUME NEW k \in 1..Len(queue)
      PROVE  queue[k].id # j
  <2>1. queue \in Seq(Waiting) /\ queue[k] \in JobType
    BY ElementOfSeq, JobFacts DEF Types, QueueTypes
  <2>2. queue[k] \notin JobOf(j)
    BY <1>4, <2>1, TimesType
  <2> QED
    BY <2>1, <2>2 DEF JobOf
<1> QED
  BY <1>4, <1>5 DEF Came

LEMMA InHandOnlyNext == Types' /\ AllBalanced' => OnlyInHand'
BY InHandOnly, PTL

(* One call more, and one retry more. *)
LEMMA Products ==
  ASSUME NEW v \in Nat
  PROVE  /\ DefaultAttempts * v \in Nat /\ DefaultAttempts \in Nat
         /\ DefaultAttempts * (v + 1) = DefaultAttempts * v + DefaultAttempts
<1>1. DefaultAttempts \in Nat
  BY QueueAssumption
<1> QED
  BY <1>1

(* What a call of processNext with the list q needs and leaves.             *)
FairBefore(q) ==
  /\ FairCounts(tried, revived', callers')
  /\ \A i \in 1..Len(q) : FairJob(q[i], tried, revived', registered)
  /\ \A w \in Loops : FairLoop(loops[w], tried, revived', registered)

LEMMA CalledFair ==
  ASSUME LoopTypes, tried \in [Jobs -> Nat], revived' \in [Jobs -> Nat], OnlyInHand', AloneInMemory', ~redis', ~redis,
         registered' = registered, FairDead(dead'),
         NEW w \in Loops, NEW q \in Seq(Waiting), NEW n, NEW r \in Standing,
         Called(w, q, n, r), Chosen(q, r), FairBefore(q)
  PROVE  Accounted'
<1>1. \A v \in Loops : loops'[v] = IF v = w THEN r ELSE loops[v]
  BY DEF Called, LoopTypes
<1>2. /\ FairCounts(tried, revived', callers')
      /\ \A i \in 1..Len(q) : FairJob(q[i], tried, revived', registered)
      /\ \A v \in Loops : FairLoop(loops[v], tried, revived', registered)
      /\ \A k \in 1..Len(queue') : \E i \in 1..Len(q) : queue'[k] = q[i]
      /\ queue' \in Seq(Waiting)
  BY DEF FairBefore, Chosen, Called
<1>3. \A i \in 1..Len(q) : q[i] \in Waiting /\ q[i] \in JobType
  BY ElementOfSeq, JobFacts
<1>4. ASSUME tried' = tried, FairLoop(r, tried, revived', registered)
      PROVE  Accounted'
  <2>1. \A k \in 1..Len(queue') : FairJob(queue'[k], tried', revived', registered')
    BY <1>2, <1>4
  <2>2. \A v \in Loops : FairLoop(loops'[v], tried', revived', registered')
    BY <1>1, <1>2, <1>4
  <2> QED
    BY <1>2, <1>4, <2>1, <2>2, NextAccounted
<1>5. CASE r.pc \notin {"run", "bury"}
  BY <1>4, <1>5 DEF Chosen, FairLoop
<1>6. ASSUME NEW i \in 1..Len(q), Took(q[i], r)
      PROVE  Accounted'
  <2> DEFINE x == q[i]
             j == q[i].id
  <2>1. /\ x \in Waiting /\ x \in JobType /\ j \in Jobs /\ x.attempts \in 0..(DefaultAttempts - 1)
        /\ FairJob(x, tried, revived', registered)
    BY <1>2, <1>3, JobFacts DEF Waiting
  <2>2. CASE r = [pc |-> "bury", job |-> x] /\ j \notin registered /\ tried' = tried
    <3>1. x.attempts = 0
      BY <2>1, <2>2 DEF FairJob
    <3>2. r.pc = "bury" /\ r.job = x
      BY <2>2
    <3> HIDE DEF x
    <3> QED
      BY <1>4, <2>2, <3>1, <3>2 DEF FairLoop
  <2>3. CASE r = [pc |-> "run", job |-> Started(x)] /\ j \in registered /\ tried' = [tried EXCEPT ![j] = @ + 1]
    <3>1. /\ r.pc = "run" /\ r.job = Started(x) /\ r.job.id = j /\ r.job.attempts = x.attempts + 1
      BY <2>1, <2>3, JobFacts
    <3>2. loops'[w] = r
      BY <1>1
    <3>3. callers'[j] # "new" /\ \A k \in 1..Len(queue') : queue'[k].id # j
      BY <2>1, <3>1, <3>2 DEF OnlyInHand
    <3>4. \A v \in Loops : v # w => loops'[v].pc = "idle"
      <4>1. w \in Active'
        BY <3>1, <3>2 DEF Active
      <4>2. \A v \in Active' : v = w
        BY <4>1 DEF AloneInMemory
      <4> QED
        BY <4>2 DEF Active
    <3>5. \A k \in Jobs : tried'[k] = IF k = j THEN tried[j] + 1 ELSE tried[k]
      BY <2>1, <2>3
    <3>6. /\ tried[j] \in Nat /\ DefaultAttempts * revived'[j] \in Nat /\ DefaultAttempts \in Nat
          /\ tried[j] <= DefaultAttempts * revived'[j] + x.attempts
      BY <2>1, Products DEF FairJob
    <3> DEFINE p == DefaultAttempts * revived'[j]
    <3>7. tried'[j] <= p + (x.attempts + 1) /\ tried'[j] <= p + DefaultAttempts
      <4> DEFINE a == x.attempts
      <4>1. /\ p \in Nat /\ tried[j] <= p + a /\ tried'[j] = tried[j] + 1
            /\ tried[j] \in Nat /\ DefaultAttempts \in Nat /\ a \in 0..(DefaultAttempts - 1)
        BY <2>1, <3>5, <3>6
      <4> HIDE DEF p, a
      <4>2. tried'[j] <= p + (a + 1) /\ tried'[j] <= p + DefaultAttempts
        BY <4>1
      <4> QED
        BY <4>2 DEF a
    <3>8. FairCounts(tried', revived', callers')
      BY <1>2, <3>3, <3>5, <3>7 DEF FairCounts
    <3>9. ASSUME NEW k \in 1..Len(queue')
          PROVE  FairJob(queue'[k], tried', revived', registered')
      <4>1. queue'[k].id \in Jobs /\ queue'[k].id # j /\ FairJob(queue'[k], tried, revived', registered)
        BY <1>2, <1>3, <3>3, JobFacts
      <4> QED
        BY <3>5, <4>1 DEF FairJob
    <3>10. ASSUME NEW v \in Loops
           PROVE  FairLoop(loops'[v], tried', revived', registered')
      <4>1. CASE v # w
        BY <3>4, <4>1 DEF FairLoop
      <4>2. CASE v = w
        <5>1. FairJob(r.job, tried', revived', registered')
          BY <2>3, <3>1, <3>7 DEF FairJob
        <5> QED
          BY <3>1, <3>2, <4>2, <5>1 DEF FairLoop
      <4> QED
        BY <4>1, <4>2
    <3> QED
      BY <3>8, <3>9, <3>10, NextAccounted
  <2> QED
    BY <1>6, <2>2, <2>3 DEF Took
<1> QED
  BY <1>5, <1>6 DEF Chosen

LEMMA CallFair ==
  ASSUME LoopTypes, tried \in [Jobs -> Nat], revived' \in [Jobs -> Nat], OnlyInHand', AloneInMemory', ~redis', ~redis,
         registered' = registered, FairDead(dead'),
         NEW w \in Loops, NEW q \in Seq(Waiting), NEW n \in Nat, ProcessNext(w, q, n), FairBefore(q)
  PROVE  Accounted'
BY ProcessNextMeans, CalledFair

LEMMA BeginFair ==
  ASSUME LoopTypes, tried \in [Jobs -> Nat], revived' \in [Jobs -> Nat], OnlyInHand', AloneInMemory', ~redis', ~redis,
         registered' = registered, FairDead(dead'),
         NEW q \in Seq(Waiting), NEW n \in Nat, StartUnlessProcessing(q, n), FairBefore(q)
  PROVE  Accounted'
<1>1. CASE queue' = q /\ UNCHANGED <<loops, tried>>
  BY <1>1, NextAccounted DEF FairBefore
<1>2. CASE \E w \in Loops, r \in Standing : Called(w, q, n, r) /\ Chosen(q, r)
  BY <1>2, CalledFair
<1> QED
  BY <1>1, <1>2, StartMeans DEF MayBegin

(* A list with one fair job more is fair. *)
LEMMA PutFair ==
  ASSUME NEW q \in Seq(Waiting), NEW x \in Waiting, NEW t, NEW v, NEW g,
         \A i \in 1..Len(q) : FairJob(q[i], t, v, g), FairJob(x, t, v, g)
  PROVE  /\ Append(q, x) \in Seq(Waiting)
         /\ \A i \in 1..Len(Append(q, x)) : FairJob(Append(q, x)[i], t, v, g)
<1>1. /\ Append(q, x) \in Seq(Waiting) /\ Len(Append(q, x)) = Len(q) + 1 /\ Len(q) \in Nat
      /\ \A i \in 1..Len(q) : Append(q, x)[i] = q[i]
      /\ Append(q, x)[Len(q) + 1] = x
  BY AppendProperties, LenProperties
<1>2. ASSUME NEW i \in 1..Len(Append(q, x))
      PROVE  FairJob(Append(q, x)[i], t, v, g)
  <2>1. i \in 1..Len(q) \/ i = Len(q) + 1
    BY <1>1
  <2> QED
    BY <1>1, <2>1
<1> QED
  BY <1>1, <1>2

LEMMA StepAccounted ==
  ASSUME Types, AloneInMemory, AllBalanced, Accounted, [QueueNext]_vars
  PROVE  Accounted'
<1>0. /\ QueueTypes /\ LoopTypes /\ LoopsApart /\ RestApart /\ queue \in Seq(Waiting) /\ dead \in Seq(EntryType)
      /\ timers \in Nat /\ tried \in [Jobs -> Nat] /\ revived \in [Jobs -> Nat]
      /\ callers \in [Jobs -> {"new", "pushed", "returned"}]
  BY DEF Types, QueueTypes
<1>1. Types' /\ AloneInMemory' /\ AllBalanced'
  BY StepTypes, StepAlone, StepAllBalanced
<1>2. OnlyInHand' /\ revived' \in [Jobs -> Nat] /\ redis' = redis
  <2>1. OnlyInHand' /\ revived' \in [Jobs -> Nat]
    BY <1>1, InHandOnlyNext DEF Types, QueueTypes
  <2>2. redis' = redis
    BY DEF QueueNext, RegisterProcessor, EnqueuePush, Enqueue, LoopStep, Length, Pop, DeserializeJob, Processed, Fail,
           MoveToDeadLetter, LoopDies, Ripen, RetryDeadLetter, TimerFires, Restart, vars, fixed
  <2> QED
    BY <2>1, <2>2
<1>3. CASE redis
  <2>1. dead = << >> /\ (\A j \in Jobs : tried[j] = 0) /\ timers = 0
        /\ \A w \in Loops : loops[w].pc \notin {"run", "bury"}
    BY <1>0, <1>3 DEF Accounted, RestApart, LoopsApart
  <2>2. ASSUME dead' = dead, tried' = tried
        PROVE  Accounted'
    BY <1>2, <1>3, <2>1, <2>2 DEF Accounted
  <2>3. ASSUME NEW j \in Jobs, Enqueue(j)
        PROVE  Accounted'
    <3>1. dead' = dead /\ StartUnlessProcessing(queue, timers)
      BY <1>3, <2>3 DEF Enqueue
    <3>2. tried' = tried
      BY <1>3, <3>1 DEF StartUnlessProcessing, ProcessNext, CallWithRedis, CallInMemory
    <3> QED
      BY <2>2, <3>1, <3>2
  <2>4. ASSUME NEW i \in 1..Len(dead)
        PROVE  FALSE
    BY <2>1, EmptySeq
  <2>5. CASE Restart
    BY <1>3, <2>2, <2>5 DEF Restart, lists, work
  <2>6. CASE \E w \in Loops : LoopStep(w) \/ LoopDies(w)
    BY <2>1, <2>2, <2>6 DEF LoopStep, LoopDies, Length, Pop, DeserializeJob, Processed, Fail, MoveToDeadLetter, lists, work
  <2>7. CASE \/ \E j \in Jobs : RegisterProcessor(j) \/ EnqueuePush(j)
             \/ \E i \in 1..Len(queue) : Ripen(i)
             \/ UNCHANGED vars
    BY <2>2, <2>7 DEF RegisterProcessor, EnqueuePush, Ripen, vars, lists, work
  <2>8. CASE TimerFires
    BY <2>1, <2>8 DEF TimerFires
  <2> QED
    BY <2>3, <2>4, <2>5, <2>6, <2>7, <2>8 DEF QueueNext
<1>4. CASE ~redis
  <2>0. /\ FairCounts(tried, revived, callers)
        /\ \A k \in 1..Len(queue) : FairJob(queue[k], tried, revived, registered)
        /\ \A w \in Loops : FairLoop(loops[w], tried, revived, registered)
        /\ FairDead(dead)
    BY <1>4 DEF Accounted
  <2>1. ASSUME UNCHANGED <<queue, dead, loops, tried, revived, callers>>, registered \subseteq registered'
        PROVE  Accounted'
    <3>1. \A k \in 1..Len(queue') : FairJob(queue'[k], tried', revived', registered')
      BY <2>0, <2>1 DEF FairJob
    <3>2. \A w \in Loops : FairLoop(loops'[w], tried', revived', registered')
      BY <2>0, <2>1 DEF FairLoop, FairJob
    <3> QED
      BY <1>2, <1>4, <2>0, <2>1, <3>1, <3>2, NextAccounted
  <2>2. ASSUME NEW q \in Seq(Waiting), UNCHANGED <<revived, callers>>,
               \A i \in 1..Len(q) : FairJob(q[i], tried, revived, registered)
        PROVE  FairBefore(q)
    BY <2>0, <2>2 DEF FairBefore
  <2>3. ASSUME NEW j \in Jobs, RegisterProcessor(j)
        PROVE  Accounted'
    BY <2>1, <2>3 DEF RegisterProcessor, lists, work
  <2>4. ASSUME NEW j \in Jobs, EnqueuePush(j)
        PROVE  Accounted'
    BY <1>4, <2>4 DEF EnqueuePush
  <2>5. ASSUME NEW j \in Jobs, Enqueue(j)
        PROVE  Accounted'
    <3>1. /\ callers[j] = "new" /\ StartUnlessProcessing(Append(queue, NewJob(j)), timers)
          /\ callers' = [callers EXCEPT ![j] = "returned"] /\ UNCHANGED <<dead, registered, revived>>
      BY <1>0, <1>4, <2>5 DEF Enqueue, fixed, RestApart
    <3>2. NewJob(j) \in Waiting /\ NewJob(j).id = j /\ NewJob(j).attempts = 0
      BY JobFacts
    <3>3. FairJob(NewJob(j), tried, revived, registered)
      <4>1. tried[j] = 0 /\ DefaultAttempts * revived[j] \in Nat
        BY <1>0, <2>0, <3>1, Products DEF FairCounts
      <4> QED
        BY <3>2, <4>1 DEF FairJob
    <3> DEFINE q == Append(queue, NewJob(j))
    <3>4. q \in Seq(Waiting) /\ \A i \in 1..Len(q) : FairJob(q[i], tried, revived, registered)
      BY <1>0, <2>0, <3>2, <3>3, PutFair
    <3>5. StartUnlessProcessing(q, timers) /\ FairDead(dead')
      BY <2>0, <3>1
    <3> HIDE DEF q
    <3>6. FairBefore(q)
      <4>1. FairCounts(tried, revived, callers')
        BY <1>0, <2>0, <3>1 DEF FairCounts
      <4> QED
        BY <2>0, <3>1, <3>4, <4>1 DEF FairBefore
    <3> QED
      BY <1>0, <1>1, <1>2, <1>4, <3>1, <3>4, <3>5, <3>6, BeginFair
  <2>6. ASSUME NEW w \in Loops, LoopStep(w)
        PROVE  Accounted'
    <3> DEFINE job == loops[w].job
    <3>0. loops[w].pc \in {"idle", "run", "bury"}
      BY <1>0, <1>4 DEF LoopsApart
    <3>1. CASE Processed(w)
      <4>1. ProcessNext(w, queue, timers) /\ UNCHANGED <<dead, callers, registered, revived>>
        BY <3>1 DEF Processed, fixed
      <4>2. FairBefore(queue) /\ FairDead(dead')
        BY <1>0, <2>0, <2>2, <4>1
      <4> QED
        BY <1>0, <1>1, <1>2, <1>4, <4>1, <4>2, CallFair
    <3>2. CASE Fail(w)
      <4>1. /\ loops[w].pc = "run" /\ job \in JobType
            /\ UNCHANGED <<dead, callers, registered, revived>> /\ FairDead(dead')
        BY <1>0, <2>0, <3>2, StandingFacts DEF Fail, fixed, LoopTypes, Holding
      <4>2. FairJob(job, tried, revived, registered)
        BY <2>0, <4>1 DEF FairLoop
      <4>3. CASE Exhausted(job) /\ At(w, "bury", job) /\ UNCHANGED <<queue, tried>>
        <5>1. job.attempts = DefaultAttempts
          <6>1. job.attempts \in 0..DefaultAttempts /\ job.attempts >= DefaultAttempts /\ DefaultAttempts \in Nat
            BY <4>1, <4>3, JobFacts, QueueAssumption DEF Exhausted
          <6> QED
            BY <6>1
        <5>2. \A v \in Loops : loops'[v] = IF v = w THEN [pc |-> "bury", job |-> job] ELSE loops[v]
          BY <1>0, <4>3 DEF At, LoopTypes
        <5>3. \A v \in Loops : FairLoop(loops'[v], tried, revived, registered)
          BY <2>0, <5>1, <5>2 DEF FairLoop
        <5> QED
          BY <1>2, <1>4, <2>0, <4>1, <4>3, <5>3, NextAccounted
      <4>4. CASE ~Exhausted(job) /\ ProcessNext(w, Append(queue, Late(job)), timers)
        <5>1. Late(job) \in Waiting /\ Late(job).id = job.id /\ Late(job).attempts = job.attempts
          BY <4>1, <4>4, JobFacts
        <5>2. FairJob(Late(job), tried, revived, registered)
          BY <4>2, <5>1 DEF FairJob
        <5> DEFINE q == Append(queue, Late(job))
        <5>3. q \in Seq(Waiting) /\ \A i \in 1..Len(q) : FairJob(q[i], tried, revived, registered)
          BY <1>0, <2>0, <5>1, <5>2, PutFair
        <5>4. ProcessNext(w, q, timers)
          BY <4>4
        <5> HIDE DEF q
        <5>5. FairBefore(q)
          BY <2>2, <4>1, <5>3
        <5> QED
          BY <1>0, <1>1, <1>2, <1>4, <4>1, <5>3, <5>4, <5>5, CallFair
      <4> QED
        BY <3>2, <4>3, <4>4 DEF Fail
    <3>3. CASE MoveToDeadLetter(w)
      <4>1. /\ loops[w].pc = "bury" /\ job \in JobType /\ Bury(job) /\ ProcessNext(w, queue, timers)
            /\ UNCHANGED <<callers, registered, revived>>
        BY <1>0, <3>3, StandingFacts DEF MoveToDeadLetter, fixed, LoopTypes, Holding
      <4>2. FairBefore(queue)
        BY <1>0, <2>0, <2>2, <4>1
      <4>3. job.attempts \in {0, DefaultAttempts}
        BY <2>0, <4>1 DEF FairLoop
      <4>4. \A k \in 1..Len(dead') : dead'[k].job = job \/ \E i \in 1..Len(dead) : dead'[k] = dead[i]
        BY <1>0, <4>1, BuryKeepsTypes
      <4>5. FairDead(dead')
        BY <2>0, <4>3, <4>4 DEF FairDead
      <4> QED
        BY <1>0, <1>1, <1>2, <1>4, <4>1, <4>2, <4>5, CallFair
    <3>4. CASE Length(w) \/ Pop(w) \/ DeserializeJob(w)
      BY <3>0, <3>4 DEF Length, Pop, DeserializeJob
    <3> QED
      BY <2>6, <3>1, <3>2, <3>3, <3>4 DEF LoopStep
  <2>7. ASSUME NEW w \in Loops, LoopDies(w)
        PROVE  Accounted'
    BY <1>0, <1>4, <2>7 DEF LoopDies, LoopsApart
  <2>8. ASSUME NEW i \in 1..Len(queue), Ripen(i)
        PROVE  Accounted'
    <3>1. /\ queue' = [queue EXCEPT ![i] = [queue[i] EXCEPT !.late = FALSE]]
          /\ UNCHANGED <<dead, callers, registered, loops, tried, revived>>
      BY <2>8 DEF Ripen, fixed, work
    <3>2. /\ Len(queue') = Len(queue)
          /\ \A k \in 1..Len(queue) : queue'[k] = IF k = i THEN [queue[i] EXCEPT !.late = FALSE] ELSE queue[k]
      BY <1>0, <3>1, ExceptSeq
    <3>3. queue[i] \in Waiting
      BY <1>0, ElementOfSeq
    <3>4. \A y \in Waiting : [y EXCEPT !.late = FALSE].id = y.id /\ [y EXCEPT !.late = FALSE].attempts = y.attempts
      BY DEF Waiting
    <3>5. \A k \in 1..Len(queue') : queue'[k].id = queue[k].id /\ queue'[k].attempts = queue[k].attempts
      BY <3>2, <3>3, <3>4
    <3>6. \A k \in 1..Len(queue') : FairJob(queue'[k], tried', revived', registered')
      BY <2>0, <3>1, <3>2, <3>5 DEF FairJob
    <3> QED
      BY <1>2, <1>4, <2>0, <3>1, <3>6, NextAccounted
  <2>9. ASSUME NEW i \in 1..Len(dead), RetryDeadLetter(i)
        PROVE  Accounted'
    <3> DEFINE x == dead[i].job
               j == dead[i].job.id
    <3>0. x \in JobType
      <4>1. dead[i] \in EntryType
        BY <1>0, ElementOfSeq
      <4> QED
        BY <4>1 DEF EntryType
    <3>1. j \in Jobs /\ Reset(x) \in Waiting /\ Reset(x).id = j /\ Reset(x).attempts = 0
      BY <3>0, JobFacts
    <3>2. /\ dead' = RemoveAt(dead, i) /\ StartUnlessProcessing(Append(queue, Reset(x)), timers)
          /\ revived' = [revived EXCEPT ![j] = @ + 1] /\ UNCHANGED <<callers, registered>>
      BY <2>9 DEF RetryDeadLetter
    <3> HIDE DEF x, j
    <3>3. \A k \in Jobs : revived'[k] = IF k = j THEN revived[j] + 1 ELSE revived[k]
      BY <1>0, <3>1, <3>2
    <3>4. \A k \in Jobs : /\ DefaultAttempts * revived[k] \in Nat /\ DefaultAttempts \in Nat
                          /\ DefaultAttempts * revived'[k] \in Nat
                          /\ DefaultAttempts * revived'[k] >= DefaultAttempts * revived[k]
      <4> SUFFICES ASSUME NEW k \in Jobs
                   PROVE  /\ DefaultAttempts * revived[k] \in Nat /\ DefaultAttempts \in Nat
                          /\ DefaultAttempts * revived'[k] \in Nat
                          /\ DefaultAttempts * revived'[k] >= DefaultAttempts * revived[k]
        OBVIOUS
      <4>1. revived[k] \in Nat
        BY <1>0
      <4>2. /\ DefaultAttempts * revived[k] \in Nat /\ DefaultAttempts \in Nat
            /\ DefaultAttempts * (revived[k] + 1) = DefaultAttempts * revived[k] + DefaultAttempts
        BY <4>1, Products
      <4>3. revived'[k] = revived[k] \/ revived'[k] = revived[k] + 1
        BY <3>3
      <4> DEFINE p == DefaultAttempts * revived[k]
      <4>4. p \in Nat /\ (DefaultAttempts * revived'[k] = p \/ DefaultAttempts * revived'[k] = p + DefaultAttempts)
        BY <4>2, <4>3
      <4> HIDE DEF p
      <4>5. DefaultAttempts * revived'[k] \in Nat /\ DefaultAttempts * revived'[k] >= p
        BY <4>2, <4>4
      <4> QED
        BY <4>2, <4>5 DEF p
    <3>5. FairCounts(tried, revived', callers')
      <4>1. ASSUME NEW k \in Jobs
            PROVE  /\ tried[k] <= DefaultAttempts * revived'[k] + DefaultAttempts
                   /\ callers'[k] = "new" => tried[k] = 0
        <5> DEFINE p == DefaultAttempts * revived[k]
                   p1 == DefaultAttempts * revived'[k]
        <5>1. /\ p \in Nat /\ p1 \in Nat /\ p1 >= p /\ DefaultAttempts \in Nat /\ tried[k] \in Nat
              /\ tried[k] <= p + DefaultAttempts
          BY <1>0, <2>0, <3>4 DEF FairCounts
        <5> HIDE DEF p, p1
        <5>2. tried[k] <= p1 + DefaultAttempts
          BY <5>1
        <5> QED
          BY <2>0, <3>2, <5>2 DEF FairCounts, p1
      <4> QED
        BY <4>1 DEF FairCounts
    <3>6. ASSUME NEW y \in JobType, FairJob(y, tried, revived, registered)
          PROVE  FairJob(y, tried, revived', registered)
      <4> DEFINE p == DefaultAttempts * revived[y.id]
                 p1 == DefaultAttempts * revived'[y.id]
      <4>1. /\ p \in Nat /\ p1 \in Nat /\ p1 >= p /\ y.attempts \in Nat /\ tried[y.id] \in Nat
            /\ tried[y.id] <= p + y.attempts
        BY <1>0, <3>4, <3>6, JobFacts DEF FairJob
      <4> HIDE DEF p, p1
      <4>2. tried[y.id] <= p1 + y.attempts
        BY <4>1
      <4> QED
        BY <3>6, <4>2 DEF FairJob, p1
    <3>7. \A k \in 1..Len(queue) : FairJob(queue[k], tried, revived', registered)
      BY <1>0, <2>0, <3>6, JobFacts, ElementOfSeq
    <3>8. \A w \in Loops : FairLoop(loops[w], tried, revived', registered)
      <4>1. \A w \in Loops : loops[w].pc = "run" => loops[w].job \in JobType
        BY <1>0, StandingFacts DEF LoopTypes, Holding
      <4> QED
        BY <2>0, <3>6, <4>1 DEF FairLoop
    <3>9. FairJob(Reset(x), tried, revived', registered)
      <4> DEFINE p == DefaultAttempts * revived[j]
      <4>1. /\ p \in Nat /\ DefaultAttempts \in Nat /\ tried[j] \in Nat
            /\ tried[j] <= p + DefaultAttempts
        BY <1>0, <2>0, <3>1, <3>4 DEF FairCounts
      <4>2. DefaultAttempts * revived'[j] = p + DefaultAttempts
        BY <1>0, <3>1, <3>3, Products
      <4> HIDE DEF p
      <4>3. tried[j] <= DefaultAttempts * revived'[j] + 0
        BY <4>1, <4>2
      <4> QED
        BY <3>1, <4>3 DEF FairJob
    <3> DEFINE q == Append(queue, Reset(x))
    <3>10. q \in Seq(Waiting) /\ \A k \in 1..Len(q) : FairJob(q[k], tried, revived', registered)
      BY <1>0, <3>1, <3>7, <3>9, PutFair
    <3>11. FairDead(dead')
      <4>1. /\ Len(dead') = Len(dead) - 1 /\ Len(dead) \in Nat
            /\ \A k \in 1..(Len(dead) - 1) : dead'[k] = dead[IF k < i THEN k ELSE k + 1]
        BY <1>0, <3>2, RemoveAtProperties, LenProperties
      <4>2. ASSUME NEW k \in 1..Len(dead')
            PROVE  dead'[k].job.attempts \in {0, DefaultAttempts}
        <5>1. (IF k < i THEN k ELSE k + 1) \in 1..Len(dead)
          BY <4>1
        <5> QED
          BY <2>0, <4>1, <5>1 DEF FairDead
      <4> QED
        BY <4>2 DEF FairDead
    <3>12. StartUnlessProcessing(q, timers)
      BY <3>2
    <3> HIDE DEF q
    <3>13. FairBefore(q)
      BY <3>5, <3>8, <3>10 DEF FairBefore
    <3> QED
      BY <1>0, <1>1, <1>2, <1>4, <3>2, <3>10, <3>11, <3>12, <3>13, BeginFair
  <2>10. CASE TimerFires
    <3>1. /\ UNCHANGED <<dead, callers, registered, revived>> /\ FairDead(dead')
          /\ timers - 1 \in Nat /\ FairBefore(queue)
      BY <1>0, <2>0, <2>2, <2>10 DEF TimerFires, fixed
    <3>2. CASE StartUnlessProcessing(queue, timers - 1)
      BY <1>0, <1>1, <1>2, <1>4, <3>1, <3>2, BeginFair
    <3>3. CASE UNCHANGED <<queue, processing, loops, tried>>
      BY <2>1, <3>1, <3>3
    <3> QED
      BY <2>10, <3>2, <3>3 DEF TimerFires
  <2>11. CASE Restart
    <3>1. /\ queue' = << >> /\ dead' = << >> /\ tried' = tried /\ revived' = revived
          /\ \A w \in Loops : loops'[w].pc = "idle"
          /\ \A j \in Jobs : callers'[j] = "new" => callers[j] = "new"
      BY <1>0, <1>4, <2>11 DEF Restart, Idle, work
    <3>2. FairCounts(tried', revived', callers')
      BY <2>0, <3>1 DEF FairCounts
    <3>3. FairDead(dead') /\ \A k \in 1..Len(queue') : FairJob(queue'[k], tried', revived', registered')
      BY <3>1, EmptySeq DEF FairDead
    <3>4. \A w \in Loops : FairLoop(loops'[w], tried', revived', registered')
      BY <3>1 DEF FairLoop
    <3> QED
      BY <1>2, <1>4, <3>2, <3>3, <3>4, NextAccounted
  <2>12. CASE UNCHANGED vars
    BY <2>1, <2>12 DEF vars, lists, fixed, work
  <2> QED
    BY <2>3, <2>4, <2>5, <2>6, <2>7, <2>8, <2>9, <2>10, <2>11, <2>12 DEF QueueNext
<1> QED
  BY <1>0, <1>3, <1>4

LEMMA InitAccounted == Init => Accounted
<1> SUFFICES ASSUME Init
             PROVE  Accounted
  OBVIOUS
<1>1. queue = << >> /\ dead = << >> /\ 1..Len(<< >>) = {}
  BY EmptySeq DEF Init
<1>2. \A j \in Jobs : tried[j] = 0 /\ revived[j] = 0
  BY DEF Init
<1>3. \A w \in Loops : loops[w].pc = "idle"
  BY DEF Init, Idle
<1>4. FairCounts(tried, revived, callers)
  BY <1>2, QueueAssumption DEF FairCounts
<1> QED
  BY <1>1, <1>2, <1>3, <1>4 DEF Accounted, FairLoop, FairDead

LEMMA AccountedOnce == Types /\ AllBalanced /\ Accounted => WorkIsDoneOnce
<1> SUFFICES ASSUME Types, AllBalanced, Accounted
             PROVE  WorkIsDoneOnce
  OBVIOUS
<1>1. ASSUME NEW j \in Jobs
      PROVE  done[j] <= 1 /\ (done[j] = 1 => Listed(j) = 0)
  <2> DEFINE Q == Times(queue, JobOf(j))
             D == Times(dead, EntryOf(j))
  <2>1. /\ Came(j) = Hands(loops, j) + Q + D + Gone(j) /\ Came(j) <= 1 /\ Hands(loops, j) \in Nat
        /\ Q \in Nat /\ D \in Nat /\ Gone(j) \in Nat /\ Listed(j) = Q + D
    BY NumbersNow, CountsAre DEF AllBalanced, Balanced, Types, Came
  <2>2. done[j] \in Nat /\ Gone(j) >= done[j]
    BY NumbersNow DEF Types, Gone
  <2> HIDE DEF Q, D
  <2> QED
    BY <2>1, <2>2
<1>2. ASSUME NEW j \in Jobs
      PROVE  tried[j] <= DefaultAttempts * (revived[j] + 1)
  <2>1. /\ revived[j] \in Nat /\ tried[j] \in Nat /\ DefaultAttempts * revived[j] \in Nat /\ DefaultAttempts \in Nat
        /\ DefaultAttempts * (revived[j] + 1) = DefaultAttempts * revived[j] + DefaultAttempts
    BY Products DEF Types, QueueTypes
  <2>2. tried[j] = 0 \/ tried[j] <= DefaultAttempts * revived[j] + DefaultAttempts
    BY DEF Accounted, FairCounts
  <2> DEFINE p == DefaultAttempts * revived[j]
  <2>3. p \in Nat /\ (tried[j] = 0 \/ tried[j] <= p + DefaultAttempts)
    BY <2>1, <2>2
  <2> HIDE DEF p
  <2>4. tried[j] <= p + DefaultAttempts
    BY <2>1, <2>3
  <2> QED
    BY <2>1, <2>4 DEF p
<1>3. \A i \in 1..Len(dead) : dead[i].job.attempts \in {0, DefaultAttempts}
  BY EmptySeq DEF Accounted, FairDead
<1> QED
  BY <1>1, <1>2, <1>3 DEF WorkIsDoneOnce

(* A job is done at most once and stays in no list afterwards, its          *)
(* processor is called DEFAULT_MAX_ATTEMPTS times at most each time it is   *)
(* queued, and a dead letter has used up its attempts or was never tried    *)
(* (queue-service.ts, processNext and retryDeadLetter).                     *)
THEOREM WorkOnce == QueueSpec => []WorkIsDoneOnce
BY InitTypes, StepTypes, InitAlone, StepAlone, InitBalanced, StepAllBalanced, InitAccounted, StepAccounted,
   AccountedOnce, PTL DEF QueueSpec
=============================================================================
