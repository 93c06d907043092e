------------------------------ MODULE JobQueue ------------------------------
(***************************************************************************)
(* The job queue of the application (app/backend/queue/queue-service.ts).  *)
(* Its list lives in Redis or, without Redis, in the memory of the         *)
(* process.  processNext is an async function that calls itself at its     *)
(* end, so a call is a loop that works until the list is empty; nobody     *)
(* awaits its promise.                                                     *)
(*                                                                         *)
(* In memory a loop yields only while a processor works or a job is        *)
(* buried.  With Redis every command is an await, and a loop never comes   *)
(* as far as a processor: the client of backend/redis.ts deserializes what *)
(* it reads, rpop answers with an object, and JSON.parse of an object      *)
(* throws.  So no job is worked on, put back or buried there, the list of  *)
(* dead letters stays empty, and retryDeadLetter finds nothing in it.      *)
(*                                                                         *)
(* An operator whose name ends in _x... is a faulty variant of the         *)
(* definition that follows it, used by no specification.                   *)
(***************************************************************************)
EXTENDS Integers, SequencesExt

CONSTANTS
  Jobs,            \* job ids
  Loops,           \* bound: the calls of processNext that may be in flight
  NoJob,
  DefaultAttempts, \* DEFAULT_MAX_ATTEMPTS
  MaxDeadLetter,   \* MAX_DEAD_LETTER
  MaxFaults,       \* bound: restarts and failed Redis commands
  MaxLoad          \* bound: calls of enqueue and retryDeadLetter together

ASSUME QueueAssumption ==
  /\ IsFiniteSet(Loops)
  /\ NoJob \notin Jobs
  /\ {DefaultAttempts, MaxDeadLetter} \subseteq Nat \ {0}
  /\ {MaxFaults, MaxLoad} \subseteq Nat

VARIABLES
  redis,      \* whether Redis is configured
  queue,      \* QUEUE_KEY or memQueue, the next job first
  dead,       \* DEAD_LETTER_KEY or memDeadLetter, the oldest entry first
  processing, \* isProcessing
  timers,     \* pending setTimeout callbacks
  loops,      \* where each call of processNext stands, and the job it holds
  callers,    \* where the enqueue call of each job stands
  registered, \* the jobs whose type has a processor
  faults, retried, \* the two bounded counts
  died,       \* history: a loop has ended by an exception since the start
  done,       \* history: how often each job's processor succeeded
  tried,      \* history: how often it was called
  revived,    \* history: how often the dead letter of each job was retried
  tally       \* history: what else became of each job

lists == <<queue, dead>>
fixed == <<redis, registered, faults, retried, died>>
work == <<done, tried, revived>>
vars == <<lists, callers, fixed, processing, timers, loops, work, tally>>

(* late: scheduledAt lies in the future. *)
JobType  == [id : Jobs, attempts : 0..DefaultAttempts, late : BOOLEAN]
NewJob(j) == [id |-> j, attempts |-> 0, late |-> FALSE]
None     == [id |-> NoJob, attempts |-> 0, late |-> FALSE]

(* failedAt tells the burials of one job apart. *)
EntryType == [job : JobType, failedAt : Nat]

Idle == [pc |-> "idle", job |-> None]
At(w, pc, job) == loops' = [loops EXCEPT ![w] = [pc |-> pc, job |-> job]]

Init ==
  /\ redis \in BOOLEAN
  /\ queue = << >> /\ dead = << >>
  /\ processing = FALSE
  /\ timers = 0
  /\ loops = [w \in Loops |-> Idle]
  /\ callers = [j \in Jobs |-> "new"]
  /\ registered = {}
  /\ faults = 0 /\ retried = 0 /\ died = FALSE
  /\ done = [j \in Jobs |-> 0]
  /\ tried = [j \in Jobs |-> 0]
  /\ revived = [j \in Jobs |-> 0]
  /\ tally = [j \in Jobs |-> [buried |-> 0, trimmed |-> 0, dropped |-> 0, lost |-> 0]]

-----------------------------------------------------------------------------
Bury_xDropsNewest(job) ==
  LET full == Len(dead) = MaxDeadLetter
  IN  /\ dead' = IF full THEN dead
                 ELSE Append(dead, [job |-> job, failedAt |-> tally[job.id].buried + 1])
      /\ tally' = [tally EXCEPT ![job.id].buried = @ + 1]

(* moveToDeadLetter: the newest MaxDeadLetter entries are kept.             *)
Bury(job) ==
  LET all  == Append(dead, [job |-> job, failedAt |-> tally[job.id].buried + 1])
      full == Len(dead) = MaxDeadLetter
  IN  /\ dead' = IF full THEN Tail(all) ELSE all
      /\ tally' = [j \in Jobs |->
           [tally[j] EXCEPT !.buried  = IF j = job.id THEN @ + 1 ELSE @,
                            !.trimmed = IF full /\ j = Head(all).job.id THEN @ + 1 ELSE @]]

LoopEnds_xStillProcessing(w) == At(w, "idle", None) /\ UNCHANGED processing
LoopEnds(w) == At(w, "idle", None) /\ processing' = FALSE

Late(job) == [job EXCEPT !.late = TRUE]

Started_xUncounted(job) == job
Started(job) == [job EXCEPT !.attempts = @ + 1]

(* A job in hand goes to its processor, or to the dead letters without one. *)
Take(w, job) ==
  \/ /\ job.id \in registered
     /\ At(w, "run", Started(job))
     /\ tried' = [tried EXCEPT ![job.id] = @ + 1]
  \/ /\ job.id \notin registered
     /\ At(w, "bury", job)
     /\ UNCHANGED tried

(* processNext, called when the list is q and n callbacks are pending, up to *)
(* its first await.                                                         *)
CallWithRedis(w, q, n) ==
  /\ redis
  /\ queue' = q
  /\ timers' = n
  /\ At(w, "len", None)
  /\ UNCHANGED <<processing, tried>>

CallInMemory(w, q, n) ==
  LET ready == {i \in 1..Len(q) : ~q[i].late}
  IN  /\ ~redis
      /\ \/ /\ ready = {}
            /\ queue' = q
            /\ timers' = IF q = << >> THEN n ELSE n + 1
            /\ LoopEnds(w)
            /\ UNCHANGED tried
         \/ /\ ready # {}
            /\ queue' = RemoveAt(q, Min(ready))
            /\ timers' = n
            /\ processing' = TRUE
            /\ Take(w, q[Min(ready)])

ProcessNext(w, q, n) == CallWithRedis(w, q, n) \/ CallInMemory(w, q, n)

MayStart_xAlways == TRUE
MayStart == ~processing

(* if (!isProcessing) processNext(). *)
StartUnlessProcessing(q, n) ==
  \/ ~MayStart /\ queue' = q /\ timers' = n /\ UNCHANGED <<processing, loops, tried>>
  \/ MayStart /\ \E w \in Loops : loops[w].pc = "idle" /\ ProcessNext(w, q, n)

-----------------------------------------------------------------------------
RegisterProcessor(j) ==
  /\ registered' = registered \cup {j}
  /\ UNCHANGED <<lists, callers, redis, faults, retried, died, processing, timers, loops, work, tally>>

Load == retried + Cardinality({j \in Jobs : callers[j] # "new"})

(* enqueue: in memory it is one step, with Redis the push comes first. *)
EnqueuePush(j) ==
  /\ redis /\ callers[j] = "new" /\ Load < MaxLoad
  /\ callers' = [callers EXCEPT ![j] = "pushed"]
  /\ queue' = Append(queue, NewJob(j))
  /\ UNCHANGED <<dead, fixed, processing, timers, loops, work, tally>>

Enqueue(j) ==
  /\ \/ ~redis /\ callers[j] = "new" /\ Load < MaxLoad
        /\ StartUnlessProcessing(Append(queue, NewJob(j)), timers)
     \/ callers[j] = "pushed" /\ StartUnlessProcessing(queue, timers)
  /\ callers' = [callers EXCEPT ![j] = "returned"]
  /\ UNCHANGED <<dead, fixed, done, revived, tally>>

-----------------------------------------------------------------------------
(* processNext with Redis. *)

(* llen answers.  The list is not empty: a loop starts after the push of a  *)
(* job and takes at most one (ProcessingMeansALoop).                        *)
Length(w) ==
  /\ loops[w].pc = "len"
  /\ queue # << >>
  /\ At(w, "pop", None)
  /\ processing' = TRUE
  /\ UNCHANGED <<lists, callers, fixed, timers, work, tally>>

(* rpop removes the next job, and its answer is on its way. *)
Pop(w) ==
  /\ loops[w].pc = "pop"
  /\ queue # << >>
  /\ queue' = Tail(queue)
  /\ At(w, "parse", Head(queue))
  /\ UNCHANGED <<dead, callers, fixed, processing, timers, work, tally>>

Drop(job) == tally' = [tally EXCEPT ![job.id].dropped = @ + 1]

(* The answer arrives as an object, and deserializeJob throws: the promise  *)
(* rejects, the job is held by nobody, isProcessing stays as it was.        *)
DeserializeJob(w) ==
  /\ loops[w].pc = "parse"
  /\ At(w, "idle", None)
  /\ Drop(loops[w].job)
  /\ died' = TRUE
  /\ UNCHANGED <<lists, callers, redis, registered, faults, retried, processing, timers, work>>

-----------------------------------------------------------------------------
(* processNext in memory. *)

(* The callback of a list whose jobs were all late. *)
TimerFires ==
  /\ timers > 0
  /\ \/ queue # << >> /\ StartUnlessProcessing(queue, timers - 1)
     \/ /\ queue = << >>
        /\ timers' = timers - 1
        /\ UNCHANGED <<queue, processing, loops, tried>>
  /\ UNCHANGED <<dead, callers, fixed, done, revived, tally>>

Processed(w) ==
  /\ loops[w].pc = "run"
  /\ ProcessNext(w, queue, timers)
  /\ done' = [done EXCEPT ![loops[w].job.id] = @ + 1]
  /\ UNCHANGED <<dead, callers, fixed, revived, tally>>

Exhausted_xOneMore(job) == job.attempts > DefaultAttempts
Exhausted(job) == job.attempts >= DefaultAttempts

(* The catch block: bury the job, or put it back with a backoff. *)
Fail(w) ==
  LET job == loops[w].job
  IN  /\ loops[w].pc = "run"
      /\ \/ Exhausted(job) /\ At(w, "bury", job) /\ UNCHANGED <<queue, processing, timers, tried>>
         \/ ~Exhausted(job) /\ ProcessNext(w, Append(queue, Late(job)), timers)
      /\ UNCHANGED <<dead, callers, fixed, done, revived, tally>>

MoveToDeadLetter(w) ==
  /\ loops[w].pc = "bury"
  /\ Bury(loops[w].job)
  /\ ProcessNext(w, queue, timers)
  /\ UNCHANGED <<callers, fixed, done, revived>>

(* Backoffs pass. *)
Ripen(i) ==
  /\ i \in 1..Len(queue) /\ queue[i].late
  /\ queue' = [queue EXCEPT ![i].late = FALSE]
  /\ UNCHANGED <<dead, callers, fixed, processing, timers, loops, work, tally>>

Reset(job) == [job EXCEPT !.attempts = 0]

(* retryDeadLetter: the oldest entry of the job is spliced out and pushed,  *)
(* all in one step.                                                         *)
RetryDeadLetter(i) ==
  /\ ~redis /\ Load < MaxLoad
  /\ i \in 1..Len(dead) /\ \A k \in 1..(i - 1) : dead[k].job.id # dead[i].job.id
  /\ dead' = RemoveAt(dead, i)
  /\ StartUnlessProcessing(Append(queue, Reset(dead[i].job)), timers)
  /\ retried' = retried + 1
  /\ revived' = [revived EXCEPT ![dead[i].job.id] = @ + 1]
  /\ UNCHANGED <<callers, redis, registered, faults, died, done, tally>>

-----------------------------------------------------------------------------
(* Faults. *)

InHand(j) == Cardinality({w \in Loops : loops[w].job.id = j})
Listed(j) == Cardinality({i \in 1..Len(queue) : queue[i].id = j})
               + Cardinality({i \in 1..Len(dead) : dead[i].job.id = j})

(* A Redis command of a loop fails.  (A lost answer of rpop looks like      *)
(* DeserializeJob.)                                                         *)
LoopDies(w) ==
  /\ faults < MaxFaults
  /\ loops[w].pc \in {"len", "pop"}
  /\ At(w, "idle", None)
  /\ faults' = faults + 1
  /\ died' = TRUE
  /\ UNCHANGED <<lists, callers, redis, registered, retried, processing, timers, work, tally>>

(* The process restarts; only Redis remembers, and nothing starts a loop. *)
Restart ==
  /\ faults < MaxFaults
  /\ faults' = faults + 1
  /\ IF redis THEN UNCHANGED lists ELSE queue' = << >> /\ dead' = << >>
  /\ tally' = [j \in Jobs |->
                 [tally[j] EXCEPT !.lost = @ + InHand(j) + IF redis THEN 0 ELSE Listed(j)]]
  /\ processing' = FALSE
  /\ timers' = 0
  /\ loops' = [w \in Loops |-> Idle]
  /\ callers' = [j \in Jobs |-> IF callers[j] = "pushed" THEN "returned" ELSE callers[j]]
  /\ registered' = {}
  /\ died' = FALSE
  /\ UNCHANGED <<redis, retried, work>>

-----------------------------------------------------------------------------
LoopStep(w) ==
  \/ Length(w) \/ Pop(w) \/ DeserializeJob(w)
  \/ Processed(w) \/ Fail(w) \/ MoveToDeadLetter(w)

QueueNext ==
  \/ \E j \in Jobs : RegisterProcessor(j) \/ EnqueuePush(j) \/ Enqueue(j)
  \/ \E w \in Loops : LoopStep(w) \/ LoopDies(w)
  \/ \E i \in 1..Len(queue) : Ripen(i)
  \/ \E i \in 1..Len(dead) : RetryDeadLetter(i)
  \/ TimerFires
  \/ Restart

(* The event loop runs every continuation and every due callback, Redis and *)
(* the processors answer, and time passes.  Nobody has to enqueue or retry. *)
QueueFairness ==
  /\ \A w \in Loops : WF_vars(LoopStep(w))
  /\ \A j \in Jobs : WF_vars(callers[j] = "pushed" /\ Enqueue(j))
  /\ SF_vars(\E i \in 1..Len(queue) : Ripen(i))
  /\ WF_vars(TimerFires)

QueueSpec == Init /\ [][QueueNext]_vars /\ QueueFairness

-----------------------------------------------------------------------------
(* One type invariant for the lists, the loops and the counts. *)
QueueTypeOK ==
  /\ {redis, processing} \subseteq BOOLEAN
  /\ queue \in Seq(JobType)
  /\ dead \in Seq(EntryType) /\ Len(dead) <= MaxDeadLetter
  /\ \A w \in Loops : loops[w].job \in JobType \cup {None}
  /\ callers \in [Jobs -> {"new", "pushed", "returned"}]
  /\ {timers, faults, retried} \subseteq Nat

(* Every job that was accepted is in one place: in a list, in the hands of  *)
(* a loop, done, trimmed off the dead letters, lost by a restart, or, with  *)
(* Redis only, thrown away by the code that could not parse it.             *)
JobsConserved ==
  \A j \in Jobs :
    /\ (IF callers[j] = "new" THEN 0 ELSE 1) =
         done[j] + InHand(j) + Listed(j) + tally[j].trimmed + tally[j].dropped + tally[j].lost
    /\ tally[j].dropped > 0 => redis

(* The work of a job is done once, a failing job has an end (its processor  *)
(* is called at most DEFAULT_MAX_ATTEMPTS times each time it is queued by   *)
(* enqueue or by a retry), and nothing is buried as failed before all its   *)
(* attempts: a dead letter has used them up or was never tried.             *)
WorkIsDoneOnce ==
  /\ \A j \in Jobs : /\ done[j] <= 1
                      /\ done[j] = 1 => Listed(j) = 0
                      /\ tried[j] <= DefaultAttempts * (revived[j] + 1)
  /\ \A i \in 1..Len(dead) : dead[i].job.attempts \in {0, DefaultAttempts}

(* isProcessing is never left set without a loop, which would stop the      *)
(* queue until the next restart; only a loop that died can do that, and     *)
(* without Redis none dies.  With Redis a job waits for every loop that     *)
(* asks for one, however many calls have passed the test of isProcessing:   *)
(* the returns for an empty list, which reset the flag, are never taken.    *)
ProcessingMeansALoop ==
  /\ processing => (\E w \in Loops : loops[w].pc # "idle") \/ (redis /\ died)
  /\ Cardinality({w \in Loops : loops[w].pc \in {"len", "pop"}}) <= Len(queue)

(* Without Redis at most one loop runs, and it runs whenever a job that is  *)
(* due waits.  (With Redis two calls can pass the test of isProcessing.)    *)
OneLoopInMemory ==
  ~redis =>
    /\ Cardinality({w \in Loops : loops[w].pc # "idle"}) <= 1
    /\ processing <=> \E w \in Loops : loops[w].pc # "idle"
    /\ ~processing /\ queue # << >> => timers > 0

(* In memory every job is done or buried in the end, or a restart loses it. *)
JobsSettle ==
  \A j \in Jobs :
    ~redis /\ callers[j] # "new" ~> done[j] > 0 \/ tally[j].buried > 0 \/ tally[j].lost > 0

-----------------------------------------------------------------------------
(* What the file says of itself, and the code does not do. *)

(* "Auto-start processing" (queue-service.ts:89): a job whose enqueue has   *)
(* returned does not stay in the list for ever.  With Redis it does, once a *)
(* loop has thrown another job away and left isProcessing set.              *)
JobsGetTaken ==
  \A j \in Jobs : callers[j] = "returned" ~> \A i \in 1..Len(queue) : queue[i].id # j
=============================================================================
