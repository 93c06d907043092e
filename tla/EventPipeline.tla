--------------------------- MODULE EventPipeline ---------------------------
(***************************************************************************)
(* From program logs to database rows (app/backend/events) and to the      *)
(* leaderboard that is cached from those rows (app/backend/queue/cron.ts), *)
(* which the streak routes and the purge of accounts change as well.       *)
(* A transaction carries one event.  A live callback and the recovery scan *)
(* both end in dispatchEvent, whose awaited statements are steps: run[s][t]*)
(* holds the statements that source s has still to execute for             *)
(* transaction t, source 0 being the scan.                                 *)
(*                                                                         *)
(* An operator whose name ends in _x... is a faulty variant of the         *)
(* definition that follows it, used by no specification.                   *)
(***************************************************************************)
EXTENDS Integers, SequencesExt

CONSTANTS
  Txs,            \* transaction signatures
  MaxHashCache,   \* MAX_HASH_CACHE
  Milestones,     \* COURSE_MILESTONES, as counts of courses
  MaxSubs,        \* bound: subscriptions opened by one process
  Refreshes,      \* bound: the leaderboard refreshes in flight
  Instances       \* what the transactions say, and the bounds of a behaviour

(* txs, kind, names: the transactions, the event of each and the            *)
(* achievement it names, a milestone or one of its own; subs, scans,        *)
(* refreshes, visits, faults: how many subscriptions, recovery scans,       *)
(* refreshes at once, requests that change the learner's account, and       *)
(* restarts, lost deliveries, failed statements and missed transactions     *)
(* there may be.                                                            *)
InstanceType ==
  [txs : SUBSET Txs,
   kind : [Txs -> {"Enrolled", "LessonCompleted", "CourseFinalized", "CredentialIssued",
                   "XpRewarded", "AchievementAwarded", "Other"}],
   names : [Txs -> Txs \cup Milestones],
   subs : 1..MaxSubs, scans : Nat, refreshes : SUBSET Refreshes, visits : Nat, faults : Nat]

ASSUME PipelineAssumption ==
  /\ {MaxSubs, MaxHashCache} \subseteq Nat \ {0}
  /\ IsFiniteSet(Txs) /\ Milestones \subseteq Nat \ Txs
  /\ Instances \subseteq InstanceType

VARIABLES
  redis,          \* whether Redis is configured
  profile,        \* whether the learner's account exists
  linked,         \* whether the learner's wallet is linked to it
  inst,           \* the instance
  chain,          \* the confirmed transactions, in order
  seen,           \* events:processed or memTxHashes, the oldest first
  listening,      \* isListening
  stops,          \* stopEventListener calls that wait for the node
  subs,           \* open subscriptions
  inbox,          \* what each subscription has still to deliver
  run,            \* the statements left of each callback and of the scan
  scan,           \* the signatures of recoverMissedEvents, those left and those missed
  rows,           \* event_logs: rows of a transaction, by origin
  xp, courses,    \* streak_activity: totals of the learner
  achievements,   \* achievements of the learner
  cache,          \* cache:leaderboard, NoCache or the learner's XP in it
  cron,           \* isRunning
  refresh,        \* refreshLeaderboard calls between query and write
  scans, faults, visits,  \* the bounded counts
  past            \* history: forgotten hashes, overlapping checks, late writes,
                  \* lost events, what other writers gave and removed

node == <<chain, profile, linked, inst>>
listener == <<seen, listening, stops, subs, inbox>>
tables == <<rows, xp, courses, achievements>>
board == <<cache, cron, refresh>>
counts == <<scans, faults, visits>>
vars == <<redis, node, listener, run, scan, tables, board, counts, past>>

Sources == 0..MaxSubs
NoCache == -1
NoScan  == [on |-> FALSE, list |-> << >>, left |-> << >>, missed |-> {}]
Resting == [on |-> FALSE, xp |-> 0, direct |-> 0, late |-> FALSE]

(* The awaited statements of each handler, in order. *)
Steps_xDeletesFirst ==
  [Enrolled |-> <<"log", "audit", "notify">>,
   LessonCompleted |-> <<"log", "del", "record", "notify">>,
   CourseFinalized |-> <<"log", "del", "record", "award", "notify">>,
   CredentialIssued |-> <<"log", "certify", "notify">>,
   XpRewarded |-> <<"log", "del", "record">>,
   AchievementAwarded |-> <<"log", "certify", "notify">>,
   Other |-> <<"log">>]
Steps_xLogsLast ==
  [Enrolled |-> <<"audit", "notify", "log">>,
   LessonCompleted |-> <<"record", "notify", "del", "log">>,
   CourseFinalized |-> <<"record", "award", "notify", "del", "log">>,
   CredentialIssued |-> <<"certify", "notify", "log">>,
   XpRewarded |-> <<"record", "del", "log">>,
   AchievementAwarded |-> <<"certify", "notify", "log">>,
   Other |-> <<"log">>]
Steps ==
  [Enrolled |-> <<"log", "audit", "notify">>,
   LessonCompleted |-> <<"log", "record", "notify", "del">>,
   CourseFinalized |-> <<"log", "record", "award", "notify", "del">>,
   CredentialIssued |-> <<"log", "certify", "notify">>,
   XpRewarded |-> <<"log", "record", "del">>,
   AchievementAwarded |-> <<"log", "certify", "notify">>,
   Other |-> <<"log">>]

(* Each event pays one unit, a finished course its total and its bonus. *)
XpOf(k) == IF k = "CourseFinalized" THEN 2 ELSE 1

Init ==
  /\ redis \in BOOLEAN
  /\ profile = TRUE /\ linked = FALSE
  /\ inst \in Instances
  /\ chain = << >>
  /\ seen = << >> /\ listening = FALSE /\ stops = 0 /\ subs = 0
  /\ inbox = [s \in Sources |-> {}]
  /\ run = [s \in Sources |-> [t \in Txs |-> << >>]]
  /\ scan = NoScan
  /\ rows = [t \in Txs |-> [live |-> 0, scan |-> 0, failed |-> 0]]
  /\ xp = 0 /\ courses = 0 /\ achievements = {}
  /\ cache = NoCache /\ cron = FALSE /\ refresh = [r \in Refreshes |-> Resting]
  /\ scans = 0 /\ faults = 0 /\ visits = 0
  /\ past = [forgot |-> [t \in Txs |-> 0], overlap |-> [t \in Txs |-> 0],
             overtaken |-> FALSE, lost |-> {},
             direct |-> [xp |-> 0, courses |-> 0, badges |-> {}], shown |-> 0, purged |-> 0]

-----------------------------------------------------------------------------
(* The chain, and the account. *)

Land(t) ==
  /\ t \in inst.txs /\ ~Contains(chain, t)
  /\ chain' = Append(chain, t)
  /\ inbox' = [s \in Sources |-> IF s \in 1..subs THEN inbox[s] \cup {t} ELSE inbox[s]]
  /\ UNCHANGED <<redis, profile, linked, inst, seen, listening, stops, subs, run, scan, tables, board, counts, past>>

(* The learner links the wallet, before the events or while they are under way. *)
Link ==
  /\ profile /\ ~linked
  /\ linked' = TRUE
  /\ UNCHANGED <<redis, chain, profile, inst, listener, run, scan, tables, board, counts, past>>

(* Or takes it off again, while events are under way.                       *)
Unlink ==
  /\ linked /\ visits < inst.visits
  /\ visits' = visits + 1
  /\ linked' = FALSE
  /\ UNCHANGED <<redis, chain, profile, inst, listener, run, scan, tables, board, scans, faults, past>>

(* The streak routes add to streak_activity without an event, and leave the *)
(* cached leaderboard as it is.                                             *)
AddToDay(x, c) ==
  /\ profile /\ visits < inst.visits
  /\ visits' = visits + 1
  /\ xp' = xp + x
  /\ courses' = courses + c
  /\ past' = [past EXCEPT !.direct = [xp |-> @.xp + x, courses |-> @.courses + c, badges |-> @.badges]]
  /\ UNCHANGED <<redis, node, listener, run, scan, rows, achievements, board, scans, faults>>

DailyLogin == AddToDay(1, 0)

(* The body of the request says how much. *)
RecordDay == \E x, c \in 0..1 : AddToDay(x, c)

(* The award route gives any achievement of the catalogue, a milestone as   *)
(* well, to the wallet's owner, whatever courses are recorded.              *)
Claim(m) ==
  /\ linked /\ visits < inst.visits
  /\ visits' = visits + 1
  /\ achievements' = achievements \cup {m}
  /\ past' = [past EXCEPT !.direct.badges = @ \cup {m}]
  /\ UNCHANGED <<redis, node, listener, run, scan, rows, xp, courses, board, scans, faults>>

(* The purge of deleted profiles, or the deletion by an administrator: what *)
(* hangs on the profile goes, event_logs and the cached leaderboard stay.   *)
Purge ==
  /\ profile /\ visits < inst.visits
  /\ visits' = visits + 1
  /\ profile' = FALSE /\ linked' = FALSE
  /\ xp' = 0 /\ courses' = 0 /\ achievements' = {}
  /\ past' = [past EXCEPT !.purged = xp]
  /\ UNCHANGED <<redis, chain, inst, listener, run, scan, rows, board, scans, faults>>

-----------------------------------------------------------------------------
(* startEventListener and stopEventListener.  The latter asks a connection  *)
(* of its own to remove the listener, which does not know it: the           *)
(* subscription stays.                                                      *)

StartEventListener ==
  /\ ~listening /\ subs < inst.subs
  /\ listening' = TRUE
  /\ subs' = subs + 1
  /\ UNCHANGED <<redis, node, seen, stops, inbox, run, scan, tables, board, counts, past>>

StopEventListener ==
  /\ listening /\ stops < inst.subs
  /\ stops' = stops + 1
  /\ UNCHANGED <<redis, node, seen, listening, subs, inbox, run, scan, tables, board, counts, past>>

Stopped ==
  /\ stops > 0
  /\ stops' = stops - 1
  /\ listening' = FALSE
  /\ UNCHANGED <<redis, node, seen, subs, inbox, run, scan, tables, board, counts, past>>

-----------------------------------------------------------------------------
(* trackTxHash. *)

Tracked(t) == Contains(seen, t)

(* In memory the older half makes room. *)
Remembered_xUnbounded(t) == Append(seen, t)
Remembered(t) ==
  LET all == Append(seen, t)
  IN  IF redis \/ Len(all) <= MaxHashCache THEN all
      ELSE SubSeq(all, 1 + (MaxHashCache + 1) \div 2, Len(all))

Evicted(new) == {t \in Txs : Tracked(t) /\ ~Contains(new, t)}
Forgetting(new, lost) ==
  past' = [past EXCEPT !.forgot = [t \in Txs |-> @[t] + IF t \in Evicted(new) THEN 1 ELSE 0],
                       !.lost = @ \cup lost]

(* The onLogs callback starts. *)
Deliver(s, t) ==
  /\ s \in 1..subs /\ t \in inbox[s]
  /\ inbox' = [inbox EXCEPT ![s] = @ \ {t}]
  /\ run' = [run EXCEPT ![s][t] = <<"check">> \o Steps[inst.kind[t]]]
  /\ UNCHANGED <<redis, node, seen, listening, stops, subs, scan, tables, board, counts, past>>

IsNew_xNeverChecked(t) == TRUE
IsNew_xInverted(t) == Tracked(t)
IsNew(t) == ~Tracked(t)

(* With Redis the membership is asked first and the hash added later. *)
CheckInMemory(s, t) ==
  /\ ~redis /\ run[s][t] # << >> /\ Head(run[s][t]) = "check"
  /\ seen' = IF Tracked(t) THEN seen ELSE Remembered(t)
  /\ run' = [run EXCEPT ![s][t] = IF IsNew(t) THEN Tail(@) ELSE << >>]
  /\ Forgetting(seen', {})
  /\ UNCHANGED <<redis, node, listening, stops, subs, inbox, scan, tables, board, counts>>

Adding(t) == {s \in Sources : run[s][t] # << >> /\ Head(run[s][t]) = "add"}

CheckRedis(s, t) ==
  /\ redis /\ run[s][t] # << >> /\ Head(run[s][t]) = "check"
  /\ run' = [run EXCEPT ![s][t] = IF IsNew(t) THEN <<"add">> \o Tail(@) ELSE << >>]
  /\ past' = IF IsNew(t) /\ Adding(t) # {} THEN [past EXCEPT !.overlap[t] = @ + 1] ELSE past
  /\ UNCHANGED <<redis, node, listener, scan, tables, board, counts>>

AddHash(s, t) ==
  /\ s \in Adding(t)
  /\ seen' = IF Tracked(t) THEN seen ELSE Append(seen, t)
  /\ run' = [run EXCEPT ![s][t] = Tail(@)]
  /\ UNCHANGED <<redis, node, listening, stops, subs, inbox, scan, tables, board, counts, past>>

(* A day without a new transaction: the key expires. *)
HashesExpire ==
  /\ redis /\ seen # << >>
  /\ seen' = << >>
  /\ Forgetting(<< >>, {})
  /\ UNCHANGED <<redis, node, listening, stops, subs, inbox, run, scan, tables, board, counts>>

-----------------------------------------------------------------------------
(* dispatchEvent: one statement after the other. *)

Next1(s, t, step) == run[s][t] # << >> /\ Head(run[s][t]) = step
Advance(s, t) == run' = [run EXCEPT ![s][t] = Tail(@)]
Return(s, t) == run' = [run EXCEPT ![s][t] = << >>]

LogEvent(s, t) ==
  /\ Next1(s, t, "log")
  /\ rows' = IF s = 0 THEN [rows EXCEPT ![t].scan = @ + 1] ELSE [rows EXCEPT ![t].live = @ + 1]
  /\ Advance(s, t)
  /\ UNCHANGED <<redis, node, listener, scan, xp, courses, achievements, board, counts, past>>

(* Every handler first looks the wallet up, and returns without an account. *)
Unlinked(s, t) ==
  /\ \E step \in {"audit", "record", "certify"} : Next1(s, t, step)
  /\ ~linked
  /\ Return(s, t)
  /\ UNCHANGED <<redis, node, listener, scan, tables, board, counts, past>>

Audit(s, t) ==
  /\ linked /\ Next1(s, t, "audit")
  /\ Advance(s, t)
  /\ UNCHANGED <<redis, node, listener, scan, tables, board, counts, past>>

RecordActivity(s, t) ==
  /\ linked /\ Next1(s, t, "record")
  /\ xp' = xp + XpOf(inst.kind[t])
  /\ courses' = IF inst.kind[t] = "CourseFinalized" THEN courses + 1 ELSE courses
  /\ Advance(s, t)
  /\ UNCHANGED <<redis, node, listener, scan, rows, achievements, board, counts, past>>

(* The unique constraint swallows what is there. *)
AwardMilestones(s, t) ==
  LET reached == {m \in Milestones : m <= courses} \ achievements
  IN  /\ Next1(s, t, "award")
      /\ achievements' = achievements \cup reached
      /\ Advance(s, t)
      /\ UNCHANGED <<redis, node, listener, scan, rows, xp, courses, board, counts, past>>

Certify(s, t) ==
  /\ linked /\ Next1(s, t, "certify")
  /\ achievements' = achievements \cup {inst.names[t]}
  /\ Advance(s, t)
  /\ UNCHANGED <<redis, node, listener, scan, rows, xp, courses, board, counts, past>>

(* enqueue: see JobQueue. *)
Notify(s, t) ==
  /\ Next1(s, t, "notify")
  /\ Advance(s, t)
  /\ UNCHANGED <<redis, node, listener, scan, tables, board, counts, past>>

(* A refresh that has queried and not yet written is late from here on. *)
DeleteCache(s, t) ==
  /\ Next1(s, t, "del")
  /\ cache' = NoCache
  /\ refresh' = [r \in Refreshes |-> [refresh[r] EXCEPT !.late = refresh[r].on]]
  /\ past' = [past EXCEPT !.overtaken = FALSE]
  /\ Advance(s, t)
  /\ UNCHANGED <<redis, node, listener, scan, tables, cron, counts>>

(* A statement throws: the rest of the handler is skipped and the failure   *)
(* gets a row of its own, unless the database is what is down.              *)
StatementFails(s, t) ==
  /\ faults < inst.faults
  /\ run[s][t] # << >> /\ Head(run[s][t]) \notin {"check", "add"}
  /\ faults' = faults + 1
  /\ Return(s, t)
  /\ \/ rows' = [rows EXCEPT ![t].failed = @ + 1] /\ UNCHANGED <<scan, past>>
     \/ /\ past' = [past EXCEPT !.lost = @ \cup {t}]
        /\ scan' = IF s = 0 THEN [scan EXCEPT !.missed = @ \cup {t}] ELSE scan
        /\ UNCHANGED rows
  /\ UNCHANGED <<redis, node, listener, xp, courses, achievements, board, scans, visits>>

-----------------------------------------------------------------------------
(* recoverMissedEvents.  trackTxHash is not awaited: its answer is a        *)
(* promise, so the scan skips nothing, and the hash is added all the same.  *)

Recover ==
  /\ ~scan.on /\ scans < inst.scans
  /\ scan' = [on |-> TRUE, list |-> chain, left |-> Reverse(chain), missed |-> {}]
  /\ scans' = scans + 1
  /\ UNCHANGED <<redis, node, listener, run, tables, board, faults, visits, past>>

SkipsKnown_xAwaited(t) == Tracked(t)
SkipsKnown(t) == FALSE

Visit(t) ==
  /\ scan.on /\ scan.left # << >> /\ t = Head(scan.left)
  /\ \A u \in Txs : run[0][u] = << >>
  /\ seen' = IF Tracked(t) THEN seen ELSE Remembered(t)

ScanNext(t) ==
  /\ Visit(t)
  /\ scan' = [scan EXCEPT !.left = Tail(@)]
  /\ run' = IF SkipsKnown(t) THEN run ELSE [run EXCEPT ![0][t] = Steps[inst.kind[t]]]
  /\ Forgetting(seen', {})
  /\ UNCHANGED <<redis, node, listening, stops, subs, inbox, tables, board, counts>>

(* getTransaction throws, or finds no logs: the scan goes on, and the hash  *)
(* has been added.                                                          *)
ScanMisses(t) ==
  /\ faults < inst.faults
  /\ Visit(t)
  /\ faults' = faults + 1
  /\ scan' = [scan EXCEPT !.left = Tail(@), !.missed = @ \cup {t}]
  /\ Forgetting(seen', {t})
  /\ UNCHANGED <<redis, node, listening, stops, subs, inbox, run, tables, board, scans, visits>>

ScanEnds ==
  /\ scan.on /\ scan.left = << >>
  /\ \A u \in Txs : run[0][u] = << >>
  /\ scan' = NoScan
  /\ UNCHANGED <<redis, node, listener, run, tables, board, counts, past>>

-----------------------------------------------------------------------------
(* The leaderboard. *)

(* Without Redis the ranking is computed and dropped. *)
StartRefresh(r) ==
  /\ ~refresh[r].on
  /\ refresh' = [refresh EXCEPT ![r] = IF redis THEN [on |-> TRUE, xp |-> xp, direct |-> past.direct.xp, late |-> FALSE]
                                       ELSE @]

StartCronJobs(r) ==
  /\ ~cron /\ r \in inst.refreshes
  /\ cron' = TRUE
  /\ StartRefresh(r)
  /\ UNCHANGED <<redis, node, listener, run, scan, tables, cache, counts, past>>

StopCronJobs ==
  /\ cron
  /\ cron' = FALSE
  /\ UNCHANGED <<redis, node, listener, run, scan, tables, cache, refresh, counts, past>>

(* The hourly timer, or getLeaderboard on a cache miss. *)
RefreshLeaderboard(r) ==
  /\ r \in inst.refreshes /\ (cron \/ cache = NoCache)
  /\ StartRefresh(r)
  /\ UNCHANGED <<redis, node, listener, run, scan, tables, cache, cron, counts, past>>

WriteCache(r) ==
  /\ refresh[r].on
  /\ cache' = refresh[r].xp
  /\ past' = [past EXCEPT !.overtaken = refresh[r].late, !.shown = refresh[r].direct]
  /\ refresh' = [refresh EXCEPT ![r] = Resting]
  /\ UNCHANGED <<redis, node, listener, run, scan, tables, cron, counts>>

(* LEADERBOARD_TTL. *)
CacheExpires ==
  /\ cache # NoCache
  /\ cache' = NoCache
  /\ past' = [past EXCEPT !.overtaken = FALSE]
  /\ UNCHANGED <<redis, node, listener, run, scan, tables, cron, refresh, counts>>

-----------------------------------------------------------------------------
(* Faults. *)

LoseDelivery(s, t) ==
  /\ faults < inst.faults
  /\ t \in inbox[s]
  /\ inbox' = [inbox EXCEPT ![s] = @ \ {t}]
  /\ faults' = faults + 1
  /\ past' = [past EXCEPT !.lost = @ \cup {t}]
  /\ UNCHANGED <<redis, node, seen, listening, stops, subs, run, scan, tables, board, scans, visits>>

(* What a process leaves undone when it ends. *)
Dropped == {t \in Txs : \E s \in Sources : t \in inbox[s] \/ run[s][t] # << >>}

Restart ==
  /\ faults < inst.faults
  /\ faults' = faults + 1
  /\ seen' = IF redis THEN seen ELSE << >>
  /\ Forgetting(seen', Dropped)
  /\ listening' = FALSE /\ stops' = 0 /\ subs' = 0
  /\ inbox' = [s \in Sources |-> {}]
  /\ run' = [s \in Sources |-> [t \in Txs |-> << >>]]
  /\ scan' = NoScan
  /\ cron' = FALSE /\ refresh' = [r \in Refreshes |-> Resting]
  /\ UNCHANGED <<redis, node, tables, cache, scans, visits>>

-----------------------------------------------------------------------------
Track(s, t) == CheckInMemory(s, t) \/ CheckRedis(s, t) \/ AddHash(s, t)
Dispatch(s, t) ==
  \/ LogEvent(s, t) \/ Unlinked(s, t) \/ Audit(s, t) \/ RecordActivity(s, t)
  \/ AwardMilestones(s, t) \/ Certify(s, t) \/ Notify(s, t) \/ DeleteCache(s, t)

Work(s, t) == Deliver(s, t) \/ Track(s, t) \/ Dispatch(s, t)

PipelineNext ==
  \/ \E t \in Txs : Land(t) \/ ScanNext(t) \/ ScanMisses(t)
  \/ Link \/ Unlink \/ DailyLogin \/ RecordDay \/ Purge
  \/ \E m \in Milestones : Claim(m)
  \/ StartEventListener \/ StopEventListener \/ Stopped
  \/ \E s \in Sources, t \in Txs :
       \/ Work(s, t)
       \/ StatementFails(s, t) \/ LoseDelivery(s, t)
  \/ HashesExpire
  \/ Recover \/ ScanEnds
  \/ \E r \in Refreshes : StartCronJobs(r) \/ RefreshLeaderboard(r) \/ WriteCache(r)
  \/ StopCronJobs \/ CacheExpires
  \/ Restart

(* The socket delivers, and the event loop runs some continuation while one *)
(* is due: their number is bounded, so every one is run.                    *)
PipelineFairness ==
  WF_vars(ScanEnds \/ \E s \in Sources, t \in Txs : ScanNext(t) \/ Work(s, t))

PipelineSpec == Init /\ [][PipelineNext]_vars /\ PipelineFairness

-----------------------------------------------------------------------------
(* One type invariant for the listener, the dispatches and the rows. *)
PipelineTypeOK ==
  /\ {redis, linked, listening, cron} \subseteq BOOLEAN
  /\ Range(chain) \cup Range(seen) \subseteq Txs
  /\ IsInjective(chain) /\ IsInjective(seen)
  /\ ~redis => Len(seen) <= MaxHashCache /\ cache = NoCache
  /\ subs \in 0..MaxSubs /\ stops \in 0..MaxSubs /\ (listening => subs > 0)
  /\ \A t \in Txs : \A n \in Range(<<rows[t].live, rows[t].scan, rows[t].failed>>) : n \in Nat
  /\ {xp, courses} \subseteq Nat

(* However often the listener was started and stopped, the live stream      *)
(* dispatches a transaction once, but for a hash that was forgotten and for *)
(* two Redis checks of which neither saw the other's addition.              *)
DuplicatesExplained ==
  \A t \in Txs : rows[t].live <= 1 + past.overlap[t] + past.forgot[t]

(* What a recovery scan has visited is in event_logs, also when a crash     *)
(* came between the marking of the hash and the dispatch: the scan reaches  *)
(* it because it skips nothing.  What it could not fetch, or could log      *)
(* neither as an event nor as a failure, is all that it misses.             *)
RecoveryReachesLost ==
  \A t \in Range(scan.list) :
    ~Contains(scan.left, t) /\ run[0][t] = << >> /\ t \notin scan.missed =>
      rows[t].live + rows[t].scan + rows[t].failed > 0

(* The cached XP, with what the streak routes have added since its query. *)
CachedXp == cache + (past.direct.xp - past.shown)

(* The cached leaderboard never shows XP that streak_activity has not held  *)
(* and, but for what the streak routes have added since its query, shows    *)
(* less only until a handler in flight deletes it, or when a refresh that   *)
(* queried before a deletion wrote after it, or after a fault.              *)
CacheFollowsActivity ==
  cache # NoCache =>
    /\ CachedXp <= xp + past.purged
    /\ CachedXp < xp /\ faults = 0 /\ ~past.overtaken =>
         \E s \in Sources, t \in Txs : Contains(run[s][t], "del")

Dispatched(t) == rows[t].live + rows[t].scan

(* The XP and the courses that the streak routes did not add come from      *)
(* events that event_logs holds, and a course milestone from as many        *)
(* recorded courses, unless it was claimed, or event_logs holds its award.  *)
EffectsAreLogged ==
  /\ xp <= past.direct.xp
            + SumFunctionOnSet([t \in Txs |-> XpOf(inst.kind[t]) * Dispatched(t)], Txs)
  /\ courses <= past.direct.courses + SumFunctionOnSet([t \in Txs |-> Dispatched(t)], Txs)
  /\ \A m \in Milestones \cap achievements :
       \/ m <= courses \/ m \in past.direct.badges
       \/ \E t \in Txs : inst.names[t] = m /\ Dispatched(t) > 0

(* What a subscription holds is dispatched in the end, or logged as failed, *)
(* unless this very event was lost: by the socket, by a restart, by a scan  *)
(* that marked it and could not fetch it, or with the row of its failure.   *)
EventsGetLogged ==
  \A t \in Txs :
    (\E s \in Sources : t \in inbox[s]) ~> (Dispatched(t) + rows[t].failed > 0 \/ t \in past.lost)

(* Redis-based deduplication via tx hash, and "already processed" in the    *)
(* recovery scan (event-listener.ts:184): no event is dispatched twice.     *)
EventsCountedOnce ==
  \A t \in Txs : past.overlap[t] + past.forgot[t] = 0 => Dispatched(t) <= 1

(* "Invalidate leaderboard cache on XP change" (handlers.ts:164): when no   *)
(* handler is on its way to the deletion and nothing has failed, the cache  *)
(* holds what the handlers have recorded.                                   *)
CacheInvalidated ==
  cache # NoCache /\ CachedXp < xp /\ faults = 0 =>
    \E s \in Sources, t \in Txs : Contains(run[s][t], "del")
=============================================================================
