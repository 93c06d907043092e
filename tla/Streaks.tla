------------------------------- MODULE Streaks -------------------------------
(***************************************************************************)
(* The daily login and the recorded activity of one user.  Each tab's call  *)
(* of POST /api/streak/daily-login reads the login row, computes from what   *)
(* it read, and then writes three tables with three statements; a call of   *)
(* POST /api/streak/record writes the day's activity, reads the streak row   *)
(* and writes it.  Nothing ties the statements of a call together.           *)
(*                                                                         *)
(* Time passes in half days.  The login counts days in IST, the record on   *)
(* the server's clock (UTC): the IST day changes first.                      *)
(***************************************************************************)
EXTENDS Integers, FiniteSets, Functions

CONSTANTS
    Tabs,        \* concurrent calls of one user
    LastHalf,     \* bound: half days that pass
    MaxCrashes    \* bound: calls that die between two statements

ASSUME StreakAssumption == LastHalf \in Nat /\ MaxCrashes \in Nat

VARIABLES
    half,        \* half days since the start
    login,       \* the row of daily_login_streaks
    offchain,    \* profiles.offchain_xp
    activity,    \* streak_activity, per day
    streak,      \* the row of streaks
    tab,         \* per tab: the call's place and what it holds
    disturbed,   \* history: logins overlapped, around midnight too, or one died half way
    crashes       \* how many calls have died

streakVars == <<half, login, offchain, activity, streak, tab, disturbed, crashes>>

Day == 0..(LastHalf + 1)
UtcDay == half \div 2
IstDay == (half + 1) \div 2

Never == -9    \* no date: neither today nor yesterday

NoLogin == [current |-> 0, longest |-> 0, date |-> Never, xp |-> 0]
NoStreak == [current |-> 0, longest |-> 0, date |-> Never]
NoActivity == [xp |-> 0, learnt |-> FALSE]

\* a call: where it is, the login row it will write and whether the streak broke,
\* the day it records and the streak row it will write
Idle == [at |-> "idle", row |-> NoLogin, broken |-> FALSE, day |-> 0,
         next |-> NoStreak]

StreaksInit ==
    /\ half = 0
    /\ login = NoLogin
    /\ offchain = 0
    /\ activity = [d \in Day |-> NoActivity]
    /\ streak = NoStreak
    /\ tab = [t \in Tabs |-> Idle]
    /\ disturbed = FALSE
    /\ crashes = 0

Larger(a, b) == IF a > b THEN a ELSE b
-----------------------------------------------------------------------------
(***************************************************************************)
(* POST /api/streak/daily-login                                             *)
(***************************************************************************)
LoggingIn(t) == tab[t].at \in {"upsert", "profile", "heatmap"}

DailyXp(n) == n * 10

\* the row that the call will write on its day, computed from the row it has read
NewRow(row, day, broken) ==
    LET n == IF broken \/ row = NoLogin THEN 1 ELSE row.current + 1 IN
    [current |-> n, longest |-> Larger(row.longest, n), date |-> day,
     xp |-> IF broken THEN DailyXp(n) ELSE row.xp + DailyXp(n)]

\* The call asks for today before it asks for the row.
StartLogin(t) ==
    /\ tab[t].at = "idle"
    /\ tab' = [tab EXCEPT ![t].at = "read", ![t].day = IstDay]
    /\ UNCHANGED <<half, login, offchain, activity, streak, disturbed, crashes>>

\* The read.  A call on a day that has been credited ends here; to one that began
\* before midnight and reads the row of the day after, the streak looks broken.
ReadLogin(t) ==
    LET day == tab[t].day
        broken == login # NoLogin /\ login.date # day - 1 IN
    /\ tab[t].at = "read"
    /\ IF login.date = day
       THEN tab' = [tab EXCEPT ![t] = Idle] /\ UNCHANGED disturbed
       ELSE /\ tab' = [tab EXCEPT ![t].at = "upsert", ![t].broken = broken,
                                  ![t].row = NewRow(login, day, broken),
                                  ![t].day = 0]
            /\ disturbed' = (disturbed \/ login.date > day
                                       \/ \E u \in Tabs : LoggingIn(u))
    /\ UNCHANGED <<half, login, offchain, activity, streak, crashes>>

UpsertLogin(t) ==
    /\ tab[t].at = "upsert"
    /\ login' = tab[t].row
    /\ tab' = [tab EXCEPT ![t].at = "profile"]
    /\ UNCHANGED <<half, offchain, activity, streak, disturbed, crashes>>

\* Mutant: a broken streak only adds.
NewOffchain_xOnlyAdds(t) == offchain + DailyXp(tab[t].row.current)

\* a broken streak sets the column, any other login increments it
NewOffchain(t) ==
    IF tab[t].broken THEN DailyXp(tab[t].row.current)
                     ELSE offchain + DailyXp(tab[t].row.current)

UpdateProfile(t) ==
    /\ tab[t].at = "profile"
    /\ offchain' = NewOffchain(t)
    /\ tab' = [tab EXCEPT ![t].at = "heatmap", ![t].broken = FALSE]
    /\ UNCHANGED <<half, login, activity, streak, disturbed, crashes>>

UpsertHeatmap(t) ==
    /\ tab[t].at = "heatmap"
    /\ activity' = [activity EXCEPT ![tab[t].row.date].xp =
                                       @ + DailyXp(tab[t].row.current)]
    /\ tab' = [tab EXCEPT ![t] = Idle]
    /\ UNCHANGED <<half, login, offchain, streak, disturbed, crashes>>
-----------------------------------------------------------------------------
(***************************************************************************)
(* POST /api/streak/record, for one completed lesson.                        *)
(***************************************************************************)
RecordActivity(t) ==
    /\ tab[t].at = "idle"
    /\ activity' = [activity EXCEPT ![UtcDay].learnt = TRUE]
    /\ tab' = [tab EXCEPT ![t].at = "find", ![t].day = UtcDay]
    /\ UNCHANGED <<half, login, offchain, streak, disturbed, crashes>>

\* Mutant: any earlier day counts as yesterday.
Counted_xAnyGap(row, day) == IF row.date = day THEN row.current ELSE row.current + 1

\* the same day changes nothing, the day after adds one, a gap starts again
Counted(row, day) ==
    CASE row.date = day     -> row.current
      [] row.date = day - 1 -> row.current + 1
      [] OTHER              -> 1

FindStreak(t) ==
    /\ tab[t].at = "find"
    /\ LET n == Counted(streak, tab[t].day) IN
       tab' = [tab EXCEPT
          ![t].at = IF streak = NoStreak THEN "create" ELSE "update",
          ![t].next = [current |-> n, longest |-> Larger(streak.longest, n),
                       date |-> tab[t].day],
          ![t].day = 0]
    /\ UNCHANGED <<half, login, offchain, activity, streak, disturbed, crashes>>

\* The user id is unique in streaks: the second of two creates fails.
CreateStreak(t) ==
    /\ tab[t].at = "create"
    /\ streak' = IF streak = NoStreak THEN tab[t].next ELSE streak
    /\ tab' = [tab EXCEPT ![t] = Idle]
    /\ UNCHANGED <<half, login, offchain, activity, disturbed, crashes>>

UpdateStreak(t) ==
    /\ tab[t].at = "update"
    /\ streak' = tab[t].next
    /\ tab' = [tab EXCEPT ![t] = Idle]
    /\ UNCHANGED <<half, login, offchain, activity, disturbed, crashes>>
-----------------------------------------------------------------------------
HalfDayPasses ==
    /\ half < LastHalf
    /\ half' = half + 1
    /\ UNCHANGED <<login, offchain, activity, streak, tab, disturbed, crashes>>

\* A call dies, or one of its statements fails.
CallDies(t) ==
    /\ tab[t].at # "idle"
    /\ crashes < MaxCrashes
    /\ crashes' = crashes + 1
    /\ tab' = [tab EXCEPT ![t] = Idle]
    /\ disturbed' = (disturbed \/ LoggingIn(t))
    /\ UNCHANGED <<half, login, offchain, activity, streak>>

StreaksNext ==
    \/ \E t \in Tabs :
          \/ StartLogin(t) \/ ReadLogin(t)
          \/ UpsertLogin(t) \/ UpdateProfile(t) \/ UpsertHeatmap(t)
          \/ RecordActivity(t) \/ FindStreak(t) \/ CreateStreak(t) \/ UpdateStreak(t)
          \/ CallDies(t)
    \/ HalfDayPasses
-----------------------------------------------------------------------------
(***************************************************************************)
(* Properties.                                                              *)
(***************************************************************************)
\* Type invariant of the streaks.
StreaksTypeOK ==
    /\ half \in 0..LastHalf
    /\ login \in [current : Nat, longest : Nat, date : Day \cup {Never}, xp : Nat]
    /\ offchain \in Nat
    /\ activity \in [Day -> [xp : Nat, learnt : BOOLEAN]]
    /\ streak \in [current : Nat, longest : Nat, date : Day \cup {Never}]
    /\ \A t \in Tabs :
          /\ tab[t].at \in {"idle", "read", "upsert", "profile", "heatmap",
                            "find", "create", "update"}
          /\ tab[t].row \in [current : Nat, longest : Nat,
                             date : Day \cup {Never}, xp : Nat]
    /\ disturbed \in BOOLEAN
    /\ crashes \in 0..MaxCrashes

\* The login row always holds the XP that its streak is worth, 10 + 20 + ... up
\* to 10 per day of it, whatever calls overlapped or died: each writes a whole row
\* that it computed from a whole row. Between calls, if no two logins ever
\* overlapped, around midnight included, and none died half way, the profile's
\* off-chain XP is that row's and the heatmap shows it day by day; after an overlap
\* or a crash the tables may disagree for good (daily-login/route.ts:84-190).
ProfileFollowsLogin ==
    /\ login.xp = 5 * login.current * (login.current + 1)
    /\ login.longest >= login.current
    /\ (~disturbed /\ \A t \in Tabs : ~LoggingIn(t)) =>
          /\ offchain = login.xp
          /\ login.xp = SumFunctionOnSet(
                [i \in 0..(login.current - 1) |-> activity[login.date - i].xp],
                0..(login.current - 1))

\* The streak row never claims a day on which nothing was recorded, even when a
\* call that read it yesterday writes it today (record/route.ts:28-84).
StreakIsEarned ==
    \A i \in 0..(streak.current - 1) :
       /\ streak.date - i \in Day
       /\ activity[streak.date - i].learnt
=============================================================================
