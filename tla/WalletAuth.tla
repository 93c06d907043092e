----------------------------- MODULE WalletAuth -----------------------------
(***************************************************************************)
(* Signing a message with one wallet: the message handed out, the calls     *)
(* that present it, and the counter of failed attempts that locks the       *)
(* wallet out.  Messages and counters live on Redis, one command at a time, *)
(* or in a map of the process, where a function has no await inside and is  *)
(* one step.                                                                *)
(***************************************************************************)
EXTENDS Integers, FiniteSets

CONSTANTS
    AuthCalls,        \* the calls in flight at once
    MaxMessages,  \* bound: messages handed out
    MaxFailed     \* MAX_FAILED_ATTEMPTS (5 in the code)

ASSUME WalletAuthAssumption ==
    MaxMessages \in Nat /\ MaxFailed \in Nat \ {0, 1}

VARIABLES
    redis,        \* Redis is configured
    stored,       \* the message stored for the wallet, 0 for none
    issued,       \* how many messages were handed out: message n is the n-th
    attempts,     \* the counter of failed attempts, 0 for no entry
    ttl,          \* on Redis: the counter has a time to live
    locked,       \* the wallet is locked out
    authCall,     \* per call: its kind, place, message and signature
    used,         \* history: how many calls each message has let through
    raced,        \* history: messages read by a call while another deletes them
    stranded      \* history: a call died between the counter and its time to live

authVars == <<redis, stored, issued, attempts, ttl, locked, authCall, used, raced,
              stranded>>

Messages == 1..MaxMessages
Kinds == {"signin", "verify", "link"}
Waiting == [kind |-> "signin", at |-> "idle", msg |-> 0, good |-> TRUE]

AuthInit(stores) ==
    /\ redis \in stores
    /\ stored = 0 /\ issued = 0
    /\ attempts = 0 /\ ttl = FALSE /\ locked = FALSE
    /\ authCall = [c \in AuthCalls |-> Waiting]
    /\ used = [m \in Messages |-> 0]
    /\ raced = {} /\ stranded = FALSE

\* only the delete needs what was presented
AuthStep(c, place) ==
    authCall' = [authCall EXCEPT ![c] =
                    IF place = "delete" THEN [@ EXCEPT !.at = place]
                    ELSE [Waiting EXCEPT !.at = place]]
AuthEnd(c) == authCall' = [authCall EXCEPT ![c] = Waiting]
-----------------------------------------------------------------------------
\* POST sign-message replaces whatever was stored.
SignMessage ==
    /\ issued < MaxMessages
    /\ issued' = issued + 1
    /\ stored' = issued + 1
    /\ UNCHANGED <<redis, attempts, ttl, locked, authCall, used, raced, stranded>>

NonceExpires ==
    /\ stored # 0
    /\ stored' = 0
    /\ UNCHANGED <<redis, issued, attempts, ttl, locked, authCall, used, raced,
                   stranded>>

\* A call with one of the messages handed out so far, or with one never handed
\* out (0); a sign-in stops at the lock, the other two do not ask for it.
Present(c) ==
    /\ authCall[c].at = "idle"
    /\ \E kind \in Kinds, m \in 0..issued, good \in BOOLEAN :
          /\ ~(kind = "signin" /\ locked)
          /\ authCall' = [authCall EXCEPT ![c] = [kind |-> kind, at |-> "read", msg |-> m,
                                          good |-> good]]
    /\ UNCHANGED <<redis, stored, issued, attempts, ttl, locked, used, raced,
                   stranded>>

Matches(c) == stored # 0 /\ authCall[c].msg = stored /\ authCall[c].good

\* where a call goes once the message is read; only a sign-in counts failures
AfterRead(c) ==
    CASE Matches(c) /\ authCall[c].kind = "verify"   -> AuthEnd(c)
      [] Matches(c) /\ authCall[c].kind # "verify"   -> AuthStep(c, "delete")
      [] ~Matches(c) /\ authCall[c].kind = "signin"  -> AuthStep(c, "failed")
      [] ~Matches(c) /\ authCall[c].kind # "signin"  -> AuthEnd(c)

\* getNonce: Redis leaves the message where it is, the map gives it up whether it
\* matches or not.
GetNonce(c) ==
    /\ authCall[c].at = "read"
    /\ AfterRead(c)
    /\ stored' = IF redis THEN stored ELSE 0
    /\ raced' = raced \cup {m \in {stored} :
                   \E d \in AuthCalls \ {c} : authCall[d].at = "delete" /\ authCall[d].msg = m}
    /\ UNCHANGED <<redis, issued, attempts, ttl, locked, used, stranded>>

\* Mutant: the message is not consumed.
Consumed_xKept == stored

Consumed == 0

\* deleteNonce deletes what is stored, a newer message too. The call has been
\* let through.
DeleteNonce(c) ==
    /\ authCall[c].at = "delete"
    /\ stored' = Consumed
    /\ used' = [used EXCEPT ![authCall[c].msg] = @ + 1]
    /\ IF authCall[c].kind = "signin" THEN AuthStep(c, "clear") ELSE AuthEnd(c)
    /\ UNCHANGED <<redis, issued, attempts, ttl, locked, raced, stranded>>

ClearFailed(c) ==
    /\ authCall[c].at = "clear"
    /\ attempts' = 0 /\ ttl' = FALSE /\ locked' = FALSE
    /\ AuthEnd(c)
    /\ UNCHANGED <<redis, stored, issued, used, raced, stranded>>
-----------------------------------------------------------------------------
(***************************************************************************)
(* recordFailedAttempt.                                                     *)
(***************************************************************************)
\* Mutant: the time to live is set by the attempt that locks.
SetsTtl_xLast(count) == count = MaxFailed

SetsTtl(count) == count = 1

\* where a call goes after the counter, or after its time to live
AfterCount(c, count) ==
    IF count >= MaxFailed THEN AuthStep(c, "lock") ELSE AuthEnd(c)

\* a counter beyond the maximum says nothing more: it is kept at the maximum
Count == IF attempts < MaxFailed THEN attempts + 1 ELSE MaxFailed

Incr(c) ==
    /\ redis
    /\ authCall[c].at = "failed"
    /\ attempts' = Count
    /\ IF SetsTtl(Count) THEN AuthStep(c, "expire") ELSE AfterCount(c, Count)
    /\ UNCHANGED <<redis, stored, issued, ttl, locked, used, raced, stranded>>

\* expire on a counter that is gone does nothing; its count was 1
ExpireAttempts(c) ==
    /\ authCall[c].at = "expire"
    /\ ttl' = (attempts > 0)
    /\ AfterCount(c, 1)
    /\ UNCHANGED <<redis, stored, issued, attempts, locked, used, raced, stranded>>

LockOut(c) ==
    /\ authCall[c].at = "lock"
    /\ locked' = TRUE
    /\ AuthStep(c, "forget")
    /\ UNCHANGED <<redis, stored, issued, attempts, ttl, used, raced, stranded>>

DeleteAttempts(c) ==
    /\ authCall[c].at = "forget"
    /\ attempts' = 0 /\ ttl' = FALSE
    /\ AuthEnd(c)
    /\ UNCHANGED <<redis, stored, issued, locked, used, raced, stranded>>

\* In memory one entry holds count and lock: a fresh window, once the old one is
\* over, drops a lock that a concurrent call has set.
CountInMemory(c) ==
    /\ ~redis
    /\ authCall[c].at = "failed"
    /\ attempts' = Count
    /\ locked' = (attempts > 0 /\ (locked \/ Count = MaxFailed))
    /\ AuthEnd(c)
    /\ UNCHANGED <<redis, stored, issued, ttl, used, raced, stranded>>

\* The window of the attempts is over: on Redis only a time to live ends it.
AttemptsExpire ==
    /\ attempts > 0
    /\ redis => ttl
    /\ attempts' = 0 /\ ttl' = FALSE
    /\ UNCHANGED <<redis, stored, issued, locked, authCall, used, raced, stranded>>

\* The lock ends; in memory the entry goes with it.
LockExpires ==
    /\ locked
    /\ locked' = FALSE
    /\ attempts' = IF redis THEN attempts ELSE 0
    /\ UNCHANGED <<redis, stored, issued, ttl, authCall, used, raced, stranded>>

AuthCallDies(c) ==
    /\ redis
    /\ authCall[c].at \in {"delete", "clear", "failed", "expire", "lock", "forget"}
    /\ stranded' = (stranded \/ authCall[c].at = "expire")
    /\ AuthEnd(c)
    /\ UNCHANGED <<redis, stored, issued, attempts, ttl, locked, used, raced>>

AuthNext ==
    \/ SignMessage \/ NonceExpires \/ AttemptsExpire \/ LockExpires
    \/ \E c \in AuthCalls :
          \/ Present(c) \/ GetNonce(c) \/ DeleteNonce(c) \/ ClearFailed(c)
          \/ Incr(c) \/ ExpireAttempts(c) \/ LockOut(c) \/ DeleteAttempts(c)
          \/ CountInMemory(c) \/ AuthCallDies(c)

AuthSpec(stores) == AuthInit(stores) /\ [][AuthNext]_authVars
-----------------------------------------------------------------------------
(***************************************************************************)
(* Properties.                                                              *)
(***************************************************************************)
\* Type invariant of the wallet's authentication.
WalletAuthTypeOK ==
    /\ redis \in BOOLEAN
    /\ issued \in 0..MaxMessages /\ stored \in 0..issued
    /\ attempts \in 0..MaxFailed /\ {ttl, locked, stranded} \subseteq BOOLEAN
    /\ authCall \in [AuthCalls -> [kind : Kinds, msg : 0..MaxMessages, good : BOOLEAN,
                           at : {"idle", "read", "delete", "clear", "failed",
                                 "expire", "lock", "forget"}]]
    /\ used \in [Messages -> Nat]
    /\ raced \subseteq Messages

\* A signed message lets one call through, in memory always, and on Redis unless a
\* second call read it between the first one's get and its delete; a message that
\* was replaced or deleted never comes back (auth-options.ts:60-75,
\* nonce-store.ts:42-69).
NonceSpentOnce ==
    \A m \in Messages :
       /\ used[m] > 1 => redis /\ m \in raced
       /\ used[m] > 0 /\ stored = m => m \in raced

\* On Redis the counter of failed attempts always has an end: its time to live is
\* set, or the call that started it is about to set it, unless one died right
\* there; otherwise attempts of different days would add up to a lockout
\* (lockout.ts:62-66).
CounterHasDeadline ==
    (redis /\ attempts > 0 /\ ~ttl) =>
       stranded \/ \E c \in AuthCalls : authCall[c].at = "expire"
=============================================================================
