---------------------------- MODULE RewardRoutes ----------------------------
(***************************************************************************)
(* The routes that make the backend sign on-chain transactions for one      *)
(* learner, one course, one streak milestone and one achievement, and the   *)
(* transaction executor they share.  A request is a process: what it read   *)
(* before an await may be stale after it, a transaction it has sent lands   *)
(* when the network pleases, and a request that stopped waiting does not    *)
(* call its transaction back.                                               *)
(***************************************************************************)
EXTENDS Integers, FiniteSets

CONSTANTS
    Requests,     \* the HTTP requests of a behaviour
    MaxRetries,   \* attempts of executeWithRetry (3 by default in the code)
    MaxFaults     \* bound: RPC failures, failed statements and crashes

ASSUME RouteAssumption == MaxRetries \in Nat \ {0} /\ MaxFaults \in Nat

VARIABLES
    call,         \* per request: route, where it is, its operation and its answer
    wire,         \* the transactions sent and not yet processed
    fate,         \* what became of each transaction on chain
    stage,        \* the learner's enrollment: how far it has come
    receipt,      \* the achievement's receipt exists on chain
    typed,        \* the achievement's type exists on chain
    ata,          \* the learner's XP token account exists
    claim,        \* the milestone's row in streak_milestones
    award,        \* the achievement's row in achievements
    overlap,      \* history: award requests that read the row while another was active
    faults        \* how many faults have happened

routeVars == <<call, wire, fate, stage, receipt, typed, ata, claim, award,
               overlap, faults>>

Routes == {"lesson", "finalize", "credential", "milestone", "award"}
Operations == {"lesson", "finalize", "issue", "upgrade", "reward", "achieve"}
Attempts == 1..MaxRetries
Transactions == Requests \X Attempts

Places == {"new", "status", "claim", "read", "ata", "type", "recheck", "send",
           "confirm", "record", "done"}
Answers == {"none", "ok", "refused", "conflict", "failed", "crashed"}

CallType == [route : Routes, at : Places, op : Operations,
             attempt : Attempts, answer : Answers]

(***************************************************************************)
(* The program on chain, seen from here.  Courses models it in full.        *)
(***************************************************************************)
\* whether the instruction would succeed now
Guard(op) ==
    CASE op = "lesson"   -> stage = "open"
      [] op = "finalize" -> stage = "learnt"
      [] op = "issue"    -> stage = "finalized"
      [] op = "upgrade"  -> stage = "credentialed"
      [] op = "reward"   -> TRUE
      [] op = "achieve"  -> ~receipt

After(op) ==
    CASE op = "lesson"   -> "learnt"
      [] op = "finalize" -> "finalized"
      [] op = "issue"    -> "credentialed"
      [] OTHER           -> stage

FirstOp(route) ==
    CASE route = "finalize"   -> "finalize"
      [] route = "credential" -> "issue"
      [] route = "milestone"  -> "reward"
      [] route = "award"      -> "achieve"
      [] OTHER                -> "lesson"

RoutesInit(routes, stages, types) ==
    /\ \E route \in [Requests -> routes] :
          call = [r \in Requests |->
                    [route |-> route[r], at |-> "new", op |-> FirstOp(route[r]),
                     attempt |-> 1, answer |-> "none"]]
    /\ wire = {}
    /\ fate = [t \in Transactions |-> "none"]
    /\ stage \in stages
    /\ typed \in types
    /\ receipt = FALSE
    /\ ata = FALSE
    /\ claim = "none"
    /\ award = "none"
    /\ overlap = {}
    /\ faults = 0

-----------------------------------------------------------------------------
(***************************************************************************)
(* Moves of a request.                                                      *)
(***************************************************************************)
Goto(r, place) == call' = [call EXCEPT ![r].at = place]

Answer(r, answer) ==
    call' = [call EXCEPT ![r].at = "done", ![r].answer = answer]

Fault == faults < MaxFaults /\ faults' = faults + 1

Active(r) == call[r].at \notin {"new", "done"}

\* Rate limit, session, validation, the wallet's owner, and for a milestone the
\* length of the streak: each of them ends the request before anything is written.
Receive(r) ==
    /\ call[r].at = "new"
    /\ \/ Answer(r, "refused")
       \/ Goto(r, CASE call[r].route = "milestone"  -> "claim"
                    [] call[r].route = "award"      -> "read"
                    [] call[r].route = "credential" -> "status"
                    [] OTHER                        -> "ata")
    /\ UNCHANGED <<wire, fate, stage, receipt, typed, ata, claim, award,
                   overlap, faults>>

\* Mutant: a claim without a signature may be claimed again.
Claimed_xOnlySigned == claim = "signed"

\* streak_milestones is unique per user and milestone.
Claimed == claim # "none"

Claim(r) ==
    /\ call[r].at = "claim"
    /\ IF Claimed
       THEN /\ Answer(r, "conflict")
            /\ UNCHANGED claim
       ELSE /\ claim' = "claimed"
            /\ Goto(r, "ata")
    /\ UNCHANGED <<wire, fate, stage, receipt, typed, ata, award, overlap, faults>>

\* Mutant: the existing award is not looked at.
AlreadyAwarded_xNever == FALSE

\* the row counts only once it carries a transaction
AlreadyAwarded == award = "hashed"

ReadAward(r) ==
    /\ call[r].at = "read"
    /\ IF AlreadyAwarded
       THEN Answer(r, "conflict") /\ UNCHANGED overlap
       ELSE /\ Goto(r, "ata")
            /\ overlap' = overlap \cup
                 (IF \E s \in Requests \ {r} :
                        call[s].route = "award" /\ Active(s) /\ call[s].at # "read"
                  THEN {r} ELSE {})
    /\ UNCHANGED <<wire, fate, stage, receipt, typed, ata, claim, award, faults>>

\* checkCredentialStatus chooses between issue and upgrade, once; if its read
\* fails it reports an unfinished course.
ReadStatus(r) ==
    /\ call[r].at = "status"
    /\ CASE stage = "finalized"    -> Goto(r, "recheck")
         [] stage = "credentialed" ->
              call' = [call EXCEPT ![r].at = "send", ![r].op = "upgrade"]
         [] OTHER                  -> Answer(r, "refused")
    /\ UNCHANGED <<wire, fate, stage, receipt, typed, ata, claim, award,
                   overlap, faults>>

ReadStatusFails(r) ==
    /\ call[r].at = "status"
    /\ Fault
    /\ Answer(r, "refused")
    /\ UNCHANGED <<wire, fate, stage, receipt, typed, ata, claim, award, overlap>>

\* issueCredential reads the enrollment again before it builds the instruction.
Recheck(r) ==
    /\ call[r].at = "recheck"
    /\ IF stage = "finalized" THEN Goto(r, "send") ELSE Answer(r, "failed")
    /\ UNCHANGED <<wire, fate, stage, receipt, typed, ata, claim, award,
                   overlap, faults>>

\* A missing token account is created by a transaction of its own, whose
\* confirmation value nobody looks at.
EnsureXpAta(r) ==
    /\ call[r].at = "ata"
    /\ \/ /\ ata' = TRUE
          /\ Goto(r, IF call[r].route = "award" THEN "type" ELSE "send")
          /\ UNCHANGED faults
       \/ /\ Fault
          /\ ata' \in {ata, TRUE}
          /\ Answer(r, "failed")
    /\ UNCHANGED <<wire, fate, stage, receipt, typed, claim, award, overlap>>

\* Without the type on chain the XP is minted by reward_xp instead.
ReadType(r) ==
    /\ call[r].at = "type"
    /\ call' = [call EXCEPT ![r].at = "send",
                            ![r].op = IF typed THEN "achieve" ELSE "reward"]
    /\ UNCHANGED <<wire, fate, stage, receipt, typed, ata, claim, award,
                   overlap, faults>>
-----------------------------------------------------------------------------
(***************************************************************************)
(* executeTransaction and executeWithRetry.                                 *)
(***************************************************************************)
\* credential-service.ts calls executeTransaction itself: no second attempt
Retried(op) == op \notin {"issue", "upgrade"}

\* Mutant: one attempt too many.
Again_xOnceMore(r) ==
    IF Retried(call[r].op) /\ call[r].attempt <= MaxRetries
    THEN call' = [call EXCEPT ![r].at = "send", ![r].attempt = @ + 1]
    ELSE Answer(r, "failed")

Again(r) ==
    IF Retried(call[r].op) /\ call[r].attempt < MaxRetries
    THEN call' = [call EXCEPT ![r].at = "send", ![r].attempt = @ + 1]
    ELSE Answer(r, "failed")

This(r) == <<r, call[r].attempt>>

\* The simulation fails: a deterministic error, never retried.
Simulate(r) ==
    /\ call[r].at = "send"
    /\ ~Guard(call[r].op)
    /\ Answer(r, IF \/ call[r].op = "lesson" /\ stage # "closed"
                    \/ call[r].op = "finalize" /\ stage \notin {"open", "closed"}
                 THEN "conflict" ELSE "failed")
    /\ UNCHANGED <<wire, fate, stage, receipt, typed, ata, claim, award,
                   overlap, faults>>

Send(r) ==
    /\ call[r].at = "send"
    /\ Guard(call[r].op)
    /\ wire' = wire \cup {This(r)}
    /\ Goto(r, "confirm")
    /\ UNCHANGED <<fate, stage, receipt, typed, ata, claim, award, overlap, faults>>

\* An RPC call fails on the way: before the node has the transaction or after.
SendFails(r) ==
    /\ call[r].at = "send"
    /\ Fault
    /\ \/ UNCHANGED wire
       \/ Guard(call[r].op) /\ wire' = wire \cup {This(r)}
    /\ Again(r)
    /\ UNCHANGED <<fate, stage, receipt, typed, ata, claim, award, overlap>>

\* where a confirmed request goes: two of the routes have a row to write
Recorded(r) ==
    IF call[r].route \in {"milestone", "award"}
    THEN Goto(r, "record") ELSE Answer(r, "ok")

\* Mutant: any confirmation counts.
Confirmed_xIgnoresError(r) == fate[This(r)] \in {"ok", "err"}

\* confirmation.value.err is looked at
Confirmed(r) == fate[This(r)] = "ok"

Confirm(r) ==
    /\ call[r].at = "confirm"
    /\ Confirmed(r)
    /\ Recorded(r)
    /\ UNCHANGED <<wire, fate, stage, receipt, typed, ata, claim, award,
                   overlap, faults>>

\* The transaction failed on chain, or its blockhash expired: not transient.
ConfirmError(r) ==
    /\ call[r].at = "confirm"
    /\ fate[This(r)] \in {"err", "dropped"}
    /\ Answer(r, "failed")
    /\ UNCHANGED <<wire, fate, stage, receipt, typed, ata, claim, award,
                   overlap, faults>>

\* Mutant: no timer, the confirmation alone ends the wait.
Timeout_xNoTimer(r) ==
    /\ call[r].at = "confirm"
    /\ fate[This(r)] = "dropped"
    /\ Answer(r, "failed")
    /\ UNCHANGED <<wire, fate, stage, receipt, typed, ata, claim, award,
                   overlap, faults>>

\* The 60 s timer. Its message says "timed out", which isTransientError does
\* not know.
Timeout(r) ==
    /\ call[r].at = "confirm"
    /\ Answer(r, "failed")
    /\ UNCHANGED <<wire, fate, stage, receipt, typed, ata, claim, award,
                   overlap, faults>>

\* A transient error while waiting, or a timeout or confirmation error whose
\* message carries a signature that happens to contain "429": the transaction is
\* built anew and sent again, whatever became of the one already sent.
Resend(r) ==
    /\ call[r].at = "confirm"
    /\ Fault
    /\ Again(r)
    /\ UNCHANGED <<wire, fate, stage, receipt, typed, ata, claim, award, overlap>>

\* The row gets its signature: updateMany for the claim, upsert for the award.
Record(r) ==
    /\ call[r].at = "record"
    /\ Answer(r, "ok")
    /\ claim' = IF call[r].route = "milestone" THEN "signed" ELSE claim
    /\ award' = IF call[r].route = "award" THEN "hashed" ELSE award
    /\ UNCHANGED <<wire, fate, stage, receipt, typed, ata, overlap, faults>>

\* A statement on a row, or a read from the chain outside the executor, fails.
StatementFails(r) ==
    /\ call[r].at \in {"claim", "read", "recheck", "type", "record"}
    /\ Fault
    /\ Answer(r, "failed")
    /\ UNCHANGED <<wire, fate, stage, receipt, typed, ata, claim, award, overlap>>
-----------------------------------------------------------------------------
\* The network processes a transaction: it takes effect, or its guard fails.
Land(t) ==
    /\ t \in wire
    /\ wire' = wire \ {t}
    /\ LET op == call[t[1]].op IN
       IF Guard(op)
       THEN /\ fate' = [fate EXCEPT ![t] = "ok"]
            /\ stage' = After(op)
            /\ receipt' = (receipt \/ op = "achieve")
       ELSE /\ fate' = [fate EXCEPT ![t] = "err"]
            /\ UNCHANGED <<stage, receipt>>
    /\ UNCHANGED <<call, typed, ata, claim, award, overlap, faults>>

\* Its blockhash expires before a leader takes it.
Expire(t) ==
    /\ t \in wire
    /\ wire' = wire \ {t}
    /\ fate' = [fate EXCEPT ![t] = "dropped"]
    /\ UNCHANGED <<call, stage, receipt, typed, ata, claim, award, overlap, faults>>

\* The learner closes the finished enrollment from the wallet.
CloseEnrollment ==
    /\ stage \in {"finalized", "credentialed"}
    /\ stage' = "closed"
    /\ UNCHANGED <<call, wire, fate, receipt, typed, ata, claim, award, overlap,
                   faults>>

Crash ==
    /\ Fault
    /\ \E r \in Requests : Active(r)
    /\ call' = [r \in Requests |->
                  IF Active(r) THEN [call[r] EXCEPT !.at = "done",
                                                    !.answer = "crashed"]
                  ELSE call[r]]
    /\ UNCHANGED <<wire, fate, stage, receipt, typed, ata, claim, award, overlap>>

\* What a request does by itself, its timer included.
Progress(r) ==
    \/ Claim(r) \/ ReadAward(r) \/ ReadStatus(r) \/ Recheck(r) \/ EnsureXpAta(r)
    \/ ReadType(r) \/ Simulate(r) \/ Send(r) \/ Confirm(r) \/ ConfirmError(r)
    \/ Timeout(r) \/ Record(r)

RoutesNext ==
    \/ \E r \in Requests :
          \/ Receive(r) \/ Progress(r)
          \/ ReadStatusFails(r) \/ SendFails(r) \/ Resend(r) \/ StatementFails(r)
    \/ \E t \in Transactions : Land(t) \/ Expire(t)
    \/ CloseEnrollment
    \/ Crash

\* The platform runs every request until it answers; nothing is assumed of the
\* network, of the learner or of faults.
RoutesFairness == \A r \in Requests : WF_routeVars(Progress(r))

RoutesSpec(routes, stages, types) ==
    RoutesInit(routes, stages, types) /\ [][RoutesNext]_routeVars
-----------------------------------------------------------------------------
(***************************************************************************)
(* Properties.                                                              *)
(***************************************************************************)
\* Type invariant of the routes.
RewardRoutesTypeOK ==
    /\ call \in [Requests -> CallType]
    /\ wire \subseteq Transactions
    /\ fate \in [Transactions -> {"none", "ok", "err", "dropped"}]
    /\ stage \in {"open", "learnt", "finalized", "credentialed", "closed"}
    /\ {receipt, typed, ata} \subseteq BOOLEAN
    /\ claim \in {"none", "claimed", "signed"}
    /\ award \in {"none", "hashed"}
    /\ overlap \subseteq Requests
    /\ faults \in 0..MaxFaults

Landed(route) ==
    {t \in Transactions : call[t[1]].route = route /\ fate[t] = "ok"}

\* A request that answers success has a transaction that took effect on chain,
\* and the rows carry a signature only of such a transaction (tx-builder.ts
\* executeTransaction, and the records of the milestone and award routes).
SuccessIsOnChain ==
    /\ \A r \in Requests :
          call[r].answer = "ok" => \E n \in Attempts : fate[<<r, n>>] = "ok"
    /\ claim = "signed" => Landed("milestone") # {}
    /\ award = "hashed" => Landed("award") # {}

\* However many requests claim a milestone, at most one of them ever mints: a
\* second payment can only come from one request that sent its transaction again.
\* And a claim that was inserted and never paid, which no later request can claim,
\* comes from a request that failed or crashed after the insert: no refused request
\* uses the claim up (milestone/route.ts:52-135).
MilestoneClaims ==
    /\ \A t, u \in Landed("milestone") : t[1] = u[1]
    /\ (/\ claim # "none"
        /\ Landed("milestone") = {}
        /\ ~ \E t \in wire : call[t[1]].route = "milestone"
        /\ ~ \E r \in Requests : call[r].route = "milestone" /\ Active(r))
       => \E r \in Requests : /\ call[r].route = "milestone"
                              /\ call[r].answer \in {"failed", "crashed"}

\* An achievement minted twice has one of three causes, each visible: a request
\* sent its transaction again, two requests overlapped between the read of the
\* row and its write, or a request ended without writing the row although its
\* transaction landed (award/route.ts:98-147, tx-builder.ts:408).
SecondAwardExplained ==
    \A t, u \in Landed("award") : t # u =>
       \E r \in {t[1], u[1]} :
          \/ call[r].attempt > 1
          \/ r \in overlap
          \/ call[r].answer \in {"failed", "crashed"}

\* Every request that was received answers, whatever the network does: the
\* timer of executeTransaction ends the wait (tx-builder.ts:365-369).
RequestsSettle == \A r \in Requests : Active(r) ~> call[r].at = "done"
=============================================================================
