----------------------------- MODULE RouteProofs -----------------------------
(***************************************************************************)
(* What a request reports and what the tables record took effect on chain,   *)
(* one milestone is paid to one request, a second award has a cause, and an  *)
(* action queued offline reaches the server: for any number of requests,     *)
(* attempts, actions, replayers and faults, whatever the network does.       *)
(***************************************************************************)
EXTENDS MCRoutes, FiniteSetTheorems, TLAPS

\* Where a request may have sent its present attempt.
SentPlaces == {"confirm", "record", "done"}

\* Where a milestone's request is after it has claimed, and places it never visits.
Claiming == {"ata", "send", "confirm", "record"}
Detours == {"status", "read", "type", "recheck"}

RouteShape ==
    /\ call \in [Requests -> CallType]
    /\ wire \subseteq Transactions
    /\ fate \in [Transactions -> {"none", "ok", "err", "dropped"}]

\* A transaction exists only for an attempt that was made, and the network decides
\* about it once.
OneTransactionPerAttempt ==
    /\ \A r \in Requests, n \in Attempts :
          (fate[<<r, n>>] # "none" \/ <<r, n>> \in wire) =>
             \/ n < call[r].attempt
             \/ n = call[r].attempt /\ call[r].at \in SentPlaces
    /\ \A t \in wire : fate[t] = "none"

\* What is about to be recorded or was answered is on chain.
RecordsAreOnChain ==
    /\ \A r \in Requests :
          (call[r].at = "record" \/ call[r].answer = "ok") =>
             \E n \in Attempts : fate[<<r, n>>] = "ok"
    /\ claim = "signed" => Landed("milestone") # {}
    /\ award = "hashed" => Landed("award") # {}

\* The request that holds the claim: it is past the insert, or a transaction of it
\* exists.
HoldsClaim(r) ==
    /\ call[r].route = "milestone"
    /\ \/ call[r].at \in Claiming
       \/ \E n \in Attempts : fate[<<r, n>>] # "none" \/ <<r, n>> \in wire

\* At most one request holds the milestone's claim, and a claim that exists has been
\* made by a request that is still at it, or has ended.
OneClaimHolder ==
    /\ \A r \in Requests :
          /\ call[r].at = "claim" => call[r].route = "milestone"
          /\ call[r].route = "milestone" =>
                call[r].op = "reward" /\ call[r].at \notin Detours
          /\ HoldsClaim(r) => claim # "none"
    /\ \A r, s \in Requests : HoldsClaim(r) /\ HoldsClaim(s) => r = s
    /\ claim # "none" =>
          \E r \in Requests :
             /\ call[r].route = "milestone"
             /\ \/ call[r].at \in Claiming
                \/ call[r].at = "done" /\ call[r].answer \in {"ok", "failed", "crashed"}

RouteIInv ==
    RouteShape /\ OneTransactionPerAttempt /\ RecordsAreOnChain /\ OneClaimHolder

-----------------------------------------------------------------------------
\* What every action of a request does to the request itself, and to the rows.
MovesForward(r) ==
    /\ call' \in [Requests -> CallType]
    /\ \A s \in Requests : s # r => call'[s] = call[s]
    /\ call'[r].route = call[r].route
    /\ \/ /\ call'[r].attempt = call[r].attempt
          /\ call[r].at \in SentPlaces => call'[r].at \in SentPlaces
       \/ call'[r].attempt = call[r].attempt + 1
    /\ (call'[r].at = "record" \/ call'[r].answer = "ok") =>
          \/ call[r].at = "record" \/ call[r].answer = "ok" \/ fate[This(r)] = "ok"

\* The same, for the milestone's claim.
KeepsClaim(r) ==
    /\ call[r].at # "done"
    /\ call'[r].at = "claim" => call[r].route = "milestone"
    /\ call[r].route = "milestone" =>
          /\ call'[r].op = call[r].op
          /\ call'[r].at \notin Detours
          /\ call'[r].at \in Claiming =>
                call[r].at \in Claiming \/ (claim = "none" /\ claim' # "none")
          /\ call[r].at \in Claiming =>
                \/ call'[r].at \in Claiming
                \/ call'[r].at = "done" /\ call'[r].answer \in {"ok", "failed"}
    /\ claim # "none" => claim' # "none"
    /\ claim = "none" /\ claim' # "none" =>
          call[r].route = "milestone" /\ call'[r].at \in Claiming

RecordsOwn(r) ==
    /\ claim' = "signed" =>
          claim = "signed" \/ (call[r].at = "record" /\ call[r].route = "milestone")
    /\ award' = "hashed" =>
          award = "hashed" \/ (call[r].at = "record" /\ call[r].route = "award")

Moves(r) == MovesForward(r) /\ KeepsClaim(r) /\ RecordsOwn(r)

(* Actions of a request that send nothing. *)
Inner(r) ==
    \/ Receive(r) \/ Claim(r) \/ ReadAward(r) \/ ReadStatus(r) \/ ReadStatusFails(r)
    \/ Recheck(r) \/ EnsureXpAta(r) \/ ReadType(r) \/ Simulate(r) \/ Confirm(r)
    \/ ConfirmError(r) \/ Timeout(r) \/ Resend(r) \/ Record(r) \/ StatementFails(r)

LEMMA GotoMoves ==
  ASSUME RouteShape, NEW r \in Requests, NEW place \in Places, Goto(r, place)
  PROVE  /\ call' \in [Requests -> CallType]
         /\ \A s \in Requests : s # r => call'[s] = call[s]
         /\ call'[r].at = place /\ call'[r].route = call[r].route
         /\ call'[r].op = call[r].op /\ call'[r].attempt = call[r].attempt
         /\ call'[r].answer = call[r].answer
BY DEF RouteShape, Goto, CallType

LEMMA AnswerMoves ==
  ASSUME RouteShape, NEW r \in Requests, NEW answer \in Answers, Answer(r, answer)
  PROVE  /\ call' \in [Requests -> CallType]
         /\ \A s \in Requests : s # r => call'[s] = call[s]
         /\ call'[r].at = "done" /\ call'[r].route = call[r].route
         /\ call'[r].op = call[r].op /\ call'[r].attempt = call[r].attempt
         /\ call'[r].answer = answer
BY DEF RouteShape, Answer, CallType, Places

LEMMA AgainMoves ==
  ASSUME RouteShape, NEW r \in Requests, Again(r)
  PROVE  /\ call' \in [Requests -> CallType]
         /\ \A s \in Requests : s # r => call'[s] = call[s]
         /\ call'[r].route = call[r].route /\ call'[r].op = call[r].op
         /\ \/ /\ call'[r].at = "send" /\ call'[r].attempt = call[r].attempt + 1
               /\ call'[r].answer = call[r].answer
            \/ /\ call'[r].at = "done" /\ call'[r].attempt = call[r].attempt
               /\ call'[r].answer = "failed"
<1>1. CASE Retried(call[r].op) /\ call[r].attempt < MaxRetries
  <2>1. call' = [call EXCEPT ![r].at = "send", ![r].attempt = @ + 1]
    BY <1>1 DEF Again
  <2>2. call[r].attempt + 1 \in Attempts
    BY <1>1, RouteAssumption DEF RouteShape, CallType, Attempts
  <2>3. call[r] \in CallType /\ "send" \in Places
    BY DEF RouteShape, Places
  <2> QED
    BY <2>1, <2>2, <2>3 DEF RouteShape, CallType
<1>2. CASE ~(Retried(call[r].op) /\ call[r].attempt < MaxRetries)
  BY <1>2, AnswerMoves DEF Again, Answers
<1> QED
  BY <1>1, <1>2

(* Every action of a request moves it forward, one place at a time. *)
LEMMA RequestMoves ==
  ASSUME RouteShape, OneClaimHolder, NEW r \in Requests,
         Inner(r) \/ Send(r) \/ SendFails(r)
  PROVE  Moves(r)
<1> USE DEF Moves, MovesForward, KeepsClaim, RecordsOwn, SentPlaces, Claiming, Detours,
            Places, Answers
<1>h. /\ call[r].at = "claim" => call[r].route = "milestone"
      /\ call[r].route = "milestone" =>
            call[r].op = "reward" /\ call[r].at \notin Detours
      /\ call[r].route = "milestone" /\ call[r].at = "record" => claim # "none"
  BY DEF OneClaimHolder, HoldsClaim
<1>1. CASE Receive(r)
  BY <1>1, <1>h, GotoMoves, AnswerMoves DEF Receive
<1>2. CASE Claim(r)
  BY <1>2, <1>h, GotoMoves, AnswerMoves DEF Claim, Claimed
<1>3. CASE ReadAward(r)
  BY <1>3, <1>h, GotoMoves, AnswerMoves DEF ReadAward
<1>4. CASE ReadStatus(r)
  BY <1>4, <1>h, GotoMoves, AnswerMoves DEF ReadStatus, RouteShape, CallType, Operations
<1>5. CASE ReadStatusFails(r)
  BY <1>5, <1>h, AnswerMoves DEF ReadStatusFails
<1>6. CASE Recheck(r)
  BY <1>6, <1>h, GotoMoves, AnswerMoves DEF Recheck
<1>7. CASE EnsureXpAta(r)
  BY <1>7, <1>h, GotoMoves, AnswerMoves DEF EnsureXpAta
<1>8. CASE ReadType(r)
  <2>1. PICK op \in Operations : call' = [call EXCEPT ![r].at = "send", ![r].op = op]
    BY <1>8 DEF ReadType, Operations
  <2>2. /\ call' \in [Requests -> CallType]
        /\ \A s \in Requests : s # r => call'[s] = call[s]
        /\ call'[r].at = "send" /\ call'[r].route = call[r].route
        /\ call'[r].attempt = call[r].attempt /\ call'[r].answer = call[r].answer
    BY <2>1 DEF RouteShape, CallType
  <2> QED
    BY <1>8, <1>h, <2>2 DEF ReadType
<1>9. CASE Simulate(r)
  BY <1>9, <1>h, AnswerMoves DEF Simulate, Guard
<1>10. CASE Send(r)
  BY <1>10, <1>h, GotoMoves DEF Send
<1>11. CASE SendFails(r)
  BY <1>11, <1>h, AgainMoves DEF SendFails
<1>12. CASE Confirm(r)
  BY <1>12, <1>h, GotoMoves, AnswerMoves DEF Confirm, Recorded, Confirmed
<1>13. CASE ConfirmError(r)
  BY <1>13, <1>h, AnswerMoves DEF ConfirmError
<1>14. CASE Timeout(r)
  BY <1>14, <1>h, AnswerMoves DEF Timeout
<1>15. CASE Resend(r)
  BY <1>15, <1>h, AgainMoves DEF Resend
<1>16. CASE Record(r)
  BY <1>16, <1>h, AnswerMoves DEF Record
<1>17. CASE StatementFails(r)
  BY <1>17, <1>h, AnswerMoves DEF StatementFails
<1> QED
  BY <1>1, <1>2, <1>3, <1>4, <1>5, <1>6, <1>7, <1>8, <1>9,
     <1>10, <1>11, <1>12, <1>13, <1>14, <1>15, <1>16, <1>17 DEF Inner

-----------------------------------------------------------------------------
(* A transaction that took effect keeps its fate. *)
LEMMA ShapeStep ==
  ASSUME RouteIInv, NEW r \in Requests, Moves(r),
         \/ UNCHANGED wire
         \/ wire' = wire \cup {This(r)} /\ call[r].at = "send",
         UNCHANGED fate
  PROVE  RouteShape'
<1>1. This(r) \in Transactions
  BY DEF RouteIInv, RouteShape, CallType, This, Transactions
<1> QED
  BY <1>1 DEF RouteIInv, RouteShape, Moves, MovesForward

(* A request sends a transaction for the attempt it is making, and that attempt is
   then behind it, or it waits for it, or it is done. *)
LEMMA OneTransactionStep ==
  ASSUME RouteIInv, NEW r \in Requests, Moves(r), UNCHANGED fate,
         \/ UNCHANGED wire
         \/ /\ wire' = wire \cup {This(r)} /\ call[r].at = "send"
            /\ \/ call'[r].at \in SentPlaces
               \/ call'[r].attempt = call[r].attempt + 1
  PROVE  OneTransactionPerAttempt'
<1>1. OneTransactionPerAttempt /\ RouteShape
  BY DEF RouteIInv
<1>2. /\ \A s \in Requests : s # r => call'[s] = call[s]
      /\ \/ /\ call'[r].attempt = call[r].attempt
            /\ call[r].at \in SentPlaces => call'[r].at \in SentPlaces
         \/ call'[r].attempt = call[r].attempt + 1
  BY DEF Moves, MovesForward
<1>3. call[r].attempt \in Nat /\ \A n \in Attempts : n \in Nat
  BY <1>1, RouteAssumption DEF RouteShape, CallType, Attempts
<1>4. call[r].at = "send" => fate[This(r)] = "none"
  <2>1. call[r].attempt \in Attempts
    BY <1>1 DEF RouteShape, CallType
  <2> QED
    BY <1>1, <1>3, <2>1 DEF OneTransactionPerAttempt, This, SentPlaces
<1>5. \A t \in wire' : fate'[t] = "none"
  BY <1>1, <1>4 DEF OneTransactionPerAttempt
<1>6. ASSUME NEW s \in Requests, NEW n \in Attempts,
             fate'[<<s, n>>] # "none" \/ <<s, n>> \in wire'
      PROVE  \/ n < call'[s].attempt
             \/ n = call'[s].attempt /\ call'[s].at \in SentPlaces
  <2>1. CASE s # r
    <3>1. <<s, n>> # This(r)
      BY <2>1 DEF This
    <3> QED
      BY <1>1, <1>2, <1>6, <2>1, <3>1 DEF OneTransactionPerAttempt
  <2>2. CASE s = r /\ (fate[<<s, n>>] # "none" \/ <<s, n>> \in wire)
    BY <1>1, <1>2, <1>3, <2>2 DEF OneTransactionPerAttempt
  <2>3. CASE s = r /\ ~(fate[<<s, n>>] # "none" \/ <<s, n>> \in wire)
    <3>1. <<r, n>> = This(r) /\ wire' # wire
      BY <1>6, <2>3
    <3>2. n = call[r].attempt
      BY <3>1 DEF This
    <3> QED
      BY <1>2, <1>3, <2>3, <3>1, <3>2
  <2> QED
    BY <2>1, <2>2, <2>3
<1> QED
  BY <1>5, <1>6 DEF OneTransactionPerAttempt

(* Nothing is recorded or answered that is not on chain. *)
LEMMA RecordsStep ==
  ASSUME RouteIInv, NEW r \in Requests, Moves(r), UNCHANGED fate
  PROVE  RecordsAreOnChain'
<1>1. RecordsAreOnChain /\ RouteShape
  BY DEF RouteIInv
<1>2. This(r) = <<r, call[r].attempt>> /\ call[r].attempt \in Attempts
  BY <1>1 DEF This, RouteShape, CallType
<1>3. ASSUME NEW s \in Requests, call'[s].at = "record" \/ call'[s].answer = "ok"
      PROVE  \E n \in Attempts : fate[<<s, n>>] = "ok"
  <2>1. CASE s # r
    BY <1>1, <1>3, <2>1 DEF RecordsAreOnChain, Moves, MovesForward
  <2>2. CASE s = r
    BY <1>1, <1>2, <1>3, <2>2 DEF RecordsAreOnChain, Moves, MovesForward
  <2> QED
    BY <2>1, <2>2
<1>4. \A t \in Transactions : t[1] \in Requests
  BY DEF Transactions
<1>5. \A s \in Requests : call'[s].route = call[s].route
  BY DEF Moves, MovesForward
<1>6. \A route \in Routes : Landed(route)' = Landed(route)
  BY <1>4, <1>5 DEF Landed
<1>7. ASSUME NEW route \in Routes, call[r].at = "record", call[r].route = route
      PROVE  Landed(route) # {}
  <2>1. PICK n \in Attempts : fate[<<r, n>>] = "ok"
    BY <1>1, <1>7 DEF RecordsAreOnChain
  <2>2. <<r, n>> \in Transactions /\ <<r, n>>[1] = r
    BY DEF Transactions
  <2> QED
    BY <1>7, <2>1, <2>2 DEF Landed
<1>8. {"milestone", "award"} \subseteq Routes
  BY DEF Routes
<1>9. (claim' = "signed" => Landed("milestone")' # {})
      /\ (award' = "hashed" => Landed("award")' # {})
  BY <1>1, <1>6, <1>7, <1>8 DEF RecordsAreOnChain, Moves, RecordsOwn
<1> QED
  BY <1>3, <1>9 DEF RecordsAreOnChain

(* The claim has one holder: it is inserted only while there is none, and stays with
   the request that inserted it. *)
LEMMA ClaimStep ==
  ASSUME RouteIInv, NEW r \in Requests, Moves(r), UNCHANGED fate,
         \/ UNCHANGED wire
         \/ wire' = wire \cup {This(r)} /\ call[r].at = "send"
  PROVE  OneClaimHolder'
<1>1. OneClaimHolder
  BY DEF RouteIInv
<1>2. /\ \A s \in Requests : s # r => call'[s] = call[s]
      /\ call'[r].route = call[r].route /\ KeepsClaim(r)
  BY DEF Moves, MovesForward
<1>3. \A s \in Requests \ {r} : HoldsClaim(s)' => HoldsClaim(s)
  BY <1>2 DEF HoldsClaim, This
<1>4. HoldsClaim(r)' => HoldsClaim(r) \/ (claim = "none" /\ claim' # "none")
  BY <1>2 DEF HoldsClaim, KeepsClaim, Claiming
<1>5. \A s \in Requests : HoldsClaim(s)' => claim' # "none"
  BY <1>1, <1>2, <1>3, <1>4 DEF OneClaimHolder, KeepsClaim
<1>6. ASSUME NEW s \in Requests, NEW q \in Requests, HoldsClaim(s)', HoldsClaim(q)'
      PROVE  s = q
  <2>1. CASE claim = "none"
    <3>1. \A p \in Requests : ~HoldsClaim(p)
      BY <1>1, <2>1 DEF OneClaimHolder
    <3> QED
      BY <1>3, <1>6, <3>1
  <2>2. CASE claim # "none"
    BY <1>1, <1>3, <1>4, <1>6, <2>2 DEF OneClaimHolder
  <2> QED
    BY <2>1, <2>2
<1>7. ASSUME NEW s \in Requests
      PROVE  /\ call'[s].at = "claim" => call'[s].route = "milestone"
             /\ call'[s].route = "milestone" =>
                   call'[s].op = "reward" /\ call'[s].at \notin Detours
  <2>1. CASE s # r
    BY <1>1, <1>2, <2>1 DEF OneClaimHolder
  <2>2. CASE s = r
    BY <1>1, <1>2, <2>2 DEF OneClaimHolder, KeepsClaim
  <2> QED
    BY <2>1, <2>2
<1>8. ASSUME claim' # "none"
      PROVE  \E s \in Requests :
                /\ call'[s].route = "milestone"
                /\ \/ call'[s].at \in Claiming
                   \/ /\ call'[s].at = "done"
                      /\ call'[s].answer \in {"ok", "failed", "crashed"}
  <2>1. CASE claim = "none"
    BY <1>2, <1>8, <2>1 DEF KeepsClaim
  <2>2. CASE claim # "none"
    <3>1. PICK q \in Requests :
             /\ call[q].route = "milestone"
             /\ \/ call[q].at \in Claiming
                \/ call[q].at = "done" /\ call[q].answer \in {"ok", "failed", "crashed"}
      BY <1>1, <2>2 DEF OneClaimHolder
    <3>2. CASE q # r
      BY <1>2, <3>1, <3>2
    <3>3. CASE q = r
      BY <1>2, <3>1, <3>3 DEF KeepsClaim
    <3> QED
      BY <3>2, <3>3
  <2> QED
    BY <2>1, <2>2
<1> QED
  BY <1>5, <1>6, <1>7, <1>8 DEF OneClaimHolder

-----------------------------------------------------------------------------
(* The network decides about a transaction once: what was on chain stays there. *)
LEMMA NetworkStep ==
  ASSUME RouteIInv, NEW t \in wire, NEW x \in {"ok", "err", "dropped"},
         wire' = wire \ {t}, fate' = [fate EXCEPT ![t] = x],
         UNCHANGED <<call, claim, award>>
  PROVE  RouteIInv'
<1>1. /\ RouteShape /\ OneTransactionPerAttempt /\ RecordsAreOnChain /\ OneClaimHolder
      /\ t \in Transactions /\ fate[t] = "none"
  BY DEF RouteIInv, RouteShape, OneTransactionPerAttempt
<1>2. \A u \in Transactions : fate'[u] = IF u = t THEN x ELSE fate[u]
  BY <1>1 DEF RouteShape
<1>3. \A r \in Requests, n \in Attempts : <<r, n>> \in Transactions
  BY DEF Transactions
<1>4. RouteShape'
  BY <1>1 DEF RouteShape
<1>5. OneTransactionPerAttempt'
  BY <1>1, <1>2, <1>3 DEF OneTransactionPerAttempt, RouteShape
<1>6. RecordsAreOnChain'
  <2>1. \A u \in Transactions : fate[u] = "ok" => fate'[u] = "ok"
    BY <1>1, <1>2
  <2>2. Landed("milestone") \subseteq Landed("milestone")'
        /\ Landed("award") \subseteq Landed("award")'
    BY <2>1 DEF Landed
  <2> QED
    BY <1>1, <1>3, <2>1, <2>2 DEF RecordsAreOnChain
<1>7. OneClaimHolder'
  <2>1. \A r \in Requests : HoldsClaim(r)' => HoldsClaim(r)
    BY <1>2, <1>3 DEF HoldsClaim
  <2> QED
    BY <1>1, <2>1 DEF OneClaimHolder
<1> QED
  BY <1>4, <1>5, <1>6, <1>7 DEF RouteIInv

(* A crash ends every active request; what it sent stays with the network. *)
LEMMA CrashStep ==
  ASSUME RouteIInv, Crash
  PROVE  RouteIInv'
<1>1. RouteShape /\ OneTransactionPerAttempt /\ RecordsAreOnChain /\ OneClaimHolder
      /\ UNCHANGED <<wire, fate, claim, award>>
  BY DEF RouteIInv, Crash
<1>2. call' = [r \in Requests |->
                 IF Active(r) THEN [call[r] EXCEPT !.at = "done", !.answer = "crashed"]
                 ELSE call[r]]
  BY DEF Crash
<1>3. ASSUME NEW r \in Requests
      PROVE  /\ call'[r] \in CallType
             /\ call'[r].route = call[r].route /\ call'[r].op = call[r].op
             /\ call'[r].attempt = call[r].attempt
             /\ call'[r] = call[r] \/ (call'[r].at = "done" /\ call'[r].answer = "crashed")
  <2>1. call[r] \in CallType
    BY <1>1 DEF RouteShape
  <2>2. [call[r] EXCEPT !.at = "done", !.answer = "crashed"] \in CallType
    BY <2>1 DEF CallType, Places, Answers
  <2>3. CASE Active(r)
    BY <1>2, <2>1, <2>2, <2>3 DEF CallType
  <2>4. CASE ~Active(r)
    BY <1>2, <2>1, <2>4
  <2> QED
    BY <2>3, <2>4
<1>4. RouteShape'
  BY <1>1, <1>2, <1>3 DEF RouteShape
<1>5. OneTransactionPerAttempt'
  BY <1>1, <1>3 DEF OneTransactionPerAttempt, SentPlaces
<1>6. RecordsAreOnChain'
  <2>1. Landed("milestone")' = Landed("milestone") /\ Landed("award")' = Landed("award")
    BY <1>1, <1>3 DEF Landed, Transactions
  <2> QED
    BY <1>1, <1>3, <2>1 DEF RecordsAreOnChain
<1>7. OneClaimHolder'
  <2>1. \A r \in Requests : HoldsClaim(r)' => HoldsClaim(r)
    BY <1>1, <1>3 DEF HoldsClaim, Claiming
  <2> QED
    BY <1>1, <1>3, <2>1 DEF OneClaimHolder, Detours
<1> QED
  BY <1>4, <1>5, <1>6, <1>7 DEF RouteIInv

-----------------------------------------------------------------------------
LEMMA RoutesStart ==
  ASSUME NEW routes, routes \subseteq Routes, NEW stages, NEW types,
         RoutesInit(routes, stages, types)
  PROVE  RouteIInv
<1>1. PICK route \in [Requests -> routes] :
         call = [r \in Requests |->
                   [route |-> route[r], at |-> "new", op |-> FirstOp(route[r]),
                    attempt |-> 1, answer |-> "none"]]
  BY DEF RoutesInit
<1>2. wire = {} /\ fate = [t \in Transactions |-> "none"] /\ claim = "none"
      /\ award = "none"
  BY DEF RoutesInit
<1>3. ASSUME NEW r \in Requests
      PROVE  /\ call[r] \in CallType /\ call[r].at = "new" /\ call[r].answer = "none"
             /\ call[r].route = "milestone" => call[r].op = "reward"
  <2>1. route[r] \in Routes /\ 1 \in Attempts
    BY RouteAssumption DEF Attempts
  <2>2. FirstOp(route[r]) \in Operations
        /\ (route[r] = "milestone" => FirstOp(route[r]) = "reward")
    BY <2>1 DEF FirstOp, Operations, Routes
  <2> QED
    BY <1>1, <2>1, <2>2 DEF CallType, Places, Answers
<1>4. \A r \in Requests, n \in Attempts : <<r, n>> \in Transactions
  BY DEF Transactions
<1>5. RouteShape
  BY <1>1, <1>2, <1>3 DEF RouteShape
<1>6. OneTransactionPerAttempt
  BY <1>2, <1>4 DEF OneTransactionPerAttempt
<1>7. RecordsAreOnChain
  BY <1>2, <1>3 DEF RecordsAreOnChain
<1>8. OneClaimHolder
  <2>1. \A r \in Requests : ~HoldsClaim(r)
    BY <1>2, <1>3, <1>4 DEF HoldsClaim, Claiming
  <2> QED
    BY <1>2, <1>3, <2>1 DEF OneClaimHolder, Detours
<1> QED
  BY <1>5, <1>6, <1>7, <1>8 DEF RouteIInv

LEMMA RoutesKeep ==
  ASSUME RouteIInv, [RoutesNext]_routeVars
  PROVE  RouteIInv'
<1>1. ASSUME NEW r \in Requests, Inner(r)
      PROVE  RouteIInv'
  <2>1. Moves(r)
    BY <1>1, RequestMoves DEF RouteIInv
  <2>2. UNCHANGED <<wire, fate>>
    BY <1>1 DEF Inner, Receive, Claim, ReadAward, ReadStatus, ReadStatusFails, Recheck,
                EnsureXpAta, ReadType, Simulate, Confirm, ConfirmError, Timeout, Resend,
                Record, StatementFails
  <2> QED
    BY <2>1, <2>2, ShapeStep, OneTransactionStep, RecordsStep, ClaimStep DEF RouteIInv
<1>2. ASSUME NEW r \in Requests, Send(r) \/ SendFails(r)
      PROVE  RouteIInv'
  <2>1. Moves(r)
    BY <1>2, RequestMoves DEF RouteIInv
  <2>2. UNCHANGED fate /\ call[r].at = "send"
        /\ (UNCHANGED wire \/ wire' = wire \cup {This(r)})
    BY <1>2 DEF Send, SendFails
  <2>3. call'[r].at \in SentPlaces \/ call'[r].attempt = call[r].attempt + 1
    <3>1. CASE Send(r)
      BY <3>1, GotoMoves DEF Send, RouteIInv, SentPlaces, Places
    <3>2. CASE SendFails(r)
      BY <3>2, AgainMoves DEF SendFails, RouteIInv, SentPlaces
    <3> QED
      BY <1>2, <3>1, <3>2
  <2> QED
    BY <2>1, <2>2, <2>3, ShapeStep, OneTransactionStep, RecordsStep, ClaimStep
    DEF RouteIInv
<1>3. ASSUME NEW t \in Transactions, Land(t)
      PROVE  RouteIInv'
  <2>1. t \in wire /\ wire' = wire \ {t} /\ UNCHANGED <<call, claim, award>>
    BY <1>3 DEF Land
  <2>2. PICK x \in {"ok", "err", "dropped"} : fate' = [fate EXCEPT ![t] = x]
    BY <1>3 DEF Land
  <2> QED
    BY <2>1, <2>2, NetworkStep
<1>4. ASSUME NEW t \in Transactions, Expire(t)
      PROVE  RouteIInv'
  BY <1>4, NetworkStep DEF Expire
<1>5. CASE Crash
  BY <1>5, CrashStep
<1>6. CASE CloseEnrollment \/ UNCHANGED routeVars
  <2>1. UNCHANGED <<call, wire, fate, claim, award>>
    BY <1>6 DEF CloseEnrollment, routeVars
  <2>2. RouteShape'
    BY <2>1 DEF RouteIInv, RouteShape
  <2>3. OneTransactionPerAttempt'
    BY <2>1 DEF RouteIInv, OneTransactionPerAttempt
  <2>4. RecordsAreOnChain'
    BY <2>1 DEF RouteIInv, RecordsAreOnChain, Landed
  <2>5. OneClaimHolder'
    BY <2>1 DEF RouteIInv, OneClaimHolder, HoldsClaim
  <2> QED
    BY <2>2, <2>3, <2>4, <2>5 DEF RouteIInv
<1>7. ASSUME RoutesNext
      PROVE  \/ \E r \in Requests : Inner(r) \/ Send(r) \/ SendFails(r)
             \/ \E t \in Transactions : Land(t) \/ Expire(t)
             \/ Crash \/ CloseEnrollment
  BY <1>7 DEF RoutesNext, Progress, Inner
<1> QED
  BY <1>1, <1>2, <1>3, <1>4, <1>5, <1>6, <1>7

(* Two transactions that paid the milestone belong to the one holder of the claim. *)
LEMMA OnePayer == RouteIInv => MilestoneClaims
<1> SUFFICES ASSUME RouteIInv
             PROVE  MilestoneClaims
  OBVIOUS
<1>0. RecordsAreOnChain /\ OneClaimHolder
  BY DEF RouteIInv
<1>1. ASSUME NEW t \in Landed("milestone"), NEW u \in Landed("milestone")
      PROVE  t[1] = u[1]
  <2>1. \A v \in Landed("milestone") : v[1] \in Requests /\ HoldsClaim(v[1])
    <3> TAKE v \in Landed("milestone")
    <3>1. PICK r \in Requests, n \in Attempts : v = <<r, n>>
      BY DEF Landed, Transactions
    <3> QED
      BY <3>1 DEF Landed, HoldsClaim
  <2> QED
    BY <1>0, <2>1 DEF OneClaimHolder
<1>2. ASSUME claim # "none", Landed("milestone") = {},
             ~ \E r \in Requests : call[r].route = "milestone" /\ Active(r)
      PROVE  \E r \in Requests : /\ call[r].route = "milestone"
                                /\ call[r].answer \in {"failed", "crashed"}
  <2>1. PICK r \in Requests :
           /\ call[r].route = "milestone"
           /\ \/ call[r].at \in Claiming
              \/ call[r].at = "done" /\ call[r].answer \in {"ok", "failed", "crashed"}
    BY <1>0, <1>2 DEF OneClaimHolder
  <2>2. call[r].at \notin Claiming
    BY <1>2, <2>1 DEF Active, Claiming
  <2>3. call[r].answer # "ok"
    <3>1. \A n \in Attempts : <<r, n>> \in Transactions
      BY DEF Transactions
    <3> QED
      BY <1>0, <1>2, <2>1, <3>1 DEF RecordsAreOnChain, Landed
  <2> QED
    BY <2>1, <2>2, <2>3
<1> QED
  BY <1>1, <1>2 DEF MilestoneClaims

\* Whatever the network does with the transactions, and however often a request sends
\* its own again, a success that is answered or recorded took effect on chain
\* (tx-builder.ts:334-385).
THEOREM SuccessCorrect ==
  ASSUME NEW CONSTANT routes, routes \subseteq Routes,
         NEW CONSTANT stages, NEW CONSTANT types
  PROVE  RoutesSpec(routes, stages, types) => []SuccessIsOnChain
<1>1. RoutesInit(routes, stages, types) => RouteIInv
  BY RoutesStart
<1>2. RouteIInv /\ [RoutesNext]_routeVars => RouteIInv'
  BY RoutesKeep
<1>3. RouteIInv => SuccessIsOnChain
  BY DEF RouteIInv, RecordsAreOnChain, SuccessIsOnChain
<1> QED
  BY <1>1, <1>2, <1>3, PTL DEF RoutesSpec

\* However many requests claim a milestone at once, fail, crash or send again, the XP
\* of the milestone is minted for one of them only, and a claim that will never be paid
\* belongs to a request that failed or crashed (milestone/route.ts:99-146).
THEOREM MilestoneCorrect ==
  ASSUME NEW CONSTANT routes, routes \subseteq Routes,
         NEW CONSTANT stages, NEW CONSTANT types
  PROVE  RoutesSpec(routes, stages, types) => []MilestoneClaims
<1>1. RoutesInit(routes, stages, types) => RouteIInv
  BY RoutesStart
<1>2. RouteIInv /\ [RoutesNext]_routeVars => RouteIInv'
  BY RoutesKeep
<1> QED
  BY <1>1, <1>2, OnePayer, PTL DEF RoutesSpec

-----------------------------------------------------------------------------
(* SecondAwardExplained.  A request is past the read when it found no award *)
(* recorded; it is clean while it has neither overlapped nor failed.  There *)
(* is never a second clean one: while the first is active the second        *)
(* overlaps it, and when the first has ended well its row is there.         *)
PastRead(r) ==
    /\ call[r].route = "award" /\ call[r].at \notin {"new", "read"}
    /\ call[r].answer \notin {"conflict", "refused"}

Clean(r) == PastRead(r) /\ r \notin overlap /\ call[r].answer \notin {"failed", "crashed"}

AwardShape(r) ==
    /\ call[r].at = "done" <=> call[r].answer # "none"
    /\ call[r].at \in {"new", "read"} => call[r].attempt = 1
    /\ call[r].route = "award" =>
          /\ call[r].at \notin {"claim", "status", "recheck"}
          /\ call[r].op \in {"achieve", "reward"}
          /\ call[r].answer = "ok" => award = "hashed"
          /\ call[r].answer \in {"conflict", "refused"} => \A n \in Attempts : fate[<<r, n>>] = "none"
                                                                       /\ <<r, n>> \notin wire

AwardInv ==
    /\ \A r \in Requests : AwardShape(r)
    /\ \A r, s \in Requests : Clean(r) /\ Clean(s) => r = s

\* What an action of a request does to its award.
KeepsAward(r) ==
    /\ call[r].at # "done"
    /\ call'[r].at = "done" <=> call'[r].answer # "none"
    /\ call'[r].at \in {"new", "read"} => call'[r].attempt = 1
    /\ award = "hashed" => award' = "hashed"
    /\ overlap \subseteq overlap'
    /\ call[r].route = "award" =>
          /\ call'[r].at \notin {"claim", "status", "recheck"}
          /\ call'[r].op \in {"achieve", "reward"}
          /\ call'[r].answer = "ok" => award' = "hashed"
          /\ call'[r].answer \in {"conflict", "refused"} => call[r].at \in {"new", "read"}
          /\ call[r].at = "new" => call'[r].at = "read" \/ call'[r].answer = "refused"
          /\ call[r].at = "read" /\ call'[r].answer \notin {"conflict", "failed"} =>
                /\ award # "hashed"
                /\ \/ r \in overlap'
                   \/ ~ \E s \in Requests \ {r} :
                          call[s].route = "award" /\ Active(s) /\ call[s].at # "read"

LEMMA AwardMoves ==
  ASSUME RouteShape, NEW r \in Requests, AwardShape(r), Inner(r) \/ Send(r) \/ SendFails(r)
  PROVE  KeepsAward(r)
<1> USE DEF KeepsAward, AwardShape, Places, Answers
<1>0. call[r].route \in Routes
  BY DEF RouteShape, CallType
<1>1. CASE Receive(r)
  BY <1>1, GotoMoves, AnswerMoves DEF Receive
<1>2. CASE Claim(r)
  BY <1>2, GotoMoves, AnswerMoves DEF Claim
<1>3. CASE ReadAward(r)
  BY <1>3, GotoMoves, AnswerMoves DEF ReadAward, AlreadyAwarded
<1>4. CASE ReadStatus(r)
  <2>1. CASE stage = "credentialed"
    BY <1>4, <2>1 DEF ReadStatus, RouteShape, CallType
  <2>2. CASE stage # "credentialed"
    BY <1>4, <2>2, GotoMoves, AnswerMoves DEF ReadStatus
  <2> QED
    BY <2>1, <2>2
<1>5. CASE ReadStatusFails(r)
  BY <1>5, AnswerMoves DEF ReadStatusFails
<1>6. CASE Recheck(r)
  BY <1>6, GotoMoves, AnswerMoves DEF Recheck
<1>7. CASE EnsureXpAta(r)
  BY <1>7, GotoMoves, AnswerMoves DEF EnsureXpAta
<1>8. CASE ReadType(r)
  <2>1. PICK op \in {"achieve", "reward"} : call' = [call EXCEPT ![r].at = "send", ![r].op = op]
    BY <1>8 DEF ReadType
  <2>2. /\ call'[r].at = "send" /\ call'[r].route = call[r].route /\ call'[r].op = op
        /\ call'[r].attempt = call[r].attempt /\ call'[r].answer = call[r].answer
    BY <2>1 DEF RouteShape, CallType
  <2> QED
    BY <1>8, <2>2 DEF ReadType
<1>9. CASE Simulate(r)
  BY <1>9, AnswerMoves DEF Simulate
<1>10. CASE Send(r)
  BY <1>10, GotoMoves DEF Send
<1>11. CASE SendFails(r)
  BY <1>11, AgainMoves DEF SendFails
<1>12. CASE Confirm(r)
  BY <1>12, GotoMoves, AnswerMoves DEF Confirm, Recorded
<1>13. CASE ConfirmError(r)
  BY <1>13, AnswerMoves DEF ConfirmError
<1>14. CASE Timeout(r)
  BY <1>14, AnswerMoves DEF Timeout
<1>15. CASE Resend(r)
  BY <1>15, AgainMoves DEF Resend
<1>16. CASE Record(r)
  BY <1>16, AnswerMoves DEF Record
<1>17. CASE StatementFails(r)
  BY <1>17, AnswerMoves DEF StatementFails
<1> QED
  BY <1>1, <1>2, <1>3, <1>4, <1>5, <1>6, <1>7, <1>8, <1>9,
     <1>10, <1>11, <1>12, <1>13, <1>14, <1>15, <1>16, <1>17 DEF Inner

\* The two ways to become clean: to stay so, or to read when there is no other.
LEMMA CleanBefore ==
  ASSUME RouteIInv, AwardInv, NEW r \in Requests, Moves(r), KeepsAward(r)
  PROVE  /\ \A s \in Requests : s # r => (Clean(s)' => Clean(s))
         /\ Clean(r)' => \/ Clean(r)
                         \/ \A s \in Requests : s # r => ~Clean(s)
<1>1. /\ \A s \in Requests : s # r => call'[s] = call[s]
      /\ call'[r].route = call[r].route /\ overlap \subseteq overlap'
  BY DEF Moves, MovesForward, KeepsAward
<1>2. \A s \in Requests : s # r => (Clean(s)' => Clean(s))
  BY <1>1 DEF Clean, PastRead
<1>3. ASSUME Clean(r)', ~Clean(r)
      PROVE  \A s \in Requests : s # r => ~Clean(s)
  <2>1. /\ call[r].route = "award" /\ r \notin overlap'
        /\ call'[r].answer \notin {"conflict", "refused", "failed", "crashed"}
        /\ call'[r].at \notin {"new", "read"}
    BY <1>1, <1>3 DEF Clean, PastRead
  <2>2. call[r].answer = "none"
    BY DEF KeepsAward, AwardInv, AwardShape
  <2>3. call[r].at \in {"new", "read"}
    BY <1>1, <1>3, <2>1, <2>2 DEF Clean, PastRead
  <2>4. call[r].at = "read"
    BY <2>1, <2>3 DEF KeepsAward
  <2>5. /\ award # "hashed"
        /\ ~ \E s \in Requests \ {r} : call[s].route = "award" /\ Active(s) /\ call[s].at # "read"
    BY <2>1, <2>4 DEF KeepsAward
  <2> SUFFICES ASSUME NEW s \in Requests, s # r, Clean(s)
               PROVE  FALSE
    OBVIOUS
  <2>6. call[s].route = "award" /\ call[s].at \notin {"new", "read"}
        /\ call[s].answer \notin {"conflict", "refused", "failed", "crashed"}
    BY DEF Clean, PastRead
  <2>7. call[s].at = "done"
    BY <2>5, <2>6 DEF Active
  <2>8. call[s].answer = "ok"
    BY <2>6, <2>7 DEF AwardInv, AwardShape, RouteIInv, RouteShape, CallType, Answers
  <2> QED
    BY <2>5, <2>6, <2>8 DEF AwardInv, AwardShape
<1> QED
  BY <1>2, <1>3

LEMMA AwardStep ==
  ASSUME RouteIInv, AwardInv, NEW r \in Requests, Moves(r), KeepsAward(r), UNCHANGED fate,
         \/ UNCHANGED wire
         \/ wire' = wire \cup {This(r)} /\ call[r].at = "send"
  PROVE  AwardInv'
<1>1. /\ \A s \in Requests : s # r => call'[s] = call[s]
      /\ call'[r].route = call[r].route
      /\ award = "hashed" => award' = "hashed"
  BY DEF Moves, MovesForward, KeepsAward
<1>2. ASSUME NEW s \in Requests, s # r
      PROVE  AwardShape(s)'
  <2>1. \A n \in Attempts : <<s, n>> \in wire' => <<s, n>> \in wire
    BY <1>2 DEF This
  <2> QED
    BY <1>1, <1>2, <2>1 DEF AwardInv, AwardShape
<1>3. AwardShape(r)'
  <2>1. ASSUME call[r].route = "award", call'[r].answer \in {"conflict", "refused"}
        PROVE  \A n \in Attempts : fate[<<r, n>>] = "none" /\ <<r, n>> \notin wire'
    <3>1. call[r].at \in {"new", "read"} /\ call[r].attempt = 1
      BY <2>1 DEF KeepsAward, AwardInv, AwardShape
    <3>2. \A n \in Attempts : ~(n < 1)
      BY RouteAssumption DEF Attempts
    <3>3. \A n \in Attempts : fate[<<r, n>>] = "none" /\ <<r, n>> \notin wire
      BY <3>1, <3>2 DEF RouteIInv, OneTransactionPerAttempt, SentPlaces
    <3> QED
      BY <3>1, <3>3
  <2> QED
    BY <1>1, <2>1 DEF KeepsAward, AwardShape
<1>4. \A s, q \in Requests : Clean(s)' /\ Clean(q)' => s = q
  BY CleanBefore DEF AwardInv
<1>5. \A s \in Requests : AwardShape(s)'
  BY <1>2, <1>3
<1> QED
  BY <1>4, <1>5 DEF AwardInv

LEMMA AwardNetwork ==
  ASSUME RouteIInv, AwardInv, NEW t \in wire, NEW x \in {"ok", "err", "dropped"},
         wire' = wire \ {t}, fate' = [fate EXCEPT ![t] = x],
         UNCHANGED <<call, award, overlap>>
  PROVE  AwardInv'
<1>1. /\ t \in Transactions
      /\ \A u \in Transactions : fate'[u] = IF u = t THEN x ELSE fate[u]
  BY DEF RouteIInv, RouteShape
<1>2. \A r \in Requests, n \in Attempts : <<r, n>> \in Transactions
  BY DEF Transactions
<1>3. \A r \in Requests : AwardShape(r)'
  BY <1>1, <1>2 DEF AwardInv, AwardShape
<1>4. \A r \in Requests : Clean(r)' <=> Clean(r)
  BY DEF Clean, PastRead
<1> QED
  BY <1>3, <1>4 DEF AwardInv

LEMMA AwardCrash ==
  ASSUME RouteIInv, AwardInv, Crash
  PROVE  AwardInv'
<1>1. UNCHANGED <<wire, fate, award, overlap>> /\ call \in [Requests -> CallType]
  BY DEF Crash, RouteIInv, RouteShape
<1>2. call' = [r \in Requests |->
                 IF Active(r) THEN [call[r] EXCEPT !.at = "done", !.answer = "crashed"]
                 ELSE call[r]]
  BY DEF Crash
<1>3. ASSUME NEW r \in Requests
      PROVE  \/ call'[r] = call[r]
             \/ /\ call'[r].at = "done" /\ call'[r].answer = "crashed"
                /\ call'[r].route = call[r].route /\ call'[r].op = call[r].op
  BY <1>1, <1>2 DEF CallType
<1>4. \A r \in Requests : AwardShape(r)'
  BY <1>1, <1>3 DEF AwardInv, AwardShape
<1>5. \A r \in Requests : Clean(r)' => Clean(r)
  BY <1>1, <1>3 DEF Clean, PastRead
<1> QED
  BY <1>4, <1>5 DEF AwardInv

LEMMA AwardInit ==
  ASSUME NEW routes, routes \subseteq Routes, NEW stages, NEW types, RoutesInit(routes, stages, types)
  PROVE  AwardInv
<1>1. PICK route \in [Requests -> routes] :
         call = [r \in Requests |->
                   [route |-> route[r], at |-> "new", op |-> FirstOp(route[r]),
                    attempt |-> 1, answer |-> "none"]]
  BY DEF RoutesInit
<1>2. ASSUME NEW r \in Requests
      PROVE  /\ call[r].at = "new" /\ call[r].answer = "none" /\ call[r].attempt = 1
             /\ call[r].route = "award" => call[r].op = "achieve"
  BY <1>1 DEF FirstOp
<1> QED
  BY <1>2 DEF AwardInv, AwardShape, Clean, PastRead

LEMMA AwardKeep ==
  ASSUME RouteIInv, AwardInv, [RoutesNext]_routeVars
  PROVE  AwardInv'
<1>1. ASSUME NEW r \in Requests, Inner(r) \/ Send(r) \/ SendFails(r)
      PROVE  AwardInv'
  <2>1. Moves(r) /\ KeepsAward(r)
    BY <1>1, RequestMoves, AwardMoves DEF RouteIInv, AwardInv
  <2>2. Inner(r) => UNCHANGED <<wire, fate>>
    BY DEF Inner, Receive, Claim, ReadAward, ReadStatus, ReadStatusFails, Recheck,
           EnsureXpAta, ReadType, Simulate, Confirm, ConfirmError, Timeout, Resend,
           Record, StatementFails
  <2>3. Send(r) \/ SendFails(r) =>
          /\ UNCHANGED fate /\ call[r].at = "send"
          /\ UNCHANGED wire \/ wire' = wire \cup {This(r)}
    BY DEF Send, SendFails
  <2> QED
    BY <1>1, <2>1, <2>2, <2>3, AwardStep
<1>2. ASSUME NEW t \in Transactions, Land(t) \/ Expire(t)
      PROVE  AwardInv'
  <2>1. t \in wire /\ wire' = wire \ {t} /\ UNCHANGED <<call, award, overlap>>
    BY <1>2 DEF Land, Expire
  <2>2. PICK x \in {"ok", "err", "dropped"} : fate' = [fate EXCEPT ![t] = x]
    BY <1>2 DEF Land, Expire
  <2> QED
    BY <2>1, <2>2, AwardNetwork
<1>3. CASE CloseEnrollment \/ UNCHANGED routeVars
  <2>1. UNCHANGED <<call, wire, fate, award, overlap>>
    BY <1>3 DEF CloseEnrollment, routeVars
  <2> QED
    BY <2>1 DEF AwardInv, AwardShape, Clean, PastRead
<1>4. ASSUME RoutesNext
      PROVE  \/ \E r \in Requests : Inner(r) \/ Send(r) \/ SendFails(r)
             \/ \E t \in Transactions : Land(t) \/ Expire(t)
             \/ Crash \/ CloseEnrollment
  BY <1>4 DEF RoutesNext, Progress, Inner
<1> QED
  BY <1>1, <1>2, <1>3, <1>4, AwardCrash

LEMMA AwardCauses ==
  ASSUME RouteIInv, AwardInv
  PROVE  SecondAwardExplained
<1> SUFFICES ASSUME NEW t \in Landed("award"), NEW u \in Landed("award"), t # u,
                    \A r \in {t[1], u[1]} : /\ ~(call[r].attempt > 1)
                                            /\ r \notin overlap
                                            /\ call[r].answer \notin {"failed", "crashed"}
             PROVE  FALSE
  BY DEF SecondAwardExplained
<1>1. ASSUME NEW v \in {t, u}
      PROVE  v[1] \in Requests /\ Clean(v[1]) /\ v = <<v[1], 1>>
  <2>1. PICK r \in Requests, n \in Attempts : v = <<r, n>>
    BY DEF Landed, Transactions
  <2>2. call[r].route = "award" /\ fate[<<r, n>>] = "ok"
    BY <2>1 DEF Landed
  <2>3. n \in Nat \ {0} /\ call[r].attempt \in Nat \ {0}
    BY RouteAssumption DEF RouteIInv, RouteShape, CallType, Attempts
  <2>4. r \in {t[1], u[1]}
    BY <2>1
  <2>5. ~(call[r].attempt > 1)
    BY <2>4
  <2>6. \/ n < call[r].attempt
        \/ n = call[r].attempt /\ call[r].at \in SentPlaces
    BY <2>2 DEF RouteIInv, OneTransactionPerAttempt
  <2>7. n = 1 /\ call[r].at \in SentPlaces
    BY <2>3, <2>5, <2>6
  <2>8. call[r].answer \notin {"conflict", "refused"}
    BY <2>2 DEF AwardInv, AwardShape
  <2>9. Clean(r)
    BY <2>2, <2>4, <2>7, <2>8 DEF Clean, PastRead, SentPlaces
  <2> QED
    BY <2>1, <2>7, <2>9
<1>2. t[1] = u[1]
  BY <1>1 DEF AwardInv
<1> QED
  BY <1>1, <1>2

\* An achievement is minted twice only by a request that sent again, by two requests
\* that overlapped between the read of the row and its write, or after one that ended
\* without the row (award/route.ts:98-147): for any number of requests and attempts.
THEOREM SecondAwardHasACause ==
  ASSUME NEW CONSTANT routes, routes \subseteq Routes,
         NEW CONSTANT stages, NEW CONSTANT types
  PROVE  RoutesSpec(routes, stages, types) => []SecondAwardExplained
<1>1. RoutesInit(routes, stages, types) => RouteIInv /\ AwardInv
  BY RoutesStart, AwardInit
<1>2. RouteIInv /\ AwardInv /\ [RoutesNext]_routeVars => RouteIInv' /\ AwardInv'
  BY RoutesKeep, AwardKeep
<1>3. RouteIInv /\ AwardInv => SecondAwardExplained
  BY AwardCauses
<1> QED
  BY <1>1, <1>2, <1>3, PTL DEF RoutesSpec

-----------------------------------------------------------------------------
(* The offline queue.  With a single replayer an action is due while it is  *)
(* stored and its success is not known: each time the server acted on it    *)
(* either that was the last, or the answer was lost.                        *)
OneReplayer == \A r, q \in Replayers : r = q
ServedBy(r, a) == replayer[r].at = a /\ replayer[r].answer = "ok"
Due(a) == IF a \in store /\ ~ \E r \in Replayers : ServedBy(r, a) THEN 1 ELSE 0

\* What a single replayer has still to replay is stored, and what was lost pays for
\* what the server did again.
ReplaysStored ==
    /\ \A r \in Replayers :
          /\ replayer[r].list \subseteq store
          /\ replayer[r].at \in Actions => replayer[r].at \notin replayer[r].list
    /\ \A a \in Actions : served[a] + Due(a) <= 1 + losses

\* A success that a replayer knows of was the server's; what is listed or stored was
\* queued, and the server saw nothing of an action that was not sent.
OfflineInv ==
    /\ OfflineTypeOK /\ losses \in Nat
    /\ \A r \in Replayers :
          /\ replayer[r].answer = "ok" => replayer[r].at \in Actions /\ served[replayer[r].at] > 0
          /\ \A a \in replayer[r].list : client[a] = "queued"
    /\ \A a \in Actions :
          /\ a \in store => client[a] = "queued"
          /\ client[a] = "unsent" => served[a] = 0
          /\ client[a] = "queued" => a \in store \/ served[a] > 0
          /\ served[a] > 1 => a \notin once /\ client[a] = "queued"
    /\ OneReplayer => ReplaysStored

LEMMA ServeFacts ==
  ASSUME OfflineTypeOK, NEW a \in Actions, Serve(a)
  PROVE  /\ served' \in [Actions -> Nat]
         /\ \A b \in Actions : b # a => served'[b] = served[b]
         /\ served'[a] = IF Accepts(a) THEN served[a] + 1 ELSE served[a]
         /\ a \in once /\ served'[a] > 1 => served[a] > 1
         /\ served'[a] > 0
BY DEF OfflineTypeOK, Serve, Accepts

LEMMA OfflineStart ==
  ASSUME NEW onces, onces \subseteq SUBSET Actions, OfflineInit(onces)
  PROVE  OfflineInv
<1>1. OfflineTypeOK
  BY DEF OfflineInit, OfflineTypeOK, Resting
<1>2. \A a \in Actions : served[a] = 0 /\ Due(a) = 0
  BY DEF OfflineInit, Due
<1>3. ReplaysStored
  BY <1>2, OfflineAssumption DEF OfflineInit, ReplaysStored, Resting
<1> QED
  BY <1>1, <1>3 DEF OfflineInit, OfflineInv, Resting

\* A call of the page: answered, or stored.
LEMMA FetchKeeps ==
  ASSUME OfflineInv, NEW a \in Actions, FetchAnswered(a) \/ FetchFails(a)
  PROVE  OfflineInv'
<1>1. /\ OfflineTypeOK /\ losses \in Nat /\ client[a] = "unsent" /\ served[a] = 0 /\ a \notin store
      /\ UNCHANGED <<once, replayer>>
  BY DEF OfflineInv, FetchAnswered, FetchFails
<1>2. /\ \A b \in Actions : b # a => served'[b] = served[b] /\ client'[b] = client[b]
      /\ served'[a] \in {0, 1} /\ served' \in [Actions -> Nat]
  BY <1>1, ServeFacts DEF FetchAnswered, FetchFails, OfflineTypeOK
<1>3. \/ /\ client' = [client EXCEPT ![a] = "answered"] /\ UNCHANGED <<store, losses>>
      \/ /\ client' = [client EXCEPT ![a] = "refused"] /\ UNCHANGED <<store, losses>>
      \/ /\ client' = [client EXCEPT ![a] = "queued"] /\ store' = store \cup {a}
         /\ losses' = losses + 1
  BY DEF FetchAnswered, FetchFails, Loss
<1>4. /\ client'[a] \in {"answered", "refused", "queued"} /\ losses' \in Nat
      /\ client'[a] = "queued" => store' = store \cup {a} /\ losses' = losses + 1
      /\ client'[a] # "queued" => UNCHANGED <<store, losses>>
  BY <1>1, <1>3 DEF OfflineTypeOK
<1>5. OfflineTypeOK'
  BY <1>1, <1>2, <1>3 DEF OfflineTypeOK
<1>6. \A r \in Replayers :
         /\ replayer[r].answer = "ok" => replayer[r].at \in Actions /\ replayer[r].at # a
         /\ a \notin replayer[r].list
  BY <1>1 DEF OfflineInv
<1>7. ASSUME OneReplayer
      PROVE  ReplaysStored'
  <2>1. ReplaysStored
    BY <1>7 DEF OfflineInv
  <2>2. ASSUME NEW b \in Actions, b # a
        PROVE  served'[b] + Due(b)' <= 1 + losses'
    <3>1. Due(b)' = Due(b) /\ Due(b) \in {0, 1}
      BY <1>1, <1>4, <2>2 DEF Due, ServedBy
    <3>2. served[b] + Due(b) <= 1 + losses /\ served[b] \in Nat
      BY <1>1, <2>1 DEF ReplaysStored, OfflineTypeOK
    <3> QED
      BY <1>1, <1>2, <1>4, <2>2, <3>1, <3>2
  <2>3. served'[a] + Due(a)' <= 1 + losses'
    <3>1. Due(a)' \in {0, 1} /\ (client'[a] # "queued" => Due(a)' = 0)
      BY <1>1, <1>4 DEF Due
    <3> QED
      BY <1>1, <1>2, <1>4, <3>1
  <2>4. store \subseteq store'
    BY <1>4
  <2> QED
    BY <1>1, <2>1, <2>2, <2>3, <2>4 DEF ReplaysStored
<1>8. \A r \in Replayers :
         /\ replayer'[r].answer = "ok" => replayer'[r].at \in Actions /\ served'[replayer'[r].at] > 0
         /\ \A b \in replayer'[r].list : client'[b] = "queued"
  BY <1>1, <1>2, <1>6 DEF OfflineInv, OfflineTypeOK
<1>9. ASSUME NEW b \in Actions
      PROVE  /\ b \in store' => client'[b] = "queued"
             /\ client'[b] = "unsent" => served'[b] = 0
             /\ client'[b] = "queued" => b \in store' \/ served'[b] > 0
             /\ served'[b] > 1 => b \notin once' /\ client'[b] = "queued"
  BY <1>1, <1>2, <1>4 DEF OfflineInv
<1>10. OneReplayer' => OneReplayer
  BY DEF OneReplayer
<1> QED
  BY <1>4, <1>5, <1>7, <1>8, <1>9, <1>10 DEF OfflineInv

\* A replayer begins, ends or is stopped: it takes the whole store, or rests.
LEMMA ReplayerRests ==
  ASSUME OfflineInv, NEW r \in Replayers,
         UNCHANGED <<once, client, store, served>>, losses' \in Nat, losses' >= losses,
         NEW list \in {{}, store}, NEW at \in {"idle", "next"},
         replayer' = [replayer EXCEPT ![r] = [list |-> list, at |-> at, answer |-> "none"]],
         replayer[r].answer # "ok" \/ losses' = losses + 1
  PROVE  OfflineInv'
<1>1. OfflineTypeOK /\ losses \in Nat
  BY DEF OfflineInv
<1>2. /\ replayer'[r] = [list |-> list, at |-> at, answer |-> "none"]
      /\ \A q \in Replayers : q # r => replayer'[q] = replayer[q]
      /\ at \notin Actions /\ list \subseteq store
  BY <1>1, OfflineAssumption DEF OfflineTypeOK
<1>3. OfflineTypeOK'
  BY <1>1 DEF OfflineTypeOK
<1>4. ASSUME OneReplayer
      PROVE  ReplaysStored'
  <2>1. ReplaysStored /\ \A q \in Replayers : q = r
    BY <1>4 DEF OfflineInv, OneReplayer
  <2>2. ASSUME NEW a \in Actions
        PROVE  served'[a] + Due(a)' <= 1 + losses'
    <3>1. Due(a)' \in {0, 1} /\ Due(a) \in {0, 1}
      BY DEF Due
    <3>2. replayer[r].answer # "ok" => Due(a)' = Due(a)
      BY <1>2, <2>1 DEF Due, ServedBy
    <3>3. served[a] + Due(a) <= 1 + losses /\ served[a] \in Nat /\ served'[a] = served[a]
      BY <1>1, <2>1 DEF ReplaysStored, OfflineTypeOK
    <3> QED
      BY <1>1, <3>1, <3>2, <3>3
  <2> QED
    BY <1>2, <2>1, <2>2 DEF ReplaysStored
<1>5. \A q \in Replayers :
         /\ replayer'[q].answer = "ok" => replayer'[q].at \in Actions /\ served'[replayer'[q].at] > 0
         /\ \A b \in replayer'[q].list : client'[b] = "queued"
  BY <1>1, <1>2 DEF OfflineInv, OfflineTypeOK
<1>6. OneReplayer' => OneReplayer
  BY DEF OneReplayer
<1> QED
  BY <1>3, <1>4, <1>5, <1>6 DEF OfflineInv

\* The next action is fetched: answered, or lost on the way.
LEMMA ReplayKeeps ==
  ASSUME OfflineInv, NEW r \in Replayers, NEW a \in replayer[r].list, replayer[r].at = "next",
         Fetched(r, a), UNCHANGED <<once, client>>,
         \/ /\ Serve(a) /\ UNCHANGED losses
            /\ replayer' = [replayer EXCEPT
                  ![r] = [list |-> @.list \ {a}, at |-> a,
                          answer |-> IF Accepts(a) THEN "ok" ELSE "conflict"]]
         \/ /\ Loss
            /\ Serve(a) \/ UNCHANGED served
            /\ replayer' = [replayer EXCEPT ![r].list = @ \ {a}]
  PROVE  OfflineInv'
<1>1. /\ OfflineTypeOK /\ losses \in Nat /\ a \in Actions /\ client[a] = "queued"
      /\ UNCHANGED <<once, client, store>> /\ losses' \in Nat /\ losses' >= losses
      /\ replayer[r].at \notin Actions /\ replayer[r].answer # "ok"
  BY OfflineAssumption DEF OfflineInv, OfflineTypeOK, Fetched, Loss
<1>2. /\ \A b \in Actions : b # a => served'[b] = served[b]
      /\ \A b \in Actions : served[b] > 0 => served'[b] > 0
      /\ served' \in [Actions -> Nat] /\ served'[a] \in {served[a], served[a] + 1}
      /\ a \in once /\ served'[a] > 1 => served[a] > 1
      /\ Serve(a) => served'[a] > 0 /\ (~Accepts(a) => served'[a] = served[a])
  <2>1. CASE Serve(a)
    BY <1>1, <2>1, ServeFacts DEF OfflineTypeOK
  <2>2. CASE ~Serve(a)
    BY <1>1, <2>2 DEF OfflineTypeOK
  <2> QED
    BY <2>1, <2>2
<1>3. /\ \A q \in Replayers : q # r => replayer'[q] = replayer[q]
      /\ replayer'[r].list = replayer[r].list \ {a}
      /\ \/ /\ replayer'[r].at = a /\ Serve(a) /\ losses' = losses
            /\ replayer'[r].answer = IF Accepts(a) THEN "ok" ELSE "conflict"
         \/ /\ replayer'[r].at = replayer[r].at /\ losses' = losses + 1
            /\ replayer'[r].answer = replayer[r].answer
  BY <1>1 DEF OfflineTypeOK, Loss
<1>4. OfflineTypeOK'
  BY <1>1, <1>2 DEF OfflineTypeOK
<1>5. ASSUME NEW q \in Replayers
      PROVE  /\ replayer'[q].answer = "ok" => replayer'[q].at \in Actions /\ served'[replayer'[q].at] > 0
             /\ \A b \in replayer'[q].list : client'[b] = "queued"
  <2>1. CASE q # r
    BY <1>1, <1>2, <1>3, <2>1 DEF OfflineInv
  <2>2. CASE q = r
    BY <1>1, <1>2, <1>3, <2>2 DEF OfflineInv
  <2> QED
    BY <2>1, <2>2
<1>6. ASSUME NEW b \in Actions
      PROVE  /\ b \in store' => client'[b] = "queued"
             /\ client'[b] = "unsent" => served'[b] = 0
             /\ client'[b] = "queued" => b \in store' \/ served'[b] > 0
             /\ served'[b] > 1 => b \notin once' /\ client'[b] = "queued"
  <2>1. CASE b # a
    BY <1>1, <1>2, <2>1 DEF OfflineInv
  <2>2. CASE b = a
    BY <1>1, <1>2, <2>2 DEF OfflineInv
  <2> QED
    BY <2>1, <2>2
<1>7. ASSUME OneReplayer
      PROVE  ReplaysStored'
  <2>1. ReplaysStored /\ \A q \in Replayers : q = r
    BY <1>7 DEF OfflineInv, OneReplayer
  <2>2. a \in store /\ Due(a) = 1
    BY <1>1, <2>1 DEF ReplaysStored, Due, ServedBy
  <2>3. ASSUME NEW b \in Actions
        PROVE  served'[b] + Due(b)' <= 1 + losses'
    <3>1. /\ Due(b)' \in {0, 1} /\ Due(b) \in {0, 1} /\ served[b] \in Nat
          /\ served[b] + Due(b) <= 1 + losses
      BY <1>1, <2>1 DEF ReplaysStored, Due, OfflineTypeOK
    <3>2. CASE b # a
      <4>1. Due(b)' = Due(b)
        BY <1>1, <1>3, <2>1, <3>2 DEF Due, ServedBy
      <4> QED
        BY <1>1, <1>2, <3>1, <3>2, <4>1
    <3>3. CASE b = a
      <4>1. losses' = losses + 1 \/ (served'[a] = served[a]) \/ Due(a)' = 0
        BY <1>2, <1>3 DEF Due, ServedBy
      <4> QED
        BY <1>1, <1>2, <2>2, <3>1, <3>3, <4>1
    <3> QED
      BY <3>2, <3>3
  <2>4. \A q \in Replayers : replayer'[q].at \in Actions => replayer'[q].at \notin replayer'[q].list
    BY <1>1, <1>3, <2>1
  <2> QED
    BY <1>1, <1>3, <2>1, <2>3, <2>4 DEF ReplaysStored
<1>8. OneReplayer' => OneReplayer
  BY DEF OneReplayer
<1> QED
  BY <1>1, <1>4, <1>5, <1>6, <1>7, <1>8 DEF OfflineInv

\* The answer is looked at.
LEMMA AnsweredKeeps ==
  ASSUME OfflineInv, NEW r \in Replayers, Answered(r)
  PROVE  OfflineInv'
<1> DEFINE a == replayer[r].at
<1>1. /\ OfflineTypeOK /\ losses \in Nat /\ a \in Actions
      /\ UNCHANGED <<once, client, served, losses>>
      /\ store' = IF replayer[r].answer = "ok" THEN store \ {a} ELSE store
  BY DEF OfflineInv, Answered
<1>2. /\ \A q \in Replayers : q # r => replayer'[q] = replayer[q]
      /\ replayer'[r].list = replayer[r].list /\ replayer'[r].at = "next"
      /\ replayer'[r].answer = "none" /\ "next" \notin Actions
  BY <1>1, OfflineAssumption DEF OfflineTypeOK, Answered
<1>3. OfflineTypeOK'
  <2>1. store' \subseteq Actions
    BY <1>1 DEF OfflineTypeOK
  <2> DEFINE Rp == [list : SUBSET Actions, at : {"idle", "next"} \cup Actions,
                    answer : {"none", "ok", "conflict"}]
  <2>2. replayer \in [Replayers -> Rp]
        /\ replayer' = [replayer EXCEPT ![r] = [@ EXCEPT !.at = "next", !.answer = "none"]]
    BY <1>1 DEF OfflineTypeOK, Answered
  <2>3. [replayer[r] EXCEPT !.at = "next", !.answer = "none"] \in Rp
    BY <2>2
  <2>4. replayer' \in [Replayers -> Rp]
    <3> HIDE DEF Rp
    <3> QED
      BY <2>2, <2>3
  <2> QED
    BY <1>1, <2>1, <2>4 DEF OfflineTypeOK
<1>4. replayer[r].answer = "ok" => served[a] > 0
  BY DEF OfflineInv
<1> HIDE DEF a
<1>5. \A q \in Replayers :
         /\ replayer'[q].answer = "ok" => replayer'[q].at \in Actions /\ served'[replayer'[q].at] > 0
         /\ \A b \in replayer'[q].list : client'[b] = "queued"
  BY <1>1, <1>2 DEF OfflineInv
<1>6. \A b \in Actions :
         /\ b \in store' => client'[b] = "queued"
         /\ client'[b] = "unsent" => served'[b] = 0
         /\ client'[b] = "queued" => b \in store' \/ served'[b] > 0
         /\ served'[b] > 1 => b \notin once' /\ client'[b] = "queued"
  BY <1>1, <1>4 DEF OfflineInv
<1>7. ASSUME OneReplayer
      PROVE  ReplaysStored'
  <2>1. ReplaysStored /\ \A q \in Replayers : q = r
    BY <1>7 DEF OfflineInv, OneReplayer
  <2>2. ASSUME NEW b \in Actions
        PROVE  Due(b)' = Due(b)
    BY <1>1, <1>2, <2>1 DEF Due, ServedBy, a
  <2>3. \A q \in Replayers : replayer'[q].list \subseteq store'
    BY <1>1, <1>2, <2>1 DEF ReplaysStored, a
  <2> QED
    BY <1>1, <1>2, <2>1, <2>2, <2>3 DEF ReplaysStored
<1>8. OneReplayer' => OneReplayer
  BY DEF OneReplayer
<1> QED
  BY <1>1, <1>3, <1>5, <1>6, <1>7, <1>8 DEF OfflineInv

LEMMA FreshReplay ==
  ASSUME NEW list
  PROVE  [Resting EXCEPT !.list = list, !.at = "next"] = [list |-> list, at |-> "next", answer |-> "none"]
<1>1. PICK x : x = [Resting EXCEPT !.list = list]
  OBVIOUS
<1>2. x = [list |-> list, at |-> "idle", answer |-> "none"]
  BY <1>1 DEF Resting
<1>3. [x EXCEPT !.at = "next"] = [list |-> list, at |-> "next", answer |-> "none"]
  BY <1>2
<1>4. [x EXCEPT !.at = "next"] = [Resting EXCEPT !.list = list, !.at = "next"]
  BY <1>1
<1> QED
  BY <1>3, <1>4

LEMMA OfflineKeep ==
  ASSUME OfflineInv, [OfflineNext]_offlineVars
  PROVE  OfflineInv'
<1>0. OfflineTypeOK /\ losses \in Nat /\ {"idle", "next"} \cap Actions = {}
  BY OfflineAssumption DEF OfflineInv
<1>1. ASSUME NEW a \in Actions, FetchAnswered(a) \/ FetchFails(a)
      PROVE  OfflineInv'
  BY <1>1, FetchKeeps
<1>2. ASSUME NEW r \in Replayers, StartReplay(r)
      PROVE  OfflineInv'
  <2>0. PICK list \in {{}, store} : list = store
    OBVIOUS
  <2>3. [Resting EXCEPT !.list = store, !.at = "next"] = [list |-> list, at |-> "next", answer |-> "none"]
    BY <2>0, FreshReplay
  <2>1. replayer' = [replayer EXCEPT ![r] = [list |-> list, at |-> "next", answer |-> "none"]]
    BY <1>2, <2>3 DEF StartReplay
  <2>2. replayer[r].answer # "ok" /\ UNCHANGED <<once, client, store, served, losses>>
    BY <1>0, <1>2 DEF StartReplay, OfflineInv
  <2>4. losses' \in Nat /\ losses' >= losses
    BY <1>0, <2>2
  <2> QED
    BY <2>1, <2>2, <2>4, ReplayerRests
<1>3. ASSUME NEW r \in Replayers, ReplayNext(r)
      PROVE  OfflineInv'
  BY <1>3, ReplayKeeps DEF ReplayNext
<1>4. ASSUME NEW r \in Replayers, Answered(r)
      PROVE  OfflineInv'
  BY <1>4, AnsweredKeeps
<1>5. ASSUME NEW r \in Replayers, ReplayEnds(r)
      PROVE  OfflineInv'
  <2>1. replayer' = [replayer EXCEPT ![r] = [list |-> {}, at |-> "idle", answer |-> "none"]]
    BY <1>5 DEF ReplayEnds, Resting
  <2>2. replayer[r].answer # "ok" /\ UNCHANGED <<once, client, store, served, losses>>
    BY <1>0, <1>5 DEF ReplayEnds, OfflineInv
  <2>3. losses' \in Nat /\ losses' >= losses /\ {} \in {{}, store} /\ "idle" \in {"idle", "next"}
    BY <1>0, <2>2
  <2> QED
    BY <2>1, <2>2, <2>3, ReplayerRests
<1>6. ASSUME NEW r \in Replayers, ReplayerStops(r)
      PROVE  OfflineInv'
  <2>1. replayer' = [replayer EXCEPT ![r] = [list |-> {}, at |-> "idle", answer |-> "none"]]
    BY <1>6 DEF ReplayerStops, Resting
  <2>2. losses' = losses + 1 /\ UNCHANGED <<once, client, store, served>>
    BY <1>6 DEF ReplayerStops, Loss
  <2>3. losses' \in Nat /\ losses' >= losses /\ {} \in {{}, store} /\ "idle" \in {"idle", "next"}
    BY <1>0, <2>2
  <2> QED
    BY <2>1, <2>2, <2>3, ReplayerRests
<1>7. CASE UNCHANGED offlineVars
  BY <1>7 DEF offlineVars, OfflineInv, OfflineTypeOK, ReplaysStored, Due, ServedBy, OneReplayer
<1> QED
  BY <1>1, <1>2, <1>3, <1>4, <1>5, <1>6, <1>7 DEF OfflineNext

LEMMA OfflineMeans ==
  ASSUME OfflineInv
  PROVE  QueuedActionsReachTheServer
<1>1. ASSUME ~(Cardinality(Replayers) > 1)
      PROVE  OneReplayer
  <2>1. IsFiniteSet(Replayers)
    BY OfflineAssumption
  <2> SUFFICES ASSUME NEW r \in Replayers, NEW q \in Replayers, r # q
               PROVE  FALSE
    BY DEF OneReplayer
  <2>2. /\ IsFiniteSet({r, q}) /\ Cardinality({r, q}) = 2
    <3>1. IsFiniteSet({r}) /\ Cardinality({r}) = 1 /\ q \notin {r}
      BY FS_Singleton
    <3>2. Cardinality({r} \cup {q}) = 2 /\ IsFiniteSet({r} \cup {q})
      BY <3>1, FS_AddElement
    <3>3. {r} \cup {q} = {r, q}
      OBVIOUS
    <3> QED
      BY <3>2, <3>3
  <2>3. Cardinality({r, q}) <= Cardinality(Replayers) /\ Cardinality(Replayers) \in Nat
    BY <2>1, FS_Subset, FS_CardinalityType
  <2> QED
    BY <1>1, <2>2, <2>3
<1>2. ASSUME OneReplayer, NEW a \in Actions
      PROVE  served[a] <= 1 + losses
  BY <1>2 DEF OfflineInv, OfflineTypeOK, ReplaysStored, Due
<1> QED
  BY <1>1, <1>2 DEF OfflineInv, OfflineTypeOK, QueuedActionsReachTheServer

\* What the browser has taken over stays stored until the server acted on it, and the
\* server acts twice only where the route accepts repetitions; with a single replayer
\* once more only for each fetch that failed (useOfflineSync.ts:80-105, sw.js:178-213).
THEOREM QueuedActionsReach ==
  ASSUME NEW CONSTANT onces, onces \subseteq SUBSET Actions
  PROVE  OfflineInit(onces) /\ [][OfflineNext]_offlineVars => []QueuedActionsReachTheServer
<1>1. OfflineInit(onces) => OfflineInv
  BY OfflineStart
<1>2. OfflineInv /\ [OfflineNext]_offlineVars => OfflineInv'
  BY OfflineKeep
<1>3. OfflineInv => QueuedActionsReachTheServer
  BY OfflineMeans
<1> QED
  BY <1>1, <1>2, <1>3, PTL

-----------------------------------------------------------------------------
(* The types of both parts.                                                 *)
Stages == {"open", "learnt", "finalized", "credentialed", "closed"}

Accountable ==
    /\ stage \in Stages /\ receipt \in BOOLEAN /\ typed \in BOOLEAN /\ ata \in BOOLEAN
    /\ claim \in {"none", "claimed", "signed"} /\ award \in {"none", "hashed"}
    /\ overlap \subseteq Requests /\ faults \in 0..MaxFaults

LEMMA AccountableStep ==
  ASSUME RouteShape, Accountable, [RoutesNext]_routeVars
  PROVE  Accountable'
<1>0. MaxFaults \in Nat
  BY RouteAssumption
<1>1. Fault => faults' \in 0..MaxFaults
  BY <1>0 DEF Fault, Accountable
<1>2. ASSUME NEW r \in Requests, Receive(r) \/ Progress(r)
      PROVE  Accountable'
  <2>1. CASE Receive(r) \/ Claim(r) \/ ReadStatus(r) \/ Recheck(r) \/ ReadType(r)
    BY <2>1 DEF Receive, Claim, ReadStatus, Recheck, ReadType, Accountable
  <2>2. CASE ReadAward(r) \/ Simulate(r) \/ Send(r) \/ Confirm(r) \/ ConfirmError(r) \/ Timeout(r)
    BY <2>2 DEF ReadAward, Simulate, Send, Confirm, ConfirmError, Timeout, Accountable
  <2>3. CASE EnsureXpAta(r) \/ Record(r)
    BY <1>1, <2>3 DEF EnsureXpAta, Record, Accountable
  <2> QED
    BY <1>2, <2>1, <2>2, <2>3 DEF Progress
<1>3. ASSUME NEW r \in Requests,
             ReadStatusFails(r) \/ SendFails(r) \/ Resend(r) \/ StatementFails(r)
      PROVE  Accountable'
  BY <1>1, <1>3 DEF ReadStatusFails, SendFails, Resend, StatementFails, Accountable
<1>4. ASSUME NEW t \in Transactions, Land(t) \/ Expire(t)
      PROVE  Accountable'
  <2>1. call[t[1]].op \in Operations
    BY DEF RouteShape, CallType, Transactions
  <2>2. Land(t) => stage' \in Stages /\ receipt' \in BOOLEAN
    BY <2>1 DEF Land, After, Operations, Stages, Accountable
  <2> QED
    BY <1>4, <2>2 DEF Land, Expire, Accountable
<1>5. CASE CloseEnrollment \/ Crash \/ UNCHANGED routeVars
  BY <1>1, <1>5 DEF CloseEnrollment, Crash, routeVars, Accountable, Stages
<1> QED
  BY <1>2, <1>3, <1>4, <1>5 DEF RoutesNext

\* Requests, transactions, rows and the browser's queue keep their types in every
\* behaviour of both parts, whatever the network, the learner and the faults do.
THEOREM RoutesTyped == MCSpec => []RoutesTypeOK
<1> DEFINE IInv == RouteIInv /\ Accountable /\ OfflineInv
<1>1. MCInit => IInv
  <2>1. ASSUME NEW routes, routes \subseteq Routes, NEW stages, stages \subseteq Stages,
               NEW types, types \subseteq BOOLEAN, RoutesInit(routes, stages, types)
        PROVE  RouteIInv /\ Accountable
    <3>1. RouteIInv
      BY <2>1, RoutesStart
    <3>2. Accountable
      <4>1. stage \in stages /\ typed \in types /\ faults = 0 /\ MaxFaults \in Nat
        BY <2>1, RouteAssumption DEF RoutesInit
      <4>2. overlap = {} /\ ~receipt /\ ~ata /\ receipt \in BOOLEAN /\ ata \in BOOLEAN
        BY <2>1 DEF RoutesInit
      <4>3. claim = "none" /\ award = "none"
        BY <2>1 DEF RoutesInit
      <4> QED
        BY <2>1, <4>1, <4>2, <4>3 DEF Accountable
    <3> QED
      BY <3>1, <3>2
  <2>2. \A onces : onces \subseteq SUBSET Actions /\ OfflineInit(onces) => OfflineInv
    BY OfflineStart
  <2>3. ASSUME RoutesInit(Routes, {"open", "learnt", "finalized"}, BOOLEAN), OfflineInit({{}})
        PROVE  IInv
    BY <2>1, <2>2, <2>3 DEF Stages
  <2>4. ASSUME RoutesInit({"lesson"}, {"open"}, {TRUE}), OfflineInit(SUBSET Actions)
        PROVE  IInv
    BY <2>1, <2>2, <2>4 DEF Stages, Routes
  <2> QED
    BY <2>3, <2>4 DEF MCInit
<1>2. IInv /\ [MCNext]_MCVars => IInv'
  <2> SUFFICES ASSUME IInv, [MCNext]_MCVars
               PROVE  IInv'
    OBVIOUS
  <2>1. [RoutesNext]_routeVars /\ [OfflineNext]_offlineVars
    BY DEF MCNext, MCVars
  <2> QED
    BY <2>1, RoutesKeep, AccountableStep, OfflineKeep DEF RouteIInv
<1>3. IInv => RoutesTypeOK
  BY DEF RouteIInv, RouteShape, Accountable, OfflineInv, RoutesTypeOK, RewardRoutesTypeOK, Stages
<1> QED
  BY <1>1, <1>2, <1>3, PTL DEF MCSpec
=============================================================================
