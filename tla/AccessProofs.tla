--------------------------- MODULE AccessProofs -----------------------------
(***************************************************************************)
(* Who gets in, for any number of calls, profiles, administrators and       *)
(* attempts: a signed message lets one call through, a lockout counter has  *)
(* an end, a profile keeps a way in, and the whitelist never becomes empty. *)
(***************************************************************************)
EXTENDS WalletAuth, AdminWhitelist, LinkedAccounts, FiniteSetTheorems, TLAPS

(* The wallet's authentication. *)

AuthPlaces == {"idle", "read", "delete", "clear", "failed", "expire", "lock", "forget"}

AuthCallType == [kind : Kinds, msg : 0..MaxMessages, good : BOOLEAN, at : AuthPlaces]

Deleting(c, m) == authCall[c].at = "delete" /\ authCall[c].msg = m

\* What a message that nobody read while another call was about to delete it owes:
\* it is spent by one call at most, and is not stored any more once it is spent; in
\* memory it is not stored even while a call is about to spend it.
Unraced(m) ==
    /\ \A c, d \in AuthCalls : Deleting(c, m) /\ Deleting(d, m) => c = d
    /\ used[m] <= 1
    /\ used[m] = 1 => stored # m /\ \A c \in AuthCalls : ~Deleting(c, m)
    /\ ~redis => \A c \in AuthCalls : Deleting(c, m) => stored # m

\* Only issued messages are spent, and in memory no call reads between another's
\* read and delete.
MessagesHold ==
    /\ \A m \in Messages \ raced : Unraced(m)
    /\ \A m \in Messages : m > issued => used[m] = 0
    /\ \A c \in AuthCalls : authCall[c].at = "delete" => authCall[c].msg \in 1..issued
    /\ ~redis => raced = {}

AuthIInv == WalletAuthTypeOK /\ MessagesHold /\ CounterHasDeadline

-----------------------------------------------------------------------------
(* How the helpers move one call and leave the others alone. *)
LEMMA StepMoves ==
  ASSUME authCall \in [AuthCalls -> AuthCallType], NEW c \in AuthCalls,
         NEW place \in AuthPlaces, AuthStep(c, place)
  PROVE  /\ authCall' \in [AuthCalls -> AuthCallType]
         /\ authCall'[c].at = place
         /\ place = "delete" => authCall'[c].msg = authCall[c].msg
         /\ \A d \in AuthCalls : d # c => authCall'[d] = authCall[d]
<1>1. Waiting \in AuthCallType
  BY WalletAuthAssumption DEF Waiting, AuthCallType, Kinds, AuthPlaces
<1>2. CASE place = "delete"
  <2>1. authCall' = [authCall EXCEPT ![c] = [authCall[c] EXCEPT !.at = place]]
    BY <1>2 DEF AuthStep
  <2>2. [authCall[c] EXCEPT !.at = place] \in AuthCallType
    BY DEF AuthCallType
  <2>3. authCall[c] \in AuthCallType
    OBVIOUS
  <2>4. /\ [authCall[c] EXCEPT !.at = place].at = place
        /\ [authCall[c] EXCEPT !.at = place].msg = authCall[c].msg
    BY <2>3 DEF AuthCallType
  <2> QED
    BY <2>1, <2>2, <2>4
<1>3. CASE place # "delete"
  <2>1. authCall' = [authCall EXCEPT ![c] = [Waiting EXCEPT !.at = place]]
    BY <1>3 DEF AuthStep
  <2>2. [Waiting EXCEPT !.at = place] \in AuthCallType
    BY <1>1 DEF AuthCallType
  <2>3. [Waiting EXCEPT !.at = place].at = place
    BY <1>1 DEF AuthCallType
  <2> QED
    BY <1>3, <2>1, <2>2, <2>3
<1> QED
  BY <1>2, <1>3

LEMMA EndMoves ==
  ASSUME authCall \in [AuthCalls -> AuthCallType], NEW c \in AuthCalls, AuthEnd(c)
  PROVE  /\ authCall' \in [AuthCalls -> AuthCallType]
         /\ authCall'[c].at = "idle"
         /\ \A d \in AuthCalls : d # c => authCall'[d] = authCall[d]
<1>1. Waiting \in AuthCallType /\ Waiting.at = "idle"
  BY WalletAuthAssumption DEF Waiting, AuthCallType, Kinds, AuthPlaces
<1> QED
  BY <1>1 DEF AuthEnd

(* AfterRead and AfterCount choose among the two. *)
LEMMA ReadMoves ==
  ASSUME authCall \in [AuthCalls -> AuthCallType], NEW c \in AuthCalls, AfterRead(c)
  PROVE  /\ authCall' \in [AuthCalls -> AuthCallType]
         /\ authCall'[c].at \in {"idle", "delete", "failed"}
         /\ authCall'[c].at = "delete" => /\ Matches(c)
                                         /\ authCall'[c].msg = authCall[c].msg
         /\ \A d \in AuthCalls : d # c => authCall'[d] = authCall[d]
<1>1. CASE Matches(c) /\ authCall[c].kind # "verify"
  <2>1. AuthStep(c, "delete")
    BY <1>1 DEF AfterRead
  <2> QED
    BY <1>1, <2>1, StepMoves DEF AuthPlaces
<1>2. CASE ~Matches(c) /\ authCall[c].kind = "signin"
  <2>1. AuthStep(c, "failed")
    BY <1>2 DEF AfterRead
  <2> QED
    BY <2>1, StepMoves DEF AuthPlaces
<1>3. CASE \/ Matches(c) /\ authCall[c].kind = "verify"
           \/ ~Matches(c) /\ authCall[c].kind # "signin"
  <2>1. AuthEnd(c)
    BY <1>3 DEF AfterRead
  <2> QED
    BY <2>1, EndMoves
<1> QED
  BY <1>1, <1>2, <1>3

LEMMA CountMoves ==
  ASSUME authCall \in [AuthCalls -> AuthCallType], NEW c \in AuthCalls, NEW n,
         AfterCount(c, n)
  PROVE  /\ authCall' \in [AuthCalls -> AuthCallType]
         /\ authCall'[c].at \in {"idle", "lock"}
         /\ \A d \in AuthCalls : d # c => authCall'[d] = authCall[d]
BY StepMoves, EndMoves DEF AfterCount, AuthPlaces

-----------------------------------------------------------------------------
(* What each action does to the calls: one of them moves, and only GetNonce brings a
   call to the delete. *)
LEMMA CallsMove ==
  ASSUME authCall \in [AuthCalls -> AuthCallType], issued \in 0..MaxMessages,
         NEW c \in AuthCalls,
         \/ Present(c) \/ DeleteNonce(c) \/ ClearFailed(c)
         \/ Incr(c) \/ ExpireAttempts(c) \/ LockOut(c) \/ DeleteAttempts(c)
         \/ CountInMemory(c) \/ AuthCallDies(c)
  PROVE  /\ authCall' \in [AuthCalls -> AuthCallType]
         /\ authCall'[c].at # "delete"
         /\ \A d \in AuthCalls : d # c => authCall'[d] = authCall[d]
<1> USE WalletAuthAssumption DEF AuthPlaces
<1>1. CASE Present(c)
  <2>1. PICK kind \in Kinds, m \in 0..issued, good \in BOOLEAN :
          authCall' = [authCall EXCEPT ![c] = [kind |-> kind, at |-> "read", msg |-> m,
                                               good |-> good]]
    BY <1>1 DEF Present
  <2>2. [kind |-> kind, at |-> "read", msg |-> m, good |-> good] \in AuthCallType
    BY DEF AuthCallType
  <2> QED
    BY <2>1, <2>2
<1>2. CASE DeleteNonce(c)
  BY <1>2, StepMoves, EndMoves DEF DeleteNonce
<1>3. CASE ClearFailed(c)
  BY <1>3, EndMoves DEF ClearFailed
<1>4. CASE Incr(c)
  BY <1>4, StepMoves, CountMoves DEF Incr
<1>5. CASE ExpireAttempts(c)
  BY <1>5, CountMoves DEF ExpireAttempts
<1>6. CASE LockOut(c)
  BY <1>6, StepMoves DEF LockOut
<1>7. CASE DeleteAttempts(c)
  BY <1>7, EndMoves DEF DeleteAttempts
<1>8. CASE CountInMemory(c)
  BY <1>8, EndMoves DEF CountInMemory
<1>9. CASE AuthCallDies(c)
  BY <1>9, EndMoves DEF AuthCallDies
<1> QED
  BY <1>1, <1>2, <1>3, <1>4, <1>5, <1>6, <1>7, <1>8, <1>9

AuthStart(c) ==
    \/ Present(c) \/ DeleteNonce(c) \/ ClearFailed(c)
    \/ Incr(c) \/ ExpireAttempts(c) \/ LockOut(c) \/ DeleteAttempts(c)
    \/ CountInMemory(c) \/ AuthCallDies(c)

AuthClock == SignMessage \/ NonceExpires \/ AttemptsExpire \/ LockExpires

LEMMA AuthCases ==
  ASSUME AuthNext
  PROVE  AuthClock \/ \E c \in AuthCalls : AuthStart(c) \/ GetNonce(c)
BY DEF AuthNext, AuthClock, AuthStart

LEMMA AuthTypeStep ==
  ASSUME WalletAuthTypeOK, MessagesHold, AuthNext
  PROVE  WalletAuthTypeOK'
<1> USE WalletAuthAssumption
<1>t. /\ redis \in BOOLEAN /\ issued \in 0..MaxMessages /\ stored \in 0..issued
      /\ attempts \in 0..MaxFailed /\ ttl \in BOOLEAN /\ locked \in BOOLEAN
      /\ stranded \in BOOLEAN
      /\ authCall \in [AuthCalls -> AuthCallType]
      /\ used \in [Messages -> Nat] /\ raced \subseteq Messages
  BY DEF WalletAuthTypeOK, AuthCallType, AuthPlaces
<1>s. SUFFICES
      /\ redis' \in BOOLEAN /\ issued' \in 0..MaxMessages /\ stored' \in 0..issued'
      /\ attempts' \in 0..MaxFailed
      /\ ttl' \in BOOLEAN /\ locked' \in BOOLEAN /\ stranded' \in BOOLEAN
      /\ authCall' \in [AuthCalls -> AuthCallType]
      /\ used' \in [Messages -> Nat] /\ raced' \subseteq Messages
  BY DEF WalletAuthTypeOK, AuthCallType, AuthPlaces
<1>c. Count \in 0..MaxFailed
  BY <1>t DEF Count
<1>1. CASE AuthClock
  <2>1. CASE SignMessage
    BY <2>1, <1>t DEF SignMessage
  <2>2. CASE NonceExpires
    BY <2>2, <1>t DEF NonceExpires
  <2>3. CASE AttemptsExpire
    <3>1. ttl' \in BOOLEAN /\ locked' \in BOOLEAN
      BY <2>3, <1>t, Zenon DEF AttemptsExpire
    <3> QED
      BY <2>3, <3>1, <1>t DEF AttemptsExpire
  <2>4. CASE LockExpires
    <3>1. ttl' \in BOOLEAN /\ locked' \in BOOLEAN
      BY <2>4, <1>t, Zenon DEF LockExpires
    <3> QED
      BY <2>4, <3>1, <1>t DEF LockExpires
  <2> QED
    BY <1>1, <2>1, <2>2, <2>3, <2>4 DEF AuthClock
<1>2. ASSUME NEW c \in AuthCalls, AuthStart(c)
      PROVE  /\ redis' \in BOOLEAN /\ issued' \in 0..MaxMessages
             /\ stored' \in 0..issued' /\ attempts' \in 0..MaxFailed
             /\ ttl' \in BOOLEAN /\ locked' \in BOOLEAN /\ stranded' \in BOOLEAN
             /\ authCall' \in [AuthCalls -> AuthCallType]
             /\ used' \in [Messages -> Nat] /\ raced' \subseteq Messages
  <2>0. authCall' \in [AuthCalls -> AuthCallType]
    BY <1>2, <1>t, CallsMove DEF AuthStart
  <2>1. CASE Present(c)
    BY <2>0, <2>1, <1>t DEF Present
  <2>2. CASE DeleteNonce(c)
    <3>1. authCall[c].msg \in Messages
      BY <2>2, <1>t DEF DeleteNonce, MessagesHold, Messages
    <3>2. used' \in [Messages -> Nat]
      BY <2>2, <3>1, <1>t DEF DeleteNonce
    <3> QED
      BY <2>0, <2>2, <3>2, <1>t DEF DeleteNonce, Consumed
  <2>3. CASE ClearFailed(c)
    <3>1. ttl' \in BOOLEAN /\ locked' \in BOOLEAN
      BY <2>3, <1>t, Zenon DEF ClearFailed
    <3> QED
      BY <2>0, <2>3, <3>1, <1>t DEF ClearFailed
  <2>4. CASE Incr(c)
    BY <2>0, <2>4, <1>t, <1>c DEF Incr
  <2>5. CASE ExpireAttempts(c)
    BY <2>0, <2>5, <1>t DEF ExpireAttempts
  <2>6. CASE LockOut(c)
    BY <2>0, <2>6, <1>t DEF LockOut
  <2>7. CASE DeleteAttempts(c)
    <3>1. ttl' \in BOOLEAN /\ locked' \in BOOLEAN
      BY <2>7, <1>t, Zenon DEF DeleteAttempts
    <3> QED
      BY <2>0, <2>7, <3>1, <1>t DEF DeleteAttempts
  <2>8. CASE CountInMemory(c)
    BY <2>0, <2>8, <1>t, <1>c DEF CountInMemory
  <2>9. CASE AuthCallDies(c)
    BY <2>0, <2>9, <1>t DEF AuthCallDies
  <2> QED
    BY <1>2, <2>1, <2>2, <2>3, <2>4, <2>5, <2>6, <2>7, <2>8, <2>9 DEF AuthStart
<1>3. ASSUME NEW c \in AuthCalls, GetNonce(c)
      PROVE  /\ redis' \in BOOLEAN /\ issued' \in 0..MaxMessages
             /\ stored' \in 0..issued' /\ attempts' \in 0..MaxFailed
             /\ ttl' \in BOOLEAN /\ locked' \in BOOLEAN /\ stranded' \in BOOLEAN
             /\ authCall' \in [AuthCalls -> AuthCallType]
             /\ used' \in [Messages -> Nat] /\ raced' \subseteq Messages
  <2>1. authCall' \in [AuthCalls -> AuthCallType]
    BY <1>3, <1>t, ReadMoves DEF GetNonce
  <2>2. raced' \subseteq Messages
    <3>1. ASSUME NEW m \in raced', m \notin raced
          PROVE  m \in Messages
      <4>1. PICK d \in AuthCalls : Deleting(d, m)
        BY <1>3, <3>1 DEF GetNonce, Deleting
      <4> QED
        BY <4>1, <1>t DEF MessagesHold, Deleting, Messages
    <3> QED
      BY <3>1, <1>t
  <2> QED
    BY <1>3, <2>1, <2>2, <1>t DEF GetNonce
<1> QED
  BY AuthCases, <1>1, <1>2, <1>3

-----------------------------------------------------------------------------
(* A step that hands out, stores and spends nothing keeps the books: it may only
   forget what is stored, and calls may only leave the delete. *)
LEMMA FewerDeletes ==
  ASSUME WalletAuthTypeOK, MessagesHold, UNCHANGED <<redis, issued, used, raced>>,
         stored' \in {stored, 0},
         \A d \in AuthCalls : authCall'[d].at = "delete" =>
            authCall[d].at = "delete" /\ authCall'[d].msg = authCall[d].msg
  PROVE  MessagesHold'
<1>1. ASSUME NEW m \in Messages, m \notin raced
      PROVE  Unraced(m)'
  BY <1>1 DEF MessagesHold, Unraced, Deleting, Messages
<1>2. \A c \in AuthCalls : authCall'[c].at = "delete" => authCall'[c].msg \in 1..issued
  BY DEF MessagesHold
<1> QED
  BY <1>1, <1>2 DEF MessagesHold

(* A new message has never been spent, and no call holds it. *)
LEMMA SignMessageHolds ==
  ASSUME WalletAuthTypeOK, MessagesHold, SignMessage
  PROVE  MessagesHold'
<1>1. issued \in Nat /\ issued' = issued + 1 /\ stored' = issued + 1
  BY WalletAuthAssumption DEF SignMessage, WalletAuthTypeOK
<1>2. UNCHANGED <<redis, used, raced, authCall>>
  BY DEF SignMessage
<1>3. \A c \in AuthCalls : ~Deleting(c, issued + 1)
  BY <1>1 DEF MessagesHold, Deleting
<1>4. \A m \in Messages : m \in Int
  BY WalletAuthAssumption DEF Messages
<1>5. ASSUME NEW m \in Messages, m \notin raced
      PROVE  Unraced(m)'
  <2>1. Unraced(m)
    BY <1>5 DEF MessagesHold
  <2>2. m = issued + 1 => used[m] = 0
    BY <1>1, <1>4 DEF MessagesHold
  <2> QED
    BY <1>1, <1>2, <1>3, <2>1, <2>2 DEF Unraced, Deleting
<1>6. \A m \in Messages : m > issued' => used'[m] = 0
  BY <1>1, <1>2, <1>4 DEF MessagesHold
<1>7. \A c \in AuthCalls : authCall'[c].at = "delete" => authCall'[c].msg \in 1..issued'
  BY <1>1, <1>2 DEF MessagesHold
<1> QED
  BY <1>2, <1>5, <1>6, <1>7 DEF MessagesHold

(* A call that reads the stored message while another is about to delete it makes
   the message raced; otherwise it is the only one to hold it. *)
LEMMA GetNonceHolds ==
  ASSUME WalletAuthTypeOK, MessagesHold, NEW c \in AuthCalls, GetNonce(c)
  PROVE  MessagesHold'
<1> USE WalletAuthAssumption
<1>t. /\ authCall \in [AuthCalls -> AuthCallType] /\ stored \in 0..issued
      /\ issued \in 0..MaxMessages /\ used \in [Messages -> Nat]
  BY DEF WalletAuthTypeOK, AuthCallType, AuthPlaces
<1>0. UNCHANGED <<redis, issued, used>>
  BY DEF GetNonce
<1>1. /\ \A d \in AuthCalls : d # c => authCall'[d] = authCall[d]
      /\ authCall'[c].at = "delete" =>
            stored # 0 /\ authCall[c].msg = stored /\ authCall'[c].msg = stored
  BY <1>t, ReadMoves DEF GetNonce, Matches
<1>2. raced \subseteq raced' /\ authCall[c].at = "read"
  BY DEF GetNonce
<1>3. stored \notin raced' => \A d \in AuthCalls \ {c} : ~Deleting(d, stored)
  BY DEF GetNonce, Deleting
<1>4. ASSUME NEW m \in Messages, m \notin raced'
      PROVE  Unraced(m)'
  <2>1. Unraced(m) /\ m \in Int /\ m # 0
    BY <1>2, <1>4 DEF MessagesHold, Messages
  <2>2. CASE m = stored /\ authCall'[c].at = "delete"
    <3>1. \A d \in AuthCalls : Deleting(d, m)' => d = c
      BY <1>1, <1>3, <1>4, <2>2 DEF Deleting
    <3>2. used[m] = 0
      BY <2>1, <2>2, <1>t DEF Unraced
    <3>3. ~redis => stored' # m
      BY <2>1 DEF GetNonce
    <3> QED
      BY <1>0, <3>1, <3>2, <3>3 DEF Unraced
  <2>3. CASE ~(m = stored /\ authCall'[c].at = "delete")
    <3>1. \A d \in AuthCalls : Deleting(d, m)' => Deleting(d, m)
      BY <1>1, <2>3 DEF Deleting
    <3>2. stored' \in {stored, 0}
      BY DEF GetNonce
    <3> QED
      BY <1>0, <2>1, <3>1, <3>2 DEF Unraced
  <2> QED
    BY <2>2, <2>3
<1>5. \A d \in AuthCalls : authCall'[d].at = "delete" => authCall'[d].msg \in 1..issued
  BY <1>1, <1>t DEF MessagesHold
<1>6. ~redis => raced' = {}
  <2> SUFFICES ASSUME ~redis, NEW m \in raced' PROVE FALSE
    OBVIOUS
  <2>1. raced = {}
    BY DEF MessagesHold
  <2>2. PICK d \in AuthCalls : Deleting(d, m) /\ m = stored
    BY <2>1 DEF GetNonce, Deleting
  <2>3. m \in Messages /\ Unraced(m)
    BY <2>1, <2>2, <1>t DEF MessagesHold, Deleting, Messages
  <2> QED
    BY <2>2, <2>3 DEF Unraced
<1> QED
  BY <1>0, <1>4, <1>5, <1>6 DEF MessagesHold

(* The delete spends the message of the one call that holds it. *)
LEMMA DeleteNonceHolds ==
  ASSUME WalletAuthTypeOK, MessagesHold, NEW c \in AuthCalls, DeleteNonce(c)
  PROVE  MessagesHold'
<1> USE WalletAuthAssumption
<1> DEFINE n == authCall[c].msg
<1>t. /\ authCall \in [AuthCalls -> AuthCallType]
      /\ issued \in 0..MaxMessages /\ used \in [Messages -> Nat]
  BY DEF WalletAuthTypeOK, AuthCallType, AuthPlaces
<1>0. /\ UNCHANGED <<redis, issued, raced>> /\ stored' = 0
      /\ used' = [used EXCEPT ![n] = @ + 1]
  BY DEF DeleteNonce, Consumed
<1>1. Deleting(c, n) /\ n \in 1..issued
  BY DEF DeleteNonce, Deleting, MessagesHold
<1>2. /\ authCall'[c].at # "delete"
      /\ \A d \in AuthCalls : d # c => authCall'[d] = authCall[d]
  BY <1>t, CallsMove
<1>3. \A d \in AuthCalls, m \in Messages : Deleting(d, m)' => d # c /\ Deleting(d, m)
  BY <1>2 DEF Deleting
<1>4. ASSUME NEW m \in Messages, m \notin raced'
      PROVE  Unraced(m)'
  <2>1. Unraced(m) /\ m # 0
    BY <1>0, <1>4 DEF MessagesHold, Messages
  <2>2. CASE m = n
    <3>1. used[m] = 0
      BY <1>1, <2>1, <2>2, <1>t DEF Unraced
    <3>2. used'[m] = 1
      BY <1>0, <3>1, <2>2, <1>t
    <3>3. \A d \in AuthCalls : ~Deleting(d, m)'
      BY <1>1, <1>3, <2>1, <2>2 DEF Unraced
    <3> QED
      BY <1>0, <2>1, <3>2, <3>3 DEF Unraced
  <2>3. CASE m # n
    <3>1. used'[m] = used[m]
      BY <1>0, <2>3, <1>t
    <3> QED
      BY <1>0, <1>3, <2>1, <3>1 DEF Unraced
  <2> QED
    BY <2>2, <2>3
<1>5. ASSUME NEW m \in Messages, m > issued'
      PROVE  used'[m] = 0
  <2>1. m # n /\ used[m] = 0
    BY <1>0, <1>1, <1>5, <1>t DEF MessagesHold, Messages
  <2> QED
    BY <1>0, <2>1, <1>t
<1>6. \A d \in AuthCalls : authCall'[d].at = "delete" => authCall'[d].msg \in 1..issued'
  BY <1>0, <1>2 DEF MessagesHold
<1>7. ~redis' => raced' = {}
  BY <1>0 DEF MessagesHold
<1> QED
  BY <1>4, <1>5, <1>6, <1>7 DEF MessagesHold

LEMMA MessagesStep ==
  ASSUME WalletAuthTypeOK, MessagesHold, AuthNext
  PROVE  MessagesHold'
<1>t. authCall \in [AuthCalls -> AuthCallType] /\ issued \in 0..MaxMessages
  BY DEF WalletAuthTypeOK, AuthCallType, AuthPlaces
<1>1. CASE SignMessage
  BY <1>1, SignMessageHolds
<1>2. CASE NonceExpires \/ AttemptsExpire \/ LockExpires
  BY <1>2, FewerDeletes DEF NonceExpires, AttemptsExpire, LockExpires
<1>3. ASSUME NEW c \in AuthCalls, AuthStart(c)
      PROVE  MessagesHold'
  <2>1. CASE DeleteNonce(c)
    BY <2>1, DeleteNonceHolds
  <2>2. CASE ~DeleteNonce(c)
    <3>1. /\ authCall'[c].at # "delete"
          /\ \A d \in AuthCalls : d # c => authCall'[d] = authCall[d]
      BY <1>3, <1>t, CallsMove DEF AuthStart
    <3>2. UNCHANGED <<redis, issued, used, raced, stored>>
      BY <1>3, <2>2 DEF AuthStart, Present, ClearFailed, Incr, ExpireAttempts, LockOut,
                        DeleteAttempts, CountInMemory, AuthCallDies
    <3> QED
      BY <3>1, <3>2, FewerDeletes
  <2> QED
    BY <2>1, <2>2
<1>4. ASSUME NEW c \in AuthCalls, GetNonce(c)
      PROVE  MessagesHold'
  BY <1>4, GetNonceHolds
<1> QED
  BY AuthCases, <1>1, <1>2, <1>3, <1>4 DEF AuthClock

-----------------------------------------------------------------------------
(* The counter starts at 1 in the hands of a call that sets its time to live. *)
LEMMA CounterStep ==
  ASSUME WalletAuthTypeOK, CounterHasDeadline, AuthNext
  PROVE  CounterHasDeadline'
<1> USE WalletAuthAssumption
<1>t. /\ authCall \in [AuthCalls -> AuthCallType] /\ issued \in 0..MaxMessages
      /\ attempts \in 0..MaxFailed
  BY DEF WalletAuthTypeOK, AuthCallType, AuthPlaces
<1>1. CASE SignMessage \/ NonceExpires
  BY <1>1 DEF SignMessage, NonceExpires, CounterHasDeadline
<1>2. CASE AttemptsExpire \/ LockExpires
  <2>1. CASE AttemptsExpire
    <3>1. attempts' = 0
      BY <2>1, Zenon DEF AttemptsExpire
    <3> QED
      BY <3>1 DEF CounterHasDeadline
  <2>2. CASE LockExpires
    <3>1. /\ UNCHANGED <<redis, ttl, stranded, authCall>>
          /\ attempts' = IF redis THEN attempts ELSE 0
      BY <2>2, Zenon DEF LockExpires
    <3> QED
      BY <3>1 DEF CounterHasDeadline
  <2> QED
    BY <1>2, <2>1, <2>2
<1>3. ASSUME NEW c \in AuthCalls, GetNonce(c)
      PROVE  CounterHasDeadline'
  <2>1. \A d \in AuthCalls : authCall[d].at = "expire" => authCall'[d] = authCall[d]
    BY <1>3, <1>t, ReadMoves DEF GetNonce
  <2> QED
    BY <1>3, <2>1 DEF GetNonce, CounterHasDeadline
<1>4. ASSUME NEW c \in AuthCalls, AuthStart(c)
      PROVE  CounterHasDeadline'
  <2>0. \A d \in AuthCalls : d # c => authCall'[d] = authCall[d]
    BY <1>4, <1>t, CallsMove DEF AuthStart
  <2>1. CASE Incr(c)
    <3>1. redis /\ UNCHANGED <<redis, ttl, stranded>> /\ attempts' = Count
          /\ authCall[c].at = "failed"
      BY <2>1 DEF Incr
    <3>2. CASE attempts = 0
      <4>1. AuthStep(c, "expire")
        BY <2>1, <3>2 DEF Incr, Count, SetsTtl
      <4>2. authCall'[c].at = "expire"
        BY <4>1, <1>t, StepMoves DEF AuthPlaces
      <4> QED
        BY <4>2 DEF CounterHasDeadline
    <3>3. CASE attempts > 0
      BY <2>0, <3>1, <3>3 DEF CounterHasDeadline
    <3> QED
      BY <3>2, <3>3, <1>t
  <2>2. CASE ExpireAttempts(c)
    BY <2>2 DEF ExpireAttempts, CounterHasDeadline
  <2>3. CASE ClearFailed(c) \/ DeleteAttempts(c) \/ CountInMemory(c)
    <3>1. attempts' = 0 \/ ~redis'
      BY <2>3, Zenon DEF ClearFailed, DeleteAttempts, CountInMemory
    <3> QED
      BY <3>1 DEF CounterHasDeadline
  <2>4. CASE Present(c) \/ DeleteNonce(c) \/ LockOut(c)
    <3>1. authCall[c].at # "expire" /\ UNCHANGED <<redis, attempts, ttl, stranded>>
      BY <2>4 DEF Present, DeleteNonce, LockOut
    <3> QED
      BY <2>0, <3>1 DEF CounterHasDeadline
  <2>5. CASE AuthCallDies(c)
    BY <2>0, <2>5 DEF AuthCallDies, CounterHasDeadline
  <2> QED
    BY <1>4, <2>1, <2>2, <2>3, <2>4, <2>5 DEF AuthStart
<1> QED
  BY AuthCases, <1>1, <1>2, <1>3, <1>4 DEF AuthClock

-----------------------------------------------------------------------------
LEMMA AuthStarts ==
  ASSUME NEW stores, stores \subseteq BOOLEAN, AuthInit(stores)
  PROVE  AuthIInv
<1> USE WalletAuthAssumption
<1>1. Waiting \in AuthCallType /\ Waiting.at = "idle"
  BY DEF Waiting, AuthCallType, Kinds, AuthPlaces
<1>2. /\ redis \in BOOLEAN /\ stored = 0 /\ issued = 0 /\ attempts = 0
      /\ authCall = [c \in AuthCalls |-> Waiting] /\ used = [m \in Messages |-> 0]
      /\ raced = {}
  BY Zenon DEF AuthInit
<1>3. ttl \in BOOLEAN /\ locked \in BOOLEAN /\ stranded \in BOOLEAN
  BY Zenon DEF AuthInit
<1>4. WalletAuthTypeOK
  <2>1. authCall \in [AuthCalls -> AuthCallType] /\ used \in [Messages -> Nat]
    BY <1>1, <1>2
  <2> QED
    BY <1>2, <1>3, <2>1 DEF WalletAuthTypeOK, AuthCallType, AuthPlaces
<1>5. MessagesHold
  <2>1. \A c \in AuthCalls : authCall[c].at = "idle"
    BY <1>1, <1>2
  <2> QED
    BY <1>2, <2>1 DEF MessagesHold, Unraced, Deleting, Messages
<1>6. CounterHasDeadline
  BY <1>2 DEF CounterHasDeadline
<1> QED
  BY <1>4, <1>5, <1>6 DEF AuthIInv

LEMMA AuthKeeps ==
  ASSUME AuthIInv, [AuthNext]_authVars
  PROVE  AuthIInv'
<1>1. CASE AuthNext
  BY <1>1, AuthTypeStep, MessagesStep, CounterStep DEF AuthIInv
<1>2. CASE UNCHANGED authVars
  BY <1>2 DEF authVars, AuthIInv, WalletAuthTypeOK, MessagesHold, Unraced, Deleting,
              CounterHasDeadline
<1> QED
  BY <1>1, <1>2

LEMMA SpentOnce == AuthIInv => NonceSpentOnce
<1> SUFFICES ASSUME AuthIInv, NEW m \in Messages
             PROVE  /\ used[m] > 1 => redis /\ m \in raced
                    /\ used[m] > 0 /\ stored = m => m \in raced
  BY DEF NonceSpentOnce
<1>1. used[m] \in Nat
  BY DEF AuthIInv, WalletAuthTypeOK
<1>2. m \notin raced => Unraced(m)
  BY DEF AuthIInv, MessagesHold
<1>3. ~redis => m \notin raced
  BY DEF AuthIInv, MessagesHold
<1> QED
  BY <1>1, <1>2, <1>3 DEF Unraced

\* However many calls present a message, it lets one through, unless on Redis another
\* read it before the first had deleted it; and a spent message is not accepted again
\* (auth-options.ts:60-75, nonce-store.ts:42-69).
THEOREM NonceCorrect ==
  ASSUME NEW CONSTANT stores, stores \subseteq BOOLEAN
  PROVE  AuthSpec(stores) => []NonceSpentOnce
<1>1. AuthInit(stores) => AuthIInv
  BY AuthStarts
<1>2. AuthIInv /\ [AuthNext]_authVars => AuthIInv'
  BY AuthKeeps
<1>3. AuthIInv => NonceSpentOnce
  BY SpentOnce
<1> QED
  BY <1>1, <1>2, <1>3, PTL DEF AuthSpec

\* No counter of failed attempts on Redis lives for ever, unless a call died between
\* incr and expire (lockout.ts:62-66).
THEOREM CounterCorrect ==
  ASSUME NEW CONSTANT stores, stores \subseteq BOOLEAN
  PROVE  AuthSpec(stores) => []CounterHasDeadline
<1>1. AuthInit(stores) => AuthIInv
  BY AuthStarts
<1>2. AuthIInv /\ [AuthNext]_authVars => AuthIInv'
  BY AuthKeeps
<1>3. AuthIInv => CounterHasDeadline
  BY DEF AuthIInv
<1> QED
  BY <1>1, <1>2, <1>3, PTL DEF AuthSpec

-----------------------------------------------------------------------------
(* The whitelist. *)

\* LastAdminStays alone is not inductive: a commit must know that what it saw is
\* still there.
WhitelistIInv == WhitelistTypeOK /\ LastAdminStays /\ SnapshotHolds

LEMMA WhitelistStarts ==
  ASSUME NEW lists, \A l \in lists : l # {} /\ l \subseteq Admins,
         WhitelistInit(lists)
  PROVE  WhitelistIInv
BY WhitelistAssumption
DEF WhitelistInit, WhitelistIInv, WhitelistTypeOK, LastAdminStays, SnapshotHolds, NoCall

CallType == [at : {"idle", "add", "begin", "decide"}, who : SUBSET Admins,
             target : SUBSET Admins, try : 1..MaxTries, seen : SUBSET Admins,
             stale : BOOLEAN]

(* The calls stay well typed, and the whitelist a set of administrators. *)
LEMMA WhitelistTypeStep ==
  ASSUME WhitelistTypeOK, WhitelistNext
  PROVE  WhitelistTypeOK'
<1> USE WhitelistAssumption
<1>0. PICK c \in AdminCalls :
        \/ StartAdminCall(c) \/ AddAdmin(c) \/ BeginRemoval(c)
        \/ RefuseRemoval(c) \/ RetryRemoval(c) \/ CommitRemoval(c)
  BY DEF WhitelistNext
<1>t. whitelist \subseteq Admins /\ adminCall \in [AdminCalls -> CallType]
  BY DEF WhitelistTypeOK, CallType
<1>n. NoCall \in CallType
  BY DEF NoCall, CallType
<1>s. SUFFICES whitelist' \subseteq Admins /\ adminCall' \in [AdminCalls -> CallType]
  BY DEF WhitelistTypeOK, CallType
<1>1. CASE StartAdminCall(c)
  <2>1. PICK a \in Admins, b \in Admins, place \in {"begin", "add"} :
          adminCall' = [adminCall EXCEPT ![c] = [NoCall EXCEPT
                          !.at = place, !.who = {a}, !.target = {b}]]
    BY <1>1 DEF StartAdminCall
  <2>2. [NoCall EXCEPT !.at = place, !.who = {a}, !.target = {b}] \in CallType
    BY <1>n DEF CallType
  <2>3. UNCHANGED whitelist
    BY <1>1 DEF StartAdminCall
  <2> QED
    BY <2>1, <2>2, <2>3, <1>t
<1>2. CASE AddAdmin(c)
  <2>1. adminCall[c].target \subseteq Admins
    BY <1>t DEF CallType
  <2> QED
    BY <1>2, <2>1, <1>n, <1>t DEF AddAdmin
<1>3. CASE BeginRemoval(c)
  <2>1. [adminCall[c] EXCEPT !.at = "decide", !.seen = whitelist, !.stale = FALSE]
          \in CallType
    BY <1>t DEF CallType
  <2>2. adminCall' = [adminCall EXCEPT ![c] =
          [adminCall[c] EXCEPT !.at = "decide", !.seen = whitelist, !.stale = FALSE]]
    BY <1>3, <1>t DEF BeginRemoval
  <2> QED
    BY <1>3, <2>1, <2>2, <1>t DEF BeginRemoval
<1>4. CASE RefuseRemoval(c)
  BY <1>4, <1>n, <1>t DEF RefuseRemoval
<1>5. CASE RetryRemoval(c)
  <2>1. CASE adminCall[c].try < MaxTries
    <3> DEFINE next == [adminCall[c] EXCEPT !.at = "begin", !.try = adminCall[c].try + 1,
                                            !.seen = {}, !.stale = FALSE]
    <3>1. adminCall[c].try + 1 \in 1..MaxTries
      BY <2>1, <1>t DEF CallType
    <3>2. adminCall[c] \in CallType
      BY <1>t
    <3>3. next \in CallType
      BY <3>1, <3>2 DEF CallType
    <3>4. adminCall' = [adminCall EXCEPT ![c] = next]
      BY <1>5, <2>1 DEF RetryRemoval
    <3> HIDE DEF next
    <3> QED
      BY <1>5, <3>3, <3>4, <1>t DEF RetryRemoval
  <2>2. CASE ~(adminCall[c].try < MaxTries)
    <3>1. adminCall' = [adminCall EXCEPT ![c] = NoCall]
      BY <1>5, <2>2 DEF RetryRemoval
    <3> QED
      BY <1>5, <3>1, <1>n, <1>t DEF RetryRemoval
  <2> QED
    BY <2>1, <2>2
<1>6. CASE CommitRemoval(c)
  <2> DEFINE next(d) == [adminCall[d] EXCEPT !.stale = @ \/ adminCall[d].at = "decide"]
  <2>1. ASSUME NEW d \in AdminCalls
        PROVE  next(d) \in CallType
    BY <1>t DEF CallType
  <2>2. adminCall' = [d \in AdminCalls |-> IF d = c THEN NoCall ELSE next(d)]
    BY <1>6 DEF CommitRemoval
  <2> HIDE DEF next
  <2> QED
    BY <1>6, <2>1, <2>2, <1>n, <1>t DEF CommitRemoval
<1> QED
  BY <1>0, <1>1, <1>2, <1>3, <1>4, <1>5, <1>6

(* A removal that commits leaves a row: one that it saw, did not ask for, and that
   no other removal has taken since. *)
LEMMA CommitLeavesOne ==
  ASSUME WhitelistIInv, NEW c \in AdminCalls, CommitRemoval(c)
  PROVE  LastAdminStays'
<1>1. adminCall[c].seen \ adminCall[c].target # {}
  BY DEF CommitRemoval, Refuses
<1>2. adminCall[c].seen \subseteq whitelist
  BY DEF WhitelistIInv, SnapshotHolds, CommitRemoval, Conflict
<1> QED
  BY <1>1, <1>2 DEF CommitRemoval, LastAdminStays

LEMMA LastAdminStep ==
  ASSUME WhitelistIInv, WhitelistNext
  PROVE  LastAdminStays'
<1>0. PICK c \in AdminCalls :
        \/ StartAdminCall(c) \/ AddAdmin(c) \/ BeginRemoval(c)
        \/ RefuseRemoval(c) \/ RetryRemoval(c) \/ CommitRemoval(c)
  BY DEF WhitelistNext
<1>1. CASE AddAdmin(c)
  BY <1>1 DEF AddAdmin, WhitelistIInv, LastAdminStays
<1>2. CASE CommitRemoval(c)
  BY <1>2, CommitLeavesOne
<1>3. CASE StartAdminCall(c) \/ BeginRemoval(c) \/ RefuseRemoval(c) \/ RetryRemoval(c)
  BY <1>3 DEF StartAdminCall, BeginRemoval, RefuseRemoval, RetryRemoval,
              WhitelistIInv, LastAdminStays
<1> QED
  BY <1>0, <1>1, <1>2, <1>3

(* A commit marks every other removal that is between its snapshot and its own
   commit; nothing else takes a row away. *)
LEMMA SnapshotStep ==
  ASSUME WhitelistIInv, WhitelistNext
  PROVE  SnapshotHolds'
<1> USE WhitelistAssumption
<1>0. PICK c \in AdminCalls :
        \/ StartAdminCall(c) \/ AddAdmin(c) \/ BeginRemoval(c)
        \/ RefuseRemoval(c) \/ RetryRemoval(c) \/ CommitRemoval(c)
  BY DEF WhitelistNext
<1>t. WhitelistTypeOK /\ SnapshotHolds
  BY DEF WhitelistIInv
<1>1. CASE StartAdminCall(c)
  BY <1>1, <1>t DEF StartAdminCall, WhitelistTypeOK, SnapshotHolds, NoCall
<1>2. CASE AddAdmin(c)
  BY <1>2, <1>t DEF AddAdmin, WhitelistTypeOK, SnapshotHolds, NoCall
<1>3. CASE BeginRemoval(c)
  BY <1>3, <1>t DEF BeginRemoval, WhitelistTypeOK, SnapshotHolds
<1>4. CASE RefuseRemoval(c)
  BY <1>4, <1>t DEF RefuseRemoval, WhitelistTypeOK, SnapshotHolds, NoCall
<1>5. CASE RetryRemoval(c)
  BY <1>5, <1>t DEF RetryRemoval, WhitelistTypeOK, SnapshotHolds, NoCall
<1>6. CASE CommitRemoval(c)
  <2> SUFFICES ASSUME NEW d \in AdminCalls,
                      adminCall'[d].at = "decide", ~adminCall'[d].stale
               PROVE  FALSE
    BY DEF SnapshotHolds
  <2>1. d # c
    BY <1>6 DEF CommitRemoval, NoCall
  <2>2. adminCall'[d] = [adminCall[d] EXCEPT !.stale = @ \/ adminCall[d].at = "decide"]
    BY <1>6, <2>1 DEF CommitRemoval
  <2>3. adminCall'[d].at = adminCall[d].at
    BY <2>2, <1>t DEF WhitelistTypeOK
  <2>4. adminCall'[d].stale
    BY <2>2, <2>3, <1>t DEF WhitelistTypeOK
  <2> QED
    BY <2>4
<1> QED
  BY <1>0, <1>1, <1>2, <1>3, <1>4, <1>5, <1>6

\* However many administrators remove one another at the same time, retry, add others
\* or stop being administrators themselves meanwhile, the database always names at
\* least one (whitelist/[id]/route.ts:36-96).
THEOREM LastAdminCorrect ==
  ASSUME NEW CONSTANT lists, \A l \in lists : l # {} /\ l \subseteq Admins
  PROVE  WhitelistSpec(lists) => []LastAdminStays
<1>1. WhitelistInit(lists) => WhitelistIInv
  BY WhitelistStarts
<1>2. WhitelistIInv /\ [WhitelistNext]_adminVars => WhitelistIInv'
  <2>1. CASE WhitelistNext
    BY <2>1, WhitelistTypeStep, LastAdminStep, SnapshotStep DEF WhitelistIInv
  <2>2. CASE UNCHANGED adminVars
    BY <2>2 DEF adminVars, WhitelistIInv, WhitelistTypeOK, LastAdminStays, SnapshotHolds
  <2> QED
    BY <2>1, <2>2
<1>3. WhitelistIInv => LastAdminStays
  BY DEF WhitelistIInv
<1> QED
  BY <1>1, <1>2, <1>3, PTL DEF WhitelistSpec

-----------------------------------------------------------------------------
(* Profiles and linked accounts. *)

LinkPlaces == {"idle", "email", "create", "link", "address", "compare", "both", "remove", "clear"}

LinkCallType == [does : {"nothing", "signin", "add", "attach", "unlink"}, at : LinkPlaces,
                 who : Profiles \cup {Nobody}, id : Accounts \cup {"wallet", Nobody}]

(* What a call holds at each place. *)
LinkStanding ==
  {r \in LinkCallType :
     /\ r.at \in {"email", "create"} => r.does = "signin" /\ r.id \in Accounts
     /\ r.at = "link" => /\ r.does \in {"signin", "add"} /\ r.who \in Profiles
                         /\ r.id \in IF r.does = "signin" THEN Accounts ELSE Wallets
     /\ r.at \in {"address", "compare", "both"} => r.who \in Profiles /\ r.id \in Wallets
     /\ r.at \in {"remove", "clear"} => r.who \in Profiles /\ r.id \in {Google, "wallet"}}

LinkTypes ==
  /\ profile \in [Profiles -> {"none", "live", "deleted", "gone"}]
  /\ address \in [Profiles -> Wallets \cup {Nobody}]
  /\ emailed \subseteq Profiles
  /\ link \in [Accounts -> Profiles \cup {Nobody}]
  /\ crossed \in BOOLEAN /\ born \subseteq Profiles /\ exposed \subseteq Profiles
  /\ linkCall \in [LinkCalls -> LinkStanding]

(* One call moves to r. *)
LinkMoves(c, r) == linkCall' = [linkCall EXCEPT ![c] = r]

LEMMA LinkMoved ==
  ASSUME LinkTypes, NEW c \in LinkCalls, NEW r \in LinkStanding, LinkMoves(c, r)
  PROVE  /\ linkCall' \in [LinkCalls -> LinkStanding]
         /\ linkCall'[c] = r
         /\ \A d \in LinkCalls : d # c => linkCall'[d] = linkCall[d]
BY DEF LinkTypes, LinkMoves

LEMMA QuietStands == Quiet \in LinkStanding /\ Quiet.at = "idle"
BY DEF Quiet, LinkStanding, LinkCallType, LinkPlaces


Moved(c, pl) == [linkCall[c] EXCEPT !.at = pl]
Linking(c, p) == [linkCall[c] EXCEPT !.at = "link", !.who = p]

LEMMA StandingMoves ==
  ASSUME LinkTypes, NEW c \in LinkCalls
  PROVE  /\ linkCall[c] \in LinkStanding
         /\ \A pl \in LinkPlaces : /\ Moved(c, pl) \in LinkCallType
                                   /\ Moved(c, pl).at = pl /\ Moved(c, pl).does = linkCall[c].does
                                   /\ Moved(c, pl).who = linkCall[c].who /\ Moved(c, pl).id = linkCall[c].id
         /\ \A p \in Profiles : /\ Linking(c, p) \in LinkCallType
                                /\ Linking(c, p).at = "link" /\ Linking(c, p).does = linkCall[c].does
                                /\ Linking(c, p).who = p /\ Linking(c, p).id = linkCall[c].id
<1>1. linkCall[c] \in LinkStanding /\ linkCall[c] \in LinkCallType
  BY DEF LinkTypes, LinkStanding
<1>2. ASSUME NEW r \in LinkCallType, NEW pl \in LinkPlaces
      PROVE  /\ [r EXCEPT !.at = pl] \in LinkCallType
             /\ [r EXCEPT !.at = pl].at = pl /\ [r EXCEPT !.at = pl].does = r.does
             /\ [r EXCEPT !.at = pl].who = r.who /\ [r EXCEPT !.at = pl].id = r.id
  BY DEF LinkCallType
<1>3. ASSUME NEW r \in LinkCallType, NEW p \in Profiles
      PROVE  /\ [r EXCEPT !.at = "link", !.who = p] \in LinkCallType
             /\ [r EXCEPT !.at = "link", !.who = p].at = "link"
             /\ [r EXCEPT !.at = "link", !.who = p].does = r.does
             /\ [r EXCEPT !.at = "link", !.who = p].who = p
             /\ [r EXCEPT !.at = "link", !.who = p].id = r.id
  BY DEF LinkCallType, LinkPlaces
<1>4. ASSUME NEW pl \in LinkPlaces
      PROVE  /\ Moved(c, pl) \in LinkCallType
             /\ Moved(c, pl).at = pl /\ Moved(c, pl).does = linkCall[c].does
             /\ Moved(c, pl).who = linkCall[c].who /\ Moved(c, pl).id = linkCall[c].id
  BY <1>1, <1>2, <1>4 DEF Moved
<1>5. ASSUME NEW p \in Profiles
      PROVE  /\ Linking(c, p) \in LinkCallType
             /\ Linking(c, p).at = "link" /\ Linking(c, p).does = linkCall[c].does
             /\ Linking(c, p).who = p /\ Linking(c, p).id = linkCall[c].id
  BY <1>1, <1>3, <1>5 DEF Linking
<1> QED
  BY <1>1, <1>4, <1>5

LEMMA FinishMoves ==
  ASSUME LinkTypes, NEW c \in LinkCalls, Finish(c) \/ BreakOff(c)
  PROVE  LinkMoves(c, Quiet)
BY DEF Finish, BreakOff, LinkMoves

LEMMA GotoMoves ==
  ASSUME LinkTypes, NEW c \in LinkCalls, NEW pl \in LinkPlaces, Goto(c, pl)
  PROVE  LinkMoves(c, Moved(c, pl))
BY DEF Goto, LinkMoves, Moved, LinkTypes

(* A call that starts. *)
SomethingBegun(c) ==
  \E r \in LinkStanding :
    /\ LinkMoves(c, r) /\ LinkIdle(c)
    /\ crossed' = (crossed \/ \E d \in LinkCalls : ~LinkIdle(d))
    /\ r.at \in {"email", "create", "link", "compare", "remove"}
    /\ r.at = "remove" => CountLinks(c) /\ profile[r.who] = "live" /\ ~TooFew(Cardinality(LinksOf(r.who)))
                          /\ exposed' = exposed \cup {q \in {r.who} : \E d \in LinkCalls :
                                linkCall[d].at = "remove" /\ linkCall[d].who = q}
    /\ r.at # "remove" => UNCHANGED exposed
    /\ UNCHANGED <<profile, address, emailed, link, born>>

LEMMA StartMeans ==
  ASSUME LinkTypes, NEW c \in LinkCalls, SignIn(c) \/ LinkWallet(c) \/ CountLinks(c)
  PROVE  SomethingBegun(c)
<1>1. CASE SignIn(c)
  <2>1. PICK a \in Accounts : Start(c, "signin", IF a = Google THEN "email" ELSE "create", Nobody, a)
    BY <1>1 DEF SignIn
  <2> DEFINE r == [does |-> "signin", at |-> IF a = Google THEN "email" ELSE "create", who |-> Nobody, id |-> a]
  <2>2. r \in LinkStanding /\ r.at \in {"email", "create"}
    BY DEF LinkStanding, LinkCallType, LinkPlaces
  <2>3. LinkMoves(c, r) /\ crossed' = (crossed \/ \E d \in LinkCalls : ~LinkIdle(d))
    BY <2>1 DEF Start, LinkMoves
  <2> HIDE DEF r
  <2> QED
    BY <1>1, <2>2, <2>3 DEF SignIn, SomethingBegun
<1>2. CASE LinkWallet(c)
  <2>1. PICK p \in Profiles, w \in Wallets, does \in {"add", "attach"} :
          Start(c, does, IF does = "add" THEN "link" ELSE "compare", p, w)
    BY <1>2 DEF LinkWallet
  <2> DEFINE r == [does |-> does, at |-> IF does = "add" THEN "link" ELSE "compare", who |-> p, id |-> w]
  <2>2. r \in LinkStanding /\ r.at \in {"link", "compare"}
    BY DEF LinkStanding, LinkCallType, LinkPlaces, Accounts
  <2>3. LinkMoves(c, r) /\ crossed' = (crossed \/ \E d \in LinkCalls : ~LinkIdle(d))
    BY <2>1 DEF Start, LinkMoves
  <2> HIDE DEF r
  <2> QED
    BY <1>2, <2>2, <2>3 DEF LinkWallet, SomethingBegun
<1>3. CASE CountLinks(c)
  <2>1. PICK p \in Profiles, a \in {Google, "wallet"} :
          /\ profile[p] = "live" /\ ~TooFew(Cardinality(LinksOf(p)))
          /\ Start(c, "unlink", "remove", p, a)
          /\ exposed' = exposed \cup {q \in {p} : \E d \in LinkCalls :
                                         linkCall[d].at = "remove" /\ linkCall[d].who = q}
    BY <1>3 DEF CountLinks
  <2> DEFINE r == [does |-> "unlink", at |-> "remove", who |-> p, id |-> a]
  <2>2. r \in LinkStanding /\ r.at = "remove" /\ r.who = p
    BY DEF LinkStanding, LinkCallType, LinkPlaces, Accounts
  <2>3. LinkMoves(c, r) /\ crossed' = (crossed \/ \E d \in LinkCalls : ~LinkIdle(d))
    BY <2>1 DEF Start, LinkMoves
  <2> HIDE DEF r
  <2> QED
    BY <1>3, <2>1, <2>2, <2>3 DEF CountLinks, SomethingBegun
<1> QED
  BY <1>1, <1>2, <1>3

(* A call under way: where it goes next. *)
Goes(c, r) == r \in LinkStanding /\ LinkMoves(c, r)

Broken(c) ==
  /\ Goes(c, Quiet) /\ crossed' = TRUE
  /\ UNCHANGED <<profile, address, emailed, link, born, exposed>>

LEMMA FindMeans ==
  ASSUME LinkTypes, NEW c \in LinkCalls, FindByEmail(c)
  PROVE  \E r : /\ Goes(c, r) /\ r.at \in {"create", "link"} /\ r.does = "signin"
                /\ UNCHANGED <<profile, address, emailed, link, crossed, born, exposed>>
<1>0. /\ linkCall[c] \in LinkStanding /\ linkCall[c].at = "email"
      /\ linkCall[c].does = "signin" /\ linkCall[c].id \in Accounts
      /\ emailed \subseteq Profiles
  BY StandingMoves DEF FindByEmail, LinkStanding, LinkTypes
<1>1. ASSUME NEW p \in emailed, linkCall' = [linkCall EXCEPT ![c].at = "link", ![c].who = p]
      PROVE  Goes(c, Linking(c, p))
  <2>1. LinkMoves(c, Linking(c, p))
    BY <1>1 DEF LinkMoves, Linking, LinkTypes
  <2>2. Linking(c, p) \in LinkStanding
    BY <1>0, StandingMoves DEF LinkStanding
  <2> QED
    BY <2>1, <2>2 DEF Goes
<1>2. ASSUME Goto(c, "create")
      PROVE  Goes(c, Moved(c, "create"))
  <2>1. Moved(c, "create") \in LinkStanding
    BY <1>0, StandingMoves DEF LinkStanding, LinkPlaces
  <2> QED
    BY <1>2, <2>1, GotoMoves DEF Goes, LinkPlaces
<1>3. (\E p \in emailed : linkCall' = [linkCall EXCEPT ![c].at = "link", ![c].who = p]) \/ Goto(c, "create")
  BY DEF FindByEmail
<1>4. UNCHANGED <<profile, address, emailed, link, crossed, born, exposed>>
  BY DEF FindByEmail
<1>5. /\ \A p \in Profiles : Linking(c, p).at = "link" /\ Linking(c, p).does = "signin"
      /\ Moved(c, "create").at = "create" /\ Moved(c, "create").does = "signin"
  BY <1>0, StandingMoves DEF LinkPlaces
<1> QED
  BY <1>0, <1>1, <1>2, <1>3, <1>4, <1>5

LEMMA CreateMeans ==
  ASSUME LinkTypes, NEW c \in LinkCalls, CreateProfile(c)
  PROVE  \/ Broken(c)
         \/ \E p \in Profiles : \E r, e :
              /\ Goes(c, r) /\ r.at = "link" /\ r.does = "signin" /\ r.who = p
              /\ profile[p] = "none" /\ profile' = [profile EXCEPT ![p] = "live"]
              /\ e \in Wallets \cup {Nobody} /\ e \in {Nobody, r.id}
              /\ e # Nobody => \A q \in Profiles : address[q] # e
              /\ address' = [address EXCEPT ![p] = e]
              /\ emailed' \subseteq Profiles
              /\ UNCHANGED <<link, crossed, born, exposed>>
<1> DEFINE a == linkCall[c].id
           fresh == {p \in Profiles : profile[p] = "none"}
           p == CHOOSE q \in fresh : TRUE
           e == IF a = Google THEN Nobody ELSE a
<1>0. /\ linkCall[c] \in LinkStanding /\ linkCall[c].at = "create"
      /\ linkCall[c].does = "signin" /\ a \in Accounts
      /\ emailed \subseteq Profiles
  BY StandingMoves DEF CreateProfile, LinkStanding, LinkTypes
<1>1. CASE a # Google /\ \E q \in Profiles : address[q] = a
  <2>1. BreakOff(c) /\ UNCHANGED <<profile, address, emailed, link, born, exposed>>
    BY <1>1 DEF CreateProfile
  <2> QED
    BY <2>1, FinishMoves, QuietStands DEF BreakOff, Goes, Broken
<1>2. CASE ~(a # Google /\ \E q \in Profiles : address[q] = a)
  <2>1. /\ fresh # {} /\ profile' = [profile EXCEPT ![p] = "live"]
        /\ address' = [address EXCEPT ![p] = e]
        /\ emailed' = IF a = Google THEN emailed \cup {p} ELSE emailed
        /\ linkCall' = [linkCall EXCEPT ![c].at = "link", ![c].who = p]
        /\ UNCHANGED <<link, crossed, born, exposed>>
    BY <1>2 DEF CreateProfile
  <2>2. p \in fresh
    BY <2>1
  <2>3. p \in Profiles /\ profile[p] = "none"
    BY <2>2
  <2>4. e \in Wallets \cup {Nobody} /\ e \in {Nobody, a} /\ (e # Nobody => \A q \in Profiles : address[q] # e)
    BY <1>0, <1>2 DEF Accounts
  <2> HIDE DEF p, fresh, e
  <2>5. Goes(c, Linking(c, p)) /\ Linking(c, p).at = "link" /\ Linking(c, p).does = "signin"
        /\ Linking(c, p).who = p /\ Linking(c, p).id = a
    <3>1. LinkMoves(c, Linking(c, p))
      BY <2>1 DEF LinkMoves, Linking, LinkTypes
    <3>2. Linking(c, p) \in LinkStanding
      BY <1>0, <2>3, StandingMoves DEF LinkStanding
    <3> QED
      BY <1>0, <2>3, <3>1, <3>2, StandingMoves DEF Goes
  <2>6. emailed' \subseteq Profiles
    BY <1>0, <2>1, <2>3
  <2> QED
    BY <2>1, <2>3, <2>4, <2>5, <2>6
<1> QED
  BY <1>1, <1>2

(* A link that is made, by a sign-in, or a link of a wallet that goes on to *)
(* the address or brings it along.                                          *)
Linked(c, r, p, a) ==
  /\ Goes(c, r) /\ r.at \in {"idle", "address"}
  /\ p = linkCall[c].who /\ a = linkCall[c].id /\ a \in Accounts /\ p \in Profiles
  /\ link[a] = Nobody /\ Exists(p)
  /\ link' = [link EXCEPT ![a] = p] /\ born' = born \cup {p}
  /\ r.at = "address" => r.who = p /\ r.id = a
  /\ UNCHANGED <<profile, emailed, crossed, exposed>>

LEMMA CreateLinkMeans ==
  ASSUME LinkTypes, NEW c \in LinkCalls, CreateLink(c)
  PROVE  Broken(c) \/ \E r, p, a : Linked(c, r, p, a) /\ UNCHANGED address
<1> DEFINE a == linkCall[c].id
           p == linkCall[c].who
<1>0. /\ linkCall[c] \in LinkStanding /\ linkCall[c].at = "link" /\ p \in Profiles /\ a \in Accounts
      /\ linkCall[c].does # "signin" => a \in Wallets
  BY StandingMoves DEF CreateLink, LinkStanding, Accounts
<1>1. CASE link[a] # Nobody \/ ~Exists(p)
  <2>1. BreakOff(c) /\ UNCHANGED <<profile, address, emailed, link, born, exposed>>
    BY <1>1 DEF CreateLink
  <2> QED
    BY <2>1, FinishMoves, QuietStands DEF BreakOff, Goes, Broken
<1>2. CASE ~(link[a] # Nobody \/ ~Exists(p))
  <2>1. /\ link' = [link EXCEPT ![a] = p] /\ born' = born \cup {p}
        /\ UNCHANGED <<profile, address, emailed, crossed, exposed>>
    BY <1>2 DEF CreateLink
  <2>2. CASE linkCall[c].does = "signin"
    <3>1. Goes(c, Quiet)
      BY <1>2, <2>2, FinishMoves, QuietStands DEF Goes, CreateLink
    <3> QED
      BY <1>0, <1>2, <2>1, <3>1, QuietStands DEF Linked
  <2>3. CASE linkCall[c].does # "signin"
    <3>1. Goto(c, "address")
      BY <1>2, <2>3 DEF CreateLink
    <3>2. Moved(c, "address") \in LinkStanding
      BY <1>0, <2>3, StandingMoves DEF LinkStanding, LinkPlaces
    <3>3. Goes(c, Moved(c, "address"))
      BY <3>1, <3>2, GotoMoves DEF Goes, LinkPlaces
    <3>4. Moved(c, "address").at = "address" /\ Moved(c, "address").who = p /\ Moved(c, "address").id = a
      BY StandingMoves DEF LinkPlaces
    <3> QED
      BY <1>0, <1>2, <2>1, <3>3, <3>4 DEF Linked
  <2> QED
    BY <2>2, <2>3
<1> QED
  BY <1>1, <1>2

LEMMA BothMeans ==
  ASSUME LinkTypes, NEW c \in LinkCalls, LinkAndAddress(c)
  PROVE  \/ Broken(c)
         \/ \E p, a : /\ Linked(c, Quiet, p, a) /\ a \in Wallets
                      /\ address' = [address EXCEPT ![p] = a]
                      /\ \A q \in Profiles \ {p} : address[q] # a
<1> DEFINE w == linkCall[c].id
           p == linkCall[c].who
<1>0. /\ linkCall[c] \in LinkStanding /\ linkCall[c].at = "both" /\ p \in Profiles /\ w \in Wallets
  BY StandingMoves DEF LinkAndAddress, LinkStanding
<1>1. CASE link[w] # Nobody \/ ~Exists(p) \/ \E q \in Profiles \ {p} : address[q] = w
  <2>1. BreakOff(c) /\ UNCHANGED <<profile, address, emailed, link, born, exposed>>
    BY <1>1 DEF LinkAndAddress
  <2> QED
    BY <2>1, FinishMoves, QuietStands DEF BreakOff, Goes, Broken
<1>2. CASE ~(link[w] # Nobody \/ ~Exists(p) \/ \E q \in Profiles \ {p} : address[q] = w)
  <2>1. /\ link' = [link EXCEPT ![w] = p] /\ born' = born \cup {p}
        /\ address' = [address EXCEPT ![p] = w] /\ Finish(c)
        /\ UNCHANGED <<profile, emailed, crossed, exposed>>
    BY <1>2 DEF LinkAndAddress
  <2>2. Goes(c, Quiet) /\ Quiet.at = "idle"
    BY <2>1, FinishMoves, QuietStands DEF Goes
  <2>3. Linked(c, Quiet, p, w)
    BY <1>0, <1>2, <2>1, <2>2 DEF Linked, Accounts
  <2>4. /\ w \in Wallets /\ address' = [address EXCEPT ![p] = w]
        /\ \A q \in Profiles \ {p} : address[q] # w
    BY <1>0, <1>2, <2>1
  <2> HIDE DEF p, w
  <2> QED
    BY <2>3, <2>4
<1> QED
  BY <1>1, <1>2

LEMMA SetAddressMeans ==
  ASSUME LinkTypes, NEW c \in LinkCalls, SetAddress(c)
  PROVE  /\ Goes(c, Quiet) /\ UNCHANGED <<profile, emailed, link, born, exposed>>
         /\ \/ UNCHANGED <<address, crossed>>
            \/ UNCHANGED address /\ crossed' = TRUE
            \/ LET p == linkCall[c].who
                   w == linkCall[c].id
               IN  /\ p \in Profiles /\ w \in Wallets /\ Exists(p)
                   /\ address' = [address EXCEPT ![p] = w]
                   /\ UNCHANGED crossed
<1>1. linkCall[c].who \in Profiles /\ linkCall[c].id \in Wallets
  BY StandingMoves DEF SetAddress, LinkStanding
<1>2. Finish(c) \/ BreakOff(c)
  BY DEF SetAddress
<1>3. Goes(c, Quiet)
  BY <1>2, FinishMoves, QuietStands DEF Goes
<1> QED
  BY <1>1, <1>3 DEF SetAddress, BreakOff

LEMMA CompareMeans ==
  ASSUME LinkTypes, NEW c \in LinkCalls, CompareAddress(c)
  PROVE  \E r : /\ Goes(c, r) /\ r.at \in {"both", "idle"}
                /\ UNCHANGED <<profile, address, emailed, link, crossed, born, exposed>>
<1>1. CASE Finish(c)
  BY <1>1, FinishMoves, QuietStands DEF Goes, CompareAddress
<1>2. CASE Goto(c, "both")
  <2>1. Moved(c, "both") \in LinkStanding /\ Moved(c, "both").at = "both"
    BY StandingMoves DEF CompareAddress, LinkStanding, LinkPlaces
  <2>2. Goes(c, Moved(c, "both"))
    BY <1>2, <2>1, GotoMoves DEF Goes, LinkPlaces
  <2> QED
    BY <2>1, <2>2 DEF CompareAddress
<1> QED
  BY <1>1, <1>2 DEF CompareAddress

Gone(c) == {a \in LinksOf(linkCall[c].who) : Provider(a) = Provider(linkCall[c].id)}

LEMMA RemoveMeans ==
  ASSUME LinkTypes, NEW c \in LinkCalls, RemoveLinks(c)
  PROVE  \E r : /\ Goes(c, r)
                /\ \/ r.at = "idle" /\ linkCall[c].id = Google
                   \/ r.at = "clear" /\ r.who = linkCall[c].who
                /\ linkCall[c].at = "remove" /\ linkCall[c].who \in Profiles
                /\ link' = [a \in Accounts |-> IF a \in Gone(c) THEN Nobody ELSE link[a]]
                /\ exposed' = IF Cardinality(Gone(c)) > 1 THEN exposed \cup {linkCall[c].who} ELSE exposed
                /\ UNCHANGED <<profile, address, emailed, crossed, born>>
<1>0. /\ linkCall[c] \in LinkStanding /\ linkCall[c].at = "remove"
      /\ linkCall[c].who \in Profiles /\ linkCall[c].id \in {Google, "wallet"}
  BY StandingMoves DEF RemoveLinks, LinkStanding
<1>1. CASE linkCall[c].id = Google
  <2>1. Goes(c, Quiet) /\ Quiet.at = "idle"
    BY <1>1, FinishMoves, QuietStands DEF Goes, RemoveLinks
  <2> QED
    BY <1>0, <1>1, <2>1 DEF RemoveLinks, Gone
<1>2. CASE linkCall[c].id # Google
  <2>1. Moved(c, "clear") \in LinkStanding /\ Moved(c, "clear").at = "clear"
        /\ Moved(c, "clear").who = linkCall[c].who
    BY <1>0, StandingMoves DEF LinkStanding, LinkPlaces
  <2>2. Goes(c, Moved(c, "clear"))
    BY <1>2, <2>1, GotoMoves DEF Goes, LinkPlaces, RemoveLinks
  <2> QED
    BY <1>0, <2>1, <2>2 DEF RemoveLinks, Gone
<1> QED
  BY <1>1, <1>2

LEMMA ClearMeans ==
  ASSUME LinkTypes, NEW c \in LinkCalls, ClearAddress(c)
  PROVE  /\ Goes(c, Quiet) /\ linkCall[c].at = "clear" /\ linkCall[c].who \in Profiles
         /\ address' = [address EXCEPT ![linkCall[c].who] = Nobody]
         /\ UNCHANGED <<profile, emailed, link, crossed, born, exposed>>
<1>1. linkCall[c].at = "clear" /\ linkCall[c].who \in Profiles
  BY StandingMoves DEF ClearAddress, LinkStanding
<1>2. Goes(c, Quiet)
  BY FinishMoves, QuietStands DEF Goes, ClearAddress
<1> QED
  BY <1>1, <1>2 DEF ClearAddress, Cleared

LEMMA BreakMeans ==
  ASSUME LinkTypes, NEW c \in LinkCalls, CallBreaksOff(c)
  PROVE  Broken(c)
BY FinishMoves, QuietStands DEF CallBreaksOff, BreakOff, Broken, Goes

-----------------------------------------------------------------------------
(* The type invariant. *)

LEMMA LinkTypesMean == LinkTypes => LinkedAccountsTypeOK
<1>1. LinkStanding \subseteq LinkCallType
  BY DEF LinkStanding
<1> QED
  BY <1>1 DEF LinkTypes, LinkedAccountsTypeOK, LinkCallType, LinkPlaces

LEMMA LinksStart == LinksInit => LinkTypes
<1> SUFFICES ASSUME LinksInit
             PROVE  LinkTypes
  OBVIOUS
<1>1. linkCall \in [LinkCalls -> LinkStanding]
  BY QuietStands DEF LinksInit
<1> QED
  BY <1>1 DEF LinksInit, LinkTypes

LEMMA StartTyped ==
  ASSUME LinkTypes, NEW c \in LinkCalls, SignIn(c) \/ LinkWallet(c) \/ CountLinks(c)
  PROVE  LinkTypes'
<1>1. PICK r \in LinkStanding :
        /\ LinkMoves(c, r)
        /\ crossed' = (crossed \/ \E d \in LinkCalls : ~LinkIdle(d))
        /\ exposed' \subseteq Profiles
        /\ UNCHANGED <<profile, address, emailed, link, born>>
  <2>1. PICK r \in LinkStanding :
        /\ LinkMoves(c, r)
        /\ crossed' = (crossed \/ \E d \in LinkCalls : ~LinkIdle(d))
        /\ r.at = "remove" => exposed' = exposed \cup {q \in {r.who} : \E d \in LinkCalls :
                                linkCall[d].at = "remove" /\ linkCall[d].who = q}
        /\ r.at # "remove" => UNCHANGED exposed
        /\ UNCHANGED <<profile, address, emailed, link, born>>
    BY StartMeans DEF SomethingBegun
  <2>2. r.at = "remove" => r.who \in Profiles
    BY DEF LinkStanding
  <2> QED
    BY <2>1, <2>2 DEF LinkTypes
<1>2. linkCall' \in [LinkCalls -> LinkStanding]
  BY <1>1, LinkMoved
<1> QED
  BY <1>1, <1>2 DEF LinkTypes

LEMMA BrokenTyped ==
  ASSUME LinkTypes, NEW c \in LinkCalls, Broken(c)
  PROVE  LinkTypes'
<1>1. linkCall' \in [LinkCalls -> LinkStanding]
  BY LinkMoved DEF Broken, Goes
<1> QED
  BY <1>1 DEF Broken, LinkTypes

LEMMA LinkedTyped ==
  ASSUME LinkTypes, NEW c \in LinkCalls, NEW r, NEW p, NEW a, Linked(c, r, p, a),
         address' \in [Profiles -> Wallets \cup {Nobody}]
  PROVE  LinkTypes'
<1>1. linkCall' \in [LinkCalls -> LinkStanding]
  BY LinkMoved DEF Linked, Goes
<1> QED
  BY <1>1 DEF Linked, LinkTypes

LEMMA LinkTypesStep ==
  ASSUME LinkTypes, [LinksNext]_linkVars
  PROVE  LinkTypes'
<1>1. ASSUME NEW c \in LinkCalls, SignIn(c) \/ LinkWallet(c) \/ CountLinks(c)
      PROVE  LinkTypes'
  BY <1>1, StartTyped
<1>2. ASSUME NEW c \in LinkCalls, FindByEmail(c) \/ CompareAddress(c)
      PROVE  LinkTypes'
  <2>1. PICK r : Goes(c, r) /\ UNCHANGED <<profile, address, emailed, link, crossed, born, exposed>>
    BY <1>2, FindMeans, CompareMeans
  <2>2. linkCall' \in [LinkCalls -> LinkStanding]
    BY <2>1, LinkMoved DEF Goes
  <2> QED
    BY <2>1, <2>2 DEF LinkTypes
<1>3. ASSUME NEW c \in LinkCalls, CreateProfile(c)
      PROVE  LinkTypes'
  <2>1. CASE Broken(c)
    BY <2>1, BrokenTyped
  <2>2. ASSUME NEW p \in Profiles, NEW r, NEW e, Goes(c, r),
               profile' = [profile EXCEPT ![p] = "live"], e \in Wallets \cup {Nobody},
               address' = [address EXCEPT ![p] = e], emailed' \subseteq Profiles,
               UNCHANGED <<link, crossed, born, exposed>>
        PROVE  LinkTypes'
    <3>1. linkCall' \in [LinkCalls -> LinkStanding]
      BY <2>2, LinkMoved DEF Goes
    <3> QED
      BY <2>2, <3>1 DEF LinkTypes
  <2> QED
    BY <1>3, <2>1, <2>2, CreateMeans
<1>4. ASSUME NEW c \in LinkCalls, CreateLink(c) \/ LinkAndAddress(c) \/ CallBreaksOff(c)
      PROVE  LinkTypes'
  <2>1. CASE Broken(c)
    BY <2>1, BrokenTyped
  <2>2. ASSUME NEW r, NEW p, NEW a, Linked(c, r, p, a), UNCHANGED address
        PROVE  LinkTypes'
    BY <2>2, LinkedTyped DEF LinkTypes
  <2>3. ASSUME NEW p, NEW a, Linked(c, Quiet, p, a), a \in Wallets, address' = [address EXCEPT ![p] = a]
        PROVE  LinkTypes'
    <3>1. address' \in [Profiles -> Wallets \cup {Nobody}]
      BY <2>3 DEF LinkTypes
    <3> QED
      BY <2>3, <3>1, LinkedTyped
  <2> QED
    BY <1>4, <2>1, <2>2, <2>3, CreateLinkMeans, BothMeans, BreakMeans
<1>5. ASSUME NEW c \in LinkCalls, SetAddress(c) \/ ClearAddress(c)
      PROVE  LinkTypes'
  <2>1. /\ Goes(c, Quiet) /\ UNCHANGED <<profile, emailed, link, born, exposed>>
        /\ address' \in [Profiles -> Wallets \cup {Nobody}] /\ crossed' \in BOOLEAN
    <3>1. CASE SetAddress(c)
      BY <3>1, SetAddressMeans DEF LinkTypes
    <3>2. CASE ClearAddress(c)
      BY <3>2, ClearMeans DEF LinkTypes
    <3> QED
      BY <1>5, <3>1, <3>2
  <2>2. linkCall' \in [LinkCalls -> LinkStanding]
    BY <2>1, LinkMoved, QuietStands DEF Goes
  <2> QED
    BY <2>1, <2>2 DEF LinkTypes
<1>6. ASSUME NEW c \in LinkCalls, RemoveLinks(c)
      PROVE  LinkTypes'
  <2>1. PICK r : /\ Goes(c, r) /\ linkCall[c].who \in Profiles
                 /\ link' = [a \in Accounts |-> IF a \in Gone(c) THEN Nobody ELSE link[a]]
                 /\ exposed' \in {exposed, exposed \cup {linkCall[c].who}}
                 /\ UNCHANGED <<profile, address, emailed, crossed, born>>
    BY <1>6, RemoveMeans
  <2>2. linkCall' \in [LinkCalls -> LinkStanding]
    BY <2>1, LinkMoved DEF Goes
  <2> QED
    BY <2>1, <2>2 DEF LinkTypes
<1>7. ASSUME NEW p \in Profiles, DeleteAccount(p) \/ RemoveProfile(p)
      PROVE  LinkTypes'
  BY <1>7 DEF DeleteAccount, RemoveProfile, LinkTypes
<1>8. CASE UNCHANGED linkVars
  BY <1>8 DEF linkVars, LinkTypes
<1> QED
  BY <1>1, <1>2, <1>3, <1>4, <1>5, <1>6, <1>7, <1>8 DEF LinksNext

(* Profiles, addresses, links and calls in flight keep their types.         *)
THEOREM LinkedAccountsTyped == LinksInit /\ [][LinksNext]_linkVars => []LinkedAccountsTypeOK
BY LinksStart, LinkTypesStep, LinkTypesMean, PTL

-----------------------------------------------------------------------------
(* A way in. *)

Unlinking(c, p) == linkCall[c].at = "remove" /\ linkCall[c].who = p

(* What a live profile owes to its way in: its one unlink has counted two   *)
(* links that are still there.                                              *)
WaysHold(p) ==
  profile[p] = "live" =>
    /\ p \in born => LinksOf(p) # {}
    /\ \A c \in LinkCalls : Unlinking(c, p) => Cardinality(LinksOf(p)) > 1
    /\ \A c, d \in LinkCalls : Unlinking(c, p) /\ Unlinking(d, p) => c = d

(* Only a profile that was made has links to count or to lose. *)
OnceLive ==
  /\ \A p \in born : profile[p] # "none"
  /\ \A c \in LinkCalls : linkCall[c].at = "remove" => profile[linkCall[c].who] # "none"

WaysIn == OnceLive /\ \A p \in Profiles \ exposed : WaysHold(p)

LEMMA LinksFinite ==
  ASSUME NEW p
  PROVE  /\ IsFiniteSet(LinksOf(p)) /\ Cardinality(LinksOf(p)) \in Nat
         /\ \A S \in SUBSET LinksOf(p) : /\ IsFiniteSet(S) /\ Cardinality(S) \in Nat
                                         /\ Cardinality(S) <= Cardinality(LinksOf(p))
<1>1. IsFiniteSet(Accounts)
  BY LinkedAccountsAssumption, FS_AddElement DEF Accounts
<1>2. LinksOf(p) \in SUBSET Accounts
  BY DEF LinksOf
<1>3. IsFiniteSet(LinksOf(p))
  BY <1>1, <1>2, FS_Subset
<1> QED
  BY <1>3, FS_Subset, FS_CardinalityType

(* A step after which a profile has all its links, and no new unlink. *)
LEMMA WaysKept ==
  ASSUME NEW p, WaysHold(p),
         profile'[p] = "live" => profile[p] = "live",
         LinksOf(p) \subseteq LinksOf(p)',
         p \in born' => p \in born \/ LinksOf(p)' # {},
         \A c \in LinkCalls : Unlinking(c, p)' => Unlinking(c, p)
  PROVE  WaysHold(p)'
<1>1. \A S : S = {a \in Accounts : link'[a] = p} => IsFiniteSet(S) /\ Cardinality(S) \in Nat
                 /\ Cardinality(LinksOf(p)) <= Cardinality(S)
  <2> SUFFICES ASSUME NEW S, S = {a \in Accounts : link'[a] = p}
               PROVE  IsFiniteSet(S) /\ Cardinality(S) \in Nat /\ Cardinality(LinksOf(p)) <= Cardinality(S)
    OBVIOUS
  <2>1. IsFiniteSet(Accounts)
    BY LinkedAccountsAssumption, FS_AddElement DEF Accounts
  <2>2. IsFiniteSet(S)
    BY <2>1, FS_Subset
  <2>3. LinksOf(p) \in SUBSET S
    BY DEF LinksOf
  <2> QED
    BY <2>2, <2>3, FS_Subset, FS_CardinalityType
<1>2. Cardinality(LinksOf(p)) <= Cardinality(LinksOf(p)') /\ Cardinality(LinksOf(p)') \in Nat
  BY <1>1 DEF LinksOf
<1>3. Cardinality(LinksOf(p)) \in Nat
  BY LinksFinite
<1>4. ASSUME NEW n \in Nat, NEW m \in Nat, n <= m, n > 1
      PROVE  m > 1
  BY <1>4
<1> QED
  BY <1>2, <1>3, <1>4 DEF WaysHold

LEMMA StartWays ==
  ASSUME LinkTypes, WaysIn, NEW c \in LinkCalls, SignIn(c) \/ LinkWallet(c) \/ CountLinks(c)
  PROVE  WaysIn'
<1>1. PICK r \in LinkStanding :
        /\ LinkMoves(c, r) /\ LinkIdle(c)
        /\ r.at = "remove" => /\ profile[r.who] = "live" /\ ~TooFew(Cardinality(LinksOf(r.who)))
                              /\ exposed' = exposed \cup {q \in {r.who} : \E d \in LinkCalls :
                                     linkCall[d].at = "remove" /\ linkCall[d].who = q}
        /\ r.at # "remove" => UNCHANGED exposed
        /\ UNCHANGED <<profile, address, emailed, link, born>>
  BY StartMeans DEF SomethingBegun
<1>2. linkCall'[c] = r /\ \A d \in LinkCalls : d # c => linkCall'[d] = linkCall[d]
  BY <1>1, LinkMoved
<1>3. OnceLive'
  BY <1>1, <1>2 DEF WaysIn, OnceLive
<1>4. ASSUME NEW p \in Profiles, p \notin exposed'
      PROVE  WaysHold(p)'
  <2>1. p \notin exposed /\ WaysHold(p)
    BY <1>1, <1>4 DEF WaysIn
  <2>2. LinksOf(p)' = LinksOf(p)
    BY <1>1 DEF LinksOf
  <2>3. CASE r.at = "remove" /\ r.who = p
    <3>1. \A d \in LinkCalls : ~Unlinking(d, p)
      BY <1>1, <1>4, <2>3 DEF Unlinking
    <3>2. Cardinality(LinksOf(p)) > 1
      BY <1>1, <2>3, LinksFinite DEF TooFew
    <3>3. \A d \in LinkCalls : Unlinking(d, p)' => d = c
      BY <1>2, <3>1 DEF Unlinking
    <3> QED
      BY <1>1, <2>1, <2>2, <3>2, <3>3 DEF WaysHold
  <2>4. CASE ~(r.at = "remove" /\ r.who = p)
    <3>1. \A d \in LinkCalls : Unlinking(d, p)' => Unlinking(d, p)
      BY <1>2, <2>4 DEF Unlinking
    <3> QED
      BY <1>1, <2>1, <2>2, <3>1, WaysKept
  <2> QED
    BY <2>3, <2>4
<1> QED
  BY <1>3, <1>4 DEF WaysIn

(* A call that moves on, and leaves the profiles and their links alone. *)
LEMMA RestWays ==
  ASSUME LinkTypes, WaysIn, NEW c \in LinkCalls, NEW r, Goes(c, r), r.at # "remove",
         UNCHANGED <<profile, link, born, exposed>>
  PROVE  WaysIn'
<1>1. linkCall'[c] = r /\ \A d \in LinkCalls : d # c => linkCall'[d] = linkCall[d]
  BY LinkMoved DEF Goes
<1>2. OnceLive'
  BY <1>1 DEF WaysIn, OnceLive
<1>3. ASSUME NEW p \in Profiles, p \notin exposed'
      PROVE  WaysHold(p)'
  <2>1. WaysHold(p) /\ LinksOf(p)' = LinksOf(p)
    BY <1>3 DEF WaysIn, LinksOf
  <2>2. \A d \in LinkCalls : Unlinking(d, p)' => Unlinking(d, p)
    BY <1>1 DEF Unlinking
  <2> QED
    BY <2>1, <2>2, WaysKept
<1> QED
  BY <1>2, <1>3 DEF WaysIn

LEMMA LinkedWays ==
  ASSUME LinkTypes, WaysIn, NEW c \in LinkCalls, NEW r, NEW p, NEW a, Linked(c, r, p, a)
  PROVE  WaysIn'
<1>1. linkCall'[c] = r /\ r.at # "remove" /\ \A d \in LinkCalls : d # c => linkCall'[d] = linkCall[d]
  BY LinkMoved DEF Goes, Linked
<1>2. OnceLive'
  BY <1>1 DEF WaysIn, OnceLive, Linked, Exists
<1>3. ASSUME NEW q \in Profiles, q \notin exposed'
      PROVE  WaysHold(q)'
  <2>1. WaysHold(q) /\ UNCHANGED profile
    BY <1>3 DEF WaysIn, Linked
  <2>2. LinksOf(q) \subseteq LinksOf(q)' /\ (q = p => a \in LinksOf(q)')
    BY LinkedAccountsAssumption DEF Linked, LinksOf, LinkTypes
  <2>3. q \in born' => q \in born \/ LinksOf(q)' # {}
    BY <2>2 DEF Linked
  <2>4. \A d \in LinkCalls : Unlinking(d, q)' => Unlinking(d, q)
    BY <1>1 DEF Unlinking
  <2> QED
    BY <2>1, <2>2, <2>3, <2>4, WaysKept
<1> QED
  BY <1>2, <1>3 DEF WaysIn

LEMMA RemoveWays ==
  ASSUME LinkTypes, WaysIn, NEW c \in LinkCalls, RemoveLinks(c)
  PROVE  WaysIn'
<1> DEFINE p == linkCall[c].who
<1>1. PICK r : /\ Goes(c, r) /\ r.at \in {"idle", "clear"}
               /\ linkCall[c].at = "remove" /\ p \in Profiles
               /\ link' = [a \in Accounts |-> IF a \in Gone(c) THEN Nobody ELSE link[a]]
               /\ exposed' = IF Cardinality(Gone(c)) > 1 THEN exposed \cup {p} ELSE exposed
               /\ UNCHANGED <<profile, address, emailed, crossed, born>>
  BY RemoveMeans
<1>2. linkCall'[c] = r /\ \A d \in LinkCalls : d # c => linkCall'[d] = linkCall[d]
  BY <1>1, LinkMoved DEF Goes
<1>3. OnceLive'
  BY <1>1, <1>2 DEF WaysIn, OnceLive
<1>4. Gone(c) \in SUBSET LinksOf(p)
  BY DEF Gone
<1>5. ASSUME NEW q \in Profiles, q \notin exposed'
      PROVE  WaysHold(q)'
  <2>1. WaysHold(q) /\ q \notin exposed
    BY <1>1, <1>5 DEF WaysIn
  <2>2. \A d \in LinkCalls : Unlinking(d, q)' => Unlinking(d, q) /\ d # c
    BY <1>1, <1>2 DEF Unlinking
  <2>3. CASE q # p
    <3>1. LinksOf(q) \subseteq LinksOf(q)'
      BY <1>1, <1>4, <2>3 DEF LinksOf
    <3> QED
      BY <1>1, <2>1, <2>2, <3>1, WaysKept
  <2>4. CASE q = p
    <3>1. \A d \in LinkCalls : Unlinking(d, q) /\ profile[q] = "live" => d = c
      BY <1>1, <2>1, <2>4 DEF WaysHold, Unlinking
    <3>2. ASSUME profile[q] = "live"
          PROVE  LinksOf(q)' # {}
      <4>1. Cardinality(LinksOf(q)) > 1
        BY <1>1, <2>1, <2>4, <3>2 DEF WaysHold, Unlinking
      <4>2. ~(Cardinality(Gone(c)) > 1)
        BY <1>1, <1>5, <2>4
      <4>3. LinksOf(q) # Gone(c)
        BY <4>1, <4>2
      <4>4. PICK a \in LinksOf(q) : a \notin Gone(c)
        BY <1>4, <2>4, <4>3
      <4>5. a \in LinksOf(q)'
        BY <1>1, <4>4 DEF LinksOf
      <4> QED
        BY <4>5
    <3> QED
      BY <1>1, <2>2, <2>4, <3>1, <3>2 DEF WaysHold
  <2> QED
    BY <2>3, <2>4
<1> QED
  BY <1>3, <1>5 DEF WaysIn

LEMMA LinksStartWays == LinksInit => WaysIn
BY QuietStands DEF LinksInit, WaysIn, OnceLive, WaysHold, Unlinking

LEMMA WaysStep ==
  ASSUME LinkTypes, WaysIn, [LinksNext]_linkVars
  PROVE  WaysIn'
<1>1. ASSUME NEW c \in LinkCalls, SignIn(c) \/ LinkWallet(c) \/ CountLinks(c)
      PROVE  WaysIn'
  BY <1>1, StartWays
<1>2. ASSUME NEW c \in LinkCalls, FindByEmail(c) \/ CompareAddress(c) \/ SetAddress(c) \/ ClearAddress(c)
      PROVE  WaysIn'
  <2>1. \E r : Goes(c, r) /\ r.at # "remove" /\ UNCHANGED <<profile, link, born, exposed>>
    BY <1>2, FindMeans, CompareMeans, SetAddressMeans, ClearMeans, QuietStands
  <2> QED
    BY <2>1, RestWays
<1>3. ASSUME NEW c \in LinkCalls, Broken(c)
      PROVE  WaysIn'
  BY <1>3, RestWays, QuietStands DEF Broken
<1>4. ASSUME NEW c \in LinkCalls, CreateProfile(c), ~Broken(c)
      PROVE  WaysIn'
  <2>1. PICK p, r : /\ p \in Profiles
                    /\ Goes(c, r) /\ r.at = "link" /\ profile[p] = "none"
                    /\ profile' = [profile EXCEPT ![p] = "live"]
                    /\ UNCHANGED <<link, crossed, born, exposed>>
    BY <1>4, CreateMeans
  <2>2. linkCall'[c] = r /\ \A d \in LinkCalls : d # c => linkCall'[d] = linkCall[d]
    BY <2>1, LinkMoved DEF Goes
  <2>3. profile'[p] = "live" /\ \A q \in Profiles : q # p => profile'[q] = profile[q]
    BY <2>1 DEF LinkTypes
  <2>4. \A d \in LinkCalls : linkCall'[d].at = "remove" => linkCall[d].at = "remove" /\ linkCall'[d] = linkCall[d]
    BY <2>1, <2>2
  <2>5. OnceLive'
    <3>1. \A q \in born' : profile'[q] # "none"
      BY <2>1, <2>3 DEF WaysIn, OnceLive, LinkTypes
    <3>2. ASSUME NEW d \in LinkCalls, linkCall'[d].at = "remove"
          PROVE  profile'[linkCall'[d].who] # "none"
      <4>1. linkCall[d].who \in Profiles
        BY <2>4, <3>2, StandingMoves DEF LinkStanding
      <4> QED
        BY <2>3, <2>4, <3>2, <4>1 DEF WaysIn, OnceLive
    <3> QED
      BY <3>1, <3>2 DEF OnceLive
  <2>6. ASSUME NEW q \in Profiles, q \notin exposed'
        PROVE  WaysHold(q)'
    <3>1. WaysHold(q) /\ LinksOf(q)' = LinksOf(q)
      BY <2>1, <2>6 DEF WaysIn, LinksOf
    <3>2. CASE q = p
      BY <2>1, <2>4, <3>2 DEF WaysIn, OnceLive, WaysHold, Unlinking
    <3>3. CASE q # p
      <4>1. \A d \in LinkCalls : Unlinking(d, q)' => Unlinking(d, q)
        BY <2>4 DEF Unlinking
      <4> QED
        BY <2>1, <2>3, <3>1, <3>3, <4>1, WaysKept
    <3> QED
      BY <3>2, <3>3
  <2> QED
    BY <2>5, <2>6 DEF WaysIn
<1>5. ASSUME NEW c \in LinkCalls, CreateLink(c) \/ LinkAndAddress(c), ~Broken(c)
      PROVE  WaysIn'
  <2>1. \E r, p, a : Linked(c, r, p, a)
    BY <1>5, CreateLinkMeans, BothMeans
  <2> QED
    BY <2>1, LinkedWays
<1>6. ASSUME NEW c \in LinkCalls, RemoveLinks(c)
      PROVE  WaysIn'
  BY <1>6, RemoveWays
<1>7. ASSUME NEW p \in Profiles, DeleteAccount(p)
      PROVE  WaysIn'
  <2>1. profile' = [profile EXCEPT ![p] = "deleted"] /\ UNCHANGED <<link, linkCall, born, exposed>>
    BY <1>7 DEF DeleteAccount
  <2>2. OnceLive'
    BY <2>1, StandingMoves DEF WaysIn, OnceLive, LinkTypes, LinkStanding
  <2>3. ASSUME NEW q \in Profiles, q \notin exposed'
        PROVE  WaysHold(q)'
    <3>1. WaysHold(q) /\ LinksOf(q)' = LinksOf(q) /\ (profile'[q] = "live" => profile[q] = "live")
      BY <2>1, <2>3 DEF WaysIn, LinksOf, LinkTypes
    <3> QED
      BY <2>1, <3>1, WaysKept DEF Unlinking
  <2> QED
    BY <2>2, <2>3 DEF WaysIn
<1>8. ASSUME NEW p \in Profiles, RemoveProfile(p)
      PROVE  WaysIn'
  <2>1. /\ profile' = [profile EXCEPT ![p] = "gone"]
        /\ link' = [a \in Accounts |-> IF link[a] = p THEN Nobody ELSE link[a]]
        /\ born' = born \ {p} /\ exposed' = exposed \ {p} /\ UNCHANGED linkCall
    BY <1>8 DEF RemoveProfile
  <2>2. OnceLive'
    BY <2>1, StandingMoves DEF WaysIn, OnceLive, LinkTypes, LinkStanding
  <2>3. ASSUME NEW q \in Profiles, q \notin exposed'
        PROVE  WaysHold(q)'
    <3>1. CASE q = p
      BY <2>1, <3>1 DEF WaysHold, LinkTypes
    <3>2. CASE q # p
      <4>1. WaysHold(q) /\ profile'[q] = profile[q] /\ LinksOf(q) \subseteq LinksOf(q)'
        BY <2>1, <2>3, <3>2 DEF WaysIn, LinksOf, LinkTypes
      <4> QED
        BY <2>1, <3>2, <4>1, WaysKept DEF Unlinking
    <3> QED
      BY <3>1, <3>2
  <2> QED
    BY <2>2, <2>3 DEF WaysIn
<1>9. CASE UNCHANGED linkVars
  BY <1>9 DEF linkVars, WaysIn, OnceLive, WaysHold, Unlinking, LinksOf
<1> QED
  BY <1>1, <1>2, <1>3, <1>4, <1>5, <1>6, <1>7, <1>8, <1>9, BreakMeans DEF LinksNext

LEMMA WaysMean == LinkTypes /\ WaysIn => AlwaysAWayIn
BY DEF LinkTypes, WaysIn, WaysHold, AlwaysAWayIn

(* A live profile that had an account to sign it in still has one           *)
(* (unlink/[provider]/route.ts): its only unlink counted two links, and     *)
(* until it deletes one nobody else does.                                   *)
THEOREM WayIn == LinksInit /\ [][LinksNext]_linkVars => []AlwaysAWayIn
BY LinksStart, LinkTypesStep, LinksStartWays, WaysStep, WaysMean, PTL

-----------------------------------------------------------------------------
(* The address follows the link. *)

Follows(p) == address[p] # Nobody => link[address[p]] = p

(* What a call that is under way still owes to its profile. *)
Owed(c, p) ==
  /\ linkCall[c].who = p
  /\ \/ linkCall[c].at = "clear"
     \/ linkCall[c].at = "link" /\ address[p] = linkCall[c].id

Alone == \A c, d \in LinkCalls : ~LinkIdle(c) /\ ~LinkIdle(d) => c = d
AllFollow == \A p \in Profiles : Follows(p) \/ \E c \in LinkCalls : Owed(c, p)
AddressTaken(c) ==
  linkCall[c].at = "address" => link[linkCall[c].id] = linkCall[c].who \/ ~Exists(linkCall[c].who)

(* While calls take turns, only the one under way leaves an address that    *)
(* does not follow its link, and it will put it right.                      *)
InTurn == ~crossed => Alone /\ AllFollow /\ \A c \in LinkCalls : AddressTaken(c)

LEMMA StartInTurn ==
  ASSUME LinkTypes, InTurn, NEW c \in LinkCalls, SignIn(c) \/ LinkWallet(c) \/ CountLinks(c)
  PROVE  InTurn'
<1> SUFFICES ASSUME ~crossed'
             PROVE  Alone' /\ AllFollow' /\ \A d \in LinkCalls : AddressTaken(d)'
  BY DEF InTurn
<1>1. PICK r \in LinkStanding :
        /\ LinkMoves(c, r)
        /\ crossed' = (crossed \/ \E d \in LinkCalls : ~LinkIdle(d))
        /\ r.at # "address"
        /\ UNCHANGED <<profile, address, emailed, link, born>>
  BY StartMeans DEF SomethingBegun
<1>2. linkCall'[c] = r /\ \A d \in LinkCalls : d # c => linkCall'[d] = linkCall[d]
  BY <1>1, LinkMoved
<1>3. ~crossed /\ \A d \in LinkCalls : linkCall[d].at = "idle"
  BY <1>1 DEF LinkTypes, LinkIdle
<1>4. \A p \in Profiles : Follows(p)
  BY <1>3 DEF InTurn, AllFollow, Owed
<1>5. AllFollow'
  BY <1>1, <1>4 DEF AllFollow, Follows
<1> QED
  BY <1>1, <1>2, <1>3, <1>5 DEF Alone, LinkIdle, AddressTaken

(* When calls come one after the other, the one that moves is the only one. *)
LEMMA OnlyOne ==
  ASSUME LinkTypes, InTurn, ~crossed, NEW c \in LinkCalls, ~LinkIdle(c), NEW r, Goes(c, r)
  PROVE  /\ linkCall'[c] = r
         /\ \A d \in LinkCalls : d # c => linkCall[d].at = "idle" /\ linkCall'[d].at = "idle"
         /\ Alone'
         /\ \A p \in Profiles : Follows(p) \/ Owed(c, p)
<1>1. linkCall'[c] = r /\ \A d \in LinkCalls : d # c => linkCall'[d] = linkCall[d]
  BY LinkMoved DEF Goes
<1>2. \A d \in LinkCalls : d # c => linkCall[d].at = "idle"
  BY DEF InTurn, Alone, LinkIdle
<1>3. \A d \in LinkCalls : d # c => linkCall'[d].at = "idle"
  BY <1>1, <1>2
<1>4. Alone'
  BY <1>3 DEF Alone, LinkIdle
<1>5. \A p \in Profiles : Follows(p) \/ Owed(c, p)
  BY <1>2 DEF InTurn, AllFollow, Owed
<1> QED
  BY <1>1, <1>2, <1>3, <1>4, <1>5

(* The invariant after a step of the only call, whose record is r then. *)
LEMMA TurnTaken ==
  ASSUME LinkTypes, InTurn, ~crossed, NEW c \in LinkCalls, ~LinkIdle(c), NEW r, Goes(c, r),
         \A p \in Profiles : Follows(p)' \/ Owed(c, p)',
         r.at = "address" => link'[r.id] = r.who
  PROVE  InTurn'
<1>1. /\ linkCall'[c] = r /\ Alone'
      /\ \A d \in LinkCalls : d # c => linkCall'[d].at = "idle"
  BY OnlyOne
<1>2. AllFollow'
  BY DEF AllFollow
<1>3. ASSUME NEW d \in LinkCalls
      PROVE  AddressTaken(d)'
  BY <1>1, <1>3 DEF AddressTaken
<1> QED
  BY <1>1, <1>2, <1>3 DEF InTurn

LEMMA LinkInTurn ==
  ASSUME LinkTypes, InTurn, NEW c \in LinkCalls, CreateLink(c) \/ LinkAndAddress(c), ~Broken(c)
  PROVE  InTurn'
<1> SUFFICES ASSUME ~crossed'
             PROVE  InTurn'
  BY DEF InTurn
<1>1. PICK r, p, a : /\ Linked(c, r, p, a)
                     /\ \/ UNCHANGED address
                        \/ linkCall[c].at = "both" /\ address' = [address EXCEPT ![p] = a]
  BY CreateLinkMeans, BothMeans DEF LinkAndAddress
<1>2. /\ Goes(c, r) /\ ~crossed /\ ~LinkIdle(c) /\ linkCall[c].at \in {"link", "both"}
      /\ p \in Profiles /\ a \in Accounts /\ link[a] = Nobody
      /\ link' = [link EXCEPT ![a] = p]
      /\ r.at = "address" => r.who = p /\ r.id = a
      /\ p = linkCall[c].who /\ a = linkCall[c].id
  BY <1>1 DEF Linked, CreateLink, LinkAndAddress, LinkIdle
<1>3. link'[a] = p /\ \A b \in Accounts : b # a => link'[b] = link[b]
  BY <1>2 DEF LinkTypes
<1>4. r.at = "address" => link'[r.id] = r.who
  BY <1>2, <1>3
<1>5. ASSUME NEW q \in Profiles
      PROVE  Follows(q)'
  <2>1. Follows(q) \/ Owed(c, q)
    BY <1>2, OnlyOne
  <2>2. CASE address'[q] = a /\ q = p
    BY <1>3, <2>2 DEF Follows
  <2>3. CASE address'[q] = address[q]
    <3>1. CASE Follows(q)
      <4>1. address[q] \in Wallets \cup {Nobody} /\ q # Nobody
        BY LinkedAccountsAssumption DEF LinkTypes
      <4>2. address[q] # Nobody => address[q] # a
        BY <1>2, <3>1, <4>1 DEF Follows
      <4> QED
        BY <1>3, <2>3, <3>1, <4>1, <4>2 DEF Follows, Accounts
    <3>2. CASE Owed(c, q)
      <4>1. q = p /\ address[q] = a
        BY <1>2, <3>2 DEF Owed
      <4> QED
        BY <2>2, <2>3, <4>1
    <3> QED
      BY <2>1, <3>1, <3>2
  <2> QED
    BY <1>1, <1>2, <2>2, <2>3 DEF LinkTypes
<1> QED
  BY <1>2, <1>4, <1>5, TurnTaken

LEMMA RemoveInTurn ==
  ASSUME LinkTypes, InTurn, NEW c \in LinkCalls, RemoveLinks(c)
  PROVE  InTurn'
<1> SUFFICES ASSUME ~crossed'
             PROVE  InTurn'
  BY DEF InTurn
<1>1. PICK r : /\ Goes(c, r)
               /\ \/ r.at = "idle" /\ linkCall[c].id = Google
                  \/ r.at = "clear" /\ r.who = linkCall[c].who
               /\ linkCall[c].at = "remove" /\ linkCall[c].who \in Profiles
               /\ link' = [a \in Accounts |-> IF a \in Gone(c) THEN Nobody ELSE link[a]]
               /\ UNCHANGED <<profile, address, emailed, crossed, born>>
  BY RemoveMeans
<1>2. ~crossed /\ ~LinkIdle(c)
  BY <1>1 DEF LinkIdle
<1>3. linkCall'[c] = r
  BY <1>1, <1>2, OnlyOne
<1>4. ASSUME NEW q \in Profiles
      PROVE  Follows(q)' \/ Owed(c, q)'
  <2>1. Follows(q)
    BY <1>1, <1>2, OnlyOne DEF Owed
  <2>2. address[q] \in Wallets \cup {Nobody}
    BY DEF LinkTypes
  <2>3. CASE address[q] = Nobody
    BY <1>1, <2>3 DEF Follows
  <2>4. CASE address[q] \in Accounts /\ address[q] # Nobody /\ address[q] \notin Gone(c)
    BY <1>1, <2>1, <2>4 DEF Follows
  <2>5. CASE address[q] \in Wallets /\ address[q] # Nobody /\ address[q] \in Gone(c)
    <3>1. link[address[q]] = linkCall[c].who /\ linkCall[c].who = q
      BY <2>1, <2>5 DEF Gone, LinksOf, Follows
    <3>2. linkCall[c].id # Google
      <4>1. Provider(address[q]) = Provider(linkCall[c].id)
        BY <2>5 DEF Gone
      <4> QED
        BY <2>5, <4>1, LinkedAccountsAssumption DEF Provider
    <3> QED
      BY <1>1, <1>3, <3>1, <3>2 DEF Owed
  <2> QED
    BY <2>2, <2>3, <2>4, <2>5 DEF Accounts
<1> QED
  BY <1>1, <1>2, <1>4, TurnTaken

LEMMA TurnsStep ==
  ASSUME LinkTypes, InTurn, [LinksNext]_linkVars
  PROVE  InTurn'
<1>1. ASSUME NEW c \in LinkCalls, SignIn(c) \/ LinkWallet(c) \/ CountLinks(c)
      PROVE  InTurn'
  BY <1>1, StartInTurn
<1>2. ASSUME NEW c \in LinkCalls, Broken(c)
      PROVE  InTurn'
  BY <1>2 DEF Broken, InTurn
<1>3. ASSUME NEW c \in LinkCalls, FindByEmail(c) \/ CompareAddress(c), ~crossed'
      PROVE  InTurn'
  <2>1. /\ \E r : Goes(c, r) /\ r.at # "address"
        /\ UNCHANGED <<profile, address, link, crossed>>
        /\ linkCall[c].at \in {"email", "compare"}
    BY <1>3, FindMeans, CompareMeans DEF FindByEmail, CompareAddress
  <2>2. \A p \in Profiles : Follows(p)
    BY <1>3, <2>1, OnlyOne DEF Owed, LinkIdle
  <2>3. \A p \in Profiles : Follows(p)'
    BY <2>1, <2>2 DEF Follows
  <2> QED
    BY <1>3, <2>1, <2>3, TurnTaken DEF LinkIdle
<1>4. ASSUME NEW c \in LinkCalls, CreateProfile(c), ~Broken(c), ~crossed'
      PROVE  InTurn'
  <2>1. PICK p, r, e :
          /\ p \in Profiles
          /\ Goes(c, r) /\ r.at = "link" /\ r.who = p /\ e \in {Nobody, r.id}
          /\ address' = [address EXCEPT ![p] = e]
          /\ UNCHANGED <<link, crossed>>
    BY <1>4, CreateMeans
  <2>2. linkCall[c].at = "create"
    BY <1>4 DEF CreateProfile
  <2>3. linkCall'[c] = r /\ \A q \in Profiles : Follows(q)
    BY <1>4, <2>1, <2>2, OnlyOne DEF Owed, LinkIdle
  <2>4. ASSUME NEW q \in Profiles
        PROVE  Follows(q)' \/ Owed(c, q)'
    <3>1. address'[q] = IF q = p THEN e ELSE address[q]
      BY <2>1 DEF LinkTypes
    <3>2. CASE q = p
      BY <2>1, <2>3, <3>1, <3>2 DEF Follows, Owed
    <3>3. CASE q # p
      BY <2>1, <2>3, <3>1, <3>3 DEF Follows
    <3> QED
      BY <3>2, <3>3
  <2> QED
    BY <1>4, <2>1, <2>2, <2>4, TurnTaken DEF LinkIdle
<1>5. ASSUME NEW c \in LinkCalls, CreateLink(c) \/ LinkAndAddress(c), ~Broken(c)
      PROVE  InTurn'
  BY <1>5, LinkInTurn
<1>6. ASSUME NEW c \in LinkCalls, SetAddress(c), ~crossed'
      PROVE  InTurn'
  <2> DEFINE w == linkCall[c].id
  <2>1. /\ Goes(c, Quiet) /\ UNCHANGED <<link, crossed>> /\ linkCall[c].at = "address"
        /\ \/ UNCHANGED address
           \/ \E p \in Profiles : p = linkCall[c].who /\ Exists(p) /\ address' = [address EXCEPT ![p] = w]
    BY <1>6, SetAddressMeans DEF SetAddress, LinkTypes
  <2>2. ~crossed /\ ~LinkIdle(c)
    BY <1>6, <2>1 DEF LinkIdle
  <2>3. \A q \in Profiles : Follows(q)
    BY <2>1, <2>2, OnlyOne DEF Owed
  <2>4. ASSUME NEW q \in Profiles
        PROVE  Follows(q)'
    <3>1. CASE address'[q] = address[q]
      BY <2>1, <2>3, <3>1 DEF Follows
    <3>2. CASE address'[q] = w /\ q = linkCall[c].who /\ Exists(q)
      BY <2>1, <2>2, <3>2 DEF Follows, InTurn, AddressTaken
    <3> QED
      BY <2>1, <3>1, <3>2 DEF LinkTypes
  <2> QED
    BY <2>1, <2>2, <2>4, QuietStands, TurnTaken
<1>7. ASSUME NEW c \in LinkCalls, RemoveLinks(c)
      PROVE  InTurn'
  BY <1>7, RemoveInTurn
<1>8. ASSUME NEW c \in LinkCalls, ClearAddress(c), ~crossed'
      PROVE  InTurn'
  <2>1. PICK p \in Profiles : /\ Goes(c, Quiet) /\ linkCall[c].at = "clear" /\ linkCall[c].who = p
                              /\ address' = [address EXCEPT ![p] = Nobody]
                              /\ UNCHANGED <<link, crossed>>
    BY <1>8, ClearMeans
  <2>2. \A q \in Profiles : q # p => Follows(q)
    BY <1>8, <2>1, OnlyOne DEF Owed, LinkIdle
  <2>3. \A q \in Profiles : Follows(q)'
    BY <2>1, <2>2 DEF Follows, LinkTypes
  <2> QED
    BY <1>8, <2>1, <2>3, QuietStands, TurnTaken DEF LinkIdle
<1>9. ASSUME NEW p \in Profiles, DeleteAccount(p) \/ RemoveProfile(p), ~crossed'
      PROVE  InTurn'
  <2>1. UNCHANGED <<linkCall, crossed>> /\ \A q \in Profiles : ~Exists(q) => ~Exists(q)'
    BY <1>9 DEF DeleteAccount, RemoveProfile, LinkTypes, Exists
  <2>2. \A c \in LinkCalls : linkCall[c].at = "address" => linkCall[c].who \in Profiles /\ linkCall[c].id \in Accounts
    BY StandingMoves DEF LinkStanding, Accounts
  <2>3. CASE UNCHANGED <<address, link>>
    <3>1. Alone' /\ AllFollow'
      BY <1>9, <2>1, <2>3 DEF InTurn, Alone, AllFollow, Follows, Owed, LinkIdle
    <3>2. \A c \in LinkCalls : AddressTaken(c)'
      BY <1>9, <2>1, <2>2, <2>3 DEF InTurn, AddressTaken
    <3> QED
      BY <3>1, <3>2 DEF InTurn
  <2>4. CASE /\ profile' = [profile EXCEPT ![p] = "gone"]
             /\ address' = [address EXCEPT ![p] = Nobody]
             /\ link' = [a \in Accounts |-> IF link[a] = p THEN Nobody ELSE link[a]]
    <3>1. Alone'
      BY <1>9, <2>1 DEF InTurn, Alone, LinkIdle
    <3>2. ASSUME NEW q \in Profiles
          PROVE  Follows(q)' \/ \E c \in LinkCalls : Owed(c, q)'
      <4>1. CASE q = p
        BY <2>4, <4>1 DEF Follows, LinkTypes
      <4>2. CASE q # p
        <5>1. address'[q] = address[q] /\ address[q] \in Wallets \cup {Nobody}
          BY <2>4, <4>2 DEF LinkTypes
        <5>2. Follows(q) \/ \E c \in LinkCalls : Owed(c, q)
          BY <1>9, <2>1 DEF InTurn, AllFollow
        <5>3. Follows(q) => Follows(q)'
          BY <2>4, <4>2, <5>1 DEF Follows, Accounts
        <5>4. \A c \in LinkCalls : Owed(c, q) => Owed(c, q)'
          BY <2>1, <5>1 DEF Owed
        <5> QED
          BY <5>2, <5>3, <5>4
      <4> QED
        BY <4>1, <4>2
    <3>3. ASSUME NEW c \in LinkCalls, linkCall'[c].at = "address"
          PROVE  link'[linkCall[c].id] = linkCall[c].who \/ profile'[linkCall[c].who] \notin {"live", "deleted"}
      <4>1. linkCall[c].who \in Profiles /\ linkCall[c].id \in Accounts
        BY <2>1, <2>2, <3>3
      <4>2. link[linkCall[c].id] = linkCall[c].who \/ ~Exists(linkCall[c].who)
        BY <1>9, <2>1, <3>3 DEF InTurn, AddressTaken
      <4>3. linkCall[c].who = p => profile'[linkCall[c].who] = "gone"
        BY <2>4, <4>1 DEF LinkTypes
      <4>4. linkCall[c].who # p => profile'[linkCall[c].who] = profile[linkCall[c].who]
        BY <2>4, <4>1 DEF LinkTypes
      <4> QED
        BY <2>4, <4>1, <4>2, <4>3, <4>4 DEF Exists
    <3>4. \A c \in LinkCalls : AddressTaken(c)'
      BY <2>1, <3>3 DEF AddressTaken, Exists
    <3> QED
      BY <3>1, <3>2, <3>4 DEF InTurn, AllFollow
  <2> QED
    BY <1>9, <2>3, <2>4 DEF DeleteAccount, RemoveProfile
<1>10. CASE UNCHANGED linkVars
  BY <1>10 DEF linkVars, InTurn, Alone, AllFollow, AddressTaken, Follows, Owed, LinkIdle, Exists
<1>11. crossed' => InTurn'
  BY DEF InTurn
<1> QED
  BY <1>1, <1>2, <1>3, <1>4, <1>5, <1>6, <1>7, <1>8, <1>9, <1>10, <1>11, BreakMeans DEF LinksNext

LEMMA LinksStartInTurn == LinksInit => InTurn
BY DEF LinksInit, InTurn, Alone, AllFollow, AddressTaken, Follows, LinkIdle, Quiet

LEMMA TurnsMean == InTurn => AddressFollowsLink
BY DEF InTurn, AllFollow, Owed, Follows, AddressFollowsLink, LinkIdle

(* While calls come one after the other, the address a profile shows is one *)
(* it is linked to: a call leaves a debt only while it is under way.        *)
THEOREM AddressIsLinked == LinksInit /\ [][LinksNext]_linkVars => []AddressFollowsLink
BY LinksStart, LinkTypesStep, LinksStartInTurn, TurnsStep, TurnsMean, PTL
=============================================================================
