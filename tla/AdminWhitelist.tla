--------------------------- MODULE AdminWhitelist ---------------------------
(***************************************************************************)
(* The whitelist of administrators and the calls that change it.  A removal *)
(* is a serializable transaction that is tried again when it conflicts; an   *)
(* addition is one statement.  Being an administrator is asked once, when    *)
(* the call begins, and may be over when it commits.                         *)
(***************************************************************************)
EXTENDS Integers, FiniteSets

CONSTANTS
    Admins,       \* those who are or may become administrators
    EnvAdmins,    \* those whose wallet ADMIN_WALLETS names
    AdminCalls,   \* the calls in flight at once
    MaxTries      \* MAX_SERIALIZATION_RETRIES (3 in the code)

ASSUME WhitelistAssumption == EnvAdmins \subseteq Admins /\ MaxTries \in Nat \ {0}

VARIABLES
    whitelist,    \* the rows of admin_whitelist without removed_at
    adminCall     \* per call: its place, author, target, attempt, snapshot, and
                  \* whether a removal committed since the snapshot

adminVars == <<whitelist, adminCall>>

NoCall == [at |-> "idle", who |-> {}, target |-> {}, try |-> 1, seen |-> {},
           stale |-> FALSE]

WhitelistInit(lists) ==
    /\ whitelist \in lists
    /\ adminCall = [c \in AdminCalls |-> NoCall]

IsAdmin(a) == a \in whitelist \cup EnvAdmins

\* isAdmin answers for the moment at which the call begins.
StartAdminCall(c) ==
    /\ adminCall[c].at = "idle"
    /\ \E a, b \in Admins, place \in {"begin", "add"} :
          /\ IsAdmin(a)
          /\ adminCall' = [adminCall EXCEPT ![c] = [NoCall EXCEPT
                !.at = place, !.who = {a}, !.target = {b}]]
    /\ UNCHANGED whitelist

\* Active rows are unique: adding one twice answers 409.
AddAdmin(c) ==
    /\ adminCall[c].at = "add"
    /\ whitelist' = whitelist \cup adminCall[c].target
    /\ adminCall' = [adminCall EXCEPT ![c] = NoCall]

BeginRemoval(c) ==
    /\ adminCall[c].at = "begin"
    /\ adminCall' = [adminCall EXCEPT ![c].at = "decide", ![c].seen = whitelist,
                                      ![c].stale = FALSE]
    /\ UNCHANGED whitelist

\* Mutant: the transaction is not serializable.
Conflict_xNever(c) == FALSE

\* Two removals read each other's row: if one commits inside the other, the
\* other cannot be serialized.
Conflict(c) == adminCall[c].stale

\* the row is gone, it is the caller's own, or it is the last one
Refuses(c) ==
    LET call == adminCall[c] IN
    \/ ~(call.target \subseteq call.seen)
    \/ call.target = call.who
    \/ call.seen \ call.target = {}

RefuseRemoval(c) ==
    /\ adminCall[c].at = "decide"
    /\ Refuses(c)
    /\ adminCall' = [adminCall EXCEPT ![c] = NoCall]
    /\ UNCHANGED whitelist

RetryRemoval(c) ==
    /\ adminCall[c].at = "decide"
    /\ Conflict(c)
    /\ adminCall' = [adminCall EXCEPT
          ![c] = IF adminCall[c].try < MaxTries
                 THEN [adminCall[c] EXCEPT !.at = "begin", !.try = adminCall[c].try + 1,
                                           !.seen = {}, !.stale = FALSE]
                 ELSE NoCall]
    /\ UNCHANGED whitelist

\* The removal also raises a version in the removed user's profile, at which old
\* sessions end: sessions are not modelled.
CommitRemoval(c) ==
    /\ adminCall[c].at = "decide"
    /\ ~Conflict(c) /\ ~Refuses(c)
    /\ whitelist' = whitelist \ adminCall[c].target
    /\ adminCall' = [d \in AdminCalls |->
          IF d = c THEN NoCall
          ELSE [adminCall[d] EXCEPT !.stale = @ \/ adminCall[d].at = "decide"]]

WhitelistNext ==
    \E c \in AdminCalls :
       \/ StartAdminCall(c) \/ AddAdmin(c) \/ BeginRemoval(c)
       \/ RefuseRemoval(c) \/ RetryRemoval(c) \/ CommitRemoval(c)

WhitelistSpec(lists) == WhitelistInit(lists) /\ [][WhitelistNext]_adminVars
-----------------------------------------------------------------------------
(***************************************************************************)
(* Properties.                                                              *)
(***************************************************************************)
\* Type invariant of the whitelist.
WhitelistTypeOK ==
    /\ whitelist \subseteq Admins
    /\ adminCall \in [AdminCalls ->
          [at : {"idle", "add", "begin", "decide"}, who : SUBSET Admins,
           target : SUBSET Admins, try : 1..MaxTries, seen : SUBSET Admins,
           stale : BOOLEAN]]

\* The whitelist never becomes empty, even when administrators remove each other
\* at the same moment or an administrator of the environment removes them
\* (whitelist/[id]/route.ts:59-68).
LastAdminStays == whitelist # {}

\* What makes it so: while a removal is between its snapshot and its commit, no
\* other commits unnoticed, so the rows it saw and did not ask for are still there.
SnapshotHolds ==
    \A c \in AdminCalls :
       (adminCall[c].at = "decide" /\ ~adminCall[c].stale) =>
          adminCall[c].seen \subseteq whitelist
=============================================================================
