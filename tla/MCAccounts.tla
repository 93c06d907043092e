----------------------------- MODULE MCAccounts -----------------------------
(***************************************************************************)
(* The five components around a user's account.  They share no state, so a  *)
(* behaviour runs one of them, chosen at the start, and the others rest.     *)
(***************************************************************************)
EXTENDS Streaks, WalletAuth, LinkedAccounts, AdminWhitelist, Forum, TLC

CONSTANTS x1, x2

\* The calls in flight are interchangeable; the five sets of them are one set here.
CallSymmetry == Permutations(Tabs)

VARIABLE part      \* the component that this behaviour runs

Parts == {"streaks", "auth", "links", "whitelist", "forum"}

\* One administrator to begin with, or two that can remove each other, while the
\* environment names a third.
Lists == {Admins \ EnvAdmins} \cup {{a} : a \in Admins \ EnvAdmins}

\* Two replies when only the asker is left, one when there are two users.
Starts == {<<{Asker}, {}>>, <<Users, {x2}>>}

MCInit ==
    /\ part \in Parts
    /\ StreaksInit
    /\ AuthInit(IF part = "auth" THEN BOOLEAN ELSE {TRUE})
    /\ LinksInit
    /\ WhitelistInit(IF part = "whitelist" THEN Lists ELSE {Admins})
    /\ ForumInit(IF part = "forum" THEN Starts ELSE {<<Users, {}>>})

MCNext ==
    /\ UNCHANGED part
    /\ \/ /\ part = "streaks" /\ StreaksNext
          /\ UNCHANGED <<authVars, linkVars, adminVars, forumVars>>
       \/ /\ part = "auth" /\ AuthNext
          /\ UNCHANGED <<streakVars, linkVars, adminVars, forumVars>>
       \/ /\ part = "links" /\ LinksNext
          /\ UNCHANGED <<streakVars, authVars, adminVars, forumVars>>
       \/ /\ part = "whitelist" /\ WhitelistNext
          /\ UNCHANGED <<streakVars, authVars, linkVars, forumVars>>
       \/ /\ part = "forum" /\ ForumNext
          /\ UNCHANGED <<streakVars, authVars, linkVars, adminVars>>

MCSpec == MCInit /\ [][MCNext]_<<part, streakVars, authVars, linkVars, adminVars,
                                 forumVars>>

\* The type invariant of the component that runs.
AccountsTypeOK ==
    CASE part = "streaks"   -> StreaksTypeOK
      [] part = "auth"      -> WalletAuthTypeOK
      [] part = "links"     -> LinkedAccountsTypeOK
      [] part = "whitelist" -> WhitelistTypeOK
      [] part = "forum"     -> ForumTypeOK
=============================================================================
