------------------------------- MODULE Forum -------------------------------
(***************************************************************************)
(* One thread of the forum with its replies, upvotes and accepted answer,    *)
(* and the calls of its readers.  Every call looks first and acts in a        *)
(* transaction of its own; the counters are columns that the transactions     *)
(* increment and decrement, while rows also go by cascade.                    *)
(***************************************************************************)
EXTENDS Integers, FiniteSets

CONSTANTS
    Users,        \* the users; any of them may be an administrator
    Asker,        \* the author of the thread
    Thread,       \* the thread as a target of upvotes
    Replies,      \* bound: the replies that are ever posted
    ForumCalls    \* the calls in flight at once

ASSUME ForumAssumption ==
    /\ Asker \in Users /\ Thread \notin Replies
    /\ "replies" \notin Replies \cup {Thread}

VARIABLES
    users,        \* the users whose profile exists
    posts,        \* the state of the thread and of each reply
    author,       \* the author of each reply
    rows,         \* thread_upvotes and reply_upvotes
    upvotes,      \* the column upvotes of each post
    replyCount,   \* threads.reply_count
    isLocked,     \* threads.is_locked
    accepted,     \* the replies with is_accepted
    forumCall,    \* per call: what it does, for whom, to which post, what it saw
    cascaded,     \* history: upvotes and replies that went with a profile
    overlapped    \* history: accepts overlapped, and none has run alone since

forumVars == <<users, posts, author, rows, upvotes, replyCount, isLocked, accepted,
               forumCall, cascaded, overlapped>>

Posts == Replies \cup {Thread}
Nothing == [does |-> "nothing", user |-> Asker, post |-> Thread, row |-> "none",
            old |-> {}, alone |-> TRUE]

\* A thread without replies; the users that are left, and the replies that were
\* deleted before, are a pair of starts.
ForumInit(starts) ==
    /\ \E s \in starts :
          /\ users = s[1]
          /\ posts = [p \in Posts |-> IF p = Thread THEN "live"
                                      ELSE IF p \in s[2] THEN "gone" ELSE "none"]
    /\ author = [r \in Replies |-> Asker]
    /\ rows = {}
    /\ upvotes = [p \in Posts |-> 0]
    /\ replyCount = 0
    /\ isLocked = FALSE
    /\ accepted = {}
    /\ forumCall = [c \in ForumCalls |-> Nothing]
    /\ cascaded = [k \in Posts \cup {"replies"} |-> 0]
    /\ overlapped = FALSE

Live(p) == posts[p] = "live"
RowsOf(p) == {v \in rows : v[1] = p}
Leave(c) == forumCall' = [forumCall EXCEPT ![c] = Nothing]

Look(c, does, user, post, row) ==
    /\ forumCall[c].does = "nothing"
    /\ user \in users
    /\ forumCall' = [forumCall EXCEPT ![c] = [Nothing EXCEPT
          !.does = does, !.user = user, !.post = post, !.row = row]]
    /\ UNCHANGED <<users, posts, author, rows, upvotes, replyCount, isLocked, accepted,
                   cascaded, overlapped>>

\* A row that a call has seen and that is deleted meanwhile is not found again,
\* even if the user has voted anew.
ForgetRows(calls, gone) ==
    [c \in ForumCalls |->
       IF calls[c].row = "seen" /\ <<calls[c].post, calls[c].user>> \in gone
       THEN [calls[c] EXCEPT !.row = "gone"] ELSE calls[c]]
-----------------------------------------------------------------------------
LookVote(c) ==
    \E u \in Users, p \in Posts :
       /\ Live(p)
       /\ Look(c, "vote", u, p, IF <<p, u>> \in rows THEN "seen" ELSE "none")

\* Mutant: the row is deleted with deleteMany, which may find none.
Found_xAnyway(c) == TRUE

\* delete by id throws when the row is gone
Found(c) == forumCall[c].row = "seen"

Unvote(c) ==
    LET vote == <<forumCall[c].post, forumCall[c].user>> IN
    /\ forumCall[c].does = "vote"
    /\ forumCall[c].row # "none"
    /\ IF Found(c)
       THEN /\ rows' = rows \ {vote}
            /\ upvotes' = [upvotes EXCEPT ![vote[1]] = @ - 1]
            /\ forumCall' = [ForgetRows(forumCall, {vote}) EXCEPT ![c] = Nothing]
       ELSE Leave(c) /\ UNCHANGED <<rows, upvotes>>
    /\ UNCHANGED <<users, posts, author, replyCount, isLocked, accepted, cascaded,
                   overlapped>>

\* The row is unique, and needs its post and its user.
Upvote(c) ==
    LET vote == <<forumCall[c].post, forumCall[c].user>> IN
    /\ forumCall[c].does = "vote"
    /\ forumCall[c].row = "none"
    /\ IF vote \notin rows /\ Live(vote[1]) /\ vote[2] \in users
       THEN /\ rows' = rows \cup {vote}
            /\ upvotes' = [upvotes EXCEPT ![vote[1]] = @ + 1]
       ELSE UNCHANGED <<rows, upvotes>>
    /\ Leave(c)
    /\ UNCHANGED <<users, posts, author, replyCount, isLocked, accepted, cascaded,
                   overlapped>>

\* The lock is looked at here, and only here.
LookThread(c) ==
    \E u \in Users : /\ Live(Thread) /\ ~isLocked
                     /\ Look(c, "reply", u, Thread, "none")

PostReply(c) ==
    /\ forumCall[c].does = "reply"
    /\ IF Live(Thread) /\ forumCall[c].user \in users
       THEN \E r \in Replies :
              /\ posts[r] = "none"
              /\ posts' = [posts EXCEPT ![r] = "live"]
              /\ author' = [author EXCEPT ![r] = forumCall[c].user]
              /\ replyCount' = replyCount + 1
       ELSE UNCHANGED <<posts, author, replyCount>>
    /\ Leave(c)
    /\ UNCHANGED <<users, rows, upvotes, isLocked, accepted, cascaded, overlapped>>

\* The posts that go take their columns and, by cascade, their upvotes with them.
Remove(gone) ==
    /\ posts' = [p \in Posts |-> IF p \in gone THEN "gone" ELSE posts[p]]
    /\ author' = [r \in Replies |-> IF r \in gone THEN Asker ELSE author[r]]
    /\ upvotes' = [p \in Posts |-> IF p \in gone THEN 0 ELSE upvotes[p]]
    /\ accepted' = accepted \ gone

\* By the author or an administrator. What the call looked at before, that the
\* reply exists, the transaction finds out again.
DeleteReply(r) ==
    /\ Live(r)
    /\ Remove({r})
    /\ rows' = rows \ RowsOf(r)
    /\ replyCount' = replyCount - 1
    /\ forumCall' = ForgetRows(forumCall, RowsOf(r))
    /\ UNCHANGED <<users, isLocked, cascaded, overlapped>>

\* Mutant: the old answer is not looked for.
Unaccepted_xNone == {}

\* what the first statement of the transaction finds
Unaccepted == accepted

\* The asker accepts a reply: the transaction begins.
BeginAccept(c) ==
    /\ forumCall[c].does = "nothing"
    /\ \E r \in Replies :
          LET others == {d \in ForumCalls \ {c} : forumCall[d].does = "accept"} IN
          /\ Live(r)
          /\ forumCall' = [d \in ForumCalls |->
                IF d = c THEN [Nothing EXCEPT !.does = "accept", !.post = r,
                                              !.old = Unaccepted, !.alone = (others = {})]
                ELSE IF d \in others THEN [forumCall[d] EXCEPT !.alone = FALSE]
                ELSE forumCall[d]]
    /\ UNCHANGED <<users, posts, author, rows, upvotes, replyCount, isLocked, accepted,
                   cascaded, overlapped>>

\* The transaction reads committed rows: it takes back what its first statement
\* found, not what another has accepted since.
CommitAccept(c) ==
    /\ forumCall[c].does = "accept"
    /\ IF Live(forumCall[c].post)
       THEN /\ accepted' = (accepted \ forumCall[c].old) \cup {forumCall[c].post}
            /\ overlapped' = ~forumCall[c].alone
       ELSE UNCHANGED <<accepted, overlapped>>
    /\ Leave(c)
    /\ UNCHANGED <<users, posts, author, rows, upvotes, replyCount, isLocked, cascaded>>
-----------------------------------------------------------------------------
\* Deleting the thread, by its author or by moderation, deletes everything.
DeleteThread ==
    /\ Live(Thread)
    /\ Remove({p \in Posts : Live(p)})
    /\ rows' = {}
    /\ replyCount' = 0
    /\ forumCall' = ForgetRows(forumCall, rows)
    /\ UNCHANGED <<users, isLocked, cascaded, overlapped>>

Moderate ==
    /\ Live(Thread)
    /\ isLocked' = ~isLocked
    /\ UNCHANGED <<users, posts, author, rows, upvotes, replyCount, accepted, forumCall,
                   cascaded, overlapped>>

\* A profile that is purged takes its upvotes, its replies and its threads along,
\* and no counter is told.
PurgeUser(u) ==
    LET mine(p) == u = Asker \/ (p # Thread /\ author[p] = u)
        gone == {p \in Posts : Live(p) /\ mine(p)}
        lost == {v \in rows : v[2] = u \/ v[1] \in gone} IN
    /\ u \in users
    /\ users' = users \ {u}
    /\ Remove(gone)
    /\ rows' = rows \ lost
    /\ forumCall' = ForgetRows(forumCall, lost)
    /\ cascaded' = [k \in Posts \cup {"replies"} |->
          IF u = Asker \/ k \in gone THEN 0
          ELSE IF k = "replies" THEN cascaded[k] + Cardinality(gone)
          ELSE cascaded[k] + Cardinality({v \in lost : v[1] = k})]
    /\ replyCount' = IF u = Asker THEN 0 ELSE replyCount
    /\ UNCHANGED <<isLocked, overlapped>>

ForumNext ==
    \/ \E c \in ForumCalls :
          \/ LookVote(c) \/ Unvote(c) \/ Upvote(c) \/ LookThread(c) \/ PostReply(c)
          \/ BeginAccept(c) \/ CommitAccept(c)
    \/ \E r \in Replies : DeleteReply(r)
    \/ DeleteThread \/ Moderate
    \/ \E u \in Users : PurgeUser(u)
-----------------------------------------------------------------------------
(***************************************************************************)
(* Properties.                                                              *)
(***************************************************************************)
\* Type invariant of the forum.
ForumTypeOK ==
    /\ users \subseteq Users
    /\ posts \in [Posts -> {"none", "live", "gone"}]
    /\ author \in [Replies -> Users]
    /\ rows \subseteq Posts \X Users
    /\ upvotes \in [Posts -> Nat] /\ replyCount \in Nat
    /\ {isLocked, overlapped} \subseteq BOOLEAN
    /\ accepted \subseteq Replies
    /\ forumCall \in [ForumCalls ->
          [does : {"nothing", "vote", "reply", "accept"},
           user : Users, post : Posts, row : {"none", "seen", "gone"},
           old : SUBSET Replies, alone : BOOLEAN]]
    /\ cascaded \in [Posts \cup {"replies"} -> Nat]

\* The counters count the rows, whatever calls overlap: a double click that reads
\* the same vote twice changes the counter once. They are too high by exactly what
\* went with a purged profile, never too low (upvote/route.ts:30-60,
\* replies/route.ts:79-96, [replyId]/route.ts:45-51).
ForumCountsRows ==
    /\ \A p \in Posts :
          Live(p) => upvotes[p] = Cardinality(RowsOf(p)) + cascaded[p]
    /\ Live(Thread) =>
          replyCount = Cardinality({r \in Replies : Live(r)}) + cascaded["replies"]

\* Two answers are accepted only after two accepts overlapped, and until the next
\* one that runs alone; the accepted answer exists (accept/route.ts:45-54).
OneAcceptedAnswer ==
    /\ overlapped \/ Cardinality(accepted) <= 1
    /\ \A r \in accepted : Live(r)
=============================================================================
