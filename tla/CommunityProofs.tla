-------------------------- MODULE CommunityProofs ---------------------------
(***************************************************************************)
(* The forum's counters and answers and a user's streaks, for any number of *)
(* users, posts, tabs, days and calls; and the types of all five components *)
(* around an account.                                                       *)
(***************************************************************************)
EXTENDS MCAccounts, AccessProofs, Counting

(* The forum. *)

ForumCallType ==
  [does : {"nothing", "vote", "reply", "accept"}, user : Users, post : Posts,
   row : {"none", "seen", "gone"}, old : SUBSET Replies, alone : BOOLEAN]

LiveReplies == {r \in Replies : Live(r)}
Keys == Posts \cup {"replies"}

(* Which calls are in flight: an accept is of a reply, and a row that a     *)
(* call has seen is still there.                                            *)
CallsHold(F, R) ==
  /\ F \in [ForumCalls -> ForumCallType]
  /\ \A c \in ForumCalls : /\ F[c].does = "accept" => F[c].post \in Replies
                           /\ F[c].row = "seen" => <<F[c].post, F[c].user>> \in R

ForumTypes ==
  /\ users \subseteq Users
  /\ posts \in [Posts -> {"none", "live", "gone"}]
  /\ author \in [Replies -> Users]
  /\ rows \subseteq Posts \X Users /\ IsFiniteSet(rows)
  /\ upvotes \in [Posts -> Nat] /\ replyCount \in Nat
  /\ isLocked \in BOOLEAN /\ overlapped \in BOOLEAN
  /\ accepted \subseteq LiveReplies /\ IsFiniteSet(LiveReplies)
  /\ CallsHold(forumCall, rows)
  /\ cascaded \in [Keys -> Nat]

(* Only live posts have upvotes, and their column counts them. *)
PostCounted(p) ==
  /\ Live(p) => upvotes[p] = Cardinality(RowsOf(p)) + cascaded[p]
  /\ posts[p] = "none" => upvotes[p] = 0 /\ cascaded[p] = 0
  /\ ~Live(p) => RowsOf(p) = {}

(* Only a live thread has replies, and its column counts them. *)
RepliesCounted ==
  /\ Live(Thread) => replyCount = Cardinality(LiveReplies) + cascaded["replies"]
  /\ ~Live(Thread) => LiveReplies = {}

ForumCounts == RepliesCounted /\ \A p \in Posts : PostCounted(p)

-----------------------------------------------------------------------------
LEMMA RowsFinite ==
  ASSUME ForumTypes, NEW p
  PROVE  /\ IsFiniteSet(RowsOf(p)) /\ Cardinality(RowsOf(p)) \in Nat
         /\ RowsOf(p) # {} => Cardinality(RowsOf(p)) >= 1
<1>1. IsFiniteSet(RowsOf(p))
  BY FS_Subset DEF ForumTypes, RowsOf
<1>2. Cardinality(RowsOf(p)) \in Nat /\ (Cardinality(RowsOf(p)) = 0 <=> RowsOf(p) = {})
  BY <1>1, FS_CardinalityType, FS_EmptySet
<1> QED
  BY <1>1, <1>2

(* The calls that were looking at rows that go. *)
LEMMA Forgotten ==
  ASSUME ForumTypes, NEW gone
  PROVE  /\ ForgetRows(forumCall, gone) \in [ForumCalls -> ForumCallType]
         /\ \A c \in ForumCalls :
              /\ ForgetRows(forumCall, gone)[c].does = forumCall[c].does
              /\ ForgetRows(forumCall, gone)[c].post = forumCall[c].post
              /\ ForgetRows(forumCall, gone)[c].user = forumCall[c].user
              /\ ForgetRows(forumCall, gone)[c].old = forumCall[c].old
              /\ ForgetRows(forumCall, gone)[c].alone = forumCall[c].alone
              /\ ForgetRows(forumCall, gone)[c].row = "seen" =>
                   /\ forumCall[c].row = "seen"
                   /\ <<forumCall[c].post, forumCall[c].user>> \notin gone
<1>1. ASSUME NEW x \in ForumCallType
      PROVE  /\ [x EXCEPT !.row = "gone"] \in ForumCallType
             /\ [x EXCEPT !.row = "gone"].row = "gone"
             /\ [x EXCEPT !.row = "gone"].does = x.does /\ [x EXCEPT !.row = "gone"].post = x.post
             /\ [x EXCEPT !.row = "gone"].user = x.user /\ [x EXCEPT !.row = "gone"].old = x.old
             /\ [x EXCEPT !.row = "gone"].alone = x.alone
  BY DEF ForumCallType
<1>2. \A c \in ForumCalls : forumCall[c] \in ForumCallType
  BY DEF ForumTypes, CallsHold
<1> DEFINE x(c) == [forumCall[c] EXCEPT !.row = "gone"]
<1>3. \A c \in ForumCalls : /\ x(c) \in ForumCallType
             /\ x(c).row = "gone"
             /\ x(c).does = forumCall[c].does /\ x(c).post = forumCall[c].post
             /\ x(c).user = forumCall[c].user /\ x(c).old = forumCall[c].old
             /\ x(c).alone = forumCall[c].alone
  BY <1>1, <1>2
<1>4. ForgetRows(forumCall, gone) =
        [c \in ForumCalls |->
           IF forumCall[c].row = "seen" /\ <<forumCall[c].post, forumCall[c].user>> \in gone
           THEN x(c) ELSE forumCall[c]]
  BY DEF ForgetRows
<1> HIDE DEF x
<1> QED
  BY <1>2, <1>3, <1>4

Looking(does, u, p, row) == [Nothing EXCEPT !.does = does, !.user = u, !.post = p, !.row = row]
Accepting(r, old, alone) == [Nothing EXCEPT !.does = "accept", !.post = r, !.old = old, !.alone = alone]

LEMMA NothingStands ==
  /\ Nothing \in ForumCallType
  /\ Nothing.does = "nothing" /\ Nothing.row = "none"
BY ForumAssumption DEF Nothing, ForumCallType, Posts

LEMMA LookingStands ==
  ASSUME NEW does \in {"vote", "reply"}, NEW u \in Users, NEW p \in Posts, NEW row \in {"none", "seen"}
  PROVE  LET x == Looking(does, u, p, row)
         IN  x \in ForumCallType /\ x.does = does /\ x.user = u /\ x.post = p /\ x.row = row
<1>1. ASSUME NEW n \in ForumCallType
      PROVE  LET x == [n EXCEPT !.does = does, !.user = u, !.post = p, !.row = row]
             IN  x \in ForumCallType /\ x.does = does /\ x.user = u /\ x.post = p /\ x.row = row
  BY DEF ForumCallType
<1> QED
  BY <1>1, NothingStands DEF Looking

LEMMA AcceptingStands ==
  ASSUME NEW r \in Replies, NEW old \in SUBSET Replies, NEW alone \in BOOLEAN
  PROVE  LET x == Accepting(r, old, alone)
         IN  x \in ForumCallType /\ x.does = "accept" /\ x.post = r /\ x.old = old /\ x.alone = alone /\ x.row = "none"
<1>1. ASSUME NEW n \in ForumCallType
      PROVE  LET x == [n EXCEPT !.does = "accept", !.post = r, !.old = old, !.alone = alone]
             IN  /\ x \in ForumCallType /\ x.does = "accept" /\ x.post = r /\ x.old = old
                 /\ x.alone = alone /\ x.row = n.row
  BY DEF ForumCallType, Posts
<1> QED
  BY <1>1, NothingStands DEF Accepting

LEMMA LookMeans ==
  ASSUME ForumTypes, NEW c \in ForumCalls, LookVote(c) \/ LookThread(c)
  PROVE  \E x \in ForumCallType :
           /\ x.does \in {"vote", "reply"}
           /\ x.row = "seen" => <<x.post, x.user>> \in rows
           /\ forumCall' = [forumCall EXCEPT ![c] = x] /\ forumCall[c].does = "nothing"
           /\ UNCHANGED <<users, posts, author, rows, upvotes, replyCount, isLocked, accepted,
                          cascaded, overlapped>>
<1>1. PICK u \in Users, p \in Posts, does \in {"vote", "reply"}, row \in {"none", "seen"} :
        /\ Look(c, does, u, p, row)
        /\ row = "seen" => <<p, u>> \in rows
  <2>1. CASE LookVote(c)
    <3>1. PICK u \in Users, p \in Posts : Look(c, "vote", u, p, IF <<p, u>> \in rows THEN "seen" ELSE "none")
      BY <2>1 DEF LookVote
    <3> QED
      BY <3>1
  <2>2. CASE LookThread(c)
    BY <2>2 DEF LookThread, Posts
  <2> QED
    BY <2>1, <2>2
<1> DEFINE x == Looking(does, u, p, row)
<1>2. x \in ForumCallType /\ x.does = does /\ x.user = u /\ x.post = p /\ x.row = row
  BY LookingStands
<1>3. /\ forumCall' = [forumCall EXCEPT ![c] = x] /\ forumCall[c].does = "nothing"
      /\ UNCHANGED <<users, posts, author, rows, upvotes, replyCount, isLocked, accepted,
                     cascaded, overlapped>>
  BY <1>1 DEF Look, Looking
<1> HIDE DEF x
<1> QED
  BY <1>1, <1>2, <1>3

LEMMA CallsForget ==
  ASSUME ForumTypes, NEW X, rows' = rows \ X
  PROVE  CallsHold(ForgetRows(forumCall, X), rows')
<1> DEFINE F == ForgetRows(forumCall, X)
<1>1. /\ F \in [ForumCalls -> ForumCallType]
      /\ \A c \in ForumCalls :
              /\ F[c].does = forumCall[c].does /\ F[c].post = forumCall[c].post
              /\ F[c].user = forumCall[c].user
              /\ F[c].row = "seen" => /\ forumCall[c].row = "seen"
                                      /\ <<forumCall[c].post, forumCall[c].user>> \notin X
  BY Forgotten
<1>2. \A c \in ForumCalls : /\ forumCall[c].does = "accept" => forumCall[c].post \in Replies
                            /\ forumCall[c].row = "seen" => <<forumCall[c].post, forumCall[c].user>> \in rows
  BY DEF ForumTypes, CallsHold
<1> HIDE DEF F
<1>3. ASSUME NEW c \in ForumCalls
      PROVE  /\ F[c].does = "accept" => F[c].post \in Replies
             /\ F[c].row = "seen" => <<F[c].post, F[c].user>> \in rows'
  BY <1>1, <1>2
<1>4. CallsHold(F, rows')
  BY <1>1, <1>3 DEF CallsHold
<1> QED
  BY <1>4 DEF F

LEMMA CallReplaced ==
  ASSUME NEW F, NEW R, NEW S, CallsHold(F, R), NEW c \in ForumCalls, NEW x \in ForumCallType,
         x.does = "accept" => x.post \in Replies,
         x.row = "seen" => <<x.post, x.user>> \in S,
         \A d \in ForumCalls : d # c /\ F[d].row = "seen" => <<F[d].post, F[d].user>> \in S
  PROVE  CallsHold([F EXCEPT ![c] = x], S)
BY DEF CallsHold

(* A step that changes no row and no post. *)
LEMMA CallsOnly ==
  ASSUME ForumTypes, ForumCounts,
         UNCHANGED <<users, posts, author, rows, upvotes, replyCount, cascaded>>,
         isLocked' \in BOOLEAN, overlapped' \in BOOLEAN, accepted' \subseteq LiveReplies,
         CallsHold(forumCall', rows)
  PROVE  ForumTypes' /\ ForumCounts'
<1>1. LiveReplies' = LiveReplies
  BY DEF LiveReplies, Live
<1>2. \A S : CallsHold(forumCall', S) <=> CallsHold(forumCall, S)'
  BY DEF CallsHold
<1>3. ForumTypes'
  BY <1>1 DEF ForumTypes, CallsHold
<1>4. ForumCounts'
  BY <1>1 DEF ForumCounts, RepliesCounted, PostCounted, Live, RowsOf
<1> QED
  BY <1>3, <1>4

LEMMA LeaveKeeps ==
  ASSUME ForumTypes, ForumCounts, NEW c \in ForumCalls, Leave(c),
         UNCHANGED <<users, posts, author, rows, upvotes, replyCount, cascaded>>,
         isLocked' \in BOOLEAN, overlapped' \in BOOLEAN, accepted' \subseteq LiveReplies
  PROVE  ForumTypes' /\ ForumCounts'
<1>1. CallsHold(forumCall, rows) /\ forumCall' = [forumCall EXCEPT ![c] = Nothing]
  BY DEF ForumTypes, Leave
<1>2. CallsHold(forumCall', rows)
  BY <1>1, NothingStands DEF CallsHold
<1> QED
  BY <1>2, CallsOnly

LEMMA UpvoteKeeps ==
  ASSUME ForumTypes, ForumCounts, NEW c \in ForumCalls, Upvote(c)
  PROVE  ForumTypes' /\ ForumCounts'
<1> DEFINE p == forumCall[c].post
           vote == <<forumCall[c].post, forumCall[c].user>>
<1>0. vote \in Posts \X Users /\ vote[1] = p /\ p \in Posts
  BY DEF ForumTypes, CallsHold, ForumCallType
<1>1. CASE vote \notin rows /\ Live(p) /\ vote[2] \in users
  <2>1. /\ rows' = rows \cup {vote} /\ upvotes' = [upvotes EXCEPT ![p] = @ + 1]
        /\ forumCall' = [forumCall EXCEPT ![c] = Nothing]
        /\ UNCHANGED <<users, posts, author, replyCount, isLocked, accepted, cascaded, overlapped>>
    BY <1>1 DEF Upvote, Leave
  <2>2. CallsHold(forumCall', rows')
    BY <2>1, NothingStands DEF ForumTypes, CallsHold
  <2>3. IsFiniteSet(rows')
    BY <2>1, FS_AddElement DEF ForumTypes
  <2>4. LiveReplies' = LiveReplies
    BY <2>1 DEF LiveReplies, Live
  <2>5. upvotes' \in [Posts -> Nat]
    BY <1>0, <2>1 DEF ForumTypes
  <2>6. ForumTypes'
    BY <1>0, <2>1, <2>2, <2>3, <2>4, <2>5 DEF ForumTypes, CallsHold
  <2>7. ASSUME NEW q \in Posts
        PROVE  PostCounted(q)'
    <3>1. CASE q = p
      <4>1. RowsOf(q)' = RowsOf(q) \cup {vote} /\ vote \notin RowsOf(q)
        BY <1>0, <1>1, <2>1, <3>1 DEF RowsOf
      <4>2. Cardinality(RowsOf(q) \cup {vote}) = Cardinality(RowsOf(q)) + 1
        BY <4>1, RowsFinite, FS_AddElement
      <4>3. upvotes'[q] = upvotes[q] + 1 /\ Live(q)
        BY <1>0, <1>1, <2>1, <3>1 DEF ForumTypes
      <4>4. upvotes[q] = Cardinality(RowsOf(q)) + cascaded[q] /\ Cardinality(RowsOf(q)) \in Nat /\ cascaded[q] \in Nat
        BY <2>7, <4>3, RowsFinite DEF ForumCounts, PostCounted, ForumTypes, Keys
      <4>5. upvotes'[q] = Cardinality(RowsOf(q)') + cascaded'[q]
        BY <2>1, <4>1, <4>2, <4>3, <4>4
      <4> QED
        BY <2>1, <4>3, <4>5 DEF PostCounted, Live
    <3>2. CASE q # p
      <4>1. RowsOf(q)' = RowsOf(q)
        BY <1>0, <2>1, <3>2 DEF RowsOf
      <4>2. upvotes'[q] = upvotes[q]
        BY <2>1, <3>2 DEF ForumTypes
      <4> QED
        BY <2>1, <2>7, <4>1, <4>2 DEF ForumCounts, PostCounted, Live
    <3> QED
      BY <3>1, <3>2
  <2>8. RepliesCounted'
    BY <2>1, <2>4 DEF ForumCounts, RepliesCounted, Live
  <2> QED
    BY <2>6, <2>7, <2>8 DEF ForumCounts
<1>2. CASE ~(vote \notin rows /\ Live(p) /\ vote[2] \in users)
  <2>1. Leave(c) /\ UNCHANGED <<users, posts, author, rows, upvotes, replyCount, isLocked, accepted, cascaded, overlapped>>
    BY <1>2 DEF Upvote
  <2> QED
    BY <2>1, LeaveKeeps DEF ForumTypes
<1> QED
  BY <1>1, <1>2

LEMMA UnvoteKeeps ==
  ASSUME ForumTypes, ForumCounts, NEW c \in ForumCalls, Unvote(c)
  PROVE  ForumTypes' /\ ForumCounts'
<1>00. PICK p, vote : p = forumCall[c].post /\ vote = <<forumCall[c].post, forumCall[c].user>>
  OBVIOUS
<1>0. vote \in Posts \X Users /\ vote[1] = p /\ p \in Posts
  BY <1>00 DEF ForumTypes, CallsHold, ForumCallType
<1>1. CASE Found(c)
  <2>0. /\ rows' = rows \ {vote} /\ upvotes' = [upvotes EXCEPT ![p] = @ - 1]
        /\ forumCall' = [ForgetRows(forumCall, {vote}) EXCEPT ![c] = Nothing]
        /\ UNCHANGED <<users, posts, author, replyCount, isLocked, accepted, cascaded, overlapped>>
    BY <1>00, <1>1 DEF Unvote
  <2>1. vote \in rows
    BY <1>00, <1>1 DEF Found, ForumTypes, CallsHold
  <2>2. CallsHold(forumCall', rows')
    <3>1. CallsHold(ForgetRows(forumCall, {vote}), rows')
      BY <2>0, CallsForget
    <3>2. \A F : CallsHold(F, rows') => CallsHold([F EXCEPT ![c] = Nothing], rows')
      BY NothingStands DEF CallsHold
    <3> QED
      BY <2>0, <3>1, <3>2
  <2>3. LiveReplies' = LiveReplies
    BY <2>0 DEF LiveReplies, Live
  <2>4. RowsOf(p)' = RowsOf(p) \ {vote} /\ vote \in RowsOf(p)
    BY <1>0, <2>0, <2>1 DEF RowsOf
  <2>5. Cardinality(RowsOf(p) \ {vote}) = Cardinality(RowsOf(p)) - 1 /\ Cardinality(RowsOf(p)) >= 1
    <3>1. IsFiniteSet(RowsOf(p)) /\ Cardinality(RowsOf(p)) >= 1
      BY <2>4, RowsFinite
    <3> QED
      BY <2>4, <3>1, FS_RemoveElement
  <2>6. Live(p) /\ upvotes[p] = Cardinality(RowsOf(p)) + cascaded[p]
    BY <1>0, <2>4 DEF ForumCounts, PostCounted
  <2>7. Cardinality(RowsOf(p)) \in Nat /\ cascaded[p] \in Nat /\ upvotes[p] \in Nat
    BY <1>0, RowsFinite DEF ForumTypes, Keys
  <2>8. upvotes'[p] = upvotes[p] - 1 /\ upvotes[p] >= 1
    BY <1>0, <2>0, <2>5, <2>6, <2>7 DEF ForumTypes
  <2>9. upvotes' \in [Posts -> Nat]
    BY <1>0, <2>0, <2>7, <2>8 DEF ForumTypes
  <2>10. IsFiniteSet(rows')
    BY <2>0, FS_Subset DEF ForumTypes
  <2>11. ForumTypes'
    BY <1>0, <2>0, <2>2, <2>3, <2>9, <2>10 DEF ForumTypes, CallsHold
  <2>12. ASSUME NEW q \in Posts
        PROVE  PostCounted(q)'
    <3>1. CASE q = p
      <4>0. /\ RowsOf(q)' = RowsOf(p) \ {vote} /\ cascaded'[q] = cascaded[p]
            /\ upvotes'[q] = upvotes[p] - 1
        BY <2>0, <2>4, <2>8, <3>1
      <4>1. upvotes'[q] = Cardinality(RowsOf(q)') + cascaded'[q]
        BY <2>5, <2>6, <2>7, <4>0
      <4> QED
        BY <2>0, <2>6, <3>1, <4>1 DEF PostCounted, Live
    <3>2. CASE q # p
      <4>1. RowsOf(q)' = RowsOf(q)
        BY <1>0, <2>0, <3>2 DEF RowsOf
      <4>2. upvotes'[q] = upvotes[q]
        BY <2>0, <3>2 DEF ForumTypes
      <4> QED
        BY <2>0, <2>12, <4>1, <4>2 DEF ForumCounts, PostCounted, Live
    <3> QED
      BY <3>1, <3>2
  <2>13. RepliesCounted'
    BY <2>0, <2>3 DEF ForumCounts, RepliesCounted, Live
  <2> QED
    BY <2>11, <2>12, <2>13 DEF ForumCounts
<1>2. CASE ~Found(c)
  <2>1. Leave(c) /\ UNCHANGED <<users, posts, author, rows, upvotes, replyCount, isLocked, accepted, cascaded, overlapped>>
    BY <1>2 DEF Unvote
  <2> QED
    BY <2>1, LeaveKeeps DEF ForumTypes
<1> QED
  BY <1>1, <1>2

LEMMA PostReplyKeeps ==
  ASSUME ForumTypes, ForumCounts, NEW c \in ForumCalls, PostReply(c)
  PROVE  ForumTypes' /\ ForumCounts'
<1>1. CASE Live(Thread) /\ forumCall[c].user \in users
  <2>0. PICK r \in Replies :
              /\ posts[r] = "none"
              /\ posts' = [posts EXCEPT ![r] = "live"]
              /\ author' = [author EXCEPT ![r] = forumCall[c].user]
              /\ replyCount' = replyCount + 1
    BY <1>1 DEF PostReply
  <2>1. /\ forumCall' = [forumCall EXCEPT ![c] = Nothing]
        /\ UNCHANGED <<users, rows, upvotes, isLocked, accepted, cascaded, overlapped>>
    BY DEF PostReply, Leave
  <2>2. CallsHold(forumCall', rows')
    BY <2>1, NothingStands DEF ForumTypes, CallsHold
  <2>3. r \in Posts /\ r # Thread /\ ~Live(r) /\ Thread \in Posts
    BY <2>0, ForumAssumption DEF Posts, Live
  <2>4. LiveReplies' = LiveReplies \cup {r} /\ r \notin LiveReplies
    BY <2>0, <2>3 DEF LiveReplies, Live, ForumTypes, Posts
  <2>5. /\ IsFiniteSet(LiveReplies')
        /\ Cardinality(LiveReplies \cup {r}) = Cardinality(LiveReplies) + 1
        /\ Cardinality(LiveReplies) \in Nat
    BY <2>4, FS_AddElement, FS_CardinalityType DEF ForumTypes
  <2>6. posts' \in [Posts -> {"none", "live", "gone"}] /\ author' \in [Replies -> Users]
    BY <2>0, <2>3, <1>1 DEF ForumTypes
  <2>7. ForumTypes'
    BY <2>0, <2>1, <2>2, <2>4, <2>5, <2>6 DEF ForumTypes, CallsHold
  <2>8. ASSUME NEW q \in Posts
        PROVE  PostCounted(q)'
    <3>1. CASE q = r
      <4>1. RowsOf(q)' = {} /\ upvotes'[q] = 0 /\ cascaded'[q] = 0
        BY <2>0, <2>1, <2>3, <3>1 DEF ForumCounts, PostCounted, RowsOf
      <4>2. posts'[q] = "live"
        BY <2>0, <2>3, <3>1 DEF ForumTypes
      <4> QED
        BY <4>1, <4>2, FS_EmptySet DEF PostCounted, Live
    <3>2. CASE q # r
      <4>1. posts'[q] = posts[q] /\ RowsOf(q)' = RowsOf(q)
        BY <2>0, <2>1, <3>2 DEF RowsOf, ForumTypes
      <4> QED
        BY <2>1, <2>8, <4>1 DEF ForumCounts, PostCounted, Live
    <3> QED
      BY <3>1, <3>2
  <2>9. RepliesCounted'
    <3>1. posts'[Thread] = posts[Thread]
      BY <2>0, <2>3 DEF ForumTypes
    <3>2. cascaded["replies"] \in Nat /\ replyCount \in Nat
      BY DEF ForumTypes, Keys
    <3>3. replyCount = Cardinality(LiveReplies) + cascaded["replies"]
      BY <1>1 DEF ForumCounts, RepliesCounted
    <3>4. replyCount' = Cardinality(LiveReplies') + cascaded'["replies"]
      BY <2>0, <2>1, <2>4, <2>5, <3>2, <3>3
    <3> QED
      BY <1>1, <3>1, <3>4 DEF RepliesCounted, Live
  <2> QED
    BY <2>7, <2>8, <2>9 DEF ForumCounts
<1>2. CASE ~(Live(Thread) /\ forumCall[c].user \in users)
  <2>1. Leave(c) /\ UNCHANGED <<users, posts, author, rows, upvotes, replyCount, isLocked, accepted, cascaded, overlapped>>
    BY <1>2 DEF PostReply
  <2> QED
    BY <2>1, LeaveKeeps DEF ForumTypes
<1> QED
  BY <1>1, <1>2

(* Posts go, with their rows at least; what else goes is counted. *)
LEMMA RemoveKeeps ==
  ASSUME ForumTypes, ForumCounts,
         NEW gone \in SUBSET Posts, \A p \in gone : Live(p),
         NEW X, rows' = rows \ X, \A v \in rows : v[1] \in gone => v \in X,
         Remove(gone), forumCall' = ForgetRows(forumCall, X),
         users' \subseteq Users, UNCHANGED <<isLocked, overlapped>>,
         cascaded' \in [Keys -> Nat], replyCount' \in Nat,
         \A p \in Posts \ gone :
           /\ Live(p) => cascaded'[p] = cascaded[p] + Cardinality({v \in rows \cap X : v[1] = p})
           /\ posts[p] = "none" => cascaded'[p] = 0
  PROVE  /\ ForumTypes' /\ \A p \in Posts : PostCounted(p)'
         /\ LiveReplies' = LiveReplies \ gone
         /\ Live(Thread)' <=> Live(Thread) /\ Thread \notin gone
<1>1. CallsHold(forumCall', rows')
  BY CallsForget
<1>2. IsFiniteSet(rows') /\ rows' \subseteq Posts \X Users
  BY FS_Subset DEF ForumTypes
<1>3. \A p \in Posts : posts'[p] = IF p \in gone THEN "gone" ELSE posts[p]
  BY DEF Remove
<1>4. LiveReplies' = LiveReplies \ gone
  BY <1>3 DEF LiveReplies, Live, Posts
<1>5. IsFiniteSet(LiveReplies')
  BY <1>4, FS_Subset DEF ForumTypes
<1>6. accepted' \subseteq LiveReplies'
  BY <1>4 DEF ForumTypes, Remove
<1>7. posts' \in [Posts -> {"none", "live", "gone"}] /\ author' \in [Replies -> Users]
  BY ForumAssumption DEF Remove, ForumTypes
<1>8. upvotes' \in [Posts -> Nat]
  BY DEF Remove, ForumTypes
<1>9. ForumTypes'
  BY <1>1, <1>2, <1>5, <1>6, <1>7, <1>8 DEF ForumTypes, CallsHold
<1>10. ASSUME NEW p \in Posts
       PROVE  PostCounted(p)'
  <2>1. RowsOf(p)' = RowsOf(p) \ X
    BY DEF RowsOf
  <2>2. CASE p \in gone
    <3>1. RowsOf(p)' = {}
      BY <2>1, <2>2 DEF RowsOf
    <3> QED
      BY <1>3, <2>2, <3>1 DEF PostCounted, Live
  <2>3. CASE p \notin gone /\ Live(p)
    <3> DEFINE K == {v \in rows \cap X : v[1] = p}
    <3>1. RowsOf(p) \cap X = K /\ IsFiniteSet(RowsOf(p))
      BY RowsFinite DEF RowsOf
    <3>2. Cardinality(RowsOf(p)') = Cardinality(RowsOf(p)) - Cardinality(K)
      <4> DEFINE W == RowsOf(p)
      <4>1. IsFiniteSet(W) /\ W \cap X = K /\ RowsOf(p)' = W \ X
        BY <2>1, <3>1
      <4> HIDE DEF W, K
      <4>2. Cardinality(W \ X) = Cardinality(W) - Cardinality(W \cap X)
        BY <4>1, FS_Difference
      <4>3. Cardinality(RowsOf(p)') = Cardinality(W) - Cardinality(K)
        BY <4>1, <4>2
      <4> QED
        BY <4>3 DEF W
    <3>3. Cardinality(RowsOf(p)) \in Nat /\ Cardinality(K) \in Nat
      BY <3>1, FS_Intersection, FS_CardinalityType
    <3>4. upvotes[p] = Cardinality(RowsOf(p)) + cascaded[p] /\ cascaded[p] \in Nat
      BY <2>3 DEF ForumCounts, PostCounted, ForumTypes, Keys
    <3>5. cascaded'[p] = cascaded[p] + Cardinality(K)
      BY <2>3
    <3>6. upvotes'[p] = upvotes[p]
      BY <2>3 DEF Remove
    <3> HIDE DEF K
    <3>7. upvotes'[p] = Cardinality(RowsOf(p)') + cascaded'[p]
      BY <3>2, <3>3, <3>4, <3>5, <3>6
    <3> QED
      BY <1>3, <2>3, <3>7 DEF PostCounted, Live
  <2>4. CASE p \notin gone /\ ~Live(p)
    <3>1. upvotes'[p] = upvotes[p] /\ posts'[p] = posts[p]
      BY <1>3, <2>4 DEF Remove
    <3>2. RowsOf(p)' = {}
      BY <2>1, <2>4 DEF ForumCounts, PostCounted
    <3>3. posts[p] = "none" => upvotes'[p] = 0 /\ cascaded'[p] = 0
      BY <2>4, <3>1 DEF ForumCounts, PostCounted
    <3> QED
      BY <2>4, <3>1, <3>2, <3>3 DEF PostCounted, Live
  <2> QED
    BY <2>2, <2>3, <2>4
<1>11. Live(Thread)' <=> Live(Thread) /\ Thread \notin gone
  BY <1>3 DEF Live, Posts
<1> QED
  BY <1>4, <1>9, <1>10, <1>11

LEMMA DeleteReplyKeeps ==
  ASSUME ForumTypes, ForumCounts, NEW r \in Replies, DeleteReply(r)
  PROVE  ForumTypes' /\ ForumCounts'
<1>1. PICK gone, X : gone = {r} /\ X = RowsOf(r)
  OBVIOUS
<1>2. gone \in SUBSET Posts /\ (\A p \in gone : Live(p)) /\ Thread \notin gone /\ r \in LiveReplies
  BY <1>1, ForumAssumption DEF DeleteReply, Posts, LiveReplies
<1>3. rows' = rows \ X /\ \A v \in rows : v[1] \in gone => v \in X
  BY <1>1 DEF DeleteReply, RowsOf
<1>4. /\ Remove(gone) /\ forumCall' = ForgetRows(forumCall, X)
      /\ replyCount' = replyCount - 1 /\ UNCHANGED <<users, isLocked, overlapped, cascaded>>
  BY <1>1 DEF DeleteReply
<1>5. /\ IsFiniteSet(LiveReplies) /\ Cardinality(LiveReplies) \in Nat
      /\ Cardinality(LiveReplies \ gone) = Cardinality(LiveReplies) - 1
      /\ Cardinality(LiveReplies \ gone) \in Nat
  BY <1>1, <1>2, FS_RemoveElement, FS_CardinalityType DEF ForumTypes
<1>6. Live(Thread) /\ replyCount = Cardinality(LiveReplies) + cascaded["replies"]
  BY <1>2 DEF ForumCounts, RepliesCounted
<1>7. cascaded \in [Keys -> Nat] /\ cascaded["replies"] \in Nat /\ replyCount \in Nat
  BY DEF ForumTypes, Keys
<1>8. replyCount' = Cardinality(LiveReplies \ gone) + cascaded'["replies"]
  BY <1>4, <1>5, <1>6, <1>7
<1>9. replyCount' \in Nat /\ cascaded' \in [Keys -> Nat] /\ users' \subseteq Users
  BY <1>4, <1>5, <1>7, <1>8 DEF ForumTypes
<1>10. ASSUME NEW p \in Posts \ gone
       PROVE  /\ Live(p) => cascaded'[p] = cascaded[p] + Cardinality({v \in rows \cap X : v[1] = p})
              /\ posts[p] = "none" => cascaded'[p] = 0
  <2>1. {v \in rows \cap X : v[1] = p} = {}
    BY <1>1 DEF RowsOf
  <2>2. cascaded[p] \in Nat
    BY <1>7 DEF Keys
  <2>3. posts[p] = "none" => cascaded[p] = 0
    BY DEF ForumCounts, PostCounted
  <2>4. Cardinality({v \in rows \cap X : v[1] = p}) = 0 /\ cascaded'[p] = cascaded[p]
    BY <1>4, <2>1, FS_EmptySet
  <2> QED
    BY <2>2, <2>3, <2>4
<1>11. /\ ForumTypes' /\ \A p \in Posts : PostCounted(p)'
       /\ LiveReplies' = LiveReplies \ gone
       /\ Live(Thread)' <=> Live(Thread) /\ Thread \notin gone
  BY <1>2, <1>3, <1>4, <1>9, <1>10, RemoveKeeps
<1>12. RepliesCounted'
  BY <1>2, <1>6, <1>8, <1>11 DEF RepliesCounted
<1> QED
  BY <1>11, <1>12 DEF ForumCounts

LEMMA DeleteThreadKeeps ==
  ASSUME ForumTypes, ForumCounts, DeleteThread
  PROVE  ForumTypes' /\ ForumCounts'
<1>1. PICK gone, X : gone = {p \in Posts : Live(p)} /\ X = rows
  OBVIOUS
<1>2. gone \in SUBSET Posts /\ (\A p \in gone : Live(p)) /\ Thread \in gone
  BY <1>1 DEF DeleteThread, Posts
<1>3. rows' = rows \ X /\ \A v \in rows : v[1] \in gone => v \in X
  BY <1>1 DEF DeleteThread
<1>4. /\ Remove(gone) /\ forumCall' = ForgetRows(forumCall, X)
      /\ replyCount' = 0 /\ UNCHANGED <<users, isLocked, overlapped, cascaded>>
  BY <1>1 DEF DeleteThread
<1>5. replyCount' \in Nat /\ cascaded' \in [Keys -> Nat] /\ users' \subseteq Users
  BY <1>4 DEF ForumTypes
<1>6. ASSUME NEW p \in Posts \ gone
       PROVE  /\ Live(p) => cascaded'[p] = cascaded[p] + Cardinality({v \in rows \cap X : v[1] = p})
              /\ posts[p] = "none" => cascaded'[p] = 0
  BY <1>1, <1>4 DEF ForumCounts, PostCounted
<1>7. /\ ForumTypes' /\ \A p \in Posts : PostCounted(p)'
      /\ LiveReplies' = LiveReplies \ gone
      /\ Live(Thread)' <=> Live(Thread) /\ Thread \notin gone
  BY <1>2, <1>3, <1>4, <1>5, <1>6, RemoveKeeps
<1>8. LiveReplies \ gone = {}
  BY <1>1 DEF LiveReplies, Posts
<1>9. ~Live(Thread)' /\ LiveReplies' = {}
  BY <1>2, <1>7, <1>8
<1>10. RepliesCounted'
  BY <1>9 DEF RepliesCounted
<1>11. ForumTypes' /\ \A p \in Posts : PostCounted(p)'
  BY <1>7
<1> QED
  BY <1>10, <1>11 DEF ForumCounts

LEMMA PurgeUserKeeps ==
  ASSUME ForumTypes, ForumCounts, NEW u \in Users, PurgeUser(u)
  PROVE  ForumTypes' /\ ForumCounts'
<1>1. PICK gone, X : /\ gone = {p \in Posts : Live(p) /\ (u = Asker \/ (p # Thread /\ author[p] = u))}
                     /\ X = {v \in rows : v[2] = u \/ v[1] \in gone}
  OBVIOUS
<1>2. gone \in SUBSET Posts /\ \A p \in gone : Live(p)
  BY <1>1
<1>3. /\ users' = users \ {u} /\ Remove(gone) /\ forumCall' = ForgetRows(forumCall, X)
      /\ rows' = rows \ X
      /\ cascaded' = [k \in Keys |->
          IF u = Asker \/ k \in gone THEN 0
          ELSE IF k = "replies" THEN cascaded[k] + Cardinality(gone)
          ELSE cascaded[k] + Cardinality({v \in X : v[1] = k})]
      /\ replyCount' = IF u = Asker THEN 0 ELSE replyCount
      /\ UNCHANGED <<isLocked, overlapped>>
  BY <1>1 DEF PurgeUser, Keys
<1>4. \A v \in rows : v[1] \in gone => v \in X
  BY <1>1
<1>5. \A k : {v \in X : v[1] = k} = {v \in rows \cap X : v[1] = k}
  BY <1>1
<1>6. \A k : Cardinality({v \in X : v[1] = k}) \in Nat
  <2>1. \A k : {v \in X : v[1] = k} \subseteq rows
    BY <1>1
  <2> QED
    BY <2>1, FS_Subset, FS_CardinalityType DEF ForumTypes
<1>7. users' \subseteq Users /\ replyCount' \in Nat /\ cascaded \in [Keys -> Nat]
  BY <1>3 DEF ForumTypes
<1>8. CASE u = Asker
  <2>1. cascaded' \in [Keys -> Nat] /\ \A k \in Keys : cascaded'[k] = 0
    BY <1>3, <1>8
  <2>2. gone = {p \in Posts : Live(p)}
    BY <1>1, <1>8
  <2>3. ASSUME NEW p \in Posts \ gone
        PROVE  /\ Live(p) => cascaded'[p] = cascaded[p] + Cardinality({v \in rows \cap X : v[1] = p})
               /\ posts[p] = "none" => cascaded'[p] = 0
    BY <2>1, <2>2 DEF Keys
  <2>4. /\ ForumTypes' /\ \A p \in Posts : PostCounted(p)'
        /\ LiveReplies' = LiveReplies \ gone
        /\ Live(Thread)' <=> Live(Thread) /\ Thread \notin gone
    BY <1>2, <1>3, <1>4, <1>7, <2>1, <2>3, RemoveKeeps
  <2>5. LiveReplies \ gone = {} /\ ~Live(Thread)'
    BY <2>2, <2>4 DEF LiveReplies, Posts
  <2>6. RepliesCounted'
    BY <2>4, <2>5 DEF RepliesCounted
  <2> QED
    BY <2>4, <2>6 DEF ForumCounts
<1>9. CASE u # Asker
  <2>1. gone \subseteq LiveReplies /\ Thread \notin gone /\ "replies" \notin Posts
    BY <1>1, <1>9, ForumAssumption DEF LiveReplies, Posts
  <2>2. /\ IsFiniteSet(LiveReplies) /\ LiveReplies \cap gone = gone
        /\ Cardinality(gone) \in Nat /\ Cardinality(LiveReplies) \in Nat
        /\ Cardinality(LiveReplies \ gone) = Cardinality(LiveReplies) - Cardinality(gone)
    <3>1. IsFiniteSet(LiveReplies) /\ LiveReplies \cap gone = gone
      BY <2>1 DEF ForumTypes
    <3>2. IsFiniteSet(gone)
      BY <3>1, <2>1, FS_Subset
    <3>3. Cardinality(gone) \in Nat /\ Cardinality(LiveReplies) \in Nat
      BY <3>1, <3>2, FS_CardinalityType
    <3>4. Cardinality(LiveReplies \ gone) = Cardinality(LiveReplies) - Cardinality(LiveReplies \cap gone)
      BY <3>1, FS_Difference
    <3> QED
      BY <3>1, <3>3, <3>4
  <2>3. cascaded' \in [Keys -> Nat]
    <3> SUFFICES ASSUME NEW k \in Keys PROVE cascaded'[k] \in Nat
      BY <1>3
    <3>1. cascaded[k] \in Nat /\ Cardinality({v \in X : v[1] = k}) \in Nat
      BY <1>6, <1>7
    <3> HIDE <1>6
    <3> QED
      BY <1>3, <2>2, <3>1
  <2>4. ASSUME NEW p \in Posts \ gone
        PROVE  /\ Live(p) => cascaded'[p] = cascaded[p] + Cardinality({v \in rows \cap X : v[1] = p})
               /\ posts[p] = "none" => cascaded'[p] = 0
    <3>1. cascaded'[p] = cascaded[p] + Cardinality({v \in X : v[1] = p})
      BY <1>3, <1>9, <2>1 DEF Keys
    <3>2. posts[p] = "none" => {v \in X : v[1] = p} = {} /\ cascaded[p] = 0
      <4> SUFFICES ASSUME posts[p] = "none"
                   PROVE  {v \in X : v[1] = p} = {} /\ cascaded[p] = 0
        OBVIOUS
      <4>1. RowsOf(p) = {} /\ cascaded[p] = 0
        BY <1>1 DEF ForumCounts, PostCounted, Live
      <4> QED
        BY <1>1, <4>1 DEF RowsOf
    <3>3. posts[p] = "none" => cascaded'[p] = 0
      BY <3>1, <3>2, FS_EmptySet
    <3> QED
      BY <1>5, <3>1, <3>3
  <2>5. /\ ForumTypes' /\ \A p \in Posts : PostCounted(p)'
        /\ LiveReplies' = LiveReplies \ gone
        /\ Live(Thread)' <=> Live(Thread) /\ Thread \notin gone
    BY <1>2, <1>3, <1>4, <1>7, <2>3, <2>4, RemoveKeeps
  <2>6. cascaded'["replies"] = cascaded["replies"] + Cardinality(gone) /\ cascaded["replies"] \in Nat
    <3>1. "replies" \in Keys /\ "replies" \notin gone
      BY <1>2, <2>1 DEF Keys
    <3>2. cascaded["replies"] \in Nat
      BY <1>7, <3>1
    <3> QED
      BY <1>3, <1>9, <3>1, <3>2
  <2>7. Live(Thread) => replyCount' = Cardinality(LiveReplies') + cascaded'["replies"]
    <3>1. Live(Thread) => replyCount = Cardinality(LiveReplies) + cascaded["replies"]
      BY DEF ForumCounts, RepliesCounted
    <3>2. replyCount' = replyCount /\ Cardinality(LiveReplies') = Cardinality(LiveReplies) - Cardinality(gone)
      BY <1>3, <1>9, <2>2, <2>5
    <3> QED
      BY <2>2, <2>6, <3>1, <3>2
  <2>8. ~Live(Thread) => LiveReplies = {}
    BY DEF ForumCounts, RepliesCounted
  <2>9. RepliesCounted'
    BY <2>1, <2>5, <2>7, <2>8 DEF RepliesCounted
  <2> QED
    BY <2>5, <2>9 DEF ForumCounts
<1> QED
  BY <1>8, <1>9

(* The accept that begins, and the others that are in flight by then. *)
AcceptBegun(c, r, others, alone) ==
  /\ alone <=> others = {}
  /\ Live(r) /\ others \subseteq ForumCalls \ {c}
  /\ \A d \in ForumCalls : d # c /\ forumCall[d].does = "accept" => d \in others
  /\ forumCall' = [d \in ForumCalls |->
                     IF d = c THEN Accepting(r, accepted, alone)
                     ELSE IF d \in others THEN [forumCall[d] EXCEPT !.alone = FALSE]
                     ELSE forumCall[d]]

LEMMA BeginMeans ==
  ASSUME NEW c \in ForumCalls, BeginAccept(c)
  PROVE  \E r \in Replies, others \in SUBSET ForumCalls, alone \in BOOLEAN : AcceptBegun(c, r, others, alone)
<1>1. PICK others : others = {d \in ForumCalls \ {c} : forumCall[d].does = "accept"}
  OBVIOUS
<1>2. PICK alone \in BOOLEAN : alone = (others = {})
  <2>1. (others = {}) \in BOOLEAN
    OBVIOUS
  <2> QED
    BY <2>1
<1>3. PICK r \in Replies :
          /\ Live(r)
          /\ forumCall' = [d \in ForumCalls |->
                IF d = c THEN Accepting(r, accepted, others = {})
                ELSE IF d \in others THEN [forumCall[d] EXCEPT !.alone = FALSE]
                ELSE forumCall[d]]
  BY <1>1 DEF BeginAccept, Accepting, Unaccepted
<1>4. forumCall' = [d \in ForumCalls |->
                IF d = c THEN Accepting(r, accepted, alone)
                ELSE IF d \in others THEN [forumCall[d] EXCEPT !.alone = FALSE]
                ELSE forumCall[d]]
  BY <1>2, <1>3
<1>5. others \in SUBSET ForumCalls /\ AcceptBegun(c, r, others, alone)
  BY <1>1, <1>2, <1>3, <1>4 DEF AcceptBegun
<1> QED
  BY <1>5

LEMMA AcceptsKeep ==
  ASSUME ForumTypes, ForumCounts, NEW c \in ForumCalls, BeginAccept(c) \/ CommitAccept(c)
  PROVE  ForumTypes' /\ ForumCounts'
<1>1. CASE BeginAccept(c)
  <2>1. PICK r \in Replies, others \in SUBSET ForumCalls, alone \in BOOLEAN :
          /\ alone <=> others = {}
          /\ Live(r) /\ others \subseteq ForumCalls \ {c}
          /\ forumCall' = [d \in ForumCalls |->
                IF d = c THEN Accepting(r, accepted, alone)
                ELSE IF d \in others THEN [forumCall[d] EXCEPT !.alone = FALSE]
                ELSE forumCall[d]]
    <3>1. PICK r \in Replies, others \in SUBSET ForumCalls, alone \in BOOLEAN : AcceptBegun(c, r, others, alone)
      BY <1>1, BeginMeans
    <3> QED
      BY <3>1 DEF AcceptBegun
  <2>2. UNCHANGED <<users, posts, author, rows, upvotes, replyCount, isLocked, accepted,
                    cascaded, overlapped>>
    BY <1>1 DEF BeginAccept
  <2> DEFINE y == Accepting(r, accepted, alone)
             z(d) == [forumCall[d] EXCEPT !.alone = FALSE]
  <2>3. y \in ForumCallType /\ y.row = "none" /\ y.post = r
    <3>1. accepted \in SUBSET Replies
      BY DEF ForumTypes, LiveReplies
    <3> QED
      BY <3>1, AcceptingStands
  <2>4. ASSUME NEW d \in ForumCalls
        PROVE  /\ z(d) \in ForumCallType /\ z(d).does = forumCall[d].does /\ z(d).post = forumCall[d].post
               /\ z(d).user = forumCall[d].user /\ z(d).row = forumCall[d].row
    <3>1. ASSUME NEW x \in ForumCallType
          PROVE  LET w == [x EXCEPT !.alone = FALSE]
                 IN  w \in ForumCallType /\ w.does = x.does /\ w.post = x.post /\ w.user = x.user /\ w.row = x.row
      BY DEF ForumCallType
    <3> QED
      BY <3>1 DEF ForumTypes, CallsHold
  <2>5. forumCall' = [d \in ForumCalls |-> IF d = c THEN y ELSE IF d \in others THEN z(d) ELSE forumCall[d]]
    BY <2>1
  <2> HIDE DEF y, z
  <2>6. CallsHold(forumCall', rows)
    BY <2>3, <2>4, <2>5 DEF ForumTypes, CallsHold
  <2> QED
    BY <2>2, <2>6, CallsOnly DEF ForumTypes
<1>2. CASE CommitAccept(c)
  <2>1. Leave(c) /\ UNCHANGED <<users, posts, author, rows, upvotes, replyCount, isLocked, cascaded>>
    BY <1>2 DEF CommitAccept
  <2>2. forumCall[c].post \in Replies /\ forumCall[c].alone \in BOOLEAN
    BY <1>2 DEF CommitAccept, ForumTypes, CallsHold, ForumCallType
  <2>3. accepted' \subseteq LiveReplies /\ overlapped' \in BOOLEAN
    BY <1>2, <2>2 DEF CommitAccept, ForumTypes, LiveReplies
  <2> QED
    BY <2>1, <2>3, LeaveKeeps DEF ForumTypes
<1> QED
  BY <1>1, <1>2

LEMMA ForumStep ==
  ASSUME ForumTypes, ForumCounts, [ForumNext]_forumVars
  PROVE  ForumTypes' /\ ForumCounts'
<1>1. ASSUME NEW c \in ForumCalls, LookVote(c) \/ LookThread(c)
      PROVE  ForumTypes' /\ ForumCounts'
  <2>1. PICK x \in ForumCallType :
           /\ x.does \in {"vote", "reply"}
           /\ x.row = "seen" => <<x.post, x.user>> \in rows
           /\ forumCall' = [forumCall EXCEPT ![c] = x]
           /\ UNCHANGED <<users, posts, author, rows, upvotes, replyCount, isLocked, accepted,
                          cascaded, overlapped>>
    BY <1>1, LookMeans
  <2>2. CallsHold(forumCall, rows)
    BY DEF ForumTypes
  <2>3. CallsHold(forumCall', rows)
    BY <2>1, <2>2 DEF CallsHold
  <2> QED
    BY <2>1, <2>3, CallsOnly DEF ForumTypes
<1>2. ASSUME Moderate
      PROVE  ForumTypes' /\ ForumCounts'
  <2>1. CallsHold(forumCall', rows) /\ isLocked' \in BOOLEAN
    BY <1>2 DEF Moderate, ForumTypes
  <2> QED
    BY <1>2, <2>1, CallsOnly DEF Moderate, ForumTypes
<1>3. ASSUME UNCHANGED forumVars
      PROVE  ForumTypes' /\ ForumCounts'
  <2>1. CallsHold(forumCall', rows)
    BY <1>3 DEF forumVars, ForumTypes
  <2> QED
    BY <1>3, <2>1, CallsOnly DEF forumVars, ForumTypes
<1> QED
  BY <1>1, <1>2, <1>3, UnvoteKeeps, UpvoteKeeps, PostReplyKeeps, AcceptsKeep, DeleteReplyKeeps,
     DeleteThreadKeeps, PurgeUserKeeps DEF ForumNext

LEMMA ForumStarts ==
  ASSUME NEW starts, \A s \in starts : s[1] \subseteq Users, ForumInit(starts)
  PROVE  ForumTypes /\ ForumCounts
<1>1. /\ \A p \in Posts : posts[p] = "live" => p = Thread
      /\ posts \in [Posts -> {"none", "live", "gone"}] /\ users \subseteq Users
      /\ posts[Thread] = "live"
  BY DEF ForumInit, Posts
<1>2. LiveReplies = {}
  BY <1>1, ForumAssumption DEF LiveReplies, Live, Posts
<1>3. CallsHold(forumCall, rows)
  BY NothingStands DEF ForumInit, CallsHold
<1>4. ForumTypes
  BY <1>1, <1>2, <1>3, FS_EmptySet, ForumAssumption DEF ForumInit, ForumTypes, Keys
<1>5. ForumCounts
  <2>1. \A p \in Posts : RowsOf(p) = {} /\ upvotes[p] = 0 /\ cascaded[p] = 0
    BY DEF ForumInit, RowsOf, Keys
  <2>2. replyCount = 0 /\ cascaded["replies"] = 0 /\ Cardinality({}) = 0
    BY FS_EmptySet DEF ForumInit, Keys
  <2>3. RepliesCounted
    BY <1>2, <2>2 DEF RepliesCounted
  <2>4. \A p \in Posts : PostCounted(p)
    BY <2>1, <2>2 DEF PostCounted
  <2> QED
    BY <2>3, <2>4 DEF ForumCounts
<1> QED
  BY <1>4, <1>5

(* Posts, votes, replies and calls in flight keep their types, and only a   *)
(* live reply is accepted, whoever uses the forum.                          *)
THEOREM ForumTyped ==
  ASSUME NEW starts, \A s \in starts : s[1] \subseteq Users
  PROVE  ForumInit(starts) /\ [][ForumNext]_forumVars => []ForumTypeOK
<1>1. ForumInit(starts) => ForumTypes /\ ForumCounts
  BY ForumStarts
<1>2. ForumTypes /\ ForumCounts /\ [ForumNext]_forumVars => ForumTypes' /\ ForumCounts'
  BY ForumStep
<1>3. ForumTypes => ForumTypeOK
  BY DEF ForumTypes, ForumTypeOK, CallsHold, ForumCallType, LiveReplies, Keys
<1> QED
  BY <1>1, <1>2, <1>3, PTL

(* upvotes and reply_count equal the rows they count and what a purge took  *)
(* with it, however votes, replies and deletions overlap (upvote/route.ts,  *)
(* replies/route.ts, [replyId]/route.ts): for any users, replies and calls. *)
THEOREM CountersCountRows ==
  ASSUME NEW starts, \A s \in starts : s[1] \subseteq Users
  PROVE  ForumInit(starts) /\ [][ForumNext]_forumVars => []ForumCountsRows
<1>1. ForumInit(starts) => ForumTypes /\ ForumCounts
  BY ForumStarts
<1>2. ForumTypes /\ ForumCounts /\ [ForumNext]_forumVars => ForumTypes' /\ ForumCounts'
  BY ForumStep
<1>3. ForumTypes /\ ForumCounts => ForumCountsRows
  BY DEF ForumCounts, RepliesCounted, PostCounted, ForumCountsRows, LiveReplies
<1> QED
  BY <1>1, <1>2, <1>3, PTL

-----------------------------------------------------------------------------
(* An accept that runs alone takes back everything that is accepted. *)
AloneHolds(F, A) ==
  \A c \in ForumCalls :
    F[c].does = "accept" /\ F[c].alone =>
      A \subseteq F[c].old /\ \A d \in ForumCalls : F[d].does = "accept" => d = c

AcceptedApart ==
  /\ overlapped \/ \A a, b \in accepted : a = b
  /\ AloneHolds(forumCall, accepted)

LEMMA AcceptsForgotten ==
  ASSUME ForumTypes, NEW gone
  PROVE  /\ ForgetRows(forumCall, gone) \in [ForumCalls -> ForumCallType]
         /\ \A c \in ForumCalls :
              /\ ForgetRows(forumCall, gone)[c].does = forumCall[c].does
              /\ ForgetRows(forumCall, gone)[c].old = forumCall[c].old
              /\ ForgetRows(forumCall, gone)[c].alone = forumCall[c].alone
<1> DEFINE F == ForgetRows(forumCall, gone)
<1>1. /\ F \in [ForumCalls -> ForumCallType]
      /\ \A c \in ForumCalls :
              /\ F[c].does = forumCall[c].does
              /\ F[c].post = forumCall[c].post
              /\ F[c].user = forumCall[c].user
              /\ F[c].old = forumCall[c].old
              /\ F[c].alone = forumCall[c].alone
              /\ F[c].row = "seen" =>
                   /\ forumCall[c].row = "seen"
                   /\ <<forumCall[c].post, forumCall[c].user>> \notin gone
  BY Forgotten
<1> HIDE DEF F
<1>2. \A c \in ForumCalls : F[c].does = forumCall[c].does /\ F[c].old = forumCall[c].old /\ F[c].alone = forumCall[c].alone
  BY <1>1, Zenon
<1>3. F \in [ForumCalls -> ForumCallType]
  BY <1>1
<1>4. /\ F \in [ForumCalls -> ForumCallType]
      /\ \A c \in ForumCalls : F[c].does = forumCall[c].does /\ F[c].old = forumCall[c].old /\ F[c].alone = forumCall[c].alone
  BY <1>2, <1>3
<1> USE DEF F
<1> QED
  BY <1>4

LEMMA FewerAccepts ==
  ASSUME NEW F, NEW A, AloneHolds(F, A), NEW G, NEW B, B \subseteq A,
         \A c \in ForumCalls : G[c].does = "accept" =>
            F[c].does = "accept" /\ G[c].alone = F[c].alone /\ G[c].old = F[c].old
  PROVE  AloneHolds(G, B)
BY DEF AloneHolds

LEMMA AcceptStep ==
  ASSUME ForumTypes, AcceptedApart, [ForumNext]_forumVars
  PROVE  AcceptedApart'
<1> DEFINE Fewer == \A c \in ForumCalls : forumCall'[c].does = "accept" =>
                      /\ forumCall[c].does = "accept"
                      /\ forumCall'[c].alone = forumCall[c].alone /\ forumCall'[c].old = forumCall[c].old
<1>0. /\ forumCall \in [ForumCalls -> ForumCallType]
      /\ AloneHolds(forumCall, accepted)
      /\ \A F, A : AloneHolds(F, A)' <=> AloneHolds(F', A')
      /\ AloneHolds(forumCall, accepted)' <=> AloneHolds(forumCall', accepted')
  BY DEF ForumTypes, CallsHold, AcceptedApart, AloneHolds
<1>1. ASSUME Fewer, accepted' \subseteq accepted, overlapped' = overlapped
      PROVE  AcceptedApart'
  <2>1. AloneHolds(forumCall', accepted')
    BY <1>0, <1>1, FewerAccepts
  <2> QED
    BY <1>0, <1>1, <2>1 DEF AcceptedApart
<1>2. ASSUME NEW c \in ForumCalls, NEW x, x.does # "accept", forumCall' = [forumCall EXCEPT ![c] = x]
      PROVE  Fewer
  BY <1>0, <1>2
<1>3. ASSUME NEW c \in ForumCalls, LookVote(c) \/ LookThread(c)
      PROVE  AcceptedApart'
  <2>1. PICK x \in ForumCallType :
           /\ x.does \in {"vote", "reply"}
           /\ forumCall' = [forumCall EXCEPT ![c] = x]
           /\ UNCHANGED <<accepted, overlapped>>
    BY <1>3, LookMeans
  <2>2. Fewer
    BY <2>1, <1>2
  <2> HIDE DEF Fewer
  <2> QED
    BY <1>1, <2>1, <2>2
<1>4. ASSUME NEW gone
      PROVE  /\ ForgetRows(forumCall, gone) \in [ForumCalls -> ForumCallType]
             /\ \A c \in ForumCalls :
                  /\ ForgetRows(forumCall, gone)[c].does = forumCall[c].does
                  /\ ForgetRows(forumCall, gone)[c].old = forumCall[c].old
                  /\ ForgetRows(forumCall, gone)[c].alone = forumCall[c].alone
  BY AcceptsForgotten
<1>5. ASSUME NEW c \in ForumCalls, Upvote(c) \/ PostReply(c)
      PROVE  AcceptedApart'
  <2>1. forumCall' = [forumCall EXCEPT ![c] = Nothing] /\ UNCHANGED <<accepted, overlapped>>
    BY <1>5 DEF Upvote, PostReply, Leave
  <2>2. Fewer
    BY <2>1, <1>2, NothingStands
  <2> HIDE DEF Fewer
  <2> QED
    BY <1>1, <2>1, <2>2
<1>6. ASSUME NEW c \in ForumCalls, Unvote(c)
      PROVE  AcceptedApart'
  <2>1. CASE Found(c)
    <3>1. PICK gone : /\ forumCall' = [ForgetRows(forumCall, gone) EXCEPT ![c] = Nothing]
                      /\ UNCHANGED <<accepted, overlapped>>
      BY <1>6, <2>1 DEF Unvote
    <3>2. Fewer
      BY <1>4, <3>1, NothingStands
    <3> HIDE DEF Fewer
    <3> QED
      BY <1>1, <3>1, <3>2
  <2>2. CASE ~Found(c)
    <3>1. forumCall' = [forumCall EXCEPT ![c] = Nothing] /\ UNCHANGED <<accepted, overlapped>>
      BY <1>6, <2>2 DEF Unvote, Leave
    <3>2. Fewer
      BY <3>1, <1>2, NothingStands
    <3> HIDE DEF Fewer
    <3> QED
      BY <1>1, <3>1, <3>2
  <2> QED
    BY <2>1, <2>2
<1>7. ASSUME (\E r \in Replies : DeleteReply(r)) \/ DeleteThread \/ \E u \in Users : PurgeUser(u)
      PROVE  AcceptedApart'
  <2>1. PICK gone : forumCall' = ForgetRows(forumCall, gone)
    BY <1>7 DEF DeleteReply, DeleteThread, PurgeUser
  <2>2. accepted' \subseteq accepted /\ overlapped' = overlapped
    BY <1>7 DEF DeleteReply, DeleteThread, PurgeUser, Remove
  <2>3. Fewer
    BY <1>4, <2>1
  <2> HIDE DEF Fewer
  <2> QED
    BY <1>1, <2>2, <2>3
<1>8. ASSUME Moderate \/ UNCHANGED forumVars
      PROVE  AcceptedApart'
  <2>1. UNCHANGED <<forumCall, accepted, overlapped>>
    BY <1>8 DEF Moderate, forumVars
  <2> QED
    BY <1>1, <2>1
<1>9. ASSUME NEW c \in ForumCalls, BeginAccept(c)
      PROVE  AcceptedApart'
  <2>0. PICK r \in Replies, others \in SUBSET ForumCalls, alone \in BOOLEAN : AcceptBegun(c, r, others, alone)
    BY <1>9, BeginMeans
  <2>1. /\ alone <=> others = {}
        /\ others \subseteq ForumCalls \ {c}
        /\ \A d \in ForumCalls : d # c /\ forumCall[d].does = "accept" => d \in others
        /\ forumCall' = [d \in ForumCalls |->
                IF d = c THEN Accepting(r, accepted, alone)
                ELSE IF d \in others THEN [forumCall[d] EXCEPT !.alone = FALSE]
                ELSE forumCall[d]]
    BY <2>0 DEF AcceptBegun
  <2>2. UNCHANGED <<accepted, overlapped>>
    BY <1>9 DEF BeginAccept
  <2>3. PICK y : y = Accepting(r, accepted, alone)
    OBVIOUS
  <2>4. y.does = "accept" /\ y.old = accepted /\ y.alone = alone
    <3>1. accepted \in SUBSET Replies
      BY DEF ForumTypes, LiveReplies
    <3> QED
      BY <2>3, <3>1, AcceptingStands
  <2>5. \A x \in ForumCallType : ~[x EXCEPT !.alone = FALSE].alone
    BY DEF ForumCallType
  <2>6. /\ forumCall'[c] = y
        /\ \A d \in others : ~forumCall'[d].alone
        /\ \A d \in ForumCalls : d # c /\ d \notin others => forumCall'[d] = forumCall[d]
    BY <1>0, <2>1, <2>3, <2>5
  <2>7. AloneHolds(forumCall', accepted')
    <3> SUFFICES ASSUME NEW d \in ForumCalls, forumCall'[d].does = "accept", forumCall'[d].alone
                 PROVE  accepted \subseteq forumCall'[d].old
                        /\ \A e \in ForumCalls : forumCall'[e].does = "accept" => e = d
      BY <2>2 DEF AloneHolds
    <3>1. d = c
      BY <2>1, <2>6
    <3>2. others = {}
      BY <2>1, <2>4, <2>6, <3>1
    <3>3. \A e \in ForumCalls : forumCall'[e].does = "accept" => e = c
      BY <2>1, <2>6, <3>2
    <3> QED
      BY <2>4, <2>6, <3>1, <3>3
  <2> QED
    BY <1>0, <2>2, <2>7 DEF AcceptedApart
<1>10. ASSUME NEW c \in ForumCalls, CommitAccept(c)
       PROVE  AcceptedApart'
  <2>1. forumCall' = [forumCall EXCEPT ![c] = Nothing] /\ forumCall[c].does = "accept"
    BY <1>10 DEF CommitAccept, Leave
  <2>2. Fewer
    BY <2>1, <1>2, NothingStands
  <2>3. CASE Live(forumCall[c].post)
    <3>1. /\ accepted' = (accepted \ forumCall[c].old) \cup {forumCall[c].post}
          /\ overlapped' = ~forumCall[c].alone
      BY <1>10, <2>3 DEF CommitAccept
    <3>2. \A d \in ForumCalls : ~(forumCall'[d].does = "accept" /\ forumCall'[d].alone)
      <4> SUFFICES ASSUME NEW d \in ForumCalls, forumCall'[d].does = "accept", forumCall'[d].alone
                   PROVE  FALSE
        OBVIOUS
      <4>1. forumCall[d].does = "accept" /\ forumCall[d].alone
        BY <2>2
      <4>2. c = d
        BY <1>0, <2>1, <4>1 DEF AloneHolds
      <4> QED
        BY <1>0, <2>1, <4>2, NothingStands
    <3>3. AloneHolds(forumCall', accepted')
      BY <3>2 DEF AloneHolds
    <3>4. forumCall[c].alone => accepted' = {forumCall[c].post}
      BY <1>0, <2>1, <3>1 DEF AloneHolds
    <3> QED
      BY <1>0, <3>1, <3>3, <3>4 DEF AcceptedApart
  <2>4. CASE ~Live(forumCall[c].post)
    <3>1. UNCHANGED <<accepted, overlapped>>
      BY <1>10, <2>4 DEF CommitAccept
    <3> HIDE DEF Fewer
    <3> QED
      BY <1>1, <2>2, <3>1
  <2> QED
    BY <2>3, <2>4
<1> QED
  BY <1>3, <1>5, <1>6, <1>7, <1>8, <1>9, <1>10 DEF ForumNext

(* A thread has two accepted answers only after two accepts overlapped,     *)
(* and none that was deleted (accept/route.ts).                             *)
THEOREM AnswersOverlapOnly ==
  ASSUME NEW starts, \A s \in starts : s[1] \subseteq Users
  PROVE  ForumInit(starts) /\ [][ForumNext]_forumVars => []OneAcceptedAnswer
<1>1. ForumInit(starts) => ForumTypes /\ ForumCounts
  BY ForumStarts
<1>2. ForumTypes /\ ForumCounts /\ [ForumNext]_forumVars => ForumTypes' /\ ForumCounts'
  BY ForumStep
<1>3. ForumInit(starts) => AcceptedApart
  BY NothingStands DEF ForumInit, AcceptedApart, AloneHolds
<1>4. ForumTypes /\ AcceptedApart /\ [ForumNext]_forumVars => AcceptedApart'
  BY AcceptStep
<1>5. ForumTypes /\ AcceptedApart => OneAcceptedAnswer
  <2> SUFFICES ASSUME ForumTypes, AcceptedApart
               PROVE  OneAcceptedAnswer
    OBVIOUS
  <2>1. \A r \in accepted : Live(r)
    BY DEF ForumTypes, LiveReplies
  <2>2. ASSUME \A a, b \in accepted : a = b
        PROVE  Cardinality(accepted) <= 1
    <3>1. CASE accepted = {}
      BY <3>1, FS_EmptySet
    <3>2. CASE accepted # {}
      <4>1. PICK a \in accepted : accepted = {a}
        BY <2>2, <3>2
      <4> QED
        BY <4>1, FS_Singleton
    <3> QED
      BY <3>1, <3>2
  <2> QED
    BY <2>1, <2>2 DEF AcceptedApart, OneAcceptedAnswer
<1> QED
  BY <1>1, <1>2, <1>3, <1>4, <1>5, PTL

-----------------------------------------------------------------------------
(* Streaks. *)

LoginType == [current : Nat, longest : Nat, date : Day \cup {Never}, xp : Nat]
StreakType == [current : Nat, longest : Nat, date : Day \cup {Never}]
TabType ==
  [at : {"idle", "read", "upsert", "profile", "heatmap", "find", "create", "update"},
   row : LoginType, broken : BOOLEAN, day : Day, next : StreakType]

StreakTypes ==
  /\ half \in 0..LastHalf
  /\ login \in LoginType /\ offchain \in Nat
  /\ activity \in [Day -> [xp : Nat, learnt : BOOLEAN]]
  /\ streak \in StreakType
  /\ tab \in [Tabs -> TabType]
  /\ disturbed \in BOOLEAN /\ crashes \in 0..MaxCrashes

(* A login row holds the XP that its streak is worth. *)
Worth(r) == r.xp = 5 * r.current * (r.current + 1) /\ r.longest >= r.current

(* The days of a login row are in the heatmap, the days after it are not. *)
Recorded(A, r) ==
  /\ \A d \in Day : d > r.date => A[d].xp = 0
  /\ \A i \in 0..(r.current - 1) : /\ r.date - i \in Day
                                  /\ A[r.date - i].xp = DailyXp(r.current - i)

(* All but its last day are. *)
Pending(A, r) ==
  /\ r.date \in Day
  /\ \A d \in Day : d >= r.date => A[d].xp = 0
  /\ \A i \in 1..(r.current - 1) : /\ r.date - i \in Day
                                  /\ A[r.date - i].xp = DailyXp(r.current - i)

(* The streak row claims only days on which something was learnt. *)
Earned(A, s) ==
  \A i \in 0..(s.current - 1) : s.date - i \in Day /\ A[s.date - i].learnt

RowsHold ==
  /\ Worth(login)
  /\ \A t \in Tabs : LoggingIn(t) => Worth(tab[t].row) /\ tab[t].row.date \in Day

(* Until logins overlap or one dies, one tab writes at a time, and what it  *)
(* has not written yet is the only difference between the tables.           *)
LoginsApart ==
  ~disturbed =>
    /\ \A t, u \in Tabs : LoggingIn(t) /\ LoggingIn(u) => t = u
    /\ (\A t \in Tabs : ~LoggingIn(t)) => Recorded(activity, login) /\ offchain = login.xp
    /\ \A t \in Tabs :
         /\ LoggingIn(t) => Pending(activity, tab[t].row)
         /\ tab[t].at \in {"upsert", "profile"} => NewOffchain(t) = tab[t].row.xp
         /\ tab[t].at \in {"profile", "heatmap"} => login = tab[t].row
         /\ tab[t].at = "heatmap" => offchain = login.xp

(* What is recorded was learnt, and so is what a tab is about to record. *)
StreakEarned ==
  /\ Earned(activity, streak)
  /\ \A t \in Tabs :
       /\ tab[t].at = "find" => activity[tab[t].day].learnt
       /\ tab[t].at \in {"create", "update"} => Earned(activity, tab[t].next)

-----------------------------------------------------------------------------
LEMMA Days ==
  ASSUME StreakTypes
  PROVE  IstDay \in Day /\ UtcDay \in Day /\ 0 \in Day
BY StreakAssumption DEF StreakTypes, IstDay, UtcDay, Day

LEMMA RowsStart ==
  /\ NoLogin \in LoginType /\ NoStreak \in StreakType /\ Worth(NoLogin)
  /\ Idle \in TabType /\ Idle.at = "idle"
BY StreakAssumption DEF NoLogin, NoStreak, LoginType, StreakType, Idle, TabType, Never, Day, Worth

LEMMA NewRowStands ==
  ASSUME NEW row \in LoginType, NEW day \in Day, NEW broken \in BOOLEAN, Worth(row)
  PROVE  /\ NewRow(row, day, broken) \in LoginType /\ Worth(NewRow(row, day, broken))
         /\ NewRow(row, day, broken).date = day
         /\ NewRow(row, day, broken).current = IF broken \/ row = NoLogin THEN 1 ELSE row.current + 1
         /\ NewRow(row, day, broken).xp =
              IF broken THEN DailyXp(NewRow(row, day, broken).current)
              ELSE row.xp + DailyXp(NewRow(row, day, broken).current)
<1> DEFINE n == IF broken \/ row = NoLogin THEN 1 ELSE row.current + 1
           x == IF broken THEN DailyXp(n) ELSE row.xp + DailyXp(n)
           l == Larger(row.longest, n)
<1>1. NewRow(row, day, broken) = [current |-> n, longest |-> l, date |-> day, xp |-> x]
  BY DEF NewRow
<1>2. n \in Nat /\ l \in Nat /\ l >= n /\ x \in Nat
  BY DEF LoginType, Larger, DailyXp
<1>3. x = 5 * n * (n + 1)
  <2>1. CASE broken \/ row = NoLogin
    <3>1. n = 1 /\ x = 10
      BY <2>1 DEF DailyXp, NoLogin
    <3> QED
      BY <3>1
  <2>2. CASE ~(broken \/ row = NoLogin)
    <3>1. PICK c \in Nat : c = row.current
      BY DEF LoginType
    <3>2. n = c + 1 /\ x = 5 * c * (c + 1) + (c + 1) * 10
      BY <2>2, <3>1 DEF DailyXp, Worth
    <3>3. 5 * c * (c + 1) + (c + 1) * 10 = 5 * (c + 1) * (c + 1 + 1)
      BY <3>1
    <3> QED
      BY <3>2, <3>3
  <2> QED
    BY <2>1, <2>2
<1> HIDE DEF n, x, l
<1>4. NewRow(row, day, broken) \in LoginType
  BY <1>1, <1>2 DEF LoginType
<1>5. Worth(NewRow(row, day, broken))
  BY <1>1, <1>2, <1>3 DEF Worth
<1>6. NewRow(row, day, broken).date = day
  BY <1>1
<1> QED
  BY <1>1, <1>4, <1>5, <1>6 DEF n, x

-----------------------------------------------------------------------------
(* What a step does to the tab that takes it. *)
LEMMA StartLoginMeans ==
  ASSUME StreakTypes, NEW t \in Tabs, StartLogin(t)
  PROVE  \E x \in TabType : tab' = [tab EXCEPT ![t] = x] /\ x.at = "read"
<1>1. \A y \in TabType, d \in Day : LET x == [y EXCEPT !.at = "read", !.day = d]
                                   IN  x \in TabType /\ x.at = "read"
  BY DEF TabType
<1> DEFINE x == [tab[t] EXCEPT !.at = "read", !.day = IstDay]
<1>2. x \in TabType /\ x.at = "read"
  BY <1>1, Days DEF StreakTypes
<1>3. tab' = [tab EXCEPT ![t] = x]
  BY DEF StartLogin, StreakTypes, TabType
<1> HIDE DEF x
<1> QED
  BY <1>2, <1>3

LookedUp(y, broken, r) == [y EXCEPT !.at = "upsert", !.broken = broken, !.row = r, !.day = 0]
Computed(y, b, q) == [y EXCEPT !.at = b, !.next = q, !.day = 0]

LEMMA LookedUpStands ==
  ASSUME NEW y \in TabType, NEW r \in LoginType, NEW broken \in BOOLEAN, 0 \in Day
  PROVE  LET x == LookedUp(y, broken, r)
         IN  x \in TabType /\ x.at = "upsert" /\ x.broken = broken /\ x.row = r
BY DEF TabType, LookedUp

LEMMA ComputedStands ==
  ASSUME NEW y \in TabType, NEW b \in {"create", "update"}, NEW q \in StreakType, 0 \in Day
  PROVE  LET z == Computed(y, b, q)
         IN  z \in TabType /\ z.at = b /\ z.next = q
BY DEF TabType, Computed

LEMMA ReadLoginMeans ==
  ASSUME StreakTypes, Worth(login), NEW t \in Tabs, ReadLogin(t), login.date # tab[t].day
  PROVE  \E x \in TabType, broken \in BOOLEAN :
           /\ tab' = [tab EXCEPT ![t] = x]
           /\ x.at = "upsert" /\ x.broken = broken
           /\ broken <=> login # NoLogin /\ login.date # tab[t].day - 1
           /\ x.row = NewRow(login, tab[t].day, broken)
<1>1. PICK broken \in BOOLEAN : broken <=> login # NoLogin /\ login.date # tab[t].day - 1
  OBVIOUS
<1>2. broken = (login # NoLogin /\ login.date # tab[t].day - 1)
  BY <1>1
<1>3. tab' = [tab EXCEPT ![t].at = "upsert", ![t].broken = broken,
                         ![t].row = NewRow(login, tab[t].day, broken), ![t].day = 0]
  BY <1>2 DEF ReadLogin
<1> DEFINE r == NewRow(login, tab[t].day, broken)
           x == LookedUp(tab[t], broken, r)
<1>4. r \in LoginType
  BY NewRowStands DEF StreakTypes, TabType
<1> HIDE DEF r
<1>5. x \in TabType /\ x.at = "upsert" /\ x.broken = broken /\ x.row = r
  BY <1>4, Days, LookedUpStands DEF StreakTypes
<1>6. tab' = [tab EXCEPT ![t] = x]
  BY <1>3 DEF StreakTypes, TabType, r, LookedUp
<1> HIDE DEF x
<1> QED
  BY <1>1, <1>5, <1>6 DEF r

LEMMA LoginGoesOn ==
  ASSUME StreakTypes, NEW t \in Tabs, UpsertLogin(t) \/ UpdateProfile(t)
  PROVE  \E x \in TabType :
           /\ tab' = [tab EXCEPT ![t] = x]
           /\ UpsertLogin(t) => x.at = "profile" /\ x.broken = tab[t].broken
           /\ UpdateProfile(t) => x.at = "heatmap"
           /\ x.row = tab[t].row
<1>1. CASE UpsertLogin(t)
  <2>1. \A y \in TabType : LET x == [y EXCEPT !.at = "profile"]
                           IN x \in TabType /\ x.at = "profile" /\ x.broken = y.broken /\ x.row = y.row
    BY DEF TabType
  <2> DEFINE x == [tab[t] EXCEPT !.at = "profile"]
  <2>2. x \in TabType /\ x.at = "profile" /\ x.broken = tab[t].broken /\ x.row = tab[t].row
    BY <2>1 DEF StreakTypes
  <2>3. tab' = [tab EXCEPT ![t] = x] /\ ~UpdateProfile(t)
    BY <1>1 DEF UpsertLogin, UpdateProfile, StreakTypes, TabType
  <2> HIDE DEF x
  <2> QED
    BY <2>2, <2>3
<1>2. CASE UpdateProfile(t)
  <2>1. \A y \in TabType : LET x == [y EXCEPT !.at = "heatmap", !.broken = FALSE]
                           IN x \in TabType /\ x.at = "heatmap" /\ x.row = y.row
    BY DEF TabType
  <2> DEFINE x == [tab[t] EXCEPT !.at = "heatmap", !.broken = FALSE]
  <2>2. x \in TabType /\ x.at = "heatmap" /\ x.row = tab[t].row
    BY <2>1 DEF StreakTypes
  <2>3. tab' = [tab EXCEPT ![t] = x] /\ ~UpsertLogin(t)
    BY <1>2 DEF UpsertLogin, UpdateProfile, StreakTypes, TabType
  <2> HIDE DEF x
  <2> QED
    BY <2>2, <2>3
<1> QED
  BY <1>1, <1>2

LEMMA RecordMeans ==
  ASSUME StreakTypes, NEW t \in Tabs, RecordActivity(t)
  PROVE  \E x \in TabType : /\ tab' = [tab EXCEPT ![t] = x]
                            /\ x.at = "find" /\ x.day = UtcDay
<1>1. \A y \in TabType, d \in Day : LET x == [y EXCEPT !.at = "find", !.day = d]
                                   IN  x \in TabType /\ x.at = "find" /\ x.day = d
  BY DEF TabType
<1> DEFINE x == [tab[t] EXCEPT !.at = "find", !.day = UtcDay]
<1>2. x \in TabType /\ x.at = "find" /\ x.day = UtcDay
  BY <1>1, Days DEF StreakTypes
<1>3. tab' = [tab EXCEPT ![t] = x]
  BY DEF RecordActivity, StreakTypes, TabType
<1> HIDE DEF x
<1> QED
  BY <1>2, <1>3

LEMMA FindStreakMeans ==
  ASSUME StreakTypes, NEW t \in Tabs, FindStreak(t)
  PROVE  \E x \in TabType :
           /\ tab' = [tab EXCEPT ![t] = x]
           /\ x.at \in {"create", "update"}
           /\ x.next.current = Counted(streak, tab[t].day) /\ x.next.date = tab[t].day
<1> DEFINE n == Counted(streak, tab[t].day)
           s == [current |-> n, longest |-> Larger(streak.longest, n), date |-> tab[t].day]
           a == IF streak = NoStreak THEN "create" ELSE "update"
           x == Computed(tab[t], a, s)
<1>1. n \in Nat
  BY DEF Counted, StreakTypes, StreakType
<1>2. s \in StreakType /\ s.current = n /\ s.date = tab[t].day
  <2> HIDE DEF n
  <2> QED
    BY <1>1 DEF StreakTypes, StreakType, Larger, TabType
<1>3. a \in {"create", "update"}
  OBVIOUS
<1>4. tab' = [tab EXCEPT ![t] = x]
  <2>1. tab' = [tab EXCEPT ![t].at = a, ![t].next = s, ![t].day = 0]
    BY DEF FindStreak
  <2> HIDE DEF a, s
  <2> QED
    BY <2>1 DEF StreakTypes, TabType, Computed
<1> HIDE DEF n, s, a
<1>6. x \in TabType /\ x.at = a /\ x.next = s
  BY <1>2, <1>3, Days, ComputedStands, SMTT(40) DEF StreakTypes
<1> HIDE DEF x
<1> QED
  BY <1>2, <1>3, <1>4, <1>6 DEF n

-----------------------------------------------------------------------------
AllHolds == StreakTypes /\ RowsHold /\ LoginsApart /\ StreakEarned
AtLogin == {"upsert", "profile", "heatmap"}
AtRecord == {"find", "create", "update"}

(* A step of a tab that is not writing a login, and does not begin to. *)
LEMMA LoginRests ==
  ASSUME StreakTypes, RowsHold, LoginsApart, NEW t \in Tabs, NEW x \in TabType,
         tab' = [tab EXCEPT ![t] = x], ~LoggingIn(t), x.at \notin AtLogin,
         UNCHANGED <<login, offchain, disturbed>>,
         \A d \in Day : activity'[d].xp = activity[d].xp
  PROVE  RowsHold' /\ LoginsApart'
<1>1. \A r \in LoginType : /\ Recorded(activity', r) <=> Recorded(activity, r)
                           /\ Pending(activity', r) <=> Pending(activity, r)
  BY DEF Recorded, Pending
<1>2. \A u \in Tabs : LoggingIn(u)' <=> u # t /\ LoggingIn(u)
  BY DEF LoggingIn, StreakTypes, AtLogin
<1>3. \A u \in Tabs : u # t => tab'[u] = tab[u]
  BY DEF StreakTypes
<1>4. RowsHold'
  BY <1>2, <1>3 DEF RowsHold
<1>5. \A u \in Tabs : tab[u].row \in LoginType
  BY DEF StreakTypes, TabType
<1>6. LoginsApart'
  <2> SUFFICES ASSUME ~disturbed'
               PROVE  /\ \A u, v \in Tabs : LoggingIn(u)' /\ LoggingIn(v)' => u = v
                      /\ (\A u \in Tabs : ~LoggingIn(u)') =>
                            Recorded(activity', login') /\ offchain' = login'.xp
                      /\ \A u \in Tabs :
                           /\ LoggingIn(u)' => Pending(activity', tab'[u].row)
                           /\ tab'[u].at \in {"upsert", "profile"} => NewOffchain(u)' = tab'[u].row.xp
                           /\ tab'[u].at \in {"profile", "heatmap"} => login' = tab'[u].row
                           /\ tab'[u].at = "heatmap" => offchain' = login'.xp
    BY DEF LoginsApart, Recorded, Pending
  <2>1. ~disturbed /\ tab'[t] = x
    BY DEF StreakTypes
  <2>2. \A u, v \in Tabs : LoggingIn(u)' /\ LoggingIn(v)' => u = v
    BY <1>2, <2>1 DEF LoginsApart
  <2>3. (\A u \in Tabs : ~LoggingIn(u)') => Recorded(activity', login') /\ offchain' = login'.xp
    BY <1>1, <1>2, <2>1 DEF LoginsApart, StreakTypes
  <2>4. ASSUME NEW u \in Tabs
        PROVE  /\ LoggingIn(u)' => Pending(activity', tab'[u].row)
               /\ tab'[u].at \in {"upsert", "profile"} => NewOffchain(u)' = tab'[u].row.xp
               /\ tab'[u].at \in {"profile", "heatmap"} => login' = tab'[u].row
               /\ tab'[u].at = "heatmap" => offchain' = login'.xp
    <3>1. CASE u = t
      BY <1>2, <2>1, <3>1 DEF AtLogin
    <3>2. CASE u # t
      BY <1>1, <1>2, <1>3, <1>5, <2>1, <3>2 DEF LoginsApart, NewOffchain
    <3> QED
      BY <3>1, <3>2
  <2> QED
    BY <2>2, <2>3, <2>4
<1> QED
  BY <1>4, <1>6

(* A step of a tab that records nothing from then on. *)
LEMMA RecordRests ==
  ASSUME StreakTypes, StreakEarned, NEW t \in Tabs, NEW x \in TabType,
         tab' = [tab EXCEPT ![t] = x], x.at \notin AtRecord, Earned(activity, streak'),
         \A d \in Day : activity[d].learnt => activity'[d].learnt
  PROVE  StreakEarned'
<1>1. \A s : Earned(activity, s) => Earned(activity', s)
  BY DEF Earned
<1>2. Earned(activity', streak')
  BY <1>1
<1>3. ASSUME NEW u \in Tabs
      PROVE  /\ tab'[u].at = "find" => activity'[tab'[u].day].learnt
             /\ tab'[u].at \in {"create", "update"} => Earned(activity', tab'[u].next)
  <2>1. CASE u = t
    <3>1. tab'[u] = x
      BY <2>1 DEF StreakTypes
    <3> QED
      BY <3>1 DEF AtRecord
  <2>2. CASE u # t
    <3>1. tab'[u] = tab[u] /\ tab[u].day \in Day
      BY <2>2 DEF StreakTypes, TabType
    <3> QED
      BY <1>1, <3>1 DEF StreakEarned
  <2> QED
    BY <2>1, <2>2
<1> QED
  BY <1>2, <1>3 DEF StreakEarned, Earned

(* Writing one tab keeps the types. *)
LEMMA TabTyped ==
  ASSUME StreakTypes, NEW t \in Tabs, NEW x \in TabType, tab' = [tab EXCEPT ![t] = x]
  PROVE  /\ tab' \in [Tabs -> TabType] /\ tab'[t] = x
         /\ \A u \in Tabs : u # t => tab'[u] = tab[u]
BY DEF StreakTypes

LEMMA IdleKeeps ==
  ASSUME AllHolds, NEW t \in Tabs,
         \/ StartLogin(t)
         \/ ReadLogin(t) /\ login.date = tab[t].day
         \/ CallDies(t)
  PROVE  AllHolds'
<1>1. PICK x \in TabType : tab' = [tab EXCEPT ![t] = x] /\ x.at \notin AtLogin /\ x.at \notin AtRecord
  <2>1. CASE StartLogin(t)
    BY <2>1, StartLoginMeans DEF AllHolds, AtLogin, AtRecord
  <2>2. CASE ~StartLogin(t)
    <3>1. tab' = [tab EXCEPT ![t] = Idle]
      BY <2>2 DEF ReadLogin, CallDies
    <3> QED
      BY <3>1, RowsStart DEF AtLogin, AtRecord
  <2> QED
    BY <2>1, <2>2
<1>2. UNCHANGED <<half, login, offchain, activity, streak>>
  BY DEF StartLogin, ReadLogin, CallDies
<1>3. disturbed' = (disturbed \/ (CallDies(t) /\ LoggingIn(t)))
  BY DEF StartLogin, ReadLogin, CallDies, LoggingIn, AllHolds, StreakTypes
<1>4. disturbed' \in BOOLEAN /\ crashes' \in 0..MaxCrashes
  <2>1. disturbed' \in BOOLEAN
    BY <1>3, Zenon
  <2>2. crashes' = crashes \/ (crashes < MaxCrashes /\ crashes' = crashes + 1)
    BY DEF StartLogin, ReadLogin, CallDies
  <2>3. crashes' \in 0..MaxCrashes
    BY <2>2, StreakAssumption DEF AllHolds, StreakTypes
  <2> QED
    BY <2>1, <2>3
<1>5. StreakTypes'
  BY <1>1, <1>2, <1>4, TabTyped DEF AllHolds, StreakTypes
<1>6. StreakEarned'
  BY <1>1, <1>2, RecordRests DEF AllHolds, StreakEarned
<1>7. RowsHold' /\ LoginsApart'
  <2>1. CASE ~LoggingIn(t)
    <3>1. disturbed' = disturbed
      BY <1>3, <2>1 DEF AllHolds, StreakTypes
    <3> QED
      BY <1>1, <1>2, <2>1, <3>1, LoginRests DEF AllHolds
  <2>2. CASE LoggingIn(t)
    <3>1. CallDies(t)
      BY <2>2 DEF StartLogin, ReadLogin, LoggingIn
    <3>2. LoginsApart'
      BY <1>3, <2>2, <3>1 DEF LoginsApart
    <3>3. \A u \in Tabs : LoggingIn(u)' => LoggingIn(u) /\ tab'[u] = tab[u]
      BY <1>1, TabTyped DEF LoggingIn, AtLogin, AllHolds
    <3>4. RowsHold'
      BY <1>2, <3>3 DEF RowsHold, AllHolds
    <3> QED
      BY <3>2, <3>4
  <2> QED
    BY <2>1, <2>2
<1> QED
  BY <1>5, <1>6, <1>7 DEF AllHolds

LEMMA ReadLoginKeeps ==
  ASSUME AllHolds, NEW t \in Tabs, ReadLogin(t), login.date # tab[t].day
  PROVE  AllHolds'
<1>1. PICK x \in TabType, broken \in BOOLEAN :
        /\ tab' = [tab EXCEPT ![t] = x]
        /\ x.at = "upsert" /\ x.broken = broken
        /\ broken <=> login # NoLogin /\ login.date # tab[t].day - 1
        /\ x.row = NewRow(login, tab[t].day, broken)
  BY ReadLoginMeans DEF AllHolds, RowsHold
<1>2. /\ tab' \in [Tabs -> TabType] /\ tab'[t] = x
      /\ \A u \in Tabs : u # t => tab'[u] = tab[u]
  BY <1>1, TabTyped DEF AllHolds
<1>3. UNCHANGED <<half, login, offchain, activity, streak, crashes>>
  BY DEF ReadLogin
<1>4. disturbed' <=> disturbed \/ login.date > tab[t].day \/ \E u \in Tabs : LoggingIn(u)
  BY DEF ReadLogin
<1>5. disturbed' \in BOOLEAN
  BY DEF ReadLogin, AllHolds, StreakTypes
<1>6. StreakTypes'
  BY <1>2, <1>3, <1>5 DEF AllHolds, StreakTypes
<1>7. StreakEarned'
  BY <1>1, <1>3, RecordRests DEF AllHolds, StreakEarned, AtRecord
<1>8. PICK r, day : r = x.row /\ day = tab[t].day
  OBVIOUS
<1>9. login \in LoginType /\ day \in Day /\ Worth(login)
  BY <1>8 DEF AllHolds, StreakTypes, TabType, RowsHold
<1>10. /\ r \in LoginType /\ Worth(r) /\ r.date = day
       /\ r.current = IF broken \/ login = NoLogin THEN 1 ELSE login.current + 1
       /\ r.xp = IF broken THEN DailyXp(r.current) ELSE login.xp + DailyXp(r.current)
  BY <1>1, <1>8, <1>9, NewRowStands
<1>11. \A u \in Tabs : u # t => (LoggingIn(u)' <=> LoggingIn(u))
  BY <1>2 DEF LoggingIn
<1>12. RowsHold'
  BY <1>2, <1>3, <1>8, <1>9, <1>10, <1>11 DEF RowsHold, AllHolds
<1>13. LoginsApart'
  <2> SUFFICES ASSUME ~disturbed'
               PROVE  LoginsApart'
    BY DEF LoginsApart
  <2>1. ~disturbed /\ ~(login.date > day) /\ \A u \in Tabs : ~LoggingIn(u)
    BY <1>4, <1>8
  <2>2. Recorded(activity, login) /\ offchain = login.xp
    BY <2>1 DEF AllHolds, LoginsApart
  <2>3. login.date \in Int /\ day \in Int /\ login.current \in Nat /\ login.date < day
    <3>1. login.date \in Int /\ day \in Int /\ login.current \in Nat
      BY <1>9, StreakAssumption DEF LoginType, Day, Never
    <3> QED
      BY <1>8, <2>1, <3>1
  <2>4. Pending(activity, r)
    <3>1. \A d \in Day : d >= day => activity[d].xp = 0
      BY <2>2, <2>3, StreakAssumption DEF Recorded, Day
    <3>2. ASSUME NEW i \in 1..(r.current - 1)
          PROVE  day - i \in Day /\ activity[day - i].xp = DailyXp(r.current - i)
      <4>1. ~broken /\ login # NoLogin /\ r.current = login.current + 1
        BY <1>10, <2>3
      <4>2. login.date = day - 1
        BY <1>1, <1>8, <4>1
      <4>3. i - 1 \in 0..(login.current - 1)
        BY <2>3, <4>1
      <4>4. login.date - (i - 1) \in Day /\ activity[login.date - (i - 1)].xp = DailyXp(login.current - (i - 1))
        BY <2>2, <4>3 DEF Recorded
      <4>5. login.date - (i - 1) = day - i /\ login.current - (i - 1) = r.current - i
        BY <2>3, <4>1, <4>2
      <4> QED
        BY <4>4, <4>5
    <3> QED
      BY <1>9, <1>10, <3>1, <3>2 DEF Pending
  <2>5. NewOffchain(t)' = r.xp
    <3>1. NewOffchain(t)' = IF broken THEN DailyXp(r.current) ELSE offchain + DailyXp(r.current)
      BY <1>1, <1>2, <1>3, <1>8 DEF NewOffchain
    <3> QED
      BY <1>10, <2>2, <3>1
  <2>6. \A u \in Tabs : LoggingIn(u)' => u = t
    BY <1>11, <2>1
  <2>7. \A u \in Tabs : tab'[u].at \in AtLogin => u = t
    BY <2>6 DEF LoggingIn, AtLogin
  <2>8. LoggingIn(t)'
    BY <1>1, <1>2 DEF LoggingIn
  <2> QED
    BY <1>1, <1>2, <1>3, <1>8, <2>4, <2>5, <2>6, <2>7, <2>8 DEF LoginsApart, Pending, Recorded, AtLogin
<1> QED
  BY <1>6, <1>7, <1>12, <1>13 DEF AllHolds

LEMMA LoginGoesOnKeeps ==
  ASSUME AllHolds, NEW t \in Tabs, UpsertLogin(t) \/ UpdateProfile(t)
  PROVE  AllHolds'
<1>1. PICK x \in TabType :
        /\ tab' = [tab EXCEPT ![t] = x]
        /\ UpsertLogin(t) => x.at = "profile" /\ x.broken = tab[t].broken
        /\ UpdateProfile(t) => x.at = "heatmap"
        /\ x.row = tab[t].row
  BY LoginGoesOn DEF AllHolds
<1>2. /\ tab' \in [Tabs -> TabType] /\ tab'[t] = x
      /\ \A u \in Tabs : u # t => tab'[u] = tab[u]
  BY <1>1, TabTyped DEF AllHolds
<1>3. UNCHANGED <<half, activity, streak, disturbed, crashes>>
  BY DEF UpsertLogin, UpdateProfile
<1>4. PICK r : r = x.row /\ r = tab[t].row /\ r \in LoginType
  BY <1>1 DEF TabType
<1>5. LoggingIn(t) /\ LoggingIn(t)' /\ x.at \in AtLogin /\ x.at \notin AtRecord
  BY <1>1, <1>2 DEF LoggingIn, UpsertLogin, UpdateProfile, AtLogin, AtRecord
<1>6. \A u \in Tabs : LoggingIn(u)' <=> LoggingIn(u)
  BY <1>2, <1>5 DEF LoggingIn
<1>7. Worth(r) /\ r.date \in Day /\ Worth(login)
  BY <1>4, <1>5 DEF AllHolds, RowsHold
<1>8. \/ UpsertLogin(t) /\ login' = r /\ offchain' = offchain /\ x.at = "profile" /\ x.broken = tab[t].broken
      \/ UpdateProfile(t) /\ login' = login /\ offchain' = NewOffchain(t) /\ x.at = "heatmap"
  BY <1>1, <1>4 DEF UpsertLogin, UpdateProfile
<1>9. RowsHold'
  BY <1>2, <1>4, <1>6, <1>7, <1>8 DEF AllHolds, RowsHold
<1>10. StreakTypes'
  <2>1. r.current \in Nat /\ offchain \in Nat
    BY <1>4 DEF LoginType, AllHolds, StreakTypes
  <2>2. NewOffchain(t) \in Nat
    BY <1>4, <2>1 DEF NewOffchain, DailyXp
  <2>3. login' \in LoginType /\ offchain' \in Nat
    BY <1>4, <1>8, <2>1, <2>2 DEF AllHolds, StreakTypes
  <2> QED
    BY <1>2, <1>3, <2>3 DEF AllHolds, StreakTypes
<1>11. StreakEarned'
  BY <1>1, <1>3, <1>5, RecordRests DEF AllHolds, StreakEarned
<1>12. LoginsApart'
  <2> SUFFICES ASSUME ~disturbed'
               PROVE  LoginsApart'
    BY DEF LoginsApart
  <2>1. ~disturbed
    BY <1>3
  <2>2. \A u \in Tabs : LoggingIn(u) => u = t
    BY <1>5, <2>1 DEF AllHolds, LoginsApart
  <2>3. \A u \in Tabs : tab'[u].at \in AtLogin => u = t
    BY <1>6, <2>2 DEF LoggingIn, AtLogin
  <2>4. Pending(activity', tab'[t].row)
    BY <1>2, <1>3, <1>4, <1>5, <2>1 DEF AllHolds, LoginsApart
  <2>5. CASE UpsertLogin(t)
    <3>1. login' = r /\ offchain' = offchain /\ x.at = "profile" /\ x.broken = tab[t].broken
      BY <1>8, <2>5 DEF UpsertLogin, UpdateProfile
    <3>2. NewOffchain(t)' = NewOffchain(t)
      BY <1>2, <1>4, <3>1 DEF NewOffchain
    <3>3. NewOffchain(t)' = r.xp
      BY <1>4, <2>1, <2>5, <3>2 DEF AllHolds, LoginsApart, UpsertLogin
    <3> QED
      BY <1>2, <1>4, <1>5, <1>6, <2>2, <2>3, <2>4, <3>1, <3>3 DEF LoginsApart, Pending, AtLogin
  <2>6. CASE UpdateProfile(t)
    <3>1. login' = login /\ offchain' = NewOffchain(t) /\ x.at = "heatmap"
      BY <1>8, <2>6 DEF UpsertLogin, UpdateProfile
    <3>2. offchain' = r.xp /\ login' = r
      BY <1>4, <2>1, <2>6, <3>1 DEF AllHolds, LoginsApart, UpdateProfile
    <3> QED
      BY <1>2, <1>4, <1>5, <1>6, <2>2, <2>3, <2>4, <3>1, <3>2 DEF LoginsApart, Pending, AtLogin
  <2> QED
    BY <2>5, <2>6
<1> QED
  BY <1>9, <1>10, <1>11, <1>12 DEF AllHolds

LEMMA HeatmapKeeps ==
  ASSUME AllHolds, NEW t \in Tabs, UpsertHeatmap(t)
  PROVE  AllHolds'
<1>1. PICK r : r = tab[t].row /\ r \in LoginType
  BY DEF AllHolds, StreakTypes, TabType
<1>2. /\ activity' = [activity EXCEPT ![r.date].xp = @ + DailyXp(r.current)]
      /\ tab' = [tab EXCEPT ![t] = Idle] /\ tab[t].at = "heatmap"
      /\ UNCHANGED <<half, login, offchain, streak, disturbed, crashes>>
  BY <1>1 DEF UpsertHeatmap
<1>3. LoggingIn(t) /\ r.date \in Day /\ r.current \in Nat
  BY <1>1, <1>2 DEF AllHolds, RowsHold, LoggingIn, LoginType
<1>4. /\ tab' \in [Tabs -> TabType] /\ tab'[t] = Idle
      /\ \A u \in Tabs : u # t => tab'[u] = tab[u]
  BY <1>2, RowsStart, TabTyped DEF AllHolds
<1>5. /\ activity' \in [Day -> [xp : Nat, learnt : BOOLEAN]]
      /\ activity'[r.date].xp = activity[r.date].xp + DailyXp(r.current)
      /\ \A d \in Day : /\ d # r.date => activity'[d] = activity[d]
                        /\ activity'[d].learnt = activity[d].learnt
  <2>1. DailyXp(r.current) \in Nat
    BY <1>3 DEF DailyXp
  <2>2. activity \in [Day -> [xp : Nat, learnt : BOOLEAN]]
    BY DEF AllHolds, StreakTypes
  <2> QED
    BY <1>2, <1>3, <2>1, <2>2
<1>6. StreakTypes'
  BY <1>2, <1>4, <1>5 DEF AllHolds, StreakTypes
<1>7. StreakEarned'
  BY <1>2, <1>5, RowsStart, RecordRests DEF AllHolds, StreakEarned, AtRecord
<1>8. \A u \in Tabs : LoggingIn(u)' <=> u # t /\ LoggingIn(u)
  BY <1>4, RowsStart DEF LoggingIn
<1>9. RowsHold'
  BY <1>2, <1>4, <1>8 DEF AllHolds, RowsHold
<1>10. LoginsApart'
  <2> SUFFICES ASSUME ~disturbed'
               PROVE  LoginsApart'
    BY DEF LoginsApart
  <2>1. ~disturbed
    BY <1>2
  <2>2. \A u \in Tabs : ~LoggingIn(u)'
    BY <1>3, <1>8, <2>1 DEF AllHolds, LoginsApart
  <2>3. Pending(activity, r) /\ login = r /\ offchain = login.xp
    BY <1>1, <1>2, <1>3, <2>1 DEF AllHolds, LoginsApart
  <2>4. Recorded(activity', r)
    <3>1. r.date \in Int /\ activity[r.date].xp = 0
      BY <1>3, <2>3, StreakAssumption DEF Pending, Day
    <3>2. \A d \in Day : d > r.date => activity'[d].xp = 0
      <4> SUFFICES ASSUME NEW d \in Day, d > r.date
                   PROVE  activity'[d].xp = 0
        OBVIOUS
      <4>1. d \in Int
        BY StreakAssumption DEF Day
      <4>2. d >= r.date /\ d # r.date
        BY <3>1, <4>1
      <4> QED
        BY <1>5, <2>3, <4>2 DEF Pending
    <3>3. ASSUME NEW i \in 0..(r.current - 1)
          PROVE  r.date - i \in Day /\ activity'[r.date - i].xp = DailyXp(r.current - i)
      <4>1. CASE i = 0
        <5>1. activity'[r.date].xp = DailyXp(r.current)
          BY <1>3, <1>5, <3>1 DEF DailyXp
        <5> QED
          BY <1>3, <3>1, <4>1, <5>1
      <4>2. CASE i # 0
        <5>1. i \in 1..(r.current - 1) /\ r.date - i # r.date
          BY <1>3, <3>1, <4>2
        <5> QED
          BY <1>5, <2>3, <5>1 DEF Pending
      <4> QED
        BY <4>1, <4>2
    <3> QED
      BY <3>2, <3>3 DEF Recorded
  <2>5. \A u \in Tabs : tab'[u].at \notin AtLogin
    BY <2>2 DEF LoggingIn, AtLogin
  <2> QED
    BY <1>2, <2>2, <2>3, <2>4, <2>5 DEF LoginsApart, Recorded, AtLogin
<1> QED
  BY <1>6, <1>7, <1>9, <1>10 DEF AllHolds

(* Two places that are not a login's. *)
LEMMA RecordKeeps ==
  ASSUME AllHolds, NEW t \in Tabs, RecordActivity(t) \/ FindStreak(t)
  PROVE  AllHolds'
<1>1. CASE RecordActivity(t)
  <2>1. PICK x \in TabType : tab' = [tab EXCEPT ![t] = x] /\ x.at = "find" /\ x.day = UtcDay
    BY <1>1, RecordMeans DEF AllHolds
  <2>2. /\ tab[t].at = "idle" /\ activity' = [activity EXCEPT ![UtcDay].learnt = TRUE]
        /\ UNCHANGED <<half, login, offchain, streak, disturbed, crashes>>
    BY <1>1 DEF RecordActivity
  <2>3. PICK d : d = UtcDay /\ d \in Day
    BY Days DEF AllHolds
  <2>4. /\ activity' \in [Day -> [xp : Nat, learnt : BOOLEAN]]
        /\ \A e \in Day : /\ activity'[e].xp = activity[e].xp
                          /\ activity'[e].learnt <=> activity[e].learnt \/ e = d
    BY <2>2, <2>3 DEF AllHolds, StreakTypes
  <2>5. /\ tab' \in [Tabs -> TabType] /\ tab'[t] = x
        /\ \A u \in Tabs : u # t => tab'[u] = tab[u]
    BY <2>1, TabTyped DEF AllHolds
  <2>6. StreakTypes'
    BY <2>2, <2>4, <2>5 DEF AllHolds, StreakTypes
  <2>7. RowsHold' /\ LoginsApart'
    BY <2>1, <2>2, <2>4, LoginRests DEF AllHolds, LoggingIn, AtLogin
  <2>8. \A q : Earned(activity, q) => Earned(activity', q)
    BY <2>4 DEF Earned
  <2>9. \A u \in Tabs : tab[u].day \in Day
    BY DEF AllHolds, StreakTypes, TabType
  <2>10. \A u \in Tabs : /\ tab'[u].at = "find" => activity'[tab'[u].day].learnt
                         /\ tab'[u].at \in {"create", "update"} => Earned(activity', tab'[u].next)
    BY <2>1, <2>3, <2>4, <2>5, <2>8, <2>9 DEF AllHolds, StreakEarned
  <2>11. Earned(activity', streak')
    BY <2>2, <2>8 DEF AllHolds, StreakEarned
  <2>12. StreakEarned'
    BY <2>10, <2>11 DEF StreakEarned, Earned
  <2> QED
    BY <2>6, <2>7, <2>12 DEF AllHolds
<1>2. CASE FindStreak(t)
  <2>1. PICK x \in TabType :
           /\ tab' = [tab EXCEPT ![t] = x]
           /\ x.at \in {"create", "update"}
           /\ x.next.current = Counted(streak, tab[t].day) /\ x.next.date = tab[t].day
    BY <1>2, FindStreakMeans DEF AllHolds
  <2>2. /\ tab[t].at = "find"
        /\ UNCHANGED <<half, login, offchain, activity, streak, disturbed, crashes>>
    BY <1>2 DEF FindStreak
  <2>3. /\ tab' \in [Tabs -> TabType] /\ tab'[t] = x
        /\ \A u \in Tabs : u # t => tab'[u] = tab[u]
    BY <2>1, TabTyped DEF AllHolds
  <2>4. StreakTypes'
    BY <2>2, <2>3 DEF AllHolds, StreakTypes
  <2>5. RowsHold' /\ LoginsApart'
    BY <2>1, <2>2, LoginRests DEF AllHolds, LoggingIn, AtLogin
  <2>6. Earned(activity, x.next)
    <3>1. PICK day \in Day : day = tab[t].day /\ activity[day].learnt
      BY <2>2 DEF AllHolds, StreakTypes, TabType, StreakEarned
    <3>2. streak.date \in Int /\ streak.current \in Nat /\ day \in Int
      BY <3>1, StreakAssumption DEF AllHolds, StreakTypes, StreakType, Day, Never
    <3> SUFFICES ASSUME NEW i \in 0..(Counted(streak, day) - 1)
                 PROVE  day - i \in Day /\ activity[day - i].learnt
      BY <2>1, <3>1 DEF Earned
    <3>3. CASE i = 0
      BY <3>1, <3>2, <3>3
    <3>4. CASE i # 0 /\ streak.date = day
      <4>1. i \in 0..(streak.current - 1)
        BY <3>2, <3>4 DEF Counted
      <4>2. streak.date - i \in Day /\ activity[streak.date - i].learnt
        BY <4>1 DEF AllHolds, StreakEarned, Earned
      <4> QED
        BY <3>4, <4>2
    <3>5. CASE i # 0 /\ streak.date = day - 1
      <4>1. i - 1 \in 0..(streak.current - 1) /\ streak.date - (i - 1) = day - i
        BY <3>2, <3>5 DEF Counted
      <4>2. streak.date - (i - 1) \in Day /\ activity[streak.date - (i - 1)].learnt
        BY <4>1 DEF AllHolds, StreakEarned, Earned
      <4> QED
        BY <4>1, <4>2
    <3>6. CASE i # 0 /\ streak.date # day /\ streak.date # day - 1
      <4>1. Counted(streak, day) = 1
        BY <3>6 DEF Counted
      <4> QED
        BY <3>6, <4>1
    <3> QED
      BY <3>3, <3>4, <3>5, <3>6
  <2>7. \A u \in Tabs : /\ tab'[u].at = "find" => activity'[tab'[u].day].learnt
                        /\ tab'[u].at \in {"create", "update"} => Earned(activity', tab'[u].next)
    BY <2>1, <2>2, <2>3, <2>6 DEF AllHolds, StreakEarned
  <2>8. StreakEarned'
    BY <2>2, <2>7 DEF AllHolds, StreakEarned, Earned
  <2> QED
    BY <2>4, <2>5, <2>8 DEF AllHolds
<1> QED
  BY <1>1, <1>2

LEMMA WriteStreakKeeps ==
  ASSUME AllHolds, NEW t \in Tabs, CreateStreak(t) \/ UpdateStreak(t)
  PROVE  AllHolds'
<1>1. /\ tab[t].at \in {"create", "update"} /\ tab' = [tab EXCEPT ![t] = Idle]
      /\ streak' = streak \/ streak' = tab[t].next
      /\ UNCHANGED <<half, login, offchain, activity, disturbed, crashes>>
  BY DEF CreateStreak, UpdateStreak
<1>2. tab' \in [Tabs -> TabType]
  BY <1>1, RowsStart, TabTyped DEF AllHolds
<1>3. streak' \in StreakType /\ Earned(activity, streak')
  BY <1>1 DEF AllHolds, StreakTypes, TabType, StreakEarned
<1>4. StreakTypes'
  BY <1>1, <1>2, <1>3 DEF AllHolds, StreakTypes
<1>5. RowsHold' /\ LoginsApart'
  BY <1>1, RowsStart, LoginRests DEF AllHolds, LoggingIn, AtLogin
<1>6. StreakEarned'
  BY <1>1, <1>3, RowsStart, RecordRests DEF AllHolds, AtRecord
<1> QED
  BY <1>4, <1>5, <1>6 DEF AllHolds

LEMMA StreaksStep ==
  ASSUME AllHolds, [StreaksNext]_streakVars
  PROVE  AllHolds'
<1>1. ASSUME HalfDayPasses \/ UNCHANGED streakVars
      PROVE  AllHolds'
  <2>1. UNCHANGED <<login, offchain, activity, streak, tab, disturbed, crashes>>
    BY <1>1 DEF HalfDayPasses, streakVars
  <2>2. half' \in 0..LastHalf
    BY <1>1, StreakAssumption DEF HalfDayPasses, streakVars, AllHolds, StreakTypes
  <2>3. StreakTypes'
    BY <2>1, <2>2 DEF AllHolds, StreakTypes
  <2>4. RowsHold' /\ LoginsApart' /\ StreakEarned'
    BY <2>1 DEF AllHolds, RowsHold, LoginsApart, StreakEarned, LoggingIn, NewOffchain, Recorded,
                Pending, Earned, Worth
  <2> QED
    BY <2>3, <2>4 DEF AllHolds
<1>2. ASSUME NEW t \in Tabs, ReadLogin(t)
      PROVE  AllHolds'
  BY <1>2, IdleKeeps, ReadLoginKeeps
<1> QED
  BY <1>1, <1>2, IdleKeeps, LoginGoesOnKeeps, HeatmapKeeps, RecordKeeps, WriteStreakKeeps DEF StreaksNext

LEMMA StreaksStart ==
  ASSUME StreaksInit
  PROVE  AllHolds
<1>1. StreakTypes
  <2>1. NoActivity \in [xp : Nat, learnt : BOOLEAN]
    BY DEF NoActivity
  <2>2. activity \in [Day -> [xp : Nat, learnt : BOOLEAN]] /\ tab \in [Tabs -> TabType]
    BY <2>1, RowsStart DEF StreaksInit
  <2>3. half \in 0..LastHalf /\ crashes \in 0..MaxCrashes
    BY StreakAssumption DEF StreaksInit
  <2> QED
    BY <2>2, <2>3, RowsStart DEF StreaksInit, StreakTypes
<1>2. \A t \in Tabs : tab[t].at = "idle" /\ ~LoggingIn(t)
  BY RowsStart DEF StreaksInit, LoggingIn
<1>3. Recorded(activity, login) /\ offchain = login.xp
  BY DEF StreaksInit, Recorded, NoLogin, NoActivity
<1>4. Earned(activity, streak)
  BY DEF StreaksInit, Earned, NoStreak
<1>5. RowsHold /\ LoginsApart /\ StreakEarned
  BY <1>2, <1>3, <1>4, RowsStart DEF RowsHold, LoginsApart, StreakEarned, StreaksInit
<1> QED
  BY <1>1, <1>5 DEF AllHolds

-----------------------------------------------------------------------------
(* Ten for the first day of a streak, twenty for the second, and so on. *)
LEMMA StreakSum ==
  ASSUME NEW c \in Nat, NEW f \in [0..(c - 1) -> Int],
         \A i \in 0..(c - 1) : f[i] = DailyXp(c - i)
  PROVE  SumFunctionOnSet(f, 0..(c - 1)) = 5 * c * (c + 1)
<1> DEFINE D == 0..(c - 1)
<1>1. IsFiniteSet(D)
  <2>1. c - 1 \in Int /\ 0 \in Int
    OBVIOUS
  <2> QED
    BY <2>1, FS_Interval, Zenon
<1>2. f \in [D -> Int]
  OBVIOUS
<1>3. \A i \in D : f[i] = DailyXp(c - i)
  OBVIOUS
<1>4. PICK g : Summed(g, f, D) /\ SumFunctionOnSet(f, D) = g[D]
  <2> HIDE DEF D
  <2> QED
    BY <1>1, <1>2, SumIsSummed
<1>5. AnyOrder(g, f, D) /\ g[{}] = 0
  <2>1. AnyOrder(g, f, D)
    <3> HIDE DEF D
    <3> QED
      BY <1>1, <1>2, <1>4, SummedAnyOrder
  <2>2. {} \in SUBSET D
    OBVIOUS
  <2>3. g[{}] = 0
    <3> HIDE DEF D
    <3> QED
      BY <1>4, <2>2, SummedMeans
  <2> QED
    BY <2>1, <2>3
<1> DEFINE H == {k \in Nat : k <= c => g[(c - k)..(c - 1)] = 5 * k * (k + 1)}
<1>6. 0 \in H
  <2>1. (c - 0)..(c - 1) = {}
    OBVIOUS
  <2> QED
    BY <1>5, <2>1
<1>7. ASSUME NEW k \in Nat, k \in H
      PROVE  k + 1 \in H
  <2> SUFFICES ASSUME k + 1 <= c
               PROVE  g[(c - (k + 1))..(c - 1)] = 5 * (k + 1) * (k + 1 + 1)
    OBVIOUS
  <2>1. PICK s, i : s = (c - (k + 1))..(c - 1) /\ i = c - (k + 1)
    OBVIOUS
  <2>2. s \in SUBSET D /\ i \in s /\ i \in D /\ s \ {i} = (c - k)..(c - 1)
    <3>1. s \subseteq D /\ i \in s /\ i \in D
      BY <2>1
    <3>2. \A x \in Int : x \in (c - (k + 1))..(c - 1) /\ x # c - (k + 1) <=> x \in (c - k)..(c - 1)
      OBVIOUS
    <3>3. (c - k)..(c - 1) \subseteq Int /\ s \subseteq Int
      BY <2>1
    <3> QED
      BY <2>1, <3>1, <3>2, <3>3
  <2>3. g[s] = f[i] + g[s \ {i}]
    BY <1>5, <2>2 DEF AnyOrder
  <2>4. f[i] = (k + 1) * 10
    <3>1. c - i = k + 1
      BY <2>1
    <3>2. f[i] = DailyXp(c - i)
      BY <1>3, <2>2
    <3> QED
      BY <3>1, <3>2 DEF DailyXp
  <2>5. g[s \ {i}] = 5 * k * (k + 1)
    <3>1. k <= c
      OBVIOUS
    <3> QED
      BY <1>7, <2>2, <3>1
  <2>6. (k + 1) * 10 + 5 * k * (k + 1) = 5 * (k + 1) * (k + 1 + 1)
    OBVIOUS
  <2> QED
    BY <2>1, <2>3, <2>4, <2>5, <2>6
<1>8. c \in H
  <2>1. Nat \subseteq H
    <3> HIDE DEF H
    <3> QED
      BY <1>6, <1>7, SetInduction
  <2> QED
    BY <2>1
<1>9. (c - c)..(c - 1) = D
  OBVIOUS
<1>10. g[D] = 5 * c * (c + 1)
  BY <1>8, <1>9
<1> QED
  BY <1>4, <1>10

(* The rows, the calls and the history are typed. *)
THEOREM StreaksTyped == StreaksInit /\ [][StreaksNext]_streakVars => []StreaksTypeOK
<1>1. AllHolds => StreaksTypeOK
  BY DEF AllHolds, StreakTypes, StreaksTypeOK, TabType, LoginType, StreakType
<1>2. AllHolds /\ [StreaksNext]_streakVars => AllHolds'
  BY StreaksStep
<1> QED
  BY <1>1, <1>2, StreaksStart, PTL

(* Every day that streaks.current_streak counts has an activity, also when  *)
(* a call wrote what it computed from a row of the day before               *)
(* (record/route.ts): for any number of days and tabs.                      *)
THEOREM EveryDayWasLearnt == StreaksInit /\ [][StreaksNext]_streakVars => []StreakIsEarned
<1>1. AllHolds => StreakIsEarned
  BY DEF AllHolds, StreakEarned, Earned, StreakIsEarned
<1>2. AllHolds /\ [StreaksNext]_streakVars => AllHolds'
  BY StreaksStep
<1> QED
  BY <1>1, <1>2, StreaksStart, PTL

(* The login row is worth its XP whatever overlapped; without an overlap or *)
(* a crash the profile shows the same XP, and the heatmap adds up to it     *)
(* (daily-login/route.ts): for any number of days and tabs.                 *)
THEOREM TablesAgree == StreaksInit /\ [][StreaksNext]_streakVars => []ProfileFollowsLogin
<1>1. ASSUME AllHolds
      PROVE  ProfileFollowsLogin
  <2>1. Worth(login)
    BY <1>1 DEF AllHolds, RowsHold
  <2>2. PICK c \in Nat : c = login.current
    BY <1>1 DEF AllHolds, StreakTypes, LoginType
  <2> DEFINE f == [i \in 0..(c - 1) |-> activity[login.date - i].xp]
  <2>3. ASSUME ~disturbed, \A t \in Tabs : ~LoggingIn(t)
        PROVE  /\ offchain = login.xp
               /\ login.xp = SumFunctionOnSet(f, 0..(c - 1))
    <3>1. Recorded(activity, login) /\ offchain = login.xp
      BY <1>1, <2>3 DEF AllHolds, LoginsApart
    <3>2. \A i \in 0..(c - 1) : f[i] = DailyXp(c - i)
      BY <2>2, <3>1 DEF Recorded
    <3>3. f \in [0..(c - 1) -> Int]
      <4>1. \A i \in 0..(c - 1) : activity[login.date - i].xp \in Int
        BY <2>2, <3>1 DEF Recorded, DailyXp
      <4> QED
        BY <4>1
    <3>4. SumFunctionOnSet(f, 0..(c - 1)) = 5 * c * (c + 1)
      <4> HIDE DEF f
      <4> QED
        BY <3>2, <3>3, StreakSum
    <3> QED
      BY <2>1, <2>2, <3>1, <3>4 DEF Worth
  <2> QED
    BY <2>1, <2>2, <2>3 DEF Worth, ProfileFollowsLogin
<1>2. AllHolds /\ [StreaksNext]_streakVars => AllHolds'
  BY StreaksStep
<1> QED
  BY <1>1, <1>2, StreaksStart, PTL

-----------------------------------------------------------------------------
\* Each of the five components keeps its variables in their types, whichever of them
\* a behaviour runs: streaks, wallet sign-in, links, whitelist and forum.
THEOREM AccountsTyped == MCSpec => []AccountsTypeOK
<1> DEFINE IInv == /\ part \in Parts
                   /\ AllHolds /\ AuthIInv /\ LinkTypes /\ WhitelistTypeOK
                   /\ ForumTypes /\ ForumCounts
<1>1. MCInit => IInv
  <2> SUFFICES ASSUME MCInit
               PROVE  IInv
    OBVIOUS
  <2>1. part \in Parts /\ StreaksInit /\ LinksInit
    BY DEF MCInit
  <2>2. AuthIInv
    <3>1. \A stores : stores \subseteq BOOLEAN /\ AuthInit(stores) => AuthIInv
      BY AuthStarts
    <3> QED
      BY <3>1 DEF MCInit
  <2>3. WhitelistTypeOK
    <3>1. \A lists : (\A l \in lists : l \subseteq Admins) /\ WhitelistInit(lists) => WhitelistTypeOK
      BY WhitelistAssumption DEF WhitelistInit, WhitelistTypeOK, NoCall
    <3> QED
      BY <3>1 DEF MCInit, Lists
  <2>4. ForumTypes /\ ForumCounts
    <3>1. \A starts : (\A s \in starts : s[1] \subseteq Users) /\ ForumInit(starts) => ForumTypes /\ ForumCounts
      BY ForumStarts
    <3>2. \A s \in Starts \cup {<<Users, {}>>} : s[1] \subseteq Users
      BY ForumAssumption DEF Starts
    <3> QED
      BY <3>1, <3>2 DEF MCInit
  <2> QED
    BY <2>1, <2>2, <2>3, <2>4, StreaksStart, LinksStart
<1>2. IInv /\ [MCNext]_<<part, streakVars, authVars, linkVars, adminVars, forumVars>> => IInv'
  <2> SUFFICES ASSUME IInv, [MCNext]_<<part, streakVars, authVars, linkVars, adminVars, forumVars>>
               PROVE  IInv'
    OBVIOUS
  <2>1. /\ part' = part
        /\ [StreaksNext]_streakVars /\ [AuthNext]_authVars /\ [LinksNext]_linkVars
        /\ [WhitelistNext]_adminVars /\ [ForumNext]_forumVars
    BY DEF MCNext
  <2>2. WhitelistTypeOK'
    BY <2>1, WhitelistTypeStep DEF adminVars, WhitelistTypeOK
  <2> QED
    BY <2>1, <2>2, StreaksStep, AuthKeeps, LinkTypesStep, ForumStep
<1>3. IInv => AccountsTypeOK
  <2>1. AllHolds => StreaksTypeOK
    BY DEF AllHolds, StreakTypes, StreaksTypeOK, TabType, LoginType, StreakType
  <2>2. ForumTypes => ForumTypeOK
    BY DEF ForumTypes, ForumTypeOK, CallsHold, ForumCallType, LiveReplies, Keys
  <2>3. AuthIInv => WalletAuthTypeOK
    BY DEF AuthIInv
  <2> QED
    BY <2>1, <2>2, <2>3, LinkTypesMean DEF AccountsTypeOK, Parts
<1> QED
  BY <1>1, <1>2, <1>3, PTL DEF MCSpec
=============================================================================
