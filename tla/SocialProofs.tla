---------------------------- MODULE SocialProofs ----------------------------
(***************************************************************************)
(* Proofs about what members show each other, for every number of them, of *)
(* threads and of calls: follows, posts and their comments, displays, the  *)
(* places they are tagged with and the files attached to them.             *)
(***************************************************************************)
EXTENDS Follows, Posts, Displays, Geocodes, Medias, FiniteSetTheorems, TLAPS

-----------------------------------------------------------------------------
(***************************************************************************)
(* Proof that the counters of every profile are the numbers of its Follow  *)
(* rows until a profile edit overwrites them, for every number of members, *)
(* threads and calls.  FollowInv is inductive: each commit looks again at  *)
(* the row it writes, so what a call read before does not matter.          *)
(***************************************************************************)

\* The rows of a member can be counted.
LEMMA MembersCount ==
  ASSUME NEW S, S \subseteq Members
  PROVE  IsFiniteSet(S) /\ Cardinality(S) \in Nat
BY MembersFinite, FS_Subset, FS_CardinalityType

\* The beginning fits.
LEMMA FollowStart == FollowInit => FollowInv
<1>. SUFFICES ASSUME FollowInit PROVE FollowInv
  OBVIOUS
<1>1. FollowTypeOK
  <2>1. [v \in Members |-> 0] \in [Members -> 0 .. MaxEdges]
    BY FollowNats
  <2>2. edge \in [Members -> [Members -> 0 .. MaxEdges]]
    <3>. DEFINE nobody == [v \in Members |-> 0]
    <3>1. edge = [u \in Members |-> nobody]
      BY DEF FollowInit
    <3>2. nobody \in [Members -> 0 .. MaxEdges]
      BY <2>1
    <3>. HIDE DEF nobody
    <3>. QED
      BY <3>1, <3>2
  <2>3. /\ edgeKeys = 0 /\ followsLeft = MaxFollowCalls /\ overwritten = FALSE
        /\ followers = [u \in Members |-> 0] /\ following = [u \in Members |-> 0]
        /\ followCall = [t \in FollowThreads |-> FollowIdle]
    BY DEF FollowInit
  <2>4. edgeKeys \in 0 .. MaxEdges /\ followsLeft \in 0 .. MaxFollowCalls
    BY <2>3, FollowNats
  <2>5. followers \in [Members -> Nat] /\ following \in [Members -> Nat]
    BY <2>3
  <2>6. FollowIdle \in FollowCalls
    BY DEF FollowCalls
  <2>7. followCall \in [FollowThreads -> FollowCalls]
    BY <2>3, <2>6
  <2>8. overwritten \in BOOLEAN
    BY <2>3
  <2>. QED
    BY <2>2, <2>4, <2>5, <2>7, <2>8 DEF FollowTypeOK
<1>2. \A u \in Members : FollowersOf(u) = {} /\ FollowedBy(u) = {}
  BY DEF FollowInit, FollowersOf, FollowedBy
<1>3. FollowersExact
  BY <1>2, FS_EmptySet DEF FollowInit, FollowersExact
<1>. QED
  BY <1>1, <1>3 DEF FollowInv

\* A call carries members, and an unfollow the key of a row.
LEMMA CallTypes ==
  ASSUME FollowTypeOK, NEW t \in FollowThreads
  PROVE  LET c == followCall[t] IN
         /\ c.op = "follow" => c.u \in Members /\ c.v \in Members
         /\ c.op = "unfollow" => c.u \in Members /\ c.v \in Members /\ c.key \in 1 .. MaxEdges
         /\ c.op = "edit" => c.u \in Members /\ c.followers \in Nat /\ c.following \in Nat
<1>. followCall[t] \in FollowCalls
  BY DEF FollowTypeOK
<1>. QED
  BY DEF FollowCalls, FollowIdle

\* The types are kept.
LEMMA FollowTypeNext == FollowTypeOK /\ [FollowNext]_followVars => FollowTypeOK'
<1>. SUFFICES ASSUME FollowTypeOK, [FollowNext]_followVars PROVE FollowTypeOK'
  OBVIOUS
<1>. USE FollowNats DEF FollowTypeOK, graph, Return
<1>1. ASSUME NEW t \in FollowThreads, NEW c \in FollowCalls, TakeFollow(t, c)
      PROVE  FollowTypeOK'
  BY <1>1 DEF TakeFollow
<1>2. ASSUME NEW t \in FollowThreads, NEW u \in Members, NEW v \in Members,
             BeginFollow(t, u, v) \/ BeginUnfollow(t, u, v)
      PROVE  FollowTypeOK'
  <2>1. edge[u][v] \in 0 .. MaxEdges
    OBVIOUS
  <2>2. edge[u][v] # 0 =>
          [op |-> "unfollow", u |-> u, v |-> v, key |-> edge[u][v]] \in FollowCalls
    BY <2>1 DEF FollowCalls
  <2>3. [op |-> "follow", u |-> u, v |-> v] \in FollowCalls
    BY DEF FollowCalls
  <2>. QED
    BY <1>1, <1>2, <2>2, <2>3 DEF BeginFollow, BeginUnfollow
<1>3. ASSUME NEW t \in FollowThreads, NEW u \in Members, BeginEditProfile(t, u)
      PROVE  FollowTypeOK'
  <2>1. [op |-> "edit", u |-> u, followers |-> followers[u], following |-> following[u]]
          \in FollowCalls
    BY DEF FollowCalls
  <2>. QED
    BY <1>1, <1>3, <2>1 DEF BeginEditProfile
<1>4. ASSUME NEW t \in FollowThreads, Refused(t)
      PROVE  FollowTypeOK'
  BY <1>4 DEF Refused, FollowCalls
<1>5. ASSUME NEW t \in FollowThreads, CommitFollow(t)
      PROVE  FollowTypeOK'
  <2>. DEFINE c == followCall[t]
  <2>1. c.op = "follow" /\ c.u \in Members /\ c.v \in Members
    BY <1>5, CallTypes DEF CommitFollow
  <2>2. CASE Refused(t)
    BY <2>2, <1>4
  <2>3. CASE ~Refused(t)
    <3>1. /\ edgeKeys < MaxEdges /\ edgeKeys' = edgeKeys + 1
          /\ edge' = [edge EXCEPT ![c.u][c.v] = edgeKeys + 1]
          /\ following' = [following EXCEPT ![c.u] = @ + 1]
          /\ followers' = [followers EXCEPT ![c.v] = @ + 1]
          /\ Return(t) /\ UNCHANGED overwritten
      BY <1>5, <2>3 DEF CommitFollow
    <3>2. edgeKeys + 1 \in 0 .. MaxEdges
      BY <3>1
    <3>. QED
      BY <2>1, <3>1, <3>2 DEF FollowCalls
  <2>. QED
    BY <2>2, <2>3
<1>6. ASSUME NEW t \in FollowThreads, CommitUnfollow(t)
      PROVE  FollowTypeOK'
  <2>. DEFINE c == followCall[t]
  <2>1. c.op = "unfollow" /\ c.u \in Members /\ c.v \in Members
    BY <1>6, CallTypes DEF CommitUnfollow
  <2>2. CASE Refused(t)
    BY <2>2, <1>4
  <2>3. CASE ~Refused(t)
    <3>1. /\ Found(c)
          /\ edge' = [edge EXCEPT ![c.u][c.v] = 0]
          /\ following' = [following EXCEPT ![c.u] = @ - 1]
          /\ followers' = [followers EXCEPT ![c.v] = @ - 1]
          /\ Return(t) /\ UNCHANGED <<edgeKeys, overwritten>>
      BY <1>6, <2>3 DEF CommitUnfollow
    <3>2. following[c.u] - 1 \in Nat /\ followers[c.v] - 1 \in Nat
      BY <2>1, <3>1 DEF Found
    <3>. QED
      BY <2>1, <3>1, <3>2 DEF FollowCalls
  <2>. QED
    BY <2>2, <2>3
<1>7. ASSUME NEW t \in FollowThreads, CommitEditProfile(t)
      PROVE  FollowTypeOK'
  <2>. DEFINE c == followCall[t]
  <2>1. c.u \in Members /\ c.followers \in Nat /\ c.following \in Nat
    BY <1>7, CallTypes DEF CommitEditProfile
  <2>2. overwritten' \in BOOLEAN
    BY <1>7 DEF CommitEditProfile
  <2>. QED
    BY <1>7, <2>1, <2>2 DEF CommitEditProfile, FollowCalls
<1>8. ASSUME UNCHANGED followVars
      PROVE  FollowTypeOK'
  BY <1>8 DEF followVars
<1>. QED
  BY <1>2, <1>3, <1>5, <1>6, <1>7, <1>8 DEF FollowNext, FollowStep

\* A call that begins, is refused or does nothing leaves rows and counters.
LEMMA ExactUnchanged ==
  FollowersExact /\ UNCHANGED graph /\ UNCHANGED overwritten => FollowersExact'
BY DEF FollowersExact, FollowersOf, FollowedBy, graph

\* A new row is one more follower for the one and one more followed for the
\* other, and touches nobody else's rows.
LEMMA ExactFollow ==
  ASSUME FollowInv, NEW t \in FollowThreads, CommitFollow(t), ~Refused(t)
  PROVE  FollowersExact'
<1>. DEFINE c == followCall[t]
<1>0. FollowTypeOK /\ FollowersExact
  BY DEF FollowInv
<1>1. c.op = "follow" /\ c.u \in Members /\ c.v \in Members
  BY <1>0, CallTypes DEF CommitFollow
<1>2. /\ edge[c.u][c.v] = 0 /\ overwritten' = overwritten
      /\ edge' = [edge EXCEPT ![c.u][c.v] = edgeKeys + 1]
      /\ following' = [following EXCEPT ![c.u] = @ + 1]
      /\ followers' = [followers EXCEPT ![c.v] = @ + 1]
  BY DEF CommitFollow
<1>3. edgeKeys + 1 # 0
  BY <1>0, FollowNats DEF FollowTypeOK
<1>4. \A u, v \in Members :
        edge'[u][v] = IF u = c.u /\ v = c.v THEN edgeKeys + 1 ELSE edge[u][v]
  BY <1>0, <1>1, <1>2 DEF FollowTypeOK
<1>5. \A v \in Members : FollowersOf(v)' =
        IF v = c.v THEN FollowersOf(v) \cup {c.u} ELSE FollowersOf(v)
  BY <1>1, <1>3, <1>4 DEF FollowersOf
<1>6. \A u \in Members : FollowedBy(u)' =
        IF u = c.u THEN FollowedBy(u) \cup {c.v} ELSE FollowedBy(u)
  BY <1>1, <1>3, <1>4 DEF FollowedBy
<1>7. c.u \notin FollowersOf(c.v) /\ c.v \notin FollowedBy(c.u)
  BY <1>2 DEF FollowersOf, FollowedBy
<1>8. \A u \in Members : FollowersOf(u) \subseteq Members /\ FollowedBy(u) \subseteq Members
  BY DEF FollowersOf, FollowedBy
<1>9. /\ Cardinality(FollowersOf(c.v) \cup {c.u}) = Cardinality(FollowersOf(c.v)) + 1
      /\ Cardinality(FollowedBy(c.u) \cup {c.v}) = Cardinality(FollowedBy(c.u)) + 1
  BY <1>1, <1>7, <1>8, MembersCount, FS_AddElement
<1>10. \A u \in Members :
         /\ followers'[u] = IF u = c.v THEN followers[u] + 1 ELSE followers[u]
         /\ following'[u] = IF u = c.u THEN following[u] + 1 ELSE following[u]
  BY <1>0, <1>1, <1>2 DEF FollowTypeOK
<1>11. ASSUME ~overwritten, NEW u \in Members
       PROVE  /\ followers'[u] = Cardinality(FollowersOf(u)')
              /\ following'[u] = Cardinality(FollowedBy(u)')
  <2>1. followers[u] = Cardinality(FollowersOf(u)) /\ following[u] = Cardinality(FollowedBy(u))
    BY <1>0, <1>11 DEF FollowersExact
  <2>2. followers'[u] = Cardinality(FollowersOf(u)')
    BY <1>5, <1>9, <1>10, <2>1
  <2>3. following'[u] = Cardinality(FollowedBy(u)')
    BY <1>6, <1>9, <1>10, <2>1
  <2>. QED
    BY <2>2, <2>3
<1>. QED
  BY <1>2, <1>11 DEF FollowersExact

\* An unfollow takes back exactly what its row had added.
LEMMA ExactUnfollow ==
  ASSUME FollowInv, NEW t \in FollowThreads, CommitUnfollow(t), ~Refused(t)
  PROVE  FollowersExact'
<1>. DEFINE c == followCall[t]
<1>0. FollowTypeOK /\ FollowersExact
  BY DEF FollowInv
<1>1. c.op = "unfollow" /\ c.u \in Members /\ c.v \in Members /\ c.key \in 1 .. MaxEdges
  BY <1>0, CallTypes DEF CommitUnfollow
<1>2. /\ Found(c) /\ overwritten' = overwritten
      /\ edge' = [edge EXCEPT ![c.u][c.v] = 0]
      /\ following' = [following EXCEPT ![c.u] = @ - 1]
      /\ followers' = [followers EXCEPT ![c.v] = @ - 1]
  BY DEF CommitUnfollow
<1>3. edge[c.u][c.v] # 0
  BY <1>1, <1>2 DEF Found
<1>4. \A u, v \in Members :
        edge'[u][v] = IF u = c.u /\ v = c.v THEN 0 ELSE edge[u][v]
  BY <1>0, <1>1, <1>2 DEF FollowTypeOK
<1>5. \A v \in Members : FollowersOf(v)' =
        IF v = c.v THEN FollowersOf(v) \ {c.u} ELSE FollowersOf(v)
  BY <1>1, <1>4 DEF FollowersOf
<1>6. \A u \in Members : FollowedBy(u)' =
        IF u = c.u THEN FollowedBy(u) \ {c.v} ELSE FollowedBy(u)
  BY <1>1, <1>4 DEF FollowedBy
<1>7. c.u \in FollowersOf(c.v) /\ c.v \in FollowedBy(c.u)
  BY <1>1, <1>3 DEF FollowersOf, FollowedBy
<1>8. \A u \in Members : FollowersOf(u) \subseteq Members /\ FollowedBy(u) \subseteq Members
  BY DEF FollowersOf, FollowedBy
<1>9. /\ Cardinality(FollowersOf(c.v) \ {c.u}) = Cardinality(FollowersOf(c.v)) - 1
      /\ Cardinality(FollowedBy(c.u) \ {c.v}) = Cardinality(FollowedBy(c.u)) - 1
  BY <1>1, <1>7, <1>8, MembersCount, FS_RemoveElement
<1>10. \A u \in Members :
         /\ followers'[u] = IF u = c.v THEN followers[u] - 1 ELSE followers[u]
         /\ following'[u] = IF u = c.u THEN following[u] - 1 ELSE following[u]
  BY <1>0, <1>1, <1>2 DEF FollowTypeOK
<1>11. ASSUME ~overwritten, NEW u \in Members
       PROVE  /\ followers'[u] = Cardinality(FollowersOf(u)')
              /\ following'[u] = Cardinality(FollowedBy(u)')
  <2>1. followers[u] = Cardinality(FollowersOf(u)) /\ following[u] = Cardinality(FollowedBy(u))
    BY <1>0, <1>11 DEF FollowersExact
  <2>2. followers'[u] = Cardinality(FollowersOf(u)')
    BY <1>5, <1>9, <1>10, <2>1
  <2>3. following'[u] = Cardinality(FollowedBy(u)')
    BY <1>6, <1>9, <1>10, <2>1
  <2>. QED
    BY <2>2, <2>3
<1>. QED
  BY <1>2, <1>11 DEF FollowersExact

\* An edit that has overwritten nothing has written what was there.
LEMMA ExactEdit ==
  ASSUME FollowInv, NEW t \in FollowThreads, CommitEditProfile(t)
  PROVE  FollowersExact'
<1>. DEFINE c == followCall[t]
<1>0. FollowTypeOK /\ FollowersExact
  BY DEF FollowInv
<1>1. c.u \in Members
  BY <1>0, CallTypes DEF CommitEditProfile
<1>2. CASE overwritten'
  BY <1>2 DEF FollowersExact
<1>3. CASE ~overwritten'
  <2>1. c.followers = followers[c.u] /\ c.following = following[c.u] /\ ~overwritten
    BY <1>3 DEF CommitEditProfile
  <2>2. followers' = followers /\ following' = following /\ edge' = edge
    BY <1>0, <1>1, <2>1 DEF CommitEditProfile, FollowTypeOK
  <2>. QED
    BY <1>0, <2>1, <2>2 DEF FollowersExact, FollowersOf, FollowedBy
<1>. QED
  BY <1>2, <1>3

\* Every step keeps the invariant.
LEMMA FollowStepKeeps == FollowInv /\ [FollowNext]_followVars => FollowInv'
<1>. SUFFICES ASSUME FollowInv, [FollowNext]_followVars PROVE FollowersExact'
  BY FollowTypeNext DEF FollowInv
<1>1. ASSUME NEW t \in FollowThreads, FollowStep(t)
      PROVE  FollowersExact'
  <2>1. CASE \E u, v \in Members : BeginFollow(t, u, v) \/ BeginUnfollow(t, u, v)
    BY <2>1, ExactUnchanged DEF FollowInv, BeginFollow, BeginUnfollow, TakeFollow
  <2>2. CASE \E u \in Members : BeginEditProfile(t, u)
    BY <2>2, ExactUnchanged DEF FollowInv, BeginEditProfile, TakeFollow
  <2>3. CASE Refused(t)
    BY <2>3, ExactUnchanged DEF FollowInv, Refused
  <2>4. CASE CommitFollow(t) /\ ~Refused(t)
    BY <2>4, ExactFollow
  <2>5. CASE CommitUnfollow(t) /\ ~Refused(t)
    BY <2>5, ExactUnfollow
  <2>6. CASE CommitEditProfile(t)
    BY <2>6, ExactEdit
  <2>. QED
    BY <1>1, <2>1, <2>2, <2>3, <2>4, <2>5, <2>6 DEF FollowStep
<1>2. ASSUME UNCHANGED followVars
      PROVE  FollowersExact'
  BY <1>2, ExactUnchanged DEF FollowInv, followVars
<1>. QED
  BY <1>1, <1>2 DEF FollowNext

\* Until an edit writes old counters back, the counters of every profile are
\* the numbers of its rows.
THEOREM FollowCountersExact == FollowSpec => []FollowInv
BY FollowStart, FollowStepKeeps, PTL DEF FollowSpec

-----------------------------------------------------------------------------
(***************************************************************************)
(* Posts: the counters against the rows, and threads one level deep.       *)
(*                                                                         *)
(* A comment is inserted under the parent that was looked at before the    *)
(* transaction.  ReadsStand says that what was seen then still holds:      *)
(* comments are only marked, and a comment at the top stays there.         *)
(***************************************************************************)

\* Sets of readers can be counted.
LEMMA ReadersCount ==
  ASSUME NEW S, S \subseteq Readers
  PROVE  IsFiniteSet(S) /\ Cardinality(S) \in Nat
BY ReadersFinite, FS_Subset, FS_CardinalityType

\* Sets of comments can be counted.
LEMMA CommentsCount ==
  ASSUME NEW S, S \subseteq PostComments
  PROVE  IsFiniteSet(S) /\ Cardinality(S) \in Nat
BY CommentsFinite, FS_Subset, FS_CardinalityType

\* The beginning fits.
LEMMA PostStart == PostInit => PostInv
<1>. SUFFICES ASSUME PostInit PROVE PostInv
  OBVIOUS
<1>1. PostTypeOK
  <2>1. /\ Resting \in PostCalls /\ MaxPostCalls \in 0 .. MaxPostCalls /\ 0 \in 0 .. MaxLikes
        /\ NoComment \in CommentRows \cup {NoComment} /\ NoCounts \in Counts
    BY PostBounds DEF PostCalls, NoCounts, Counts
  <2>2. /\ like \in [Readers -> 0 .. MaxLikes] /\ postCall \in [PostThreads -> PostCalls]
        /\ comment \in [PostComments -> CommentRows \cup {NoComment}]
    BY <2>1 DEF PostInit
  <2>. QED
    BY <2>1, <2>2 DEF PostInit, PostTypeOK
<1>2. Liked = {} /\ Commented = {} /\ reshare = {}
  BY DEF PostInit, Liked, Commented
<1>3. CountersExact
  BY <1>2, FS_EmptySet DEF PostInit, NoCounts, CountersExact
<1>4. RepliesRooted /\ LikesDistinct
  BY <1>2 DEF RepliesRooted, LikesDistinct
<1>5. ReadsStand
  BY DEF PostInit, ReadsStand, Resting
<1>. QED
  BY <1>1, <1>3, <1>4, <1>5 DEF PostInv

\* A call carries what it is about.
LEMMA PostCallTypes ==
  ASSUME PostTypeOK, NEW t \in PostThreads
  PROVE  LET c == postCall[t] IN
         /\ c.op \in {"like", "unlike", "reshare", "unreshare"} => c.u \in Readers
         /\ c.op = "unlike" => c.key \in 1 .. MaxLikes
         /\ c.op = "comment" => c.parent \in SUBSET PostComments
         /\ c.op = "uncomment" => c.c \in PostComments
         /\ c.op = "edit" => c.copy.live = TRUE /\ c.copy.count \in Counts
<1>. postCall[t] \in PostCalls
  BY DEF PostTypeOK
<1>1. CASE postCall[t] = Resting \/ postCall[t] = [op |-> "delete"]
  BY <1>1 DEF Resting
<1>2. CASE postCall[t] \in [op : {"like", "reshare", "unreshare"}, u : Readers]
  BY <1>2
<1>3. CASE postCall[t] \in [op : {"unlike"}, u : Readers, key : 1 .. MaxLikes]
  BY <1>3
<1>4. CASE postCall[t] \in [op : {"comment"}, parent : SUBSET PostComments]
  BY <1>4
<1>5. CASE postCall[t] \in [op : {"uncomment"}, c : PostComments]
  BY <1>5
<1>6. CASE postCall[t] \in [op : {"edit"}, copy : [live : {TRUE}, count : Counts]]
  BY <1>6
<1>. QED
  BY <1>1, <1>2, <1>3, <1>4, <1>5, <1>6 DEF PostCalls

\* A comment that exists is a row.
LEMMA CommentRow ==
  ASSUME PostTypeOK, NEW c \in Commented
  PROVE  /\ c \in PostComments /\ comment[c] \in CommentRows
         /\ comment[c].parent \in SUBSET PostComments /\ comment[c].replies \in Nat
         /\ comment[c].live \in BOOLEAN
<1>1. c \in PostComments /\ comment[c] \in CommentRows
  BY DEF Commented, PostTypeOK
<1>. QED
  BY <1>1 DEF CommentRows

\* A row is told from none by its fields.
LEMMA RowIsSomething == NoComment \notin CommentRows
<1>. SUFFICES ASSUME NoComment \in CommentRows PROVE FALSE
  OBVIOUS
<1>1. DOMAIN NoComment = {"parent", "live", "replies"}
  BY DEF CommentRows
<1>2. DOMAIN NoComment = {"state"}
  BY DEF NoComment
<1>. QED
  BY <1>1, <1>2

\* The types are kept.
LEMMA PostTypeNext == PostInv /\ [PostNext]_postVars => PostTypeOK'
<1>. SUFFICES ASSUME PostInv, [PostNext]_postVars PROVE PostTypeOK'
  OBVIOUS
<1>0. PostTypeOK /\ ReadsStand
  BY DEF PostInv
<1>00. Resting \in PostCalls
  BY DEF PostCalls
<1>01. /\ count.likes \in Nat /\ count.comments \in Nat /\ count.reshares \in Nat
       /\ count = [likes |-> count.likes, comments |-> count.comments, reshares |-> count.reshares]
  BY <1>0 DEF PostTypeOK, Counts
<1>. USE <1>0, PostBounds DEF PostTypeOK, postRows
<1>1. ASSUME NEW t \in PostThreads, NEW c \in PostCalls, Begin(t, c) PROVE PostTypeOK'
  BY <1>1 DEF Begin
<1>2. ASSUME NEW t \in PostThreads, RollBack(t) PROVE PostTypeOK'
  BY <1>00, <1>2 DEF RollBack, Rest
<1>3. \A u \in Readers : like[u] # 0 => [op |-> "unlike", u |-> u, key |-> like[u]] \in PostCalls
  <2>1. \A u \in Readers : like[u] # 0 => like[u] \in 1 .. MaxLikes
    OBVIOUS
  <2>. QED
    BY <2>1 DEF PostCalls
<1>4. ASSUME NEW t \in PostThreads, NEW u \in Readers,
             BeginLike(t, u) \/ BeginReshare(t, u) \/ BeginRepost(t, u) \/ BeginUnreshare(t, u)
      PROVE  PostTypeOK'
  <2>1. \A o \in {"like", "reshare", "unreshare"} : [op |-> o, u |-> u] \in PostCalls
    BY DEF PostCalls
  <2>. QED
    BY <1>1, <1>3, <1>4, <2>1 DEF BeginLike, BeginReshare, BeginRepost, BeginUnreshare
<1>5. ASSUME NEW t \in PostThreads, NEW parent \in SUBSET PostComments, BeginComment(t, parent)
      PROVE  PostTypeOK'
  <2>1. [op |-> "comment", parent |-> parent] \in PostCalls
    BY DEF PostCalls
  <2>. QED
    BY <1>1, <1>5, <2>1 DEF BeginComment
<1>6. ASSUME NEW t \in PostThreads, NEW c \in PostComments, BeginUncomment(t, c)
      PROVE  PostTypeOK'
  <2>1. [op |-> "uncomment", c |-> c] \in PostCalls
    BY DEF PostCalls
  <2>. QED
    BY <1>1, <1>6, <2>1 DEF BeginUncomment
<1>7. ASSUME NEW t \in PostThreads, BeginEditPost(t) \/ BeginDeletePost(t) PROVE PostTypeOK'
  <2>1. live => [op |-> "edit", copy |-> Copy] \in PostCalls
    BY DEF PostCalls, Copy
  <2>2. [op |-> "delete"] \in PostCalls
    BY DEF PostCalls
  <2>. QED
    BY <1>1, <1>7, <2>1, <2>2 DEF BeginEditPost, BeginDeletePost
<1>8. ASSUME NEW t \in PostThreads, FoundLike(t) PROVE PostTypeOK'
  <2>1. postCall[t].u \in Readers
    BY <1>8, PostCallTypes DEF FoundLike
  <2>. QED
    BY <1>3, <1>8, <2>1 DEF FoundLike
<1>9. ASSUME NEW t \in PostThreads, CommitLike(t) PROVE PostTypeOK'
  <2>1. count' \in Counts
    BY <1>01, <1>9 DEF CommitLike, Counts
  <2>0. likeKeys + 1 \in 0 .. MaxLikes
    BY <1>9 DEF CommitLike
  <2>2. like' \in [Readers -> 0 .. MaxLikes] /\ likeKeys' \in 0 .. MaxLikes
    BY <1>9, <2>0 DEF CommitLike
  <2>. QED
    BY <1>00, <1>9, <2>1, <2>2 DEF CommitLike, Rest
<1>10. ASSUME NEW t \in PostThreads, CommitUnlike(t) PROVE PostTypeOK'
  <2>1. CASE RollBack(t)
    BY <1>2, <2>1
  <2>2. CASE ~RollBack(t)
    <3>. DEFINE c == postCall[t]
    <3>1. /\ count.likes # 0
          /\ like' = [like EXCEPT ![c.u] = IF @ = c.key THEN 0 ELSE @]
          /\ count' = [count EXCEPT !.likes = @ - 1]
          /\ drift' = (drift \/ like[c.u] # c.key)
          /\ Rest(t) /\ UNCHANGED <<live, likeKeys, comment, reshare>>
      BY <1>10, <2>2 DEF CommitUnlike
    <3>2. count' \in Counts
      BY <1>01, <3>1 DEF Counts
    <3>3. like' \in [Readers -> 0 .. MaxLikes]
      <4>1. like \in [Readers -> 0 .. MaxLikes] /\ 0 \in 0 .. MaxLikes
        OBVIOUS
      <4>. QED
        BY <3>1, <4>1
    <3>4. drift' \in BOOLEAN
      BY <3>1
    <3>. QED
      BY <1>00, <3>1, <3>2, <3>3, <3>4 DEF Rest
  <2>. QED
    BY <2>1, <2>2
<1>11. ASSUME NEW t \in PostThreads, CommitComment(t) PROVE PostTypeOK'
  <2>. DEFINE parent == postCall[t].parent
  <2>1. PICK c \in PostComments :
          /\ comment[c] = NoComment
          /\ comment' = [d \in PostComments |->
               CASE d = c         -> [parent |-> parent, live |-> TRUE, replies |-> 0]
                 [] d \in parent  -> [comment[d] EXCEPT !.replies = @ + 1]
                 [] OTHER         -> comment[d]]
    BY <1>11 DEF CommitComment
  <2>2. postCall[t].op = "comment" /\ parent \in SUBSET PostComments
    BY <1>11, PostCallTypes DEF CommitComment
  <2>3. \A d \in parent : d \in Commented
    BY <2>2 DEF ReadsStand
  <2>4. [parent |-> parent, live |-> TRUE, replies |-> 0] \in CommentRows
    BY <2>2 DEF CommentRows
  <2>5. \A d \in parent : [comment[d] EXCEPT !.replies = @ + 1] \in CommentRows
    BY <2>3, CommentRow DEF CommentRows
  <2>6. comment' \in [PostComments -> CommentRows \cup {NoComment}]
    BY <2>1, <2>4, <2>5
  <2>7. count' \in Counts
    BY <1>01, <1>11 DEF CommitComment, Counts
  <2>. QED
    BY <1>00, <1>11, <2>6, <2>7 DEF CommitComment, Rest
<1>12. ASSUME NEW t \in PostThreads, CommitUncomment(t) PROVE PostTypeOK'
  <2>1. postCall[t].c \in Commented
    BY <1>12 DEF CommitUncomment, ReadsStand
  <2>2. [comment[postCall[t].c] EXCEPT !.live = FALSE] \in CommentRows
    BY <2>1, CommentRow DEF CommentRows
  <2>3. comment' \in [PostComments -> CommentRows \cup {NoComment}]
    BY <1>12, <2>2 DEF CommitUncomment
  <2>. QED
    BY <1>00, <1>12, <2>3 DEF CommitUncomment, Rest
<1>13. ASSUME NEW t \in PostThreads, CommitReshare(t) PROVE PostTypeOK'
  <2>1. CASE RollBack(t)
    BY <1>2, <2>1
  <2>2. CASE ~RollBack(t)
    <3>1. postCall[t].u \in Readers
      BY <1>13, PostCallTypes DEF CommitReshare
    <3>2. count' \in Counts
      BY <1>01, <1>13, <2>2 DEF CommitReshare, Counts
    <3>. QED
      BY <1>00, <1>13, <2>2, <3>1, <3>2 DEF CommitReshare, Rest
  <2>. QED
    BY <2>1, <2>2
<1>14. ASSUME NEW t \in PostThreads, CommitUnreshare(t) PROVE PostTypeOK'
  <2>1. CASE RollBack(t)
    BY <1>2, <2>1
  <2>2. CASE ~RollBack(t)
    <3>1. /\ count.reshares # 0 /\ count' = [count EXCEPT !.reshares = @ - 1]
          /\ drift' = (drift \/ postCall[t].u \notin reshare)
      BY <1>14, <2>2 DEF CommitUnreshare
    <3>2. count' \in Counts /\ drift' \in BOOLEAN
      BY <1>01, <3>1 DEF Counts
    <3>. QED
      BY <1>00, <1>14, <2>2, <3>2 DEF CommitUnreshare, Rest
  <2>. QED
    BY <2>1, <2>2
<1>15. ASSUME NEW t \in PostThreads, CommitEditPost(t) \/ CommitDeletePost(t) PROVE PostTypeOK'
  <2>1. CASE CommitEditPost(t)
    <3>1. postCall[t].copy.live = TRUE /\ postCall[t].copy.count \in Counts
      BY <2>1, PostCallTypes DEF CommitEditPost
    <3>2. drift' \in BOOLEAN
      BY <2>1 DEF CommitEditPost
    <3>. QED
      BY <1>00, <2>1, <3>1, <3>2 DEF CommitEditPost, Rest
  <2>2. CASE CommitDeletePost(t)
    BY <1>00, <2>2 DEF CommitDeletePost, Rest
  <2>. QED
    BY <1>15, <2>1, <2>2
<1>16. CASE UNCHANGED postVars
  BY <1>16 DEF postVars
<1>17. ASSUME NEW t \in PostThreads, PostStep(t) PROVE PostTypeOK'
  BY <1>4, <1>5, <1>6, <1>7, <1>8, <1>9, <1>10, <1>11, <1>12, <1>13, <1>14, <1>15, <1>17 DEF PostStep
<1>. QED
  BY <1>16, <1>17 DEF PostNext

Rooted == CountersExact /\ RepliesRooted /\ LikesDistinct /\ ReadsStand

\* A thread that goes on to another call, when that call's reads stand.
LEMMA ReadsStay ==
  ASSUME PostInv, UNCHANGED <<like, likeKeys, comment>>, NEW t \in PostThreads, NEW k,
         postCall' = [postCall EXCEPT ![t] = k],
         k.op = "comment" => \A c \in k.parent : c \in Commented /\ comment[c].parent = {},
         k.op = "uncomment" => k.c \in Commented
  PROVE  ReadsStand'
BY DEF PostInv, PostTypeOK, ReadsStand, Commented

\* Rows and counters stay.
LEMMA RowsKept ==
  ASSUME PostInv, UNCHANGED <<count, like, comment, reshare, drift>>
  PROVE  CountersExact' /\ RepliesRooted' /\ LikesDistinct'
BY DEF PostInv, CountersExact, RepliesRooted, LikesDistinct, Liked, Commented, RepliesTo

\* A new comment is one comment more, and one reply more of its parent alone.
LEMMA CommentKeeps ==
  ASSUME PostInv, NEW t \in PostThreads, CommitComment(t)
  PROVE  Rooted'
<1>. DEFINE parent == postCall[t].parent
<1>0. PostTypeOK /\ CountersExact /\ RepliesRooted /\ LikesDistinct /\ ReadsStand
  BY DEF PostInv
<1>1. PICK c \in PostComments :
        /\ comment[c] = NoComment
        /\ comment' = [d \in PostComments |->
             CASE d = c         -> [parent |-> parent, live |-> TRUE, replies |-> 0]
               [] d \in parent  -> [comment[d] EXCEPT !.replies = @ + 1]
               [] OTHER         -> comment[d]]
  BY DEF CommitComment
<1>2. /\ postCall[t].op = "comment" /\ parent \in SUBSET PostComments
      /\ count' = [count EXCEPT !.comments = @ + 1] /\ Rest(t)
      /\ UNCHANGED <<live, like, likeKeys, reshare, drift>>
  BY <1>0, PostCallTypes DEF CommitComment
<1>3. \A d \in parent : d \in Commented /\ comment[d].parent = {}
  BY <1>0, <1>2 DEF ReadsStand
<1>4. c \notin Commented /\ c \notin parent
  BY <1>1, <1>3 DEF Commented
<1>5. comment'[c] = [parent |-> parent, live |-> TRUE, replies |-> 0] /\ comment'[c] # NoComment
  <2>1. comment'[c] = [parent |-> parent, live |-> TRUE, replies |-> 0]
    BY <1>1, <1>4
  <2>2. comment'[c] \in CommentRows
    BY <1>2, <2>1 DEF CommentRows
  <2>. QED
    BY <2>1, <2>2, RowIsSomething
<1>6. \A d \in parent : /\ comment'[d] = [comment[d] EXCEPT !.replies = @ + 1]
                        /\ comment'[d].parent = comment[d].parent
                        /\ comment'[d].replies = comment[d].replies + 1
                        /\ comment'[d] # NoComment
  <2>1. \A d \in parent : comment'[d] = [comment[d] EXCEPT !.replies = @ + 1]
    BY <1>1, <1>2, <1>4
  <2>2. \A d \in parent : comment[d] \in CommentRows /\ comment[d].replies \in Nat
    BY <1>0, <1>3, CommentRow
  <2>3. \A d \in parent : /\ [comment[d] EXCEPT !.replies = @ + 1] \in CommentRows
                          /\ [comment[d] EXCEPT !.replies = @ + 1].parent = comment[d].parent
                          /\ [comment[d] EXCEPT !.replies = @ + 1].replies = comment[d].replies + 1
    BY <2>2 DEF CommentRows
  <2>. QED
    BY <2>1, <2>3, RowIsSomething
<1>7. \A d \in PostComments \ (parent \cup {c}) : comment'[d] = comment[d]
  BY <1>1
<1>8. Commented' = Commented \cup {c}
  <2>1. ASSUME NEW d \in PostComments PROVE comment'[d] # NoComment <=> d \in Commented \/ d = c
    <3>1. CASE d = c
      BY <1>5, <3>1
    <3>2. CASE d \in parent
      BY <1>3, <1>6, <3>2
    <3>3. CASE d \notin parent \cup {c}
      BY <1>7, <3>3 DEF Commented
    <3>. QED
      BY <3>1, <3>2, <3>3
  <2>. QED
    BY <2>1 DEF Commented
<1>9. \A d \in Commented : comment'[d].parent = comment[d].parent
  BY <1>4, <1>6, <1>7 DEF Commented
<1>10. RepliesRooted'
  <2>1. ASSUME NEW d \in Commented', NEW p \in comment'[d].parent
        PROVE  p \in Commented' /\ comment'[p].parent = {}
    <3>1. CASE d = c
      <4>1. p \in parent
        BY <1>5, <2>1, <3>1
      <4>. QED
        BY <1>3, <1>8, <1>9, <4>1
    <3>2. CASE d \in Commented
      <4>1. p \in Commented /\ comment[p].parent = {}
        BY <1>0, <1>9, <2>1, <3>2 DEF RepliesRooted
      <4>. QED
        BY <1>8, <1>9, <4>1
    <3>. QED
      BY <1>8, <3>1, <3>2
  <2>. QED
    BY <2>1 DEF RepliesRooted
<1>11. \A d \in Commented : RepliesTo(d)' = IF d \in parent THEN RepliesTo(d) \cup {c} ELSE RepliesTo(d)
  BY <1>4, <1>5, <1>8, <1>9 DEF RepliesTo
<1>12. RepliesTo(c)' = {}
  <2>1. \A d \in Commented : c \notin comment[d].parent
    BY <1>0, <1>4 DEF RepliesRooted
  <2>. QED
    BY <1>4, <1>5, <1>8, <1>9, <2>1 DEF RepliesTo
<1>13. ASSUME NEW d \in Commented' PROVE comment'[d].replies = Cardinality(RepliesTo(d)')
  <2>1. CASE d = c
    BY <1>5, <1>12, <2>1, FS_EmptySet
  <2>2. CASE d \in parent
    <3>1. comment[d].replies = Cardinality(RepliesTo(d)) /\ d \in Commented
      BY <1>0, <1>3, <2>2 DEF CountersExact
    <3>2. c \notin RepliesTo(d) /\ RepliesTo(d) \subseteq PostComments
      BY <1>4 DEF RepliesTo, Commented
    <3>3. Cardinality(RepliesTo(d) \cup {c}) = Cardinality(RepliesTo(d)) + 1
      BY <3>2, CommentsCount, FS_AddElement
    <3>4. RepliesTo(d)' = RepliesTo(d) \cup {c}
      BY <1>11, <2>2, <3>1
    <3>. QED
      BY <1>6, <2>2, <3>1, <3>3, <3>4
  <2>3. CASE d \notin parent \cup {c}
    <3>1. d \in Commented /\ d \in PostComments
      BY <1>8, <2>3 DEF Commented
    <3>2. comment[d].replies = Cardinality(RepliesTo(d))
      BY <1>0, <3>1 DEF CountersExact
    <3>3. RepliesTo(d)' = RepliesTo(d)
      BY <1>11, <2>3, <3>1
    <3>. QED
      BY <1>7, <2>3, <3>1, <3>2, <3>3
  <2>. QED
    BY <2>1, <2>2, <2>3
<1>14. Cardinality(Commented') = Cardinality(Commented) + 1
  <2>1. Commented \subseteq PostComments
    BY DEF Commented
  <2>. QED
    BY <1>4, <1>8, <2>1, CommentsCount, FS_AddElement
<1>15. /\ count'.likes = count.likes /\ count'.reshares = count.reshares
       /\ count'.comments = count.comments + 1
  BY <1>0, <1>2 DEF PostTypeOK, Counts
<1>16. Liked' = Liked
  BY <1>2 DEF Liked
<1>17. CountersExact'
  <2>1. ~drift' => /\ count'.likes = Cardinality(Liked')
                   /\ count'.comments = Cardinality(Commented')
                   /\ count'.reshares = Cardinality(reshare')
    BY <1>0, <1>2, <1>14, <1>15, <1>16 DEF CountersExact
  <2>. QED
    BY <1>13, <2>1 DEF CountersExact
<1>18. LikesDistinct'
  BY <1>0, <1>2 DEF LikesDistinct, Liked
<1>19. ReadsStand'
  <2>1. ASSUME NEW o \in PostThreads
        PROVE  /\ postCall'[o].op = "comment" =>
                    \A d \in postCall'[o].parent : d \in Commented' /\ comment'[d].parent = {}
               /\ postCall'[o].op = "uncomment" => postCall'[o].c \in Commented'
    <3>1. CASE o = t
      BY <1>0, <1>2, <3>1 DEF Rest, Resting, PostTypeOK
    <3>2. CASE o # t
      <4>1. postCall'[o] = postCall[o]
        BY <1>0, <1>2, <3>2 DEF Rest, PostTypeOK
      <4>. QED
        BY <1>0, <1>8, <1>9, <4>1 DEF ReadsStand
    <3>. QED
      BY <3>1, <3>2
  <2>2. \A u \in Readers : like'[u] <= likeKeys'
    BY <1>0, <1>2 DEF ReadsStand
  <2>. QED
    BY <2>1, <2>2 DEF ReadsStand
<1>. QED
  BY <1>10, <1>17, <1>18, <1>19 DEF Rooted

\* Every step keeps the invariant.
LEMMA PostStepKeeps == PostInv /\ [PostNext]_postVars => PostInv'
<1>. SUFFICES ASSUME PostInv, [PostNext]_postVars PROVE Rooted'
  BY PostTypeNext DEF PostInv, Rooted
<1>0. PostTypeOK /\ CountersExact /\ RepliesRooted /\ LikesDistinct /\ ReadsStand
  BY DEF PostInv
<1>01. /\ like \in [Readers -> 0 .. MaxLikes] /\ likeKeys \in Nat /\ count \in Counts
       /\ postCall \in [PostThreads -> PostCalls] /\ reshare \subseteq Readers
       /\ comment \in [PostComments -> CommentRows \cup {NoComment}]
  BY <1>0, PostBounds DEF PostTypeOK
<1>02. /\ Liked \subseteq Readers /\ IsFiniteSet(Liked) /\ Cardinality(Liked) \in Nat
       /\ IsFiniteSet(reshare) /\ Cardinality(reshare) \in Nat
       /\ count.likes \in Nat /\ count.reshares \in Nat
  BY <1>01, ReadersCount DEF Liked, Counts
<1>03. Resting.op = "idle"
  BY DEF Resting
<1>1. ASSUME NEW t \in PostThreads, NEW k, Begin(t, k) \/ (postCall' = [postCall EXCEPT ![t] = k] /\ UNCHANGED <<postRows, drift>>),
             k.op = "comment" => \A c \in k.parent : c \in Commented /\ comment[c].parent = {},
             k.op = "uncomment" => k.c \in Commented
      PROVE  Rooted'
  <2>1. UNCHANGED <<count, like, likeKeys, comment, reshare, drift>>
        /\ postCall' = [postCall EXCEPT ![t] = k]
    BY <1>1 DEF Begin, postRows
  <2>. QED
    BY <1>1, <2>1, ReadsStay, RowsKept DEF Rooted
<1>2. ASSUME NEW t \in PostThreads, RollBack(t) PROVE Rooted'
  BY <1>03, <1>1, <1>2 DEF RollBack, Rest
<1>3. ASSUME NEW t \in PostThreads, NEW u \in Readers,
             BeginLike(t, u) \/ BeginReshare(t, u) \/ BeginRepost(t, u) \/ BeginUnreshare(t, u)
      PROVE  Rooted'
  BY <1>1, <1>3 DEF BeginLike, BeginReshare, BeginRepost, BeginUnreshare
<1>4. ASSUME NEW t \in PostThreads, NEW parent \in SUBSET PostComments, BeginComment(t, parent)
      PROVE  Rooted'
  BY <1>1, <1>4 DEF BeginComment, MayReplyTo, Standing
<1>5. ASSUME NEW t \in PostThreads, NEW c \in PostComments, BeginUncomment(t, c) PROVE Rooted'
  BY <1>1, <1>5 DEF BeginUncomment, Standing
<1>6. ASSUME NEW t \in PostThreads, BeginEditPost(t) \/ BeginDeletePost(t) \/ FoundLike(t)
      PROVE  Rooted'
  <2>1. CASE FoundLike(t)
    <3>. DEFINE k == [op |-> "unlike", u |-> postCall[t].u, key |-> like[postCall[t].u]]
    <3>1. k.op = "unlike" /\ postCall' = [postCall EXCEPT ![t] = k] /\ UNCHANGED <<postRows, drift>>
      BY <2>1 DEF FoundLike
    <3>. HIDE DEF k
    <3>. QED
      BY <1>1, <3>1
  <2>2. CASE BeginEditPost(t) \/ BeginDeletePost(t)
    BY <1>1, <2>2 DEF BeginEditPost, BeginDeletePost
  <2>. QED
    BY <1>6, <2>1, <2>2
<1>7. ASSUME NEW t \in PostThreads, CommitLike(t) PROVE Rooted'
  <2>. DEFINE u == postCall[t].u
  <2>1. /\ u \in Readers /\ like[u] = 0 /\ likeKeys' = likeKeys + 1
        /\ like' = [like EXCEPT ![u] = likeKeys + 1]
        /\ count' = [count EXCEPT !.likes = @ + 1] /\ Rest(t)
        /\ UNCHANGED <<live, comment, reshare, drift>>
    BY <1>0, <1>7, PostCallTypes DEF CommitLike
  <2>2. Liked' = Liked \cup {u} /\ u \notin Liked
    BY <1>01, <2>1 DEF Liked
  <2>3. Cardinality(Liked') = Cardinality(Liked) + 1
    BY <1>02, <2>2, FS_AddElement
  <2>4. /\ count'.likes = count.likes + 1 /\ count'.comments = count.comments
        /\ count'.reshares = count.reshares
    BY <1>01, <2>1 DEF Counts
  <2>5. Commented' = Commented /\ \A c \in Commented : RepliesTo(c)' = RepliesTo(c)
    BY <2>1 DEF Commented, RepliesTo
  <2>6. CountersExact'
    <3>1. \A c \in Commented' : comment'[c].replies = Cardinality(RepliesTo(c)')
      BY <1>0, <2>1, <2>5 DEF CountersExact
    <3>. QED
      BY <1>0, <1>02, <2>1, <2>3, <2>4, <2>5, <3>1 DEF CountersExact
  <2>7. RepliesRooted'
    BY <1>0, <2>1, <2>5 DEF RepliesRooted
  <2>8. \A v \in Readers : like'[v] = IF v = u THEN likeKeys + 1 ELSE like[v]
    BY <1>01, <2>1
  <2>9. LikesDistinct' /\ \A v \in Readers : like'[v] <= likeKeys'
    BY <1>0, <1>01, <2>1, <2>2, <2>8 DEF LikesDistinct, ReadsStand, Liked
  <2>10. ReadsStand'
    BY <1>0, <1>01, <1>03, <2>1, <2>5, <2>9 DEF ReadsStand, Rest
  <2>. QED
    BY <2>6, <2>7, <2>9, <2>10 DEF Rooted
<1>8. ASSUME NEW t \in PostThreads, CommitUnlike(t) PROVE Rooted'
  <2>1. CASE RollBack(t)
    BY <1>2, <2>1
  <2>2. CASE ~RollBack(t)
    <3>. DEFINE c == postCall[t]
    <3>1. /\ like' = [like EXCEPT ![c.u] = IF @ = c.key THEN 0 ELSE @]
          /\ count' = [count EXCEPT !.likes = @ - 1]
          /\ drift' = (drift \/ like[c.u] # c.key)
          /\ Rest(t) /\ UNCHANGED <<live, likeKeys, comment, reshare>>
      BY <1>8, <2>2 DEF CommitUnlike
    <3>2. c.u \in Readers /\ c.key \in 1 .. MaxLikes
      BY <1>0, <1>8, PostCallTypes DEF CommitUnlike
    <3>3. /\ count'.likes = count.likes - 1 /\ count'.comments = count.comments
          /\ count'.reshares = count.reshares
      BY <1>01, <3>1 DEF Counts
    <3>4. Commented' = Commented /\ \A d \in Commented : RepliesTo(d)' = RepliesTo(d)
      BY <3>1 DEF Commented, RepliesTo
    <3>5. ASSUME ~drift'
          PROVE  ~drift /\ Cardinality(Liked') = Cardinality(Liked) - 1
      <4>1. ~drift /\ like[c.u] = c.key
        BY <3>1, <3>5
      <4>2. c.key # 0
        BY <3>2, PostBounds
      <4>3. \A v \in Readers : like'[v] = IF v = c.u THEN 0 ELSE like[v]
        BY <1>01, <3>1, <3>2, <4>1
      <4>4. Liked' = Liked \ {c.u} /\ c.u \in Liked
        BY <3>2, <4>1, <4>2, <4>3 DEF Liked
      <4>. QED
        BY <1>02, <4>1, <4>4, FS_RemoveElement
    <3>6. CountersExact'
      <4>1. \A d \in Commented' : comment'[d].replies = Cardinality(RepliesTo(d)')
        BY <1>0, <3>1, <3>4 DEF CountersExact
      <4>. QED
        BY <1>0, <1>02, <3>1, <3>3, <3>4, <3>5, <4>1 DEF CountersExact
    <3>7. RepliesRooted'
      BY <1>0, <3>1, <3>4 DEF RepliesRooted
    <3>8. \A v \in Readers : like'[v] = like[v] \/ like'[v] = 0
      BY <1>01, <3>1, <3>2
    <3>9. LikesDistinct' /\ \A v \in Readers : like'[v] <= likeKeys'
      BY <1>0, <1>01, <3>1, <3>8 DEF LikesDistinct, ReadsStand, Liked
    <3>10. ReadsStand'
      BY <1>0, <1>01, <1>03, <3>1, <3>4, <3>9 DEF ReadsStand, Rest
    <3>. QED
      BY <3>6, <3>7, <3>9, <3>10 DEF Rooted
  <2>. QED
    BY <2>1, <2>2
<1>9. ASSUME NEW t \in PostThreads, CommitUncomment(t) PROVE Rooted'
  <2>. DEFINE c == postCall[t].c
  <2>1. /\ c \in Commented /\ comment' = [comment EXCEPT ![c].live = FALSE] /\ Rest(t)
        /\ UNCHANGED <<live, count, like, likeKeys, reshare, drift>>
    BY <1>0, <1>9 DEF CommitUncomment, ReadsStand
  <2>2. /\ comment'[c].parent = comment[c].parent /\ comment'[c].replies = comment[c].replies
        /\ comment'[c] # NoComment
    <3>1. comment[c] \in CommentRows /\ c \in PostComments
      BY <1>0, <2>1, CommentRow
    <3>2. comment'[c] = [comment[c] EXCEPT !.live = FALSE]
      BY <1>01, <2>1, <3>1
    <3>3. comment'[c] \in CommentRows
      BY <3>1, <3>2 DEF CommentRows
    <3>. QED
      BY <3>1, <3>2, <3>3, RowIsSomething DEF CommentRows
  <2>3. \A d \in PostComments \ {c} : comment'[d] = comment[d]
    BY <1>01, <2>1
  <2>4. Commented' = Commented
    BY <2>1, <2>2, <2>3 DEF Commented
  <2>5. \A d \in Commented : comment'[d].parent = comment[d].parent /\ comment'[d].replies = comment[d].replies
    BY <2>2, <2>3 DEF Commented
  <2>6. \A d \in Commented : RepliesTo(d)' = RepliesTo(d)
    BY <2>4, <2>5 DEF RepliesTo
  <2>7. CountersExact'
    <3>1. \A d \in Commented' : comment'[d].replies = Cardinality(RepliesTo(d)')
      BY <1>0, <2>4, <2>5, <2>6 DEF CountersExact
    <3>2. Liked' = Liked
      BY <2>1 DEF Liked
    <3>. QED
      BY <1>0, <2>1, <2>4, <3>1, <3>2 DEF CountersExact
  <2>8. RepliesRooted'
    BY <1>0, <2>4, <2>5 DEF RepliesRooted
  <2>9. LikesDistinct'
    BY <1>0, <2>1 DEF LikesDistinct, Liked
  <2>10. ReadsStand'
    BY <1>0, <1>01, <1>03, <2>1, <2>4, <2>5 DEF ReadsStand, Rest
  <2>. QED
    BY <2>7, <2>8, <2>9, <2>10 DEF Rooted
<1>10. ASSUME NEW t \in PostThreads, CommitReshare(t) \/ CommitUnreshare(t) PROVE Rooted'
  <2>1. CASE RollBack(t)
    BY <1>2, <2>1
  <2>2. CASE ~RollBack(t)
    <3>. DEFINE u == postCall[t].u
    <3>0. u \in Readers
      BY <1>0, <1>10, PostCallTypes DEF CommitReshare, CommitUnreshare
    <3>1. Rest(t) /\ UNCHANGED <<live, like, likeKeys, comment>>
      BY <1>10, <2>2 DEF CommitReshare, CommitUnreshare
    <3>2. Liked' = Liked /\ Commented' = Commented /\ \A d \in Commented : RepliesTo(d)' = RepliesTo(d)
      BY <3>1 DEF Commented, RepliesTo, Liked
    <3>3. ~drift' => /\ ~drift /\ count'.reshares = Cardinality(reshare')
                     /\ count'.likes = count.likes /\ count'.comments = count.comments
      <4>1. CASE CommitReshare(t)
        <5>1. /\ u \notin reshare /\ reshare' = reshare \cup {u} /\ drift' = drift
              /\ count' = [count EXCEPT !.reshares = @ + 1]
          BY <2>2, <4>1 DEF CommitReshare
        <5>2. Cardinality(reshare') = Cardinality(reshare) + 1
          BY <1>02, <5>1, FS_AddElement
        <5>3. /\ count'.reshares = count.reshares + 1 /\ count'.likes = count.likes
              /\ count'.comments = count.comments
          BY <1>01, <5>1 DEF Counts
        <5>. QED
          BY <1>0, <5>1, <5>2, <5>3 DEF CountersExact
      <4>2. CASE CommitUnreshare(t)
        <5>1. /\ reshare' = reshare \ {u} /\ drift' = (drift \/ u \notin reshare)
              /\ count' = [count EXCEPT !.reshares = @ - 1]
          BY <2>2, <4>2 DEF CommitUnreshare
        <5>2. ~drift' => ~drift /\ Cardinality(reshare') = Cardinality(reshare) - 1
          BY <1>02, <5>1, FS_RemoveElement
        <5>3. /\ count'.reshares = count.reshares - 1 /\ count'.likes = count.likes
              /\ count'.comments = count.comments
          BY <1>01, <5>1 DEF Counts
        <5>. QED
          BY <1>0, <5>1, <5>2, <5>3 DEF CountersExact
      <4>. QED
        BY <1>10, <4>1, <4>2
    <3>4. CountersExact'
      <4>1. \A d \in Commented' : comment'[d].replies = Cardinality(RepliesTo(d)')
        BY <1>0, <3>1, <3>2 DEF CountersExact
      <4>. QED
        BY <1>0, <3>2, <3>3, <4>1 DEF CountersExact
    <3>5. RepliesRooted' /\ LikesDistinct'
      BY <1>0, <3>1, <3>2 DEF RepliesRooted, LikesDistinct
    <3>6. ReadsStand'
      BY <1>03, <3>1, ReadsStay DEF Rest
    <3>. QED
      BY <3>4, <3>5, <3>6 DEF Rooted
  <2>. QED
    BY <2>1, <2>2
<1>11. ASSUME NEW t \in PostThreads, CommitEditPost(t) \/ CommitDeletePost(t) PROVE Rooted'
  <2>1. Rest(t) /\ UNCHANGED <<like, likeKeys, comment, reshare>>
    BY <1>11 DEF CommitEditPost, CommitDeletePost
  <2>2. ~drift' => ~drift /\ count' = count
    BY <1>11 DEF CommitEditPost, CommitDeletePost
  <2>3. Liked' = Liked /\ Commented' = Commented /\ \A d \in Commented : RepliesTo(d)' = RepliesTo(d)
    BY <2>1 DEF Commented, RepliesTo, Liked
  <2>4. CountersExact'
    <3>1. \A d \in Commented' : comment'[d].replies = Cardinality(RepliesTo(d)')
      BY <1>0, <2>1, <2>3 DEF CountersExact
    <3>. QED
      BY <1>0, <2>1, <2>2, <2>3, <3>1 DEF CountersExact
  <2>5. RepliesRooted' /\ LikesDistinct'
    BY <1>0, <2>1, <2>3 DEF RepliesRooted, LikesDistinct
  <2>6. ReadsStand'
    BY <1>03, <2>1, ReadsStay DEF Rest
  <2>. QED
    BY <2>4, <2>5, <2>6 DEF Rooted
<1>12. CASE UNCHANGED postVars
  <2>1. ReadsStand'
    BY <1>0, <1>12 DEF postVars, postRows, ReadsStand, Commented
  <2>. QED
    BY <1>12, <2>1, RowsKept DEF postVars, postRows, Rooted
<1>13. ASSUME NEW t \in PostThreads, PostStep(t) PROVE Rooted'
  BY <1>3, <1>4, <1>5, <1>6, <1>7, <1>8, <1>9, <1>10, <1>11, <1>13, CommentKeeps DEF PostStep
<1>. QED
  BY <1>12, <1>13 DEF PostNext

\* likes_count, comments_count, reshares_count and replies_count are the
\* numbers of their rows but for the two races that drift records, and threads
\* stay one level deep (PostService, CommentService and the social signals).
THEOREM PostHolds == PostSpec => []PostInv
BY PostStart, PostStepKeeps, PTL DEF PostSpec

-----------------------------------------------------------------------------
(***************************************************************************)
(* Displays: the counters against the rows, through the sweep.             *)
(*                                                                         *)
(* DisplayInv is inductive.  Only a display that is live makes a claim     *)
(* about its counters, and none comes back to life.                        *)
(***************************************************************************)

\* Sets of viewers can be counted.
LEMMA ViewersCount ==
  ASSUME NEW S, S \subseteq Viewers
  PROVE  IsFiniteSet(S) /\ Cardinality(S) \in Nat
BY ViewersFinite, FS_Subset, FS_CardinalityType

\* Sets of threads can be counted.
LEMMA DisplayThreadsCount ==
  ASSUME NEW S, S \subseteq DisplayThreads
  PROVE  IsFiniteSet(S) /\ Cardinality(S) \in Nat
BY DisplayThreadsFinite, FS_Subset, FS_CardinalityType

\* The beginning fits.
LEMMA DisplayStart == DisplayInit => DisplayInv
<1>. SUFFICES ASSUME DisplayInit PROVE DisplayInv
  OBVIOUS
<1>1. DisplayTypeOK
  <2>1. AtRest \in DisplayCalls /\ MaxDisplayCalls \in 0 .. MaxDisplayCalls
        /\ 0 \in 0 .. MaxDisplayLikes /\ 0 \in 0 .. MaxDisplayComments
    BY DisplayNats DEF DisplayCalls
  <2>2. display \in DisplayRow
    BY DEF DisplayInit, DisplayRow, DisplayStates
  <2>3. displayCall \in [DisplayThreads -> DisplayCalls] /\ fan \in [Viewers -> 0 .. MaxDisplayLikes]
    BY <2>1 DEF DisplayInit
  <2>4. hidden \in 0 .. remarks
    BY DEF DisplayInit
  <2>. QED
    BY <2>1, <2>2, <2>3, <2>4 DEF DisplayInit, DisplayTypeOK
<1>2. Fans = {} /\ Counting = {}
  BY DEF DisplayInit, Fans, Counting, Doing, AtRest
<1>3. LikesCountedTwice /\ ViewsCountedOnce /\ CommentsCounted /\ GoneIsEmpty
  BY <1>2, FS_EmptySet DEF DisplayInit, LikesCountedTwice, ViewsCountedOnce, CommentsCounted, GoneIsEmpty
<1>. QED
  BY <1>1, <1>3 DEF DisplayInv

\* A call carries a viewer, and the removal of a like the key of its row.
LEMMA DisplayCallTypes ==
  ASSUME DisplayTypeOK, NEW t \in DisplayThreads
  PROVE  /\ displayCall[t].op \in {"view", "count", "like", "unlike"} => displayCall[t].u \in Viewers
         /\ displayCall[t].op = "unlike" => displayCall[t].key \in 1 .. MaxDisplayLikes
<1>. displayCall[t] \in DisplayCalls
  BY DEF DisplayTypeOK
<1>. QED
  BY DEF DisplayCalls, AtRest

\* The types are kept.
LEMMA DisplayTypeNext == DisplayTypeOK /\ [DisplayNext]_displayVars => DisplayTypeOK'
<1>. SUFFICES ASSUME DisplayTypeOK, [DisplayNext]_displayVars PROVE DisplayTypeOK'
  OBVIOUS
<1>0. AtRest \in DisplayCalls /\ \A o \in {"comment", "delete", "sweep"} : [op |-> o] \in DisplayCalls
  BY DEF DisplayCalls
<1>00. \A u \in Viewers : \A o \in {"view", "count", "like"} : [op |-> o, u |-> u] \in DisplayCalls
  BY DEF DisplayCalls
<1>01. \A u \in Viewers : fan[u] # 0 => [op |-> "unlike", u |-> u, key |-> fan[u]] \in DisplayCalls
  <2>1. \A u \in Viewers : fan[u] # 0 => fan[u] \in 1 .. MaxDisplayLikes
    BY DisplayNats DEF DisplayTypeOK
  <2>. QED
    BY <2>1 DEF DisplayCalls
<1>02. /\ display.state \in DisplayStates /\ display.likes \in Nat /\ display.comments \in Nat
       /\ display.views \in Nat /\ display.over \in BOOLEAN /\ display.seen \in BOOLEAN
       /\ display = [state |-> display.state, over |-> display.over, seen |-> display.seen,
                     likes |-> display.likes, comments |-> display.comments, views |-> display.views]
  BY DEF DisplayTypeOK, DisplayRow
<1>. USE DisplayNats DEF DisplayTypeOK, displayRows, displayHist
<1>1. ASSUME NEW t \in DisplayThreads, NEW c \in DisplayCalls, Admit(t, c)
      PROVE  DisplayTypeOK'
  BY <1>1 DEF Admit, DisplayGoes
<1>2. ASSUME NEW t \in DisplayThreads, DisplayFails(t)
      PROVE  DisplayTypeOK'
  BY <1>0, <1>2 DEF DisplayFails, Rests, DisplayGoes
<1>3. ASSUME NEW t \in DisplayThreads, NEW u \in Viewers, BeginView(t, u) \/ BeginToggle(t, u)
      PROVE  DisplayTypeOK'
  BY <1>00, <1>1, <1>3 DEF BeginView, BeginToggle
<1>4. ASSUME NEW t \in DisplayThreads, BeginRemark(t) \/ BeginRemove(t) \/ BeginSweep(t)
      PROVE  DisplayTypeOK'
  BY <1>0, <1>1, <1>4 DEF BeginRemark, BeginRemove, BeginSweep
<1>5. ASSUME NEW t \in DisplayThreads, InsertView(t)
      PROVE  DisplayTypeOK'
  <2>1. displayCall[t].u \in Viewers
    BY <1>5, DisplayCallTypes DEF InsertView, Doing
  <2>2. CASE DisplayFails(t)
    BY <1>2, <2>2
  <2>3. CASE ~DisplayFails(t)
    BY <1>00, <1>5, <2>1, <2>3 DEF InsertView, DisplayGoes
  <2>. QED
    BY <2>2, <2>3
<1>6. ASSUME NEW t \in DisplayThreads, CountView(t)
      PROVE  DisplayTypeOK'
  <2>1. display' \in DisplayRow
    BY <1>02, <1>6 DEF CountView, DisplayRow
  <2>. QED
    BY <1>0, <1>6, <2>1 DEF CountView, Rests, DisplayGoes
<1>7. ASSUME NEW t \in DisplayThreads, LoseView(t)
      PROVE  DisplayTypeOK'
  BY <1>0, <1>7 DEF LoseView, Rests, DisplayGoes
<1>8. ASSUME NEW t \in DisplayThreads, Toggle(t)
      PROVE  DisplayTypeOK'
  <2>. DEFINE u == displayCall[t].u
  <2>0. u \in Viewers
    BY <1>8, DisplayCallTypes DEF Toggle, Doing
  <2>1. CASE DisplayFails(t)
    BY <1>2, <2>1
  <2>2. CASE fan[u] # 0 /\ ~DisplayFails(t)
    <3>1. DisplayGoes(t, [op |-> "unlike", u |-> u, key |-> fan[u]])
          /\ UNCHANGED <<displayRows, displayLeft, displayHist>>
      BY <1>8, <2>2 DEF Toggle
    <3>. QED
      BY <1>01, <2>0, <2>2, <3>1 DEF DisplayGoes
  <2>3. CASE fan[u] = 0 /\ ~DisplayFails(t)
    <3>1. /\ fanKeys < MaxDisplayLikes /\ fanKeys' = fanKeys + 1
          /\ fan' = [fan EXCEPT ![u] = fanKeys + 1]
          /\ display' = [display EXCEPT !.likes = @ + 2]
          /\ Rests(t) /\ UNCHANGED <<viewRows, remarks, hidden, displayHist>>
      BY <1>8, <2>3 DEF Toggle
    <3>2. display' \in DisplayRow
      BY <1>02, <3>1 DEF DisplayRow
    <3>3. fanKeys + 1 \in 0 .. MaxDisplayLikes
      BY <3>1
    <3>4. fan' \in [Viewers -> 0 .. MaxDisplayLikes]
      BY <3>1, <3>3
    <3>. QED
      BY <1>0, <3>1, <3>2, <3>3, <3>4 DEF Rests, DisplayGoes
  <2>. QED
    BY <2>1, <2>2, <2>3
<1>9. ASSUME NEW t \in DisplayThreads, Untoggle(t)
      PROVE  DisplayTypeOK'
  <2>1. CASE DisplayFails(t)
    BY <1>2, <2>1
  <2>2. CASE ~DisplayFails(t)
    <3>. DEFINE c == displayCall[t]
    <3>1. /\ ~(display.likes < 2)
          /\ fan' = [fan EXCEPT ![c.u] = IF @ = c.key THEN 0 ELSE @]
          /\ display' = [display EXCEPT !.likes = @ - 2]
          /\ unfanned' = (unfanned \/ fan[c.u] # c.key)
          /\ Rests(t) /\ UNCHANGED <<fanKeys, viewRows, remarks, hidden, lostViews>>
      BY <1>9, <2>2 DEF Untoggle
    <3>2. display' \in DisplayRow
      BY <1>02, <3>1 DEF DisplayRow
    <3>3. fan' \in [Viewers -> 0 .. MaxDisplayLikes]
      <4>1. fan \in [Viewers -> 0 .. MaxDisplayLikes] /\ 0 \in 0 .. MaxDisplayLikes
        OBVIOUS
      <4>. QED
        BY <3>1, <4>1
    <3>4. unfanned' \in BOOLEAN
      BY <3>1
    <3>. QED
      BY <1>0, <3>1, <3>2, <3>3, <3>4 DEF Rests, DisplayGoes
  <2>. QED
    BY <2>1, <2>2
<1>10. ASSUME NEW t \in DisplayThreads, CommitRemark(t)
       PROVE  DisplayTypeOK'
  <2>1. CASE DisplayFails(t)
    BY <1>2, <2>1
  <2>2. CASE ~DisplayFails(t)
    <3>1. /\ remarks # MaxDisplayComments /\ remarks' = remarks + 1
          /\ display' = [display EXCEPT !.comments = @ + 1]
          /\ Rests(t) /\ UNCHANGED <<fan, fanKeys, viewRows, hidden, displayHist>>
      BY <1>10, <2>2 DEF CommitRemark
    <3>2. display' \in DisplayRow
      BY <1>02, <3>1 DEF DisplayRow
    <3>. QED
      BY <1>0, <3>1, <3>2 DEF Rests, DisplayGoes
  <2>. QED
    BY <2>1, <2>2
<1>11. ASSUME NEW t \in DisplayThreads, CommitRemove(t)
       PROVE  DisplayTypeOK'
  <2>1. display' \in DisplayRow
    BY <1>02, <1>11 DEF CommitRemove, DisplayRow, DisplayStates
  <2>. QED
    BY <1>0, <1>11, <2>1 DEF CommitRemove, Rests, DisplayGoes
<1>12. ASSUME NEW t \in DisplayThreads, CommitSweep(t)
       PROVE  DisplayTypeOK'
  <2>1. CASE DisplayFails(t)
    BY <1>2, <2>1
  <2>2. CASE ~DisplayFails(t)
    <3>1. /\ Sweepable
          /\ fan' = [u \in Viewers |-> 0] /\ viewRows' = {} /\ remarks' = 0 /\ hidden' = 0
          /\ display' = [display EXCEPT
               !.state = IF @ = "live" THEN "gone" ELSE @,
               !.likes = @ - Cardinality(Fans), !.comments = @ - remarks]
          /\ Rests(t) /\ UNCHANGED <<fanKeys, displayHist>>
      BY <1>12, <2>2 DEF CommitSweep
    <3>2. Cardinality(Fans) \in Nat
      BY ViewersCount DEF Fans
    <3>3. display' \in DisplayRow
      <4>1. /\ display.likes - Cardinality(Fans) \in Nat /\ display.comments - remarks \in Nat
            /\ "gone" \in DisplayStates
        BY <1>02, <3>1, <3>2 DEF Sweepable, DisplayStates
      <4>. QED
        BY <1>02, <3>1, <4>1 DEF DisplayRow
    <3>. QED
      BY <1>0, <3>1, <3>3 DEF Rests, DisplayGoes
  <2>. QED
    BY <2>1, <2>2
<1>13. ASSUME HideRemark PROVE DisplayTypeOK'
  BY <1>13 DEF HideRemark
<1>14. ASSUME MarkSeen \/ HourPasses PROVE DisplayTypeOK'
  <2>1. display' \in DisplayRow
    BY <1>02, <1>14 DEF MarkSeen, HourPasses, DisplayRow
  <2>. QED
    BY <1>14, <2>1 DEF MarkSeen, HourPasses
<1>15. CASE UNCHANGED displayVars
  BY <1>15 DEF displayVars
<1>. QED
  BY <1>3, <1>4, <1>5, <1>6, <1>7, <1>8, <1>9, <1>10, <1>11, <1>12, <1>13, <1>14, <1>15
     DEF DisplayNext, DisplayStep

\* A step that writes no row and neither starts nor ends a count.
LEMMA DisplayQuiet ==
  ASSUME DisplayInv, UNCHANGED <<displayRows, displayHist>>, Counting' = Counting
  PROVE  (LikesCountedTwice /\ ViewsCountedOnce /\ CommentsCounted /\ GoneIsEmpty)'
BY DEF DisplayInv, LikesCountedTwice, ViewsCountedOnce, CommentsCounted, GoneIsEmpty,
   displayRows, displayHist, Fans

\* A thread goes to a call that counts no view from one that counts none.
LEMMA CountingStays ==
  ASSUME DisplayTypeOK, NEW t \in DisplayThreads, NEW c, DisplayGoes(t, c),
         ~Doing(t, "count"), c.op # "count"
  PROVE  Counting' = Counting
BY DEF DisplayTypeOK, DisplayGoes, Doing, Counting

\* Every step keeps the invariant.
LEMMA DisplayStepKeeps == DisplayInv /\ [DisplayNext]_displayVars => DisplayInv'
<1>. DEFINE Counted == LikesCountedTwice /\ ViewsCountedOnce /\ CommentsCounted /\ GoneIsEmpty
<1>. SUFFICES ASSUME DisplayInv, [DisplayNext]_displayVars PROVE Counted'
  BY DisplayTypeNext DEF DisplayInv
<1>0. DisplayTypeOK /\ Counted
  BY DEF DisplayInv
<1>00. /\ fan \in [Viewers -> 0 .. MaxDisplayLikes] /\ fanKeys \in Nat
       /\ displayCall \in [DisplayThreads -> DisplayCalls]
       /\ viewRows \subseteq Viewers /\ remarks \in Nat /\ lostViews \in Nat
       /\ display \in DisplayRow
  BY <1>0, DisplayNats DEF DisplayTypeOK
<1>01. /\ display.likes \in Nat /\ display.comments \in Nat /\ display.views \in Nat
       /\ display.state \in DisplayStates
  BY <1>00 DEF DisplayRow
<1>02. /\ IsFiniteSet(Fans) /\ Cardinality(Fans) \in Nat /\ Fans \subseteq Viewers
       /\ IsFiniteSet(viewRows) /\ Cardinality(viewRows) \in Nat
       /\ IsFiniteSet(Counting) /\ Cardinality(Counting) \in Nat
  BY <1>00, ViewersCount, DisplayThreadsCount DEF Fans, Counting
<1>03. AtRest.op = "idle"
  BY DEF AtRest
<1>1. ASSUME NEW t \in DisplayThreads, NEW c, Admit(t, c), c.op # "count"
      PROVE  Counted'
  <2>1. ~Doing(t, "count")
    BY <1>1, <1>03 DEF Admit, Doing
  <2>. QED
    BY <1>0, <1>1, <2>1, CountingStays, DisplayQuiet DEF Admit
<1>2. ASSUME NEW t \in DisplayThreads, DisplayFails(t), ~Doing(t, "count")
      PROVE  Counted'
  BY <1>0, <1>2, <1>03, CountingStays, DisplayQuiet DEF DisplayFails, Rests
<1>3. ASSUME NEW t \in DisplayThreads, Rests(t), ~Doing(t, "count")
      PROVE  Counting' = Counting
  BY <1>0, <1>3, <1>03, CountingStays DEF Rests
<1>4. ASSUME NEW t \in DisplayThreads, Rests(t), Doing(t, "count")
      PROVE  Cardinality(Counting') = Cardinality(Counting) - 1
  <2>1. Counting' = Counting \ {t} /\ t \in Counting
    BY <1>00, <1>03, <1>4 DEF Counting, Doing, Rests, DisplayGoes
  <2>. QED
    BY <1>02, <2>1, FS_RemoveElement
<1>5. ASSUME NEW t \in DisplayThreads, InsertView(t)
      PROVE  Counted'
  <2>. DEFINE u == displayCall[t].u
  <2>0. u \in Viewers /\ ~Doing(t, "count")
    BY <1>0, <1>5, DisplayCallTypes DEF InsertView, Doing
  <2>1. CASE DisplayFails(t)
    BY <1>2, <2>0, <2>1
  <2>2. CASE ~DisplayFails(t)
    <3>1. /\ display.state # "gone" /\ u \notin viewRows
          /\ viewRows' = viewRows \cup {u} /\ DisplayGoes(t, [op |-> "count", u |-> u])
          /\ UNCHANGED <<display, fan, fanKeys, remarks, hidden, displayLeft, displayHist>>
      BY <1>5, <2>2 DEF InsertView, Created
    <3>2. Counting' = Counting \cup {t} /\ t \notin Counting
      BY <1>00, <2>0, <3>1 DEF Counting, Doing, DisplayGoes
    <3>3. /\ Cardinality(Counting') = Cardinality(Counting) + 1
          /\ Cardinality(viewRows') = Cardinality(viewRows) + 1
      BY <1>02, <3>1, <3>2, FS_AddElement
    <3>4. ViewsCountedOnce'
      <4>1. display' = display /\ lostViews' = lostViews
        BY <3>1 DEF displayHist
      <4>. QED
        BY <1>0, <1>00, <1>01, <1>02, <3>3, <4>1 DEF ViewsCountedOnce
    <3>5. LikesCountedTwice' /\ CommentsCounted' /\ GoneIsEmpty'
      BY <1>0, <3>1 DEF LikesCountedTwice, CommentsCounted, GoneIsEmpty, Fans, displayHist
    <3>. QED
      BY <3>4, <3>5
  <2>. QED
    BY <2>1, <2>2
<1>6. ASSUME NEW t \in DisplayThreads, CountView(t) \/ LoseView(t)
      PROVE  Counted'
  <2>1. Cardinality(Counting') = Cardinality(Counting) - 1
    BY <1>4, <1>6 DEF CountView, LoseView
  <2>2. UNCHANGED <<fan, viewRows, remarks, unfanned>>
    BY <1>6 DEF CountView, LoseView, displayRows, displayHist
  <2>3. /\ display'.state = display.state /\ display'.likes = display.likes
        /\ display'.comments = display.comments
        /\ display.state # "gone" => display'.views + lostViews' = display.views + lostViews + 1
    BY <1>00, <1>01, <1>6 DEF CountView, LoseView, displayRows, displayHist, DisplayRow
  <2>4. display'.views \in Nat /\ lostViews' \in Nat
    BY <1>00, <1>01, <1>6 DEF CountView, LoseView, displayRows, displayHist, DisplayRow
  <2>5. ViewsCountedOnce'
    BY <1>0, <1>00, <1>01, <1>02, <2>1, <2>2, <2>3, <2>4 DEF ViewsCountedOnce
  <2>6. LikesCountedTwice' /\ CommentsCounted' /\ GoneIsEmpty'
    BY <1>0, <2>2, <2>3 DEF LikesCountedTwice, CommentsCounted, GoneIsEmpty, Fans
  <2>. QED
    BY <2>5, <2>6
<1>7. ASSUME NEW t \in DisplayThreads, Toggle(t)
      PROVE  Counted'
  <2>. DEFINE u == displayCall[t].u
  <2>0. u \in Viewers /\ ~Doing(t, "count")
    BY <1>0, <1>7, DisplayCallTypes DEF Toggle, Doing
  <2>1. CASE DisplayFails(t)
    BY <1>2, <2>0, <2>1
  <2>2. CASE fan[u] # 0 /\ ~DisplayFails(t)
    <3>1. DisplayGoes(t, [op |-> "unlike", u |-> u, key |-> fan[u]])
          /\ UNCHANGED <<displayRows, displayLeft, displayHist>>
      BY <1>7, <2>2 DEF Toggle
    <3>. QED
      BY <1>0, <2>0, <3>1, CountingStays, DisplayQuiet
  <2>3. CASE fan[u] = 0 /\ ~DisplayFails(t)
    <3>1. /\ display.state # "gone"
          /\ fan' = [fan EXCEPT ![u] = fanKeys + 1]
          /\ display' = [display EXCEPT !.likes = @ + 2]
          /\ Rests(t) /\ UNCHANGED <<viewRows, remarks, hidden, displayHist>>
      BY <1>7, <2>3 DEF Toggle
    <3>2. Fans' = Fans \cup {u} /\ u \notin Fans
      BY <1>00, <2>0, <2>3, <3>1 DEF Fans
    <3>3. Cardinality(Fans') = Cardinality(Fans) + 1
      BY <1>02, <3>2, FS_AddElement
    <3>4. /\ display'.likes = display.likes + 2 /\ display'.state = display.state
          /\ display'.views = display.views /\ display'.comments = display.comments
      BY <1>00, <3>1 DEF DisplayRow
    <3>5. LikesCountedTwice'
      BY <1>0, <1>01, <1>02, <3>1, <3>3, <3>4 DEF LikesCountedTwice, displayHist
    <3>6. ViewsCountedOnce' /\ CommentsCounted' /\ GoneIsEmpty'
      BY <1>0, <1>3, <2>0, <3>1, <3>4 DEF ViewsCountedOnce, CommentsCounted, GoneIsEmpty, displayHist
    <3>. QED
      BY <3>5, <3>6
  <2>. QED
    BY <2>1, <2>2, <2>3
<1>8. ASSUME NEW t \in DisplayThreads, Untoggle(t)
      PROVE  Counted'
  <2>. DEFINE c == displayCall[t]
  <2>0. c.u \in Viewers /\ c.key \in 1 .. MaxDisplayLikes /\ ~Doing(t, "count")
    BY <1>0, <1>8, DisplayCallTypes DEF Untoggle, Doing
  <2>1. CASE DisplayFails(t)
    BY <1>2, <2>0, <2>1
  <2>2. CASE ~DisplayFails(t)
    <3>1. /\ display.state # "gone" /\ ~(display.likes < 2)
          /\ fan' = [fan EXCEPT ![c.u] = IF @ = c.key THEN 0 ELSE @]
          /\ display' = [display EXCEPT !.likes = @ - 2]
          /\ unfanned' = (unfanned \/ fan[c.u] # c.key)
          /\ Rests(t) /\ UNCHANGED <<fanKeys, viewRows, remarks, hidden, lostViews>>
      BY <1>8, <2>2 DEF Untoggle
    <3>2. ASSUME ~unfanned' PROVE Fans' = Fans \ {c.u} /\ c.u \in Fans
      <4>0. fan[c.u] = c.key
        BY <3>1, <3>2
      <4>1. fan[c.u] = c.key /\ c.key # 0
        BY <2>0, <4>0, DisplayNats
      <4>2. \A v \in Viewers : fan'[v] = IF v = c.u THEN 0 ELSE fan[v]
        BY <1>00, <2>0, <3>1, <4>1
      <4>. QED
        BY <2>0, <4>1, <4>2 DEF Fans
    <3>3. ~unfanned' => Cardinality(Fans') = Cardinality(Fans) - 1
      BY <1>02, <3>2, FS_RemoveElement
    <3>4. /\ display'.likes = display.likes - 2 /\ display'.state = display.state
          /\ display'.views = display.views /\ display'.comments = display.comments
      BY <1>00, <3>1 DEF DisplayRow
    <3>5. LikesCountedTwice'
      <4>1. ~unfanned' => ~unfanned
        BY <3>1
      <4>. QED
        BY <1>0, <1>01, <1>02, <3>3, <3>4, <4>1 DEF LikesCountedTwice
    <3>6. ViewsCountedOnce' /\ CommentsCounted' /\ GoneIsEmpty'
      BY <1>0, <1>3, <2>0, <3>1, <3>4 DEF ViewsCountedOnce, CommentsCounted, GoneIsEmpty
    <3>. QED
      BY <3>5, <3>6
  <2>. QED
    BY <2>1, <2>2
<1>9. ASSUME NEW t \in DisplayThreads, CommitRemark(t)
      PROVE  Counted'
  <2>0. ~Doing(t, "count")
    BY <1>9 DEF CommitRemark, Doing
  <2>1. CASE DisplayFails(t)
    BY <1>2, <2>0, <2>1
  <2>2. CASE ~DisplayFails(t)
    <3>1. /\ display.state # "gone" /\ remarks' = remarks + 1
          /\ display' = [display EXCEPT !.comments = @ + 1]
          /\ Rests(t) /\ UNCHANGED <<fan, fanKeys, viewRows, hidden, displayHist>>
      BY <1>9, <2>2 DEF CommitRemark
    <3>2. /\ display'.likes = display.likes /\ display'.state = display.state
          /\ display'.views = display.views /\ display'.comments = display.comments + 1
      BY <1>00, <3>1 DEF DisplayRow
    <3>3. Counting' = Counting
      BY <1>3, <2>0, <3>1
    <3>. QED
      BY <1>0, <1>01, <3>1, <3>2, <3>3
         DEF LikesCountedTwice, ViewsCountedOnce, CommentsCounted, GoneIsEmpty, Fans, displayHist
  <2>. QED
    BY <2>1, <2>2
<1>10. ASSUME NEW t \in DisplayThreads, CommitRemove(t)
       PROVE  Counted'
  <2>1. /\ display' = IF display.state = "gone" THEN display ELSE [display EXCEPT !.state = "marked"]
        /\ Rests(t) /\ UNCHANGED <<fan, fanKeys, viewRows, remarks, hidden, displayHist>>
    BY <1>10 DEF CommitRemove
  <2>2. display'.state # "live" /\ (display'.state = "gone" => display.state = "gone")
    BY <1>00, <2>1 DEF DisplayRow
  <2>. QED
    BY <1>0, <2>1, <2>2
       DEF LikesCountedTwice, ViewsCountedOnce, CommentsCounted, GoneIsEmpty, Fans
<1>11. ASSUME NEW t \in DisplayThreads, CommitSweep(t)
       PROVE  Counted'
  <2>0. ~Doing(t, "count")
    BY <1>11 DEF CommitSweep, Doing
  <2>1. CASE DisplayFails(t)
    BY <1>2, <2>0, <2>1
  <2>2. CASE ~DisplayFails(t)
    <3>1. /\ fan' = [u \in Viewers |-> 0] /\ viewRows' = {} /\ remarks' = 0
          /\ display' = [display EXCEPT
               !.state = IF @ = "live" THEN "gone" ELSE @,
               !.likes = @ - Cardinality(Fans), !.comments = @ - remarks]
      BY <1>11, <2>2 DEF CommitSweep
    <3>2. display'.state # "live"
      BY <1>00, <3>1 DEF DisplayRow
    <3>3. Fans' = {}
      BY <3>1 DEF Fans
    <3>. QED
      BY <3>1, <3>2, <3>3 DEF LikesCountedTwice, ViewsCountedOnce, CommentsCounted, GoneIsEmpty
  <2>. QED
    BY <2>1, <2>2
<1>12. ASSUME HideRemark \/ MarkSeen \/ HourPasses
       PROVE  Counted'
  <2>1. /\ display'.likes = display.likes /\ display'.state = display.state
        /\ display'.views = display.views /\ display'.comments = display.comments
    BY <1>00, <1>12 DEF HideRemark, MarkSeen, HourPasses, DisplayRow
  <2>2. UNCHANGED <<fan, viewRows, remarks, displayCall, displayHist>>
    BY <1>12 DEF HideRemark, MarkSeen, HourPasses
  <2>. QED
    BY <1>0, <2>1, <2>2 DEF LikesCountedTwice, ViewsCountedOnce, CommentsCounted, GoneIsEmpty,
       Fans, Counting, Doing, displayHist
<1>13. CASE UNCHANGED displayVars
  BY <1>0, <1>13, DisplayQuiet DEF displayVars, Counting, Doing
<1>14. ASSUME NEW t \in DisplayThreads,
              \/ \E u \in Viewers : BeginView(t, u) \/ BeginToggle(t, u)
              \/ BeginRemark(t) \/ BeginRemove(t) \/ BeginSweep(t)
       PROVE  Counted'
  BY <1>1, <1>14 DEF BeginView, BeginToggle, BeginRemark, BeginRemove, BeginSweep
<1>15. ASSUME NEW t \in DisplayThreads, DisplayStep(t) PROVE Counted'
  BY <1>5, <1>6, <1>7, <1>8, <1>9, <1>10, <1>11, <1>14, <1>15 DEF DisplayStep
<1>. QED
  BY <1>12, <1>13, <1>15 DEF DisplayNext

\* The counters of a display that stands are known functions of its rows: two
\* for a like, one for a view that was counted, one for a comment ever made;
\* a display swept away leaves no row (DisplayService, its signals, the sweep).
THEOREM DisplayHolds == DisplaySpec => []DisplayInv
BY DisplayStart, DisplayStepKeeps, PTL DEF DisplaySpec

-----------------------------------------------------------------------------
(***************************************************************************)
(* Geocodes: an address belongs to its cell, two of one cell are kept only *)
(* when Google was asked about one without sight of the other, and a place *)
(* is left without an answer only in the ways named.                       *)
(*                                                                         *)
(* The claim about two rows is not inductive: an address travels from a    *)
(* task to the cache, to its row and to the tasks and rows of the cell,    *)
(* and comes back from there.  RivalsCrossed speaks of all of them at      *)
(* once.  A step moves what one place holds and the key of its cell; the   *)
(* invariant survives it when what it writes came from within the cell     *)
(* (Origin), when a place that begins to ask records whom it did not see,  *)
(* and when the place itself still fits (Fits).                            *)
(***************************************************************************)

\* What place p, its task and its history say of each other.
Fits(p, row, step, a, n, most, up) ==
  /\ row.status = "resolved" <=> row.addr # {}
  /\ row.status = "none" => step \in {"none", "draft"} /\ n = 0
  /\ step = "draft" => row.status = "none"
  /\ step \in {"read", "known", "ask", "answered", "cached"} => row.status \in {"pending", "failed"}
  /\ step \in {"ask", "answered", "cached"} => a \in {{}, {p}}
  /\ step \in {"known", "cached"} => a # {}
  /\ step \in {"draft", "committed", "queued", "read", "known", "ask"} => n <= most
  /\ n <= 1 + most
  /\ row.status = "pending" /\ step \in {"none", "saved"} => up
AllFit == \A p \in Places :
  Fits(p, place[p], resolver[p].at, resolver[p].addr, asked[p], Runs(p), p \in givenUp)

\* Where an address that place p, its task or its cell takes may come from.
Held(r) == {place[r].addr, cells[r], resolver[r].addr}
Origin(p, a) ==
  \/ a = {}
  \/ \E r \in CellMates(p) : a \in Held(r)
  \/ a = {p} /\ Asking(p) /\ asked'[p] > 0
OnlyAt(p, g, f) == \A q \in Places \ {p} : g[q] = f[q]

\* The invariant says of each place that it fits.
LEMMA EachFits ==
  ASSUME GeoInv
  PROVE  /\ AllFit
         /\ \A p \in Places :
              /\ place[p] \in PlaceRows /\ cells[p] \in SUBSET Places /\ resolver[p] \in Resolving
              /\ resolver[p].addr \in SUBSET Places
              /\ resolver[p].at \notin {"draft", "known", "answered", "cached"} => resolver[p].addr = {}
              /\ retries[p] \in Nat /\ asked[p] \in Nat /\ Runs(p) \in Nat
         /\ geoLosses \in 0 .. MaxGeoLosses /\ MaxGeoLosses \in Nat
<1>1. AllFit
  BY DEF GeoInv, AllFit, Fits, TasksInStep, AtStep, Asking, AddressesOfTheCell, AskedOncePerRun, NoneForgotten
<1>2. /\ \A p \in Places : place[p] \in PlaceRows /\ cells[p] \in SUBSET Places /\ resolver[p] \in Resolving
      /\ \A p \in Places : retries[p] \in Nat /\ asked[p] \in Nat
      /\ geoLosses \in 0 .. MaxGeoLosses /\ MaxGeoLosses \in Nat
  BY PlaceCells DEF GeoInv, GeoTypes
<1>3. \A p \in Places : Runs(p) \in Nat
  BY <1>2 DEF Runs
<1>4. \A t \in Resolving : t.addr \in SUBSET Places
                           /\ (t.at \notin {"draft", "known", "answered", "cached"} => t.addr = {})
  BY DEF Resolving
<1>. QED
  BY <1>1, <1>2, <1>3, <1>4

\* The places of a cell are mates of each other.
LEMMA Mates ==
  ASSUME NEW p \in Places
  PROVE  /\ p \in CellMates(p) /\ CellMates(p) \subseteq Places
         /\ \A q \in CellMates(p) : CellMates(q) = CellMates(p)
BY DEF CellMates

\* The beginning fits.
LEMMA GeoStart == GeoInit => GeoInv
<1>. SUFFICES ASSUME GeoInit PROVE GeoInv
  OBVIOUS
<1>1. GeoTypes
  <2>1. NoResolver \in Resolving /\ MaxGeoLosses \in 0 .. MaxGeoLosses /\ NoPlace \in PlaceRows
    BY PlaceCells DEF Resolving, NoResolver, PlaceRows, NoPlace
  <2>. QED
    BY <2>1 DEF GeoInit, GeoTypes
<1>2. \A p \in Places : ~Around(p)
  BY DEF GeoInit, Around, Asking, NoResolver, NoPlace, CellMates
<1>3. RivalsCrossed
  BY <1>2 DEF RivalsCrossed, CellMates
<1>4. TasksInStep
  BY DEF GeoInit, TasksInStep, AtStep, Asking, NoResolver, NoPlace
<1>5. AddressesOfTheCell /\ NoneForgotten /\ OneAddressPerCell
  BY DEF GeoInit, AddressesOfTheCell, NoneForgotten, OneAddressPerCell, NoPlace, NoResolver, CellMates
<1>6. AskedOncePerRun
  BY PlaceCells DEF GeoInit, AskedOncePerRun, Runs
<1>. QED
  BY <1>1, <1>3, <1>4, <1>5, <1>6 DEF GeoInv

\* RivalsCrossed is the stronger claim.
LEMMA OneAddress == RivalsCrossed => OneAddressPerCell
<1>. SUFFICES ASSUME RivalsCrossed, NEW p \in Places, NEW q \in Places, p # q, CellOf[p] = CellOf[q],
                     {place[p].addr, place[q].addr} = {{p}, {q}}
              PROVE  {p, q} \in crossed
  BY DEF OneAddressPerCell
<1>1. p \in CellMates(p) /\ q \in CellMates(p) /\ p \in CellMates(q) /\ q \in CellMates(q)
  BY DEF CellMates
<1>2. {p} \in {place[p].addr, place[q].addr} /\ {q} \in {place[p].addr, place[q].addr}
  OBVIOUS
<1>3. Around(p) /\ Around(q)
  BY <1>1, <1>2 DEF Around
<1>. QED
  BY <1>1, <1>3 DEF RivalsCrossed

\* What one place, its task and the key of its cell may do in a step.
LEMMA MoveKeeps ==
  ASSUME GeoInv, NEW p \in Places, GeoTypes',
         OnlyAt(p, place', place), OnlyAt(p, resolver', resolver),
         OnlyAt(p, retries', retries), OnlyAt(p, asked', asked),
         \A q \in CellMates(p) : cells'[q] = cells'[p],
         \A q \in Places \ CellMates(p) : cells'[q] = cells[q],
         asked[p] <= asked'[p], geoLosses' <= geoLosses,
         givenUp \subseteq givenUp', crossed \subseteq crossed',
         Origin(p, place'[p].addr), Origin(p, resolver'[p].addr), Origin(p, cells'[p]),
         Asking(p)' => \/ Asking(p)
                       \/ \A q \in CellMates(p) \ {p} : Around(q) => {p, q} \in crossed',
         Fits(p, place'[p], resolver'[p].at, resolver'[p].addr, asked'[p], Runs(p)', p \in givenUp')
  PROVE  GeoInv'
<1>0. /\ AllFit /\ AddressesOfTheCell /\ RivalsCrossed
      /\ \A q \in Places : asked[q] \in Nat /\ asked'[q] \in Nat
  BY EachFits DEF GeoInv, GeoTypes
<1>1. \A q \in Places : asked[q] > 0 => asked'[q] > 0
  BY <1>0 DEF OnlyAt
<1>2. AllFit'
  <2>1. ASSUME NEW q \in Places \ {p}
        PROVE  Fits(q, place'[q], resolver'[q].at, resolver'[q].addr, asked'[q], Runs(q)', q \in givenUp')
    <3>1. Fits(q, place[q], resolver[q].at, resolver[q].addr, asked[q], Runs(q), q \in givenUp)
      BY <1>0 DEF AllFit
    <3>2. asked[q] \in Nat /\ Runs(q) \in Nat /\ Runs(q)' \in Nat /\ Runs(q) <= Runs(q)'
      BY EachFits, PlaceCells DEF Runs, OnlyAt, GeoTypes
    <3>3. /\ place'[q] = place[q] /\ resolver'[q] = resolver[q] /\ asked'[q] = asked[q]
          /\ q \in givenUp => q \in givenUp'
      BY DEF OnlyAt
    <3>. QED
      BY <3>1, <3>2, <3>3 DEF Fits
  <2>. QED
    BY <2>1 DEF AllFit
<1>3. TasksInStep' /\ AskedOncePerRun' /\ NoneForgotten'
  BY <1>2 DEF AllFit, Fits, TasksInStep, AtStep, Asking, AskedOncePerRun, NoneForgotten
\* Whatever is held after the step was held in the cell before, or is p's own.
<1>4. ASSUME NEW r \in Places, NEW a \in {place'[r].addr, cells'[r], resolver'[r].addr}, a # {}
      PROVE  \/ \E s \in CellMates(r) : a \in Held(s)
             \/ a = {p} /\ Asking(p) /\ asked'[p] > 0 /\ r \in CellMates(p)
  <2>1. CASE r = p
    BY <1>4, <2>1, Mates DEF Origin
  <2>2. CASE r # p /\ r \notin CellMates(p)
    BY <1>4, <2>2, Mates DEF Held, OnlyAt
  <2>3. CASE r # p /\ r \in CellMates(p)
    <3>1. CellMates(r) = CellMates(p)
      BY <2>3, Mates
    <3>. QED
      BY <1>4, <2>3, <3>1, Mates DEF Held, OnlyAt, Origin
  <2>. QED
    BY <2>1, <2>2, <2>3
<1>5. AddressesOfTheCell'
  <2>1. ASSUME NEW r \in Places, NEW a \in {place'[r].addr, cells'[r], resolver'[r].addr}, NEW q \in a
        PROVE  q \in CellMates(r) /\ asked'[q] > 0
    <3>1. CASE \E s \in CellMates(r) : a \in Held(s)
      <4>1. PICK s \in CellMates(r) : a \in Held(s)
        BY <3>1
      <4>2. q \in CellMates(s) /\ asked[q] > 0
        BY <1>0, <2>1, <4>1, Mates DEF AddressesOfTheCell, Held
      <4>. QED
        BY <1>1, <4>1, <4>2, Mates
    <3>2. CASE a = {p} /\ asked'[p] > 0 /\ r \in CellMates(p)
      BY <2>1, <3>2, Mates
    <3>. QED
      BY <1>4, <2>1, <3>1, <3>2
  <2>2. \A r \in Places : \A q \in CellMates(r) : cells'[q] = cells'[r]
    BY <1>0, Mates DEF AddressesOfTheCell
  <2>3. \A r \in Places : place'[r].status = "resolved" <=> place'[r].addr # {}
    BY <1>2 DEF AllFit, Fits
  <2>. QED
    BY <2>1, <2>2, <2>3 DEF AddressesOfTheCell, CellMates
<1>6. RivalsCrossed'
  <2>1. ASSUME NEW r \in Places, Around(r)'
        PROVE  Around(r) \/ (r = p /\ Asking(p)' /\ ~Asking(p))
    <3>1. CASE Asking(r)'
      BY <3>1 DEF Around, Asking, OnlyAt
    <3>2. ASSUME NEW s \in CellMates(r), {r} \in {place'[s].addr, cells'[s], resolver'[s].addr}
          PROVE  Around(r)
      <4>1. s \in Places /\ CellMates(s) = CellMates(r)
        BY Mates
      <4>2. (\E z \in CellMates(s) : {r} \in Held(z)) \/ ({r} = {p} /\ Asking(p))
        BY <1>4, <3>2, <4>1
      <4>. QED
        BY <4>1, <4>2 DEF Around, Held
    <3>3. CellMates(r)' = CellMates(r)
      BY DEF CellMates
    <3>. QED
      BY <2>1, <3>1, <3>2, <3>3 DEF Around
  <2>2. ASSUME NEW r \in Places, Around(r)', NEW q \in CellMates(r) \ {r}, Around(q)'
        PROVE  {r, q} \in crossed'
    <3>0. q \in Places /\ CellMates(q) = CellMates(r) /\ r \in CellMates(q)
      BY Mates
    <3>1. CASE Around(r) /\ Around(q)
      BY <1>0, <2>2, <3>1 DEF RivalsCrossed
    <3>2. CASE r = p /\ Asking(p)' /\ ~Asking(p)
      <4>1. Around(q)
        BY <2>1, <2>2, <3>0, <3>2
      <4>. QED
        BY <2>2, <3>2, <4>1
    <3>3. CASE q = p /\ Asking(p)' /\ ~Asking(p)
      <4>1. Around(r)
        BY <2>1, <2>2, <3>0, <3>3
      <4>2. {p, r} \in crossed'
        BY <2>2, <3>0, <3>3, <4>1
      <4>3. {p, r} = {r, q}
        BY <3>3
      <4>. QED
        BY <4>2, <4>3
    <3>. QED
      BY <2>1, <2>2, <3>0, <3>1, <3>2, <3>3
  <2>. QED
    BY <2>2 DEF RivalsCrossed, CellMates
<1>7. OneAddressPerCell'
  BY <1>6, OneAddress, PTL
<1>. QED
  BY <1>3, <1>5, <1>6, <1>7 DEF GeoInv

\* A task that takes a step changes only its own entry.
LEMMA TurnAlone ==
  ASSUME GeoTypes, NEW p \in Places, NEW step, NEW a, [at |-> step, addr |-> a] \in Resolving, Turn(p, step, a)
  PROVE  /\ resolver' \in [Places -> Resolving] /\ resolver'[p].at = step /\ resolver'[p].addr = a
         /\ OnlyAt(p, resolver', resolver)
<1>. DEFINE t == [at |-> step, addr |-> a]
<1>1. t.at = step /\ t.addr = a
  OBVIOUS
<1>2. resolver' = [resolver EXCEPT ![p] = t] /\ t \in Resolving
  BY DEF Turn
<1>. HIDE DEF t
<1>. QED
  BY <1>1, <1>2 DEF GeoTypes, OnlyAt

\* A row that is saved changes alone.
LEMMA SaveAlone ==
  ASSUME GeoTypes, NEW p \in Places, NEW row \in PlaceRows, Save(p, row)
  PROVE  place' \in [Places -> PlaceRows] /\ place'[p] = row /\ OnlyAt(p, place', place)
BY DEF GeoTypes, Save, OnlyAt

\* The keys of a cell are written together, or not at all.
LEMMA KeyAlone ==
  ASSUME GeoTypes, AddressesOfTheCell, NEW p \in Places, NEW a \in SUBSET Places,
         CacheAddress(p, a) \/ cells' = cells
  PROVE  /\ cells' \in [Places -> SUBSET Places] /\ cells'[p] \in {a, cells[p]}
         /\ \A q \in CellMates(p) : cells'[q] = cells'[p]
         /\ \A q \in Places \ CellMates(p) : cells'[q] = cells[q]
<1>1. CASE CacheAddress(p, a)
  <2>1. cells' = [q \in Places |-> IF q \in CellMates(p) THEN a ELSE cells[q]]
    BY <1>1 DEF CacheAddress
  <2>. QED
    BY <2>1, Mates DEF GeoTypes
<1>2. CASE cells' = cells
  BY <1>2, Mates DEF GeoTypes, AddressesOfTheCell
<1>. QED
  BY <1>1, <1>2

\* What apply_known_address finds comes from within the cell.
LEMMA FindsWithin ==
  ASSUME GeoInv, NEW p \in Places, NEW a \in SUBSET Places, Finds(p, a)
  PROVE  /\ a # {} /\ (\E r \in CellMates(p) : a \in Held(r))
         /\ CacheAddress(p, a) \/ cells' = cells
<1>0. GeoTypes /\ AddressesOfTheCell
  BY DEF GeoInv
<1>1. CASE a = cells[p] /\ a # {} /\ UNCHANGED cells
  BY <1>1, Mates DEF Held
<1>2. CASE a \in SiblingAddresses(p) /\ TryCache(p, a)
  <2>1. PICK r \in CellMates(p) \ {p} : place[r].status = "resolved" /\ a = place[r].addr
    BY <1>2 DEF SiblingAddresses
  <2>2. a # {}
    BY <1>0, <2>1, Mates DEF AddressesOfTheCell
  <2>. QED
    BY <1>2, <2>1, <2>2 DEF Held, TryCache
<1>. QED
  BY <1>1, <1>2 DEF Finds

\* A step that moves the task, and perhaps the key of the cell.
LEMMA TaskMoves ==
  ASSUME GeoInv, NEW p \in Places, NEW step, NEW a, [at |-> step, addr |-> a] \in Resolving, Turn(p, step, a),
         place' = place, NEW c \in SUBSET Places, CacheAddress(p, c) \/ cells' = cells,
         retries' \in [Places -> Nat], OnlyAt(p, retries', retries),
         asked' \in [Places -> Nat], OnlyAt(p, asked', asked), asked[p] <= asked'[p],
         geoLosses' \in 0 .. MaxGeoLosses, geoLosses' <= geoLosses,
         givenUp \subseteq givenUp', crossed \subseteq crossed',
         Origin(p, a), Origin(p, c),
         step \in {"ask", "answered", "cached"} =>
           Asking(p) \/ \A q \in CellMates(p) \ {p} : Around(q) => {p, q} \in crossed',
         Fits(p, place[p], step, a, asked'[p], Runs(p)', p \in givenUp')
  PROVE  GeoInv'
<1>0. GeoTypes /\ AddressesOfTheCell
  BY DEF GeoInv
<1>1. /\ resolver' \in [Places -> Resolving] /\ resolver'[p].at = step /\ resolver'[p].addr = a
      /\ OnlyAt(p, resolver', resolver)
  BY <1>0, TurnAlone
<1>2. /\ cells' \in [Places -> SUBSET Places] /\ cells'[p] \in {c, cells[p]}
      /\ \A q \in CellMates(p) : cells'[q] = cells'[p]
      /\ \A q \in Places \ CellMates(p) : cells'[q] = cells[q]
  BY <1>0, KeyAlone
<1>3. GeoTypes'
  BY <1>0, <1>1, <1>2 DEF GeoTypes
<1>4. Origin(p, place[p].addr) /\ Origin(p, cells'[p])
  BY <1>2, Mates DEF Origin, Held
<1>5. Asking(p)' => step \in {"ask", "answered", "cached"}
  BY <1>1 DEF Asking
<1>6. OnlyAt(p, place', place)
  BY DEF OnlyAt
<1>. HIDE DEF Origin, Fits, OnlyAt
<1>. QED
  BY <1>1, <1>2, <1>3, <1>4, <1>5, <1>6, MoveKeeps

\* A step that saves the row and moves the task out of Google's reach.
LEMMA RowMoves ==
  ASSUME GeoInv, NEW p \in Places, NEW step \in {"none", "committed", "saved"}, Turn(p, step, {}),
         NEW row \in PlaceRows, Save(p, row), row.addr \in {{}, resolver[p].addr},
         cells' = cells, retries' = retries, asked' = asked, geoLosses' = geoLosses,
         givenUp' = givenUp, crossed' = crossed,
         Fits(p, row, step, {}, asked[p], Runs(p), p \in givenUp)
  PROVE  GeoInv'
<1>0. GeoTypes /\ AddressesOfTheCell
  BY DEF GeoInv
<1>1. /\ resolver' \in [Places -> Resolving] /\ resolver'[p].at = step /\ resolver'[p].addr = {}
      /\ OnlyAt(p, resolver', resolver)
  <2>1. [at |-> step, addr |-> {}] \in Resolving
    BY DEF Resolving
  <2>. QED
    BY <1>0, <2>1, TurnAlone
<1>2. place' \in [Places -> PlaceRows] /\ place'[p] = row /\ OnlyAt(p, place', place)
  BY <1>0, SaveAlone
<1>3. GeoTypes'
  BY <1>0, <1>1, <1>2 DEF GeoTypes
<1>4. Origin(p, {}) /\ Origin(p, row.addr) /\ Origin(p, cells'[p])
  BY Mates DEF Origin, Held
<1>5. ~Asking(p)'
  BY <1>1 DEF Asking
<1>6. Runs(p)' = Runs(p) /\ OnlyAt(p, retries', retries) /\ OnlyAt(p, asked', asked)
  BY DEF Runs, OnlyAt
<1>7. /\ \A q \in CellMates(p) : cells'[q] = cells'[p]
      /\ \A q \in Places \ CellMates(p) : cells'[q] = cells[q]
  BY <1>0 DEF AddressesOfTheCell
<1>8. asked[p] <= asked'[p] /\ geoLosses' <= geoLosses
  BY EachFits
<1>. HIDE DEF Origin, Fits, OnlyAt
<1>. QED
  BY <1>1, <1>2, <1>3, <1>4, <1>5, <1>6, <1>7, <1>8, MoveKeeps

\* The steps before the task runs.
LEMMA CaptureSteps ==
  ASSUME GeoInv, NEW p \in Places, Capture(p) \/ CommitCapture(p) \/ DropCapture(p) \/ Enqueue(p)
  PROVE  GeoInv'
<1>0. /\ GeoTypes /\ AddressesOfTheCell
      /\ Fits(p, place[p], resolver[p].at, resolver[p].addr, asked[p], Runs(p), p \in givenUp)
      /\ retries \in [Places -> Nat] /\ asked \in [Places -> Nat] /\ geoLosses \in 0 .. MaxGeoLosses
      /\ asked[p] \in Nat /\ Runs(p) \in Nat /\ resolver[p].addr \in SUBSET Places
  BY EachFits DEF GeoInv, AllFit, GeoTypes
<1>1. ASSUME retries' = retries, asked' = asked, geoLosses' = geoLosses
      PROVE  /\ retries' \in [Places -> Nat] /\ OnlyAt(p, retries', retries)
             /\ asked' \in [Places -> Nat] /\ OnlyAt(p, asked', asked) /\ asked[p] <= asked'[p]
             /\ geoLosses' \in 0 .. MaxGeoLosses /\ geoLosses' <= geoLosses
             /\ asked'[p] = asked[p] /\ Runs(p)' = Runs(p)
  BY <1>0, <1>1, PlaceCells DEF OnlyAt, Runs
<1>2. \A a \in SUBSET Places : [at |-> "draft", addr |-> a] \in Resolving
  BY DEF Resolving
<1>3. \A step \in {"none", "queued"} : [at |-> step, addr |-> {}] \in Resolving
  BY DEF Resolving
<1>4. Origin(p, {})
  BY DEF Origin
<1>5. CASE Capture(p)
  <2>0. /\ place' = place /\ retries' = retries /\ asked' = asked /\ geoLosses' = geoLosses
        /\ crossed' = crossed /\ givenUp' = givenUp /\ place[p] = NoPlace
    BY <1>5 DEF Capture
  <2>1. ASSUME NEW a \in SUBSET Places
        PROVE  Fits(p, place[p], "draft", a, asked'[p], Runs(p)', p \in givenUp')
    BY <1>0, <1>1, <2>0 DEF Fits, NoPlace
  <2>2. CASE cells' = cells /\ Turn(p, "draft", {})
    <3>. HIDE DEF Origin, Fits, OnlyAt
    <3>. QED
      BY <1>1, <1>2, <1>4, <2>0, <2>1, <2>2, TaskMoves
  <2>3. CASE \E a \in SUBSET Places : Finds(p, a) /\ Turn(p, "draft", a)
    <3>1. PICK a \in SUBSET Places : Finds(p, a) /\ Turn(p, "draft", a)
      BY <2>3
    <3>2. Origin(p, a) /\ (CacheAddress(p, a) \/ cells' = cells)
      BY <3>1, FindsWithin DEF Origin
    <3>. HIDE DEF Origin, Fits, OnlyAt
    <3>. QED
      BY <1>1, <1>2, <2>0, <2>1, <3>1, <3>2, TaskMoves
  <2>. QED
    BY <1>5, <2>2, <2>3 DEF Capture
<1>6. CASE CommitCapture(p)
  <2>0. /\ cells' = cells /\ retries' = retries /\ asked' = asked /\ geoLosses' = geoLosses
        /\ crossed' = crossed /\ givenUp' = givenUp /\ resolver[p].at = "draft"
    BY <1>6 DEF CommitCapture, AtStep
  <2>1. CASE resolver[p].addr = {} /\ Save(p, Row("pending")) /\ Turn(p, "committed", {})
    <3>1. Row("pending") \in PlaceRows /\ Row("pending").addr = {}
      BY DEF Row, PlaceRows
    <3>2. Fits(p, Row("pending"), "committed", {}, asked[p], Runs(p), p \in givenUp)
      BY <1>0, <2>0 DEF Fits, Row
    <3>. HIDE DEF Fits
    <3>. QED
      BY <2>0, <2>1, <3>1, <3>2, RowMoves
  <2>2. CASE resolver[p].addr # {} /\ Save(p, Located(resolver[p].addr)) /\ Turn(p, "none", {})
    <3>1. Located(resolver[p].addr) \in PlaceRows /\ Located(resolver[p].addr).addr = resolver[p].addr
      BY <1>0 DEF Located, PlaceRows
    <3>2. Fits(p, Located(resolver[p].addr), "none", {}, asked[p], Runs(p), p \in givenUp)
      BY <1>0, <2>0, <2>2 DEF Fits, Located
    <3>. HIDE DEF Fits
    <3>. QED
      BY <2>0, <2>2, <3>1, <3>2, RowMoves
  <2>. QED
    BY <1>6, <2>1, <2>2 DEF CommitCapture
<1>7. CASE DropCapture(p)
  <2>1. Fits(p, place[p], "none", {}, asked'[p], Runs(p)', p \in givenUp')
    BY <1>0, <1>1, <1>7 DEF Fits, DropCapture, AtStep
  <2>. HIDE DEF Origin, Fits, OnlyAt
  <2>. QED
    BY <1>1, <1>3, <1>4, <1>7, <2>1, TaskMoves DEF DropCapture
<1>8. CASE Enqueue(p)
  <2>0. /\ place' = place /\ cells' = cells /\ retries' = retries /\ asked' = asked
        /\ geoLosses' = geoLosses /\ crossed' = crossed /\ givenUp \subseteq givenUp'
        /\ \/ Turn(p, "queued", {})
           \/ Turn(p, "none", {}) /\ p \in givenUp'
    BY <1>8 DEF Enqueue
  <2>1. Fits(p, place[p], "queued", {}, asked'[p], Runs(p)', p \in givenUp')
    BY <1>0, <1>1, <1>8, <2>0 DEF Fits, Enqueue, AtStep
  <2>2. p \in givenUp' => Fits(p, place[p], "none", {}, asked'[p], Runs(p)', p \in givenUp')
    BY <1>0, <1>1, <1>8, <2>0 DEF Fits, Enqueue, AtStep
  <2>. HIDE DEF Origin, Fits, OnlyAt
  <2>. QED
    BY <1>1, <1>3, <1>4, <2>0, <2>1, <2>2, TaskMoves
<1>. QED
  BY <1>5, <1>6, <1>7, <1>8

\* A key that expires leaves the rest as it is.
LEMMA ExpireKeeps ==
  ASSUME GeoInv, NEW p \in Places, Expire(p)
  PROVE  GeoInv'
<1>0. /\ GeoTypes /\ AddressesOfTheCell
      /\ Fits(p, place[p], resolver[p].at, resolver[p].addr, asked[p], Runs(p), p \in givenUp)
  BY EachFits DEF GeoInv, AllFit
<1>1. /\ place' = place /\ resolver' = resolver /\ retries' = retries /\ geoLosses' = geoLosses
      /\ asked' = asked /\ crossed' = crossed /\ givenUp' = givenUp /\ CacheAddress(p, {})
  BY DEF Expire
<1>2. /\ cells' \in [Places -> SUBSET Places] /\ cells'[p] \in {{}, cells[p]}
      /\ \A q \in CellMates(p) : cells'[q] = cells'[p]
      /\ \A q \in Places \ CellMates(p) : cells'[q] = cells[q]
  BY <1>0, <1>1, KeyAlone
<1>3. GeoTypes'
  BY <1>0, <1>1, <1>2 DEF GeoTypes
<1>4. Origin(p, place'[p].addr) /\ Origin(p, resolver'[p].addr) /\ Origin(p, cells'[p])
  BY <1>1, <1>2, Mates DEF Origin, Held
<1>5. /\ OnlyAt(p, place', place) /\ OnlyAt(p, resolver', resolver)
      /\ OnlyAt(p, retries', retries) /\ OnlyAt(p, asked', asked)
  BY <1>1 DEF OnlyAt
<1>6. /\ asked[p] <= asked'[p] /\ geoLosses' <= geoLosses
      /\ Asking(p)' => Asking(p)
      /\ Runs(p)' = Runs(p)
  BY <1>1, EachFits DEF Asking, Runs
<1>7. Fits(p, place'[p], resolver'[p].at, resolver'[p].addr, asked'[p], Runs(p)', p \in givenUp')
  BY <1>0, <1>1, <1>6
<1>. HIDE DEF Origin, Fits, OnlyAt
<1>. QED
  BY <1>1, <1>2, <1>3, <1>4, <1>5, <1>6, <1>7, MoveKeeps

\* A place that begins to ask records whose address it did not see.
LEMMA Recorded ==
  ASSUME GeoInv, NEW p \in Places, AtStep(p, "read"), Unknown(p)
  PROVE  \A q \in CellMates(p) \ {p} : Around(q) => OutOfSight(p, q)
<1>1. /\ AddressesOfTheCell /\ place[p].status # "resolved"
  BY DEF GeoInv, TasksInStep, AtStep
<1>2. ASSUME NEW q \in CellMates(p) \ {p}, NEW r \in CellMates(q), {q} = place[r].addr
      PROVE  FALSE
  <2>1. r \in CellMates(p) /\ place[r].status = "resolved"
    BY <1>1, <1>2, Mates DEF AddressesOfTheCell
  <2>. QED
    BY <1>1, <2>1 DEF Unknown, SiblingAddresses
<1>3. \A q \in CellMates(p) : \A r \in CellMates(q) : r \in CellMates(p) /\ cells[r] = cells[p]
  BY <1>1, Mates DEF AddressesOfTheCell
<1>. QED
  BY <1>2, <1>3 DEF Around, OutOfSight

\* The steps that read, look and ask.
LEMMA TaskSteps ==
  ASSUME GeoInv, NEW p \in Places,
         ReadPlace(p) \/ LookForKnown(p) \/ AskGoogle(p) \/ NotConfigured(p) \/ CacheAnswer(p) \/ Acknowledge(p)
  PROVE  GeoInv'
<1>0. /\ GeoTypes /\ AddressesOfTheCell
      /\ Fits(p, place[p], resolver[p].at, resolver[p].addr, asked[p], Runs(p), p \in givenUp)
      /\ retries \in [Places -> Nat] /\ asked \in [Places -> Nat] /\ geoLosses \in 0 .. MaxGeoLosses
      /\ asked[p] \in Nat /\ Runs(p) \in Nat /\ resolver[p].addr \in SUBSET Places
      /\ place[p].status \in {"none", "pending", "failed", "resolved"}
  BY EachFits DEF GeoInv, AllFit, GeoTypes, PlaceRows
<1>1. ASSUME retries' = retries, asked' = asked, geoLosses' = geoLosses
      PROVE  /\ retries' \in [Places -> Nat] /\ OnlyAt(p, retries', retries)
             /\ asked' \in [Places -> Nat] /\ OnlyAt(p, asked', asked) /\ asked[p] <= asked'[p]
             /\ geoLosses' \in 0 .. MaxGeoLosses /\ geoLosses' <= geoLosses
             /\ asked'[p] = asked[p] /\ Runs(p)' = Runs(p)
  BY <1>0, <1>1, PlaceCells DEF OnlyAt, Runs
<1>2. \A a \in SUBSET Places : \A step \in {"known", "answered", "cached"} : [at |-> step, addr |-> a] \in Resolving
  BY DEF Resolving
<1>3. \A step \in {"none", "read", "ask", "saved"} : [at |-> step, addr |-> {}] \in Resolving
  BY DEF Resolving
<1>4. Origin(p, {}) /\ Origin(p, resolver[p].addr)
  BY Mates DEF Origin, Held
<1>5. CASE ReadPlace(p)
  <2>1. Fits(p, place[p], IF place[p].status = "resolved" THEN "saved" ELSE "read", {},
             asked'[p], Runs(p)', p \in givenUp')
    <3>1. CASE place[p].status = "resolved"
      BY <1>0, <1>1, <1>5, <3>1 DEF Fits, ReadPlace, AtStep
    <3>2. CASE place[p].status # "resolved"
      BY <1>0, <1>1, <1>5, <3>2 DEF Fits, ReadPlace, AtStep
    <3>. QED
      BY <3>1, <3>2
  <2>. HIDE DEF Origin, Fits, OnlyAt
  <2>. QED
    BY <1>1, <1>3, <1>4, <1>5, <2>1, TaskMoves DEF ReadPlace
<1>6. CASE LookForKnown(p)
  <2>0. /\ place' = place /\ retries' = retries /\ asked' = asked /\ geoLosses' = geoLosses
        /\ givenUp' = givenUp /\ resolver[p].at = "read"
    BY <1>6 DEF LookForKnown, AtStep
  <2>1. CASE /\ Unknown(p) /\ cells' = cells /\ Turn(p, "ask", {})
             /\ crossed' = crossed \cup {{p, q} : q \in {r \in CellMates(p) \ {p} : OutOfSight(p, r)}}
    <3>1. \A q \in CellMates(p) \ {p} : Around(q) => {p, q} \in crossed'
      BY <2>0, <2>1, Recorded DEF AtStep
    <3>2. Fits(p, place[p], "ask", {}, asked'[p], Runs(p)', p \in givenUp')
      BY <1>0, <1>1, <2>0 DEF Fits
    <3>3. crossed \subseteq crossed'
      BY <2>1
    <3>. HIDE DEF Origin, Fits, OnlyAt
    <3>. QED
      BY <1>1, <1>3, <1>4, <2>0, <2>1, <3>1, <3>2, <3>3, TaskMoves
  <2>2. CASE (\E a \in SUBSET Places : Finds(p, a) /\ Turn(p, "known", a)) /\ crossed' = crossed
    <3>1. PICK a \in SUBSET Places : Finds(p, a) /\ Turn(p, "known", a)
      BY <2>2
    <3>2. a # {} /\ Origin(p, a) /\ (CacheAddress(p, a) \/ cells' = cells)
      BY <3>1, FindsWithin DEF Origin
    <3>3. Fits(p, place[p], "known", a, asked'[p], Runs(p)', p \in givenUp')
      BY <1>0, <1>1, <2>0, <3>2 DEF Fits
    <3>. HIDE DEF Origin, Fits, OnlyAt
    <3>. QED
      BY <1>1, <1>2, <2>0, <2>2, <3>1, <3>2, <3>3, TaskMoves
  <2>. QED
    BY <1>6, <2>1, <2>2 DEF LookForKnown
<1>7. CASE AskGoogle(p)
  <2>0. /\ place' = place /\ cells' = cells /\ retries' = retries /\ geoLosses' = geoLosses
        /\ crossed' = crossed /\ givenUp' = givenUp /\ resolver[p].at = "ask" /\ Asking(p)
    BY <1>7 DEF AskGoogle, AtStep, Asking
  <2>1. /\ asked' \in [Places -> Nat] /\ OnlyAt(p, asked', asked) /\ asked'[p] = asked[p] + 1
        /\ Runs(p)' = Runs(p) /\ OnlyAt(p, retries', retries) /\ retries' \in [Places -> Nat]
        /\ geoLosses' \in 0 .. MaxGeoLosses /\ geoLosses' <= geoLosses
    BY <1>0, <1>7, <2>0, PlaceCells DEF AskGoogle, OnlyAt, Runs
  <2>2. PICK a \in {{p}, {}} : Turn(p, "answered", a)
    BY <1>7 DEF AskGoogle
  <2>3. Fits(p, place[p], "answered", a, asked'[p], Runs(p)', p \in givenUp')
    BY <1>0, <2>0, <2>1, <2>2 DEF Fits
  <2>4. Origin(p, a) /\ a \in SUBSET Places /\ asked[p] <= asked'[p]
    BY <1>0, <2>0, <2>1, <2>2 DEF Origin
  <2>. HIDE DEF Origin, Fits, OnlyAt
  <2>. QED
    BY <1>2, <1>4, <2>0, <2>1, <2>2, <2>3, <2>4, TaskMoves
<1>8. CASE NotConfigured(p)
  <2>1. Fits(p, place[p], "saved", {}, asked'[p], Runs(p)', p \in givenUp')
    BY <1>0, <1>1, <1>8 DEF Fits, NotConfigured, AtStep
  <2>2. givenUp \subseteq givenUp'
    BY <1>8 DEF NotConfigured
  <2>. HIDE DEF Origin, Fits, OnlyAt
  <2>. QED
    BY <1>1, <1>3, <1>4, <1>8, <2>1, <2>2, TaskMoves DEF NotConfigured
<1>9. CASE CacheAnswer(p)
  <2>1. /\ place' = place /\ retries' = retries /\ asked' = asked /\ geoLosses' = geoLosses
        /\ givenUp' = givenUp /\ crossed' = crossed /\ resolver[p].at = "answered" /\ resolver[p].addr # {}
        /\ CacheAddress(p, resolver[p].addr) \/ cells' = cells
        /\ Turn(p, "cached", resolver[p].addr) /\ Asking(p)
    BY <1>9 DEF CacheAnswer, AtStep, TryCache, Asking
  <2>2. Fits(p, place[p], "cached", resolver[p].addr, asked'[p], Runs(p)', p \in givenUp')
    BY <1>0, <1>1, <2>1 DEF Fits
  <2>. HIDE DEF Origin, Fits, OnlyAt
  <2>. QED
    BY <1>0, <1>1, <1>2, <1>4, <2>1, <2>2, TaskMoves
<1>10. CASE Acknowledge(p)
  <2>1. Fits(p, place[p], "none", {}, asked'[p], Runs(p)', p \in givenUp')
    BY <1>0, <1>1, <1>10 DEF Fits, Acknowledge, AtStep
  <2>. HIDE DEF Origin, Fits, OnlyAt
  <2>. QED
    BY <1>1, <1>3, <1>4, <1>10, <2>1, TaskMoves DEF Acknowledge
<1>. QED
  BY <1>5, <1>6, <1>7, <1>8, <1>9, <1>10

\* The steps that save the row.
LEMMA SavingSteps ==
  ASSUME GeoInv, NEW p \in Places, MarkFailed(p) \/ ApplyAddress(p)
  PROVE  GeoInv'
<1>0. /\ Fits(p, place[p], resolver[p].at, resolver[p].addr, asked[p], Runs(p), p \in givenUp)
      /\ asked[p] \in Nat /\ Runs(p) \in Nat /\ resolver[p].addr \in SUBSET Places
  BY EachFits DEF AllFit
<1>1. CASE MarkFailed(p)
  <2>1. Row("failed") \in PlaceRows /\ Row("failed").addr = {}
    BY DEF Row, PlaceRows
  <2>2. Fits(p, Row("failed"), "saved", {}, asked[p], Runs(p), p \in givenUp)
    BY <1>0, <1>1 DEF Fits, Row, MarkFailed, AtStep
  <2>. HIDE DEF Fits
  <2>. QED
    BY <1>1, <2>1, <2>2, RowMoves DEF MarkFailed
<1>2. CASE ApplyAddress(p)
  <2>1. Located(resolver[p].addr) \in PlaceRows /\ Located(resolver[p].addr).addr = resolver[p].addr
    BY <1>0 DEF Located, PlaceRows
  <2>2. Fits(p, Located(resolver[p].addr), "saved", {}, asked[p], Runs(p), p \in givenUp)
    BY <1>0, <1>2 DEF Fits, Located, ApplyAddress
  <2>. HIDE DEF Fits
  <2>. QED
    BY <1>2, <2>1, <2>2, RowMoves DEF ApplyAddress
<1>. QED
  BY <1>1, <1>2

\* A task that begins anew, or is dropped, may ask once more.
LEMMA StepsLost ==
  ASSUME GeoInv, NEW p \in Places, TaskRaises(p) \/ LoseWorker(p)
  PROVE  GeoInv'
<1>0. /\ Fits(p, place[p], resolver[p].at, resolver[p].addr, asked[p], Runs(p), p \in givenUp)
      /\ retries \in [Places -> Nat] /\ asked \in [Places -> Nat] /\ geoLosses \in 0 .. MaxGeoLosses
      /\ asked[p] \in Nat /\ Runs(p) \in Nat /\ MaxGeoLosses \in Nat
  BY EachFits DEF GeoInv, AllFit, GeoTypes
<1>1. Running(p) /\ place' = place /\ cells' = cells /\ asked' = asked /\ crossed' = crossed
  BY DEF TaskRaises, LoseWorker
<1>2. /\ retries' \in [Places -> Nat] /\ OnlyAt(p, retries', retries)
      /\ geoLosses' \in 0 .. MaxGeoLosses /\ geoLosses' <= geoLosses /\ givenUp \subseteq givenUp'
      /\ \/ Turn(p, "queued", {}) /\ Runs(p)' = Runs(p) + 1
         \/ Turn(p, "none", {}) /\ p \in givenUp' /\ Runs(p)' = Runs(p)
  <2>1. CASE TaskRaises(p)
    <3>1. geoLosses' = geoLosses
      BY <2>1 DEF TaskRaises
    <3>2. CASE /\ retries[p] < MaxRetries /\ retries' = [retries EXCEPT ![p] = @ + 1]
               /\ Turn(p, "queued", {}) /\ UNCHANGED givenUp
      BY <1>0, <3>1, <3>2, PlaceCells DEF OnlyAt, Runs
    <3>3. CASE /\ retries[p] = MaxRetries /\ UNCHANGED retries
               /\ Turn(p, "none", {}) /\ givenUp' = givenUp \cup {p}
      BY <1>0, <3>1, <3>3, PlaceCells DEF OnlyAt, Runs
    <3>. QED
      BY <2>1, <3>2, <3>3 DEF TaskRaises
  <2>2. CASE LoseWorker(p)
    <3>1. /\ geoLosses > 0 /\ geoLosses' = geoLosses - 1 /\ retries' = retries
          /\ Turn(p, "queued", {}) /\ givenUp' = givenUp
      BY <2>2 DEF LoseWorker
    <3>2. Runs(p)' = Runs(p) + 1 /\ geoLosses' \in 0 .. MaxGeoLosses /\ geoLosses' <= geoLosses
      BY <1>0, <3>1 DEF Runs
    <3>3. retries' \in [Places -> Nat] /\ OnlyAt(p, retries', retries)
      BY <1>0, <3>1 DEF OnlyAt
    <3>. QED
      BY <3>1, <3>2, <3>3
  <2>. QED
    BY <2>1, <2>2
<1>3. /\ asked' \in [Places -> Nat] /\ OnlyAt(p, asked', asked) /\ asked[p] <= asked'[p] /\ asked'[p] = asked[p]
  BY <1>0, <1>1 DEF OnlyAt
<1>4. \A step \in {"none", "queued"} : [at |-> step, addr |-> {}] \in Resolving
  BY DEF Resolving
<1>5. Origin(p, {})
  BY DEF Origin
<1>6. place[p].status \in {"pending", "failed", "resolved"}
  <2>1. place[p].status \in {"none", "pending", "failed", "resolved"}
    BY EachFits DEF PlaceRows
  <2>. QED
    BY <1>0, <1>1, <2>1 DEF Fits, Running
<1>7. CASE Turn(p, "queued", {}) /\ Runs(p)' = Runs(p) + 1
  <2>1. Fits(p, place[p], "queued", {}, asked'[p], Runs(p)', p \in givenUp')
    BY <1>0, <1>3, <1>6, <1>7 DEF Fits
  <2>. HIDE DEF Origin, Fits, OnlyAt
  <2>. QED
    BY <1>1, <1>2, <1>3, <1>4, <1>5, <1>7, <2>1, TaskMoves
<1>8. CASE Turn(p, "none", {}) /\ p \in givenUp' /\ Runs(p)' = Runs(p)
  <2>1. Fits(p, place[p], "none", {}, asked'[p], Runs(p)', p \in givenUp')
    BY <1>0, <1>3, <1>6, <1>8 DEF Fits
  <2>. HIDE DEF Origin, Fits, OnlyAt
  <2>. QED
    BY <1>1, <1>2, <1>3, <1>4, <1>5, <1>8, <2>1, TaskMoves
<1>. QED
  BY <1>2, <1>7, <1>8

\* Every step keeps the invariant.
LEMMA GeoStepKeeps == GeoInv /\ [GeoNext]_geoVars => GeoInv'
<1>1. ASSUME GeoInv, NEW p \in Places, PlaceStep(p)
      PROVE  GeoInv'
  <2>1. CASE Capture(p) \/ CommitCapture(p) \/ DropCapture(p) \/ Enqueue(p)
    BY <1>1, <2>1, CaptureSteps
  <2>2. CASE Expire(p)
    BY <1>1, <2>2, ExpireKeeps
  <2>3. CASE \/ ReadPlace(p) \/ LookForKnown(p) \/ AskGoogle(p) \/ NotConfigured(p)
             \/ CacheAnswer(p) \/ Acknowledge(p)
    BY <1>1, <2>3, TaskSteps
  <2>4. CASE MarkFailed(p) \/ ApplyAddress(p)
    BY <1>1, <2>4, SavingSteps
  <2>5. CASE TaskRaises(p) \/ LoseWorker(p)
    BY <1>1, <2>5, StepsLost
  <2>. QED
    BY <1>1, <2>1, <2>2, <2>3, <2>4, <2>5 DEF PlaceStep
<1>2. ASSUME GeoInv, UNCHANGED geoVars
      PROVE  GeoInv'
  BY <1>2 DEF geoVars, GeoInv, GeoTypes, AddressesOfTheCell, OneAddressPerCell, AskedOncePerRun, NoneForgotten,
     RivalsCrossed, TasksInStep, Around, Asking, AtStep, Runs, CellMates
<1>. QED
  BY <1>1, <1>2 DEF GeoNext

\* For every number of places, of cells, of retries and of lost workers: a
\* place holds what Google said of a place of its cell; two places of one cell
\* keep two addresses only when Google was asked about one without sight of
\* the other; Google is asked once and once more per retry and lost worker;
\* and a place stays pending only while it is being resolved, or when its task
\* was not queued, was given up, or had no key to Google.
THEOREM PlacesHold == GeoSpec => []GeoInv
<1>. QED
  BY GeoStart, GeoStepKeeps, PTL DEF GeoSpec

-----------------------------------------------------------------------------
(***************************************************************************)
(* Files: a media that is counted on keeps its file, and the avatar is not *)
(* one that is being cleaned up. The proof first tells which action can    *)
(* change what (RowsChange, TasksChange, ObjectsChange, CallsChange), then *)
(* takes the conjuncts one by one; KeysAhead and WornOnce say why a run    *)
(* that is repeated meets nobody.                                          *)
(***************************************************************************)

\* The beginning fits.
LEMMA MediaStart == MediaInit => MediaInv
<1>. SUFFICES ASSUME MediaInit PROVE MediaInv
  OBVIOUS
<1>. USE DEF MediaInit
<1>1. MediaTypeOK
  <2>1. NoTask \in TaskStates /\ NoRequest \in MediaCalls
    BY DEF TaskStates, MediaCalls
  <2>2. avatar \in AtMostOne
    BY FS_EmptySet DEF AtMostOne
  <2>3. MaxMediaCalls \in 0 .. MaxMediaCalls /\ MaxMediaLosses \in 0 .. MaxMediaLosses
    BY MediaNats
  <2>4. runs \in [Files -> FileKeys]
    BY MediaNats DEF FileKeys
  <2>. QED
    BY <2>1, <2>2, <2>3, <2>4 DEF MediaTypeOK
<1>2. \A m \in Files : ~Known(m) /\ task[m] = NoTask /\ task[m].at = "none"
  BY DEF Known, NoTask
<1>3. \A t \in MediaThreads : mediaCall[t].op = "idle"
  BY DEF NoRequest
<1>4. Outgoing = {} /\ Worn = {}
  BY <1>2, <1>3 DEF Outgoing, Worn, MediaAt
<1>5. FilesStay /\ DroppedAreGone /\ KeysAhead
  BY <1>2 DEF FilesStay, DroppedAreGone, KeysAhead, IsKind
<1>6. AvatarKept /\ WornOnce
  BY <1>2, <1>4 DEF AvatarKept, WornOnce, IsKind, MediaAt
<1>7. KindsFit
  BY <1>2, <1>3, <1>4 DEF KindsFit, MediaAt
<1>. QED
  BY <1>1, <1>5, <1>6, <1>7 DEF MediaInv

\* A row that exists is one of a kind; what a task and a call remember.
LEMMA MediaShape ==
  ASSUME media \in [Files -> MediaRows \cup {NoMedia}], NEW m \in Files
  PROVE  /\ Known(m) <=> media[m] \in MediaRows
         /\ Known(m) => media[m].kind \in {"upload", "direct", "image"}
<1>1. \A r \in MediaRows : r # NoMedia
  BY DEF MediaRows, NoMedia
<1>2. \A r \in MediaRows : r.kind \in {"upload", "direct", "image"}
  BY DEF MediaRows
<1>. QED
  BY <1>1, <1>2 DEF Known

\* What a task holds, by its stage.
LEMMA TaskShape ==
  ASSUME task \in [Files -> TaskStates], NEW m \in Files
  PROVE  /\ task[m].at \in {"none", "queued", "stored", "dropped", "done", "copied", "swapped"}
         /\ task[m].at = "copied" => task[m].live \in BOOLEAN
         /\ task[m].at = "swapped" => task[m].old \subseteq Files
<1>. DEFINE k == task[m]
<1>0. k \in TaskStates
  OBVIOUS
<1>. HIDE DEF k
<1>. DEFINE Shape ==
       /\ k.at \in {"none", "queued", "stored", "dropped", "done", "copied", "swapped"}
       /\ k.at = "copied" => k.live \in BOOLEAN
       /\ k.at = "swapped" => k.old \subseteq Files
<1>1. ASSUME k \in {NoTask, Queued, [at |-> "stored"], [at |-> "dropped"], [at |-> "done"]} PROVE Shape
  BY <1>1 DEF NoTask, Queued
<1>2. ASSUME k \in [at : {"copied"}, live : BOOLEAN] PROVE Shape
  BY <1>2
<1>3. ASSUME k \in [at : {"swapped"}, old : SUBSET Files] PROVE Shape
  BY <1>3
<1>4. Shape
  BY <1>0, <1>1, <1>2, <1>3 DEF TaskStates
<1>. QED
  BY <1>4 DEF k

\* What a call holds, by its kind.
LEMMA CallFits ==
  ASSUME mediaCall \in [MediaThreads -> MediaCalls], NEW t \in MediaThreads
  PROVE  /\ mediaCall[t].op \in {"idle", "destroy", "confirm", "unset", "edit"}
         /\ mediaCall[t].op = "idle" => mediaCall[t] = NoRequest
         /\ mediaCall[t].op = "destroy" =>
              /\ mediaCall[t].m \in Files /\ mediaCall[t].key \in FileKeys
              /\ mediaCall[t] = [op |-> "destroy", m |-> mediaCall[t].m, key |-> mediaCall[t].key]
         /\ mediaCall[t].op = "confirm" => mediaCall[t].m \in Files
         /\ mediaCall[t].op = "unset" => mediaCall[t].old \subseteq Files
         /\ mediaCall[t].op = "edit" => mediaCall[t].copy \in AtMostOne
<1>. DEFINE c == mediaCall[t]
<1>0. c \in MediaCalls
  OBVIOUS
<1>. HIDE DEF c
<1>. DEFINE Shape ==
       /\ c.op \in {"idle", "destroy", "confirm", "unset", "edit"}
       /\ c.op = "idle" => c = NoRequest
       /\ c.op = "destroy" =>
            /\ c.m \in Files /\ c.key \in FileKeys
            /\ c = [op |-> "destroy", m |-> c.m, key |-> c.key]
       /\ c.op = "confirm" => c.m \in Files
       /\ c.op = "unset" => c.old \subseteq Files
       /\ c.op = "edit" => c.copy \in AtMostOne
<1>1. ASSUME c = NoRequest PROVE Shape
  BY <1>1 DEF NoRequest
<1>2. ASSUME c \in [op : {"destroy"}, m : Files, key : FileKeys] PROVE Shape
  BY <1>2
<1>3. ASSUME c \in [op : {"confirm"}, m : Files] PROVE Shape
  BY <1>3
<1>4. ASSUME c \in [op : {"unset"}, old : SUBSET Files] PROVE Shape
  BY <1>4
<1>5. ASSUME c \in [op : {"edit"}, copy : AtMostOne] PROVE Shape
  BY <1>5
<1>6. Shape
  BY <1>0, <1>1, <1>2, <1>3, <1>4, <1>5 DEF MediaCalls
<1>. QED
  BY <1>6 DEF c

\* What a change of a row leaves of it.
LEMMA StatusSet ==
  ASSUME MediaTypeOK, NEW m \in Files, Known(m), NEW s \in {"pending", "ready", "failed"}, SetStatus(m, s)
  PROVE  /\ media' \in [Files -> MediaRows \cup {NoMedia}]
         /\ \A n \in Files : (media'[n] # NoMedia) <=> Known(n)
         /\ \A n \in Files : Known(n) => /\ media'[n].kind = media[n].kind /\ media'[n].key = media[n].key
                                         /\ media'[n].live = media[n].live
         /\ \A n \in Files \ {m} : media'[n] = media[n]
         /\ media'[m].status = s
<1>0. media \in [Files -> MediaRows \cup {NoMedia}]
  BY DEF MediaTypeOK
<1>1. media[m] \in MediaRows
  BY <1>0, MediaShape
<1>. DEFINE r == [media[m] EXCEPT !.status = s]
<1>2. /\ r \in MediaRows /\ r.status = s
      /\ r.kind = media[m].kind /\ r.key = media[m].key /\ r.live = media[m].live
  BY <1>1 DEF MediaRows
<1>3. r # NoMedia
  BY <1>2 DEF MediaRows, NoMedia
<1>4. media' = [media EXCEPT ![m] = r]
  BY DEF SetStatus
<1>. HIDE DEF r
<1>5. media'[m] = r /\ \A n \in Files \ {m} : media'[n] = media[n]
  BY <1>0, <1>4
<1>6. media' \in [Files -> MediaRows \cup {NoMedia}]
  BY <1>0, <1>2, <1>4
<1>. QED
  BY <1>2, <1>3, <1>5, <1>6 DEF Known

\* A row is marked, and is otherwise as it was.
LEMMA MarkSet ==
  ASSUME MediaTypeOK, NEW m \in Files, Known(m), media' = [media EXCEPT ![m].live = FALSE]
  PROVE  /\ media' \in [Files -> MediaRows \cup {NoMedia}]
         /\ \A n \in Files : (media'[n] # NoMedia) <=> Known(n)
         /\ \A n \in Files : Known(n) => /\ media'[n].kind = media[n].kind /\ media'[n].key = media[n].key
                                         /\ media'[n].status = media[n].status
         /\ \A n \in Files \ {m} : media'[n] = media[n]
         /\ media'[m].live = FALSE
<1>0. media \in [Files -> MediaRows \cup {NoMedia}]
  BY DEF MediaTypeOK
<1>1. media[m] \in MediaRows
  BY <1>0, MediaShape
<1>. DEFINE r == [media[m] EXCEPT !.live = FALSE]
<1>2. /\ r \in MediaRows /\ r.live = FALSE
      /\ r.kind = media[m].kind /\ r.key = media[m].key /\ r.status = media[m].status
  BY <1>1 DEF MediaRows
<1>3. r # NoMedia
  BY <1>2 DEF MediaRows, NoMedia
<1>4. media' = [media EXCEPT ![m] = r]
  OBVIOUS
<1>. HIDE DEF r
<1>5. media'[m] = r /\ \A n \in Files \ {m} : media'[n] = media[n]
  BY <1>0, <1>4
<1>6. media' \in [Files -> MediaRows \cup {NoMedia}]
  BY <1>0, <1>2, <1>4
<1>. QED
  BY <1>2, <1>3, <1>5, <1>6 DEF Known

\* A row is saved with the key of the file just stored.
LEMMA RowSaved ==
  ASSUME MediaTypeOK, NEW m \in Files, Known(m), SaveRow(m)
  PROVE  /\ media' \in [Files -> MediaRows \cup {NoMedia}]
         /\ \A n \in Files : (media'[n] # NoMedia) <=> Known(n)
         /\ \A n \in Files : Known(n) => media'[n].kind = media[n].kind
         /\ \A n \in Files \ {m} : media'[n] = media[n]
         /\ media'[m].key = runs[m]
<1>0. media \in [Files -> MediaRows \cup {NoMedia}] /\ runs[m] \in FileKeys /\ task[m].live \in BOOLEAN
  BY TaskShape DEF MediaTypeOK, SaveRow, MediaAt
<1>1. media[m] \in MediaRows
  BY <1>0, MediaShape
<1>. DEFINE r == [media[m] EXCEPT !.key = runs[m], !.status = "ready", !.live = task[m].live]
<1>2. r \in MediaRows /\ r.kind = media[m].kind /\ r.key = runs[m]
  BY <1>0, <1>1 DEF MediaRows
<1>3. r # NoMedia
  BY <1>2 DEF MediaRows, NoMedia
<1>4. media' = [media EXCEPT ![m] = r]
  BY DEF SaveRow
<1>. HIDE DEF r
<1>5. media'[m] = r /\ \A n \in Files \ {m} : media'[n] = media[n]
  BY <1>0, <1>4
<1>6. media' \in [Files -> MediaRows \cup {NoMedia}]
  BY <1>0, <1>2, <1>4
<1>. QED
  BY <1>2, <1>3, <1>5, <1>6 DEF Known

\* A row that is made is one.
LEMMA RowMade ==
  ASSUME MediaTypeOK, NEW m \in Files, NEW kind \in {"upload", "direct", "image"}, NEW key \in FileKeys,
         NewRow(m, kind, key)
  PROVE  /\ media' \in [Files -> MediaRows \cup {NoMedia}]
         /\ \A n \in Files : (media'[n] # NoMedia) <=> (Known(n) \/ n = m)
         /\ media'[m] = [kind |-> kind, key |-> key, status |-> "pending", live |-> TRUE]
         /\ \A n \in Files \ {m} : media'[n] = media[n]
<1>0. media \in [Files -> MediaRows \cup {NoMedia}]
  BY DEF MediaTypeOK
<1>. DEFINE r == [kind |-> kind, key |-> key, status |-> "pending", live |-> TRUE]
<1>2. r \in MediaRows
  BY DEF MediaRows
<1>3. r # NoMedia
  BY <1>2 DEF MediaRows, NoMedia
<1>4. media' = [media EXCEPT ![m] = r]
  BY DEF NewRow
<1>. HIDE DEF r
<1>5. media'[m] = r /\ \A n \in Files \ {m} : media'[n] = media[n]
  BY <1>0, <1>4
<1>6. media' \in [Files -> MediaRows \cup {NoMedia}]
  BY <1>0, <1>2, <1>4
<1>7. media'[m] = [kind |-> kind, key |-> key, status |-> "pending", live |-> TRUE]
  BY <1>5 DEF r
<1>. QED
  BY <1>3, <1>5, <1>6, <1>7 DEF Known

\* Tasks and calls are of media that exist.
LEMMA ActsOnKnown ==
  ASSUME MediaTypeOK, KindsFit, NEW m \in Files
  PROVE  /\ SaveRow(m) \/ Swap(m) \/ ClearRow(m) \/ ClearFile(m) \/ StoreFails(m) \/ ImageFails(m) => Known(m)
         /\ SaveRow(m) => IsKind(m, "upload")
         /\ Swap(m) \/ m \in cleanups \/ m \in cleared => IsKind(m, "image")
<1>1. SaveRow(m) => IsKind(m, "upload")
  BY DEF SaveRow, KindsFit
<1>2. Swap(m) => IsKind(m, "image")
  BY DEF Swap, KindsFit, MediaAt
<1>3. m \in cleanups \/ m \in cleared => m \in Worn
  BY DEF Worn, Outgoing
<1>4. m \in cleanups \/ m \in cleared => IsKind(m, "image")
  BY <1>3 DEF KindsFit
<1>. QED
  BY <1>1, <1>2, <1>4 DEF IsKind, ClearRow, ClearFile, StoreFails, ImageFails

\* The rows keep their type.
LEMMA RowsTypedNext == MediaTypeOK /\ KindsFit /\ [MediaNext]_mediaVars => media' \in [Files -> MediaRows \cup {NoMedia}]
<1>. SUFFICES ASSUME MediaTypeOK, KindsFit, [MediaNext]_mediaVars
              PROVE  media' \in [Files -> MediaRows \cup {NoMedia}]
  OBVIOUS
<1>. DEFINE Goal == media' \in [Files -> MediaRows \cup {NoMedia}]
<1>0. media \in [Files -> MediaRows \cup {NoMedia}] /\ mediaCall \in [MediaThreads -> MediaCalls]
  BY DEF MediaTypeOK
<1>1. ASSUME UNCHANGED media PROVE Goal
  BY <1>0, <1>1
<1>2. ASSUME NEW m \in Files, StoreFails(m) \/ ImageFails(m) \/ Swap(m) PROVE Goal
  BY <1>2, ActsOnKnown, StatusSet DEF StoreFails, ImageFails, Swap
<1>3. ASSUME NEW m \in Files, SaveRow(m) PROVE Goal
  BY <1>3, ActsOnKnown, RowSaved
<1>4. ASSUME NEW m \in Files, ClearRow(m) PROVE Goal
  <2>1. media' = [media EXCEPT ![m].live = FALSE]
    BY <1>4 DEF ClearRow
  <2>. QED
    BY <1>4, <2>1, ActsOnKnown, MarkSet
<1>5. ASSUME NEW t \in MediaThreads, CommitDestroy(t) PROVE Goal
  <2>1. mediaCall[t].op = "destroy" /\ media' = [media EXCEPT ![mediaCall[t].m].live = FALSE]
    BY <1>5 DEF CommitDestroy
  <2>2. mediaCall[t].m \in Files /\ Known(mediaCall[t].m)
    BY <1>0, <2>1, CallFits DEF KindsFit
  <2>. QED
    BY <2>1, <2>2, MarkSet
<1>6. ASSUME NEW t \in MediaThreads, CommitConfirm(t) PROVE Goal
  <2>1. mediaCall[t].op = "confirm" /\ SetStatus(mediaCall[t].m, "ready")
    BY <1>6 DEF CommitConfirm
  <2>2. mediaCall[t].m \in Files /\ Known(mediaCall[t].m)
    BY <1>0, <2>1, CallFits DEF KindsFit
  <2>. QED
    BY <2>1, <2>2, StatusSet
<1>7. ASSUME NEW m \in Files, NEW kind \in {"upload", "direct", "image"}, NEW key \in {0, 1}, NewRow(m, kind, key)
      PROVE  Goal
  <2>1. key \in FileKeys
    BY MediaNats DEF FileKeys
  <2>. QED
    BY <1>7, <2>1, RowMade
<1>8. ASSUME NEW m \in Files, Upload(m) \/ Presign(m) \/ UploadImage(m) PROVE Goal
  BY <1>7, <1>8 DEF Upload, Presign, UploadImage
<1>9. CASE UNCHANGED mediaVars
  BY <1>1, <1>9 DEF mediaVars, mediaRows
<1>10. ASSUME NEW m \in Files, MediaTask(m) PROVE Goal
  BY <1>1, <1>2, <1>3, <1>4, <1>10 DEF MediaTask, mediaRows, StoreFile, RefreshRow, PutImage, DropBlob,
     QueueCleanup, TaskLostAgain, BlobExpires, ClearFile
<1>11. ASSUME NEW t \in MediaThreads, MediaWeb(t) PROVE Goal
  BY <1>1, <1>5, <1>6, <1>11 DEF MediaWeb, mediaRows, BeginDestroy, BeginConfirm, BeginUnset, CommitUnset,
     BeginEditAvatar, CommitEditAvatar, Request
<1>12. CASE MediaNext
  BY <1>1, <1>8, <1>10, <1>11, <1>12 DEF MediaNext, mediaRows, ClientPuts, DropFile
<1>. QED
  BY <1>9, <1>12

\* The variables of tasks and of calls.
LEMMA TasksTypedNext ==
  MediaTypeOK /\ [MediaNext]_mediaVars => task' \in [Files -> TaskStates] /\ runs' \in [Files -> FileKeys]
<1>. SUFFICES ASSUME MediaTypeOK, [MediaNext]_mediaVars
              PROVE  task' \in [Files -> TaskStates] /\ runs' \in [Files -> FileKeys]
  OBVIOUS
<1>. DEFINE Goal == task' \in [Files -> TaskStates] /\ runs' \in [Files -> FileKeys]
<1>0. /\ task \in [Files -> TaskStates] /\ runs \in [Files -> FileKeys] /\ avatar \subseteq Files
      /\ media \in [Files -> MediaRows \cup {NoMedia}]
  BY DEF MediaTypeOK, AtMostOne
<1>1. ASSUME UNCHANGED <<task, runs>> PROVE Goal
  BY <1>0, <1>1
<1>2. ASSUME NEW m \in Files, NEW next \in TaskStates, Go(m, next), UNCHANGED runs PROVE Goal
  BY <1>0, <1>2 DEF Go
<1>3. {Queued, [at |-> "stored"], [at |-> "dropped"], [at |-> "done"]} \subseteq TaskStates
  BY DEF TaskStates
<1>4. ASSUME NEW m \in Files, StoreFile(m) PROVE Goal
  <2>1. runs[m] \in FileKeys /\ runs[m] < MaxRuns
    BY <1>0, <1>4 DEF StoreFile
  <2>2. runs[m] + 1 \in FileKeys
    BY <2>1, MediaNats DEF FileKeys
  <2>. QED
    BY <1>0, <1>3, <1>4, <2>2 DEF StoreFile, Go
<1>5. ASSUME NEW m \in Files, RefreshRow(m) PROVE Goal
  <2>1. media[m] \in MediaRows
    BY <1>0, <1>5, MediaShape DEF RefreshRow, IsKind
  <2>2. media[m].live \in BOOLEAN
    BY <2>1 DEF MediaRows
  <2>3. [at |-> "copied", live |-> media[m].live] \in TaskStates
    BY <2>2 DEF TaskStates
  <2>. QED
    BY <1>2, <1>5, <2>3 DEF RefreshRow
<1>6. ASSUME NEW m \in Files, Swap(m) PROVE Goal
  <2>1. [at |-> "swapped", old |-> avatar \ {m}] \in TaskStates
    BY <1>0 DEF TaskStates
  <2>. QED
    BY <1>2, <1>6, <2>1 DEF Swap
<1>7. ASSUME NEW m \in Files, StoreFails(m) \/ SaveRow(m) \/ ImageFails(m) \/ PutImage(m) \/ DropBlob(m)
                              \/ QueueCleanup(m) \/ TaskLostAgain(m)
      PROVE  Goal
  BY <1>2, <1>3, <1>7 DEF StoreFails, SaveRow, ImageFails, PutImage, DropBlob, QueueCleanup, TaskLostAgain
<1>8. ASSUME NEW m \in Files, Upload(m) \/ Presign(m) \/ UploadImage(m) PROVE Goal
  BY <1>1, <1>2, <1>3, <1>8 DEF Upload, Presign, UploadImage, NewRow, Go
<1>9. CASE UNCHANGED mediaVars
  BY <1>1, <1>9 DEF mediaVars, mediaJobs
<1>10. ASSUME NEW m \in Files, MediaTask(m) PROVE Goal
  BY <1>1, <1>4, <1>5, <1>6, <1>7, <1>10 DEF MediaTask, BlobExpires, ClearFile, ClearRow
<1>11. ASSUME NEW t \in MediaThreads, MediaWeb(t) PROVE Goal
  BY <1>1, <1>11 DEF MediaWeb, mediaJobs, BeginDestroy, BeginConfirm, BeginUnset, CommitUnset,
     BeginEditAvatar, CommitEditAvatar, Request, Answered, CommitDestroy, CommitConfirm
<1>12. CASE MediaNext
  BY <1>1, <1>8, <1>10, <1>11, <1>12 DEF MediaNext, mediaJobs, ClientPuts, DropFile
<1>. QED
  BY <1>9, <1>12

\* The calls keep their type.
LEMMA CallsTypedNext ==
  MediaTypeOK /\ [MediaNext]_mediaVars =>
    /\ mediaCall' \in [MediaThreads -> MediaCalls]
    /\ mediaLeft' \in 0 .. MaxMediaCalls /\ mediaLosses' \in 0 .. MaxMediaLosses
<1>. DEFINE Goal == /\ mediaCall' \in [MediaThreads -> MediaCalls]
                    /\ mediaLeft' \in 0 .. MaxMediaCalls /\ mediaLosses' \in 0 .. MaxMediaLosses
<1>. SUFFICES ASSUME MediaTypeOK, [MediaNext]_mediaVars PROVE Goal
  OBVIOUS
<1>0. /\ mediaCall \in [MediaThreads -> MediaCalls] /\ avatar \in AtMostOne
      /\ mediaLeft \in 0 .. MaxMediaCalls /\ mediaLosses \in 0 .. MaxMediaLosses
      /\ media \in [Files -> MediaRows \cup {NoMedia}]
  BY DEF MediaTypeOK
<1>1. ASSUME UNCHANGED <<mediaCall, mediaLeft, mediaLosses>> PROVE Goal
  BY <1>0, <1>1
<1>2. ASSUME NEW t \in MediaThreads, NEW c \in MediaCalls, Request(t, c) PROVE Goal
  <2>1. mediaLeft' \in 0 .. MaxMediaCalls
    BY <1>0, <1>2, MediaNats DEF Request
  <2>. QED
    BY <1>0, <1>2, <2>1 DEF Request
<1>3. ASSUME NEW t \in MediaThreads, Answered(t) PROVE Goal
  BY <1>0, <1>3 DEF Answered, MediaCalls
<1>4. ASSUME NEW m \in Files, NEW t \in MediaThreads, BeginDestroy(t, m) \/ BeginConfirm(t, m) PROVE Goal
  <2>1. Known(m)
    BY <1>4 DEF BeginDestroy, BeginConfirm, MayConfirm
  <2>2. media[m].key \in FileKeys
    BY <1>0, <2>1, MediaShape DEF MediaRows
  <2>3. [op |-> "destroy", m |-> m, key |-> media[m].key] \in MediaCalls /\ [op |-> "confirm", m |-> m] \in MediaCalls
    BY <2>2 DEF MediaCalls
  <2>. QED
    BY <1>2, <1>4, <2>3 DEF BeginDestroy, BeginConfirm
<1>5. ASSUME NEW t \in MediaThreads, BeginUnset(t) \/ BeginEditAvatar(t) PROVE Goal
  <2>1. [op |-> "unset", old |-> avatar] \in MediaCalls /\ [op |-> "edit", copy |-> avatar] \in MediaCalls
    BY <1>0 DEF MediaCalls, AtMostOne
  <2>. QED
    BY <1>2, <1>5, <2>1 DEF BeginUnset, BeginEditAvatar
<1>6. ASSUME NEW m \in Files, TaskLostAgain(m) PROVE Goal
  BY <1>0, <1>6, MediaNats DEF TaskLostAgain, mediaWeb
<1>7. CASE UNCHANGED mediaVars
  BY <1>1, <1>7 DEF mediaVars, mediaWeb
<1>8. ASSUME NEW m \in Files, MediaTask(m) PROVE Goal
  BY <1>1, <1>6, <1>8 DEF MediaTask, mediaWeb, TaskFrame, StoreFile, StoreFails, RefreshRow, SaveRow, ImageFails,
     PutImage, DropBlob, Swap, QueueCleanup, BlobExpires, ClearFile, ClearRow
<1>9. ASSUME NEW t \in MediaThreads, MediaWeb(t) PROVE Goal
  BY <1>3, <1>4, <1>5, <1>9 DEF MediaWeb, CommitDestroy, CommitConfirm, CommitUnset, CommitEditAvatar
<1>10. CASE MediaNext
  BY <1>1, <1>8, <1>9, <1>10 DEF MediaNext, mediaWeb, ClientPuts, DropFile, Upload, Presign, UploadImage, NewRow
<1>. QED
  BY <1>7, <1>10

\* The stored objects keep their type.
LEMMA ObjectsTypedNext ==
  MediaTypeOK /\ KindsFit /\ [MediaNext]_mediaVars =>
    store' \subseteq Files \X FileKeys /\ drops' \subseteq Files \X FileKeys
<1>. DEFINE Goal == store' \subseteq Files \X FileKeys /\ drops' \subseteq Files \X FileKeys
<1>. SUFFICES ASSUME MediaTypeOK, KindsFit, [MediaNext]_mediaVars PROVE Goal
  OBVIOUS
<1>0. /\ store \subseteq Files \X FileKeys /\ drops \subseteq Files \X FileKeys
      /\ mediaCall \in [MediaThreads -> MediaCalls] /\ runs \in [Files -> FileKeys]
  BY DEF MediaTypeOK
<1>1. ASSUME store' \subseteq store, drops' \subseteq drops PROVE Goal
  BY <1>0, <1>1
<1>2. ASSUME NEW m \in Files, NEW k \in FileKeys, store' = store \cup {<<m, k>>}, UNCHANGED drops PROVE Goal
  BY <1>0, <1>2
<1>3. 1 \in FileKeys
  BY MediaNats DEF FileKeys
<1>4. ASSUME NEW m \in Files, StoreFile(m) PROVE Goal
  <2>1. runs[m] \in FileKeys /\ runs[m] < MaxRuns
    BY <1>0, <1>4 DEF StoreFile
  <2>2. runs[m] + 1 \in FileKeys
    BY <2>1, MediaNats DEF FileKeys
  <2>. QED
    BY <1>2, <1>4, <2>2 DEF StoreFile, TaskFrame
<1>5. ASSUME NEW m \in Files, PutImage(m) \/ ClientPuts(m) PROVE Goal
  BY <1>2, <1>3, <1>5 DEF PutImage, ClientPuts, TaskFrame, mediaJobs
<1>6. ASSUME NEW m \in Files, ClearFile(m) PROVE Goal
  BY <1>1, <1>6 DEF ClearFile
<1>7. ASSUME NEW f \in drops, DropFile(f) PROVE Goal
  BY <1>1, <1>7 DEF DropFile
<1>8. ASSUME NEW t \in MediaThreads, CommitDestroy(t) PROVE Goal
  <2>1. mediaCall[t].op = "destroy" /\ mediaCall[t].m \in Files /\ mediaCall[t].key \in FileKeys
    BY <1>0, <1>8, CallFits DEF CommitDestroy
  <2>2. drops' \subseteq drops \cup {<<mediaCall[t].m, mediaCall[t].key>>} /\ store' = store
    BY <1>8 DEF CommitDestroy, Answered
  <2>. QED
    BY <1>0, <2>1, <2>2
<1>9. CASE UNCHANGED mediaVars
  BY <1>1, <1>9 DEF mediaVars, mediaJobs
<1>10. ASSUME NEW m \in Files, MediaTask(m) PROVE Goal
  BY <1>1, <1>4, <1>5, <1>6, <1>10 DEF MediaTask, TaskFrame, StoreFails, RefreshRow, SaveRow, ImageFails,
     DropBlob, Swap, QueueCleanup, TaskLostAgain, BlobExpires, ClearRow
<1>11. ASSUME NEW t \in MediaThreads, MediaWeb(t) PROVE Goal
  BY <1>1, <1>8, <1>11 DEF MediaWeb, mediaJobs, Answered, Request, BeginDestroy, BeginConfirm, BeginUnset,
     CommitUnset, BeginEditAvatar, CommitEditAvatar, CommitConfirm
<1>12. CASE MediaNext
  BY <1>1, <1>5, <1>7, <1>10, <1>11, <1>12 DEF MediaNext, Upload, Presign, UploadImage, NewRow
<1>. QED
  BY <1>9, <1>12

\* The avatars keep their type.
LEMMA AvatarsTypedNext ==
  MediaTypeOK /\ [MediaNext]_mediaVars =>
    /\ avatar' \in AtMostOne /\ blob' \subseteq Files /\ cleanups' \subseteq Files /\ cleared' \subseteq Files
    /\ restored' \in BOOLEAN
<1>. DEFINE Goal == /\ avatar' \in AtMostOne /\ blob' \subseteq Files /\ cleanups' \subseteq Files
                    /\ cleared' \subseteq Files /\ restored' \in BOOLEAN
<1>. SUFFICES ASSUME MediaTypeOK, [MediaNext]_mediaVars PROVE Goal
  OBVIOUS
<1>0. /\ avatar \in AtMostOne /\ blob \subseteq Files /\ cleanups \subseteq Files /\ cleared \subseteq Files
      /\ restored \in BOOLEAN /\ mediaCall \in [MediaThreads -> MediaCalls] /\ task \in [Files -> TaskStates]
  BY DEF MediaTypeOK
<1>1. ASSUME UNCHANGED <<avatar, cleanups, cleared, restored>>, blob' \subseteq Files PROVE Goal
  BY <1>0, <1>1
<1>2. ASSUME NEW m \in Files, Swap(m) PROVE Goal
  <2>1. avatar' = {m} /\ UNCHANGED <<blob, cleanups, cleared, restored>>
    BY <1>2 DEF Swap, TaskFrame
  <2>2. Cardinality({m}) <= 1
    <3>1. Cardinality({m}) = 1
      BY FS_Singleton
    <3>. QED
      BY <3>1
  <2>. QED
    BY <1>0, <2>1, <2>2 DEF AtMostOne
<1>3. ASSUME NEW m \in Files, QueueCleanup(m) PROVE Goal
  <2>1. task[m].old \subseteq Files
    BY <1>0, <1>3, TaskShape DEF QueueCleanup, MediaAt
  <2>2. cleanups' = cleanups \cup task[m].old /\ UNCHANGED <<avatar, blob, cleared, restored>>
    BY <1>3 DEF QueueCleanup, mediaRows
  <2>. QED
    BY <1>0, <2>1, <2>2
<1>4. ASSUME NEW m \in Files, ClearFile(m) \/ ClearRow(m) PROVE Goal
  BY <1>0, <1>4 DEF ClearFile, ClearRow, mediaRows
<1>5. ASSUME NEW t \in MediaThreads, CommitUnset(t) PROVE Goal
  <2>1. {} \in AtMostOne
    BY FS_EmptySet DEF AtMostOne
  <2>2. mediaCall[t].old \subseteq Files
    BY <1>0, <1>5, CallFits DEF CommitUnset
  <2>. QED
    BY <1>0, <1>5, <2>1, <2>2 DEF CommitUnset, Answered
<1>6. ASSUME NEW t \in MediaThreads, CommitEditAvatar(t) PROVE Goal
  <2>1. mediaCall[t].copy \in AtMostOne
    BY <1>0, <1>6, CallFits DEF CommitEditAvatar
  <2>. QED
    BY <1>0, <1>6, <2>1 DEF CommitEditAvatar, Answered
<1>7. ASSUME NEW t \in MediaThreads, CommitDestroy(t) \/ CommitConfirm(t) PROVE Goal
  BY <1>0, <1>1, <1>7 DEF CommitDestroy, CommitConfirm, Answered
<1>8. CASE UNCHANGED mediaVars
  BY <1>0, <1>1, <1>8 DEF mediaVars, mediaRows, mediaJobs
<1>9. ASSUME NEW m \in Files, MediaTask(m) PROVE Goal
  BY <1>0, <1>1, <1>2, <1>3, <1>4, <1>9 DEF MediaTask, mediaRows, TaskFrame, StoreFile, StoreFails, RefreshRow,
     SaveRow, ImageFails, PutImage, DropBlob, TaskLostAgain, BlobExpires
<1>10. ASSUME NEW t \in MediaThreads, MediaWeb(t) PROVE Goal
  BY <1>0, <1>1, <1>5, <1>6, <1>7, <1>10 DEF MediaWeb, mediaRows, mediaJobs, Request, BeginDestroy, BeginConfirm,
     BeginUnset, BeginEditAvatar
<1>11. CASE MediaNext
  BY <1>0, <1>1, <1>9, <1>10, <1>11 DEF MediaNext, mediaRows, mediaJobs, ClientPuts, DropFile, Upload, Presign,
     UploadImage, NewRow
<1>. QED
  BY <1>8, <1>11

\* The types are kept.
LEMMA MediaTypeNext == MediaTypeOK /\ KindsFit /\ [MediaNext]_mediaVars => MediaTypeOK'
BY RowsTypedNext, TasksTypedNext, CallsTypedNext, ObjectsTypedNext, AvatarsTypedNext DEF MediaTypeOK

-----------------------------------------------------------------------------
(* Images that were worn *)

\* Which images are on their way out.
LEMMA OutgoingMeans ==
  \A x : x \in Outgoing <=> \/ x \in cleanups \/ x \in cleared
                            \/ \E m \in Files : task[m].at = "swapped" /\ x \in task[m].old
BY DEF Outgoing, MediaAt

\* Which images are worn, were worn or will be.
LEMMA WornMeans ==
  \A x : x \in Worn <=> \/ x \in avatar \/ x \in Outgoing
                        \/ \E t \in MediaThreads : mediaCall[t].op = "unset" /\ x \in mediaCall[t].old
                        \/ \E t \in MediaThreads : mediaCall[t].op = "edit" /\ x \in mediaCall[t].copy
<1>. DEFINE olds == UNION {mediaCall[t].old : t \in {x \in MediaThreads : mediaCall[x].op = "unset"}}
            copies == UNION {mediaCall[t].copy : t \in {x \in MediaThreads : mediaCall[x].op = "edit"}}
<1>1. \A x : x \in olds <=> \E t \in MediaThreads : mediaCall[t].op = "unset" /\ x \in mediaCall[t].old
  OBVIOUS
<1>2. \A x : x \in copies <=> \E t \in MediaThreads : mediaCall[t].op = "edit" /\ x \in mediaCall[t].copy
  OBVIOUS
<1>3. Worn = avatar \cup Outgoing \cup olds \cup copies
  BY Zenon DEF Worn
<1>4. \A x : x \in Worn <=> x \in avatar \/ x \in Outgoing \/ x \in olds \/ x \in copies
  BY <1>3
<1>. HIDE DEF olds, copies
<1>. QED
  BY <1>1, <1>2, <1>4

\* The same after a step.
LEMMA OutgoingMeansNext ==
  \A x : x \in Outgoing' <=> \/ x \in cleanups' \/ x \in cleared'
                             \/ \E m \in Files : task'[m].at = "swapped" /\ x \in task'[m].old
BY DEF Outgoing, MediaAt

\* The same after a step.
LEMMA WornMeansNext ==
  \A x : x \in Worn' <=> \/ x \in avatar' \/ x \in Outgoing'
                         \/ \E t \in MediaThreads : mediaCall'[t].op = "unset" /\ x \in mediaCall'[t].old
                         \/ \E t \in MediaThreads : mediaCall'[t].op = "edit" /\ x \in mediaCall'[t].copy
<1>. DEFINE olds == UNION {mediaCall[t].old : t \in {x \in MediaThreads : mediaCall[x].op = "unset"}}
            copies == UNION {mediaCall[t].copy : t \in {x \in MediaThreads : mediaCall[x].op = "edit"}}
<1>1. \A x : x \in olds' <=> \E t \in MediaThreads : mediaCall'[t].op = "unset" /\ x \in mediaCall'[t].old
  OBVIOUS
<1>2. \A x : x \in copies' <=> \E t \in MediaThreads : mediaCall'[t].op = "edit" /\ x \in mediaCall'[t].copy
  OBVIOUS
<1>3. Worn' = avatar' \cup Outgoing' \cup olds' \cup copies'
  BY Zenon DEF Worn
<1>4. \A x : x \in Worn' <=> x \in avatar' \/ x \in Outgoing' \/ x \in olds' \/ x \in copies'
  BY <1>3
<1>. HIDE DEF olds, copies
<1>. QED
  BY <1>1, <1>2, <1>4

\* A task moves on, alone.
LEMMA TaskGoes ==
  ASSUME task \in [Files -> TaskStates], NEW m \in Files, NEW next, Go(m, next)
  PROVE  task'[m] = next /\ \A n \in Files \ {m} : task'[n] = task[n]
BY DEF Go

\* What a step does to the calls: one begins, one ends, or all stay.
LEMMA RequestGoes ==
  ASSUME mediaCall \in [MediaThreads -> MediaCalls], NEW t \in MediaThreads, NEW c, Request(t, c)
  PROVE  mediaCall'[t] = c /\ \A z \in MediaThreads \ {t} : mediaCall'[z] = mediaCall[z]
BY DEF Request

\* A call that is answered ends, alone.
LEMMA AnswerGoes ==
  ASSUME mediaCall \in [MediaThreads -> MediaCalls], NEW t \in MediaThreads, Answered(t)
  PROVE  mediaCall'[t].op = "idle" /\ \A z \in MediaThreads \ {t} : mediaCall'[z] = mediaCall[z]
<1>1. mediaCall'[t] = NoRequest /\ \A z \in MediaThreads \ {t} : mediaCall'[z] = mediaCall[z]
  BY DEF Answered
<1>. QED
  BY <1>1 DEF NoRequest

\* Only the swap of an image makes it worn.
LEMMA WornGrows ==
  MediaTypeOK /\ [MediaNext]_mediaVars => \A x \in Worn' : x \in Worn \/ (x \in Files /\ Swap(x))
<1>. SUFFICES ASSUME MediaTypeOK, [MediaNext]_mediaVars
              PROVE  \A x \in Worn' : x \in Worn \/ (x \in Files /\ Swap(x))
  OBVIOUS
<1>. DEFINE Goal == \A x \in Worn' : x \in Worn \/ (x \in Files /\ Swap(x))
            OldKept   == \A n \in Files : \A x : task'[n].at = "swapped" /\ x \in task'[n].old => x \in Worn
            CallsKept == \A z \in MediaThreads : \A x :
                           (mediaCall'[z].op = "unset" /\ x \in mediaCall'[z].old)
                             \/ (mediaCall'[z].op = "edit" /\ x \in mediaCall'[z].copy) => x \in Worn
<1>0. /\ task \in [Files -> TaskStates] /\ mediaCall \in [MediaThreads -> MediaCalls]
  BY DEF MediaTypeOK
<1>1. ASSUME \A x : x \in avatar' => x \in Worn, \A x : x \in cleanups' \/ x \in cleared' => x \in Worn,
             OldKept, CallsKept
      PROVE  Goal
  BY <1>1, WornMeansNext, OutgoingMeansNext
<1>2. \A x : x \in avatar \/ x \in cleanups \/ x \in cleared => x \in Worn
  BY WornMeans, OutgoingMeans
<1>3. ASSUME \A n \in Files : task'[n].at = "swapped" => task'[n] = task[n] PROVE OldKept
  BY <1>3, WornMeans, OutgoingMeans
<1>4. ASSUME \A z \in MediaThreads : mediaCall'[z].op \in {"unset", "edit"} => mediaCall'[z] = mediaCall[z]
      PROVE  CallsKept
  BY <1>4, WornMeans
<1>5. UNCHANGED task => OldKept
  BY <1>3
<1>6. UNCHANGED mediaCall => CallsKept
  BY <1>4
<1>7. ASSUME NEW m \in Files, NEW next, Go(m, next), next.at # "swapped" PROVE OldKept
  BY <1>0, <1>3, <1>7, TaskGoes
<1>. HIDE DEF OldKept, CallsKept
<1>8. ASSUME NEW m \in Files, NEW next, Go(m, next), next.at # "swapped",
             UNCHANGED <<avatar, cleanups, cleared, mediaCall>>
      PROVE  Goal
  BY <1>1, <1>2, <1>6, <1>7, <1>8
<1>9. ASSUME NEW m \in Files, UNCHANGED <<avatar, cleanups, cleared, mediaCall, task>> PROVE Goal
  BY <1>1, <1>2, <1>5, <1>6, <1>9
<1>10. ASSUME NEW m \in Files, Swap(m) PROVE Goal
  <2>1. avatar' = {m} /\ UNCHANGED <<cleanups, cleared, mediaCall>>
    BY <1>10 DEF Swap, TaskFrame, mediaWeb
  <2>2. /\ task'[m] = [at |-> "swapped", old |-> avatar \ {m}]
        /\ \A n \in Files \ {m} : task'[n] = task[n]
    BY <1>0, <1>10, TaskGoes DEF Swap
  <2>3. OldKept
    BY <1>2, <2>2, WornMeans, OutgoingMeans DEF OldKept
  <2>4. CallsKept
    BY <1>6, <2>1
  <2>. QED
    BY <1>2, <1>10, <2>1, <2>3, <2>4, WornMeansNext, OutgoingMeansNext DEF OldKept, CallsKept
<1>11. ASSUME NEW m \in Files, QueueCleanup(m) PROVE Goal
  <2>1. /\ cleanups' = cleanups \cup task[m].old /\ task[m].at = "swapped"
        /\ Go(m, [at |-> "done"]) /\ UNCHANGED <<avatar, cleared, mediaCall>>
    BY <1>11 DEF QueueCleanup, MediaAt, mediaRows, mediaWeb
  <2>2. OldKept
    BY <1>7, <2>1
  <2>3. \A x : x \in task[m].old => x \in Worn
    BY <2>1, WornMeans, OutgoingMeans
  <2>. QED
    BY <1>1, <1>2, <1>6, <2>1, <2>2, <2>3
<1>12. ASSUME NEW m \in Files, ClearFile(m) \/ ClearRow(m) PROVE Goal
  <2>1. /\ cleanups' \subseteq cleanups /\ cleared' \subseteq cleared \cup cleanups
        /\ UNCHANGED <<avatar, mediaCall, task>>
    BY <1>12 DEF ClearFile, ClearRow, mediaRows, mediaWeb
  <2>. QED
    BY <1>1, <1>2, <1>5, <1>6, <2>1
<1>13. ASSUME NEW t \in MediaThreads, NEW c, Request(t, c),
              c.op = "unset" => c.old = avatar, c.op = "edit" => c.copy = avatar
       PROVE  Goal
  <2>1. CallsKept
    BY <1>0, <1>2, <1>13, RequestGoes, WornMeans DEF CallsKept
  <2>. QED
    BY <1>1, <1>2, <1>5, <1>13, <2>1 DEF Request, mediaRows, mediaJobs
<1>14. ASSUME NEW t \in MediaThreads, Answered(t),
              \A x : x \in avatar' => x \in Worn, \A x : x \in cleanups' => x \in Worn
       PROVE  Goal
  <2>1. CallsKept
    BY <1>0, <1>4, <1>14, AnswerGoes
  <2>. QED
    BY <1>1, <1>2, <1>5, <1>14, <2>1 DEF Answered
<1>15. ASSUME NEW t \in MediaThreads, MediaWeb(t) PROVE Goal
  <2>1. ASSUME NEW m \in Files, BeginDestroy(t, m) \/ BeginConfirm(t, m) PROVE Goal
    BY <1>13, <2>1 DEF BeginDestroy, BeginConfirm
  <2>2. CASE BeginUnset(t) \/ BeginEditAvatar(t)
    BY <1>13, <2>2 DEF BeginUnset, BeginEditAvatar
  <2>3. CASE CommitDestroy(t) \/ CommitConfirm(t)
    BY <1>2, <1>14, <2>3 DEF CommitDestroy, CommitConfirm
  <2>4. CASE CommitUnset(t)
    <3>1. /\ mediaCall[t].op = "unset" /\ avatar' = {} /\ cleanups' = cleanups \cup mediaCall[t].old /\ Answered(t)
      BY <2>4 DEF CommitUnset
    <3>2. \A x : x \in cleanups' => x \in Worn
      BY <1>2, <3>1, WornMeans
    <3>. QED
      BY <1>14, <3>1, <3>2
  <2>5. CASE CommitEditAvatar(t)
    <3>1. /\ mediaCall[t].op = "edit" /\ avatar' = mediaCall[t].copy /\ cleanups' = cleanups /\ Answered(t)
      BY <2>5 DEF CommitEditAvatar
    <3>2. \A x : x \in avatar' => x \in Worn
      BY <3>1, WornMeans
    <3>. QED
      BY <1>2, <1>14, <3>1, <3>2
  <2>. QED
    BY <1>15, <2>1, <2>2, <2>3, <2>4, <2>5 DEF MediaWeb
<1>16. ASSUME NEW m \in Files, MediaTask(m) PROVE Goal
  <2>1. CASE StoreFile(m) \/ StoreFails(m) \/ RefreshRow(m) \/ SaveRow(m) \/ ImageFails(m) \/ PutImage(m)
             \/ DropBlob(m) \/ TaskLostAgain(m)
    <3>1. \E next \in {Queued, [at |-> "stored"], [at |-> "dropped"], [at |-> "done"],
                       [at |-> "copied", live |-> media[m].live]} : Go(m, next)
      BY <2>1 DEF StoreFile, StoreFails, RefreshRow, SaveRow, ImageFails, PutImage, DropBlob, TaskLostAgain
    <3>2. UNCHANGED <<avatar, cleanups, cleared, mediaCall>>
      BY <2>1 DEF StoreFile, StoreFails, RefreshRow, SaveRow, ImageFails, PutImage, DropBlob, TaskLostAgain,
         TaskFrame, mediaRows, mediaWeb
    <3>. QED
      BY <1>8, <3>1, <3>2 DEF Queued
  <2>2. CASE BlobExpires(m)
    BY <1>9, <2>2 DEF BlobExpires, mediaRows, mediaWeb
  <2>. QED
    BY <1>10, <1>11, <1>12, <1>16, <2>1, <2>2 DEF MediaTask
<1>17. ASSUME NEW m \in Files, Upload(m) \/ Presign(m) \/ UploadImage(m) \/ ClientPuts(m) PROVE Goal
  <2>1. UNCHANGED <<avatar, cleanups, cleared, mediaCall>> /\ (UNCHANGED task \/ Go(m, Queued))
    BY <1>17 DEF Upload, Presign, UploadImage, NewRow, ClientPuts, mediaRows, mediaJobs, mediaWeb, Go
  <2>. QED
    BY <1>8, <1>9, <2>1 DEF Queued
<1>18. CASE UNCHANGED <<avatar, cleanups, cleared, mediaCall, task>>
  BY <1>1, <1>2, <1>5, <1>6, <1>18
<1>. QED
  BY <1>15, <1>16, <1>17, <1>18 DEF MediaNext, mediaVars, mediaRows, mediaJobs, mediaWeb, DropFile

-----------------------------------------------------------------------------
(* What a step changes *)

\* What a step can make of one row, and by which action.
LEMMA RowsChange ==
  ASSUME MediaTypeOK, KindsFit, [MediaNext]_mediaVars, NEW n \in Files
  PROVE  /\ Known(n) =>
              /\ media'[n] # NoMedia /\ media'[n].kind = media[n].kind
              /\ media'[n].key = media[n].key \/ (SaveRow(n) /\ media'[n].key = runs[n])
              /\ media'[n].live => media[n].live \/ SaveRow(n)
              /\ media'[n].status = "ready" =>
                   \/ media[n].status = "ready" \/ SaveRow(n) \/ Swap(n)
                   \/ \E t \in MediaThreads : mediaCall[t].op = "confirm" /\ mediaCall[t].m = n
         /\ ~Known(n) => \/ media'[n] = NoMedia
                         \/ Upload(n) /\ media'[n] = [kind |-> "upload", key |-> 0, status |-> "pending", live |-> TRUE]
                         \/ Presign(n) /\ media'[n] = [kind |-> "direct", key |-> 1, status |-> "pending", live |-> TRUE]
                         \/ UploadImage(n) /\ media'[n] = [kind |-> "image", key |-> 1, status |-> "pending", live |-> TRUE]
<1>. DEFINE Old == /\ media'[n] # NoMedia /\ media'[n].kind = media[n].kind
                   /\ media'[n].key = media[n].key \/ (SaveRow(n) /\ media'[n].key = runs[n])
                   /\ media'[n].live => media[n].live \/ SaveRow(n)
                   /\ media'[n].status = "ready" =>
                        \/ media[n].status = "ready" \/ SaveRow(n) \/ Swap(n)
                        \/ \E t \in MediaThreads : mediaCall[t].op = "confirm" /\ mediaCall[t].m = n
            New == \/ media'[n] = NoMedia
                   \/ Upload(n) /\ media'[n] = [kind |-> "upload", key |-> 0, status |-> "pending", live |-> TRUE]
                   \/ Presign(n) /\ media'[n] = [kind |-> "direct", key |-> 1, status |-> "pending", live |-> TRUE]
                   \/ UploadImage(n) /\ media'[n] = [kind |-> "image", key |-> 1, status |-> "pending", live |-> TRUE]
            Goal == (Known(n) => Old) /\ (~Known(n) => New)
<1>. SUFFICES Goal
  OBVIOUS
<1>0. /\ media \in [Files -> MediaRows \cup {NoMedia}] /\ mediaCall \in [MediaThreads -> MediaCalls]
      /\ {0, 1} \subseteq FileKeys
  BY MediaNats DEF MediaTypeOK, FileKeys
<1>1. ASSUME media'[n] = media[n] PROVE Goal
  BY <1>1 DEF Known
<1>2. ASSUME NEW m \in Files, StoreFails(m) \/ ImageFails(m) PROVE Goal
  <2>1. Known(m) /\ SetStatus(m, "failed")
    BY <1>2, ActsOnKnown DEF StoreFails, ImageFails
  <2>. QED
    BY <1>1, <2>1, StatusSet DEF Known
<1>3. ASSUME NEW m \in Files, Swap(m) PROVE Goal
  <2>1. Known(m) /\ SetStatus(m, "ready")
    BY <1>3, ActsOnKnown DEF Swap
  <2>. QED
    BY <1>1, <1>3, <2>1, StatusSet DEF Known
<1>4. ASSUME NEW m \in Files, SaveRow(m) PROVE Goal
  BY <1>1, <1>4, ActsOnKnown, RowSaved DEF Known
<1>5. ASSUME NEW m \in Files, ClearRow(m) PROVE Goal
  <2>1. Known(m) /\ media' = [media EXCEPT ![m].live = FALSE]
    BY <1>5, ActsOnKnown DEF ClearRow
  <2>. QED
    BY <1>1, <2>1, MarkSet DEF Known
<1>6. ASSUME NEW t \in MediaThreads, CommitDestroy(t) PROVE Goal
  <2>1. mediaCall[t].op = "destroy" /\ media' = [media EXCEPT ![mediaCall[t].m].live = FALSE]
    BY <1>6 DEF CommitDestroy
  <2>2. mediaCall[t].m \in Files /\ Known(mediaCall[t].m)
    BY <1>0, <2>1, CallFits DEF KindsFit
  <2>. QED
    BY <1>1, <2>1, <2>2, MarkSet DEF Known
<1>7. ASSUME NEW t \in MediaThreads, CommitConfirm(t) PROVE Goal
  <2>1. mediaCall[t].op = "confirm" /\ SetStatus(mediaCall[t].m, "ready")
    BY <1>7 DEF CommitConfirm
  <2>2. mediaCall[t].m \in Files /\ Known(mediaCall[t].m)
    BY <1>0, <2>1, CallFits DEF KindsFit
  <2>. QED
    BY <1>1, <2>1, <2>2, StatusSet DEF Known
<1>8. ASSUME NEW m \in Files, Upload(m) PROVE Goal
  BY <1>0, <1>1, <1>8, RowMade DEF Upload, Known, NewRow
<1>9. ASSUME NEW m \in Files, Presign(m) PROVE Goal
  BY <1>0, <1>1, <1>9, RowMade DEF Presign, Known, NewRow
<1>10. ASSUME NEW m \in Files, UploadImage(m) PROVE Goal
  BY <1>0, <1>1, <1>10, RowMade DEF UploadImage, Known, NewRow
<1>. HIDE DEF Goal
<1>11. CASE UNCHANGED mediaVars
  BY <1>1, <1>11 DEF mediaVars, mediaRows
<1>12. ASSUME NEW m \in Files, MediaTask(m) PROVE Goal
  BY <1>1, <1>2, <1>3, <1>4, <1>5, <1>12 DEF MediaTask, mediaRows, StoreFile, RefreshRow, PutImage, DropBlob,
     QueueCleanup, TaskLostAgain, BlobExpires, ClearFile
<1>13. ASSUME NEW t \in MediaThreads, MediaWeb(t) PROVE Goal
  BY <1>1, <1>6, <1>7, <1>13 DEF MediaWeb, mediaRows, BeginDestroy, BeginConfirm, BeginUnset, CommitUnset,
     BeginEditAvatar, CommitEditAvatar, Request
<1>14. CASE MediaNext
  BY <1>1, <1>8, <1>9, <1>10, <1>12, <1>13, <1>14 DEF MediaNext, mediaRows, ClientPuts, DropFile
<1>15. Goal
  BY <1>11, <1>14
<1>. QED
  BY <1>15 DEF Goal

\* What a step can make of one task, and by which action.
LEMMA TasksChange ==
  ASSUME MediaTypeOK, [MediaNext]_mediaVars, NEW n \in Files
  PROVE  \/ task'[n] = task[n]
         \/ task'[n].at = "stored" /\ (StoreFile(n) \/ PutImage(n))
         \/ task'[n].at = "copied" /\ RefreshRow(n)
         \/ task'[n].at = "dropped" /\ DropBlob(n)
         \/ task'[n].at = "swapped" /\ Swap(n)
         \/ task'[n].at = "queued" /\ (Upload(n) \/ UploadImage(n) \/ (TaskLostAgain(n) /\ task[n].at # "none"))
         \/ task'[n].at = "done" /\ task[n].at # "none"
<1>. DEFINE Goal ==
         \/ task'[n] = task[n]
         \/ task'[n].at = "stored" /\ (StoreFile(n) \/ PutImage(n))
         \/ task'[n].at = "copied" /\ RefreshRow(n)
         \/ task'[n].at = "dropped" /\ DropBlob(n)
         \/ task'[n].at = "swapped" /\ Swap(n)
         \/ task'[n].at = "queued" /\ (Upload(n) \/ UploadImage(n) \/ (TaskLostAgain(n) /\ task[n].at # "none"))
         \/ task'[n].at = "done" /\ task[n].at # "none"
<1>. SUFFICES Goal
  OBVIOUS
<1>0. task \in [Files -> TaskStates]
  BY DEF MediaTypeOK
<1>1. UNCHANGED task => Goal
  OBVIOUS
<1>2. ASSUME NEW m \in Files, NEW next, Go(m, next)
      PROVE  task'[n] = task[n] \/ (m = n /\ task'[n] = next)
  BY <1>0, <1>2, TaskGoes
<1>3. ASSUME NEW m \in Files, StoreFile(m) \/ PutImage(m) PROVE Goal
  BY <1>2, <1>3 DEF StoreFile, PutImage
<1>4. ASSUME NEW m \in Files, RefreshRow(m) PROVE Goal
  BY <1>2, <1>4 DEF RefreshRow
<1>5. ASSUME NEW m \in Files, DropBlob(m) PROVE Goal
  BY <1>2, <1>5 DEF DropBlob
<1>6. ASSUME NEW m \in Files, Swap(m) PROVE Goal
  BY <1>2, <1>6 DEF Swap
<1>7. ASSUME NEW m \in Files, TaskLostAgain(m) PROVE Goal
  BY <1>2, <1>7 DEF TaskLostAgain, Queued
<1>8. ASSUME NEW m \in Files, StoreFails(m) \/ SaveRow(m) \/ ImageFails(m) \/ QueueCleanup(m) PROVE Goal
  BY <1>2, <1>8 DEF StoreFails, SaveRow, ImageFails, QueueCleanup, MediaAt
<1>9. ASSUME NEW m \in Files, Upload(m) \/ UploadImage(m) PROVE Goal
  BY <1>2, <1>9 DEF Upload, UploadImage, Go, Queued
<1>. HIDE DEF Goal
<1>10. CASE UNCHANGED mediaVars
  BY <1>1, <1>10 DEF mediaVars, mediaJobs
<1>11. ASSUME NEW m \in Files, MediaTask(m) PROVE Goal
  BY <1>1, <1>3, <1>4, <1>5, <1>6, <1>7, <1>8, <1>11 DEF MediaTask, BlobExpires, ClearFile, ClearRow
<1>12. ASSUME NEW t \in MediaThreads, MediaWeb(t) PROVE Goal
  BY <1>1, <1>12 DEF MediaWeb, mediaJobs, BeginDestroy, BeginConfirm, BeginUnset, CommitUnset,
     BeginEditAvatar, CommitEditAvatar, Request, Answered, CommitDestroy, CommitConfirm
<1>13. CASE MediaNext
  BY <1>1, <1>9, <1>11, <1>12, <1>13 DEF MediaNext, mediaJobs, ClientPuts, DropFile, Presign
<1>. QED
  BY <1>10, <1>13

\* What a step can make of stored objects, and by which action.
LEMMA ObjectsChange ==
  ASSUME MediaTypeOK, [MediaNext]_mediaVars
  PROVE  /\ \A n \in blob' : n \in blob \/ (n \in Files /\ UploadImage(n))
         /\ \A f \in store \ store' : (\E m \in Files : ClearFile(m) /\ f = FileOf(m)) \/ (f \in drops /\ DropFile(f))
         /\ \A f \in drops' \ drops : \E t \in MediaThreads :
              CommitDestroy(t) /\ mediaCall[t].op = "destroy" /\ f = <<mediaCall[t].m, mediaCall[t].key>>
         /\ \A n \in cleared \ cleared' : ClearRow(n)
         /\ \A n \in Files : runs'[n] = runs[n] \/ StoreFile(n)
<1>. DEFINE Goal ==
         /\ \A n \in blob' : n \in blob \/ (n \in Files /\ UploadImage(n))
         /\ \A f \in store \ store' : (\E m \in Files : ClearFile(m) /\ f = FileOf(m)) \/ (f \in drops /\ DropFile(f))
         /\ \A f \in drops' \ drops : \E t \in MediaThreads :
              CommitDestroy(t) /\ mediaCall[t].op = "destroy" /\ f = <<mediaCall[t].m, mediaCall[t].key>>
         /\ \A n \in cleared \ cleared' : ClearRow(n)
         /\ \A n \in Files : runs'[n] = runs[n] \/ StoreFile(n)
<1>. SUFFICES Goal
  OBVIOUS
<1>0. runs \in [Files -> FileKeys]
  BY DEF MediaTypeOK
<1>1. ASSUME blob' \subseteq blob, store \subseteq store', drops' \subseteq drops, cleared \subseteq cleared',
             UNCHANGED runs
      PROVE  Goal
  BY <1>1
<1>2. ASSUME NEW m \in Files, UploadImage(m) PROVE Goal
  BY <1>2 DEF UploadImage, NewRow
<1>3. ASSUME NEW m \in Files, ClearFile(m) PROVE Goal
  BY <1>3 DEF ClearFile
<1>4. ASSUME NEW m \in Files, ClearRow(m) PROVE Goal
  BY <1>4 DEF ClearRow
<1>5. ASSUME NEW f \in drops, DropFile(f) PROVE Goal
  BY <1>5 DEF DropFile
<1>6. ASSUME NEW t \in MediaThreads, CommitDestroy(t) PROVE Goal
  <2>1. /\ mediaCall[t].op = "destroy" /\ drops' \subseteq drops \cup {<<mediaCall[t].m, mediaCall[t].key>>}
        /\ UNCHANGED <<blob, store, cleared, runs>>
    BY <1>6 DEF CommitDestroy, Answered
  <2>. QED
    BY <1>6, <2>1
<1>7. ASSUME NEW m \in Files, StoreFile(m) PROVE Goal
  BY <1>0, <1>7 DEF StoreFile, TaskFrame
<1>. HIDE DEF Goal
<1>8. CASE UNCHANGED mediaVars
  BY <1>1, <1>8 DEF mediaVars, mediaJobs
<1>9. ASSUME NEW m \in Files, MediaTask(m) PROVE Goal
  BY <1>1, <1>3, <1>4, <1>7, <1>9 DEF MediaTask, TaskFrame, StoreFails, RefreshRow, SaveRow, ImageFails, PutImage,
     DropBlob, Swap, QueueCleanup, TaskLostAgain, BlobExpires
<1>10. ASSUME NEW t \in MediaThreads, MediaWeb(t) PROVE Goal
  BY <1>1, <1>6, <1>10 DEF MediaWeb, mediaJobs, BeginDestroy, BeginConfirm, BeginUnset, CommitUnset,
     BeginEditAvatar, CommitEditAvatar, Request, Answered, CommitConfirm
<1>11. CASE MediaNext
  BY <1>1, <1>2, <1>5, <1>9, <1>10, <1>11 DEF MediaNext, mediaJobs, ClientPuts, Upload, Presign, NewRow
<1>. QED
  BY <1>8, <1>11

\* What a step can make of one call, and by which action.
LEMMA CallsChange ==
  ASSUME MediaTypeOK, [MediaNext]_mediaVars, NEW t \in MediaThreads
  PROVE  \/ mediaCall'[t] = mediaCall[t]
         \/ mediaCall'[t].op \in {"idle", "unset", "edit"}
         \/ \E m \in Files : BeginDestroy(t, m) /\ mediaCall'[t] = [op |-> "destroy", m |-> m, key |-> media[m].key]
         \/ \E m \in Files : BeginConfirm(t, m) /\ mediaCall'[t] = [op |-> "confirm", m |-> m]
<1>. DEFINE Goal ==
         \/ mediaCall'[t] = mediaCall[t]
         \/ mediaCall'[t].op \in {"idle", "unset", "edit"}
         \/ \E m \in Files : BeginDestroy(t, m) /\ mediaCall'[t] = [op |-> "destroy", m |-> m, key |-> media[m].key]
         \/ \E m \in Files : BeginConfirm(t, m) /\ mediaCall'[t] = [op |-> "confirm", m |-> m]
<1>. SUFFICES Goal
  OBVIOUS
<1>0. mediaCall \in [MediaThreads -> MediaCalls]
  BY DEF MediaTypeOK
<1>1. UNCHANGED mediaCall => Goal
  OBVIOUS
<1>2. ASSUME NEW z \in MediaThreads, Answered(z) PROVE Goal
  BY <1>0, <1>2, AnswerGoes
<1>3. ASSUME NEW z \in MediaThreads, NEW c, Request(z, c) PROVE mediaCall'[t] = mediaCall[t] \/ (z = t /\ mediaCall'[t] = c)
  BY <1>0, <1>3, RequestGoes
<1>4. ASSUME NEW z \in MediaThreads, NEW m \in Files, BeginDestroy(z, m) PROVE Goal
  BY <1>3, <1>4 DEF BeginDestroy
<1>5. ASSUME NEW z \in MediaThreads, NEW m \in Files, BeginConfirm(z, m) PROVE Goal
  BY <1>3, <1>5 DEF BeginConfirm
<1>6. ASSUME NEW z \in MediaThreads, BeginUnset(z) \/ BeginEditAvatar(z) PROVE Goal
  BY <1>3, <1>6 DEF BeginUnset, BeginEditAvatar
<1>. HIDE DEF Goal
<1>7. CASE UNCHANGED mediaVars
  BY <1>1, <1>7 DEF mediaVars, mediaWeb
<1>8. ASSUME NEW m \in Files, MediaTask(m) PROVE Goal
  BY <1>1, <1>8 DEF MediaTask, mediaWeb, TaskFrame, StoreFile, StoreFails, RefreshRow, SaveRow, ImageFails, PutImage,
     DropBlob, Swap, QueueCleanup, TaskLostAgain, BlobExpires, ClearFile, ClearRow
<1>9. ASSUME NEW z \in MediaThreads, MediaWeb(z) PROVE Goal
  BY <1>2, <1>4, <1>5, <1>6, <1>9 DEF MediaWeb, CommitDestroy, CommitConfirm, CommitUnset, CommitEditAvatar
<1>10. CASE MediaNext
  BY <1>1, <1>8, <1>9, <1>10 DEF MediaNext, mediaWeb, ClientPuts, DropFile, Upload, Presign, UploadImage, NewRow
<1>. QED
  BY <1>7, <1>10

-----------------------------------------------------------------------------
(* The invariant, conjunct by conjunct *)

\* Tasks, calls and deletions are of media that exist, each of its kind.
LEMMA KindsNext == MediaTypeOK /\ KindsFit /\ [MediaNext]_mediaVars => KindsFit'
<1>. SUFFICES ASSUME MediaTypeOK, KindsFit, [MediaNext]_mediaVars PROVE KindsFit'
  OBVIOUS
<1>0. /\ task \in [Files -> TaskStates] /\ mediaCall \in [MediaThreads -> MediaCalls]
      /\ drops \subseteq Files \X FileKeys /\ avatar \subseteq Files /\ blob \subseteq Files
  BY DEF MediaTypeOK, AtMostOne
<1>1. \A n \in Files : Known(n) => media'[n] # NoMedia /\ media'[n].kind = media[n].kind
  BY RowsChange
<1>2. ASSUME NEW n \in Files, media'[n] # NoMedia, media'[n].kind # "upload" PROVE media'[n].key = 1
  <2>1. CASE Known(n)
    <3>1. SaveRow(n) => media[n].kind = "upload"
      BY ActsOnKnown DEF IsKind
    <3>2. media[n].key = 1
      BY <1>1, <1>2, <2>1 DEF KindsFit
    <3>. QED
      BY <1>1, <1>2, <2>1, <3>1, <3>2, RowsChange
  <2>2. CASE ~Known(n)
    BY <1>2, <2>2, RowsChange
  <2>. QED
    BY <2>1, <2>2
<1>3. ASSUME NEW n \in Files, UploadImage(n) PROVE media'[n] # NoMedia /\ media'[n].kind = "image" /\ ~Known(n)
  <2>1. NewRow(n, "image", 1) /\ 1 \in FileKeys
    BY <1>3, MediaNats DEF UploadImage, FileKeys
  <2>. QED
    BY <2>1, RowMade DEF NewRow
<1>4. ASSUME NEW n \in Files, Upload(n) PROVE media'[n] # NoMedia
  <2>1. NewRow(n, "upload", 0) /\ 0 \in FileKeys
    BY <1>4, MediaNats DEF Upload, FileKeys
  <2>. QED
    BY <2>1, RowMade
<1>5. ASSUME NEW n \in Files
      PROVE  /\ task'[n].at # "none" => media'[n] # NoMedia
             /\ task'[n].at = "copied" => media'[n].kind = "upload"
             /\ task'[n].at \in {"dropped", "swapped"} => media'[n].kind = "image"
  <2>1. CASE task'[n] = task[n]
    BY <1>1, <2>1 DEF KindsFit, MediaAt, IsKind
  <2>2. CASE task'[n].at = "stored" /\ (StoreFile(n) \/ PutImage(n))
    BY <1>1, <2>2 DEF StoreFile, PutImage, IsKind
  <2>3. CASE task'[n].at = "copied" /\ RefreshRow(n)
    BY <1>1, <2>3 DEF RefreshRow, IsKind
  <2>4. CASE task'[n].at = "dropped" /\ DropBlob(n)
    BY <1>1, <2>4 DEF DropBlob, IsKind
  <2>5. CASE task'[n].at = "swapped" /\ Swap(n)
    BY <1>1, <2>5, ActsOnKnown DEF IsKind
  <2>6. CASE task'[n].at = "queued" /\ (Upload(n) \/ UploadImage(n) \/ (TaskLostAgain(n) /\ task[n].at # "none"))
    BY <1>1, <1>3, <1>4, <2>6 DEF KindsFit, MediaAt
  <2>7. CASE task'[n].at = "done" /\ task[n].at # "none"
    BY <1>1, <2>7 DEF KindsFit, MediaAt
  <2>. QED
    BY <2>1, <2>2, <2>3, <2>4, <2>5, <2>6, <2>7, TasksChange
<1>6. ASSUME NEW n \in Files, n \in blob' \cup Worn' PROVE media'[n] # NoMedia /\ media'[n].kind = "image"
  <2>1. CASE n \in blob \cup Worn
    BY <1>1, <2>1 DEF KindsFit, IsKind
  <2>2. CASE UploadImage(n)
    BY <1>3, <2>2
  <2>3. CASE Swap(n)
    BY <1>1, <2>3, ActsOnKnown DEF IsKind
  <2>. QED
    BY <1>6, <2>1, <2>2, <2>3, ObjectsChange, WornGrows
<1>7. ASSUME NEW f \in drops' PROVE media'[f[1]] # NoMedia
  <2>1. CASE f \in drops
    BY <1>0, <1>1, <2>1 DEF KindsFit
  <2>2. ASSUME NEW t \in MediaThreads, mediaCall[t].op = "destroy", f = <<mediaCall[t].m, mediaCall[t].key>>
        PROVE  media'[f[1]] # NoMedia
    BY <1>0, <1>1, <2>2, CallFits DEF KindsFit
  <2>. QED
    BY <2>1, <2>2, ObjectsChange
<1>8. ASSUME NEW t \in MediaThreads, mediaCall'[t].op \in {"destroy", "confirm"} PROVE media'[mediaCall'[t].m] # NoMedia
  <2>1. CASE mediaCall'[t] = mediaCall[t]
    BY <1>0, <1>1, <1>8, <2>1, CallFits DEF KindsFit
  <2>2. ASSUME NEW m \in Files, BeginDestroy(t, m), mediaCall'[t] = [op |-> "destroy", m |-> m, key |-> media[m].key]
        PROVE  media'[mediaCall'[t].m] # NoMedia
    BY <1>1, <2>2 DEF BeginDestroy
  <2>3. ASSUME NEW m \in Files, BeginConfirm(t, m), mediaCall'[t] = [op |-> "confirm", m |-> m]
        PROVE  media'[mediaCall'[t].m] # NoMedia
    BY <1>1, <2>3 DEF BeginConfirm, MayConfirm
  <2>. QED
    BY <1>8, <2>1, <2>2, <2>3, CallsChange
<1>9. \A m \in Files :
        /\ media'[m] # NoMedia /\ media'[m].kind # "upload" => media'[m].key = 1
        /\ task'[m].at # "none" => media'[m] # NoMedia
        /\ task'[m].at = "copied" => media'[m] # NoMedia /\ media'[m].kind = "upload"
        /\ task'[m].at \in {"dropped", "swapped"} => media'[m] # NoMedia /\ media'[m].kind = "image"
        /\ m \in blob' \cup Worn' => media'[m] # NoMedia /\ media'[m].kind = "image"
  BY <1>2, <1>5, <1>6
<1>. QED
  BY <1>7, <1>8, <1>9 DEF KindsFit, Known, IsKind, MediaAt

\* An image becomes the avatar once.
LEMMA WornOnceNext == MediaTypeOK /\ KindsFit /\ WornOnce /\ [MediaNext]_mediaVars => WornOnce'
<1>. SUFFICES ASSUME MediaTypeOK, KindsFit, WornOnce, [MediaNext]_mediaVars, NEW n \in Files
              PROVE  /\ n \in blob' \/ (media'[n] # NoMedia /\ media'[n].kind = "image"
                                        /\ task'[n].at \in {"stored", "dropped"}) => n \notin Worn'
                     /\ task'[n].at = "dropped" => n \notin blob'
  BY DEF WornOnce, IsKind, MediaAt, Known
<1>. DEFINE Fresh == n \in blob \/ (IsKind(n, "image") /\ task[n].at \in {"stored", "dropped"})
<1>0. task \in [Files -> TaskStates]
  BY DEF MediaTypeOK
<1>1. Fresh => n \notin Worn
  BY DEF WornOnce
<1>2. UploadImage(n) => ~Known(n)
  BY DEF UploadImage, NewRow
<1>3. ~Known(n) => n \notin Worn /\ ~Swap(n) /\ task[n].at = "none"
  BY ActsOnKnown DEF KindsFit, IsKind, MediaAt
\* A swap ends the freshness of its image.
<1>4. ASSUME Swap(n) PROVE n \notin blob' /\ task'[n].at = "swapped"
  <2>1. n \notin blob /\ blob' = blob
    BY <1>4 DEF Swap, WornOnce
  <2>2. task'[n] = [at |-> "swapped", old |-> avatar \ {n}]
    BY <1>0, <1>4, TaskGoes DEF Swap
  <2>. QED
    BY <2>1, <2>2
<1>5. ASSUME media'[n] # NoMedia, media'[n].kind = "image", task'[n].at \in {"stored", "dropped"} PROVE Fresh
  <2>1. CASE ~Known(n)
    BY <1>3, <1>5, <2>1, TasksChange DEF StoreFile, PutImage, DropBlob, IsKind
  <2>2. CASE Known(n)
    <3>1. media[n].kind = "image"
      BY <1>5, <2>2, RowsChange
    <3>2. CASE task'[n] = task[n]
      BY <1>5, <2>2, <3>1, <3>2 DEF IsKind
    <3>3. CASE StoreFile(n) \/ PutImage(n) \/ DropBlob(n)
      BY <2>2, <3>1, <3>3 DEF StoreFile, PutImage, DropBlob, IsKind, MediaAt
    <3>. QED
      BY <1>5, <3>2, <3>3, TasksChange
  <2>. QED
    BY <2>1, <2>2
<1>6. n \in blob' => n \in blob \/ UploadImage(n)
  BY ObjectsChange
<1>7. ASSUME n \in blob' \/ (media'[n] # NoMedia /\ media'[n].kind = "image" /\ task'[n].at \in {"stored", "dropped"})
      PROVE  n \notin Worn'
  <2>1. n \notin Worn
    BY <1>1, <1>2, <1>3, <1>5, <1>6, <1>7
  <2>2. ~Swap(n)
    BY <1>4, <1>7
  <2>. QED
    BY <2>1, <2>2, WornGrows
<1>8. ASSUME task'[n].at = "dropped" PROVE n \notin blob'
  <2>1. CASE task'[n] = task[n]
    <3>1. n \notin blob /\ task[n].at # "none"
      BY <1>8, <2>1 DEF WornOnce, MediaAt
    <3>. QED
      BY <1>2, <1>3, <1>6, <3>1
  <2>2. CASE DropBlob(n)
    BY <2>2 DEF DropBlob
  <2>. QED
    BY <1>8, <2>1, <2>2, TasksChange
<1>. QED
  BY <1>7, <1>8

\* The avatar is not one that is being cleaned up.
LEMMA AvatarNext == MediaTypeOK /\ KindsFit /\ WornOnce /\ AvatarKept /\ [MediaNext]_mediaVars => AvatarKept'
<1>. SUFFICES ASSUME MediaTypeOK, KindsFit, WornOnce, AvatarKept, [MediaNext]_mediaVars PROVE AvatarKept'
  OBVIOUS
<1>0. task \in [Files -> TaskStates] /\ restored \in BOOLEAN
  BY DEF MediaTypeOK
\* Steps that add nothing to what goes out, and change the avatar only by
\* putting back an earlier one.
<1>1. ASSUME \A n \in Files : task'[n].at = "swapped" => task'[n] = task[n],
             \A x : x \in cleanups' \/ x \in cleared' => x \in Outgoing,
             avatar' = avatar \/ restored' = TRUE, restored => restored'
      PROVE  AvatarKept'
  <2>1. \A x : x \in Outgoing' => x \in Outgoing
    BY <1>1, OutgoingMeans, OutgoingMeansNext
  <2>. QED
    BY <1>1, <2>1 DEF AvatarKept
<1>2. \A x : x \in cleanups \/ x \in cleared => x \in Outgoing
  BY OutgoingMeans
<1>3. ASSUME UNCHANGED <<task, cleanups, cleared, avatar, restored>> PROVE AvatarKept'
  BY <1>1, <1>2, <1>3
<1>4. ASSUME NEW m \in Files, NEW next, Go(m, next), next.at # "swapped",
             UNCHANGED <<cleanups, cleared, avatar, restored>>
      PROVE  AvatarKept'
  BY <1>0, <1>1, <1>2, <1>4, TaskGoes
<1>5. ASSUME NEW m \in Files, Swap(m) PROVE AvatarKept'
  <2>1. avatar' = {m} /\ UNCHANGED <<cleanups, cleared>> /\ task[m].at = "dropped"
    BY <1>5 DEF Swap, TaskFrame, MediaAt
  <2>2. /\ task'[m] = [at |-> "swapped", old |-> avatar \ {m}]
        /\ \A n \in Files \ {m} : task'[n] = task[n]
    BY <1>0, <1>5, TaskGoes DEF Swap
  <2>3. m \notin Worn
    BY <1>5, <2>1, ActsOnKnown DEF WornOnce, IsKind
  <2>4. m \notin Outgoing'
    BY <2>1, <2>2, <2>3, WornMeans, OutgoingMeans, OutgoingMeansNext
  <2>. QED
    BY <2>1, <2>4 DEF AvatarKept
<1>6. ASSUME NEW m \in Files, QueueCleanup(m) PROVE AvatarKept'
  <2>1. /\ cleanups' = cleanups \cup task[m].old /\ task[m].at = "swapped"
        /\ Go(m, [at |-> "done"]) /\ UNCHANGED <<avatar, cleared, restored>>
    BY <1>6 DEF QueueCleanup, MediaAt, mediaRows
  <2>2. \A x : x \in cleanups' \/ x \in cleared' => x \in Outgoing
    BY <2>1, OutgoingMeans
  <2>3. \A n \in Files : task'[n].at = "swapped" => task'[n] = task[n]
    BY <1>0, <2>1, TaskGoes
  <2>. QED
    BY <1>1, <2>1, <2>2, <2>3
<1>7. ASSUME NEW m \in Files, ClearFile(m) \/ ClearRow(m) PROVE AvatarKept'
  <2>1. /\ cleanups' \subseteq cleanups /\ cleared' \subseteq cleared \cup cleanups
        /\ UNCHANGED <<avatar, restored, task>>
    BY <1>7 DEF ClearFile, ClearRow, mediaRows
  <2>. QED
    BY <1>1, <1>2, <2>1
<1>8. ASSUME NEW t \in MediaThreads, CommitUnset(t) PROVE AvatarKept'
  BY <1>8 DEF CommitUnset, AvatarKept
<1>9. ASSUME NEW t \in MediaThreads, CommitEditAvatar(t) PROVE AvatarKept'
  <2>1. avatar' = avatar \/ restored' = TRUE
    BY <1>0, <1>9 DEF CommitEditAvatar
  <2>2. restored => restored'
    BY <1>0, <1>9 DEF CommitEditAvatar
  <2>3. UNCHANGED <<task, cleanups, cleared>>
    BY <1>9 DEF CommitEditAvatar, Answered
  <2>. QED
    BY <1>1, <1>2, <2>1, <2>2, <2>3
<1>10. CASE UNCHANGED mediaVars
  BY <1>3, <1>10 DEF mediaVars, mediaRows, mediaJobs
<1>11. ASSUME NEW m \in Files, MediaTask(m) PROVE AvatarKept'
  <2>1. CASE StoreFile(m) \/ StoreFails(m) \/ RefreshRow(m) \/ SaveRow(m) \/ ImageFails(m) \/ PutImage(m)
             \/ DropBlob(m) \/ TaskLostAgain(m)
    <3>1. \E next \in {Queued, [at |-> "stored"], [at |-> "dropped"], [at |-> "done"],
                       [at |-> "copied", live |-> media[m].live]} : Go(m, next)
      BY <2>1 DEF StoreFile, StoreFails, RefreshRow, SaveRow, ImageFails, PutImage, DropBlob, TaskLostAgain
    <3>2. UNCHANGED <<cleanups, cleared, avatar, restored>>
      BY <2>1 DEF StoreFile, StoreFails, RefreshRow, SaveRow, ImageFails, PutImage, DropBlob, TaskLostAgain,
         TaskFrame, mediaRows
    <3>. QED
      BY <1>4, <3>1, <3>2 DEF Queued
  <2>2. CASE BlobExpires(m)
    BY <1>3, <2>2 DEF BlobExpires, mediaRows
  <2>. QED
    BY <1>5, <1>6, <1>7, <1>11, <2>1, <2>2 DEF MediaTask
<1>12. ASSUME NEW t \in MediaThreads, MediaWeb(t) PROVE AvatarKept'
  BY <1>3, <1>8, <1>9, <1>12 DEF MediaWeb, mediaRows, mediaJobs, BeginDestroy, BeginConfirm, BeginUnset,
     BeginEditAvatar, Request, Answered, CommitDestroy, CommitConfirm
<1>13. ASSUME NEW m \in Files, Upload(m) \/ Presign(m) \/ UploadImage(m) \/ ClientPuts(m) PROVE AvatarKept'
  <2>1. UNCHANGED <<avatar, cleanups, cleared, restored>> /\ (UNCHANGED task \/ Go(m, Queued))
    BY <1>13 DEF Upload, Presign, UploadImage, NewRow, ClientPuts, mediaRows, mediaJobs, Go
  <2>. QED
    BY <1>3, <1>4, <2>1 DEF Queued
<1>. QED
  BY <1>3, <1>10, <1>11, <1>12, <1>13 DEF MediaNext, mediaRows, DropFile

-----------------------------------------------------------------------------
(* Keys and files *)

\* A row takes no new key but the one its task saves.
LEMMA UsedKeysGrow ==
  ASSUME MediaTypeOK, KindsFit, [MediaNext]_mediaVars, NEW n \in Files, Known(n)
  PROVE  \A k \in UsedKeys(n)' : k \in UsedKeys(n) \/ (SaveRow(n) /\ k = runs[n])
<1>0. /\ mediaCall \in [MediaThreads -> MediaCalls] /\ media \in [Files -> MediaRows \cup {NoMedia}]
  BY DEF MediaTypeOK
<1>1. media[n].key \in UsedKeys(n)
  BY DEF UsedKeys
<1>2. media'[n].key = media[n].key \/ (SaveRow(n) /\ media'[n].key = runs[n])
  BY RowsChange
<1>3. ASSUME NEW t \in MediaThreads, NEW k \in FileKeys, mediaCall[t] = [op |-> "destroy", m |-> n, key |-> k]
      PROVE  k \in UsedKeys(n)
  BY <1>3 DEF UsedKeys
<1>4. ASSUME NEW k \in FileKeys, <<n, k>> \in drops' PROVE k \in UsedKeys(n)
  <2>1. CASE <<n, k>> \in drops
    BY <2>1 DEF UsedKeys
  <2>2. ASSUME NEW t \in MediaThreads, mediaCall[t].op = "destroy", <<n, k>> = <<mediaCall[t].m, mediaCall[t].key>>
        PROVE  k \in UsedKeys(n)
    <3>1. mediaCall[t] = [op |-> "destroy", m |-> mediaCall[t].m, key |-> mediaCall[t].key]
      BY <1>0, <2>2, CallFits
    <3>2. mediaCall[t].m = n /\ mediaCall[t].key = k
      BY <2>2
    <3>. QED
      BY <1>3, <3>1, <3>2
  <2>. QED
    BY <1>4, <2>1, <2>2, ObjectsChange
<1>5. ASSUME NEW t \in MediaThreads, NEW k \in FileKeys, mediaCall'[t] = [op |-> "destroy", m |-> n, key |-> k]
      PROVE  k \in UsedKeys(n)
  <2>1. CASE mediaCall'[t] = mediaCall[t]
    BY <1>3, <1>5, <2>1
  <2>2. mediaCall'[t].op = "destroy" /\ mediaCall'[t].m = n /\ mediaCall'[t].key = k
    BY <1>5
  <2>3. ASSUME NEW m \in Files, mediaCall'[t] = [op |-> "destroy", m |-> m, key |-> media[m].key]
        PROVE  k \in UsedKeys(n)
    BY <1>1, <2>2, <2>3
  <2>4. ASSUME NEW m \in Files, mediaCall'[t] = [op |-> "confirm", m |-> m] PROVE FALSE
    BY <2>2, <2>4
  <2>. QED
    BY <2>1, <2>2, <2>3, <2>4, CallsChange
<1>. QED
  BY <1>1, <1>2, <1>4, <1>5 DEF UsedKeys

\* A run of an upload saves a key that nobody named before.
LEMMA KeysNext == MediaTypeOK /\ KindsFit /\ KeysAhead /\ [MediaNext]_mediaVars => KeysAhead'
<1>. SUFFICES ASSUME MediaTypeOK, KindsFit, KeysAhead, [MediaNext]_mediaVars,
                     NEW n \in Files, media'[n] # NoMedia, media'[n].kind = "upload"
              PROVE  /\ \A k \in UsedKeys(n)' : k <= runs'[n]
                     /\ task'[n].at \in {"stored", "copied"} =>
                          <<n, runs'[n]>> \in store' /\ \A k \in UsedKeys(n)' : k < runs'[n]
  BY DEF KeysAhead, IsKind, Known
<1>0. /\ task \in [Files -> TaskStates] /\ runs \in [Files -> FileKeys] /\ drops \subseteq Files \X FileKeys
      /\ mediaCall \in [MediaThreads -> MediaCalls] /\ media \in [Files -> MediaRows \cup {NoMedia}]
  BY DEF MediaTypeOK
<1>1. runs[n] \in Nat /\ runs'[n] \in Nat
  BY <1>0, TasksTypedNext, MediaNats DEF FileKeys
\* A new row: its key is the pending one, and nobody has named another.
<1>2. CASE ~Known(n)
  <2>1. Upload(n) /\ media'[n].key = 0
    BY <1>2, RowsChange
  <2>2. UNCHANGED <<drops, mediaCall>> /\ task'[n].at = "queued"
    BY <1>0, <2>1 DEF Upload, NewRow, mediaWeb, Queued
  <2>3. ASSUME NEW k \in FileKeys, <<n, k>> \in drops' PROVE FALSE
    BY <1>2, <2>2, <2>3 DEF KindsFit
  <2>4. ASSUME NEW k \in FileKeys, NEW t \in MediaThreads,
               mediaCall'[t] = [op |-> "destroy", m |-> n, key |-> k]
        PROVE  FALSE
    BY <1>2, <2>2, <2>4 DEF KindsFit
  <2>5. \A k \in UsedKeys(n)' : k = 0
    BY <2>1, <2>3, <2>4 DEF UsedKeys
  <2>. QED
    BY <1>1, <2>2, <2>5
<1>3. CASE Known(n)
  <2>0. media[n].kind = "upload" /\ IsKind(n, "upload")
    BY <1>3, RowsChange DEF IsKind
  <2>1. UsedKeys(n) \subseteq Nat
    <3>1. media[n].key \in Nat
      BY <1>0, <1>3, MediaShape, MediaNats DEF MediaRows, FileKeys
    <3>. QED
      BY <3>1, MediaNats DEF UsedKeys, FileKeys
  <2>2. \A k \in UsedKeys(n) : k <= runs[n]
    BY <2>0 DEF KeysAhead
  <2>3. CASE StoreFile(n)
    <3>1. runs'[n] = runs[n] + 1 /\ store' = store \cup {<<n, runs[n] + 1>>} /\ task[n].at = "queued"
      BY <1>0, <2>3 DEF StoreFile, MediaAt
    <3>2. ~SaveRow(n)
      BY <3>1 DEF SaveRow, MediaAt
    <3>3. \A k \in UsedKeys(n)' : k \in UsedKeys(n)
      BY <1>3, <3>2, UsedKeysGrow
    <3>4. \A k \in UsedKeys(n)' : k < runs'[n]
      BY <1>1, <2>1, <2>2, <3>1, <3>3
    <3>. QED
      BY <1>1, <2>1, <3>1, <3>3, <3>4
  <2>4. CASE SaveRow(n)
    <3>1. task'[n].at = "done" /\ runs'[n] = runs[n]
      BY <1>0, <2>4, TaskGoes DEF SaveRow
    <3>2. \A k \in UsedKeys(n)' : k \in UsedKeys(n) \/ k = runs[n]
      BY <1>3, UsedKeysGrow
    <3>. QED
      BY <1>1, <2>1, <2>2, <3>1, <3>2
  <2>5. CASE ~StoreFile(n) /\ ~SaveRow(n)
    <3>1. runs'[n] = runs[n] /\ \A k \in UsedKeys(n)' : k \in UsedKeys(n)
      BY <1>3, <2>5, ObjectsChange, UsedKeysGrow
    <3>2. ASSUME task'[n].at \in {"stored", "copied"}
          PROVE  <<n, runs'[n]>> \in store' /\ \A k \in UsedKeys(n)' : k < runs'[n]
      <4>1. task[n].at \in {"stored", "copied"}
        <5>1. ~PutImage(n)
          BY <2>0 DEF PutImage, IsKind
        <5>. QED
          BY <2>5, <3>2, <5>1, TasksChange DEF RefreshRow, MediaAt
      <4>2. <<n, runs[n]>> \in store /\ \A k \in UsedKeys(n) : k < runs[n]
        BY <2>0, <4>1 DEF KeysAhead
      <4>3. runs[n] \notin UsedKeys(n)
        BY <1>1, <4>2
      <4>4. ASSUME NEW m \in Files, <<n, runs[n]>> = FileOf(m) PROVE FALSE
        <5>1. n = m /\ runs[n] = media[m].key
          BY <4>4 DEF FileOf
        <5>. QED
          BY <4>3, <5>1 DEF UsedKeys
      <4>5. <<n, runs[n]>> \notin drops
        BY <1>0, <4>3 DEF UsedKeys
      <4>6. <<n, runs[n]>> \in store'
        BY <4>2, <4>4, <4>5, ObjectsChange
      <4>. QED
        BY <3>1, <4>2, <4>6
    <3>. QED
      BY <2>2, <3>1, <3>2
  <2>. QED
    BY <2>3, <2>4, <2>5
<1>. QED
  BY <1>2, <1>3

\* What waits to be deleted is no file of a media still shown.
LEMMA DroppedNext ==
  MediaTypeOK /\ KindsFit /\ KeysAhead /\ DroppedAreGone /\ [MediaNext]_mediaVars => DroppedAreGone'
<1>. SUFFICES ASSUME MediaTypeOK, KindsFit, KeysAhead, DroppedAreGone, [MediaNext]_mediaVars,
                     NEW n \in Files, media'[n] # NoMedia, <<n, media'[n].key>> \in drops'
              PROVE  ~media'[n].live
  BY DEF DroppedAreGone, FileOf, Known
<1>0. /\ mediaCall \in [MediaThreads -> MediaCalls] /\ media \in [Files -> MediaRows \cup {NoMedia}]
      /\ drops \subseteq Files \X FileKeys /\ runs \in [Files -> FileKeys]
  BY DEF MediaTypeOK
<1>1. CASE <<n, media'[n].key>> \in drops
  <2>1. Known(n)
    BY <1>1 DEF KindsFit
  <2>2. ~SaveRow(n)
    <3>1. ASSUME SaveRow(n) PROVE FALSE
      <4>1. media'[n].key = runs[n] /\ runs[n] \in FileKeys
        BY <1>0, <2>1, <3>1, RowSaved
      <4>2. runs[n] \in UsedKeys(n)
        BY <1>1, <4>1 DEF UsedKeys
      <4>3. IsKind(n, "upload") /\ task[n].at = "copied"
        BY <3>1, ActsOnKnown DEF SaveRow, MediaAt
      <4>4. runs[n] < runs[n]
        BY <4>2, <4>3 DEF KeysAhead
      <4>. QED
        BY <4>1, <4>4, MediaNats DEF FileKeys
    <3>. QED
      BY <3>1
  <2>3. media'[n].key = media[n].key /\ (media'[n].live => media[n].live)
    BY <2>1, <2>2, RowsChange
  <2>. QED
    BY <1>1, <2>1, <2>3 DEF DroppedAreGone, FileOf
<1>2. ASSUME NEW t \in MediaThreads, CommitDestroy(t), mediaCall[t].op = "destroy",
             <<n, media'[n].key>> = <<mediaCall[t].m, mediaCall[t].key>>
      PROVE  ~media'[n].live
  <2>1. mediaCall[t].m = n /\ Known(n) /\ media' = [media EXCEPT ![mediaCall[t].m].live = FALSE]
    BY <1>2 DEF CommitDestroy, KindsFit
  <2>2. media' = [media EXCEPT ![n].live = FALSE]
    BY <2>1
  <2>. QED
    BY <2>1, <2>2, MarkSet
<1>. QED
  BY <1>1, <1>2, ObjectsChange

\* A media that is counted on has its file.
LEMMA FilesNext == MediaInv /\ [MediaNext]_mediaVars => FilesStay'
<1>. SUFFICES ASSUME MediaTypeOK, KindsFit, KeysAhead, DroppedAreGone, FilesStay, [MediaNext]_mediaVars,
                     NEW n \in Files, media'[n] # NoMedia, media'[n].live, CountedOn(n)', n \notin cleared'
              PROVE  <<n, media'[n].key>> \in store'
  BY DEF FilesStay, FileOf, Known, MediaInv
<1>0. /\ mediaCall \in [MediaThreads -> MediaCalls] /\ media \in [Files -> MediaRows \cup {NoMedia}]
      /\ drops \subseteq Files \X FileKeys /\ runs \in [Files -> FileKeys] /\ task \in [Files -> TaskStates]
  BY DEF MediaTypeOK
<1>1. ASSUME NEW t \in MediaThreads, mediaCall'[t].op = "confirm", mediaCall'[t].m = n
      PROVE  \/ mediaCall[t].op = "confirm" /\ mediaCall[t].m = n /\ Known(n)
             \/ BeginConfirm(t, n)
  <2>1. CASE mediaCall'[t] = mediaCall[t]
    BY <1>1, <2>1 DEF KindsFit
  <2>2. ASSUME NEW m \in Files, mediaCall'[t] = [op |-> "destroy", m |-> m, key |-> media[m].key] PROVE FALSE
    BY <1>1, <2>2
  <2>3. ASSUME NEW m \in Files, BeginConfirm(t, m), mediaCall'[t] = [op |-> "confirm", m |-> m]
        PROVE  BeginConfirm(t, n)
    BY <1>1, <2>3
  <2>. QED
    BY <1>1, <2>1, <2>2, <2>3, CallsChange
<1>2. Known(n)
  <2>1. ASSUME ~Known(n) PROVE FALSE
    <3>1. media'[n].status = "pending"
      BY <2>1, RowsChange
    <3>2. task[n].at = "none"
      BY <2>1 DEF KindsFit, MediaAt
    <3>3. task'[n].at \notin {"stored", "dropped"}
      BY <2>1, <3>2, TasksChange DEF StoreFile, PutImage, DropBlob, IsKind
    <3>4. ASSUME NEW t \in MediaThreads, mediaCall'[t].op = "confirm", mediaCall'[t].m = n PROVE FALSE
      BY <1>1, <2>1, <3>4 DEF BeginConfirm, MayConfirm
    <3>5. n \notin Worn'
      BY <2>1, ActsOnKnown, WornGrows DEF KindsFit, IsKind
    <3>. QED
      BY <3>1, <3>3, <3>4, <3>5 DEF CountedOn
  <2>. QED
    BY <2>1
<1>3. CASE SaveRow(n)
  <2>1. media'[n].key = runs[n] /\ store' = store
    BY <1>2, <1>3, RowSaved DEF SaveRow
  <2>2. IsKind(n, "upload") /\ task[n].at = "copied"
    BY <1>3, ActsOnKnown DEF SaveRow, MediaAt
  <2>. QED
    BY <2>1, <2>2 DEF KeysAhead
<1>4. CASE ~SaveRow(n)
  <2>1. /\ media'[n].key = media[n].key /\ media'[n].kind = media[n].kind /\ media[n].live
        /\ media'[n].status = "ready" =>
             \/ media[n].status = "ready" \/ Swap(n)
             \/ \E t \in MediaThreads : mediaCall[t].op = "confirm" /\ mediaCall[t].m = n
    BY <1>2, <1>4, RowsChange
  <2>2. n \notin cleared
    <3>1. ASSUME n \in cleared PROVE FALSE
      <4>1. ClearRow(n)
        BY <3>1, ObjectsChange
      <4>2. media' = [media EXCEPT ![n].live = FALSE]
        BY <4>1 DEF ClearRow
      <4>. QED
        BY <1>2, <4>2, MarkSet
    <3>. QED
      BY <3>1
  <2>3. FileOf(n) = <<n, media[n].key>>
    BY DEF FileOf
  <2>4. CASE FileOf(n) \in store
    <3>1. FileOf(n) \notin drops
      BY <1>2, <2>1 DEF DroppedAreGone
    <3>2. ASSUME NEW m \in Files, ClearFile(m), FileOf(n) = FileOf(m) PROVE FALSE
      <4>1. m = n
        BY <3>2 DEF FileOf
      <4>. QED
        BY <3>2, <4>1 DEF ClearFile
    <3>3. FileOf(n) \in store'
      BY <2>4, <3>1, <3>2, ObjectsChange
    <3>. QED
      BY <2>1, <2>3, <3>3
  <2>5. CASE PutImage(n)
    <3>1. media[n].key = 1 /\ <<n, 1>> \in store'
      BY <2>5 DEF PutImage, KindsFit, IsKind
    <3>. QED
      BY <2>1, <3>1
  <2>6. FileOf(n) \in store \/ PutImage(n)
    <3>1. CountedOn(n) => FileOf(n) \in store
      BY <1>2, <2>1, <2>2 DEF FilesStay
    <3>2. CASE media'[n].status = "ready"
      <4>1. Swap(n) => media[n].kind = "image" /\ task[n].at = "dropped"
        BY ActsOnKnown DEF Swap, MediaAt, IsKind
      <4>. QED
        BY <2>1, <3>1, <3>2, <4>1 DEF CountedOn
    <3>5. CASE n \in Worn'
      <4>1. Swap(n) => media[n].kind = "image" /\ task[n].at = "dropped"
        BY ActsOnKnown DEF Swap, MediaAt, IsKind
      <4>. QED
        BY <3>1, <3>5, <4>1, WornGrows DEF CountedOn
    <3>3. CASE media'[n].kind = "image" /\ task'[n].at \in {"stored", "dropped"}
      <4>1. ~StoreFile(n)
        BY <2>1, <3>3 DEF StoreFile, IsKind
      <4>2. DropBlob(n) => task[n].at = "stored"
        BY DEF DropBlob, MediaAt
      <4>. QED
        BY <2>1, <3>1, <3>3, <4>1, <4>2, TasksChange DEF CountedOn
    <3>4. ASSUME NEW t \in MediaThreads, mediaCall'[t].op = "confirm", mediaCall'[t].m = n
          PROVE  FileOf(n) \in store
      <4>1. BeginConfirm(t, n) => FileOf(n) \in store
        BY DEF BeginConfirm, MayConfirm
      <4>. QED
        BY <1>1, <3>1, <3>4, <4>1 DEF CountedOn
    <3>. QED
      BY <3>2, <3>3, <3>4, <3>5 DEF CountedOn
  <2>. QED
    BY <2>4, <2>5, <2>6
<1>. QED
  BY <1>3, <1>4

\* Every step keeps the invariant.
LEMMA MediaStepKeeps == MediaInv /\ [MediaNext]_mediaVars => MediaInv'
BY MediaTypeNext, KindsNext, WornOnceNext, AvatarNext, KeysNext, DroppedNext, FilesNext DEF MediaInv

\* A media shown as ready or as the avatar has its file unless its owner
\* deleted it, and the avatar is not being cleaned up unless a profile edit
\* put an earlier one back, however often tasks are lost and run again and
\* calls overlap (process_media_upload, process_profile_image, MediaService).
THEOREM MediasHold == MediaSpec => []MediaInv
BY MediaStart, MediaStepKeeps, PTL DEF MediaSpec
=============================================================================
