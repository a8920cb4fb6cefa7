------------------------------- MODULE Posts -------------------------------
(***************************************************************************)
(* A post with its likes, comments, reshares and denormalised counters     *)
(* (src/social: services, signals, views).                                 *)
(*                                                                         *)
(* A call reads rows without a lock and writes later in one transaction:   *)
(* its own rows, and the counters by the F() updates of the post_save and  *)
(* post_delete signals.  Likes and reshares are really deleted; a post and *)
(* a comment are only marked, which sends no post_delete signal.  Two      *)
(* things bend the counters: an edit saves every column of the post as it  *)
(* was read, the mark of deletion included, and the deletion of a row that *)
(* is already gone still sends its signal.  A counter never goes below     *)
(* zero: the update fails, and with it the transaction.                    *)
(* MaxPostCalls bounds the calls, PostComments the comments, MaxLikes the  *)
(* Like rows.  Nobody deletes an account here, which would take its rows   *)
(* along.                                                                  *)
(***************************************************************************)
EXTENDS Integers, FiniteSets

CONSTANTS
  Readers,       \* users
  PostComments,  \* comments that may come to exist
  MaxLikes,      \* bound: Like rows, numbered as they are created
  PostThreads,   \* threads serving calls
  MaxPostCalls   \* bound: calls served

ASSUME ReadersFinite  == IsFiniteSet(Readers)
ASSUME CommentsFinite == IsFiniteSet(PostComments)
ASSUME PostBounds     == MaxLikes \in Nat /\ MaxPostCalls \in Nat

VARIABLES
  live,      \* the Post row is not marked deleted
  count,     \* its counters
  like,      \* like[u]: the primary key of u's Like row, 0 when there is none
  likeKeys,  \* Like keys given so far
  comment,   \* comment[c]: the Comment row: parent, mark, replies_count
  reshare,   \* users with a Reshare row
  postCall,  \* postCall[t]: the call thread t serves
  toServe,   \* calls still to come
  drift      \* history: a counter was written from an old copy, or by the
             \* deletion of a row that was gone

postRows == <<live, count, like, likeKeys, comment, reshare>>
postVars == <<postRows, postCall, toServe, drift>>

Counts      == [likes : Nat, comments : Nat, reshares : Nat]
NoCounts    == [likes |-> 0, comments |-> 0, reshares |-> 0]
NoComment   == [state |-> "unborn"]
\* parent: {} for a comment at the top.
CommentRows == [parent : SUBSET PostComments, live : BOOLEAN, replies : Nat]
Resting     == [op |-> "idle"]
PostCalls   == {Resting, [op |-> "delete"]}
               \cup [op : {"like", "reshare", "unreshare"}, u : Readers]
               \cup [op : {"unlike"}, u : Readers, key : 1 .. MaxLikes]
               \cup [op : {"comment"}, parent : SUBSET PostComments]
               \cup [op : {"uncomment"}, c : PostComments]
               \cup [op : {"edit"}, copy : [live : {TRUE}, count : Counts]]

Liked      == {u \in Readers : like[u] # 0}
Commented  == {c \in PostComments : comment[c] # NoComment}
RepliesTo(c)  == {d \in Commented : c \in comment[d].parent}
Standing(c)   == c \in Commented /\ comment[c].live
\* A bug the properties would find: a reply taken for a parent.
MayReplyToAny(c) == Standing(c)
MayReplyTo(c) == Standing(c) /\ comment[c].parent = {}

PostInit ==
  /\ live = TRUE /\ count = NoCounts
  /\ like = [u \in Readers |-> 0] /\ likeKeys = 0
  /\ comment = [c \in PostComments |-> NoComment]
  /\ reshare = {}
  /\ postCall = [t \in PostThreads |-> Resting]
  /\ toServe = MaxPostCalls /\ drift = FALSE

\* A view or a service finds the row it wants and goes on with what it read.
Begin(t, c) ==
  /\ postCall[t] = Resting /\ toServe > 0
  /\ toServe' = toServe - 1
  /\ postCall' = [postCall EXCEPT ![t] = c]
  /\ UNCHANGED <<postRows, drift>>
Rest(t) == postCall' = [postCall EXCEPT ![t] = Resting] /\ UNCHANGED toServe
\* The row had gone, the row was there already, or a counter stood at zero.
RollBack(t) == Rest(t) /\ UNCHANGED <<postRows, drift>>

-----------------------------------------------------------------------------
(* Likes *)

BeginLike(t, u) ==
  /\ live
  /\ IF like[u] = 0 THEN Begin(t, [op |-> "like", u |-> u])
     ELSE Begin(t, [op |-> "unlike", u |-> u, key |-> like[u]])

\* get_or_create finds, after all, a row that another call inserted, and the
\* toggle goes on to delete it.
FoundLike(t) ==
  LET u == postCall[t].u
  IN  /\ postCall[t].op = "like" /\ like[u] # 0
      /\ postCall' = [postCall EXCEPT ![t] = [op |-> "unlike", u |-> u, key |-> like[u]]]
      /\ UNCHANGED <<postRows, toServe, drift>>
CommitLike(t) ==
  LET u == postCall[t].u
  IN  /\ postCall[t].op = "like" /\ like[u] = 0
      /\ likeKeys < MaxLikes
      /\ likeKeys' = likeKeys + 1
      /\ like' = [like EXCEPT ![u] = likeKeys + 1]
      /\ count' = [count EXCEPT !.likes = @ + 1]
      /\ Rest(t)
      /\ UNCHANGED <<live, comment, reshare, drift>>
CommitUnlike(t) ==
  LET c == postCall[t]
  IN  /\ c.op = "unlike"
      /\ IF count.likes = 0 THEN RollBack(t)
         ELSE /\ like' = [like EXCEPT ![c.u] = IF @ = c.key THEN 0 ELSE @]
              /\ count' = [count EXCEPT !.likes = @ - 1]
              /\ drift' = (drift \/ like[c.u] # c.key)
              /\ Rest(t)
              /\ UNCHANGED <<live, likeKeys, comment, reshare>>

-----------------------------------------------------------------------------
(* Comments *)

BeginComment(t, parent) ==
  /\ live
  /\ \A c \in parent : MayReplyTo(c)
  /\ Cardinality(parent) <= 1
  /\ Begin(t, [op |-> "comment", parent |-> parent])
CommitComment(t) ==
  LET parent == postCall[t].parent
  IN  /\ postCall[t].op = "comment"
      /\ \E c \in PostComments :
           /\ comment[c] = NoComment
           /\ comment' = [d \in PostComments |->
                CASE d = c         -> [parent |-> parent, live |-> TRUE, replies |-> 0]
                  [] d \in parent  -> [comment[d] EXCEPT !.replies = @ + 1]
                  [] OTHER         -> comment[d]]
      /\ count' = [count EXCEPT !.comments = @ + 1]
      /\ Rest(t)
      /\ UNCHANGED <<live, like, likeKeys, reshare, drift>>

\* Only a mark: the counters of the post and of the parent stay.
BeginUncomment(t, c) == Standing(c) /\ Begin(t, [op |-> "uncomment", c |-> c])
CommitUncomment(t) ==
  /\ postCall[t].op = "uncomment"
  /\ comment' = [comment EXCEPT ![postCall[t].c].live = FALSE]
  /\ Rest(t)
  /\ UNCHANGED <<live, count, like, likeKeys, reshare, drift>>

-----------------------------------------------------------------------------
(* Reshares *)

BeginReshare(t, u)   == live /\ u \notin reshare /\ Begin(t, [op |-> "reshare", u |-> u])
\* A new post that names this one, which nobody looks at.
BeginRepost(t, u)    == Begin(t, [op |-> "reshare", u |-> u])
BeginUnreshare(t, u) == live /\ u \in reshare /\ Begin(t, [op |-> "unreshare", u |-> u])
\* The pair is unique.  A refused insert rolls everything back, in
\* PostService.create too, which has caught the error and reports success.
CommitReshare(t) ==
  LET u == postCall[t].u
  IN  /\ postCall[t].op = "reshare"
      /\ IF u \in reshare THEN RollBack(t)
         ELSE /\ reshare' = reshare \cup {u}
              /\ count' = [count EXCEPT !.reshares = @ + 1]
              /\ Rest(t)
              /\ UNCHANGED <<live, like, likeKeys, comment, drift>>
CommitUnreshare(t) ==
  LET u == postCall[t].u
  IN  /\ postCall[t].op = "unreshare"
      /\ IF count.reshares = 0 THEN RollBack(t)
         ELSE /\ reshare' = reshare \ {u}
              /\ count' = [count EXCEPT !.reshares = @ - 1]
              /\ drift' = (drift \/ u \notin reshare)
              /\ Rest(t)
              /\ UNCHANGED <<live, like, likeKeys, comment>>

-----------------------------------------------------------------------------
(* The post itself *)

Copy == [live |-> live, count |-> count]
BeginEditPost(t) == live /\ Begin(t, [op |-> "edit", copy |-> Copy])
\* save() without update_fields: the counters and the mark as they were read.
CommitEditPost(t) ==
  /\ postCall[t].op = "edit"
  /\ live' = postCall[t].copy.live /\ count' = postCall[t].copy.count
  /\ drift' = (drift \/ postCall[t].copy.count # count)
  /\ Rest(t)
  /\ UNCHANGED <<like, likeKeys, comment, reshare>>

BeginDeletePost(t) == live /\ Begin(t, [op |-> "delete"])
CommitDeletePost(t) ==
  /\ postCall[t].op = "delete"
  /\ live' = FALSE
  /\ Rest(t)
  /\ UNCHANGED <<count, like, likeKeys, comment, reshare, drift>>

-----------------------------------------------------------------------------
PostStep(t) ==
  \/ \E u \in Readers : \/ BeginLike(t, u)
                       \/ BeginReshare(t, u) \/ BeginRepost(t, u) \/ BeginUnreshare(t, u)
  \/ \E parent \in SUBSET PostComments : BeginComment(t, parent)
  \/ \E c \in PostComments : BeginUncomment(t, c)
  \/ BeginEditPost(t) \/ BeginDeletePost(t)
  \/ FoundLike(t) \/ CommitLike(t) \/ CommitUnlike(t)
  \/ CommitComment(t) \/ CommitUncomment(t)
  \/ CommitReshare(t) \/ CommitUnreshare(t)
  \/ CommitEditPost(t) \/ CommitDeletePost(t)

PostNext == \E t \in PostThreads : PostStep(t)

PostSpec == PostInit /\ [][PostNext]_postVars

-----------------------------------------------------------------------------
(* Properties *)

\* Every row and call keeps its type.
PostTypeOK ==
  /\ live \in BOOLEAN /\ drift \in BOOLEAN
  /\ count \in Counts
  /\ like \in [Readers -> 0 .. MaxLikes] /\ likeKeys \in 0 .. MaxLikes
  /\ comment \in [PostComments -> CommentRows \cup {NoComment}]
  /\ reshare \subseteq Readers
  /\ postCall \in [PostThreads -> PostCalls]
  /\ toServe \in 0 .. MaxPostCalls

\* likes_count and reshares_count are the numbers of rows, comments_count and
\* replies_count the numbers of comments ever made.  They can be wrong only
\* after one of two races: an edit from an outdated copy, or a second deletion
\* of one Like or Reshare row.
CountersExact ==
  /\ ~drift => /\ count.likes = Cardinality(Liked)
               /\ count.comments = Cardinality(Commented)
               /\ count.reshares = Cardinality(reshare)
  /\ \A c \in Commented : comment[c].replies = Cardinality(RepliesTo(c))

\* Threads are one level deep, whatever is deleted between the check of the
\* parent and the insert of the reply.
RepliesRooted ==
  \A c \in Commented : \A p \in comment[c].parent :
    p \in Commented /\ comment[p].parent = {}

\* Rows of one user keep distinct keys, so that a late unlike never removes a
\* like it did not read.
LikesDistinct ==
  \A u, v \in Liked : u # v => like[u] # like[v]

\* What a call read of comments stays true until it writes, and a key that was
\* not given yet is nobody's.
ReadsStand ==
  /\ \A u \in Readers : like[u] <= likeKeys
  /\ \A t \in PostThreads :
       /\ postCall[t].op = "comment" =>
            \A c \in postCall[t].parent : c \in Commented /\ comment[c].parent = {}
       /\ postCall[t].op = "uncomment" => postCall[t].c \in Commented

\* A post as a whole: counters equal rows but for the two races that
\* CountersExact names, and threads stay one level deep.
PostInv == PostTypeOK /\ CountersExact /\ RepliesRooted /\ LikesDistinct /\ ReadsStand

=============================================================================
