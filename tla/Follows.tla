------------------------------ MODULE Follows ------------------------------
(***************************************************************************)
(* Who follows whom, and the two counters of every UserProfile             *)
(* (src/social/services/follow.py, src/social/signals.py), next to the     *)
(* profile edit that writes the same rows (accounts/services/profile.py).  *)
(*                                                                         *)
(* A call looks for the Follow row and writes later, in one transaction,   *)
(* the row and, by the signals' F() updates, both counters.  The pair is   *)
(* unique, and an unfollow whose DELETE meets no row raises: either way    *)
(* everything is rolled back.  A profile edit saves every column of the    *)
(* profile as it was read, the counters included.                          *)
(* MaxEdges bounds the Follow rows ever made, MaxFollowCalls the calls.    *)
(***************************************************************************)
EXTENDS Integers, FiniteSets

CONSTANTS
  Members,         \* users with a profile
  MaxEdges,        \* bound: Follow rows, numbered as they are created
  FollowThreads,   \* threads serving calls
  MaxFollowCalls   \* bound: calls served

ASSUME MembersFinite == IsFiniteSet(Members)
ASSUME FollowNats    == MaxEdges \in Nat /\ MaxFollowCalls \in Nat

VARIABLES
  edge,         \* edge[u][v]: primary key of u's Follow row for v, 0 when none
  edgeKeys,     \* keys given so far
  followers,    \* followers[v]: UserProfile.followers_count
  following,    \* following[u]: UserProfile.following_count
  followCall,   \* followCall[t]: the call thread t serves
  followsLeft,  \* calls still to come
  overwritten   \* history: an edit wrote counters that had changed since

graph       == <<edge, edgeKeys, followers, following>>
followVars  == <<graph, followCall, followsLeft, overwritten>>

FollowIdle        == [op |-> "idle"]
FollowCalls == {FollowIdle}
               \cup [op : {"follow"}, u : Members, v : Members]
               \cup [op : {"unfollow"}, u : Members, v : Members, key : 1 .. MaxEdges]
               \cup [op : {"edit"}, u : Members, followers : Nat, following : Nat]

FollowersOf(v) == {u \in Members : edge[u][v] # 0}
FollowedBy(u)  == {v \in Members : edge[u][v] # 0}

FollowInit ==
  /\ edge = [u \in Members |-> [v \in Members |-> 0]] /\ edgeKeys = 0
  /\ followers = [u \in Members |-> 0] /\ following = [u \in Members |-> 0]
  /\ followCall = [t \in FollowThreads |-> FollowIdle]
  /\ followsLeft = MaxFollowCalls /\ overwritten = FALSE

TakeFollow(t, c) ==
  /\ followCall[t] = FollowIdle /\ followsLeft > 0
  /\ followsLeft' = followsLeft - 1
  /\ followCall' = [followCall EXCEPT ![t] = c]
  /\ UNCHANGED <<graph, overwritten>>
Return(t) == followCall' = [followCall EXCEPT ![t] = FollowIdle] /\ UNCHANGED followsLeft
Refused(t) == Return(t) /\ UNCHANGED <<graph, overwritten>>

\* A Follow row is always accepted: nothing makes a pending one.
BeginFollow(t, u, v) ==
  u # v /\ edge[u][v] = 0 /\ TakeFollow(t, [op |-> "follow", u |-> u, v |-> v])
CommitFollow(t) ==
  LET c == followCall[t]
  IN  /\ c.op = "follow"
      /\ \/ edge[c.u][c.v] # 0 /\ Refused(t)
         \/ /\ edge[c.u][c.v] = 0 /\ edgeKeys < MaxEdges
            /\ edgeKeys' = edgeKeys + 1
            /\ edge' = [edge EXCEPT ![c.u][c.v] = edgeKeys + 1]
            /\ following' = [following EXCEPT ![c.u] = @ + 1]
            /\ followers' = [followers EXCEPT ![c.v] = @ + 1]
            /\ Return(t) /\ UNCHANGED overwritten

\* The DELETE names the row that was read.  Meeting none, or a counter at
\* zero, raises.  A bug the property would find: the answer is not looked at.
FoundAnyway(c) == following[c.u] > 0 /\ followers[c.v] > 0
Found(c) == edge[c.u][c.v] = c.key /\ following[c.u] > 0 /\ followers[c.v] > 0
BeginUnfollow(t, u, v) ==
  edge[u][v] # 0 /\ TakeFollow(t, [op |-> "unfollow", u |-> u, v |-> v, key |-> edge[u][v]])
CommitUnfollow(t) ==
  LET c == followCall[t]
  IN  /\ c.op = "unfollow"
      /\ \/ ~Found(c) /\ Refused(t)
         \/ /\ Found(c)
            /\ edge' = [edge EXCEPT ![c.u][c.v] = 0]
            /\ following' = [following EXCEPT ![c.u] = @ - 1]
            /\ followers' = [followers EXCEPT ![c.v] = @ - 1]
            /\ Return(t) /\ UNCHANGED <<edgeKeys, overwritten>>

\* update_partial: the profile is read, its fields set, and save() writes
\* every column.
BeginEditProfile(t, u) ==
  TakeFollow(t, [op |-> "edit", u |-> u, followers |-> followers[u], following |-> following[u]])
CommitEditProfile(t) ==
  LET c == followCall[t]
  IN  /\ c.op = "edit"
      /\ followers' = [followers EXCEPT ![c.u] = c.followers]
      /\ following' = [following EXCEPT ![c.u] = c.following]
      /\ overwritten' = (overwritten \/ c.followers # followers[c.u]
                                     \/ c.following # following[c.u])
      /\ Return(t) /\ UNCHANGED <<edge, edgeKeys>>

FollowStep(t) ==
  \/ \E u, v \in Members : BeginFollow(t, u, v) \/ BeginUnfollow(t, u, v)
  \/ \E u \in Members : BeginEditProfile(t, u)
  \/ CommitFollow(t) \/ CommitUnfollow(t) \/ CommitEditProfile(t)

FollowNext == \E t \in FollowThreads : FollowStep(t)

FollowSpec == FollowInit /\ [][FollowNext]_followVars

-----------------------------------------------------------------------------
(* Properties *)

\* Every row and call keeps its type.
FollowTypeOK ==
  /\ edge \in [Members -> [Members -> 0 .. MaxEdges]] /\ edgeKeys \in 0 .. MaxEdges
  /\ followers \in [Members -> Nat] /\ following \in [Members -> Nat]
  /\ followCall \in [FollowThreads -> FollowCalls]
  /\ followsLeft \in 0 .. MaxFollowCalls
  /\ overwritten \in BOOLEAN

\* Both counters of every profile are the numbers of its rows, whatever
\* follows and unfollows of one pair overlap: only an edit that saves
\* counters read before a follow can make them wrong.
FollowersExact ==
  ~overwritten => \A u \in Members :
    /\ followers[u] = Cardinality(FollowersOf(u))
    /\ following[u] = Cardinality(FollowedBy(u))

\* Follows as a whole: rows and both counters of every profile agree, but for
\* profile edits from outdated copies.
FollowInv == FollowTypeOK /\ FollowersExact
=============================================================================
