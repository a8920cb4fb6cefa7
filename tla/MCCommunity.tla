---------------------------- MODULE MCCommunity ----------------------------
(***************************************************************************)
(* Small instances of what users do with each other for TLC: chats and the *)
(* disputes that open rooms in them, posts, follows, displays, uploads,    *)
(* places, the live counts and the views of polls, and the sellers' desk.  *)
(* Chats and disputes are one part, for they share rows; the initial       *)
(* states choose the part that moves, and the others stay as they began.   *)
(***************************************************************************)
EXTENDS Disputes, EventDesk, Posts, Follows, Displays, Medias,
        Geocodes, PollFeed, PollViews, TLC

\* t1 and t2 name the threads of every part, so that one symmetry serves all.
CONSTANTS ua, ub, ud, k1, k2, t1, t2, u1, u2, m3

\* A buyer and a moderator hold sockets; the seller is offline.
Sockets == (k1 :> ua) @@ (k2 :> ud)

\* The two places lie in one cell.
Cells == (u1 :> "here") @@ (u2 :> "here")

VARIABLE part   \* the part that moves

talkVars      == <<disputeVars, eventDeskVars>>
pollVars      == <<pollFeedVars, viewVars>>
feedVars      == <<postVars, followVars, displayVars, mediaVars, geoVars>>
communityVars == <<part, talkVars, feedVars, pollVars>>

CommunityInit ==
  /\ part \in {"talk", "desk", "posts", "follows", "displays", "medias", "places",
             "polls", "views"}
  /\ DisputeInit /\ DeskInit
  /\ PostInit /\ FollowInit /\ DisplayInit /\ MediaInit /\ GeoInit
  /\ FeedInit /\ ViewsInit

Moves(p) == part = p /\ UNCHANGED part

NextTalk ==
  \/ Moves("talk") /\ DisputeNext /\ UNCHANGED eventDeskVars
  \/ Moves("desk") /\ DeskNext    /\ UNCHANGED disputeVars
NextFeed ==
  \/ Moves("posts")    /\ PostNext    /\ UNCHANGED <<followVars, displayVars, mediaVars, geoVars>>
  \/ Moves("follows")  /\ FollowNext  /\ UNCHANGED <<postVars, displayVars, mediaVars, geoVars>>
  \/ Moves("displays") /\ DisplayNext /\ UNCHANGED <<postVars, followVars, mediaVars, geoVars>>
  \/ Moves("medias")   /\ MediaNext   /\ UNCHANGED <<postVars, followVars, displayVars, geoVars>>
  \/ Moves("places")   /\ GeoNext     /\ UNCHANGED <<postVars, followVars, displayVars, mediaVars>>

NextPoll ==
  \/ Moves("polls") /\ FeedNext  /\ UNCHANGED viewVars
  \/ Moves("views") /\ ViewsNext /\ UNCHANGED pollFeedVars

CommunityNext ==
  \/ NextTalk /\ UNCHANGED <<feedVars, pollVars>>
  \/ NextFeed /\ UNCHANGED <<talkVars, pollVars>>
  \/ NextPoll /\ UNCHANGED <<talkVars, feedVars>>

CommunitySpec == CommunityInit /\ [][CommunityNext]_communityVars

ServerSymmetry == Permutations({t1, t2}) \cup Permutations({u1, u2})
=============================================================================
