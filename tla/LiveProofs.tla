----------------------------- MODULE LiveProofs -----------------------------
(***************************************************************************)
(* Proofs about polls as they are watched, for every number of voters,     *)
(* sockets and threads: what a socket is told, and the views.              *)
(***************************************************************************)
EXTENDS PollFeed, PollViews, FiniteSetTheorems, SequenceTheorems, TLAPS

-----------------------------------------------------------------------------
(***************************************************************************)
(* The live feed: who hears of a vote, who of the end, and how often a     *)
(* user may vote.                                                          *)
(*                                                                         *)
(* FeedInv is inductive.  A consumer changes only its own entries; what    *)
(* its steps may do to them is SocketShape, from which the parts follow.   *)
(***************************************************************************)
ScreenSteps == {"off", "joined", "ready", "missed", "admitted", "voted", "removed", "bare"}
CallSteps   == {"idle", "cast", "bare", "close", "closed", "edit"}
ClosingNews == {"unknown", "queued", "told"}

\* The types, socket by socket.
FeedSpread ==
  /\ optioned \in BOOLEAN /\ erased \in BOOLEAN /\ ended \in BOOLEAN /\ bared \in BOOLEAN
  /\ sweep \in BOOLEAN /\ unheard \in BOOLEAN /\ undone \in BOOLEAN
  /\ feedCall \in [FeedThreads -> CallSteps]
  /\ feedLeft \in Nat /\ hits \in Nat /\ admitted \in Nat /\ unheld \in Nat
  /\ screen \in [Screens -> ScreenSteps] /\ closing \in [Screens -> ClosingNews]
  /\ listed \subseteq Screens /\ late \subseteq Screens
  /\ \A s \in Screens : screen[s] = "off" => closing[s] = "unknown" /\ s \notin listed /\ s \notin late

LEMMA FeedSpreadMeans == FeedTypes <=> FeedSpread
<1>1. FeedTypes => FeedSpread
  BY DEF FeedTypes, FeedSpread, Up, ScreenSteps, CallSteps, ClosingNews
<1>2. FeedSpread => FeedTypes
  BY DEF FeedTypes, FeedSpread, Up, ScreenSteps, CallSteps, ClosingNews
<1>. QED
  BY <1>1, <1>2

\* The end reaches every socket that can be told: the claim, socket by socket.
Reached == \A s \in Screens : screen[s] # "off" /\ s \notin late => closing[s] # "unknown"
EndSpread ==
  /\ ended /\ ~unheard /\ (\A t \in FeedThreads : feedCall[t] # "closed") => Reached
  /\ sweep /\ ~unheard => Reached

LEMMA EndSpreadMeans == EndReachesAll <=> EndSpread
BY DEF EndReachesAll, EndSpread, Reached, Up, CallAt

\* What the invariant says of the rest, socket by socket and call by call.
BareSpread ==
  ~bared =>
    /\ optioned /\ ~erased
    /\ \A s \in Screens : screen[s] \in {"off", "joined"} /\ closing[s] # "told"
    /\ listed = {} /\ hits = 0 /\ admitted = 0
    /\ \A t \in FeedThreads : feedCall[t] # "bare"
TrueSpread ==
  /\ \A s \in Screens : closing[s] # "unknown" => ended \/ sweep \/ undone
  /\ \A t \in FeedThreads : feedCall[t] = "closed" => ended \/ sweep \/ undone
FeedIInv == FeedSpread /\ BareSpread /\ TrueSpread /\ EndSpread /\ LimitHolds

LEMMA FeedSpreads == FeedInv <=> FeedIInv
<1>1. (OnlyBaredPollsSpeak <=> BareSpread) /\ (ToldTheEnd <=> TrueSpread)
  BY DEF OnlyBaredPollsSpeak, BareSpread, ToldTheEnd, TrueSpread, CallAt
<1>. QED
  BY <1>1, FeedSpreadMeans, EndSpreadMeans DEF FeedInv, FeedIInv

\* The beginning fits.
LEMMA FeedStart == FeedInit => FeedIInv
<1>. SUFFICES ASSUME FeedInit PROVE FeedIInv
  OBVIOUS
<1>1. FeedSpread
  BY FeedNats DEF FeedInit, FeedSpread, ScreenSteps, CallSteps, ClosingNews
<1>2. BareSpread /\ TrueSpread /\ EndSpread
  BY DEF FeedInit, BareSpread, TrueSpread, EndSpread, Reached
<1>3. LimitHolds
  BY FeedNats DEF FeedInit, LimitHolds
<1>. QED
  BY <1>1, <1>2, <1>3 DEF FeedIInv

\* What a consumer's step does to its own entries, and to those of others.
SocketMoves(s) ==
  /\ screen' \in [Screens -> ScreenSteps] /\ closing' \in [Screens -> ClosingNews]
  /\ \A o \in Screens \ {s} : screen'[o] = screen[o] /\ closing'[o] = closing[o]
  /\ listed' \subseteq Screens /\ late' \subseteq Screens
  /\ \A o \in Screens \ {s} : o \in late' <=> o \in late
  /\ feedLeft' \in Nat
  /\ screen'[s] = "off" => closing'[s] = "unknown" /\ s \notin listed' /\ s \notin late'
  /\ \A o \in listed' : o \in listed \/ screen[o] # "off"
  /\ closing[s] = "unknown" => closing'[s] = "unknown"
  /\ unheard' \in {unheard, TRUE}
  /\ screen'[s] # "off" /\ closing'[s] = "unknown" => closing[s] = "unknown" \/ unheard'
  /\ screen'[s] # "off" /\ s \notin late' => s \notin late /\ (screen[s] # "off" \/ (~ended /\ ~sweep))
  /\ screen[s] \in {"off", "joined"} =>
       /\ screen'[s] \in {"off", "joined"} \/ ~optioned \/ erased
       /\ closing'[s] # "told" \/ closing[s] = "told"
       /\ hits' = hits /\ admitted' = admitted /\ listed' \subseteq listed

LEMMA SocketShape ==
  ASSUME FeedSpread, NEW s \in Screens, ScreenNext(s)
  PROVE  SocketMoves(s)
<1>. USE DEF FeedSpread, ScreenSteps, ClosingNews, SocketMoves, ScreenTo, ConsumerStep, AfterLimit, TakesFrame,
         Spend, pollRow, endNews, limitVars
<1>1. ASSUME Joins(s) PROVE SocketMoves(s)
  BY <1>1 DEF Joins
<1>2. ASSUME Greets(s) PROVE SocketMoves(s)
  BY <1>2 DEF Greets, SeesNone
<1>3. ASSUME Leaves(s) PROVE SocketMoves(s)
  BY <1>3 DEF Leaves
<1>4. ASSUME ShowsEnd(s) PROVE SocketMoves(s)
  BY <1>4 DEF ShowsEnd
<1>5. ASSUME DropsEnd(s) PROVE SocketMoves(s)
  BY <1>5 DEF DropsEnd
<1>6. ASSUME HitPasses(s) PROVE SocketMoves(s)
  BY <1>6 DEF HitPasses
<1>7. ASSUME HitRefused(s) PROVE SocketMoves(s)
  BY <1>7 DEF HitRefused
<1>8. ASSUME HitMisses(s) PROVE SocketMoves(s)
  BY <1>8 DEF HitMisses
<1>9. ASSUME SetFirstHit(s) PROVE SocketMoves(s)
  BY <1>9 DEF SetFirstHit
<1>10. ASSUME CommitsFrame(s) PROVE SocketMoves(s)
  BY <1>10 DEF CommitsFrame
<1>11. ASSUME RefusesFrame(s) PROVE SocketMoves(s)
  BY <1>11 DEF RefusesFrame
<1>12. ASSUME ReadsList(s) PROVE SocketMoves(s)
  BY <1>12 DEF ReadsList
<1>13. ASSUME AnswersFrame(s) PROVE SocketMoves(s)
  BY <1>13 DEF AnswersFrame, AnnounceVote, Listening
<1>. QED
  BY <1>1, <1>2, <1>3, <1>4, <1>5, <1>6, <1>7, <1>8, <1>9, <1>10, <1>11, <1>12, <1>13 DEF ScreenNext

\* No consumer touches the poll's row, the sweep or a request.
LEMMA SocketFrame ==
  ASSUME NEW s \in Screens, ScreenNext(s)
  PROVE  /\ optioned' = optioned /\ erased' = erased /\ ended' = ended /\ bared' = bared
         /\ sweep' = sweep /\ undone' = undone /\ feedCall' = feedCall
BY DEF ScreenNext, Joins, Greets, Leaves, ShowsEnd, DropsEnd, HitPasses, HitRefused, HitMisses, SetFirstHit,
   CommitsFrame, RefusesFrame, ReadsList, AnswersFrame, TakesFrame, AfterLimit, ConsumerStep, pollRow, endNews

\* Counting a hit keeps the limit, and so does losing one.
LEMMA LimitKept ==
  ASSUME hits \in Nat, admitted \in Nat, unheld \in Nat, LimitHolds,
         \/ hits' = hits /\ admitted' = admitted /\ unheld' = unheld
         \/ hits < VoteRateLimit /\ hits' = hits + 1 /\ admitted' = admitted + 1 /\ unheld' = unheld
         \/ hits' = hits + 1 /\ admitted' = admitted /\ unheld' = unheld
         \/ hits' = 1 /\ admitted' = admitted + 1 /\ unheld' = unheld + hits
         \/ hits' = hits /\ admitted' = admitted + 1 /\ unheld' = unheld + 1
         \/ hits' = 0 /\ admitted' = 0 /\ unheld' = 0
  PROVE  hits' \in Nat /\ admitted' \in Nat /\ unheld' \in Nat /\ LimitHolds'
BY FeedNats DEF LimitHolds

\* A consumer's step keeps the invariant.
LEMMA SocketsKeep ==
  ASSUME FeedIInv, NEW s \in Screens, ScreenNext(s)
  PROVE  FeedIInv'
<1>0. FeedSpread /\ BareSpread /\ TrueSpread /\ EndSpread /\ LimitHolds
  BY DEF FeedIInv
<1>1. SocketMoves(s)
  BY <1>0, SocketShape
<1>2. /\ optioned' = optioned /\ erased' = erased /\ ended' = ended /\ bared' = bared
      /\ sweep' = sweep /\ undone' = undone /\ feedCall' = feedCall
  BY SocketFrame
<1>3. \/ hits' = hits /\ admitted' = admitted /\ unheld' = unheld
      \/ hits < VoteRateLimit /\ hits' = hits + 1 /\ admitted' = admitted + 1 /\ unheld' = unheld
      \/ hits' = hits + 1 /\ admitted' = admitted /\ unheld' = unheld
      \/ hits' = 1 /\ admitted' = admitted + 1 /\ unheld' = unheld + hits
      \/ hits' = hits /\ admitted' = admitted + 1 /\ unheld' = unheld + 1
  BY DEF ScreenNext, Joins, Greets, Leaves, ShowsEnd, DropsEnd, HitPasses, HitRefused, HitMisses, SetFirstHit,
     CommitsFrame, RefusesFrame, ReadsList, AnswersFrame, AfterLimit, limitVars
<1>4. hits' \in Nat /\ admitted' \in Nat /\ unheld' \in Nat /\ LimitHolds'
  BY <1>0, <1>3, LimitKept DEF FeedSpread
<1>5. FeedSpread'
  BY <1>0, <1>1, <1>2, <1>4 DEF FeedSpread, SocketMoves
<1>6. BareSpread'
  BY <1>0, <1>1, <1>2 DEF FeedSpread, BareSpread, SocketMoves
<1>7. TrueSpread'
  BY <1>0, <1>1, <1>2 DEF TrueSpread, SocketMoves
<1>8. ASSUME Reached, ended \/ sweep, ~unheard' PROVE Reached'
  BY <1>0, <1>1, <1>8 DEF Reached, SocketMoves, FeedSpread
<1>9. Reached /\ (ended \/ sweep) /\ ~unheard' => Reached'
  BY <1>8
<1>10. ~unheard' => ~unheard
  BY <1>1 DEF SocketMoves
<1>11. sweep' /\ ~unheard' => Reached'
  BY <1>0, <1>2, <1>9, <1>10 DEF EndSpread
<1>12. ASSUME ended', ~unheard', \A t \in FeedThreads : feedCall'[t] # "closed" PROVE Reached'
  <2>1. \A t \in FeedThreads : feedCall[t] # "closed"
    BY <1>2, <1>12
  <2>2. ended /\ ~unheard
    BY <1>2, <1>10, <1>12
  <2>3. Reached
    BY <1>0, <2>1, <2>2 DEF EndSpread
  <2>. QED
    BY <1>9, <1>12, <2>2, <2>3
<1>13. EndSpread'
  BY <1>11, <1>12 DEF EndSpread
<1>. QED
  BY <1>4, <1>5, <1>6, <1>7, <1>13 DEF FeedIInv

\* An announcement tells everybody in the group, or is marked as lost.
LEMMA EndAnnounced ==
  ASSUME FeedSpread, AnnounceEnd, screen' = screen, late' = late
  PROVE  /\ closing' \in [Screens -> ClosingNews] /\ unheard' \in BOOLEAN
         /\ \A s \in Screens : screen[s] = "off" => closing'[s] = "unknown"
         /\ \A s \in Screens : closing'[s] = "told" => closing[s] = "told"
         /\ Reached' \/ unheard'
<1>1. CASE /\ closing' = [s \in Screens |-> IF Unaware(s) THEN "queued" ELSE closing[s]]
           /\ UNCHANGED unheard
  BY <1>1 DEF FeedSpread, Unaware, Listening, Reached, ClosingNews
<1>2. CASE unheard' = TRUE /\ UNCHANGED closing
  BY <1>2 DEF FeedSpread
<1>. QED
  BY <1>1, <1>2 DEF AnnounceEnd

\* So does the step of a request.
LEMMA RequestsKeep ==
  ASSUME FeedIInv, NEW t \in FeedThreads, RequestNext(t)
  PROVE  FeedIInv'
<1>0. FeedSpread /\ BareSpread /\ TrueSpread /\ EndSpread /\ LimitHolds
  BY DEF FeedIInv
<1>1. /\ hits' = hits /\ admitted' = admitted /\ unheld' = unheld /\ screen' = screen /\ late' = late
  BY DEF RequestNext, HttpVotes, HttpReadsList, HttpAnnounces, Opens, CommitsClose, AnnouncesClose, LosesClose,
     CommitsEdit, Deletes, RequestStep, limitVars
<1>2. LimitHolds'
  BY <1>0, <1>1 DEF LimitHolds
<1>. USE DEF FeedSpread, CallTo, CallAt, Spend, pollRow, endNews, CallSteps
<1>3. ASSUME HttpVotes(t) \/ HttpReadsList(t) \/ Opens(t, "close") \/ Opens(t, "edit") PROVE FeedIInv'
  <2>1. /\ feedCall' \in [FeedThreads -> CallSteps] /\ feedLeft' \in Nat
        /\ \A o \in FeedThreads : /\ feedCall'[o] = "closed" <=> feedCall[o] = "closed"
                                  /\ feedCall'[o] = "bare" => feedCall[o] = "bare" \/ ~optioned
    BY <1>0, <1>3 DEF HttpVotes, HttpReadsList, Opens
  <2>2. /\ optioned' = optioned /\ erased' = erased /\ ended' = ended /\ bared' = bared /\ closing' = closing
        /\ sweep' = sweep /\ undone' = undone /\ unheard' = unheard /\ listed' = listed
    BY <1>3 DEF HttpVotes, HttpReadsList, Opens
  <2>3. FeedSpread'
    BY <1>0, <1>1, <2>1, <2>2
  <2>4. BareSpread' /\ TrueSpread'
    BY <1>0, <1>1, <2>1, <2>2 DEF BareSpread, TrueSpread
  <2>5. EndSpread'
    BY <1>0, <1>1, <2>1, <2>2 DEF EndSpread, Reached
  <2>. QED
    BY <1>2, <2>3, <2>4, <2>5 DEF FeedIInv
<1>4. ASSUME HttpAnnounces(t) PROVE FeedIInv'
  <2>1. /\ feedCall[t] = "bare" /\ feedCall' \in [FeedThreads -> CallSteps] /\ feedLeft' \in Nat
        /\ \A o \in FeedThreads : /\ feedCall'[o] = "closed" <=> feedCall[o] = "closed"
                                  /\ feedCall'[o] = "bare" => feedCall[o] = "bare"
    BY <1>0, <1>4 DEF HttpAnnounces
  <2>2. /\ optioned' = optioned /\ erased' = erased /\ ended' = ended /\ bared' = bared /\ closing' = closing
        /\ sweep' = sweep /\ undone' = undone /\ unheard' = unheard
        /\ listed' \in {listed, listed \cup {s \in Screens : Listening(s)}}
    BY <1>4 DEF HttpAnnounces, AnnounceVote
  <2>3. FeedSpread'
    BY <1>0, <1>1, <2>1, <2>2 DEF Listening
  <2>4. BareSpread' /\ TrueSpread'
    BY <1>0, <1>1, <2>1, <2>2 DEF BareSpread, TrueSpread
  <2>5. EndSpread'
    BY <1>0, <1>1, <2>1, <2>2 DEF EndSpread, Reached
  <2>. QED
    BY <1>2, <2>3, <2>4, <2>5 DEF FeedIInv
<1>5. ASSUME CommitsClose(t) PROVE FeedIInv'
  <2>1. /\ feedCall'[t] = "closed" /\ feedCall' \in [FeedThreads -> CallSteps] /\ feedLeft' \in Nat
        /\ \A o \in FeedThreads : feedCall'[o] = "bare" => feedCall[o] = "bare"
    BY <1>0, <1>5 DEF CommitsClose
  <2>2. /\ optioned' = optioned /\ erased' = erased /\ ended' = TRUE /\ bared' = bared /\ closing' = closing
        /\ sweep' = sweep /\ undone' = undone /\ unheard' = unheard /\ listed' = listed
    BY <1>5 DEF CommitsClose
  <2>3. FeedSpread'
    BY <1>0, <1>1, <2>1, <2>2
  <2>4. BareSpread' /\ TrueSpread'
    BY <1>0, <1>1, <2>1, <2>2 DEF BareSpread, TrueSpread
  <2>5. EndSpread'
    BY <1>0, <1>1, <2>1, <2>2 DEF EndSpread, Reached
  <2>. QED
    BY <1>2, <2>3, <2>4, <2>5 DEF FeedIInv
<1>6. ASSUME AnnouncesClose(t) \/ LosesClose(t) PROVE FeedIInv'
  <2>1. /\ feedCall[t] = "closed" /\ feedCall' \in [FeedThreads -> CallSteps] /\ feedLeft' \in Nat
        /\ \A o \in FeedThreads : /\ feedCall'[o] = "closed" => feedCall[o] = "closed"
                                  /\ feedCall'[o] = "bare" => feedCall[o] = "bare"
    BY <1>0, <1>6 DEF AnnouncesClose, LosesClose
  <2>2. /\ optioned' = optioned /\ erased' = erased /\ ended' = ended /\ bared' = bared
        /\ sweep' = sweep /\ undone' = undone /\ listed' = listed
    BY <1>6 DEF AnnouncesClose, LosesClose
  <2>3. AnnounceEnd \/ (unheard' = TRUE /\ closing' = closing)
    BY <1>6 DEF AnnouncesClose, LosesClose
  <2>4. /\ closing' \in [Screens -> ClosingNews] /\ unheard' \in BOOLEAN
        /\ \A s \in Screens : screen[s] = "off" => closing'[s] = "unknown"
        /\ \A s \in Screens : closing'[s] = "told" => closing[s] = "told"
        /\ Reached' \/ unheard'
    BY <1>0, <1>1, <2>3, EndAnnounced
  <2>5. FeedSpread'
    BY <1>0, <1>1, <2>1, <2>2, <2>4
  <2>6. BareSpread' /\ TrueSpread'
    BY <1>0, <1>1, <2>1, <2>2, <2>4 DEF BareSpread, TrueSpread
  <2>7. EndSpread'
    BY <2>4 DEF EndSpread
  <2>. QED
    BY <1>2, <2>5, <2>6, <2>7 DEF FeedIInv
<1>7. ASSUME CommitsEdit(t) PROVE FeedIInv'
  <2>1. /\ feedCall' \in [FeedThreads -> CallSteps] /\ feedLeft' \in Nat
        /\ \A o \in FeedThreads : /\ feedCall'[o] = "closed" => feedCall[o] = "closed"
                                  /\ feedCall'[o] = "bare" => feedCall[o] = "bare"
    BY <1>0, <1>7 DEF CommitsEdit
  <2>2. /\ optioned' \in BOOLEAN /\ erased' = FALSE /\ ended' = FALSE /\ bared' = (bared \/ ~optioned')
        /\ undone' = (undone \/ ended) /\ ~sweep /\ sweep' = sweep /\ unheard' = unheard
        /\ closing' = closing /\ listed' = listed
    BY <1>7 DEF CommitsEdit
  <2>3. FeedSpread'
    BY <1>0, <1>1, <2>1, <2>2
  <2>4. BareSpread'
    BY <1>0, <1>1, <2>1, <2>2 DEF BareSpread
  <2>5. TrueSpread' /\ EndSpread'
    BY <1>0, <1>1, <2>1, <2>2 DEF TrueSpread, EndSpread
  <2>. QED
    BY <1>2, <2>3, <2>4, <2>5 DEF FeedIInv
<1>8. ASSUME Deletes(t) PROVE FeedIInv'
  <2>1. /\ optioned' = optioned /\ erased' = TRUE /\ ended' = ended /\ bared' = TRUE /\ closing' = closing
        /\ sweep' = sweep /\ undone' = undone /\ unheard' = unheard /\ listed' = listed
        /\ feedCall' = feedCall /\ feedLeft' = feedLeft
    BY <1>8 DEF Deletes
  <2>2. FeedSpread'
    BY <1>0, <1>1, <2>1
  <2>3. BareSpread' /\ TrueSpread' /\ EndSpread'
    BY <1>0, <1>1, <2>1 DEF BareSpread, TrueSpread, EndSpread, Reached
  <2>. QED
    BY <1>2, <2>2, <2>3 DEF FeedIInv
<1>. QED
  BY <1>3, <1>4, <1>5, <1>6, <1>7, <1>8 DEF RequestNext

\* So do the end of a window and the sweep.
LEMMA SweepKeeps ==
  ASSUME FeedIInv, WindowEnds \/ SweepAnnounces \/ SweepCommits \/ SweepRollsBack
  PROVE  FeedIInv'
<1>0. FeedSpread /\ BareSpread /\ TrueSpread /\ EndSpread /\ LimitHolds
  BY DEF FeedIInv
<1>1. ASSUME WindowEnds PROVE FeedIInv'
  <2>1. /\ optioned' = optioned /\ erased' = erased /\ ended' = ended /\ bared' = bared /\ closing' = closing
        /\ sweep' = sweep /\ undone' = undone /\ unheard' = unheard /\ listed' = listed /\ late' = late
        /\ feedCall' = feedCall /\ feedLeft' = feedLeft /\ screen' = screen
        /\ hits' = 0 /\ admitted' = 0 /\ unheld' = 0
    BY <1>1 DEF WindowEnds, ConsumerStep, pollRow, endNews, screenVars
  <2>2. FeedSpread' /\ LimitHolds'
    BY <1>0, <2>1, FeedNats DEF FeedSpread, LimitHolds
  <2>3. BareSpread' /\ TrueSpread' /\ EndSpread'
    BY <1>0, <2>1 DEF BareSpread, TrueSpread, EndSpread, Reached
  <2>. QED
    BY <2>2, <2>3 DEF FeedIInv
<1>2. ASSUME SweepAnnounces \/ SweepCommits \/ SweepRollsBack PROVE FeedIInv'
  <2>1. /\ optioned' = optioned /\ erased' = erased /\ bared' = bared
        /\ listed' = listed /\ late' = late /\ feedCall' = feedCall /\ screen' = screen
        /\ hits' = hits /\ admitted' = admitted /\ unheld' = unheld
    BY <1>2 DEF SweepAnnounces, SweepCommits, SweepRollsBack, SweepStep, limitVars
  <2>2. feedLeft' \in Nat
    BY <1>0, <1>2 DEF SweepAnnounces, SweepCommits, SweepRollsBack, Spend, FeedSpread
  <2>3. \/ sweep' = TRUE /\ AnnounceEnd /\ ended' = ended /\ undone' = undone /\ ~ended
        \/ /\ sweep /\ sweep' = FALSE /\ closing' = closing /\ unheard' = unheard
           /\ \/ ended' = TRUE /\ undone' = undone
              \/ ended' = ended /\ undone' = TRUE
    BY <1>2 DEF SweepAnnounces, SweepCommits, SweepRollsBack
  <2>4. CASE sweep' = TRUE /\ AnnounceEnd /\ ended' = ended /\ undone' = undone /\ ~ended
    <3>1. /\ closing' \in [Screens -> ClosingNews] /\ unheard' \in BOOLEAN
          /\ \A s \in Screens : screen[s] = "off" => closing'[s] = "unknown"
          /\ \A s \in Screens : closing'[s] = "told" => closing[s] = "told"
          /\ Reached' \/ unheard'
      BY <1>0, <2>1, <2>4, EndAnnounced
    <3>2. FeedSpread' /\ LimitHolds'
      BY <1>0, <2>1, <2>2, <2>4, <3>1 DEF FeedSpread, LimitHolds
    <3>3. BareSpread' /\ TrueSpread'
      BY <1>0, <2>1, <2>4, <3>1 DEF BareSpread, TrueSpread
    <3>4. EndSpread'
      BY <3>1 DEF EndSpread
    <3>. QED
      BY <3>2, <3>3, <3>4 DEF FeedIInv
  <2>5. CASE /\ sweep /\ sweep' = FALSE /\ closing' = closing /\ unheard' = unheard
             /\ \/ ended' = TRUE /\ undone' = undone
                \/ ended' = ended /\ undone' = TRUE
    <3>1. FeedSpread' /\ LimitHolds'
      BY <1>0, <2>1, <2>2, <2>5 DEF FeedSpread, LimitHolds
    <3>2. BareSpread' /\ TrueSpread'
      BY <1>0, <2>1, <2>5 DEF BareSpread, TrueSpread
    <3>3. EndSpread'
      BY <1>0, <2>1, <2>5 DEF EndSpread, Reached
    <3>. QED
      BY <3>1, <3>2, <3>3 DEF FeedIInv
  <2>. QED
    BY <2>3, <2>4, <2>5
<1>. QED
  BY <1>1, <1>2

\* Every step keeps the invariant.
LEMMA FeedStepKeeps == FeedIInv /\ [FeedNext]_pollFeedVars => FeedIInv'
<1>1. ASSUME FeedIInv, UNCHANGED pollFeedVars
      PROVE  FeedIInv'
  BY <1>1 DEF pollFeedVars, pollRow, endNews, limitVars, screenVars, FeedIInv, FeedSpread, BareSpread, TrueSpread,
     EndSpread, Reached, LimitHolds
<1>. QED
  BY <1>1, SocketsKeep, RequestsKeep, SweepKeeps DEF FeedNext

\* For every number of sockets, threads and votes that a window allows: while
\* nobody has emptied or deleted a poll no socket gets past its first frame and
\* no news of a vote reaches anybody; a socket hears of an end only when there
\* was one, was one to be, or one was taken back; a socket that had joined
\* before the end hears of it unless an announcement was lost; and a window
\* lets no more frames pass than its limit and the hits its counter has lost.
THEOREM FeedHolds == FeedSpec => []FeedInv
<1>1. FeedSpec => []FeedIInv
  BY FeedStart, FeedStepKeeps, PTL DEF FeedSpec
<1>. QED
  BY <1>1, FeedSpreads, PTL

-----------------------------------------------------------------------------
(***************************************************************************)
(* PollViews: total_views against the rows.                                *)
(*                                                                         *)
(* The invariant is inductive once the rows are known to be a finite set,  *)
(* which every insert keeps.                                               *)
(***************************************************************************)
ViewIInv == ViewInv /\ IsFiniteSet(PollViewRows)

\* Threads can be counted.
LEMMA ViewThreadsCount ==
  ASSUME NEW S, S \subseteq ViewThreads
  PROVE  IsFiniteSet(S) /\ Cardinality(S) \in Nat
BY ViewThreadsFinite, FS_Subset, FS_CardinalityType

\* The beginning fits.
LEMMA ViewStart == ViewsInit => ViewIInv
<1>. SUFFICES ASSUME ViewsInit PROVE ViewIInv
  OBVIOUS
<1>1. ViewTypeOK
  <2>1. NoView \in ViewRequests /\ MaxViewCalls \in 0 .. MaxViewCalls
    BY ViewCallsNat DEF ViewRequests
  <2>2. viewCall \in [ViewThreads -> ViewRequests]
    BY <2>1 DEF ViewsInit
  <2>. QED
    BY <2>1, <2>2 DEF ViewsInit, ViewTypeOK
<1>2. PollViewRows = {} /\ BeingCounted = {} /\ \A v \in Watchers : Looking(v) = {}
  BY DEF ViewsInit, PollViewRows, BeingCounted, Looking, NoView, Lookers
<1>3. AllViews = 0 /\ Uncounted = 0
  BY <1>2, FS_EmptySet DEF AllViews, Uncounted, ViewsInit
<1>4. ViewsTotalled
  BY <1>3 DEF ViewsTotalled, ViewsInit, NoView
<1>5. ViewedOnce
  BY <1>2, FS_EmptySet DEF ViewedOnce, ViewsInit, Lookers
<1>. QED
  BY <1>1, <1>2, <1>4, <1>5, FS_EmptySet DEF ViewIInv, ViewInv

\* A request carries a viewer or the number it read.
LEMMA ViewRequestTypes ==
  ASSUME ViewTypeOK, NEW t \in ViewThreads
  PROVE  /\ viewCall[t].at \in {"idle", "unseen", "inserted", "edit"}
         /\ viewCall[t].at = "unseen" =>
              /\ viewCall[t].who \in Lookers
              /\ viewCall[t] = [at |-> "unseen", who |-> viewCall[t].who]
         /\ viewCall[t].at = "inserted" => viewCall[t].who \in Lookers
         /\ viewCall[t].at = "edit" => viewCall[t].total \in Nat
         /\ viewCall[t].at = "idle" <=> viewCall[t] = NoView
<1>. viewCall[t] \in ViewRequests
  BY DEF ViewTypeOK
<1>. QED
  BY DEF ViewRequests, NoView

\* The types are kept.
LEMMA ViewTypeNext == ViewTypeOK /\ [ViewsNext]_viewVars => ViewTypeOK'
<1>. SUFFICES ASSUME ViewTypeOK, [ViewsNext]_viewVars PROVE ViewTypeOK'
  OBVIOUS
<1>0. NoView \in ViewRequests
  BY DEF ViewRequests
<1>. USE ViewCallsNat DEF ViewTypeOK
<1>1. ASSUME NEW t \in ViewThreads, NEW call \in ViewRequests, NewRequest(t, call)
      PROVE  /\ pollViews' \in [Lookers -> Nat] /\ totalViews' \in Nat /\ uncounted' \in Nat
             /\ viewCall' \in [ViewThreads -> ViewRequests] /\ viewsToCome' \in 0 .. MaxViewCalls
             /\ rewritten' \in BOOLEAN
  BY <1>1 DEF NewRequest
<1>2. ASSUME NEW t \in ViewThreads, NEW v \in Lookers, LooksAt(t, v)
      PROVE  ViewTypeOK'
  <2>1. [at |-> "unseen", who |-> v] \in ViewRequests
    BY DEF ViewRequests
  <2>2. NewRequest(t, [at |-> "unseen", who |-> v])
    BY <1>2 DEF LooksAt
  <2>3. together' \subseteq Watchers
    BY <1>2 DEF LooksAt
  <2>. QED
    BY <2>1, <2>2, <2>3, <1>1
<1>3. ASSUME NEW t \in ViewThreads, InsertPollView(t)
      PROVE  ViewTypeOK'
  <2>1. viewCall[t].who \in Lookers /\ viewCall[t] = [at |-> "unseen", who |-> viewCall[t].who]
    BY <1>3, ViewRequestTypes DEF InsertPollView
  <2>2. [viewCall[t] EXCEPT !.at = "inserted"] \in ViewRequests
    BY <2>1 DEF ViewRequests
  <2>3. viewCall' \in [ViewThreads -> ViewRequests]
    BY <1>3, <2>2 DEF InsertPollView
  <2>4. pollViews' \in [Lookers -> Nat]
    BY <1>3, <2>1 DEF InsertPollView
  <2>. QED
    BY <1>3, <2>3, <2>4 DEF InsertPollView
<1>4. ASSUME NEW t \in ViewThreads, CountPollView(t) \/ ServerStops(t)
      PROVE  ViewTypeOK'
  BY <1>0, <1>4 DEF CountPollView, ServerStops, EndView
<1>5. ASSUME NEW t \in ViewThreads, ReadsForEdit(t)
      PROVE  ViewTypeOK'
  <2>1. [at |-> "edit", total |-> totalViews] \in ViewRequests
    BY DEF ViewRequests
  <2>. QED
    BY <1>1, <1>5, <2>1 DEF ReadsForEdit
<1>6. ASSUME NEW t \in ViewThreads, SavesEdit(t)
      PROVE  ViewTypeOK'
  <2>1. viewCall[t].total \in Nat
    BY <1>6, ViewRequestTypes DEF SavesEdit
  <2>2. rewritten' \in BOOLEAN
    BY <1>6 DEF SavesEdit
  <2>. QED
    BY <1>0, <1>6, <2>1, <2>2 DEF SavesEdit, EndView
<1>7. CASE UNCHANGED viewVars
  BY <1>7 DEF viewVars
<1>. QED
  BY <1>2, <1>3, <1>4, <1>5, <1>6, <1>7 DEF ViewsNext

\* One more row of a viewer.
LEMMA RowInserted ==
  ASSUME ViewTypeOK, ViewTypeOK', IsFiniteSet(PollViewRows), NEW v \in Lookers,
         pollViews' = [pollViews EXCEPT ![v] = @ + 1]
  PROVE  IsFiniteSet(PollViewRows)' /\ AllViews' = AllViews + 1 /\ AllViews \in Nat
<1>. DEFINE r == <<v, pollViews[v] + 1>>
<1>0. pollViews \in [Lookers -> Nat] /\ pollViews' \in [Lookers -> Nat]
  BY DEF ViewTypeOK
<1>1. r \notin PollViewRows
  BY <1>0 DEF PollViewRows
<1>2. ASSUME NEW x PROVE x \in PollViewRows' <=> x \in PollViewRows \cup {r}
  <2>1. x \in PollViewRows <=> \E w \in Lookers : \E n \in 1 .. pollViews[w] : x = <<w, n>>
    BY DEF PollViewRows
  <2>2. x \in PollViewRows' <=> \E w \in Lookers : \E n \in 1 .. pollViews'[w] : x = <<w, n>>
    BY DEF PollViewRows
  <2>3. \A w \in Lookers : pollViews'[w] = IF w = v THEN pollViews[v] + 1 ELSE pollViews[w]
    BY <1>0
  <2>4. \A n : n \in 1 .. (pollViews[v] + 1) <=> n \in 1 .. pollViews[v] \/ n = pollViews[v] + 1
    BY <1>0
  <2>. QED
    BY <2>1, <2>2, <2>3, <2>4
<1>3. PollViewRows' = PollViewRows \cup {r}
  BY <1>2
<1>. QED
  BY <1>1, <1>3, FS_AddElement, FS_CardinalityType DEF AllViews

\* A step that inserts nothing.
LEMMA RowsStay ==
  pollViews' = pollViews => PollViewRows' = PollViewRows /\ AllViews' = AllViews
BY DEF PollViewRows, AllViews

\* Every step keeps the invariant.
LEMMA ViewStepKeeps == ViewIInv /\ [ViewsNext]_viewVars => ViewIInv'
<1>. SUFFICES ASSUME ViewIInv, [ViewsNext]_viewVars PROVE ViewIInv'
  OBVIOUS
<1>0. /\ ViewTypeOK /\ ViewsTotalled /\ ViewedOnce /\ IsFiniteSet(PollViewRows)
      /\ ViewTypeOK' /\ AllViews \in Nat
  BY ViewTypeNext, FS_CardinalityType DEF ViewIInv, ViewInv, AllViews
<1>00. /\ BeingCounted \subseteq ViewThreads /\ Cardinality(BeingCounted) \in Nat
       /\ IsFiniteSet(BeingCounted)
       /\ \A v : /\ Looking(v) \subseteq ViewThreads /\ Cardinality(Looking(v)) \in Nat
                 /\ IsFiniteSet(Looking(v))
  BY ViewThreadsCount DEF BeingCounted, Looking
<1>01. /\ viewCall \in [ViewThreads -> ViewRequests] /\ totalViews \in Nat /\ uncounted \in Nat
       /\ pollViews \in [Lookers -> Nat]
  BY <1>0 DEF ViewTypeOK
<1>1. ASSUME NEW t \in ViewThreads, NEW v \in Lookers, LooksAt(t, v)
      PROVE  ViewIInv'
  <2>. DEFINE c == [at |-> "unseen", who |-> v]
  <2>1. /\ NewRequest(t, c) /\ viewCall[t] = NoView /\ Unseen(v)
        /\ viewCall' = [viewCall EXCEPT ![t] = c]
        /\ UNCHANGED <<pollViews, totalViews, uncounted, rewritten>>
    BY <1>1 DEF LooksAt, NewRequest
  <2>2. BeingCounted' = BeingCounted
    BY <1>01, <2>1 DEF BeingCounted, NoView
  <2>3. PollViewRows' = PollViewRows /\ AllViews' = AllViews
    BY <2>1, RowsStay
  <2>4. ViewsTotalled'
    BY <1>0, <1>01, <2>1, <2>2, <2>3 DEF ViewsTotalled, Uncounted
  <2>5. ASSUME NEW w \in Watchers \ together'
        PROVE  pollViews'[w] + Cardinality(Looking(w)') <= 1
    <3>1. w \notin together
      BY <1>1 DEF LooksAt
    <3>2. CASE w = v
      <4>1. Looking(w) = {}
        BY <1>1, <3>2 DEF LooksAt, Looking
      <4>2. Looking(w)' = {t}
        BY <1>01, <2>1, <3>2, <4>1 DEF Looking
      <4>3. Cardinality({t}) = 1
        BY FS_Singleton
      <4>4. pollViews[w] = 0
        BY <2>1, <3>2, AnonymousIsNobody DEF Unseen
      <4>. QED
        BY <2>1, <4>2, <4>3, <4>4
    <3>3. CASE w # v
      <4>1. Looking(w)' = Looking(w)
        BY <1>01, <2>1, <3>3 DEF Looking, NoView
      <4>. QED
        BY <1>0, <2>1, <3>1, <4>1 DEF ViewedOnce
    <3>. QED
      BY <3>2, <3>3
  <2>6. ViewedOnce'
    BY <2>5 DEF ViewedOnce
  <2>. QED
    BY <1>0, <2>3, <2>4, <2>6 DEF ViewIInv, ViewInv
<1>2. ASSUME NEW t \in ViewThreads, InsertPollView(t)
      PROVE  ViewIInv'
  <2>. DEFINE v == viewCall[t].who
  <2>1. /\ viewCall[t].at = "unseen" /\ v \in Lookers
        /\ viewCall[t] = [at |-> "unseen", who |-> v]
        /\ pollViews' = [pollViews EXCEPT ![v] = @ + 1]
        /\ viewCall' = [viewCall EXCEPT ![t].at = "inserted"]
        /\ UNCHANGED <<totalViews, viewsToCome, uncounted, together, rewritten>>
    BY <1>0, <1>2, ViewRequestTypes DEF InsertPollView
  <2>2. \A o \in ViewThreads :
          viewCall'[o] = IF o = t THEN [at |-> "inserted", who |-> v] ELSE viewCall[o]
    BY <1>01, <2>1
  <2>3. BeingCounted' = BeingCounted \cup {t} /\ t \notin BeingCounted
    BY <2>1, <2>2 DEF BeingCounted
  <2>4. Cardinality(BeingCounted)' = Cardinality(BeingCounted) + 1
    BY <1>00, <2>3, FS_AddElement
  <2>5. IsFiniteSet(PollViewRows)' /\ AllViews' = AllViews + 1
    BY <1>0, <2>1, RowInserted
  <2>6. ViewsTotalled'
    <3>1. Uncounted' = Uncounted + 1 /\ Uncounted \in Nat
      BY <1>00, <1>01, <2>1, <2>4 DEF Uncounted
    <3>2. ASSUME NEW o \in ViewThreads, viewCall'[o].at = "edit"
          PROVE  viewCall'[o].total + Uncounted' <= AllViews'
      <4>0. viewCall'[o] = IF o = t THEN [at |-> "inserted", who |-> v] ELSE viewCall[o]
        BY <2>2
      <4>1. viewCall[o].at = "edit" /\ viewCall'[o] = viewCall[o]
        BY <3>2, <4>0
      <4>2. viewCall[o].total \in Nat
        BY <1>0, <4>1, ViewRequestTypes
      <4>. QED
        BY <1>0, <2>5, <3>1, <4>1, <4>2 DEF ViewsTotalled
    <3>3. totalViews' = totalViews /\ rewritten' = rewritten
      BY <2>1
    <3>4. totalViews' + Uncounted' <= AllViews'
      BY <1>0, <1>01, <2>5, <3>1, <3>3 DEF ViewsTotalled
    <3>5. ~rewritten' => totalViews' + Uncounted' = AllViews'
      BY <1>0, <1>01, <2>5, <3>1, <3>3 DEF ViewsTotalled
    <3>. QED
      BY <3>2, <3>4, <3>5 DEF ViewsTotalled
  <2>7. ASSUME NEW w \in Watchers \ together'
        PROVE  pollViews'[w] + Cardinality(Looking(w)') <= 1
    <3>0. pollViews[w] + Cardinality(Looking(w)) <= 1 /\ w \in Lookers
      BY <1>0, <2>1 DEF ViewedOnce, Lookers
    <3>1. CASE w = v
      <4>1. Looking(w)' = Looking(w) \ {t} /\ t \in Looking(w)
        BY <2>1, <2>2, <3>1 DEF Looking
      <4>2. Cardinality(Looking(w)') = Cardinality(Looking(w)) - 1
        BY <1>00, <4>1, FS_RemoveElement
      <4>. QED
        BY <1>00, <1>01, <2>1, <3>0, <3>1, <4>2
    <3>2. CASE w # v
      <4>1. Looking(w)' = Looking(w)
        BY <2>1, <2>2, <3>2 DEF Looking
      <4>. QED
        BY <1>01, <2>1, <3>0, <3>2, <4>1
    <3>. QED
      BY <3>1, <3>2
  <2>8. ViewedOnce'
    BY <2>7 DEF ViewedOnce
  <2>. QED
    BY <1>0, <2>5, <2>6, <2>8 DEF ViewIInv, ViewInv
\* The thread is done: it counts nothing any more and looks at nothing.
<1>3. ASSUME NEW t \in ViewThreads, EndView(t), pollViews' = pollViews, together' = together
      PROVE  /\ IsFiniteSet(PollViewRows') /\ AllViews' = AllViews /\ ViewedOnce'
             /\ BeingCounted' = BeingCounted \ {t}
             /\ viewCall[t].at = "inserted" =>
                  Cardinality(BeingCounted') = Cardinality(BeingCounted) - 1
             /\ viewCall[t].at # "inserted" =>
                  Cardinality(BeingCounted') = Cardinality(BeingCounted)
             /\ \A o \in ViewThreads : viewCall'[o].at = "edit" =>
                  viewCall[o].at = "edit" /\ viewCall'[o] = viewCall[o]
  <2>1. \A o \in ViewThreads : viewCall'[o] = IF o = t THEN NoView ELSE viewCall[o]
    BY <1>01, <1>3 DEF EndView
  <2>2. BeingCounted' = BeingCounted \ {t}
    BY <2>1 DEF BeingCounted, NoView
  <2>3. viewCall[t].at = "inserted" => Cardinality(BeingCounted \ {t}) = Cardinality(BeingCounted) - 1
    BY <1>00, FS_RemoveElement DEF BeingCounted
  <2>4. viewCall[t].at # "inserted" => BeingCounted \ {t} = BeingCounted
    BY DEF BeingCounted
  <2>5. ASSUME NEW w \in Watchers \ together'
        PROVE  pollViews'[w] + Cardinality(Looking(w)') <= 1
    <3>1. pollViews[w] + Cardinality(Looking(w)) <= 1 /\ pollViews[w] \in Nat
      BY <1>0, <1>01, <1>3 DEF ViewedOnce, Lookers
    <3>2. Looking(w)' = Looking(w) \ {t}
      BY <2>1 DEF Looking, NoView
    <3>3. Cardinality(Looking(w) \ {t}) <= Cardinality(Looking(w)) /\ Cardinality(Looking(w) \ {t}) \in Nat
      <4>1. Looking(w) \ {t} \subseteq Looking(w)
        OBVIOUS
      <4>. QED
        BY <1>00, <4>1, FS_Subset, FS_CardinalityType
    <3>. QED
      BY <1>00, <1>3, <3>1, <3>2, <3>3
  <2>6. ViewedOnce'
    BY <2>5 DEF ViewedOnce
  <2>7. PollViewRows' = PollViewRows /\ AllViews' = AllViews
    BY <1>3, RowsStay
  <2>8. \A o \in ViewThreads : viewCall'[o].at = "edit" =>
          viewCall[o].at = "edit" /\ viewCall'[o] = viewCall[o]
    BY <2>1 DEF NoView
  <2>. QED
    BY <1>0, <2>2, <2>3, <2>4, <2>6, <2>7, <2>8
\* What an edit would save is still not too many when no fewer rows are counted.
<1>4. ASSUME NEW t \in ViewThreads, EndView(t), pollViews' = pollViews, together' = together,
             Uncounted' \in Nat, Uncounted' <= Uncounted
      PROVE  \A o \in ViewThreads :
               viewCall'[o].at = "edit" => viewCall'[o].total + Uncounted' <= AllViews'
  <2>. SUFFICES ASSUME NEW o \in ViewThreads, viewCall'[o].at = "edit"
                PROVE  viewCall'[o].total + Uncounted' <= AllViews'
    OBVIOUS
  <2>1. viewCall[o].at = "edit" /\ viewCall'[o] = viewCall[o] /\ AllViews' = AllViews
    BY <1>3, <1>4
  <2>2. viewCall[o].total \in Nat /\ viewCall[o].total + Uncounted <= AllViews
    BY <1>0, <2>1, ViewRequestTypes DEF ViewsTotalled
  <2>3. Uncounted \in Nat
    BY <1>00, <1>01 DEF Uncounted
  <2>. QED
    BY <1>0, <1>4, <2>1, <2>2, <2>3
<1>5. ASSUME NEW t \in ViewThreads, CountPollView(t)
      PROVE  ViewIInv'
  <2>1. /\ viewCall[t].at = "inserted" /\ totalViews' = totalViews + 1 /\ EndView(t)
        /\ UNCHANGED <<pollViews, viewsToCome, uncounted, together, rewritten>>
    BY <1>5 DEF CountPollView
  <2>2. /\ IsFiniteSet(PollViewRows') /\ AllViews' = AllViews /\ ViewedOnce'
        /\ Cardinality(BeingCounted') = Cardinality(BeingCounted) - 1
    BY <1>3, <2>1
  <2>3. Uncounted' = Uncounted - 1 /\ Uncounted \in Nat /\ Uncounted' \in Nat
    <3>1. Cardinality(BeingCounted') \in Nat
      BY ViewThreadsCount DEF BeingCounted
    <3>. QED
      BY <1>00, <1>01, <2>1, <2>2, <3>1 DEF Uncounted
  <2>4. totalViews' + Uncounted' = totalViews + Uncounted
    BY <1>01, <2>1, <2>3
  <2>5. ViewsTotalled'
    BY <1>0, <1>4, <2>1, <2>2, <2>3, <2>4 DEF ViewsTotalled
  <2>. QED
    BY <1>0, <2>2, <2>5 DEF ViewIInv, ViewInv
<1>6. ASSUME NEW t \in ViewThreads, ServerStops(t)
      PROVE  ViewIInv'
  <2>1. /\ uncounted' = IF viewCall[t].at = "inserted" THEN uncounted + 1 ELSE uncounted
        /\ EndView(t)
        /\ UNCHANGED <<pollViews, totalViews, viewsToCome, together, rewritten>>
    BY <1>6 DEF ServerStops
  <2>2. /\ IsFiniteSet(PollViewRows') /\ AllViews' = AllViews /\ ViewedOnce'
        /\ viewCall[t].at = "inserted" =>
             Cardinality(BeingCounted') = Cardinality(BeingCounted) - 1
        /\ viewCall[t].at # "inserted" =>
             Cardinality(BeingCounted') = Cardinality(BeingCounted)
    BY <1>3, <2>1
  <2>3. Uncounted' = Uncounted /\ Uncounted \in Nat
    BY <1>00, <1>01, <2>1, <2>2 DEF Uncounted
  <2>4. ViewsTotalled'
    BY <1>0, <1>4, <2>1, <2>2, <2>3 DEF ViewsTotalled
  <2>. QED
    BY <1>0, <2>2, <2>4 DEF ViewIInv, ViewInv
<1>7. ASSUME NEW t \in ViewThreads, ReadsForEdit(t)
      PROVE  ViewIInv'
  <2>1. /\ viewCall[t] = NoView
        /\ viewCall' = [viewCall EXCEPT ![t] = [at |-> "edit", total |-> totalViews]]
        /\ UNCHANGED <<pollViews, totalViews, uncounted, rewritten, together>>
    BY <1>7 DEF ReadsForEdit, NewRequest
  <2>2. BeingCounted' = BeingCounted
    BY <1>01, <2>1 DEF BeingCounted, NoView
  <2>3. \A v : Looking(v)' = Looking(v)
    BY <1>01, <2>1 DEF Looking, NoView
  <2>4. PollViewRows' = PollViewRows /\ AllViews' = AllViews
    BY <2>1, RowsStay
  <2>5. ViewsTotalled'
    BY <1>0, <1>01, <2>1, <2>2, <2>4 DEF ViewsTotalled, Uncounted
  <2>6. ViewedOnce'
    BY <1>0, <2>1, <2>3 DEF ViewedOnce
  <2>. QED
    BY <1>0, <2>4, <2>5, <2>6 DEF ViewIInv, ViewInv
<1>8. ASSUME NEW t \in ViewThreads, SavesEdit(t)
      PROVE  ViewIInv'
  <2>1. /\ viewCall[t].at = "edit" /\ totalViews' = viewCall[t].total
        /\ rewritten' = (rewritten \/ totalViews # viewCall[t].total) /\ EndView(t)
        /\ UNCHANGED <<pollViews, viewsToCome, uncounted, together>>
    BY <1>8 DEF SavesEdit
  <2>2. /\ IsFiniteSet(PollViewRows') /\ AllViews' = AllViews /\ ViewedOnce'
        /\ Cardinality(BeingCounted') = Cardinality(BeingCounted)
    BY <1>3, <2>1
  <2>3. Uncounted' = Uncounted /\ Uncounted \in Nat
    BY <1>00, <1>01, <2>1, <2>2 DEF Uncounted
  <2>4. totalViews' + Uncounted' <= AllViews'
    BY <1>0, <2>1, <2>2, <2>3 DEF ViewsTotalled
  <2>5. ~rewritten' => totalViews' + Uncounted' = AllViews'
    BY <1>0, <2>1, <2>2, <2>3 DEF ViewsTotalled
  <2>6. ViewsTotalled'
    BY <1>4, <2>1, <2>3, <2>4, <2>5 DEF ViewsTotalled
  <2>. QED
    BY <1>0, <2>2, <2>6 DEF ViewIInv, ViewInv
<1>9. CASE UNCHANGED viewVars
  BY <1>0, <1>9 DEF viewVars, ViewIInv, ViewInv, ViewsTotalled, ViewedOnce, PollViewRows,
     AllViews, BeingCounted, Looking, Uncounted
<1>. QED
  BY <1>1, <1>2, <1>5, <1>6, <1>7, <1>8, <1>9 DEF ViewsNext

\* A poll's total_views is the number of its rows but for lost workers, until
\* an edit puts an older number back, and never more; a viewer whose first
\* views did not overlap has one row (PollService.record_view and update).
THEOREM ViewsHold == ViewsSpec => []ViewInv
<1>1. ViewIInv => ViewInv
  BY DEF ViewIInv
<1>. QED
  BY <1>1, ViewStart, ViewStepKeeps, PTL DEF ViewsSpec
=============================================================================
