------------------------------ MODULE PollFeed ------------------------------
(***************************************************************************)
(* The sockets that follow one free poll (src/polls/consumers.py,          *)
(* broadcaster, rate_limiter and the views and tasks that broadcast).      *)
(*                                                                         *)
(* The rows of the options carry UUIDs.  Neither the JSON of a frame nor   *)
(* the channel layer takes them: a frame with options ends its consumer,   *)
(* and a broadcast with options fails and is only logged.  So of the news  *)
(* of a vote only an empty list ever arrives, and a socket gets past its   *)
(* first frame only when the poll has no options, which an edit may leave, *)
(* or is deleted.                                                          *)
(* A closing names only the poll and arrives.  Over HTTP it is committed,  *)
(* then announced; the sweep announces it before its transaction commits.  *)
(* Votes over a socket pass a rate limit: increment the counter, or set it *)
(* to one when there is none.                                              *)
(* MaxFeedCalls bounds the requests, frames and sweeps (deletions do not   *)
(* count).  What a vote does to rows and counters is PollVoting.           *)
(***************************************************************************)
EXTENDS Integers

CONSTANTS
  Screens,        \* sockets of one user that may follow the poll
  FeedThreads,    \* threads serving requests
  VoteRateLimit,  \* VOTE_RATE_LIMIT
  MaxFeedCalls    \* bound: requests, frames and sweeps

ASSUME FeedNats == VoteRateLimit \in Nat \ {0} /\ MaxFeedCalls \in Nat

VARIABLES
  optioned,    \* the poll has options
  erased,      \* the poll is soft-deleted
  ended,       \* the poll is closed
  sweep,       \* close_expired_polls has announced what it has not committed
  feedCall,    \* feedCall[t]: the step of the request thread t serves
  feedLeft,    \* requests, frames and sweeps still to come
  screen,      \* screen[s]: the step of the consumer of socket s
  closing,     \* closing[s]: what socket s knows of the end of the poll
  listed,      \* sockets that have been sent the options after a vote
  hits,        \* the counter in the cache, 0 when it holds none
  admitted,    \* history: frames the limit let pass in this window
  unheld,      \* history: hits that the counter of this window has lost
  bared,       \* history: the poll has been without options, or deleted
  late,        \* history: sockets that joined when the end was told or written
  unheard,     \* history: an announcement of the end failed, or was dropped
  undone       \* history: what was announced was rolled back or overwritten

pollRow      == <<optioned, erased, ended, bared>>
endNews      == <<sweep, unheard, undone>>
limitVars    == <<hits, admitted, unheld>>
screenVars   == <<screen, closing, listed, late>>
pollFeedVars == <<pollRow, endNews, limitVars, screenVars, feedCall, feedLeft>>

FeedInit ==
  /\ optioned = TRUE /\ erased = FALSE /\ ended = FALSE /\ bared = FALSE
  /\ sweep = FALSE /\ unheard = FALSE /\ undone = FALSE
  /\ hits = 0 /\ admitted = 0 /\ unheld = 0
  /\ screen = [s \in Screens |-> "off"]
  /\ closing = [s \in Screens |-> "unknown"] /\ listed = {} /\ late = {}
  /\ feedCall = [t \in FeedThreads |-> "idle"] /\ feedLeft = MaxFeedCalls

Spend           == feedLeft > 0 /\ feedLeft' = feedLeft - 1
CallAt(t, step) == feedCall[t] = step
CallTo(t, step) == feedCall' = [feedCall EXCEPT ![t] = step]
ScreenTo(s, step) == screen' = [screen EXCEPT ![s] = step]

\* What get_options_data reads, through a poll looked up by a consumer.
SeesNone == ~optioned \/ erased

-----------------------------------------------------------------------------
(* Broadcasts *)

\* A consumer that joins the group after its first frame would miss the end.
ListeningLate(s) == screen[s] \notin {"off", "joined"}
Listening(s)     == screen[s] # "off"
Unaware(s)       == Listening(s) /\ closing[s] = "unknown"

\* group_send reaches all of the group, or fails; the failure is logged.
AnnounceEnd ==
  \/ /\ closing' = [s \in Screens |-> IF Unaware(s) THEN "queued" ELSE closing[s]]
     /\ UNCHANGED unheard
  \/ unheard' = TRUE /\ UNCHANGED closing
\* Only an empty list of options can be packed.
AnnounceVote == listed' \in {listed, listed \cup {s \in Screens : Listening(s)}}

-----------------------------------------------------------------------------
(* PollConsumer *)

ConsumerStep == UNCHANGED <<pollRow, endNews, feedCall>>

\* It looks the poll up, accepts the socket and joins the group.
Joins(s) ==
  /\ screen[s] = "off" /\ ~erased /\ ScreenTo(s, "joined")
  /\ late' = IF ended \/ sweep THEN late \cup {s} ELSE late
  /\ ConsumerStep /\ UNCHANGED <<closing, listed, limitVars, feedLeft>>
\* The first frame carries the options.
Greets(s) ==
  /\ screen[s] = "joined" /\ SeesNone /\ ScreenTo(s, "ready")
  /\ ConsumerStep /\ UNCHANGED <<closing, listed, late, limitVars, feedLeft>>
\* The client leaves, a frame cannot be encoded, the handler raises or the
\* server dies: in particular, the first frame carries options.
Leaves(s) ==
  /\ screen[s] # "off" /\ ScreenTo(s, "off")
  /\ closing' = [closing EXCEPT ![s] = "unknown"]
  /\ listed' = listed \ {s} /\ late' = late \ {s}
  /\ ConsumerStep /\ UNCHANGED <<limitVars, feedLeft>>
\* An event is handled between two frames.
ShowsEnd(s) ==
  /\ screen[s] = "ready" /\ closing[s] = "queued"
  /\ closing' = [closing EXCEPT ![s] = "told"]
  /\ ConsumerStep /\ UNCHANGED <<screen, listed, late, limitVars, feedLeft>>
\* The channel was full, or the event waited too long.
DropsEnd(s) ==
  /\ closing[s] = "queued"
  /\ closing' = [closing EXCEPT ![s] = "unknown"] /\ unheard' = TRUE
  /\ UNCHANGED <<pollRow, sweep, undone, limitVars, feedCall, feedLeft>>
  /\ UNCHANGED <<screen, listed, late>>

TakesFrame(s, step) ==
  /\ screen[s] = "ready" /\ Spend /\ ScreenTo(s, step)
  /\ ConsumerStep /\ UNCHANGED <<closing, listed, late>>

\* WebSocketRateLimiter.hit
HitPasses(s) ==
  /\ TakesFrame(s, "admitted")
  /\ hits > 0 /\ hits < VoteRateLimit
  /\ hits' = hits + 1 /\ admitted' = admitted + 1 /\ UNCHANGED unheld
HitRefused(s) ==
  /\ TakesFrame(s, "ready")
  /\ hits >= VoteRateLimit
  /\ hits' = hits + 1 /\ UNCHANGED <<admitted, unheld>>
HitMisses(s) ==
  /\ TakesFrame(s, "missed")
  /\ hits = 0 /\ UNCHANGED limitVars
\* The cache overwrites what others have counted, or fails without a word.
SetFirstHit(s) ==
  /\ screen[s] = "missed" /\ ScreenTo(s, "admitted") /\ admitted' = admitted + 1
  /\ \/ hits' = 1 /\ unheld' = unheld + hits
     \/ UNCHANGED hits /\ unheld' = unheld + 1
  /\ ConsumerStep /\ UNCHANGED <<closing, listed, late, feedLeft>>
\* Once nothing is to come the counter limits nothing, so it need not expire.
WindowEnds ==
  /\ hits > 0 /\ feedLeft > 0 /\ hits' = 0 /\ admitted' = 0 /\ unheld' = 0
  /\ ConsumerStep /\ UNCHANGED <<screenVars, feedLeft>>

AfterLimit(s) ==
  ConsumerStep /\ UNCHANGED <<closing, late, limitVars, feedLeft>>
\* A vote or a removal waits for the poll's row, which the sweep may hold.
CommitsFrame(s) ==
  /\ screen[s] = "admitted" /\ ~erased /\ ~sweep
  /\ \/ optioned /\ ~ended /\ ScreenTo(s, "voted")
     \/ ScreenTo(s, "removed")
  /\ AfterLimit(s) /\ UNCHANGED listed
\* The poll is over, the option gone or voted for before: a ServiceError.
RefusesFrame(s) ==
  /\ screen[s] = "admitted" /\ ~sweep /\ ScreenTo(s, "ready")
  /\ AfterLimit(s) /\ UNCHANGED listed
\* With options the broadcast fails, and the answer to a vote ends the consumer
\* (Leaves); the answer to a removal carries none.
ReadsList(s) ==
  /\ \/ ~optioned /\ screen[s] \in {"voted", "removed"} /\ ScreenTo(s, "bare")
     \/ optioned /\ screen[s] = "removed" /\ ScreenTo(s, "ready")
  /\ AfterLimit(s) /\ UNCHANGED listed
AnswersFrame(s) ==
  /\ screen[s] = "bare" /\ ScreenTo(s, "ready") /\ AnnounceVote
  /\ AfterLimit(s)

-----------------------------------------------------------------------------
(* Requests over HTTP *)

RequestStep == UNCHANGED <<limitVars, screen, late>>
\* Of a vote or its removal, from its commit to its broadcast.
HttpVotes(t) ==
  /\ CallAt(t, "idle") /\ ~erased /\ ~sweep /\ Spend /\ CallTo(t, "cast")
  /\ RequestStep /\ UNCHANGED <<pollRow, endNews, closing, listed>>
\* With options the broadcast fails, and that is all.
HttpReadsList(t) ==
  /\ CallAt(t, "cast") /\ CallTo(t, IF optioned THEN "idle" ELSE "bare")
  /\ RequestStep /\ UNCHANGED <<pollRow, endNews, closing, listed, feedLeft>>
HttpAnnounces(t) ==
  /\ CallAt(t, "bare") /\ CallTo(t, "idle") /\ AnnounceVote
  /\ RequestStep /\ UNCHANGED <<pollRow, endNews, closing, feedLeft>>

\* Closings and edits act on a copy that was read while the poll was active.
Opens(t, step) ==
  /\ CallAt(t, "idle") /\ ~ended /\ ~erased /\ Spend /\ CallTo(t, step)
  /\ RequestStep /\ UNCHANGED <<pollRow, endNews, closing, listed>>
CommitsClose(t) ==
  /\ CallAt(t, "close") /\ ~sweep /\ CallTo(t, "closed") /\ ended' = TRUE
  /\ RequestStep /\ UNCHANGED <<optioned, erased, bared, endNews, closing, listed, feedLeft>>
AnnouncesClose(t) ==
  /\ CallAt(t, "closed") /\ CallTo(t, "idle") /\ AnnounceEnd
  /\ RequestStep /\ UNCHANGED <<pollRow, sweep, undone, listed, feedLeft>>
\* The worker dies between the commit and the announcement.
LosesClose(t) ==
  /\ CallAt(t, "closed") /\ CallTo(t, "idle") /\ unheard' = TRUE
  /\ RequestStep /\ UNCHANGED <<pollRow, sweep, undone, closing, listed, feedLeft>>
\* All columns are saved; the options may be replaced, by none as well.
CommitsEdit(t) ==
  /\ CallAt(t, "edit") /\ ~sweep /\ CallTo(t, "idle")
  /\ optioned' \in BOOLEAN /\ ended' = FALSE /\ erased' = FALSE
  /\ bared' = (bared \/ ~optioned') /\ undone' = (undone \/ ended)
  /\ RequestStep /\ UNCHANGED <<sweep, unheard, closing, listed, feedLeft>>
Deletes(t) ==
  /\ CallAt(t, "idle") /\ ~erased /\ ~sweep
  /\ erased' = TRUE /\ bared' = TRUE
  /\ RequestStep /\ UNCHANGED <<optioned, ended, endNews, closing, listed, feedCall, feedLeft>>

-----------------------------------------------------------------------------
(* close_expired_polls *)

SweepStep == UNCHANGED <<optioned, erased, bared, limitVars, screen, listed, late, feedCall>>
\* It holds the row's lock from here to its end.
SweepAnnounces ==
  /\ ~ended /\ ~erased /\ ~sweep /\ Spend
  /\ sweep' = TRUE /\ AnnounceEnd
  /\ SweepStep /\ UNCHANGED <<ended, undone>>
SweepCommits ==
  /\ sweep /\ sweep' = FALSE /\ ended' = TRUE
  /\ SweepStep /\ UNCHANGED <<unheard, undone, closing, feedLeft>>
SweepRollsBack ==
  /\ sweep /\ sweep' = FALSE /\ undone' = TRUE
  /\ SweepStep /\ UNCHANGED <<ended, unheard, closing, feedLeft>>

ScreenNext(s) ==
  \/ Joins(s) \/ Greets(s) \/ Leaves(s) \/ ShowsEnd(s) \/ DropsEnd(s)
  \/ HitPasses(s) \/ HitRefused(s) \/ HitMisses(s) \/ SetFirstHit(s)
  \/ CommitsFrame(s) \/ RefusesFrame(s) \/ ReadsList(s) \/ AnswersFrame(s)
RequestNext(t) ==
  \/ HttpVotes(t) \/ HttpReadsList(t) \/ HttpAnnounces(t)
  \/ Opens(t, "close") \/ Opens(t, "edit")
  \/ CommitsClose(t) \/ AnnouncesClose(t) \/ LosesClose(t) \/ CommitsEdit(t) \/ Deletes(t)
FeedNext ==
  \/ \E s \in Screens : ScreenNext(s)
  \/ \E t \in FeedThreads : RequestNext(t)
  \/ WindowEnds \/ SweepAnnounces \/ SweepCommits \/ SweepRollsBack

FeedSpec == FeedInit /\ [][FeedNext]_pollFeedVars

-----------------------------------------------------------------------------
Up == {s \in Screens : screen[s] # "off"}

\* Every flag, call and socket keeps its type, and one that is off knows nothing.
FeedTypes ==
  /\ {optioned, erased, ended, bared, sweep, unheard, undone} \subseteq BOOLEAN
  /\ feedCall \in [FeedThreads -> {"idle", "cast", "bare", "close", "closed", "edit"}]
  /\ feedLeft \in Nat /\ {hits, admitted, unheld} \subseteq Nat
  /\ screen \in [Screens -> {"off", "joined", "ready", "missed", "admitted",
                            "voted", "removed", "bare"}]
  /\ closing \in [Screens -> {"unknown", "queued", "told"}]
  /\ {s \in Screens : closing[s] # "unknown"} \cup listed \cup late \subseteq Up

\* While a poll has kept its options no socket gets past its first frame, no
\* frame counts as a hit, and no news of a vote reaches anybody.
OnlyBaredPollsSpeak ==
  ~bared =>
    /\ optioned /\ ~erased
    /\ \A s \in Screens : screen[s] \in {"off", "joined"} /\ closing[s] # "told"
    /\ listed = {} /\ hits = 0 /\ admitted = 0
    /\ \A t \in FeedThreads : ~CallAt(t, "bare")

\* A socket told, or about to be told, that the poll is over is told the truth,
\* or what a sweep has not committed, or what was taken back.
ToldTheEnd ==
  (\E s \in Screens : closing[s] # "unknown") \/ (\E t \in FeedThreads : CallAt(t, "closed"))
    => ended \/ sweep \/ undone

\* Once a poll is over and nobody is about to announce it, every socket that
\* had joined before the end was told or written has been told, or will be,
\* unless an announcement was lost; so while the sweep has yet to commit.
EndReachesAll ==
  /\ ended /\ ~unheard /\ (\A t \in FeedThreads : ~CallAt(t, "closed"))
       => \A s \in Up \ late : closing[s] # "unknown"
  /\ sweep /\ ~unheard => \A s \in Up \ late : closing[s] # "unknown"

\* A window lets no more frames of a user pass than its limit, and one more for
\* every hit that the counter has lost.
LimitHolds == admitted <= VoteRateLimit + unheld /\ admitted <= hits + unheld

\* The live feed as a whole: who hears of a vote, who hears of the end, and
\* how often a user may vote.
FeedInv == FeedTypes /\ OnlyBaredPollsSpeak /\ ToldTheEnd /\ EndReachesAll /\ LimitHolds
=============================================================================
