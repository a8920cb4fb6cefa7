----------------------------- MODULE Discovery -----------------------------
(***************************************************************************)
(* Connections between users, their locations, and the discovery of people *)
(* nearby (src/accounts/services/connect.py, discovery_cache.py and the    *)
(* tasks that call them).                                                  *)
(*                                                                         *)
(* A request, a response and a location are Celery tasks, acknowledged     *)
(* late: a worker that is lost leaves what it did and the task runs again. *)
(* PostgreSQL holds the connections and the latest location; Redis holds   *)
(* the same again for discovery, plus results, written one command at a    *)
(* time and never in the transaction; a command that fails is only logged. *)
(* MaxTasks bounds the tasks, the reports and the discoveries.             *)
(***************************************************************************)
EXTENDS Integers, FiniteSets

CONSTANTS
  People,    \* users
  Spots,     \* places a user may be at
  Near,      \* Near[p]: the places within the distance asked for
  MaxTasks   \* bound: tasks queued, reports and discoveries

ASSUME SpotsNear == Near \in [Spots -> SUBSET Spots]
ASSUME TasksNat  == MaxTasks \in Nat

VARIABLES
  link,     \* link[u][v]: the Connection row requester u, recipient v
  met,      \* the discover:conn sets: <<u, v>> when v is in u's
  place,    \* place[u]: the UserLocation rows of u
  geo,      \* geo[u]: u's member of the geoset
  meta,     \* meta[u]: u's metadata hash
  told,     \* history: who reported a location
  results,  \* results[q]: the cached answer to a query
  work,     \* tasks and reports, with how far they are
  asks,     \* discoveries in flight: <<query, answer, where it is from>>
  budget    \* what may still come

discVars == <<link, met, place, geo, meta, told, results, work, asks, budget>>

Statuses == {"none", "pending", "accepted", "rejected"}
Nowhere  == {}
NoAnswer == {{}}     \* no key: a cached answer is a set of users
Queries  == People \X {"within", "anywhere"}   \* distance_km > 0, or 0
Sources  == {"redis", "rows", "everyone"}
Commands == {"set", "describe", "unset", "forget", "clear", "queue"}
Work == [task : {"request"}, u : People, v : People, at : {"row", "mine", "theirs"}]
        \cup [task : {"accept", "reject"}, u : People, v : People,
              at : {"read", "mine", "theirs", "save"}]
        \cup [task : {"locate"}, u : People, p : Spots, at : {"row", "geo", "meta"}]
        \cup [task : {"report"}, u : People, p : Spots, at : Commands]

DiscInit ==
  /\ link = [u \in People |-> [v \in People |-> "none"]]
  /\ met = {}
  /\ place = [u \in People |-> Nowhere]
  /\ geo = [u \in People |-> Nowhere] /\ meta = [u \in People |-> Nowhere]
  /\ told = {} /\ results = [q \in Queries |-> NoAnswer]
  /\ work = {} /\ asks = {} /\ budget = MaxTasks

Queue(w) == budget > 0 /\ budget' = budget - 1 /\ work' = work \cup {w}

-----------------------------------------------------------------------------
(* Calls *)

AskConnect(u, v) ==
  /\ Queue([task |-> "request", u |-> u, v |-> v, at |-> "row"])
  /\ UNCHANGED <<link, met, place, geo, meta, results, asks>>
Respond(u, v, action) ==
  /\ link[u][v] # "none"
  /\ Queue([task |-> action, u |-> u, v |-> v, at |-> "read"])
  /\ UNCHANGED <<link, met, place, geo, meta, results, asks>>

\* UserLocationUpdateView: what it reports is written step by step below.
ReportLocation(u, p) ==
  /\ Queue([task |-> "report", u |-> u, p |-> p, at |-> "set"])
  /\ told' = told \cup {u}
  /\ UNCHANGED <<link, met, place, geo, meta, results, asks>>

-----------------------------------------------------------------------------
(* Tasks *)

\* The task goes on, or is over; a lost worker's task starts again.
Step(w, at)  == work' = (work \ {w}) \cup {[w EXCEPT !.at = at]}
Finish(w)    == work' = work \ {w}
First(w)     == IF w.task \in {"accept", "reject"} THEN "read" ELSE "row"
\* A report is a request and no task: nobody repeats it.
WorkerLost(w) ==
  /\ w \in work /\ w.at # First(w)
  /\ IF w.task = "report" THEN Finish(w) ELSE Step(w, First(w))
  /\ UNCHANGED <<link, met, place, geo, meta, results, asks, budget>>

\* A bug the properties would find: Redis before the row.
RequestSetsFirst(w) ==
  /\ w \in work /\ w.task = "request" /\ w.at = "row"
  /\ met' = met \cup {<<w.u, w.v>>}
  /\ Step(w, "mine")
  /\ UNCHANGED <<link, place, geo, meta, results, asks, budget>>
\* send_connection_request: the row first, then either side's set.
RequestRow(w) ==
  /\ w \in work /\ w.task = "request" /\ w.at = "row"
  /\ IF w.u = w.v THEN Finish(w) /\ UNCHANGED link
     ELSE /\ link' = [link EXCEPT ![w.u][w.v] = IF @ = "none" THEN "pending" ELSE @]
          /\ Step(w, "mine")
  /\ UNCHANGED <<met, place, geo, meta, results, asks, budget>>

\* respond_to_connection reads a pending row, writes Redis, and saves the
\* status last.
ReadRequest(w) ==
  /\ w \in work /\ w.task \in {"accept", "reject"} /\ w.at = "read"
  /\ IF link[w.u][w.v] = "pending" THEN Step(w, "mine") ELSE Finish(w)
  /\ UNCHANGED <<link, met, place, geo, meta, results, asks, budget>>
WriteSets(w) ==
  LET pair == IF w.at = "mine" THEN <<w.u, w.v>> ELSE <<w.v, w.u>>
      Over == IF w.task = "request" THEN Finish(w) ELSE Step(w, "save")
  IN  /\ w \in work /\ w.task \in {"request", "accept", "reject"} /\ w.at \in {"mine", "theirs"}
      /\ \/ /\ met' = IF w.task = "reject" THEN met \ {pair} ELSE met \cup {pair}
            /\ IF w.at = "mine" THEN Step(w, "theirs") ELSE Over
         \/ UNCHANGED met /\ Over
      /\ UNCHANGED <<link, place, geo, meta, results, asks, budget>>
SaveStatus(w) ==
  /\ w \in work /\ w.task \in {"accept", "reject"} /\ w.at = "save"
  /\ link' = [link EXCEPT ![w.u][w.v] = IF w.task = "accept" THEN "accepted" ELSE "rejected"]
  /\ Finish(w)
  /\ UNCHANGED <<met, place, geo, meta, results, asks, budget>>

\* process_user_location: the row, under the user's lock, then the cache.
\* Rows that are not the latest are deleted.
Known(w)   == [geo EXCEPT ![w.u] = {w.p}]
Unknown(w) == [geo EXCEPT ![w.u] = Nowhere]
Locate(w) ==
  /\ w \in work /\ w.task = "locate"
  /\ CASE w.at = "row"  -> place' = [place EXCEPT ![w.u] = {w.p}] /\ Step(w, "geo")
                           /\ UNCHANGED <<geo, meta>>
       [] w.at = "geo"  -> geo' \in {Known(w), geo} /\ Step(w, "meta")
                           /\ UNCHANGED <<place, meta>>
       [] w.at = "meta" -> meta' \in {[meta EXCEPT ![w.u] = {w.p}], meta} /\ Finish(w)
                           /\ UNCHANGED <<place, geo>>
  /\ UNCHANGED <<link, met, results, asks, budget>>

\* The view sets the location and its metadata, removes both again as it
\* invalidates the user, clears the cached answers and queues the task.
Report(w) ==
  /\ w \in work /\ w.task = "report"
  /\ CASE w.at = "set"      -> geo' \in {Known(w), geo} /\ Step(w, "describe")
                               /\ UNCHANGED <<meta, results>>
       [] w.at = "describe" -> meta' \in {[meta EXCEPT ![w.u] = {w.p}], meta} /\ Step(w, "unset")
                               /\ UNCHANGED <<geo, results>>
       [] w.at = "unset"    -> \/ geo' = Unknown(w) /\ Step(w, "forget") /\ UNCHANGED <<meta, results>>
                               \/ Step(w, "clear") /\ UNCHANGED <<geo, meta, results>>
       [] w.at = "forget"   -> meta' \in {[meta EXCEPT ![w.u] = Nowhere], meta} /\ Step(w, "clear")
                               /\ UNCHANGED <<geo, results>>
       [] w.at = "clear"    -> results' \in {[q \in Queries |-> IF q[1] = w.u THEN NoAnswer ELSE results[q]], results}
                               /\ Step(w, "queue") /\ UNCHANGED <<geo, meta>>
       [] w.at = "queue"    -> /\ work' = (work \ {w}) \cup
                                    {[task |-> "locate", u |-> w.u, p |-> w.p, at |-> "row"]}
                               /\ UNCHANGED <<geo, meta, results>>
  /\ UNCHANGED <<link, met, place, asks, budget>>

-----------------------------------------------------------------------------
(* Discovery *)

\* Where the caller is: the metadata, else the latest row.
Whereabouts(u) == IF meta[u] # Nowhere THEN meta[u] ELSE place[u]
Within(p, range) == IF range = "within" THEN Near[p] ELSE {p}
NearRedis(q) ==
  {v \in People \ {q[1]} : /\ <<q[1], v>> \notin met
                          /\ \E p \in Whereabouts(q[1]) : geo[v] \cap Within(p, q[2]) # {}}
\* _user_base_qs: everyone there is no connection with; a distance of 0 does
\* not filter the rows.
Unlinked(u) == {v \in People \ {u} : link[u][v] = "none" /\ link[v][u] = "none"}
NearRows(q) ==
  {v \in Unlinked(q[1]) : /\ place[v] # Nowhere
                         /\ \/ q[2] = "anywhere"
                            \/ \E p \in place[q[1]] : place[v] \cap Near[p] # {}}

\* The answer computed from Redis is cached later; that from the tables, when
\* Redis fails or has nobody's location, is only shown, and so is the answer to
\* somebody whose location nobody knows: no one, or, asked for distance 0,
\* everyone, with a location or without.
DiscoverFrom(q) ==
  \/ /\ results[q] = NoAnswer /\ Whereabouts(q[1]) # Nowhere
     /\ \E v \in People : geo[v] # Nowhere
     /\ asks' = asks \cup {<<q, NearRedis(q), "redis">>}
  \/ /\ results[q] = NoAnswer /\ Whereabouts(q[1]) = Nowhere
     /\ asks' = asks \cup {<<q, IF q[2] = "anywhere" THEN Unlinked(q[1]) ELSE {}, "everyone">>}
  \/ asks' = asks \cup {<<q, NearRows(q), "rows">>}
Discover(q) ==
  /\ budget > 0 /\ budget' = budget - 1
  /\ DiscoverFrom(q)
  /\ UNCHANGED <<link, met, place, geo, meta, results, work>>
GiveAnswer(a) ==
  /\ a \in asks /\ asks' = asks \ {a}
  /\ results' = IF a[3] = "redis" THEN [results EXCEPT ![a[1]] = a[2]] ELSE results
  /\ UNCHANGED <<link, met, place, geo, meta, work, budget>>
AnswerExpires(q) ==
  /\ results[q] # NoAnswer
  /\ results' = [results EXCEPT ![q] = NoAnswer]
  /\ UNCHANGED <<link, met, place, geo, meta, work, asks, budget>>

-----------------------------------------------------------------------------
DiscStep ==
  \/ \E u, v \in People :
       \/ AskConnect(u, v)
       \/ \E action \in {"accept", "reject"} : Respond(u, v, action)
  \/ \E q \in Queries : Discover(q) \/ AnswerExpires(q)
  \/ \E w \in work : \/ RequestRow(w) \/ ReadRequest(w) \/ WriteSets(w) \/ SaveStatus(w)
                     \/ Locate(w) \/ Report(w) \/ WorkerLost(w)
  \/ \E a \in asks : GiveAnswer(a)
DiscNext ==
  \/ DiscStep /\ UNCHANGED told
  \/ \E u \in People, p \in Spots : ReportLocation(u, p)

DiscSpec == DiscInit /\ [][DiscNext]_discVars

-----------------------------------------------------------------------------
(* Properties *)

\* Every row, key and task keeps its type.
DiscTypeOK ==
  /\ link \in [People -> [People -> Statuses]]
  /\ met \subseteq People \X People
  /\ place \in [People -> SUBSET Spots]
  /\ geo \in [People -> SUBSET Spots] /\ meta \in [People -> SUBSET Spots]
  /\ told \subseteq People
  /\ \A q \in Queries : results[q] = NoAnswer \/ results[q] \subseteq People
  /\ work \subseteq Work
  /\ asks \subseteq Queries \X (SUBSET People) \X Sources
  /\ budget \in 0 .. MaxTasks

\* Redis hides from each other only people between whom a connection was
\* asked for: its sets never run ahead of the table.
HiddenWereAsked ==
  \A pair \in met : \E u, v \in People :
    {u, v} = {pair[1], pair[2]} /\ u # v /\ link[u][v] # "none"

\* Nobody is shown themselves, nor, as near, anybody who never reported where
\* they are, however old the answer is.  (Who asks from nowhere for distance 0
\* is shown everyone: connect.py:53-58.)
Shows(q, shown) == q[1] \notin shown /\ shown \subseteq told
ShownReported ==
  /\ \A q \in Queries : results[q] # NoAnswer => Shows(q, results[q])
  /\ \A a \in asks : IF a[3] = "everyone" THEN a[1][1] \notin a[2] ELSE Shows(a[1], a[2])

\* One location per user, and neither table nor cache knows of one that was
\* never reported.
PlacesOnce ==
  \A u \in People : /\ Cardinality(place[u]) <= 1
                    /\ place[u] \cup geo[u] \cup meta[u] # {} => u \in told

\* A response is saved only for a row, and nobody is connected unasked, nor
\* with themselves: what a task did before is there when it goes on.
TasksFounded ==
  /\ \A u \in People : link[u][u] = "none"
  /\ \A w \in work :
       IF w.task \in {"locate", "report"} THEN w.u \in told
       ELSE w.at # "row" => link[w.u][w.v] # "none"

\* Connections and discovery as a whole: what Redis hides and shows was asked
\* for and told by the users, in whichever order tasks run or run again.
DiscInv == DiscTypeOK /\ HiddenWereAsked /\ ShownReported /\ PlacesOnce /\ TasksFounded
=============================================================================
