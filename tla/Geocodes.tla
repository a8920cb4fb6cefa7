------------------------------ MODULE Geocodes ------------------------------
(***************************************************************************)
(* The places of posts, comments and reshares and their addresses          *)
(* (src/social/services/location.py, src/social/tasks.py, clients/google). *)
(*                                                                         *)
(* A place is captured within the transaction that makes its post.  It     *)
(* takes the address cached for its cell, or that of a resolved row of the *)
(* cell, which goes into the cache again; else, when the transaction has   *)
(* committed, a task is queued that asks Google.  The task reads, looks,   *)
(* asks, caches and saves in separate steps.  One that raises is retried   *)
(* from the start, MaxRetries times (3 in the code), and then given up;    *)
(* one whose worker is lost is delivered again.  The cache may fail at     *)
(* any look and any write, which the code takes for an empty cache.        *)
(* An address is named by the place about whose coordinates Google was     *)
(* asked.  MaxGeoLosses bounds the lost workers.                           *)
(***************************************************************************)
EXTENDS Integers, FiniteSets

CONSTANTS
  Places,        \* rows of SocialLocation that may come to exist
  CellOf,        \* CellOf[p]: the cell that build_cell_key rounds p's coordinates to
  MaxRetries,    \* how often a task that raises is tried again
  MaxGeoLosses   \* bound: workers lost

ASSUME PlaceCells == DOMAIN CellOf = Places /\ MaxRetries \in Nat /\ MaxGeoLosses \in Nat

VARIABLES
  place,      \* place[p]: the row, none before its transaction commits
  cells,      \* cells[p]: the address cached under p's cell key, at most one
  resolver,   \* resolver[p]: the capture of p, then its task, and the address it holds
  retries,    \* retries[p]: how often p's task has been tried again
  geoLosses,  \* workers that may still be lost
  asked,      \* history: how often Google was asked about p
  crossed,    \* history: pairs of places asked about without sight of each other
  givenUp     \* history: places whose task was not queued, was given up or had no key

geoVars == <<place, cells, resolver, retries, geoLosses, asked, crossed, givenUp>>

PlaceRows == [status : {"none", "pending", "failed", "resolved"}, addr : SUBSET Places]
Resolving == [at : {"none", "committed", "queued", "read", "ask", "saved"}, addr : {{}}]
             \cup [at : {"draft", "known", "answered", "cached"}, addr : SUBSET Places]
NoPlace      == [status |-> "none", addr |-> {}]
NoResolver   == [at |-> "none", addr |-> {}]
Row(s)       == [status |-> s, addr |-> {}]
Located(a)   == [status |-> "resolved", addr |-> a]
CellMates(p) == {q \in Places : CellOf[q] = CellOf[p]}

GeoInit ==
  /\ place = [p \in Places |-> NoPlace]
  /\ cells = [p \in Places |-> {}]
  /\ resolver = [p \in Places |-> NoResolver]
  /\ retries = [p \in Places |-> 0] /\ asked = [p \in Places |-> 0]
  /\ geoLosses = MaxGeoLosses /\ crossed = {} /\ givenUp = {}

AtStep(p, step)  == resolver[p].at = step
Turn(p, step, a) == resolver' = [resolver EXCEPT ![p] = [at |-> step, addr |-> a]]
Save(p, row)     == place' = [place EXCEPT ![p] = row]

-----------------------------------------------------------------------------
(* SocialLocationService *)

\* All places of a cell have one cache key.
CacheAddress(p, a) == cells' = [q \in Places |-> IF q \in CellMates(p) THEN a ELSE cells[q]]
\* The cache may fail; that is logged.
TryCache(p, a) == CacheAddress(p, a) \/ UNCHANGED cells
SiblingAddresses(p) ==
  {place[q].addr : q \in {r \in CellMates(p) \ {p} : place[r].status = "resolved"}}

\* What apply_known_address finds: the cached address, or that of a sibling,
\* when the cache holds none or fails; or nothing.
Finds(p, a) ==
  \/ a = cells[p] /\ a # {} /\ UNCHANGED cells
  \/ a \in SiblingAddresses(p) /\ TryCache(p, a)
\* A bug the properties would find: only the cache is looked at.
Uncached(p) == cells[p] = {}
Unknown(p)  == SiblingAddresses(p) = {}

\* Within the transaction of the post.
Capture(p) ==
  /\ place[p] = NoPlace /\ AtStep(p, "none")
  /\ \/ Unknown(p) /\ UNCHANGED cells /\ Turn(p, "draft", {})
     \/ \E a \in SUBSET Places : Finds(p, a) /\ Turn(p, "draft", a)
  /\ UNCHANGED <<place, retries, geoLosses, asked, crossed, givenUp>>
CommitCapture(p) ==
  /\ AtStep(p, "draft")
  /\ \/ resolver[p].addr = {} /\ Save(p, Row("pending")) /\ Turn(p, "committed", {})
     \/ resolver[p].addr # {} /\ Save(p, Located(resolver[p].addr)) /\ Turn(p, "none", {})
  /\ UNCHANGED <<cells, retries, geoLosses, asked, crossed, givenUp>>
\* What went into the cache stays there.
DropCapture(p) ==
  /\ AtStep(p, "draft") /\ Turn(p, "none", {})
  /\ UNCHANGED <<place, cells, retries, geoLosses, asked, crossed, givenUp>>
\* on_commit queues the task, unless the broker refuses or the server dies.
Enqueue(p) ==
  /\ AtStep(p, "committed")
  /\ \/ Turn(p, "queued", {}) /\ UNCHANGED givenUp
     \/ Turn(p, "none", {}) /\ givenUp' = givenUp \cup {p}
  /\ UNCHANGED <<place, cells, retries, geoLosses, asked, crossed>>

\* The address has expired in the cache or was evicted.
Expire(p) ==
  /\ cells[p] # {} /\ CacheAddress(p, {})
  /\ UNCHANGED <<place, resolver, retries, geoLosses, asked, crossed, givenUp>>

-----------------------------------------------------------------------------
(* resolve_social_location *)

\* Between a look that found nothing and the end of the task.
Asking(p) == resolver[p].at \in {"ask", "answered", "cached"}
\* An address that a look which finds no sibling cannot see: one that is
\* being asked for, is on its way to a row, or is only in a failing cache.
OutOfSight(p, q) ==
  Asking(q) \/ cells[p] = {q} \/ \E r \in CellMates(p) : resolver[r].addr = {q}

ReadPlace(p) ==
  /\ AtStep(p, "queued")
  /\ Turn(p, IF place[p].status = "resolved" THEN "saved" ELSE "read", {})
  /\ UNCHANGED <<place, cells, retries, geoLosses, asked, crossed, givenUp>>
LookForKnown(p) ==
  /\ AtStep(p, "read")
  /\ \/ /\ Unknown(p) /\ UNCHANGED cells /\ Turn(p, "ask", {})
        /\ crossed' = crossed \cup {{p, q} : q \in {r \in CellMates(p) \ {p} : OutOfSight(p, r)}}
     \/ /\ \E a \in SUBSET Places : Finds(p, a) /\ Turn(p, "known", a)
        /\ UNCHANGED crossed
  /\ UNCHANGED <<place, retries, geoLosses, asked, givenUp>>
\* Google knows the place, or has no result, or cannot be reached.
AskGoogle(p) ==
  /\ AtStep(p, "ask")
  /\ \E a \in {{p}, {}} : Turn(p, "answered", a)
  /\ asked' = [asked EXCEPT ![p] = @ + 1]
  /\ UNCHANGED <<place, cells, retries, geoLosses, crossed, givenUp>>
NotConfigured(p) ==
  /\ AtStep(p, "ask") /\ Turn(p, "saved", {}) /\ givenUp' = givenUp \cup {p}
  /\ UNCHANGED <<place, cells, retries, geoLosses, asked, crossed>>
MarkFailed(p) ==
  /\ AtStep(p, "answered") /\ resolver[p].addr = {}
  /\ Save(p, Row("failed")) /\ Turn(p, "saved", {})
  /\ UNCHANGED <<cells, retries, geoLosses, asked, crossed, givenUp>>
CacheAnswer(p) ==
  /\ AtStep(p, "answered") /\ resolver[p].addr # {}
  /\ TryCache(p, resolver[p].addr) /\ Turn(p, "cached", resolver[p].addr)
  /\ UNCHANGED <<place, retries, geoLosses, asked, crossed, givenUp>>
ApplyAddress(p) ==
  /\ resolver[p].at \in {"known", "cached"}
  /\ Save(p, Located(resolver[p].addr)) /\ Turn(p, "saved", {})
  /\ UNCHANGED <<cells, retries, geoLosses, asked, crossed, givenUp>>
Acknowledge(p) ==
  /\ AtStep(p, "saved") /\ Turn(p, "none", {})
  /\ UNCHANGED <<place, cells, retries, geoLosses, asked, crossed, givenUp>>

\* A worker runs the task: it may raise, or die before it acknowledges.
Running(p) == resolver[p].at \in {"read", "known", "ask", "answered", "cached", "saved"}
TaskRaises(p) ==
  /\ Running(p) /\ ~AtStep(p, "saved")
  /\ \/ /\ retries[p] < MaxRetries /\ retries' = [retries EXCEPT ![p] = @ + 1]
        /\ Turn(p, "queued", {}) /\ UNCHANGED givenUp
     \/ /\ retries[p] = MaxRetries /\ UNCHANGED retries
        /\ Turn(p, "none", {}) /\ givenUp' = givenUp \cup {p}
  /\ UNCHANGED <<place, cells, geoLosses, asked, crossed>>
LoseWorker(p) ==
  /\ Running(p) /\ geoLosses > 0 /\ geoLosses' = geoLosses - 1
  /\ Turn(p, "queued", {})
  /\ UNCHANGED <<place, cells, retries, asked, crossed, givenUp>>

PlaceStep(p) ==
  \/ Capture(p) \/ CommitCapture(p) \/ DropCapture(p) \/ Enqueue(p) \/ Expire(p)
  \/ ReadPlace(p) \/ LookForKnown(p) \/ AskGoogle(p) \/ NotConfigured(p)
  \/ MarkFailed(p) \/ CacheAnswer(p) \/ ApplyAddress(p) \/ Acknowledge(p)
  \/ TaskRaises(p) \/ LoseWorker(p)
GeoNext == \E p \in Places : PlaceStep(p)

GeoSpec == GeoInit /\ [][GeoNext]_geoVars

-----------------------------------------------------------------------------
\* Every row, key and task keeps its type.
GeoTypes ==
  /\ place \in [Places -> PlaceRows]
  /\ cells \in [Places -> SUBSET Places]
  /\ resolver \in [Places -> Resolving]
  /\ retries \in [Places -> Nat] /\ asked \in [Places -> Nat]
  /\ geoLosses \in 0 .. MaxGeoLosses

\* A resolved row, a cached key and a task hold what Google said of a place
\* of that very cell; a row that is pending or failed holds no address.
AddressesOfTheCell ==
  \A p \in Places :
    /\ place[p].status = "resolved" <=> place[p].addr # {}
    /\ \A q \in place[p].addr \cup cells[p] \cup resolver[p].addr :
         q \in CellMates(p) /\ asked[q] > 0
    /\ \A q \in CellMates(p) : cells[q] = cells[p]

\* Two rows of a cell each keep an address of their own only when Google was
\* asked about one without sight of the other: whoever comes later takes what
\* is known.
OneAddressPerCell ==
  \A p, q \in Places :
    p # q /\ CellOf[p] = CellOf[q] /\ {place[p].addr, place[q].addr} = {{p}, {q}}
      => {p, q} \in crossed

\* p's own address is being asked for, or is somewhere in its cell.
Around(p) ==
  Asking(p) \/ \E r \in CellMates(p) : {p} \in {place[r].addr, cells[r], resolver[r].addr}

\* Of two places of a cell only one has its address around, unless Google was
\* asked about one without sight of the other.
RivalsCrossed ==
  \A p \in Places : Around(p) =>
    \A q \in CellMates(p) \ {p} : Around(q) => {p, q} \in crossed

\* A task works for a place that has no address yet, carries no answer but
\* its own, and has not asked in this run before it asks.
Runs(p) == retries[p] + MaxGeoLosses - geoLosses
TasksInStep ==
  \A p \in Places :
    /\ place[p].status = "none" => resolver[p].at \in {"none", "draft"} /\ asked[p] = 0
    /\ AtStep(p, "draft") => place[p].status = "none"
    /\ resolver[p].at \in {"read", "known"} \/ Asking(p)
         => place[p].status \in {"pending", "failed"}
    /\ Asking(p) => resolver[p].addr \in {{}, {p}}
    /\ resolver[p].at \in {"known", "cached"} => resolver[p].addr # {}
    /\ resolver[p].at \in {"draft", "committed", "queued", "read", "known", "ask"} => asked[p] <= Runs(p)

\* Google is asked about a place once, and once more for every retry of its
\* task and every lost worker.
AskedOncePerRun == \A p \in Places : asked[p] <= 1 + Runs(p)

\* A place without address is being resolved, or its task was lost between
\* the commit and the queue, was given up, or had no key to Google.
NoneForgotten ==
  \A p \in Places :
    place[p].status = "pending" /\ resolver[p].at \in {"none", "saved"} => p \in givenUp

\* Geocoding as a whole: addresses belong to their cell, Google is asked once
\* per run, and a place is left without an answer only in the ways named.
GeoInv == /\ GeoTypes /\ AddressesOfTheCell /\ OneAddressPerCell /\ AskedOncePerRun
          /\ NoneForgotten /\ RivalsCrossed /\ TasksInStep
=============================================================================
