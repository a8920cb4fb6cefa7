----------------------------- MODULE AdCampaign -----------------------------
(***************************************************************************)
(* The life of one campaign (src/advertisements): authoring, review, the   *)
(* human and the scheduled transitions, delivery to viewers, and the       *)
(* recording and billing of what the viewers' clients report.              *)
(*                                                                         *)
(* A view, and the pausing sweep, work on an instance of the campaign that *)
(* they read without a lock: they check that copy and write to the row     *)
(* later.  A job of a worker is such a request, or a sweep that listed the *)
(* campaign, between the two.  AdEventService.record locks the row first   *)
(* and is one step, like every transaction that only writes.               *)
(*                                                                         *)
(* Days are not told apart: rollup is the sum of the AdDailyMetric rows.   *)
(* Targeting, daily and per-user caps only narrow whom an eligible         *)
(* campaign is shown to; Cap and Budget, which only stop delivery, are not *)
(* changed by edits.  A definition just before another with the same       *)
(* parameters (AllowedLoose, ...) is a mutant: a bug the code could have   *)
(* had, used by no specification; README.md says what each one breaks.     *)
(***************************************************************************)
EXTENDS Integers, FiniteSets

CONSTANTS
  Beacons,    \* what clients may report of the campaign: one event each
  KindOf,     \* KindOf[b]: the event's type; "other" moves no counter
  Keyed,      \* Keyed[b]: the client sends a dedupe_key with it
  Workers,    \* threads that run requests and sweeps
  Prices,     \* what the advertiser may set: [kind, bid], in hundredths
  Windows,    \* and ask for: <<starts_at, ends_at>>
  Cap,        \* total_impression_cap, 0 = uncapped
  Budget,     \* budget_amount, 0 = unlimited
  MaxTime,    \* bound: where the clock stops
  MaxRuns,    \* bound: MaxRuns[b], how often the task of beacon b runs
  MaxAttach   \* bound: attach_ad_creatives tasks in the queue

Counted == {"impression", "click", "conversion"}
Times   == 0 .. MaxTime

ASSUME BeaconsFinite == IsFiniteSet(Beacons)
ASSUME KindOfKinds   == KindOf \in [Beacons -> Counted \cup {"other"}]
ASSUME KeyedBoolean  == Keyed \in [Beacons -> BOOLEAN]
ASSUME PricesKnown   == Prices \subseteq [kind : Counted, bid : Nat]
ASSUME WindowsKnown  == Windows \subseteq Times \X Times
ASSUME LimitsNat     == Cap \in Nat /\ Budget \in Nat
ASSUME BoundsNat     == MaxTime \in Nat /\ MaxAttach \in Nat /\ MaxRuns \in [Beacons -> Nat]

VARIABLES
  row,       \* the Advertisement row
  approved,  \* history: a reviewer has approved the campaign
  creative,  \* the campaign has an AdCreative row
  attach,    \* attach_ad_creatives tasks in the queue
  now,       \* the clock
  job,       \* job[w]: the request or sweep worker w is in, with its copy
  shown,     \* history: a viewer got the campaign
  runs,      \* runs[b]: how often record_ad_event ran for b
  log,       \* AdEvent rows: <<beacon, run that wrote it>>
  rollup     \* the sums over the campaign's AdDailyMetric rows

authoring == <<row, approved, creative, attach>>
events    == <<shown, runs, log, rollup>>
vars      == <<authoring, now, job, events>>

Statuses == {"draft", "pending_review", "approved", "running", "paused",
             "completed", "rejected", "cancelled"}
Reviewed == {"approved", "running", "paused", "completed"}
Editable == {"draft", "rejected"}
Terminal == {"completed", "cancelled"}
Rows     == [status : Statuses, deleted : BOOLEAN, window : Windows,
             price : Prices, counts : [Counted -> Nat], spent : Nat]
Requests == {"submit", "approve", "reject", "pause", "resume", "cancel"}
Sweeps   == {"activate", "complete", "exhaust"}
NoJob    == [op |-> "idle"]
Jobs     == {NoJob} \cup [op : Requests, window : Windows] \cup
            [op : Sweeps \cup {"delete"}] \cup [op : {"update"}, copy : Rows]

\* ALLOWED_TRANSITIONS
AllowedLoose(status) ==
  CASE status = "draft"          -> {"pending_review", "paused", "cancelled"}
    [] status = "pending_review" -> {"approved", "rejected", "cancelled"}
    [] status = "approved"       -> {"running", "paused", "cancelled"}
    [] status \in {"running", "paused"} ->
         {"running", "paused", "completed", "cancelled"} \ {status}
    [] status = "rejected"       -> {"draft"}
    [] status \in Terminal       -> {}
Allowed(status) ==
  CASE status = "draft"          -> {"pending_review", "cancelled"}
    [] status = "pending_review" -> {"approved", "rejected", "cancelled"}
    [] status = "approved"       -> {"running", "paused", "cancelled"}
    [] status \in {"running", "paused"} ->
         {"running", "paused", "completed", "cancelled"} \ {status}
    [] status = "rejected"       -> {"draft"}
    [] status \in Terminal       -> {}

\* The status that a request moves its copy to.
Target ==
  [submit |-> "pending_review", approve |-> "approved", reject |-> "rejected",
   pause |-> "paused", resume |-> "running", cancel |-> "cancelled"]

ValidWindow(window) == window[1] < window[2]
Started(window)  == window[1] <= now
Ended(window)    == window[2] <= now
InWindow(window) == Started(window) /\ ~Ended(window)
Exhausted(r) == \/ Cap > 0 /\ r.counts["impression"] >= Cap
                \/ Budget > 0 /\ r.spent >= Budget

\* AdvertisementService.create; its images are attached by a task.
Init ==
  /\ \E window \in Windows, price \in Prices :
       /\ ValidWindow(window)
       /\ row = [status |-> "draft", deleted |-> FALSE, window |-> window,
                 price |-> price,
                 counts |-> [k \in Counted |-> 0], spent |-> 0]
  /\ approved = FALSE
  /\ creative = FALSE
  /\ attach \in {0, 1} \cap 0 .. MaxAttach
  /\ now = 0
  /\ job = [w \in Workers |-> NoJob]
  /\ shown = FALSE
  /\ runs = [b \in Beacons |-> 0]
  /\ log = {}
  /\ rollup = [counts |-> [k \in Counted |-> 0], spend |-> 0]

Tick ==
  /\ now < MaxTime
  /\ now' = now + 1
  /\ UNCHANGED <<authoring, job, events>>

Start(w, j) == job[w] = NoJob /\ job' = [job EXCEPT ![w] = j]
Finish(w)   == job' = [job EXCEPT ![w] = NoJob]

\* save(update_fields=["status", ...]) touches no other column of the row.
SetStatus(status) == row' = [row EXCEPT !.status = status]

-----------------------------------------------------------------------------
(* Requests *)

\* The view reads the campaign.  The status that _transition will check is
\* that of this copy; a request whose check fails changes nothing.
BeginRequest(w, op) ==
  /\ ~row.deleted
  /\ Target[op] \in Allowed(row.status)
  /\ Start(w, [op |-> op, window |-> row.window])
  /\ UNCHANGED <<authoring, now, events>>

\* Every campaign has a placement, since the serializers ask for one.
Submit(w) ==
  /\ job[w].op = "submit"
  /\ creative
  /\ ~Ended(job[w].window)
  /\ SetStatus("pending_review")
  /\ Finish(w)
  /\ UNCHANGED <<approved, creative, attach, now, events>>

\* Both saves of an approval within the window commit together.
Approve(w) ==
  /\ job[w].op = "approve"
  /\ SetStatus(IF InWindow(job[w].window) THEN "running" ELSE "approved")
  /\ approved' = TRUE
  /\ Finish(w)
  /\ UNCHANGED <<creative, attach, now, events>>

Transition(w) ==
  /\ job[w].op \in {"reject", "pause", "resume", "cancel"}
  /\ job[w].op = "resume" => ~Ended(job[w].window)
  /\ SetStatus(Target[job[w].op])
  /\ Finish(w)
  /\ UNCHANGED <<approved, creative, attach, now, events>>

BeginDelete(w) ==
  /\ ~row.deleted
  /\ Start(w, [op |-> "delete"])
  /\ UNCHANGED <<authoring, now, events>>
SoftDelete(w) ==
  /\ job[w].op = "delete"
  /\ row' = [row EXCEPT !.deleted = TRUE]
  /\ Finish(w)
  /\ UNCHANGED <<approved, creative, attach, now, events>>

BeginUpdate(w) ==
  /\ ~row.deleted
  /\ Start(w, [op |-> "update", copy |-> row])
  /\ UNCHANGED <<authoring, now, events>>

\* New images: the old ones go, a task attaches the new ones, if any.
ReplaceMedia ==
  /\ creative' = FALSE
  /\ attach' \in {attach, attach + 1} \cap 0 .. MaxAttach

\* save() writes every column of the copy, the ones it did not change too.
Update(w) ==
  LET copy == job[w].copy IN
  /\ job[w].op = "update"
  /\ \E window \in Windows, price \in Prices :
       /\ ValidWindow(window)
       /\ copy.status \notin Editable => window = copy.window
       /\ row' = [copy EXCEPT !.window = window, !.price = price]
  /\ ReplaceMedia \/ UNCHANGED <<creative, attach>>
  /\ Finish(w)
  /\ UNCHANGED <<approved, now, events>>

\* attach_ad_creatives.  Media that is gone by now is skipped; a task whose
\* worker is lost is delivered again.
AttachCreatives ==
  /\ attach > 0
  /\ creative' \in {creative, TRUE}
  /\ attach' \in {attach, attach - 1}
  /\ UNCHANGED <<row, approved, now, job, events>>

\* The request is refused (no image, window over), or the process dies.
GiveUp(w) ==
  /\ job[w] # NoJob
  /\ Finish(w)
  /\ UNCHANGED <<authoring, now, events>>

-----------------------------------------------------------------------------
(* Scheduled sweeps *)

\* activate_due_advertisements, complete_expired_advertisements and
\* pause_exhausted_advertisements find the campaign without a lock.
Due(sweep) ==
  /\ ~row.deleted
  /\ CASE sweep = "activate" -> row.status = "approved" /\ InWindow(row.window)
       [] sweep = "complete" -> row.status \in {"running", "paused"} /\ Ended(row.window)
       [] sweep = "exhaust"  -> row.status = "running" /\ Exhausted(row)

SweepLists(w, sweep) ==
  /\ Due(sweep)
  /\ Start(w, [op |-> sweep])
  /\ UNCHANGED <<authoring, now, events>>

\* The first two lock the row and look at the status again ...
SweepActivates(w) ==
  /\ job[w].op = "activate"
  /\ row.status = "approved"
  /\ SetStatus("running")
  /\ Finish(w)
  /\ UNCHANGED <<approved, creative, attach, now, events>>

SweepCompletes(w) ==
  /\ job[w].op = "complete"
  /\ row.status \in {"running", "paused"}
  /\ SetStatus("completed")
  /\ Finish(w)
  /\ UNCHANGED <<approved, creative, attach, now, events>>

\* ... the third saves the copy that its query fetched.
SweepPauses(w) ==
  /\ job[w].op = "exhaust"
  /\ SetStatus("paused")
  /\ Finish(w)
  /\ UNCHANGED <<approved, creative, attach, now, events>>

-----------------------------------------------------------------------------
(* Delivery and recording *)

\* AdDeliveryService.select finds the campaign eligible and shows it.
ServeAnyStatus ==
  /\ ~shown
  /\ ~row.deleted /\ InWindow(row.window)
  /\ creative
  /\ ~(Cap > 0 /\ row.counts["impression"] >= Cap)
  /\ shown' = TRUE
  /\ UNCHANGED <<authoring, now, job, runs, log, rollup>>
Serve ==
  /\ ~shown
  /\ row.status = "running" /\ ~row.deleted /\ InWindow(row.window)
  /\ creative
  /\ ~(Cap > 0 /\ row.counts["impression"] >= Cap)
  /\ shown' = TRUE
  /\ UNCHANGED <<authoring, now, job, runs, log, rollup>>

\* The unique constraint on the dedupe_key.  A beacon without a key is never a
\* duplicate.
Duplicate(b)      == Keyed[b] /\ \E r \in log : r[1] = b

\* What one event costs, in hundredths.  A bid for impressions is for a thousand
\* of them, and both sums of money have two decimals: each addition is rounded.
Cost(b) ==
  IF KindOf[b] # row.price.kind THEN 0
  ELSE IF KindOf[b] = "impression" THEN (row.price.bid + 500) \div 1000
  ELSE row.price.bid

Plus(counts, b) ==
  [k \in Counted |-> IF k = KindOf[b] THEN counts[k] + 1 ELSE counts[k]]

\* _apply_counters: the campaign's counters and the day's rollup.
ApplyToPaying(b) ==
  /\ row' = [row EXCEPT !.counts = Plus(@, b), !.spent = @ + Cost(b)]
  /\ rollup' = IF Cost(b) = 0 THEN rollup
               ELSE [counts |-> Plus(rollup.counts, b), spend |-> rollup.spend + Cost(b)]
ApplyCounters(b) ==
  /\ row' = [row EXCEPT !.counts = Plus(@, b), !.spent = @ + Cost(b)]
  /\ rollup' = [counts |-> Plus(rollup.counts, b), spend |-> rollup.spend + Cost(b)]

\* record_ad_event.  Anyone may report a beacon (AdEventView is AllowAny), shown
\* or not, and report it again, and celery may run the task again.  Neither the
\* campaign's status nor its review plays a part.
RecordCountsFirst(b) ==
  /\ runs[b] < MaxRuns[b]
  /\ runs' = [runs EXCEPT ![b] = @ + 1]
  /\ IF row.deleted
     THEN UNCHANGED <<row, log, rollup>>
     ELSE IF Duplicate(b)
     THEN /\ row' = [row EXCEPT !.counts = Plus(@, b), !.spent = @ + Cost(b)]
          /\ UNCHANGED <<log, rollup>>
     ELSE ApplyCounters(b) /\ log' = log \cup {<<b, runs[b] + 1>>}
  /\ UNCHANGED <<approved, creative, attach, now, job, shown>>
Record(b) ==
  /\ runs[b] < MaxRuns[b]
  /\ runs' = [runs EXCEPT ![b] = @ + 1]
  /\ IF row.deleted \/ Duplicate(b)
     THEN UNCHANGED <<row, log, rollup>>
     ELSE ApplyCounters(b) /\ log' = log \cup {<<b, runs[b] + 1>>}
  /\ UNCHANGED <<approved, creative, attach, now, job, shown>>

-----------------------------------------------------------------------------
RequestStep(w) ==
  \/ \E op \in Requests : BeginRequest(w, op)
  \/ Submit(w) \/ Approve(w) \/ Transition(w)
  \/ BeginDelete(w) \/ SoftDelete(w)
  \/ BeginUpdate(w) \/ Update(w)
  \/ GiveUp(w)
SweepStep(w) ==
  \/ \E sweep \in Sweeps : SweepLists(w, sweep)
  \/ SweepActivates(w) \/ SweepCompletes(w) \/ SweepPauses(w)

Next ==
  \/ Tick \/ AttachCreatives \/ Serve
  \/ \E w \in Workers : RequestStep(w) \/ SweepStep(w)
  \/ \E b \in Beacons : Record(b)

Spec == Init /\ [][Next]_vars

-----------------------------------------------------------------------------
(* Properties *)

\* The variables have their types, and no edit leaves the row or a copy with a
\* window that ends before it starts (the constraint ad_ends_after_start).
TypeOK ==
  /\ row \in Rows /\ ValidWindow(row.window)
  /\ approved \in BOOLEAN
  /\ creative \in BOOLEAN
  /\ attach \in 0 .. MaxAttach
  /\ now \in Times
  /\ job \in [Workers -> Jobs]
  /\ \A w \in Workers : job[w].op = "update" =>
       ValidWindow(job[w].copy.window)
  /\ shown \in BOOLEAN
  /\ runs \in [Beacons -> Nat]
  /\ log \subseteq Beacons \X Nat
  /\ rollup \in [counts : [Counted -> Nat], spend : Nat]

LoggedAs(k) == {r \in log : KindOf[r[1]] = k}

\* The rollup that delivery reads instead of the log agrees with it: replayed
\* beacons and billing never move one without the other.
RollupMatchesLog == \A k \in Counted : rollup.counts[k] = Cardinality(LoggedAs(k))

\* A beacon with a dedupe_key is recorded once, however often its client or
\* celery repeats it, and whatever happens to the campaign in between.
KeyedOnce == \A r, s \in log : r[1] = s[1] /\ Keyed[r[1]] => r = s

\* The advertiser is never charged for more than was delivered: stale edits may
\* set the row's counters back, but never beyond the rollup.
NeverOvercharged ==
  /\ row.spent <= rollup.spend
  /\ \A k \in Counted : row.counts[k] <= rollup.counts[k]

\* A campaign is live, or has been, only after a reviewer approved it, although
\* requests and sweeps act on statuses read earlier, and no viewer is shown a
\* campaign that nobody reviewed.  What is reported of it may still be recorded
\* and billed: Record asks for neither.
RunsOnlyReviewed ==
  ~approved => row.status \notin Reviewed /\ ~shown

\* What these rest on: a copy is behind the rollup; a copy or a request that
\* presupposes the approval comes after it; the log's rows are told apart by
\* the run that wrote them.
CopiesBehind ==
  \A w \in Workers : job[w].op = "update" =>
    /\ job[w].copy.spent <= rollup.spend
    /\ \A k \in Counted : job[w].copy.counts[k] <= rollup.counts[k]
JobsAfterApproval ==
  ~approved => \A w \in Workers :
    /\ job[w].op \notin {"pause", "resume"} \cup Sweeps
    /\ job[w].op = "update" => job[w].copy.status \notin Reviewed
LogFromRuns ==
  /\ IsFiniteSet(log)
  /\ \A r \in log : r[2] <= runs[r[1]]

IInv ==
  /\ TypeOK
  /\ RollupMatchesLog
  /\ KeyedOnce
  /\ NeverOvercharged
  /\ RunsOnlyReviewed
  /\ CopiesBehind
  /\ JobsAfterApproval
  /\ LogFromRuns

\* ALLOWED_TRANSITIONS (advertisement.py:50-51) and test_completed_is_terminal:
\* a completed or cancelled campaign stays so.  It does not hold: a request that
\* read the campaign before may move it on.
TerminalIsFinal ==
  [][row.status \in Terminal => row'.status = row.status]_vars
=============================================================================
