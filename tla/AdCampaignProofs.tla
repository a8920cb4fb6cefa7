------------------------- MODULE AdCampaignProofs -------------------------
(***************************************************************************)
(* Proofs about AdCampaign for every set of beacons and workers, all       *)
(* prices, windows and limits: type correctness, that the rollup agrees    *)
(* with the log, that keyed beacons are recorded once, that stale edits    *)
(* never make the advertiser pay for more than was delivered, and that a   *)
(* campaign runs only after it was reviewed.                               *)
(***************************************************************************)
EXTENDS AdCampaign, TLAPS, FiniteSetTheorems

USE KindOfKinds, KeyedBoolean, PricesKnown, WindowsKnown, LimitsNat, BoundsNat

RowOK(r)  == r \in Rows /\ ValidWindow(r.window)
JobOK(j)  == j \in Jobs /\ (j.op = "update" => ValidWindow(j.copy.window))

\* What a worker may do to its job, all other jobs staying as they are.
LEMMA JobsKept ==
  ASSUME TypeOK, NEW w \in Workers, NEW j, JobOK(j), job' = [job EXCEPT ![w] = j]
  PROVE  /\ job' \in [Workers -> Jobs]
         /\ \A x \in Workers : JobOK(job'[x])
<1>1. \A x \in Workers : JobOK(job[x])
  BY DEF TypeOK, JobOK
<1>2. j \in Jobs
  BY DEF JobOK
<1>3. job' \in [Workers -> Jobs]
  BY <1>2 DEF TypeOK
<1>4. \A x \in Workers : job'[x] = IF x = w THEN j ELSE job[x]
  BY DEF TypeOK
<1>. QED
  BY <1>1, <1>3, <1>4

LEMMA IdleOK == JobOK(NoJob)
BY DEF JobOK, Jobs, NoJob

\* A row keeps its type when its status is written.
LEMMA ColumnWritten ==
  ASSUME NEW r, RowOK(r), NEW s \in Statuses
  PROVE  RowOK([r EXCEPT !.status = s])
BY DEF RowOK, Rows, ValidWindow

LEMMA EditWritten ==
  ASSUME NEW r, RowOK(r), NEW win \in Windows, ValidWindow(win), NEW p \in Prices
  PROVE  RowOK([r EXCEPT !.window = win, !.price = p])
BY DEF RowOK, Rows, ValidWindow

LEMMA CostNat ==
  ASSUME RowOK(row), NEW b \in Beacons
  PROVE  Cost(b) \in Nat
<1>1. row.price.bid \in Nat
  BY DEF RowOK, Rows
<1>2. \A n \in Nat : (n + 500) \div 1000 \in Nat
  OBVIOUS
<1>. QED
  BY <1>1, <1>2 DEF Cost

LEMMA PlusNat ==
  ASSUME NEW c \in [Counted -> Nat], NEW b \in Beacons
  PROVE  Plus(c, b) \in [Counted -> Nat]
BY DEF Plus

LEMMA TargetStatus == \A op \in Requests : Target[op] \in Statuses
BY DEF Requests, Target, Statuses

-----------------------------------------------------------------------------
(* Types *)

LEMMA TypeInit == Init => TypeOK
<1>. SUFFICES ASSUME Init
              PROVE  TypeOK
  OBVIOUS
<1>1. row \in Rows /\ ValidWindow(row.window)
  BY DEF Init, Rows, Statuses
<1>2. job \in [Workers -> Jobs] /\ \A w \in Workers : job[w].op # "update"
  BY DEF Init, Jobs, NoJob
<1>3. rollup \in [counts : [Counted -> Nat], spend : Nat]
  BY DEF Init
<1>4. approved \in BOOLEAN /\ creative \in BOOLEAN /\ attach \in 0 .. MaxAttach
  BY Zenon DEF Init
<1>6. now \in Times
  <2>1. now = 0
    BY DEF Init
  <2>. QED
    BY <2>1 DEF Times
<1>5. shown \in BOOLEAN /\ runs \in [Beacons -> Nat] /\ log \subseteq Beacons \X Nat
  BY DEF Init
<1>. QED
  BY <1>1, <1>2, <1>3, <1>4, <1>5, <1>6 DEF TypeOK

LEMMA RowTyped == TypeOK => RowOK(row) /\ \A w \in Workers : JobOK(job[w])
BY DEF TypeOK, RowOK, JobOK

LEMMA UpdateJob ==
  ASSUME NEW j, JobOK(j), j.op = "update"
  PROVE  RowOK(j.copy)
BY DEF JobOK, RowOK, Jobs, NoJob, Requests, Sweeps

\* The requests,
LEMMA TypeRequest ==
  ASSUME TypeOK, NEW w \in Workers, RequestStep(w)
  PROVE  TypeOK'
<1>1. RowOK(row) /\ JobOK(job[w])
  BY RowTyped
<1>2. CASE \E op \in Requests : BeginRequest(w, op)
  <2>1. PICK op \in Requests : BeginRequest(w, op)
    BY <1>2
  <2>2. JobOK([op |-> op, window |-> row.window])
    BY <1>1 DEF RowOK, JobOK, Jobs, Rows, Requests
  <2>3. job' \in [Workers -> Jobs] /\ \A x \in Workers : JobOK(job'[x])
    BY <2>1, <2>2, JobsKept DEF BeginRequest, Start
  <2>. QED
    BY <2>1, <2>3 DEF BeginRequest, TypeOK, authoring, events, JobOK
<1>3. CASE Submit(w) \/ Approve(w) \/ Transition(w) \/ SoftDelete(w)
  <2>2. RowOK(row')
    <3>1. CASE SoftDelete(w)
      <4>1. row' = [row EXCEPT !.deleted = TRUE]
        BY <3>1 DEF SoftDelete
      <4>. QED
        BY <1>1, <4>1 DEF RowOK, Rows, ValidWindow
    <3>2. CASE Submit(w) \/ Approve(w) \/ Transition(w)
      <4>1. PICK s \in Statuses : row' = [row EXCEPT !.status = s]
        <5>1. CASE Submit(w)
          BY <5>1 DEF Submit, SetStatus, Statuses
        <5>2. CASE Approve(w)
          BY <5>2 DEF Approve, SetStatus, Statuses
        <5>3. CASE Transition(w)
          <6>1. job[w].op \in Requests
            BY <5>3 DEF Transition, Requests
          <6>2. row' = [row EXCEPT !.status = Target[job[w].op]]
            BY <5>3 DEF Transition, SetStatus
          <6>. QED
            BY <6>1, <6>2, TargetStatus
        <5>. QED
          BY <3>2, <5>1, <5>2, <5>3
      <4>. QED
        BY <1>1, <4>1, ColumnWritten
    <3>. QED
      BY <1>3, <3>1, <3>2
  <2>3. job' \in [Workers -> Jobs] /\ \A x \in Workers : JobOK(job'[x])
    BY <1>3, IdleOK, JobsKept DEF Submit, Approve, Transition, SoftDelete, Finish
  <2>4. /\ approved' \in BOOLEAN
        /\ UNCHANGED <<creative, attach, now, events>>
    BY <1>3 DEF TypeOK, Submit, Approve, Transition, SoftDelete
  <2>. QED
    BY <2>2, <2>3, <2>4 DEF TypeOK, events, JobOK, RowOK
<1>4. CASE BeginDelete(w)
  <2>1. JobOK([op |-> "delete"])
    BY DEF JobOK, Jobs
  <2>2. job' \in [Workers -> Jobs] /\ \A x \in Workers : JobOK(job'[x])
    BY <1>4, <2>1, JobsKept DEF BeginDelete, Start
  <2>. QED
    BY <1>4, <2>2 DEF BeginDelete, TypeOK, authoring, events, JobOK
<1>5. CASE BeginUpdate(w)
  <2>1. JobOK([op |-> "update", copy |-> row])
    BY <1>1 DEF RowOK, JobOK, Jobs
  <2>2. job' \in [Workers -> Jobs] /\ \A x \in Workers : JobOK(job'[x])
    BY <1>5, <2>1, JobsKept DEF BeginUpdate, Start
  <2>. QED
    BY <1>5, <2>2 DEF BeginUpdate, TypeOK, authoring, events, JobOK
<1>6. CASE Update(w)
  <2>1. RowOK(job[w].copy)
    BY <1>1, <1>6, UpdateJob DEF Update
  <2>2. PICK win \in Windows, p \in Prices :
          ValidWindow(win) /\ row' = [job[w].copy EXCEPT !.window = win, !.price = p]
    BY <1>6 DEF Update
  <2>3. RowOK(row')
    BY <2>1, <2>2, EditWritten
  <2>4. job' \in [Workers -> Jobs] /\ \A x \in Workers : JobOK(job'[x])
    BY <1>6, IdleOK, JobsKept DEF Update, Finish
  <2>5. creative' \in BOOLEAN /\ attach' \in 0 .. MaxAttach
    BY <1>6 DEF Update, ReplaceMedia, TypeOK
  <2>. QED
    BY <1>6, <2>3, <2>4, <2>5 DEF Update, TypeOK, events, JobOK, RowOK
<1>7. CASE GiveUp(w)
  <2>1. job' \in [Workers -> Jobs] /\ \A x \in Workers : JobOK(job'[x])
    BY <1>7, IdleOK, JobsKept DEF GiveUp, Finish
  <2>. QED
    BY <1>7, <2>1 DEF GiveUp, TypeOK, authoring, events, JobOK
<1>. QED
  BY <1>2, <1>3, <1>4, <1>5, <1>6, <1>7 DEF RequestStep

\* the sweeps,
LEMMA TypeSweep ==
  ASSUME TypeOK, NEW w \in Workers, SweepStep(w)
  PROVE  TypeOK'
<1>1. RowOK(row)
  BY RowTyped
<1>2. CASE \E sweep \in Sweeps : SweepLists(w, sweep)
  <2>1. PICK sweep \in Sweeps : SweepLists(w, sweep)
    BY <1>2
  <2>2. JobOK([op |-> sweep])
    BY DEF JobOK, Jobs, Sweeps
  <2>3. job' \in [Workers -> Jobs] /\ \A x \in Workers : JobOK(job'[x])
    BY <2>1, <2>2, JobsKept DEF SweepLists, Start
  <2>. QED
    BY <2>1, <2>3 DEF SweepLists, TypeOK, authoring, events, JobOK
<1>3. CASE SweepActivates(w) \/ SweepCompletes(w) \/ SweepPauses(w)
  <2>1. PICK s \in Statuses : row' = [row EXCEPT !.status = s]
    BY <1>3 DEF SweepActivates, SweepCompletes, SweepPauses, SetStatus, Statuses
  <2>2. RowOK(row')
    BY <1>1, <2>1, ColumnWritten
  <2>3. job' \in [Workers -> Jobs] /\ \A x \in Workers : JobOK(job'[x])
    BY <1>3, IdleOK, JobsKept DEF SweepActivates, SweepCompletes, SweepPauses, Finish
  <2>4. UNCHANGED <<approved, creative, attach, now, events>>
    BY <1>3 DEF SweepActivates, SweepCompletes, SweepPauses
  <2>. QED
    BY <2>2, <2>3, <2>4 DEF TypeOK, events, JobOK, RowOK
<1>. QED
  BY <1>2, <1>3 DEF SweepStep

\* delivery and recording.
LEMMA TypeRecord ==
  ASSUME TypeOK, NEW b \in Beacons, Record(b)
  PROVE  TypeOK'
<1>1. RowOK(row)
  BY RowTyped
<1>2. RowOK(row') /\ rollup' \in [counts : [Counted -> Nat], spend : Nat]
  <2>1. CASE UNCHANGED <<row, rollup>>
    BY <1>1, <2>1 DEF TypeOK
  <2>2. CASE ApplyCounters(b)
    <3>1. Cost(b) \in Nat
      BY <1>1, CostNat
    <3>2. row.counts \in [Counted -> Nat] /\ row.spent \in Nat
      BY <1>1 DEF RowOK, Rows
    <3>3. rollup.counts \in [Counted -> Nat] /\ rollup.spend \in Nat
      BY DEF TypeOK
    <3>4. Plus(row.counts, b) \in [Counted -> Nat] /\ Plus(rollup.counts, b) \in [Counted -> Nat]
      BY <3>2, <3>3, PlusNat
    <3>5. row.spent + Cost(b) \in Nat /\ rollup.spend + Cost(b) \in Nat
      BY <3>1, <3>2, <3>3
    <3>6. row' = [row EXCEPT !.counts = Plus(row.counts, b), !.spent = row.spent + Cost(b)]
      BY <2>2 DEF ApplyCounters
    <3>7. rollup' = [counts |-> Plus(rollup.counts, b), spend |-> rollup.spend + Cost(b)]
      BY <2>2 DEF ApplyCounters
    <3>. HIDE DEF Cost
    <3>8. RowOK(row')
      BY <1>1, <3>4, <3>5, <3>6 DEF RowOK, Rows, ValidWindow
    <3>. QED
      BY <3>4, <3>5, <3>7, <3>8
  <2>. QED
    BY <2>1, <2>2 DEF Record
<1>3. log' \subseteq Beacons \X Nat /\ runs' \in [Beacons -> Nat]
  <2>1. runs[b] \in Nat
    BY DEF TypeOK
  <2>2. <<b, runs[b] + 1>> \in Beacons \X Nat
    BY <2>1
  <2>. QED
    BY <2>2 DEF TypeOK, Record
<1>. QED
  BY <1>2, <1>3 DEF Record, TypeOK, RowOK

LEMMA TypeNext == TypeOK /\ [Next]_vars => TypeOK'
<1>. SUFFICES ASSUME TypeOK, [Next]_vars
              PROVE  TypeOK'
  OBVIOUS
<1>1. CASE Tick
  BY <1>1 DEF Tick, TypeOK, Times, authoring, events
<1>2. CASE AttachCreatives
  <2>1. attach' \in 0 .. MaxAttach
    BY <1>2 DEF AttachCreatives, TypeOK
  <2>2. creative' \in BOOLEAN
    BY <1>2, Zenon DEF AttachCreatives, TypeOK
  <2>. QED
    BY <1>2, <2>1, <2>2 DEF AttachCreatives, TypeOK, events
<1>3. CASE \E w \in Workers : RequestStep(w) \/ SweepStep(w)
  BY <1>3, TypeRequest, TypeSweep
<1>4. CASE Serve
  BY <1>4 DEF Serve, TypeOK, authoring
<1>5. CASE \E b \in Beacons : Record(b)
  BY <1>5, TypeRecord
<1>6. CASE UNCHANGED vars
  BY <1>6 DEF vars, authoring, events, TypeOK
<1>. QED
  BY <1>1, <1>2, <1>3, <1>4, <1>5, <1>6 DEF Next

-----------------------------------------------------------------------------
(* What a step may do to jobs, to the row and to the log *)

\* A job goes on, ends, or starts from the row as it is.
LEMMA JobOrigins ==
  ASSUME TypeOK, [Next]_vars, NEW x \in Workers
  PROVE  \/ job'[x] = job[x]
         \/ job'[x] = NoJob
         \/ \E op \in Requests : /\ job'[x].op = op
                                 /\ Target[op] \in Allowed(row.status)
         \/ job'[x].op = "delete"
         \/ job'[x] = [op |-> "update", copy |-> row] /\ UNCHANGED rollup
         \/ \E sweep \in Sweeps : job'[x].op = sweep /\ Due(sweep)
<1>1. CASE UNCHANGED job
  BY <1>1
<1>2. ASSUME NEW w \in Workers, Finish(w)
      PROVE  job'[x] = job[x] \/ job'[x] = NoJob
  BY <1>2 DEF Finish, TypeOK
<1>3. ASSUME NEW w \in Workers, NEW j, Start(w, j)
      PROVE  job'[x] = job[x] \/ job'[x] = j
  BY <1>3 DEF Start, TypeOK
<1>4. ASSUME NEW w \in Workers, NEW op \in Requests, BeginRequest(w, op)
      PROVE  \/ job'[x] = job[x]
             \/ job'[x].op = op /\ Target[op] \in Allowed(row.status)
  BY <1>3, <1>4 DEF BeginRequest
<1>5. ASSUME NEW w \in Workers, BeginDelete(w)
      PROVE  job'[x] = job[x] \/ job'[x].op = "delete"
  BY <1>3, <1>5 DEF BeginDelete
<1>6. ASSUME NEW w \in Workers, BeginUpdate(w)
      PROVE  \/ job'[x] = job[x]
             \/ job'[x] = [op |-> "update", copy |-> row] /\ UNCHANGED rollup
  BY <1>3, <1>6 DEF BeginUpdate, events
<1>7. ASSUME NEW w \in Workers, NEW sweep \in Sweeps, SweepLists(w, sweep)
      PROVE  \/ job'[x] = job[x]
             \/ job'[x].op = sweep /\ Due(sweep)
  BY <1>3, <1>7 DEF SweepLists
<1>8. ASSUME NEW w \in Workers,
             \/ Submit(w) \/ Approve(w) \/ Transition(w) \/ SoftDelete(w)
             \/ Update(w) \/ GiveUp(w)
             \/ SweepActivates(w) \/ SweepCompletes(w) \/ SweepPauses(w)
      PROVE  Finish(w)
  BY <1>8 DEF Submit, Approve, Transition, SoftDelete, Update, GiveUp,
              SweepActivates, SweepCompletes, SweepPauses
<1>9. ASSUME NEW w \in Workers, RequestStep(w)
      PROVE  \/ Finish(w)
             \/ \E op \in Requests : BeginRequest(w, op)
             \/ BeginDelete(w) \/ BeginUpdate(w)
  BY <1>8, <1>9 DEF RequestStep
<1>10. ASSUME NEW w \in Workers, SweepStep(w)
       PROVE  Finish(w) \/ \E sweep \in Sweeps : SweepLists(w, sweep)
  BY <1>8, <1>10 DEF SweepStep
<1>11. \/ UNCHANGED job
       \/ \E w \in Workers : RequestStep(w) \/ SweepStep(w)
  BY DEF Next, Tick, AttachCreatives, Serve, Record, vars
<1>. QED
  BY <1>1, <1>2, <1>4, <1>5, <1>6, <1>7, <1>9, <1>10, <1>11

\* Only record_ad_event moves the log, the rollup and the runs.
LEMMA LogMoves ==
  ASSUME [Next]_vars
  PROVE  (UNCHANGED <<runs, log, rollup>>) \/ \E b \in Beacons : Record(b)
BY DEF Next, Tick, AttachCreatives, Serve, RequestStep, SweepStep, BeginRequest,
       Submit, Approve, Transition, BeginDelete, SoftDelete, BeginUpdate, Update,
       GiveUp, SweepLists, SweepActivates, SweepCompletes, SweepPauses,
       vars, events

\* Only Serve moves the showings.
LEMMA ShowingsMove ==
  ASSUME [Next]_vars
  PROVE  UNCHANGED shown \/ Serve
BY DEF Next, Tick, AttachCreatives, Record, RequestStep, SweepStep, BeginRequest,
       Submit, Approve, Transition, BeginDelete, SoftDelete, BeginUpdate, Update,
       GiveUp, SweepLists, SweepActivates, SweepCompletes, SweepPauses,
       vars, events

\* What the row has counted comes from the row, from a copy or from recording.
LEMMA RowOrigins ==
  ASSUME TypeOK, [Next]_vars
  PROVE  \/ row'.spent = row.spent /\ row'.counts = row.counts
         \/ \E w \in Workers : /\ job[w].op = "update"
                               /\ row'.spent = job[w].copy.spent
                               /\ row'.counts = job[w].copy.counts
         \/ \E b \in Beacons : Record(b)
<1>. DEFINE Same == row'.spent = row.spent /\ row'.counts = row.counts
<1>0. row \in Rows
  BY DEF TypeOK
<1>1. CASE UNCHANGED row
  BY <1>1
<1>2. ASSUME NEW s, SetStatus(s)
      PROVE  Same
  BY <1>0, <1>2 DEF SetStatus, Rows
<1>3. ASSUME NEW w \in Workers, SoftDelete(w)
      PROVE  Same
  BY <1>0, <1>3 DEF SoftDelete, Rows
<1>4. ASSUME NEW w \in Workers,
             \/ Submit(w) \/ Approve(w) \/ Transition(w)
             \/ SweepActivates(w) \/ SweepCompletes(w) \/ SweepPauses(w)
      PROVE  Same
  <2>1. \E s : SetStatus(s)
    BY <1>4 DEF Submit, Approve, Transition, SweepActivates, SweepCompletes, SweepPauses
  <2>. QED
    BY <1>2, <2>1
<1>5. ASSUME NEW w \in Workers, Update(w)
      PROVE  /\ job[w].op = "update"
             /\ row'.spent = job[w].copy.spent
             /\ row'.counts = job[w].copy.counts
  <2>1. job[w].op = "update"
    BY <1>5 DEF Update
  <2>2. job[w].copy \in Rows
    BY <2>1, RowTyped, UpdateJob DEF RowOK
  <2>3. PICK win \in Windows, p \in Prices :
          row' = [job[w].copy EXCEPT !.window = win, !.price = p]
    BY <1>5 DEF Update
  <2>. QED
    BY <2>1, <2>2, <2>3 DEF Rows
<1>6. \/ UNCHANGED row
      \/ \E w \in Workers :
           \/ Submit(w) \/ Approve(w) \/ Transition(w) \/ SoftDelete(w) \/ Update(w)
           \/ SweepActivates(w) \/ SweepCompletes(w) \/ SweepPauses(w)
      \/ \E b \in Beacons : Record(b)
  BY DEF Next, Tick, AttachCreatives, Serve, RequestStep, SweepStep, BeginRequest,
         BeginDelete, BeginUpdate, GiveUp, SweepLists, vars, authoring
<1>. QED
  BY <1>1, <1>3, <1>4, <1>5, <1>6

-----------------------------------------------------------------------------
(* The log and the rollup *)

\* A new row's run has not written before.
LEMMA FreshRow ==
  ASSUME TypeOK, LogFromRuns, NEW b \in Beacons
  PROVE  <<b, runs[b] + 1>> \notin log
BY DEF TypeOK, LogFromRuns

LEMMA LogNext ==
  ASSUME TypeOK, LogFromRuns, KeyedOnce, RollupMatchesLog, [Next]_vars
  PROVE  LogFromRuns' /\ KeyedOnce' /\ RollupMatchesLog'
<1>1. CASE UNCHANGED <<runs, log, rollup>>
  BY <1>1 DEF LogFromRuns, KeyedOnce, RollupMatchesLog, LoggedAs
<1>2. ASSUME NEW b \in Beacons, Record(b), UNCHANGED <<log, rollup>>
      PROVE  LogFromRuns' /\ KeyedOnce' /\ RollupMatchesLog'
  <2>1. \A c \in Beacons : runs[c] \in Nat /\ runs'[c] \in Nat /\ runs[c] <= runs'[c]
    BY <1>2 DEF Record, TypeOK
  <2>2. \A r \in log : r[1] \in Beacons /\ r[2] \in Nat
    BY DEF TypeOK
  <2>3. LogFromRuns'
    BY <1>2, <2>1, <2>2 DEF LogFromRuns, Record
  <2>. QED
    BY <1>2, <2>3 DEF KeyedOnce, RollupMatchesLog, LoggedAs
<1>3. ASSUME NEW b \in Beacons, Record(b), ~Duplicate(b), ApplyCounters(b),
             log' = log \cup {<<b, runs[b] + 1>>}
      PROVE  LogFromRuns' /\ KeyedOnce' /\ RollupMatchesLog'
  <2>. DEFINE new == <<b, runs[b] + 1>>
  <2>1. \A c \in Beacons : runs[c] \in Nat /\ runs'[c] \in Nat /\ runs[c] <= runs'[c]
    BY <1>3 DEF Record, TypeOK
  <2>2. \A r \in log : r[1] \in Beacons /\ r[2] \in Nat
    BY DEF TypeOK
  <2>3. runs'[b] = runs[b] + 1
    BY <1>3 DEF Record, TypeOK
  <2>4. LogFromRuns'
    <3>1. IsFiniteSet(log')
      BY <1>3, FS_AddElement DEF LogFromRuns
    <3>2. ASSUME NEW r \in log'
          PROVE  r[2] <= runs'[r[1]]
      <4>1. CASE r \in log
        BY <1>3, <2>1, <2>2, <4>1 DEF LogFromRuns, Record
      <4>2. CASE r = new
        BY <2>1, <2>3, <4>2
      <4>. QED
        BY <1>3, <4>1, <4>2
    <3>. QED
      BY <3>1, <3>2 DEF LogFromRuns
  <2>5. KeyedOnce'
    BY <1>3 DEF KeyedOnce, Duplicate
  <2>6. RollupMatchesLog'
    <3>. SUFFICES ASSUME NEW k \in Counted
                  PROVE  rollup'.counts[k] = Cardinality(LoggedAs(k)')
      BY DEF RollupMatchesLog
    <3>1. rollup.counts[k] = Cardinality(LoggedAs(k)) /\ IsFiniteSet(LoggedAs(k))
      BY FS_Subset DEF RollupMatchesLog, LogFromRuns, LoggedAs
    <3>2. rollup'.counts[k] =
            IF k = KindOf[b] THEN rollup.counts[k] + 1 ELSE rollup.counts[k]
      BY <1>3 DEF ApplyCounters, Plus
    <3>3. CASE k = KindOf[b]
      <4>1. LoggedAs(k)' = LoggedAs(k) \cup {new}
        BY <1>3, <3>3 DEF LoggedAs
      <4>2. new \notin LoggedAs(k)
        BY FreshRow DEF LoggedAs
      <4>3. Cardinality(LoggedAs(k) \cup {new}) = Cardinality(LoggedAs(k)) + 1
        BY <3>1, <4>2, FS_AddElement
      <4>. QED
        BY <3>1, <3>2, <3>3, <4>1, <4>3
    <3>4. CASE k # KindOf[b]
      <4>1. LoggedAs(k)' = LoggedAs(k)
        BY <1>3, <3>4 DEF LoggedAs
      <4>. QED
        BY <3>1, <3>2, <3>4, <4>1
    <3>. QED
      BY <3>3, <3>4
  <2>. QED
    BY <2>4, <2>5, <2>6
<1>. QED
  BY <1>1, <1>2, <1>3, LogMoves DEF Record

-----------------------------------------------------------------------------
(* What the advertiser is charged *)

\* The rollup only grows,
LEMMA RollupGrows ==
  ASSUME TypeOK, [Next]_vars
  PROVE  /\ rollup.spend <= rollup'.spend
         /\ \A k \in Counted : rollup.counts[k] <= rollup'.counts[k]
<1>1. rollup.spend \in Nat /\ rollup.counts \in [Counted -> Nat]
  BY DEF TypeOK
<1>2. CASE UNCHANGED rollup
  BY <1>1, <1>2
<1>3. ASSUME NEW b \in Beacons, ApplyCounters(b)
      PROVE  /\ rollup.spend <= rollup'.spend
             /\ \A k \in Counted : rollup.counts[k] <= rollup'.counts[k]
  <2>1. Cost(b) \in Nat
    BY RowTyped, CostNat
  <2>2. rollup'.spend = rollup.spend + Cost(b)
    BY <1>3 DEF ApplyCounters
  <2>3. rollup'.counts = Plus(rollup.counts, b)
    BY <1>3 DEF ApplyCounters
  <2>4. \A k \in Counted : rollup.counts[k] <= Plus(rollup.counts, b)[k]
    BY <1>1 DEF Plus
  <2>5. rollup.spend <= rollup'.spend
    BY <1>1, <2>1, <2>2
  <2>. QED
    BY <2>3, <2>4, <2>5
<1>. QED
  BY <1>2, <1>3, LogMoves DEF Record

\* and neither the row nor a copy gets ahead of it.
LEMMA ChargesNext ==
  ASSUME TypeOK, TypeOK', NeverOvercharged, CopiesBehind, [Next]_vars
  PROVE  NeverOvercharged' /\ CopiesBehind'
<1>. DEFINE Behind(r, l) == /\ r.spent <= l.spend
                            /\ \A k \in Counted : r.counts[k] <= l.counts[k]
<1>1. /\ row \in Rows /\ rollup \in [counts : [Counted -> Nat], spend : Nat]
      /\ rollup' \in [counts : [Counted -> Nat], spend : Nat]
  BY DEF TypeOK
<1>2. ASSUME NEW r \in Rows, Behind(r, rollup)
      PROVE  Behind(r, rollup')
  BY <1>1, <1>2, RollupGrows DEF Rows
<1>3. Behind(row, rollup)
  BY DEF NeverOvercharged
<1>4. ASSUME NEW w \in Workers, job[w].op = "update"
      PROVE  job[w].copy \in Rows /\ Behind(job[w].copy, rollup)
  BY <1>4, RowTyped, UpdateJob DEF RowOK, CopiesBehind
<1>5. Behind(row', rollup')
  <2>1. CASE row'.spent = row.spent /\ row'.counts = row.counts
    BY <1>1, <1>2, <1>3, <2>1
  <2>2. CASE \E w \in Workers : /\ job[w].op = "update"
                                /\ row'.spent = job[w].copy.spent
                                /\ row'.counts = job[w].copy.counts
    BY <1>2, <1>4, <2>2
  <2>3. ASSUME NEW b \in Beacons, ApplyCounters(b)
        PROVE  Behind(row', rollup')
    <3>1. Cost(b) \in Nat
      BY RowTyped, CostNat
    <3>2. /\ row'.spent = row.spent + Cost(b)
          /\ row'.counts = Plus(row.counts, b)
      BY <1>1, <2>3 DEF ApplyCounters, Rows
    <3>3. /\ rollup'.spend = rollup.spend + Cost(b)
          /\ rollup'.counts = Plus(rollup.counts, b)
      BY <2>3 DEF ApplyCounters
    <3>4. row.spent \in Nat /\ row.counts \in [Counted -> Nat]
      BY <1>1 DEF Rows
    <3>5. row'.spent <= rollup'.spend
      BY <1>1, <1>3, <3>1, <3>2, <3>3, <3>4
    <3>6. \A k \in Counted : Plus(row.counts, b)[k] <= Plus(rollup.counts, b)[k]
      BY <1>1, <1>3, <3>4 DEF Plus
    <3>. QED
      BY <3>2, <3>3, <3>5, <3>6
  <2>4. ASSUME NEW b \in Beacons, UNCHANGED <<row, rollup>>
        PROVE  Behind(row', rollup')
    BY <1>3, <2>4
  <2>. QED
    BY <2>1, <2>2, <2>3, <2>4, RowOrigins DEF Record
<1>6. CopiesBehind'
  <2>. SUFFICES ASSUME NEW x \in Workers, job'[x].op = "update"
                PROVE  Behind(job'[x].copy, rollup')
    BY DEF CopiesBehind
  <2>1. CASE job'[x] = job[x]
    BY <1>2, <1>4, <2>1
  <2>2. CASE job'[x] = [op |-> "update", copy |-> row] /\ UNCHANGED rollup
    BY <1>1, <1>3, <2>2
  <2>. QED
    BY <2>1, <2>2, JobOrigins DEF NoJob, Requests, Sweeps
<1>. QED
  BY <1>5, <1>6 DEF NeverOvercharged

-----------------------------------------------------------------------------
(* The review *)

\* An approval is needed to leave the unreviewed statuses.
LEMMA AllowedUnreviewed ==
  ASSUME NEW s \in Statuses, s \notin Reviewed, NEW op \in Requests,
         Target[op] \in Allowed(s)
  PROVE  op \notin {"pause", "resume"}
BY DEF Statuses, Reviewed, Requests, Target, Allowed, Terminal

LEMMA ReviewNext ==
  ASSUME TypeOK, RunsOnlyReviewed, JobsAfterApproval, [Next]_vars
  PROVE  RunsOnlyReviewed' /\ JobsAfterApproval'
<1>. SUFFICES ASSUME ~approved'
              PROVE  /\ row'.status \notin Reviewed /\ ~shown'
                     /\ \A x \in Workers :
                          /\ job'[x].op \notin {"pause", "resume"} \cup Sweeps
                          /\ job'[x].op = "update" => job'[x].copy.status \notin Reviewed
  BY DEF RunsOnlyReviewed, JobsAfterApproval
<1>1. ~approved
  BY DEF Next, Tick, AttachCreatives, Serve, Record, RequestStep, SweepStep,
         BeginRequest, Submit, Approve, Transition, BeginDelete, SoftDelete,
         BeginUpdate, Update, GiveUp, SweepLists, SweepActivates, SweepCompletes,
         SweepPauses, vars, authoring
<1>2. row.status \notin Reviewed /\ ~shown
  BY <1>1 DEF RunsOnlyReviewed
<1>3. row \in Rows /\ row.status \in Statuses
  BY DEF TypeOK, Rows
<1>4. ~Serve
  BY <1>2 DEF Serve, Reviewed
<1>5. ~shown'
  BY <1>2, <1>4, ShowingsMove
<1>6. \A w \in Workers : ~SweepActivates(w) /\ ~SweepCompletes(w) /\ ~SweepPauses(w)
  BY <1>1 DEF JobsAfterApproval, Sweeps, SweepActivates, SweepCompletes, SweepPauses
<1>7. row'.status \notin Reviewed
  <2>1. CASE UNCHANGED row
    BY <1>2, <2>1
  <2>2. ASSUME NEW w \in Workers, Submit(w)
        PROVE  row'.status \notin Reviewed
    BY <1>3, <2>2 DEF Submit, SetStatus, Rows, Reviewed
  <2>3. ASSUME NEW w \in Workers, Approve(w)
        PROVE  FALSE
    BY <2>3 DEF Approve
  <2>4. ASSUME NEW w \in Workers, Transition(w)
        PROVE  row'.status \notin Reviewed
    <3>1. job[w].op \in {"reject", "cancel"}
      BY <1>1, <2>4 DEF Transition, JobsAfterApproval
    <3>2. row'.status = Target[job[w].op]
      BY <1>3, <2>4 DEF Transition, SetStatus, Rows
    <3>. QED
      BY <3>1, <3>2 DEF Target, Reviewed
  <2>5. ASSUME NEW w \in Workers, SoftDelete(w)
        PROVE  row'.status \notin Reviewed
    BY <1>2, <1>3, <2>5 DEF SoftDelete, Rows
  <2>6. ASSUME NEW w \in Workers, Update(w)
        PROVE  row'.status \notin Reviewed
    <3>1. job[w].op = "update" /\ job[w].copy.status \notin Reviewed
      BY <1>1, <2>6 DEF Update, JobsAfterApproval
    <3>2. job[w].copy \in Rows
      BY <3>1, RowTyped, UpdateJob DEF RowOK
    <3>3. row'.status = job[w].copy.status
      BY <2>6, <3>2 DEF Update, Rows
    <3>. QED
      BY <3>1, <3>3
  <2>7. ASSUME NEW b \in Beacons, Record(b)
        PROVE  row'.status \notin Reviewed
    BY <1>2, <1>3, <2>7 DEF Record, ApplyCounters, Rows
  <2>8. \/ UNCHANGED row
        \/ \E w \in Workers :
             Submit(w) \/ Approve(w) \/ Transition(w) \/ SoftDelete(w) \/ Update(w)
        \/ \E b \in Beacons : Record(b)
    BY <1>4, <1>6
       DEF Next, Tick, AttachCreatives, RequestStep, SweepStep, BeginRequest,
           BeginDelete, BeginUpdate, GiveUp, SweepLists, vars, authoring
  <2>. QED
    BY <2>1, <2>2, <2>3, <2>4, <2>5, <2>6, <2>7, <2>8
<1>8. ASSUME NEW x \in Workers
      PROVE  /\ job'[x].op \notin {"pause", "resume"} \cup Sweeps
             /\ job'[x].op = "update" => job'[x].copy.status \notin Reviewed
  <2>1. CASE job'[x] = job[x]
    BY <1>1, <2>1 DEF JobsAfterApproval
  <2>2. CASE job'[x] = NoJob \/ job'[x].op = "delete"
    BY <2>2 DEF NoJob, Sweeps
  <2>3. CASE \E op \in Requests : job'[x].op = op /\ Target[op] \in Allowed(row.status)
    BY <1>2, <1>3, <2>3, AllowedUnreviewed DEF Requests, Sweeps
  <2>4. CASE job'[x] = [op |-> "update", copy |-> row]
    BY <1>2, <2>4 DEF Sweeps
  <2>5. ASSUME NEW sweep \in Sweeps, Due(sweep)
        PROVE  FALSE
    BY <1>2, <2>5 DEF Due, Sweeps, Reviewed
  <2>. QED
    BY <2>1, <2>2, <2>3, <2>4, <2>5, JobOrigins
<1>. QED
  BY <1>5, <1>7, <1>8

-----------------------------------------------------------------------------
(* The theorems *)

LEMMA IInvInit == Init => IInv
<1>. SUFFICES ASSUME Init
              PROVE  IInv
  OBVIOUS
<1>1. TypeOK
  BY TypeInit
<1>2. RollupMatchesLog
  <2>1. \A k \in Counted : LoggedAs(k) = {} /\ rollup.counts[k] = 0
    BY DEF Init, LoggedAs
  <2>. QED
    BY <2>1, FS_EmptySet DEF RollupMatchesLog
<1>3. KeyedOnce /\ LogFromRuns
  BY FS_EmptySet DEF Init, KeyedOnce, LogFromRuns
<1>4. NeverOvercharged
  BY DEF Init, NeverOvercharged
<1>5. RunsOnlyReviewed
  BY DEF Init, RunsOnlyReviewed, Reviewed
<1>6. CopiesBehind /\ JobsAfterApproval
  BY DEF Init, NoJob, CopiesBehind, JobsAfterApproval, Sweeps
<1>. QED
  BY <1>1, <1>2, <1>3, <1>4, <1>5, <1>6 DEF IInv

LEMMA IInvNext == IInv /\ [Next]_vars => IInv'
<1>. SUFFICES ASSUME IInv, [Next]_vars
              PROVE  IInv'
  OBVIOUS
<1>1. TypeOK /\ TypeOK'
  BY TypeNext DEF IInv
<1>2. LogFromRuns' /\ KeyedOnce' /\ RollupMatchesLog'
  BY <1>1, LogNext DEF IInv
<1>3. NeverOvercharged' /\ CopiesBehind'
  BY <1>1, ChargesNext DEF IInv
<1>4. RunsOnlyReviewed' /\ JobsAfterApproval'
  BY <1>1, ReviewNext DEF IInv
<1>. QED
  BY <1>1, <1>2, <1>3, <1>4 DEF IInv

\* Every variable of a campaign keeps its type, and its window is valid.
THEOREM CampaignTypeCorrect == Spec => []TypeOK
BY TypeInit, TypeNext, PTL DEF Spec

\* The inductive invariant of a campaign.
THEOREM CampaignInvariance == Spec => []IInv
BY IInvInit, IInvNext, PTL DEF Spec

\* The rollup counts exactly the rows of the log.
THEOREM RollupIsTheLog == Spec => []RollupMatchesLog
<1>1. IInv => RollupMatchesLog
  BY DEF IInv
<1>. QED
  BY <1>1, CampaignInvariance, PTL

\* A beacon with a dedupe_key is recorded once.
THEOREM ReplaysIgnored == Spec => []KeyedOnce
<1>1. IInv => KeyedOnce
  BY DEF IInv
<1>. QED
  BY <1>1, CampaignInvariance, PTL

\* The advertiser never pays for more than was delivered.
THEOREM ChargedForDelivery == Spec => []NeverOvercharged
<1>1. IInv => NeverOvercharged
  BY DEF IInv
<1>. QED
  BY <1>1, CampaignInvariance, PTL

\* A campaign nobody approved never runs and is never shown.
THEOREM ReviewedBeforeRunning == Spec => []RunsOnlyReviewed
<1>1. IInv => RunsOnlyReviewed
  BY DEF IInv
<1>. QED
  BY <1>1, CampaignInvariance, PTL
=============================================================================
