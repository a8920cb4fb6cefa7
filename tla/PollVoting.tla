----------------------------- MODULE PollVoting -----------------------------
(***************************************************************************)
(* The life of one poll (src/polls): free votes, paid votes, the author's  *)
(* edits and closing, the celery sweep that closes overdue polls, and the  *)
(* payout of what the voters paid.                                         *)
(*                                                                         *)
(* cast_vote and process_vote_webhook are transactions of several steps:   *)
(* a job of a worker starts when the first row lock is granted and ends    *)
(* when the transaction commits or rolls back.  Every transaction that     *)
(* locks or updates the poll's row waits while another one holds it; one   *)
(* whose first statement takes that lock, and which calls nothing outside  *)
(* the database, is one step.  A poll instance that a view read earlier    *)
(* (an edit, the author's closing) is a copy that may be outdated.         *)
(*                                                                         *)
(* Not here: creation, record_view, and verify_vote_payment, which no URL   *)
(* reaches.  A definition just before another with the same parameters     *)
(* (CloseUnsaved, PayableAgain, ...) is a mutant: a bug the code could have *)
(* had, used by no specification; README.md says what each one breaks.     *)
(***************************************************************************)
EXTENDS Integers, FiniteSets

CONSTANTS
  Voters,     \* the users that vote
  Options,    \* the poll's options; replacing them creates as many new ones
  Payments,   \* the payments that the voters initialise
  Workers,    \* threads that run casts, webhooks and the author's closing
  VoterOf,    \* VoterOf[p]: who pays
  OptionOf,   \* OptionOf[p]: the option the paid votes are for
  Qty,        \* Qty[p]: how many votes are bought
  Kinds,      \* the poll types the author uses
  MaxCount,   \* bound: no option is voted for freely beyond this counter
  MaxEdits    \* bound: how often the author edits the poll

ASSUME VotersFinite   == IsFiniteSet(Voters)
ASSUME OptionsFinite  == IsFiniteSet(Options)
ASSUME PaymentsFinite == IsFiniteSet(Payments)
ASSUME VoterOfVoters  == VoterOf \in [Payments -> Voters]
ASSUME OptionOfOption == OptionOf \in [Payments -> Options]
ASSUME QtyPositive    == Qty \in [Payments -> Nat \ {0}]
ASSUME KindsKnown     == Kinds \subseteq {"single", "multiple"}
ASSUME BoundsNat      == MaxCount \in Nat /\ MaxEdits \in Nat

VARIABLES
  poll,     \* the Poll row: status, due (ends_at has passed), kind, paid,
            \* total (total_votes), deleted
  count,    \* count[o]: PollOption.vote_count
  free,     \* <<voter, option>>: the Vote rows cast without paying
  bought,   \* bought[p]: how many Vote rows point to payment p
  payment,  \* payment[p]: VotePayment.status, or where it is without a row
  charge,   \* charge[p]: what the gateway says of the reference
  job,      \* job[w]: the transaction or call worker w is in
  edit,     \* the author's edit in flight, and how many are left
  sweep,    \* where close_expired_polls is
  tasks,    \* process_poll_payout tasks by state
  payouts   \* the PollPayout rows: how many, and the votes they pay for

ballots == <<count, free, bought>>
money   == <<payment, charge>>
pays    == <<tasks, payouts>>
vars    == <<poll, ballots, money, job, edit, sweep, pays>>

Polls == [status : {"active", "closed"}, due : BOOLEAN, paid : BOOLEAN,
          kind : Kinds, total : Nat, deleted : BOOLEAN]
PaymentStates == {"none", "opening", "refused", "pending", "failed",
                  "successful", "deleted"}
ChargeStates  == {"none", "open", "paid", "failed"}
TaskStates    == {"queued", "paying", "created", "done"}
NoCopy == [step |-> "none"]
Edits  == [copy : {NoCopy} \cup Polls, left : 0..MaxEdits]
NoJob  == [step |-> "idle"]
Jobs   == {NoJob, [step |-> "enqueue"]} \cup
          [step : {"vote"}, voter : Voters, option : Options] \cup
          [step : {"credit"}, payment : Payments] \cup
          [step : {"close"}, paid : BOOLEAN]
Sweeps == [step : {"idle", "enqueue"}] \cup
          [step : {"closing"}, listed : BOOLEAN]

AtMost0(n) == IF n < 0 THEN 0 ELSE n   \* Greatest(n, 0)

IsExpired == poll.due \/ poll.status = "closed"
Matches   == poll.due /\ poll.status = "active" /\ ~poll.deleted

\* Nobody holds the row lock of the poll, of payment p.
PollUnlocked == TRUE
PollFree == /\ \A w \in Workers : job[w].step # "vote"
            /\ ~(sweep.step = "closing" /\ sweep.listed)
PaymentUnlocked(p) == p \in Payments
PaymentFree(p) ==
  \A w \in Workers : ~(job[w].step = "credit" /\ job[w].payment = p)

PaidBy(v)  == {p \in Payments : VoterOf[p] = v}
PaidFor(o) == {p \in Payments : OptionOf[p] = o}

\* n[p] numbered items for each payment p of S: its Vote rows, or the votes
\* it is for.
Items(S, n)    == UNION {{p} \X (1 .. n[p]) : p \in S}
PaidRows(S)    == Items(S, bought)
FreeFor(o)     == {r \in free : r[2] = o}
VotedFor(v, o) == <<v, o>> \in free \/ PaidRows(PaidBy(v) \cap PaidFor(o)) # {}
HasVoted(v)    == \E o \in Options : VotedFor(v, o)

Init ==
  /\ poll \in [status : {"active"}, due : {FALSE}, paid : BOOLEAN,
               kind : Kinds, total : {0}, deleted : {FALSE}]
  /\ count = [o \in Options |-> 0]
  /\ free = {}
  /\ bought = [p \in Payments |-> 0]
  /\ payment = [p \in Payments |-> "none"]
  /\ charge = [p \in Payments |-> "none"]
  /\ job = [w \in Workers |-> NoJob]
  /\ edit = [copy |-> NoCopy, left |-> MaxEdits]
  /\ sweep = [step |-> "idle"]
  /\ tasks = [s \in TaskStates |-> 0]
  /\ payouts = [rows |-> 0, votes |-> 0]

Idle(w)      == job[w] = NoJob
Start(w, j)  == Idle(w) /\ job' = [job EXCEPT ![w] = j]
Finish(w)    == job' = [job EXCEPT ![w] = NoJob]

-----------------------------------------------------------------------------
(* Free votes *)

\* cast_vote up to the duplicate check, all under the poll's row lock.  REST
\* refuses paid polls before that; the WebSocket consumer does not.
BeginVoteOnClosed(w, v, o) ==
  /\ PollFree
  /\ ~poll.deleted
  /\ IF poll.kind = "single" THEN ~HasVoted(v) ELSE ~VotedFor(v, o)
  /\ count[o] < MaxCount
  /\ Start(w, [step |-> "vote", voter |-> v, option |-> o])
  /\ UNCHANGED <<poll, ballots, money, edit, sweep, pays>>
BeginVote(w, v, o) ==
  /\ PollFree
  /\ ~poll.deleted /\ ~IsExpired
  /\ IF poll.kind = "single" THEN ~HasVoted(v) ELSE ~VotedFor(v, o)
  /\ count[o] < MaxCount
  /\ Start(w, [step |-> "vote", voter |-> v, option |-> o])
  /\ UNCHANGED <<poll, ballots, money, edit, sweep, pays>>

\* The vote row and both counters, then the commit.
CommitVote(w) ==
  /\ job[w].step = "vote"
  /\ free' = free \cup {<<job[w].voter, job[w].option>>}
  /\ count' = [count EXCEPT ![job[w].option] = @ + 1]
  /\ poll' = [poll EXCEPT !.total = @ + 1]
  /\ Finish(w)
  /\ UNCHANGED <<bought, money, edit, sweep, pays>>

\* The rows of free votes and of payments are deleted.
DropRows(freeRows, payments) ==
  /\ free' = free \ freeRows
  /\ bought' = [p \in Payments |-> IF p \in payments THEN 0 ELSE bought[p]]

\* remove_vote, single choice only: every vote of the voter goes, paid or not.
\* The options' counters stay as they are.
RemoveVote(v) ==
  LET freeRows == {r \in free : r[1] = v}
      deleted  == Cardinality(freeRows) + Cardinality(PaidRows(PaidBy(v)))
  IN  /\ PollFree
      /\ ~poll.deleted
      /\ poll.kind = "single"
      /\ deleted > 0
      /\ DropRows(freeRows, PaidBy(v))
      /\ poll' = [poll EXCEPT !.total = AtMost0(@ - deleted)]
      /\ UNCHANGED <<count, money, job, edit, sweep, pays>>

\* remove_option_vote, reached over the WebSocket for either kind of poll:
\* every vote of the voter for the option goes, the counters lose one.
RemoveUncounted(v, o) ==
  /\ PollFree
  /\ ~poll.deleted
  /\ DropRows({<<v, o>>}, PaidBy(v) \cap PaidFor(o))
  /\ count' = [count EXCEPT ![o] = AtMost0(@ - 1)]
  /\ poll' = [poll EXCEPT !.total = AtMost0(@ - 1)]
  /\ UNCHANGED <<money, job, edit, sweep, pays>>
RemoveOptionVote(v, o) ==
  /\ PollFree
  /\ ~poll.deleted
  /\ VotedFor(v, o)
  /\ DropRows({<<v, o>>}, PaidBy(v) \cap PaidFor(o))
  /\ count' = [count EXCEPT ![o] = AtMost0(@ - 1)]
  /\ poll' = [poll EXCEPT !.total = AtMost0(@ - 1)]
  /\ UNCHANGED <<money, job, edit, sweep, pays>>

-----------------------------------------------------------------------------
(* Paid votes *)

\* initialize_vote_payment reads the poll without a lock ...
BeginPayment(p) ==
  /\ payment[p] = "none"
  /\ poll.paid /\ ~IsExpired /\ ~poll.deleted
  /\ payment' = [payment EXCEPT ![p] = "opening"]
  /\ UNCHANGED <<poll, ballots, charge, job, edit, sweep, pays>>

\* ... and creates the row once the gateway has opened a checkout,
OpenPayment(p) ==
  /\ payment[p] = "opening"
  /\ payment' = [payment EXCEPT ![p] = "pending"]
  /\ charge' = [charge EXCEPT ![p] = "open"]
  /\ UNCHANGED <<poll, ballots, job, edit, sweep, pays>>

\* or fails with the gateway.
RefusePayment(p) ==
  /\ payment[p] = "opening"
  /\ payment' = [payment EXCEPT ![p] = "refused"]
  /\ UNCHANGED <<poll, ballots, charge, job, edit, sweep, pays>>

\* The voter pays, or does not.
SettleCharge(p) ==
  /\ charge[p] = "open"
  /\ \E s \in {"paid", "failed"} : charge' = [charge EXCEPT ![p] = s]
  /\ UNCHANGED <<poll, ballots, payment, job, edit, sweep, pays>>

\* A payment-succeeded webhook, possibly redelivered: process_vote_webhook
\* locks the payment's row and returns if it is credited or gone.
BeginCredit(w, p) ==
  /\ charge[p] = "paid"
  /\ PaymentFree(p)
  /\ payment[p] \in {"pending", "failed"}
  /\ Start(w, [step |-> "credit", payment |-> p])
  /\ UNCHANGED <<poll, ballots, money, edit, sweep, pays>>

\* It locks the poll, asks the gateway and credits the votes, whether or not
\* the poll is still open.
CommitCredit(w) ==
  LET p == job[w].payment IN
  /\ job[w].step = "credit"
  /\ PollFree
  /\ payment' = [payment EXCEPT ![p] = "successful"]
  /\ bought' = [bought EXCEPT ![p] = @ + Qty[p]]
  /\ count' = [count EXCEPT ![OptionOf[p]] = @ + Qty[p]]
  /\ poll' = [poll EXCEPT !.total = @ + Qty[p]]
  /\ Finish(w)
  /\ UNCHANGED <<free, charge, edit, sweep, pays>>

\* The gateway's verification lags behind its webhook: the payment is failed.
RejectCredit(w) ==
  /\ job[w].step = "credit"
  /\ PollFree
  /\ payment' = [payment EXCEPT ![job[w].payment] = "failed"]
  /\ Finish(w)
  /\ UNCHANGED <<poll, ballots, charge, edit, sweep, pays>>

\* A transaction rolls back: an error, a lost server, a deadlock victim.
Rollback(w) ==
  /\ job[w].step \in {"vote", "credit"}
  /\ Finish(w)
  /\ UNCHANGED <<poll, ballots, money, edit, sweep, pays>>

-----------------------------------------------------------------------------
(* The author *)

\* PollService.close, of this copy or of the row.
CloseUnsaved(row) == [row EXCEPT !.due = TRUE]
Closed(row)       == [row EXCEPT !.due = TRUE, !.status = "closed"]

\* The close view checks an instance that it read without a lock.
BeginClose(w) ==
  /\ ~poll.deleted /\ ~IsExpired
  /\ Start(w, [step |-> "close", paid |-> poll.paid])
  /\ UNCHANGED <<poll, ballots, money, edit, sweep, pays>>

CommitClose(w) ==
  /\ job[w].step = "close"
  /\ PollFree
  /\ poll' = Closed(poll)
  /\ job' = [job EXCEPT ![w] =
               IF job[w].paid THEN [step |-> "enqueue"] ELSE NoJob]
  /\ UNCHANGED <<ballots, money, edit, sweep, pays>>

EnqueuePayout(w) ==
  /\ job[w].step = "enqueue"
  /\ tasks' = [tasks EXCEPT !["queued"] = @ + 1]
  /\ Finish(w)
  /\ UNCHANGED <<poll, ballots, money, edit, sweep, payouts>>

\* The server dies before the closing commits, or before it queued the payout.
LoseClose(w) ==
  /\ job[w].step \in {"close", "enqueue"}
  /\ Finish(w)
  /\ UNCHANGED <<poll, ballots, money, edit, sweep, pays>>

\* PollService.update works on an instance that get_object read.
BeginEdit ==
  /\ edit.left > 0 /\ edit.copy = NoCopy
  /\ ~poll.deleted /\ poll.status # "closed"
  /\ edit' = [copy |-> poll, left |-> edit.left - 1]
  /\ UNCHANGED <<poll, ballots, money, job, sweep, pays>>

\* New options: the old ones are hard-deleted, and with them every vote and
\* every payment of the poll.  The total of the instance stays.
ReplaceOptions ==
  /\ \A p \in Payments : PaymentFree(p)
  /\ DropRows(free, Payments)
  /\ count' = [o \in Options |-> 0]
  /\ payment' = [p \in Payments |->
       CASE payment[p] = "opening" -> "refused"
         [] payment[p] \in {"pending", "failed", "successful"} -> "deleted"
         [] OTHER -> payment[p]]
  /\ UNCHANGED charge

\* save() writes every column of the instance: fields the author did not touch
\* get the values they had when it was read.
SaveEdit ==
  LET row == edit.copy IN
  /\ row # NoCopy
  /\ PollFree
  /\ \E kind \in Kinds, extend \in BOOLEAN,
        paid \in IF row.total > 0 THEN {row.paid} ELSE BOOLEAN :
       poll' = [row EXCEPT !.kind = kind, !.paid = paid,
                           !.due = row.due /\ ~extend]
  /\ ReplaceOptions \/ UNCHANGED <<ballots, money>>
  /\ edit' = [edit EXCEPT !.copy = NoCopy]
  /\ UNCHANGED <<job, sweep, pays>>

\* PollService.delete is a soft delete.
Delete ==
  /\ ~poll.deleted
  /\ PollFree
  /\ poll' = [poll EXCEPT !.deleted = TRUE]
  /\ UNCHANGED <<ballots, money, job, edit, sweep, pays>>

\* ends_at passes, for the row and for an instance read earlier.
DeadlinePasses ==
  /\ ~poll.due \/ (edit.copy # NoCopy /\ ~edit.copy.due)
  /\ poll' = [poll EXCEPT !.due = TRUE]
  /\ edit' = IF edit.copy = NoCopy THEN edit ELSE [edit EXCEPT !.copy.due = TRUE]
  /\ UNCHANGED <<ballots, money, job, sweep, pays>>

-----------------------------------------------------------------------------
(* close_expired_polls *)

\* The identifiers are listed; a poll that is locked is skipped.  With nothing
\* listed the task ends, so an unlisted poll matters only if others are overdue.
SweepLists ==
  /\ sweep.step = "idle"
  /\ poll.due
  /\ sweep' = [step |-> "closing", listed |-> Matches /\ PollFree]
  /\ UNCHANGED <<poll, ballots, money, job, edit, pays>>

\* The query runs again for the loop: it may now find, and close, a poll that
\* it did not list.
SweepCloses ==
  /\ sweep.step = "closing"
  /\ Matches
  /\ sweep.listed \/ PollFree
  /\ poll' = Closed(poll)
  /\ sweep' = [step |-> IF sweep.listed THEN "enqueue" ELSE "idle"]
  /\ UNCHANGED <<ballots, money, job, edit, pays>>

\* A payout task for each identifier, after the commit.
SweepEnqueues ==
  /\ sweep.step = "enqueue"
  /\ tasks' = [tasks EXCEPT !["queued"] = @ + 1]
  /\ sweep' = [step |-> "idle"]
  /\ UNCHANGED <<poll, ballots, money, job, edit, payouts>>

\* The sweep ends without the poll, or its worker is lost.
SweepEnds ==
  /\ sweep.step # "idle"
  /\ sweep' = [step |-> "idle"]
  /\ UNCHANGED <<poll, ballots, money, job, edit, pays>>

-----------------------------------------------------------------------------
(* process_poll_payout *)

Move(from, to) ==
  /\ tasks[from] > 0
  /\ tasks' = [tasks EXCEPT ![from] = @ - 1, ![to] = @ + 1]

CollectedPending == {p \in Payments : payment[p] = "pending"}
Collected        == {p \in Payments : payment[p] = "successful"}

\* The exists() checks, with no lock.
PayableAgain == poll.paid /\ Collected # {}
Payable      == poll.paid /\ Collected # {} /\ payouts.rows = 0

TaskChecks ==
  /\ Move("queued", IF Payable THEN "paying" ELSE "done")
  /\ UNCHANGED <<poll, ballots, money, job, edit, sweep, payouts>>

TaskPays ==
  /\ Move("paying", "created")
  /\ payouts' = [rows  |-> payouts.rows + 1,
                 votes |-> payouts.votes + Cardinality(Items(Collected, Qty))]
  /\ UNCHANGED <<poll, ballots, money, job, edit, sweep>>

TaskAcknowledged ==
  /\ Move("created", "done")
  /\ UNCHANGED <<poll, ballots, money, job, edit, sweep, payouts>>

\* acks_late: a task whose worker is lost runs again from the start.
TaskLost ==
  /\ \E s \in {"paying", "created"} : Move(s, "done")
  /\ UNCHANGED <<poll, ballots, money, job, edit, sweep, payouts>>
TaskRedelivered ==
  /\ \E s \in {"paying", "created"} : Move(s, "queued")
  /\ UNCHANGED <<poll, ballots, money, job, edit, sweep, payouts>>

-----------------------------------------------------------------------------
VoterStep ==
  \/ \E v \in Voters : RemoveVote(v)
  \/ \E v \in Voters, o \in Options :
       RemoveOptionVote(v, o) \/ \E w \in Workers : BeginVote(w, v, o)
PaymentStep(p) ==
  \/ BeginPayment(p) \/ OpenPayment(p) \/ RefusePayment(p) \/ SettleCharge(p)
  \/ \E w \in Workers : BeginCredit(w, p)
JobStep(w) ==
  \/ CommitVote(w) \/ CommitCredit(w) \/ RejectCredit(w) \/ Rollback(w)
  \/ CommitClose(w) \/ EnqueuePayout(w) \/ LoseClose(w)
AuthorStep == \/ \E w \in Workers : BeginClose(w)
              \/ BeginEdit \/ SaveEdit \/ Delete
SweepStep  == SweepLists \/ SweepCloses \/ SweepEnqueues \/ SweepEnds
TaskStep   == TaskChecks \/ TaskPays \/ TaskAcknowledged \/ TaskRedelivered

Next ==
  \/ VoterStep
  \/ \E p \in Payments : PaymentStep(p)
  \/ \E w \in Workers : JobStep(w)
  \/ AuthorStep \/ DeadlinePasses \/ SweepStep \/ TaskStep

Spec == Init /\ [][Next]_vars

(* Servers finish or roll back what they run; beat starts the sweep again and
   again, and sooner or later it finds an overdue poll unlocked and is not
   lost; payout tasks are taken from the queue, and not every attempt at one
   loses its worker. *)
Fairness ==
  /\ \A w \in Workers : WF_vars(JobStep(w))
  /\ SF_vars(SweepLists /\ sweep'.listed) /\ SF_vars(SweepCloses)
  /\ WF_vars(SweepStep)
  /\ WF_vars(TaskChecks) /\ SF_vars(TaskPays)
FairSpec == Spec /\ Fairness

-----------------------------------------------------------------------------
(* Safety *)

\* The variables have their types; in particular the counters, which the
\* removals decrease, never fall below zero (PositiveIntegerField).
TypeOK ==
  /\ poll \in Polls
  /\ count \in [Options -> Nat]
  /\ free \subseteq Voters \X Options
  /\ bought \in [Payments -> Nat]
  /\ payment \in [Payments -> PaymentStates]
  /\ charge \in [Payments -> ChargeStates]
  /\ job \in [Workers -> Jobs]
  /\ edit \in Edits
  /\ sweep \in Sweeps
  /\ tasks \in [TaskStates -> Nat]
  /\ payouts \in [rows : Nat, votes : Nat]

\* However casts, removals, credits and edits interleave, an option's
\* vote_count never says less than the Vote rows it has.  (It may say more:
\* remove_vote leaves it alone.)
CountersCoverVotes ==
  \A o \in Options :
    Cardinality(FreeFor(o)) + Cardinality(PaidRows(PaidFor(o))) <= count[o]

\* A payment has either no Vote rows or exactly the votes it bought, and it
\* has them only once the gateway was paid: overlapping and redelivered
\* webhooks of process_vote_webhook credit it once.
PaidRowsBought ==
  \A p \in Payments :
    /\ bought[p] \in {0, Qty[p]}
    /\ bought[p] > 0 => payment[p] = "successful" /\ charge[p] = "paid"

\* Each payout task creates at most one payout, redelivered or not: a poll that
\* is closed once is paid out at most once (process_poll_payout).
PayoutPerTask ==
  payouts.rows <= tasks["queued"] + tasks["paying"]
                    + tasks["created"] + tasks["done"]

Charged == {p \in Payments : charge[p] = "paid"}

\* No payout pays for more votes than the voters paid for at the gateway.
PayoutBacked ==
  payouts.votes <= payouts.rows * Cardinality(Items(Charged, Qty))

\* What these rest on.  A webhook that is about to credit a payment holds it
\* alone, unpaid for until then.  A vote that is about to commit holds the poll
\* alone: it is active and, if single choice, the voter has no vote.
CreditHolds ==
  \A w \in Workers : job[w].step = "credit" =>
    LET p == job[w].payment IN
    /\ charge[p] = "paid"
    /\ payment[p] \in {"pending", "failed"}
    /\ \A x \in Workers :
         job[x].step = "credit" /\ job[x].payment = p => x = w
VoteHolds ==
  \A w \in Workers : job[w].step = "vote" =>
    /\ poll.status = "active"
    /\ poll.kind = "single" => ~HasVoted(job[w].voter)
    /\ ~VotedFor(job[w].voter, job[w].option)
    /\ ~(sweep.step = "closing" /\ sweep.listed)
    /\ \A x \in Workers : job[x].step = "vote" => x = w
ChargeFits ==
  \A p \in Payments :
    /\ payment[p] = "successful" => charge[p] = "paid"
    /\ payment[p] \in {"none", "opening"} => charge[p] = "none"

\* A task that is about to pay has not paid: only a task that found no payout
\* gets there, and a payout once made is there for every later check.
PayersHaveNotPaid ==
  payouts.rows + tasks["paying"]
    <= tasks["queued"] + tasks["paying"] + tasks["created"] + tasks["done"]

IInv ==
  /\ TypeOK
  /\ CountersCoverVotes
  /\ PaidRowsBought
  /\ CreditHolds
  /\ VoteHolds
  /\ ChargeFits
  /\ PayoutPerTask
  /\ PayersHaveNotPaid
  /\ PayoutBacked

\* What docs/websocket/polls.md says of the payment status "successful", "votes
\* cast", of a poll whose author did not replace the options.  It does not
\* hold: "unvote (free polls only)" deletes paid votes too.
PaidVotesStay ==
  \A p \in Payments : payment[p] = "successful" => bought[p] = Qty[p]

-----------------------------------------------------------------------------
(* Action properties *)

\* In a single-choice poll a free vote is recorded only for a voter without any
\* vote in the poll, whatever two connections of the voter do at once.
SingleChoiceOnce ==
  [][\A r \in free' \ free : poll.kind = "single" => ~HasVoted(r[1])]_vars

\* No free vote is recorded in a poll that is closed, even when the vote and
\* the closing overlap.
ClosedTakesNoVote ==
  [][poll.status = "closed" => free' \subseteq free]_vars

-----------------------------------------------------------------------------
(* Liveness *)

\* An overdue poll is closed, unless its author extends or deletes it, although
\* the sweep skips it whenever a voter holds its lock.
DueCloses == Matches ~> ~Matches

\* A queued payout task of a paid poll leads to a payout, unless the author
\* makes the poll free or replaces its options, and with them the payments.
PayoutFollows ==
  (tasks["queued"] > 0 /\ poll.paid /\ (\E p \in Payments : payment[p] = "successful"))
    ~> (payouts.rows > 0 \/ ~poll.paid
          \/ \A p \in Payments : payment[p] # "successful")
=============================================================================
