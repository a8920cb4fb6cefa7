---------------------------- MODULE TicketSales ----------------------------
(***************************************************************************)
(* The sale of tickets for one published event (src/tickets).              *)
(*                                                                         *)
(* Every purchase of Purchases is one call of                              *)
(* TicketService.initialize_purchase: Redis lock, row lock on the price    *)
(* tier, reservation, gateway checkout, commit, unlock.  Workers are the   *)
(* threads that later run verify_purchase (REST poll or webhook) or the    *)
(* charge.failed webhook for a purchase; the celery sweep                  *)
(* release_expired_reservations gives overdue reservations back.           *)
(*                                                                         *)
(* A database transaction whose first statement updates the purchase row   *)
(* is one step: the row lock serialises it with every other transaction    *)
(* on that purchase.  It waits while an uncommitted initialize_purchase    *)
(* holds the tier's row.  Reads made outside a transaction, and calls to   *)
(* the payment gateway, are steps of their own.                            *)
(*                                                                         *)
(* A definition that stands just before another and takes the same         *)
(* parameters (RowUnlocked, CancelUnchecked, ...) is a mutant: a bug the    *)
(* code could have had.  No specification uses it.  README.md says which   *)
(* property each one breaks.                                               *)
(***************************************************************************)
EXTENDS Integers, FiniteSets, FiniteSetsExt

CONSTANTS
  Purchases,   \* the purchase attempts of the run
  Tiers,       \* the event's price tiers
  Workers,     \* threads that run verify_purchase or a webhook handler
  Quantity,    \* Quantity[t]: seats of tier t
  Price,       \* Price[t]: price of one seat
  TierOf,      \* TierOf[p]: the tier the buyer asked for
  Qty,         \* Qty[p]: how many tickets the buyer asked for
  TotalSeats,  \* Event.tickets_available as EventService summed it
  BatchSize,   \* most rows one sweep lists
  Outcomes     \* how a checkout may turn out at the gateway

ASSUME PurchasesFinite == IsFiniteSet(Purchases)
ASSUME TiersFinite     == IsFiniteSet(Tiers)
ASSUME QuantityNat     == Quantity \in [Tiers -> Nat]
ASSUME PriceNat        == Price \in [Tiers -> Nat]
ASSUME TotalSeatsNat   == TotalSeats \in Nat
ASSUME TierOfTiers     == TierOf \in [Purchases -> Tiers]
ASSUME QtyPositive     == Qty \in [Purchases -> Nat \ {0}]
ASSUME BatchPositive   == BatchSize \in Nat \ {0}
ASSUME OutcomesKnown   == Outcomes \subseteq {"paid", "short", "failed"}

VARIABLES
  lockHeld,    \* Redis key lock:purchase:event:{id} exists
  call,        \* call[p]: where initialize_purchase is
  status,      \* status[p]: TicketPurchase.payment_status ("none": no row)
  seats,       \* seats[p]: status shared by the purchase's Ticket rows
  overdue,     \* overdue[p]: reserved_until has passed
  sold,        \* PriceTier.quantity_sold
  reserved,    \* PriceTier.quantity_reserved
  totals,      \* Event.total_tickets_sold, tickets_available, total_revenue
  charge,      \* charge[p]: what the gateway says of the reference
  declined,    \* declined[p]: a charge.failed webhook may (again) arrive
  job,         \* job[w]: what worker w is doing, and for which purchase
  sweep        \* purchases the running sweep still has to visit

ledger   == <<sold, reserved, totals>>
rows     == <<status, seats, overdue, ledger>>
gateway  == <<charge, declined>>
vars     == <<lockHeld, call, rows, gateway, job, sweep>>

CallStates   == {"idle", "locked", "reserving", "unlocking", "returned"}
Statuses     == {"none", "pending", "successful", "failed", "expired"}
SeatStates   == {"none", "reserved", "sold", "cancelled"}
ChargeStates == {"none", "open", "paid", "short", "failed"}
NoJob        == [step |-> "idle"]
Jobs         == {NoJob} \cup
                [step : {"verify", "confirm", "release"}, purchase : Purchases]
EventTotals  == [sold : Nat, available : Nat, revenue : Nat]

At(p, s)  == call[p] = s
Goto(p, s) == call' = [call EXCEPT ![p] = s]

\* An open initialize_purchase transaction holds the tier's row
\* (SELECT ... FOR UPDATE) until it commits or rolls back.
RowUnlocked(t) == t \in Tiers
RowFree(t) == \A p \in Purchases : ~(At(p, "reserving") /\ TierOf[p] = t)

AvailableUnreserved(t) == Quantity[t] - sold[t]
Available(t) == Quantity[t] - sold[t] - reserved[t]

SumOver(f(_), S) == MapThenSumSet(f, S)

Init ==
  /\ lockHeld = FALSE
  /\ call = [p \in Purchases |-> "idle"]
  /\ status = [p \in Purchases |-> "none"]
  /\ seats = [p \in Purchases |-> "none"]
  /\ overdue = [p \in Purchases |-> FALSE]
  /\ sold = [t \in Tiers |-> 0]
  /\ reserved = [t \in Tiers |-> 0]
  /\ totals = [sold |-> 0, available |-> TotalSeats, revenue |-> 0]
  /\ charge = [p \in Purchases |-> "none"]
  /\ declined = [p \in Purchases |-> FALSE]
  /\ job = [w \in Workers |-> NoJob]
  /\ sweep = {}

-----------------------------------------------------------------------------
(* initialize_purchase *)

\* SET key NX EX 30.  Losing the race ends the call with InsufficientTickets,
\* and leaves the key alone.
AcquireLock(p) ==
  /\ At(p, "idle")
  /\ IF lockHeld THEN Goto(p, "returned") /\ UNCHANGED lockHeld
                 ELSE Goto(p, "locked") /\ lockHeld' = TRUE
  /\ UNCHANGED <<rows, gateway, job, sweep>>

\* The 30 second TTL runs out, whoever set the key and whatever they still do.
LockExpires ==
  /\ lockHeld
  /\ lockHeld' = FALSE
  /\ UNCHANGED <<call, rows, gateway, job, sweep>>

\* SELECT ... FOR UPDATE on the tier, then the availability check.
LockTier(p) ==
  /\ At(p, "locked")
  /\ RowFree(TierOf[p])
  /\ Goto(p, IF Available(TierOf[p]) < Qty[p] THEN "unlocking" ELSE "reserving")
  /\ UNCHANGED <<lockHeld, rows, gateway, job, sweep>>

\* The gateway opened the checkout: purchase, tickets and the reservation
\* become visible together when the transaction commits.
CommitPurchase(p) ==
  /\ At(p, "reserving")
  /\ Goto(p, "unlocking")
  /\ status' = [status EXCEPT ![p] = "pending"]
  /\ seats' = [seats EXCEPT ![p] = "reserved"]
  /\ reserved' = [reserved EXCEPT ![TierOf[p]] = @ + Qty[p]]
  /\ charge' = [charge EXCEPT ![p] = "open"]
  /\ UNCHANGED <<lockHeld, overdue, sold, totals, declined, job, sweep>>

\* The gateway refused the checkout: the transaction rolls back.
AbortPurchase(p) ==
  /\ At(p, "reserving")
  /\ Goto(p, "unlocking")
  /\ UNCHANGED <<lockHeld, rows, gateway, job, sweep>>

\* The finally block deletes the key without asking whose it is by now.
Unlock(p) ==
  /\ At(p, "unlocking")
  /\ Goto(p, "returned")
  /\ lockHeld' = FALSE
  /\ UNCHANGED <<rows, gateway, job, sweep>>

\* The process dies: the database rolls back, the Redis key stays.
CrashPurchase(p) ==
  /\ call[p] \in {"locked", "reserving", "unlocking"}
  /\ Goto(p, "returned")
  /\ UNCHANGED <<lockHeld, rows, gateway, job, sweep>>

-----------------------------------------------------------------------------
(* The payment gateway and the clock (external) *)

\* A buyer pays, pays too little or is declined.  A declined checkout can be
\* tried again under the same reference.
SettleCharge(p, outcome) ==
  /\ charge[p] \in {"open", "failed"}
  /\ charge' = [charge EXCEPT ![p] = outcome]
  /\ declined' = [declined EXCEPT ![p] = @ \/ outcome = "failed"]
  /\ UNCHANGED <<lockHeld, call, rows, job, sweep>>

ReservationLapses(p) ==
  /\ status[p] = "pending"
  /\ ~overdue[p]
  /\ overdue' = [overdue EXCEPT ![p] = TRUE]
  /\ UNCHANGED <<lockHeld, call, status, seats, ledger, gateway, job, sweep>>

-----------------------------------------------------------------------------
(* verify_purchase, and the webhook that only releases *)

Working(w, step) == job[w].step = step
Starts(w, step, p) == job' = [job EXCEPT ![w] = [step |-> step, purchase |-> p]]
Ends(w) == job' = [job EXCEPT ![w] = NoJob]

\* POST /buy/verify/ or a charge.success webhook reads the purchase, unlocked.
\* An unknown reference raises and a successful one returns already_confirmed:
\* neither changes anything.
BeginVerify(w, p) ==
  /\ Working(w, "idle")
  /\ status[p] \notin {"none", "successful"}
  /\ Starts(w, "verify", p)
  /\ UNCHANGED <<lockHeld, call, rows, gateway, sweep>>

\* The gateway's answer decides the branch.  A charge that is still open is
\* "not successful".
GatewayAnswersAnyAmount(w) ==
  /\ Working(w, "verify")
  /\ LET p == job[w].purchase IN
       Starts(w, IF charge[p] \in {"paid", "short"} THEN "confirm" ELSE "release", p)
  /\ UNCHANGED <<lockHeld, call, rows, gateway, sweep>>
GatewayAnswers(w) ==
  /\ Working(w, "verify")
  /\ LET p == job[w].purchase IN
       Starts(w, IF charge[p] = "paid" THEN "confirm" ELSE "release", p)
  /\ UNCHANGED <<lockHeld, call, rows, gateway, sweep>>

\* A charge.failed webhook looks the purchase up and goes straight to the
\* release, whatever the purchase's status.
BeginChargeFailed(w, p) ==
  /\ Working(w, "idle")
  /\ declined[p]
  /\ status[p] # "none"
  /\ Starts(w, "release", p)
  /\ UNCHANGED <<lockHeld, call, rows, gateway, sweep>>

\* Tickets cancelled, purchase closed as s, the tier's seats given back.
CancelUnchecked(p, s) ==
  /\ status' = [status EXCEPT ![p] = s]
  /\ seats' = [seats EXCEPT ![p] = "cancelled"]
  /\ reserved' = [reserved EXCEPT ![TierOf[p]] = @ - Qty[p]]
CancelKeepingSeats(p, s) ==
  /\ Qty[p] <= reserved[TierOf[p]]
  /\ status' = [status EXCEPT ![p] = s]
  /\ seats' = [seats EXCEPT ![p] = "cancelled"]
  /\ UNCHANGED reserved
CancelReservation(p, s) ==
  /\ Qty[p] <= reserved[TierOf[p]]
  /\ status' = [status EXCEPT ![p] = s]
  /\ seats' = [seats EXCEPT ![p] = "cancelled"]
  /\ reserved' = [reserved EXCEPT ![TierOf[p]] = @ - Qty[p]]

\* The event's denormalised totals after a sale of p.
TotalsWithSale(p) ==
  [sold |-> totals.sold + Qty[p],
   available |-> totals.available - Qty[p],
   revenue |-> totals.revenue + Price[TierOf[p]] * Qty[p]]

\* The confirming transaction.  It does not look at the status again.
Confirm(w) ==
  LET p == job[w].purchase
      t == TierOf[p]
  IN
  /\ Working(w, "confirm")
  /\ RowFree(t)
  /\ Qty[p] <= reserved[t]
  /\ Qty[p] <= totals.available
  /\ status' = [status EXCEPT ![p] = "successful"]
  /\ seats' = [seats EXCEPT ![p] = "sold"]
  /\ sold' = [sold EXCEPT ![t] = @ + Qty[p]]
  /\ reserved' = [reserved EXCEPT ![t] = @ - Qty[p]]
  /\ totals' = TotalsWithSale(p)
  /\ Ends(w)
  /\ UNCHANGED <<lockHeld, call, overdue, gateway, sweep>>

\* _release_reservation.  It does not look at the status either.
ReleaseReservation(w) ==
  LET p == job[w].purchase IN
  /\ Working(w, "release")
  /\ RowFree(TierOf[p])
  /\ CancelReservation(p, "failed")
  /\ Ends(w)
  /\ UNCHANGED <<lockHeld, call, overdue, sold, totals, gateway, sweep>>

\* quantity_reserved and tickets_available are PositiveIntegerFields: a
\* decrement below zero is an IntegrityError, and the transaction of Confirm or
\* ReleaseReservation rolls back whole.
DecrementRetried(w) ==
  /\ job[w].step \in {"confirm", "release"}
  /\ RowFree(TierOf[job[w].purchase])
  /\ reserved[TierOf[job[w].purchase]] < Qty[job[w].purchase]
  /\ UNCHANGED vars
DecrementRejected(w) ==
  /\ job[w].step \in {"confirm", "release"}
  /\ LET p == job[w].purchase IN
       /\ RowFree(TierOf[p])
       /\ \/ reserved[TierOf[p]] < Qty[p]
          \/ Working(w, "confirm") /\ totals.available < Qty[p]
  /\ Ends(w)
  /\ UNCHANGED <<lockHeld, call, rows, gateway, sweep>>

\* The gateway call fails, or the process dies between two steps.
AbandonJob(w) ==
  /\ ~Working(w, "idle")
  /\ Ends(w)
  /\ UNCHANGED <<lockHeld, call, rows, gateway, sweep>>

-----------------------------------------------------------------------------
(* release_expired_reservations *)

Overdue == {p \in Purchases : status[p] = "pending" /\ overdue[p]}

\* The list is read without a lock, in no particular order, BatchSize rows at
\* most.
SweepList ==
  /\ sweep = {}
  /\ sweep' \in {batch \in SUBSET Overdue :
                   /\ batch # {}
                   /\ Cardinality(batch) <= BatchSize
                   /\ batch # Overdue => Cardinality(batch) = BatchSize}
  /\ UNCHANGED <<lockHeld, call, rows, gateway, job>>

SweepReleaseUnsaved(p) ==
  /\ p \in sweep
  /\ p \in Overdue
  /\ RowFree(TierOf[p])
  /\ CancelReservation(p, "pending")
  /\ sweep' = sweep \ {p}
  /\ UNCHANGED <<lockHeld, call, overdue, sold, totals, gateway, job>>
SweepRelease(p) ==
  /\ p \in sweep
  /\ p \in Overdue
  /\ RowFree(TierOf[p])
  /\ CancelReservation(p, "expired")
  /\ sweep' = sweep \ {p}
  /\ UNCHANGED <<lockHeld, call, overdue, sold, totals, gateway, job>>

\* skip_locked: a worker may hold the row; or the purchase left "pending"
\* since it was listed.
SweepSkip(p) ==
  /\ p \in sweep
  /\ \/ p \notin Overdue
     \/ \E w \in Workers : /\ job[w].step \in {"confirm", "release"}
                           /\ job[w].purchase = p
  /\ sweep' = sweep \ {p}
  /\ UNCHANGED <<lockHeld, call, rows, gateway, job>>

\* The decrement would go below zero: the IntegrityError leaves the purchase
\* pending and ends the task.  The rest of the list waits for the next run.
SweepRejected(p) ==
  /\ p \in sweep
  /\ p \in Overdue
  /\ RowFree(TierOf[p])
  /\ reserved[TierOf[p]] < Qty[p]
  /\ sweep' = {}
  /\ UNCHANGED <<lockHeld, call, rows, gateway, job>>

\* The celery worker is lost; the redelivered task lists again.
SweepCrashes ==
  /\ sweep # {}
  /\ sweep' = {}
  /\ UNCHANGED <<lockHeld, call, rows, gateway, job>>

-----------------------------------------------------------------------------
CallStep(p) ==
  LockTier(p) \/ CommitPurchase(p) \/ AbortPurchase(p) \/ Unlock(p)

WorkerStep(w) ==
  \/ GatewayAnswers(w) \/ Confirm(w) \/ ReleaseReservation(w)
  \/ DecrementRejected(w)

SweepStep(p) == SweepRelease(p) \/ SweepSkip(p) \/ SweepRejected(p)

Next ==
  \/ \E p \in Purchases : AcquireLock(p) \/ CallStep(p) \/ CrashPurchase(p)
  \/ LockExpires
  \/ \E p \in Purchases : ReservationLapses(p)
  \/ \E p \in Purchases, outcome \in Outcomes : SettleCharge(p, outcome)
  \/ \E w \in Workers, p \in Purchases :
       BeginVerify(w, p) \/ BeginChargeFailed(w, p)
  \/ \E w \in Workers : WorkerStep(w) \/ AbandonJob(w)
  \/ \E p \in Purchases : SweepStep(p)
  \/ SweepList
  \/ SweepCrashes

Spec == Init /\ [][Next]_vars

\* A started request goes on until it returns, Redis expires keys, and celery
\* beat starts the sweep again and again.  A purchase that is in the list of
\* a running sweep again and again is reached some day, with its row unlocked.
\* Nothing says that a buyer pays, that a webhook arrives or that a gateway
\* answers well.
Fairness ==
  /\ \A p \in Purchases : WF_vars(CallStep(p))
  /\ WF_vars(LockExpires)
  /\ \A w \in Workers : WF_vars(WorkerStep(w))
  /\ WF_vars(SweepList)
  /\ \A p \in Purchases : WF_vars(SweepStep(p))
  /\ \A p \in Purchases : SF_vars(SweepRelease(p) \/ SweepRejected(p))

FairSpec == Spec /\ Fairness

-----------------------------------------------------------------------------
(* Properties *)

\* Every variable stays in its set; counters never go below zero.
TypeOK ==
  /\ lockHeld \in BOOLEAN
  /\ call \in [Purchases -> CallStates]
  /\ status \in [Purchases -> Statuses]
  /\ seats \in [Purchases -> SeatStates]
  /\ overdue \in [Purchases -> BOOLEAN]
  /\ sold \in [Tiers -> Nat]
  /\ reserved \in [Tiers -> Nat]
  /\ totals \in EventTotals
  /\ charge \in [Purchases -> ChargeStates]
  /\ declined \in [Purchases -> BOOLEAN]
  /\ job \in [Workers -> Jobs]
  /\ sweep \in SUBSET Purchases

Tickets(p) == {p} \X (1 .. Qty[p])

TicketsOf(S) == UNION {Tickets(p) : p \in S}

\* The purchases in tier t whose ticket rows have status s.
Holders(t, s) == {p \in Purchases : TierOf[p] = t /\ seats[p] = s}

\* Overselling (the failure the lock, the row lock and the reservation exist
\* to prevent): no tier ever has more SOLD ticket rows than seats, although
\* the Redis lock may have lapsed under its holder or been deleted by another
\* call, and although confirmations and releases may run twice.
NoOversell ==
  \A t \in Tiers : Cardinality(TicketsOf(Holders(t, "sold"))) <= Quantity[t]

\* The counters behind calculate_available never promise more than the tier
\* has, and never less than the SOLD ticket rows took.
CountersCoverSeats ==
  \A t \in Tiers :
    /\ sold[t] + reserved[t] <= Quantity[t]
    /\ Cardinality(TicketsOf(Holders(t, "sold"))) <= sold[t]

\* No seat is locked away for ever: whatever verify, webhooks and the sweep
\* did to each other, quantity_reserved never counts a seat that no pending
\* purchase holds.
NoLeakedReservation ==
  \A t \in Tiers : reserved[t] <= Cardinality(TicketsOf(Holders(t, "reserved")))

\* A ticket is SOLD only when the gateway took the full amount, although the
\* answer is read outside the transaction that uses it.
SoldWasPaid == \A p \in Purchases : seats[p] = "sold" => charge[p] = "paid"

\* What the safety properties rest on.  A purchase row appears only at commit,
\* workers only touch committed rows, an open reservation has room and has the
\* tier's row to itself, and a confirming worker has seen the full payment.
FreshRows ==
  \A p \in Purchases :
    call[p] \in {"idle", "locked", "reserving"}
      => status[p] = "none" /\ seats[p] = "none"
WorkedRows ==
  \A w \in Workers :
    ~Working(w, "idle") => status[job[w].purchase] # "none"
ReservingFits ==
  \A p \in Purchases : At(p, "reserving") =>
    /\ sold[TierOf[p]] + reserved[TierOf[p]] + Qty[p] <= Quantity[TierOf[p]]
    /\ \A q \in Purchases :
         At(q, "reserving") /\ TierOf[q] = TierOf[p] => q = p
ConfirmSawPayment ==
  \A w \in Workers : Working(w, "confirm") => charge[job[w].purchase] = "paid"

IInv ==
  /\ TypeOK
  /\ FreshRows
  /\ WorkedRows
  /\ ReservingFits
  /\ CountersCoverSeats
  /\ NoLeakedReservation
  /\ ConfirmSawPayment
  /\ SoldWasPaid

\* The tier counters behave as a bounded pool of seats: what the ledger calls
\* held is quantity_reserved, whoever reserved it and however often.
Ledger == INSTANCE TierLedger WITH
            Tiers <- Tiers, Quantity <- Quantity, sold <- sold, held <- reserved
ImplementsLedger == Ledger!Spec

\* A dead or slow buyer never blocks the event's sales: every call returns and
\* every verification ends.
WorkEnds ==
  /\ \A p \in Purchases : ~At(p, "idle") ~> At(p, "returned")
  /\ \A w \in Workers : ~Working(w, "idle") ~> Working(w, "idle")

\* docs/tickets-api.md:21 and 539: a pending purchase holds inventory until
\* its reservation lapses.
PendingIsHeld ==
  \A t \in Tiers :
    Cardinality(TicketsOf(Holders(t, "reserved"))) <= reserved[t]

\* docs/tickets-api.md:195: the sweep finds purchases still pending past
\* reserved_until and releases them.
OverdueReleased ==
  \A p \in Purchases : p \in Overdue ~> p \notin Overdue

\* What the code does keep of that promise: an abandoned purchase is released
\* some day, in every run in which no reservation was given back twice.
OverdueReleasedIfHeld == []PendingIsHeld => OverdueReleased

\* docs/tickets-api.md:187: verify_purchase is idempotent and never counts
\* inventory twice, so a tier sells no more seats than were paid for.
CountedOnce ==
  \A t \in Tiers :
    sold[t] <= SumOver(LAMBDA p : Qty[p],
                 {p \in Purchases : TierOf[p] = t /\ charge[p] = "paid"})
=============================================================================
