------------------------- MODULE TicketSalesProofs -------------------------
(***************************************************************************)
(* Proofs about TicketSales for every number of purchases, tiers, workers  *)
(* and seats: type correctness, that no tier is oversold, that no seat     *)
(* stays reserved without a pending purchase, that SOLD means paid, and    *)
(* that the tier counters implement TierLedger.                            *)
(***************************************************************************)
EXTENDS TicketSales, TLAPS, FiniteSetTheorems, FunctionTheorems

USE QuantityNat, PriceNat, TotalSeatsNat, TierOfTiers, QtyPositive

-----------------------------------------------------------------------------
(* How many tickets a set of purchases holds *)

\* A purchase has as many ticket rows as its quantity says.
LEMMA TicketsCount ==
  ASSUME NEW p \in Purchases
  PROVE  IsFiniteSet(Tickets(p)) /\ Cardinality(Tickets(p)) = Qty[p]
<1>1. Qty[p] \in Nat \ {0}
  BY DEF Tickets
<1>2. IsFiniteSet(1 .. Qty[p]) /\ Cardinality(1 .. Qty[p]) = Qty[p]
  BY <1>1, FS_Interval
<1>3. IsFiniteSet({p}) /\ Cardinality({p}) = 1
  BY FS_Singleton
<1>4. IsFiniteSet({p} \X (1 .. Qty[p]))
      /\ Cardinality({p} \X (1 .. Qty[p])) = 1 * Qty[p]
  BY <1>2, <1>3, FS_Product
<1>. QED
  BY <1>1, <1>4 DEF Tickets

\* Finitely many purchases hold finitely many tickets.
LEMMA TicketsFinite ==
  ASSUME NEW S \in SUBSET Purchases
  PROVE  IsFiniteSet(TicketsOf(S)) /\ Cardinality(TicketsOf(S)) \in Nat
<1>. DEFINE T == {Tickets(p) : p \in S}
            f == [p \in S |-> Tickets(p)]
<1>1. IsFiniteSet(S)
  BY PurchasesFinite, FS_Subset
<1>2. f \in Surjection(S, T)
  BY DEF Surjection
<1>3. IsFiniteSet(T)
  BY <1>1, <1>2, FS_Surjection
<1>4. \A X \in T : IsFiniteSet(X)
  BY TicketsCount
<1>5. IsFiniteSet(UNION T)
  BY <1>3, <1>4, FS_UNION
<1>. QED
  BY <1>5, FS_CardinalityType DEF TicketsOf

\* A purchase that joins a set adds exactly its quantity.
LEMMA TicketsAdd ==
  ASSUME NEW S \in SUBSET Purchases, NEW p \in Purchases, p \notin S
  PROVE  Cardinality(TicketsOf(S \cup {p})) = Cardinality(TicketsOf(S)) + Qty[p]
<1>1. TicketsOf(S \cup {p}) = TicketsOf(S) \cup Tickets(p)
  BY DEF TicketsOf
<1>2. TicketsOf(S) \cap Tickets(p) = {}
  BY DEF TicketsOf, Tickets
<1>3. IsFiniteSet(TicketsOf(S)) /\ Cardinality(TicketsOf(S)) \in Nat
  BY TicketsFinite
<1>4. IsFiniteSet(Tickets(p)) /\ Cardinality(Tickets(p)) = Qty[p]
  BY TicketsCount
<1>5. Cardinality({}) = 0
  BY FS_EmptySet
<1>6. Cardinality(TicketsOf(S) \cup Tickets(p))
        = Cardinality(TicketsOf(S)) + Cardinality(Tickets(p))
          - Cardinality(TicketsOf(S) \cap Tickets(p))
  BY <1>3, <1>4, FS_Union
<1>7. Cardinality(TicketsOf(S) \cap Tickets(p)) = 0
  BY <1>2, <1>5
<1>8. Qty[p] \in Nat
  OBVIOUS
<1>9. Cardinality(TicketsOf(S) \cup Tickets(p)) = Cardinality(TicketsOf(S)) + Qty[p]
  <2>. DEFINE a == Cardinality(TicketsOf(S))
              b == Cardinality(Tickets(p))
              c == Cardinality(TicketsOf(S) \cap Tickets(p))
              d == Cardinality(TicketsOf(S) \cup Tickets(p))
  <2>1. a \in Nat /\ b = Qty[p] /\ c = 0 /\ d = a + b - c
    BY <1>3, <1>4, <1>6, <1>7
  <2>. HIDE DEF a, b, c, d
  <2>2. d = a + Qty[p]
    BY <2>1, <1>8
  <2>. QED
    BY <2>2 DEF a, d
<1>. QED
  BY <1>1, <1>9, Zenon

\* A purchase that leaves a set takes exactly its quantity with it.
LEMMA TicketsRemove ==
  ASSUME NEW S \in SUBSET Purchases, NEW p \in S
  PROVE  Cardinality(TicketsOf(S \ {p})) = Cardinality(TicketsOf(S)) - Qty[p]
<1>1. (S \ {p}) \cup {p} = S /\ S \ {p} \in SUBSET Purchases /\ p \in Purchases
  OBVIOUS
<1>2. Cardinality(TicketsOf(S)) = Cardinality(TicketsOf(S \ {p})) + Qty[p]
  BY <1>1, TicketsAdd
<1>3. Cardinality(TicketsOf(S \ {p})) \in Nat /\ Qty[p] \in Nat
  BY <1>1, TicketsFinite
<1>. QED
  BY <1>2, <1>3

-----------------------------------------------------------------------------
(* Type correctness *)

\* A worker that is not idle works for a purchase.
LEMMA JobPurchase ==
  ASSUME TypeOK, NEW w \in Workers, ~Working(w, "idle")
  PROVE  /\ job[w].purchase \in Purchases
         /\ job[w].step \in {"verify", "confirm", "release"}
BY DEF TypeOK, Jobs, NoJob, Working

\* The initial state is well typed.
LEMMA TypeInit == Init => TypeOK
<1>. SUFFICES ASSUME Init
              PROVE  TypeOK
  OBVIOUS
<1>. USE DEF Init
<1>1. lockHeld \in BOOLEAN /\ sweep \in SUBSET Purchases
  OBVIOUS
<1>2. /\ call \in [Purchases -> CallStates]
      /\ status \in [Purchases -> Statuses]
      /\ seats \in [Purchases -> SeatStates]
  BY DEF CallStates, Statuses, SeatStates
<1>3. /\ overdue \in [Purchases -> BOOLEAN]
      /\ declined \in [Purchases -> BOOLEAN]
      /\ charge \in [Purchases -> ChargeStates]
  BY DEF ChargeStates
<1>4. sold \in [Tiers -> Nat] /\ reserved \in [Tiers -> Nat]
  OBVIOUS
<1>5. totals \in EventTotals
  BY DEF EventTotals
<1>6. job \in [Workers -> Jobs]
  BY DEF Jobs
<1>. QED
  BY <1>1, <1>2, <1>3, <1>4, <1>5, <1>6 DEF TypeOK

\* Every step keeps the types: the counters are natural numbers because the
\* database rejects a decrement below zero.
LEMMA TypeNext == TypeOK /\ [Next]_vars => TypeOK'
<1>. SUFFICES ASSUME TypeOK, [Next]_vars
              PROVE  TypeOK'
  OBVIOUS
<1>. USE DEF TypeOK, At, Goto, CallStates, Statuses, SeatStates, ChargeStates,
             rows, ledger, gateway
<1>1. ASSUME NEW p \in Purchases,
             AcquireLock(p) \/ CallStep(p) \/ CrashPurchase(p)
      PROVE  TypeOK'
  <2>1. CASE AcquireLock(p)
    BY <2>1 DEF AcquireLock
  <2>2. CASE LockTier(p)
    BY <2>2 DEF LockTier
  <2>3. CASE CommitPurchase(p)
    <3>1. TierOf[p] \in Tiers /\ Qty[p] \in Nat
      OBVIOUS
    <3>2. reserved' \in [Tiers -> Nat]
      BY <2>3, <3>1 DEF CommitPurchase
    <3>. QED
      BY <2>3, <3>2 DEF CommitPurchase
  <2>4. CASE AbortPurchase(p)
    BY <2>4 DEF AbortPurchase
  <2>5. CASE Unlock(p)
    BY <2>5 DEF Unlock
  <2>6. CASE CrashPurchase(p)
    BY <2>6 DEF CrashPurchase
  <2>. QED
    BY <1>1, <2>1, <2>2, <2>3, <2>4, <2>5, <2>6 DEF CallStep
<1>2. CASE LockExpires
  BY <1>2 DEF LockExpires
<1>3. ASSUME NEW p \in Purchases, ReservationLapses(p)
      PROVE  TypeOK'
  BY <1>3 DEF ReservationLapses
<1>4. ASSUME NEW p \in Purchases, NEW outcome \in Outcomes,
             SettleCharge(p, outcome)
      PROVE  TypeOK'
  BY <1>4, OutcomesKnown DEF SettleCharge, ChargeStates
<1>5. ASSUME NEW w \in Workers, NEW p \in Purchases,
             BeginVerify(w, p) \/ BeginChargeFailed(w, p)
      PROVE  TypeOK'
  BY <1>5 DEF BeginVerify, BeginChargeFailed, Starts, Jobs
<1>6. ASSUME NEW w \in Workers, WorkerStep(w) \/ AbandonJob(w)
      PROVE  TypeOK'
  <2>1. CASE GatewayAnswers(w)
    <3>1. job[w].purchase \in Purchases
      BY <2>1, JobPurchase DEF GatewayAnswers, Working
    <3>. QED
      BY <2>1, <3>1 DEF GatewayAnswers, Starts, Jobs
  <2>2. CASE Confirm(w)
    <3>. DEFINE p == job[w].purchase
                t == TierOf[p]
    <3>1. p \in Purchases /\ t \in Tiers /\ Qty[p] \in Nat /\ Price[t] \in Nat
      BY <2>2, JobPurchase DEF Confirm, Working
    <3>2. sold' \in [Tiers -> Nat]
      BY <2>2, <3>1 DEF Confirm
    <3>3. reserved' \in [Tiers -> Nat]
      BY <2>2, <3>1 DEF Confirm
    <3>4. totals' \in EventTotals
      <4>1. totals.sold \in Nat /\ totals.available \in Nat /\ totals.revenue \in Nat
        BY DEF EventTotals
      <4>2. Price[t] * Qty[p] \in Nat
        BY <3>1
      <4>. QED
        BY <2>2, <3>1, <4>1, <4>2 DEF Confirm, TotalsWithSale, EventTotals
    <3>5. job' \in [Workers -> Jobs]
      BY <2>2 DEF Confirm, Ends, Jobs
    <3>. QED
      BY <2>2, <3>1, <3>2, <3>3, <3>4, <3>5 DEF Confirm
  <2>3. CASE ReleaseReservation(w)
    <3>. DEFINE p == job[w].purchase
                t == TierOf[p]
    <3>1. p \in Purchases /\ t \in Tiers /\ Qty[p] \in Nat
      BY <2>3, JobPurchase DEF ReleaseReservation, CancelReservation, Working
    <3>2. reserved' \in [Tiers -> Nat]
      BY <2>3, <3>1 DEF ReleaseReservation, CancelReservation
    <3>3. job' \in [Workers -> Jobs]
      BY <2>3 DEF ReleaseReservation, CancelReservation, Ends, Jobs
    <3>. QED
      BY <2>3, <3>1, <3>2, <3>3 DEF ReleaseReservation, CancelReservation
  <2>4. CASE DecrementRejected(w)
    BY <2>4 DEF DecrementRejected, Ends, Jobs
  <2>5. CASE AbandonJob(w)
    BY <2>5 DEF AbandonJob, Ends, Jobs
  <2>. QED
    BY <1>6, <2>1, <2>2, <2>3, <2>4, <2>5 DEF WorkerStep
<1>7. ASSUME NEW p \in Purchases, SweepStep(p)
      PROVE  TypeOK'
  <2>1. CASE SweepRelease(p)
    <3>1. TierOf[p] \in Tiers /\ Qty[p] \in Nat
      OBVIOUS
    <3>2. reserved' \in [Tiers -> Nat]
      BY <2>1, <3>1 DEF SweepRelease, CancelReservation
    <3>. QED
      BY <2>1, <3>2 DEF SweepRelease, CancelReservation
  <2>2. CASE SweepSkip(p)
    BY <2>2 DEF SweepSkip
  <2>3. CASE SweepRejected(p)
    BY <2>3 DEF SweepRejected
  <2>. QED
    BY <1>7, <2>1, <2>2, <2>3 DEF SweepStep
<1>8. CASE SweepList
  BY <1>8 DEF SweepList, Overdue
<1>9. CASE SweepCrashes
  BY <1>9 DEF SweepCrashes
<1>10. CASE UNCHANGED vars
  BY <1>10 DEF vars
<1>. QED
  BY <1>1, <1>2, <1>3, <1>4, <1>5, <1>6, <1>7, <1>8, <1>9, <1>10 DEF Next

\* Type correctness: whatever the interleaving, every column keeps its type,
\* and quantity_sold and quantity_reserved never go below zero.
THEOREM TypeCorrect == Spec => []TypeOK
BY TypeInit, TypeNext, PTL DEF Spec

-----------------------------------------------------------------------------
(* What a step does to the tickets and to the counters *)

\* A reservation given back: by _release_reservation or by the sweep.
GivesBack(p) ==
  /\ p \in Purchases
  /\ Qty[p] <= reserved[TierOf[p]]
  /\ seats' = [seats EXCEPT ![p] = "cancelled"]
  /\ reserved' = [reserved EXCEPT ![TierOf[p]] = @ - Qty[p]]
  /\ UNCHANGED <<call, sold>>

\* A reservation turned into a sale of p.
Sells(p) ==
  /\ p \in Purchases
  /\ Qty[p] <= reserved[TierOf[p]]
  /\ seats' = [seats EXCEPT ![p] = "sold"]
  /\ sold' = [sold EXCEPT ![TierOf[p]] = @ + Qty[p]]
  /\ reserved' = [reserved EXCEPT ![TierOf[p]] = @ - Qty[p]]
  /\ UNCHANGED call

\* Tickets and counters only change when a purchase commits, is confirmed or
\* is given back.
LEMMA StepEffect ==
  ASSUME TypeOK, [Next]_vars
  PROVE  \/ UNCHANGED <<seats, sold, reserved>>
         \/ \E p \in Purchases : CommitPurchase(p)
         \/ \E p \in Purchases : Sells(p)
         \/ \E p \in Purchases : GivesBack(p)
<1>. USE DEF rows, ledger, gateway
<1>1. ASSUME NEW p \in Purchases,
             AcquireLock(p) \/ CallStep(p) \/ CrashPurchase(p)
      PROVE  UNCHANGED <<seats, sold, reserved>> \/ CommitPurchase(p)
  BY <1>1 DEF AcquireLock, CallStep, LockTier, AbortPurchase, Unlock, CrashPurchase
<1>2. ASSUME \/ LockExpires
             \/ \E p \in Purchases : ReservationLapses(p)
             \/ \E p \in Purchases, outcome \in Outcomes : SettleCharge(p, outcome)
             \/ \E w \in Workers, p \in Purchases :
                  BeginVerify(w, p) \/ BeginChargeFailed(w, p)
             \/ SweepList
             \/ SweepCrashes
             \/ UNCHANGED vars
      PROVE  UNCHANGED <<seats, sold, reserved>>
  BY <1>2 DEF LockExpires, ReservationLapses, SettleCharge, BeginVerify,
              BeginChargeFailed, SweepList, SweepCrashes, vars
<1>3. ASSUME NEW w \in Workers, WorkerStep(w) \/ AbandonJob(w)
      PROVE  \/ UNCHANGED <<seats, sold, reserved>>
             \/ \E p \in Purchases : Sells(p)
             \/ \E p \in Purchases : GivesBack(p)
  <2>1. CASE GatewayAnswers(w) \/ DecrementRejected(w) \/ AbandonJob(w)
    BY <2>1 DEF GatewayAnswers, DecrementRejected, AbandonJob
  <2>2. CASE Confirm(w)
    <3>1. job[w].purchase \in Purchases
      BY <2>2, JobPurchase DEF Confirm, Working
    <3>2. Sells(job[w].purchase)
      BY <2>2, <3>1 DEF Confirm, Sells
    <3>. QED
      BY <3>1, <3>2
  <2>3. CASE ReleaseReservation(w)
    <3>1. job[w].purchase \in Purchases
      BY <2>3, JobPurchase DEF ReleaseReservation, CancelReservation, Working
    <3>2. GivesBack(job[w].purchase)
      BY <2>3, <3>1 DEF ReleaseReservation, CancelReservation, GivesBack
    <3>. QED
      BY <3>1, <3>2
  <2>. QED
    BY <1>3, <2>1, <2>2, <2>3 DEF WorkerStep
<1>4. ASSUME NEW p \in Purchases, SweepStep(p)
      PROVE  UNCHANGED <<seats, sold, reserved>> \/ GivesBack(p)
  BY <1>4 DEF SweepStep, SweepRelease, CancelReservation, SweepSkip, SweepRejected, GivesBack
<1>. QED
  BY <1>1, <1>2, <1>3, <1>4 DEF Next

\* Setting the tickets of one purchase to v moves that purchase, and no other,
\* to the holders of v.
LEMMA SeatChange ==
  ASSUME seats \in [Purchases -> SeatStates], NEW p \in Purchases, NEW v,
         seats' = [seats EXCEPT ![p] = v], NEW t \in Tiers, NEW s
  PROVE  Holders(t, s)' = IF TierOf[p] = t /\ s = v
                          THEN Holders(t, s) \cup {p}
                          ELSE Holders(t, s) \ {p}
BY DEF Holders

\* The holders of a status are purchases, so their tickets can be counted.
LEMMA HoldersCount ==
  ASSUME NEW t, NEW s
  PROVE  /\ Holders(t, s) \in SUBSET Purchases
         /\ Cardinality(TicketsOf(Holders(t, s))) \in Nat
<1>1. Holders(t, s) \in SUBSET Purchases
  BY DEF Holders
<1>. QED
  BY <1>1, TicketsFinite

\* Taking a purchase out of a set lowers its tickets by the purchase's
\* quantity, or leaves them when it was not in the set.
LEMMA TicketsWithout ==
  ASSUME NEW S \in SUBSET Purchases, NEW p \in Purchases
  PROVE  /\ Cardinality(TicketsOf(S \ {p})) <= Cardinality(TicketsOf(S))
         /\ Cardinality(TicketsOf(S)) <= Cardinality(TicketsOf(S \ {p})) + Qty[p]
<1>1. /\ Cardinality(TicketsOf(S)) \in Nat
      /\ Cardinality(TicketsOf(S \ {p})) \in Nat
      /\ Qty[p] \in Nat
  BY TicketsFinite
<1>2. CASE p \in S
  BY <1>1, <1>2, TicketsRemove
<1>3. CASE p \notin S
  <2>1. S \ {p} = S
    BY <1>3
  <2>2. Cardinality(TicketsOf(S \ {p})) = Cardinality(TicketsOf(S))
    BY <2>1, Zenon
  <2>. QED
    BY <1>1, <2>2
<1>. QED
  BY <1>2, <1>3

\* Putting a purchase into a set raises its tickets by at most its quantity.
LEMMA TicketsWith ==
  ASSUME NEW S \in SUBSET Purchases, NEW p \in Purchases
  PROVE  Cardinality(TicketsOf(S \cup {p})) <= Cardinality(TicketsOf(S)) + Qty[p]
<1>1. Cardinality(TicketsOf(S)) \in Nat /\ Qty[p] \in Nat
  BY TicketsFinite
<1>2. CASE p \in S
  <2>1. S \cup {p} = S
    BY <1>2
  <2>2. Cardinality(TicketsOf(S \cup {p})) = Cardinality(TicketsOf(S))
    BY <2>1, Zenon
  <2>. QED
    BY <1>1, <2>2
<1>3. CASE p \notin S
  BY <1>1, <1>3, TicketsAdd
<1>. QED
  BY <1>2, <1>3

-----------------------------------------------------------------------------
(* The inductive invariant, conjunct by conjunct *)

\* Rows appear only when their transaction commits, and workers and the sweep
\* only touch rows that exist.
LEMMA RowsNext ==
  ASSUME TypeOK, FreshRows, WorkedRows, [Next]_vars
  PROVE  FreshRows' /\ WorkedRows'
<1>. USE DEF FreshRows, WorkedRows, TypeOK, At, Goto, Working, Starts, Ends, NoJob,
             rows, ledger, gateway
<1>1. ASSUME NEW p \in Purchases,
             AcquireLock(p) \/ CallStep(p) \/ CrashPurchase(p)
      PROVE  FreshRows' /\ WorkedRows'
  <2>1. CASE AcquireLock(p)
    BY <2>1 DEF AcquireLock
  <2>2. CASE LockTier(p)
    BY <2>2 DEF LockTier
  <2>3. CASE CommitPurchase(p)
    BY <2>3 DEF CommitPurchase
  <2>4. CASE AbortPurchase(p)
    BY <2>4 DEF AbortPurchase
  <2>5. CASE Unlock(p)
    BY <2>5 DEF Unlock
  <2>6. CASE CrashPurchase(p)
    BY <2>6 DEF CrashPurchase
  <2>. QED
    BY <1>1, <2>1, <2>2, <2>3, <2>4, <2>5, <2>6 DEF CallStep
<1>2. CASE LockExpires \/ SweepList \/ SweepCrashes \/ UNCHANGED vars
  BY <1>2 DEF LockExpires, SweepList, SweepCrashes, vars
<1>3. ASSUME NEW p \in Purchases, ReservationLapses(p)
      PROVE  FreshRows' /\ WorkedRows'
  BY <1>3 DEF ReservationLapses
<1>4. ASSUME NEW p \in Purchases, NEW outcome \in Outcomes,
             SettleCharge(p, outcome)
      PROVE  FreshRows' /\ WorkedRows'
  BY <1>4 DEF SettleCharge
<1>5. ASSUME NEW w \in Workers, NEW p \in Purchases,
             BeginVerify(w, p) \/ BeginChargeFailed(w, p)
      PROVE  FreshRows' /\ WorkedRows'
  BY <1>5 DEF BeginVerify, BeginChargeFailed
<1>6. ASSUME NEW w \in Workers, WorkerStep(w) \/ AbandonJob(w)
      PROVE  FreshRows' /\ WorkedRows'
  <2>1. CASE GatewayAnswers(w)
    BY <2>1 DEF GatewayAnswers
  <2>2. CASE Confirm(w)
    <3>1. job[w].purchase \in Purchases /\ status[job[w].purchase] # "none"
      BY <2>2, JobPurchase DEF Confirm
    <3>. QED
      BY <2>2, <3>1 DEF Confirm
  <2>3. CASE ReleaseReservation(w)
    <3>1. job[w].purchase \in Purchases /\ status[job[w].purchase] # "none"
      BY <2>3, JobPurchase DEF ReleaseReservation, CancelReservation
    <3>. QED
      BY <2>3, <3>1 DEF ReleaseReservation, CancelReservation
  <2>4. CASE DecrementRejected(w)
    BY <2>4 DEF DecrementRejected
  <2>5. CASE AbandonJob(w)
    BY <2>5 DEF AbandonJob
  <2>. QED
    BY <1>6, <2>1, <2>2, <2>3, <2>4, <2>5 DEF WorkerStep
<1>7. ASSUME NEW p \in Purchases, SweepStep(p)
      PROVE  FreshRows' /\ WorkedRows'
  <2>1. CASE SweepRelease(p)
    <3>1. status[p] = "pending"
      BY <2>1 DEF SweepRelease, CancelReservation, Overdue
    <3>. QED
      BY <2>1, <3>1 DEF SweepRelease, CancelReservation
  <2>2. CASE SweepSkip(p) \/ SweepRejected(p)
    BY <2>2 DEF SweepSkip, SweepRejected
  <2>. QED
    BY <1>7, <2>1, <2>2 DEF SweepStep
<1>. QED
  BY <1>1, <1>2, <1>3, <1>4, <1>5, <1>6, <1>7 DEF Next

\* Sold and reserved seats of a tier never exceed its quantity: the half of
\* CountersCoverSeats that needs no counting of tickets.
Bounded == \A t \in Tiers : sold[t] + reserved[t] <= Quantity[t]

\* The row lock on the tier makes the availability check last until the
\* reservation commits; confirming and releasing only give room.
LEMMA CapacityNext ==
  ASSUME TypeOK, ReservingFits, Bounded, [Next]_vars
  PROVE  ReservingFits' /\ Bounded'
<1>1. CASE \E p \in Purchases : CommitPurchase(p)
  <2>. PICK p \in Purchases : CommitPurchase(p)
    BY <1>1
  <2>. DEFINE t == TierOf[p]
  <2>1. /\ At(p, "reserving")
        /\ call' = [call EXCEPT ![p] = "unlocking"]
        /\ reserved' = [reserved EXCEPT ![t] = @ + Qty[p]]
        /\ sold' = sold
    BY DEF CommitPurchase, Goto
  <2>2. sold[t] + reserved[t] + Qty[p] <= Quantity[t]
    BY <2>1 DEF ReservingFits
  <2>3. Bounded'
    BY <2>1, <2>2 DEF Bounded, TypeOK
  <2>4. \A q \in Purchases : At(q, "reserving")' =>
          q # p /\ At(q, "reserving") /\ TierOf[q] # t
    BY <2>1 DEF ReservingFits, At, TypeOK
  <2>5. ReservingFits'
    BY <2>1, <2>4 DEF ReservingFits, At, TypeOK
  <2>. QED
    BY <2>3, <2>5
<1>2. CASE \E p \in Purchases : Sells(p)
  <2>. PICK p \in Purchases : Sells(p)
    BY <1>2
  <2>. DEFINE t == TierOf[p]
  <2>1. /\ \A u \in Tiers : sold'[u] + reserved'[u] <= sold[u] + reserved[u]
        /\ \A u \in Tiers : sold'[u] \in Nat /\ reserved'[u] \in Nat
        /\ call' = call
    BY DEF Sells, TypeOK
  <2>2. \A u \in Tiers : /\ sold[u] \in Nat /\ reserved[u] \in Nat
                         /\ Quantity[u] \in Nat
    BY DEF TypeOK
  <2>3. Bounded'
    BY <2>1, <2>2 DEF Bounded
  <2>4. ReservingFits'
    <3>1. \A q \in Purchases : TierOf[q] \in Tiers /\ Qty[q] \in Nat
      OBVIOUS
    <3>. QED
      BY <2>1, <2>2, <3>1 DEF ReservingFits, At
  <2>. QED
    BY <2>3, <2>4
<1>3. CASE \E p \in Purchases : GivesBack(p)
  <2>. PICK p \in Purchases : GivesBack(p)
    BY <1>3
  <2>1. /\ \A u \in Tiers : sold'[u] + reserved'[u] <= sold[u] + reserved[u]
        /\ \A u \in Tiers : sold'[u] \in Nat /\ reserved'[u] \in Nat
        /\ call' = call
    BY DEF GivesBack, TypeOK
  <2>2. \A u \in Tiers : /\ sold[u] \in Nat /\ reserved[u] \in Nat
                         /\ Quantity[u] \in Nat
    BY DEF TypeOK
  <2>3. Bounded'
    BY <2>1, <2>2 DEF Bounded
  <2>4. ReservingFits'
    <3>1. \A q \in Purchases : TierOf[q] \in Tiers /\ Qty[q] \in Nat
      OBVIOUS
    <3>. QED
      BY <2>1, <2>2, <3>1 DEF ReservingFits, At
  <2>. QED
    BY <2>3, <2>4
<1>4. CASE UNCHANGED <<seats, sold, reserved>>
  <2>1. Bounded'
    BY <1>4 DEF Bounded
  <2>2. ASSUME NEW p \in Purchases, LockTier(p)
        PROVE  ReservingFits'
    <3>1. call' = [call EXCEPT ![p] = IF Available(TierOf[p]) < Qty[p]
                                      THEN "unlocking" ELSE "reserving"]
      BY <2>2 DEF LockTier, Goto
    <3>2. \A q \in Purchases : At(q, "reserving") => TierOf[q] # TierOf[p]
      BY <2>2 DEF LockTier, RowFree
    <3>3. At(p, "reserving")' =>
            sold[TierOf[p]] + reserved[TierOf[p]] + Qty[p] <= Quantity[TierOf[p]]
      BY <3>1 DEF At, Available, TypeOK
    <3>4. \A q \in Purchases : q # p => (At(q, "reserving")' <=> At(q, "reserving"))
      BY <3>1 DEF At, TypeOK
    <3>. QED
      BY <1>4, <3>2, <3>3, <3>4 DEF ReservingFits
  <2>3. ASSUME \A q \in Purchases : At(q, "reserving")' => At(q, "reserving")
        PROVE  ReservingFits'
    BY <1>4, <2>3 DEF ReservingFits
  <2>4. \/ \E p \in Purchases : LockTier(p)
        \/ \A q \in Purchases : At(q, "reserving")' => At(q, "reserving")
    <3>1. CASE UNCHANGED call
      BY <3>1 DEF At
    <3>2. ASSUME NEW p \in Purchases,
                 \E s \in {"returned", "locked", "unlocking"} :
                   call' = [call EXCEPT ![p] = s]
          PROVE  \A q \in Purchases : At(q, "reserving")' => At(q, "reserving")
      BY <3>2 DEF At, TypeOK
    <3>3. \/ UNCHANGED call
          \/ \E p \in Purchases : LockTier(p)
          \/ \E p \in Purchases : \E s \in {"returned", "locked", "unlocking"} :
               call' = [call EXCEPT ![p] = s]
      BY DEF Next, AcquireLock, CallStep, CommitPurchase, AbortPurchase, Unlock,
             CrashPurchase, LockExpires, ReservationLapses, SettleCharge,
             BeginVerify, BeginChargeFailed, WorkerStep, GatewayAnswers, Confirm,
             ReleaseReservation, CancelReservation, DecrementRejected, AbandonJob, SweepStep,
             SweepRelease, SweepSkip, SweepRejected, SweepList, SweepCrashes,
             Goto, vars
    <3>. QED
      BY <3>1, <3>2, <3>3
  <2>. QED
    BY <2>1, <2>2, <2>3, <2>4
<1>. QED
  BY <1>1, <1>2, <1>3, <1>4, StepEffect

\* The ticket rows against the counters, the other half of CountersCoverSeats.
SoldCovered ==
  \A t \in Tiers : Cardinality(TicketsOf(Holders(t, "sold"))) <= sold[t]

\* Selling adds at most the purchase's quantity to the SOLD rows and exactly
\* that to the counter; giving back never adds a SOLD row.
LEMMA SoldCoveredNext ==
  ASSUME TypeOK, SoldCovered, FreshRows, [Next]_vars
  PROVE  SoldCovered'
<1>. DEFINE N(t) == Cardinality(TicketsOf(Holders(t, "sold")))
<1>1. \A t \in Tiers : N(t) \in Nat /\ N(t) <= sold[t] /\ sold[t] \in Nat
  BY HoldersCount DEF SoldCovered, TypeOK
<1>2. CASE \E p \in Purchases : CommitPurchase(p) \/ GivesBack(p)
  <2>. PICK p \in Purchases : CommitPurchase(p) \/ GivesBack(p)
    BY <1>2
  <2>. SUFFICES ASSUME NEW t \in Tiers
                PROVE  Cardinality(TicketsOf(Holders(t, "sold")')) <= sold'[t]
    BY DEF SoldCovered
  <2>1. sold' = sold /\ \E v \in {"reserved", "cancelled"} :
                           seats' = [seats EXCEPT ![p] = v]
    BY DEF CommitPurchase, GivesBack
  <2>2. Holders(t, "sold")' = Holders(t, "sold") \ {p}
    BY <2>1, SeatChange DEF TypeOK
  <2>3. Cardinality(TicketsOf(Holders(t, "sold") \ {p})) <= N(t)
    BY HoldersCount, TicketsWithout
  <2>4. Cardinality(TicketsOf(Holders(t, "sold") \ {p})) \in Nat
    BY HoldersCount, TicketsFinite
  <2>5. Cardinality(TicketsOf(Holders(t, "sold") \ {p})) <= sold[t]
    BY <1>1, <2>3, <2>4
  <2>. QED
    BY <2>1, <2>2, <2>5
<1>3. CASE \E p \in Purchases : Sells(p)
  <2>. PICK p \in Purchases : Sells(p)
    BY <1>3
  <2>. SUFFICES ASSUME NEW t \in Tiers
                PROVE  Cardinality(TicketsOf(Holders(t, "sold")')) <= sold'[t]
    BY DEF SoldCovered
  <2>1. /\ seats' = [seats EXCEPT ![p] = "sold"]
        /\ sold'[t] = IF TierOf[p] = t THEN sold[t] + Qty[p] ELSE sold[t]
    BY DEF Sells, TypeOK
  <2>2. CASE TierOf[p] = t
    <3>1. Holders(t, "sold")' = Holders(t, "sold") \cup {p}
      BY <2>1, <2>2, SeatChange DEF TypeOK
    <3>2. Cardinality(TicketsOf(Holders(t, "sold") \cup {p})) <= N(t) + Qty[p]
      BY HoldersCount, TicketsWith
    <3>3. Cardinality(TicketsOf(Holders(t, "sold") \cup {p})) \in Nat
      <4>1. Holders(t, "sold") \cup {p} \in SUBSET Purchases
        BY HoldersCount
      <4>. QED
        BY <4>1, TicketsFinite
    <3>4. Qty[p] \in Nat
      OBVIOUS
    <3>5. Cardinality(TicketsOf(Holders(t, "sold") \cup {p})) <= sold[t] + Qty[p]
      BY <1>1, <3>2, <3>3, <3>4
    <3>. QED
      BY <2>1, <2>2, <3>1, <3>5
  <2>3. CASE TierOf[p] # t
    <3>1. Holders(t, "sold")' = Holders(t, "sold") \ {p}
      BY <2>1, <2>3, SeatChange DEF TypeOK
    <3>2. Cardinality(TicketsOf(Holders(t, "sold") \ {p})) <= N(t)
      BY HoldersCount, TicketsWithout
    <3>3. Cardinality(TicketsOf(Holders(t, "sold") \ {p})) \in Nat
      BY HoldersCount, TicketsFinite
    <3>4. Cardinality(TicketsOf(Holders(t, "sold") \ {p})) <= sold[t]
      BY <1>1, <3>2, <3>3
    <3>. QED
      BY <2>1, <2>3, <3>1, <3>4
  <2>. QED
    BY <2>2, <2>3
<1>4. CASE UNCHANGED <<seats, sold, reserved>>
  BY <1>4 DEF SoldCovered, Holders
<1>. QED
  BY <1>2, <1>3, <1>4, StepEffect

\* Leaving "reserved" gives the purchase's seats back to the counter; entering
\* it takes exactly as many.
LEMMA NoLeakNext ==
  ASSUME TypeOK, NoLeakedReservation, FreshRows, [Next]_vars
  PROVE  NoLeakedReservation'
<1>. DEFINE N(t) == Cardinality(TicketsOf(Holders(t, "reserved")))
<1>1. \A t \in Tiers : N(t) \in Nat /\ reserved[t] <= N(t) /\ reserved[t] \in Nat
  BY HoldersCount DEF NoLeakedReservation, TypeOK
<1>2. CASE \E p \in Purchases : CommitPurchase(p)
  <2>. PICK p \in Purchases : CommitPurchase(p)
    BY <1>2
  <2>. SUFFICES ASSUME NEW t \in Tiers
                PROVE  reserved'[t] <= Cardinality(TicketsOf(Holders(t, "reserved")'))
    BY DEF NoLeakedReservation
  <2>1. /\ seats' = [seats EXCEPT ![p] = "reserved"]
        /\ reserved'[t] = IF TierOf[p] = t THEN reserved[t] + Qty[p] ELSE reserved[t]
        /\ seats[p] = "none"
    BY DEF CommitPurchase, TypeOK, FreshRows, At
  <2>2. p \notin Holders(t, "reserved")
    BY <2>1 DEF Holders
  <2>3. CASE TierOf[p] = t
    <3>1. Holders(t, "reserved")' = Holders(t, "reserved") \cup {p}
      BY <2>1, <2>3, SeatChange DEF TypeOK
    <3>2. Cardinality(TicketsOf(Holders(t, "reserved") \cup {p})) = N(t) + Qty[p]
      BY <2>2, HoldersCount, TicketsAdd
    <3>3. reserved[t] + Qty[p] <= N(t) + Qty[p]
      BY <1>1
    <3>. QED
      BY <2>1, <2>3, <3>1, <3>2, <3>3
  <2>4. CASE TierOf[p] # t
    <3>1. Holders(t, "reserved")' = Holders(t, "reserved") \ {p}
      <4>1. seats \in [Purchases -> SeatStates]
        BY DEF TypeOK
      <4>. QED
        BY <2>1, <2>4, <4>1, SeatChange
    <3>2. Holders(t, "reserved")' = Holders(t, "reserved")
      BY <2>2, <3>1
    <3>. QED
      BY <1>1, <2>1, <2>4, <3>2
  <2>. QED
    BY <2>3, <2>4
<1>3. CASE \E p \in Purchases : Sells(p) \/ GivesBack(p)
  <2>. PICK p \in Purchases : Sells(p) \/ GivesBack(p)
    BY <1>3
  <2>. SUFFICES ASSUME NEW t \in Tiers
                PROVE  reserved'[t] <= Cardinality(TicketsOf(Holders(t, "reserved")'))
    BY DEF NoLeakedReservation
  <2>1. /\ \E v \in {"sold", "cancelled"} : seats' = [seats EXCEPT ![p] = v]
        /\ reserved'[t] = IF TierOf[p] = t THEN reserved[t] - Qty[p] ELSE reserved[t]
    BY DEF Sells, GivesBack, TypeOK
  <2>2. Holders(t, "reserved")' = Holders(t, "reserved") \ {p}
    BY <2>1, SeatChange DEF TypeOK
  <2>. DEFINE M == Cardinality(TicketsOf(Holders(t, "reserved") \ {p}))
  <2>3. M \in Nat /\ N(t) <= M + Qty[p] /\ Qty[p] \in Nat
    BY HoldersCount, TicketsWithout, TicketsFinite
  <2>4. CASE TierOf[p] = t
    <3>1. reserved[t] - Qty[p] <= M
      BY <1>1, <2>3
    <3>. QED
      BY <2>1, <2>2, <2>4, <3>1
  <2>5. CASE TierOf[p] # t
    <3>1. Holders(t, "reserved") \ {p} = Holders(t, "reserved")
      BY <2>5 DEF Holders
    <3>2. Holders(t, "reserved")' = Holders(t, "reserved")
      BY <2>2, <3>1
    <3>. QED
      BY <1>1, <2>1, <2>5, <3>2
  <2>. QED
    BY <2>4, <2>5
<1>4. CASE UNCHANGED <<seats, sold, reserved>>
  BY <1>4 DEF NoLeakedReservation, Holders
<1>. QED
  BY <1>2, <1>3, <1>4, StepEffect

\* A full payment, once made, stays made, so an answer read before the
\* confirming transaction is still true inside it.
LEMMA PaidNext ==
  ASSUME TypeOK, FreshRows, WorkedRows, ConfirmSawPayment, SoldWasPaid, [Next]_vars
  PROVE  ConfirmSawPayment' /\ SoldWasPaid'
<1>. USE DEF ConfirmSawPayment, SoldWasPaid, TypeOK, Working, Starts, Ends, NoJob,
             At, rows, ledger, gateway
<1>1. CASE \E p \in Purchases : CommitPurchase(p)
  <2>. PICK p \in Purchases : CommitPurchase(p)
    BY <1>1
  <2>1. /\ status[p] = "none" /\ seats[p] = "none"
        /\ job' = job
        /\ seats' = [seats EXCEPT ![p] = "reserved"]
        /\ charge' = [charge EXCEPT ![p] = "open"]
    BY DEF CommitPurchase, FreshRows
  <2>2. \A w \in Workers : Working(w, "confirm") => job[w].purchase # p
    BY <2>1 DEF WorkedRows
  <2>3. \A w \in Workers : Working(w, "confirm") => job[w].purchase \in Purchases
    BY JobPurchase
  <2>. QED
    BY <2>1, <2>2, <2>3
<1>2. CASE \E p \in Purchases, outcome \in Outcomes : SettleCharge(p, outcome)
  <2>. PICK p \in Purchases, outcome \in Outcomes : SettleCharge(p, outcome)
    BY <1>2
  <2>1. /\ charge[p] # "paid"
        /\ charge' = [charge EXCEPT ![p] = outcome]
        /\ seats' = seats /\ job' = job
    BY DEF SettleCharge
  <2>2. \A q \in Purchases : charge[q] = "paid" => charge'[q] = "paid"
    BY <2>1
  <2>3. \A w \in Workers : Working(w, "confirm") => job[w].purchase \in Purchases
    BY JobPurchase
  <2>. QED
    BY <2>1, <2>2, <2>3
<1>3. ASSUME NEW p \in Purchases,
             \/ AcquireLock(p) \/ LockTier(p) \/ AbortPurchase(p)
             \/ Unlock(p) \/ CrashPurchase(p) \/ ReservationLapses(p)
      PROVE  ConfirmSawPayment' /\ SoldWasPaid'
  BY <1>3 DEF AcquireLock, LockTier, AbortPurchase, Unlock, CrashPurchase,
              ReservationLapses
<1>4. CASE LockExpires \/ SweepList \/ SweepCrashes \/ UNCHANGED vars
  BY <1>4 DEF LockExpires, SweepList, SweepCrashes, vars
<1>5. ASSUME NEW w \in Workers, NEW p \in Purchases,
             BeginVerify(w, p) \/ BeginChargeFailed(w, p)
      PROVE  ConfirmSawPayment' /\ SoldWasPaid'
  BY <1>5 DEF BeginVerify, BeginChargeFailed
<1>6. ASSUME NEW w \in Workers, WorkerStep(w) \/ AbandonJob(w)
      PROVE  ConfirmSawPayment' /\ SoldWasPaid'
  <2>1. CASE GatewayAnswers(w)
    BY <2>1 DEF GatewayAnswers
  <2>2. CASE Confirm(w)
    BY <2>2 DEF Confirm
  <2>3. CASE ReleaseReservation(w)
    BY <2>3 DEF ReleaseReservation, CancelReservation
  <2>4. CASE DecrementRejected(w)
    BY <2>4 DEF DecrementRejected
  <2>5. CASE AbandonJob(w)
    BY <2>5 DEF AbandonJob
  <2>. QED
    BY <1>6, <2>1, <2>2, <2>3, <2>4, <2>5 DEF WorkerStep
<1>7. ASSUME NEW p \in Purchases, SweepStep(p)
      PROVE  ConfirmSawPayment' /\ SoldWasPaid'
  BY <1>7 DEF SweepStep, SweepRelease, CancelReservation, SweepSkip, SweepRejected
<1>. QED
  BY <1>1, <1>2, <1>3, <1>4, <1>5, <1>6, <1>7 DEF Next, CallStep

-----------------------------------------------------------------------------
(* The theorems *)

\* Before any purchase no tier holds a ticket.
LEMMA NobodyHolds ==
  ASSUME Init, NEW t \in Tiers, NEW s, s # "none"
  PROVE  Cardinality(TicketsOf(Holders(t, s))) = 0
<1>1. Holders(t, s) = {}
  BY DEF Init, Holders
<1>2. TicketsOf(Holders(t, s)) = {}
  BY <1>1 DEF TicketsOf
<1>. QED
  BY <1>2, FS_EmptySet

\* The inductive invariant holds at first.
LEMMA IInvInit == Init => IInv
<1>. SUFFICES ASSUME Init
              PROVE  IInv
  OBVIOUS
<1>1. TypeOK
  BY TypeInit
<1>2. FreshRows /\ WorkedRows /\ ReservingFits
  BY DEF Init, FreshRows, WorkedRows, ReservingFits, At, Working, NoJob
<1>3. ConfirmSawPayment /\ SoldWasPaid
  BY DEF Init, ConfirmSawPayment, SoldWasPaid, Working, NoJob
<1>4. CountersCoverSeats /\ NoLeakedReservation
  <2>1. \A t \in Tiers : sold[t] = 0 /\ reserved[t] = 0 /\ Quantity[t] \in Nat
    BY DEF Init
  <2>2. \A t \in Tiers : /\ Cardinality(TicketsOf(Holders(t, "sold"))) = 0
                         /\ Cardinality(TicketsOf(Holders(t, "reserved"))) = 0
    BY NobodyHolds
  <2>. QED
    BY <2>1, <2>2 DEF CountersCoverSeats, NoLeakedReservation
<1>. QED
  BY <1>1, <1>2, <1>3, <1>4 DEF IInv

\* Every step keeps the inductive invariant.
LEMMA IInvNext == IInv /\ [Next]_vars => IInv'
<1>. SUFFICES ASSUME IInv, [Next]_vars
              PROVE  IInv'
  OBVIOUS
<1>1. /\ TypeOK /\ FreshRows /\ WorkedRows /\ ReservingFits
      /\ NoLeakedReservation /\ ConfirmSawPayment /\ SoldWasPaid
      /\ Bounded /\ SoldCovered
  BY DEF IInv, CountersCoverSeats, Bounded, SoldCovered
<1>2. TypeOK'
  BY <1>1, TypeNext
<1>3. FreshRows' /\ WorkedRows'
  BY <1>1, RowsNext
<1>4. ReservingFits' /\ Bounded'
  BY <1>1, CapacityNext
<1>5. SoldCovered'
  BY <1>1, SoldCoveredNext
<1>6. NoLeakedReservation'
  BY <1>1, NoLeakNext
<1>7. ConfirmSawPayment' /\ SoldWasPaid'
  BY <1>1, PaidNext
<1>8. CountersCoverSeats'
  BY <1>4, <1>5 DEF CountersCoverSeats, Bounded, SoldCovered
<1>. QED
  BY <1>2, <1>3, <1>4, <1>6, <1>7, <1>8 DEF IInv

\* The inductive invariant holds in every reachable state.
THEOREM Invariance == Spec => []IInv
BY IInvInit, IInvNext, PTL DEF Spec

\* Overselling is impossible for every number of buyers, tiers, workers and
\* seats, without any help from the Redis lock: the row lock is enough.
THEOREM NeverOversold == Spec => []NoOversell
<1>1. IInv => NoOversell
  <2>. SUFFICES ASSUME IInv, NEW t \in Tiers
                PROVE  Cardinality(TicketsOf(Holders(t, "sold"))) <= Quantity[t]
    BY DEF NoOversell
  <2>1. /\ sold[t] \in Nat /\ reserved[t] \in Nat /\ Quantity[t] \in Nat
        /\ Cardinality(TicketsOf(Holders(t, "sold"))) \in Nat
    BY HoldersCount DEF IInv, TypeOK
  <2>2. /\ sold[t] + reserved[t] <= Quantity[t]
        /\ Cardinality(TicketsOf(Holders(t, "sold"))) <= sold[t]
    BY DEF IInv, CountersCoverSeats
  <2>. QED
    BY <2>1, <2>2
<1>. QED
  BY <1>1, Invariance, PTL

\* No seat stays counted as reserved once no pending purchase holds it.
THEOREM NothingLeaks == Spec => []NoLeakedReservation
<1>1. IInv => NoLeakedReservation
  BY DEF IInv
<1>. QED
  BY <1>1, Invariance, PTL

\* A SOLD ticket has been paid for in full.
THEOREM SoldMeansPaid == Spec => []SoldWasPaid
<1>1. IInv => SoldWasPaid
  BY DEF IInv
<1>. QED
  BY <1>1, Invariance, PTL

\* The tier counters start as the ledger's and every step of the code is a
\* step of the ledger or leaves it alone.
THEOREM LedgerRefined == Spec => ImplementsLedger
<1>1. Init => Ledger!Init
  BY DEF Init, Ledger!Init
<1>2. IInv /\ [Next]_vars => [Ledger!Next]_<<sold, reserved>>
  <2>. SUFFICES ASSUME IInv, [Next]_vars
                PROVE  [Ledger!Next]_<<sold, reserved>>
    OBVIOUS
  <2>. USE DEF Ledger!Next, Ledger!Reserve, Ledger!Release, Ledger!Sell
  <2>1. TypeOK
    BY DEF IInv
  <2>2. \A p \in Purchases :
          TierOf[p] \in Tiers /\ Qty[p] \in Nat /\ Qty[p] >= 1
    OBVIOUS
  <2>3. \A t \in Tiers : /\ Quantity[t] \in Nat /\ sold[t] \in Nat /\ reserved[t] \in Nat
                         /\ reserved[t] <= Quantity[t]
    BY <2>1 DEF IInv, CountersCoverSeats, TypeOK
  <2>4. CASE \E p \in Purchases : CommitPurchase(p)
    <3>. PICK p \in Purchases : CommitPurchase(p)
      BY <2>4
    <3>1. /\ sold[TierOf[p]] + reserved[TierOf[p]] + Qty[p] <= Quantity[TierOf[p]]
          /\ reserved' = [reserved EXCEPT ![TierOf[p]] = @ + Qty[p]]
          /\ sold' = sold
      BY DEF CommitPurchase, IInv, ReservingFits
    <3>2. Qty[p] \in 1 .. Quantity[TierOf[p]]
      BY <2>2, <2>3, <3>1
    <3>. QED
      BY <2>2, <3>1, <3>2
  <2>5. CASE \E p \in Purchases : Sells(p)
    <3>. PICK p \in Purchases : Sells(p)
      BY <2>5
    <3>1. Qty[p] \in 1 .. Quantity[TierOf[p]]
      BY <2>2, <2>3 DEF Sells
    <3>. QED
      BY <2>2, <3>1 DEF Sells
  <2>6. CASE \E p \in Purchases : GivesBack(p)
    <3>. PICK p \in Purchases : GivesBack(p)
      BY <2>6
    <3>1. Qty[p] \in 1 .. Quantity[TierOf[p]]
      BY <2>2, <2>3 DEF GivesBack
    <3>. QED
      BY <2>2, <3>1 DEF GivesBack
  <2>. QED
    BY <2>1, <2>4, <2>5, <2>6, StepEffect
<1>. QED
  BY <1>1, <1>2, Invariance, PTL DEF Spec, ImplementsLedger, Ledger!Spec

=============================================================================
