------------------------- MODULE PollVotingProofs -------------------------
(***************************************************************************)
(* Proofs about PollVoting for every number of voters, options, payments   *)
(* and workers: type correctness, that no option is counted below its      *)
(* votes, that a payment is credited once, that one vote per voter is kept *)
(* in a single-choice poll, that closed polls take no votes, and that      *)
(* payouts are backed by charges.                                          *)
(***************************************************************************)
EXTENDS PollVoting, TLAPS, FiniteSetTheorems, FunctionTheorems

USE VoterOfVoters, OptionOfOption, QtyPositive, KindsKnown, BoundsNat

-----------------------------------------------------------------------------
(* Counting rows *)

\* Finitely many payments have finitely many rows.
LEMMA ItemsFinite ==
  ASSUME NEW S \in SUBSET Payments, NEW n, \A p \in S : n[p] \in Nat
  PROVE  IsFiniteSet(Items(S, n)) /\ Cardinality(Items(S, n)) \in Nat
<1>. DEFINE Row(p) == {p} \X (1 .. n[p])
            T == {Row(p) : p \in S}
            f == [p \in S |-> Row(p)]
<1>1. IsFiniteSet(S)
  BY PaymentsFinite, FS_Subset
<1>2. f \in Surjection(S, T)
  BY DEF Surjection
<1>3. IsFiniteSet(T)
  BY <1>1, <1>2, FS_Surjection
<1>4. ASSUME NEW p \in S
      PROVE  IsFiniteSet(Row(p))
  <2>1. IsFiniteSet(1 .. n[p])
    BY FS_Interval
  <2>2. IsFiniteSet({p})
    BY FS_Singleton
  <2>. QED
    BY <2>1, <2>2, FS_Product
<1>5. IsFiniteSet(UNION T)
  BY <1>3, <1>4, FS_UNION
<1>. QED
  BY <1>5, FS_CardinalityType DEF Items

\* Fewer payments, or fewer rows of each, are fewer rows.
LEMMA ItemsFewer ==
  ASSUME NEW S \in SUBSET Payments, NEW T \in SUBSET Payments, S \subseteq T,
         NEW n, NEW m, \A p \in T : m[p] \in Nat,
         \A p \in S : n[p] \in Nat /\ n[p] <= m[p]
  PROVE  /\ Items(S, n) \subseteq Items(T, m)
         /\ Cardinality(Items(S, n)) <= Cardinality(Items(T, m))
<1>1. ASSUME NEW x \in Items(S, n)
      PROVE  x \in Items(T, m)
  <2>1. PICK p \in S : x \in {p} \X (1 .. n[p])
    BY DEF Items
  <2>2. 1 .. n[p] \subseteq 1 .. m[p]
    OBVIOUS
  <2>3. x \in {p} \X (1 .. m[p])
    BY <2>1, <2>2
  <2>. QED
    BY <2>3 DEF Items
<1>2. IsFiniteSet(Items(T, m))
  BY ItemsFinite
<1>. QED
  BY <1>1, <1>2, FS_Subset

\* A payment without rows that gets k of them adds at most k.
LEMMA ItemsCredited ==
  ASSUME NEW S \in SUBSET Payments, NEW p \in S, NEW k \in Nat,
         NEW n \in [Payments -> Nat], NEW m \in [Payments -> Nat],
         m = [n EXCEPT ![p] = k]
  PROVE  Cardinality(Items(S, m)) <= Cardinality(Items(S, n)) + k
<1>. DEFINE R == {p} \X (1 .. k)
<1>1. Items(S, m) \subseteq Items(S, n) \cup R
  <2>. SUFFICES ASSUME NEW x \in Items(S, m)
                PROVE  x \in Items(S, n) \cup R
    OBVIOUS
  <2>1. PICK q \in S : x \in {q} \X (1 .. m[q])
    BY DEF Items
  <2>2. CASE q = p
    BY <2>1, <2>2
  <2>3. CASE q # p
    <3>1. m[q] = n[q]
      BY <2>3
    <3>2. x \in {q} \X (1 .. n[q])
      BY <2>1, <3>1
    <3>. QED
      BY <3>2 DEF Items
  <2>. QED
    BY <2>2, <2>3
<1>2. IsFiniteSet(1 .. k) /\ Cardinality(1 .. k) = k
  BY FS_Interval
<1>3. IsFiniteSet({p}) /\ Cardinality({p}) = 1
  BY FS_Singleton
<1>4. IsFiniteSet(R) /\ Cardinality(R) = 1 * k
  BY <1>2, <1>3, FS_Product
<1>5. IsFiniteSet(Items(S, n)) /\ Cardinality(Items(S, n)) \in Nat
  BY ItemsFinite
<1>6. /\ IsFiniteSet(Items(S, n) \cup R)
      /\ Cardinality(Items(S, n) \cup R)
           = Cardinality(Items(S, n)) + Cardinality(R) - Cardinality(Items(S, n) \cap R)
  BY <1>4, <1>5, FS_Union
<1>7. Cardinality(Items(S, n) \cap R) \in Nat
  BY <1>4, FS_Subset, FS_CardinalityType
<1>8. /\ Cardinality(Items(S, m)) <= Cardinality(Items(S, n) \cup R)
      /\ Cardinality(Items(S, m)) \in Nat
  <2>1. IsFiniteSet(Items(S, m)) /\ Cardinality(Items(S, m)) \in Nat
    BY ItemsFinite
  <2>. QED
    BY <1>1, <1>6, <2>1, FS_Subset
<1>. DEFINE a == Cardinality(Items(S, m))
            b == Cardinality(Items(S, n))
            c == Cardinality(R)
            d == Cardinality(Items(S, n) \cap R)
            e == Cardinality(Items(S, n) \cup R)
<1>9. a \in Nat /\ b \in Nat /\ c = 1 * k /\ d \in Nat /\ e = b + c - d /\ a <= e
  BY <1>4, <1>5, <1>6, <1>7, <1>8
<1>. HIDE DEF a, b, c, d, e
<1>10. a <= b + k
  BY <1>9
<1>. QED
  BY <1>10 DEF a, b

\* Free votes can be counted.
LEMMA FreeFinite ==
  ASSUME NEW F \in SUBSET (Voters \X Options)
  PROVE  IsFiniteSet(F) /\ Cardinality(F) \in Nat
BY VotersFinite, OptionsFinite, FS_Product, FS_Subset, FS_CardinalityType

\* So can those for one option.
LEMMA FreeForFinite ==
  ASSUME free \subseteq Voters \X Options, NEW o
  PROVE  IsFiniteSet(FreeFor(o)) /\ Cardinality(FreeFor(o)) \in Nat
BY FreeFinite DEF FreeFor

-----------------------------------------------------------------------------
(* Types *)

\* What a job of each kind carries.
LEMMA JobFields ==
  ASSUME job \in [Workers -> Jobs], NEW w \in Workers
  PROVE  /\ job[w].step = "vote"
              => job[w].voter \in Voters /\ job[w].option \in Options
         /\ job[w].step = "credit" => job[w].payment \in Payments
         /\ job[w].step = "close" => job[w].paid \in BOOLEAN
BY DEF Jobs, NoJob

\* Jobs end within their types,
LEMMA FinishTyped ==
  ASSUME job \in [Workers -> Jobs], NEW w \in Workers, Finish(w)
  PROVE  job' \in [Workers -> Jobs]
BY DEF Finish, Jobs, NoJob

\* and start within them.
LEMMA StartTyped ==
  ASSUME job \in [Workers -> Jobs], NEW w \in Workers, NEW j \in Jobs, Start(w, j)
  PROVE  job' \in [Workers -> Jobs]
BY DEF Start

\* Closing keeps a poll a poll.
LEMMA ClosedTyped ==
  ASSUME NEW row \in Polls
  PROVE  Closed(row) \in Polls
BY DEF Closed, Polls

\* So do the task queue's moves.
LEMMA MoveTyped ==
  ASSUME tasks \in [TaskStates -> Nat], NEW from \in TaskStates,
         NEW to \in TaskStates, from # to, Move(from, to)
  PROVE  tasks' \in [TaskStates -> Nat]
<1>1. tasks[from] - 1 \in Nat /\ tasks[to] + 1 \in Nat
  BY DEF Move
<1>2. tasks' = [tasks EXCEPT ![from] = tasks[from] - 1, ![to] = tasks[to] + 1]
  BY DEF Move
<1>. QED
  BY <1>1, <1>2

\* The first state has the types,
LEMMA TypeInit == Init => TypeOK
<1>. SUFFICES ASSUME Init
              PROVE  TypeOK
  OBVIOUS
<1>1. poll \in Polls
  <2>1. /\ poll.status = "active" /\ poll.due = FALSE
        /\ poll.paid \in BOOLEAN /\ poll.kind \in Kinds
        /\ poll.total = 0 /\ poll.deleted = FALSE
    BY Zenon DEF Init
  <2>2. poll = [status |-> poll.status, due |-> poll.due, paid |-> poll.paid,
                kind |-> poll.kind, total |-> poll.total, deleted |-> poll.deleted]
    BY DEF Init
  <2>3. poll.status \in {"active", "closed"} /\ poll.total \in Nat
    BY <2>1
  <2>4. poll.due \in BOOLEAN /\ poll.deleted \in BOOLEAN
    BY <2>1, Zenon
  <2>. QED
    BY <2>1, <2>2, <2>3, <2>4, Zenon DEF Polls
<1>2. job \in [Workers -> Jobs]
  BY DEF Init, Jobs, NoJob
<1>3. edit \in Edits /\ sweep \in Sweeps
  BY DEF Init, Edits, Sweeps, NoCopy
<1>4. payment \in [Payments -> PaymentStates] /\ charge \in [Payments -> ChargeStates]
  BY DEF Init, PaymentStates, ChargeStates
<1>5. count \in [Options -> Nat] /\ bought \in [Payments -> Nat]
  BY DEF Init
<1>6. /\ free \subseteq Voters \X Options
      /\ tasks \in [TaskStates -> Nat]
      /\ payouts \in [rows : Nat, votes : Nat]
  BY DEF Init
<1>. QED
  BY <1>1, <1>2, <1>3, <1>4, <1>5, <1>6 DEF TypeOK

\* A voter's step keeps the types.
LEMMA TypeVoter ==
  ASSUME TypeOK, VoterStep
  PROVE  TypeOK'
<1>. USE DEF TypeOK, ballots, money, pays
<1>1. ASSUME NEW v \in Voters, RemoveVote(v)
      PROVE  TypeOK'
  <2>. DEFINE freeRows == {r \in free : r[1] = v}
              deleted  == Cardinality(freeRows) + Cardinality(PaidRows(PaidBy(v)))
  <2>1. Cardinality(freeRows) \in Nat
    BY FreeFinite
  <2>2. Cardinality(PaidRows(PaidBy(v))) \in Nat
    BY ItemsFinite DEF PaidRows, PaidBy
  <2>3. deleted \in Nat
    BY <2>1, <2>2
  <2>. HIDE DEF deleted
  <2>4. poll.total \in Nat /\ AtMost0(poll.total - deleted) \in Nat
    BY <2>3 DEF Polls, AtMost0
  <2>5. poll' = [poll EXCEPT !.total = AtMost0(poll.total - deleted)]
    BY <1>1 DEF RemoveVote, deleted
  <2>6. poll' \in Polls
    BY <2>4, <2>5 DEF Polls
  <2>. QED
    BY <1>1, <2>6 DEF RemoveVote, DropRows
<1>2. ASSUME NEW v \in Voters, NEW o \in Options, RemoveOptionVote(v, o)
      PROVE  TypeOK'
  <2>1. poll' \in Polls
    BY <1>2 DEF RemoveOptionVote, Polls, AtMost0
  <2>2. count' \in [Options -> Nat]
    BY <1>2 DEF RemoveOptionVote, AtMost0
  <2>. QED
    BY <1>2, <2>1, <2>2 DEF RemoveOptionVote, DropRows
<1>3. ASSUME NEW v \in Voters, NEW o \in Options, NEW w \in Workers,
             BeginVote(w, v, o)
      PROVE  TypeOK'
  <2>1. [step |-> "vote", voter |-> v, option |-> o] \in Jobs
    BY DEF Jobs
  <2>. QED
    BY <1>3, <2>1, StartTyped DEF BeginVote
<1>. QED
  BY <1>1, <1>2, <1>3 DEF VoterStep

\* So does a step of a payment.
LEMMA TypePayment ==
  ASSUME TypeOK, NEW p \in Payments, PaymentStep(p)
  PROVE  TypeOK'
<1>. USE DEF TypeOK, ballots, money, pays
<1>1. CASE BeginPayment(p) \/ RefusePayment(p)
  BY <1>1 DEF BeginPayment, RefusePayment, PaymentStates
<1>2. CASE OpenPayment(p)
  BY <1>2 DEF OpenPayment, PaymentStates, ChargeStates
<1>3. CASE SettleCharge(p)
  BY <1>3 DEF SettleCharge, ChargeStates
<1>4. ASSUME NEW w \in Workers, BeginCredit(w, p)
      PROVE  TypeOK'
  <2>1. [step |-> "credit", payment |-> p] \in Jobs
    BY DEF Jobs
  <2>. QED
    BY <1>4, <2>1, StartTyped DEF BeginCredit
<1>. QED
  BY <1>1, <1>2, <1>3, <1>4 DEF PaymentStep

\* So does a worker's.
LEMMA TypeJob ==
  ASSUME TypeOK, NEW w \in Workers, JobStep(w)
  PROVE  TypeOK'
<1>. USE DEF TypeOK, ballots, money, pays
<1>1. CASE CommitVote(w)
  <2>1. job[w].voter \in Voters /\ job[w].option \in Options
    BY <1>1, JobFields DEF CommitVote
  <2>2. poll' \in Polls
    BY <1>1 DEF CommitVote, Polls
  <2>3. count' \in [Options -> Nat]
    BY <1>1, <2>1 DEF CommitVote
  <2>4. free' \subseteq Voters \X Options
    BY <1>1, <2>1 DEF CommitVote
  <2>. QED
    BY <1>1, <2>2, <2>3, <2>4, FinishTyped DEF CommitVote
<1>2. CASE CommitCredit(w)
  <2>. DEFINE p == job[w].payment
  <2>1. p \in Payments
    BY <1>2, JobFields DEF CommitCredit
  <2>2. Qty[p] \in Nat /\ OptionOf[p] \in Options
    BY <2>1
  <2>3. poll' \in Polls
    BY <1>2, <2>2 DEF CommitCredit, Polls
  <2>4. count' \in [Options -> Nat] /\ bought' \in [Payments -> Nat]
    BY <1>2, <2>1, <2>2 DEF CommitCredit
  <2>5. payment' \in [Payments -> PaymentStates]
    BY <1>2, <2>1 DEF CommitCredit, PaymentStates
  <2>. QED
    BY <1>2, <2>3, <2>4, <2>5, FinishTyped DEF CommitCredit
<1>3. CASE RejectCredit(w)
  <2>1. payment' \in [Payments -> PaymentStates]
    BY <1>3 DEF RejectCredit, PaymentStates
  <2>. QED
    BY <1>3, <2>1, FinishTyped DEF RejectCredit
<1>4. CASE Rollback(w) \/ LoseClose(w)
  BY <1>4, FinishTyped DEF Rollback, LoseClose
<1>5. CASE CommitClose(w)
  <2>1. job' \in [Workers -> Jobs]
    BY <1>5 DEF CommitClose, Jobs, NoJob
  <2>. QED
    BY <1>5, <2>1, ClosedTyped DEF CommitClose
<1>6. CASE EnqueuePayout(w)
  BY <1>6, FinishTyped DEF EnqueuePayout, TaskStates
<1>. QED
  BY <1>1, <1>2, <1>3, <1>4, <1>5, <1>6 DEF JobStep

\* So do the author's steps and the clock.
LEMMA TypeAuthor ==
  ASSUME TypeOK, AuthorStep \/ DeadlinePasses
  PROVE  TypeOK'
<1>. USE DEF TypeOK, ballots, money, pays
<1>1. ASSUME NEW w \in Workers, BeginClose(w)
      PROVE  TypeOK'
  <2>1. [step |-> "close", paid |-> poll.paid] \in Jobs
    BY DEF Jobs, Polls
  <2>. QED
    BY <1>1, <2>1, StartTyped DEF BeginClose
<1>2. CASE BeginEdit
  <2>1. edit' \in Edits
    BY <1>2 DEF BeginEdit, Edits
  <2>. QED
    BY <1>2, <2>1 DEF BeginEdit
<1>3. CASE SaveEdit
  <2>. DEFINE row == edit.copy
  <2>1. row \in Polls
    BY <1>3 DEF SaveEdit, Edits
  <2>2. poll' \in Polls
    <3>1. PICK kind \in Kinds, extend \in BOOLEAN,
               paid \in IF row.total > 0 THEN {row.paid} ELSE BOOLEAN :
            poll' = [row EXCEPT !.kind = kind, !.paid = paid,
                                !.due = row.due /\ ~extend]
      BY <1>3 DEF SaveEdit
    <3>2. paid \in BOOLEAN /\ (row.due /\ ~extend) \in BOOLEAN
      BY <2>1 DEF Polls
    <3>. QED
      BY <2>1, <3>1, <3>2 DEF Polls
  <2>3. edit' \in Edits
    BY <1>3 DEF SaveEdit, Edits
  <2>4. CASE UNCHANGED <<ballots, money>>
    BY <1>3, <2>2, <2>3, <2>4 DEF SaveEdit
  <2>5. CASE ReplaceOptions
    <3>1. payment' \in [Payments -> PaymentStates]
      BY <2>5 DEF ReplaceOptions, PaymentStates
    <3>. QED
      BY <1>3, <2>2, <2>3, <2>5, <3>1 DEF SaveEdit, ReplaceOptions, DropRows
  <2>. QED
    BY <1>3, <2>4, <2>5 DEF SaveEdit
<1>4. CASE Delete
  <2>1. poll' \in Polls
    BY <1>4 DEF Delete, Polls
  <2>. QED
    BY <1>4, <2>1 DEF Delete
<1>5. CASE DeadlinePasses
  <2>1. poll' \in Polls
    BY <1>5 DEF DeadlinePasses, Polls
  <2>2. edit' \in Edits
    <3>1. CASE edit.copy = NoCopy
      BY <1>5, <3>1 DEF DeadlinePasses
    <3>2. CASE edit.copy # NoCopy
      <4>1. edit.copy \in Polls
        BY <3>2 DEF Edits
      <4>2. edit' = [edit EXCEPT !.copy = [edit.copy EXCEPT !.due = TRUE]]
        BY <1>5, <3>2 DEF DeadlinePasses
      <4>3. [edit.copy EXCEPT !.due = TRUE] \in Polls
        BY <4>1 DEF Polls
      <4>. QED
        BY <4>2, <4>3 DEF Edits
    <3>. QED
      BY <3>1, <3>2
  <2>. QED
    BY <1>5, <2>1, <2>2 DEF DeadlinePasses
<1>. QED
  BY <1>1, <1>2, <1>3, <1>4, <1>5 DEF AuthorStep

\* So do the sweep's steps and the payout tasks'.
LEMMA TypeTasks ==
  ASSUME TypeOK, SweepStep \/ TaskStep
  PROVE  TypeOK'
<1>. USE DEF TypeOK, ballots, money, pays
<1>1. CASE SweepLists
  <2>1. sweep' \in Sweeps
    BY <1>1 DEF SweepLists, Sweeps, Matches, PollFree, Polls
  <2>. QED
    BY <1>1, <2>1 DEF SweepLists
<1>2. CASE SweepCloses
  <2>1. sweep' \in Sweeps
    BY <1>2 DEF SweepCloses, Sweeps
  <2>. QED
    BY <1>2, <2>1, ClosedTyped DEF SweepCloses
<1>3. CASE SweepEnqueues
  BY <1>3 DEF SweepEnqueues, Sweeps, TaskStates
<1>4. CASE SweepEnds
  BY <1>4 DEF SweepEnds, Sweeps
<1>5. CASE TaskChecks
  <2>1. PICK s \in {"paying", "done"} : Move("queued", s)
    BY <1>5 DEF TaskChecks
  <2>2. tasks' \in [TaskStates -> Nat]
    BY <2>1, MoveTyped DEF TaskStates
  <2>. QED
    BY <1>5, <2>2 DEF TaskChecks
<1>6. CASE TaskPays
  <2>1. tasks' \in [TaskStates -> Nat]
    BY <1>6, MoveTyped DEF TaskPays, TaskStates
  <2>2. Cardinality(Items(Collected, Qty)) \in Nat
    BY ItemsFinite DEF Collected
  <2>. QED
    BY <1>6, <2>1, <2>2 DEF TaskPays
<1>7. CASE TaskAcknowledged
  <2>1. tasks' \in [TaskStates -> Nat]
    BY <1>7, MoveTyped DEF TaskAcknowledged, TaskStates
  <2>. QED
    BY <1>7, <2>1 DEF TaskAcknowledged
<1>8. CASE TaskRedelivered
  <2>1. PICK s \in {"paying", "created"} : Move(s, "queued")
    BY <1>8 DEF TaskRedelivered
  <2>2. tasks' \in [TaskStates -> Nat]
    BY <2>1, MoveTyped DEF TaskStates
  <2>. QED
    BY <1>8, <2>2 DEF TaskRedelivered
<1>. QED
  BY <1>1, <1>2, <1>3, <1>4, <1>5, <1>6, <1>7, <1>8 DEF SweepStep, TaskStep

\* and every step keeps them.
LEMMA TypeNext == TypeOK /\ [Next]_vars => TypeOK'
<1>. SUFFICES ASSUME TypeOK, [Next]_vars
              PROVE  TypeOK'
  OBVIOUS
<1>1. CASE UNCHANGED vars
  BY <1>1 DEF vars, ballots, money, pays, TypeOK
<1>. QED
  BY <1>1, TypeVoter, TypePayment, TypeJob, TypeAuthor, TypeTasks DEF Next

\* Type correctness: whatever casts, removals, credits, edits and sweeps do,
\* the columns keep their types, and no counter goes below zero.
THEOREM PollTypeCorrect == Spec => []TypeOK
BY TypeInit, TypeNext, PTL DEF Spec

-----------------------------------------------------------------------------
(* What changes the votes *)

\* Votes and option counters only change when a vote or a payment commits, a
\* voter withdraws votes, or the author replaces the options.
LEMMA BallotsChange ==
  ASSUME [Next]_vars
  PROVE  \/ UNCHANGED ballots
         \/ \E w \in Workers : CommitVote(w) \/ CommitCredit(w)
         \/ \E v \in Voters : RemoveVote(v)
         \/ \E v \in Voters, o \in Options : RemoveOptionVote(v, o)
         \/ SaveEdit /\ ReplaceOptions
<1>1. CASE VoterStep
  BY <1>1 DEF VoterStep, BeginVote
<1>2. ASSUME NEW p \in Payments, PaymentStep(p)
      PROVE  UNCHANGED ballots
  BY <1>2 DEF PaymentStep, BeginPayment, OpenPayment, RefusePayment,
              SettleCharge, BeginCredit
<1>3. ASSUME NEW w \in Workers, JobStep(w)
      PROVE  UNCHANGED ballots \/ CommitVote(w) \/ CommitCredit(w)
  BY <1>3 DEF JobStep, RejectCredit, Rollback, CommitClose, EnqueuePayout, LoseClose
<1>4. CASE AuthorStep
  BY <1>4 DEF AuthorStep, BeginClose, BeginEdit, SaveEdit, Delete
<1>5. CASE DeadlinePasses \/ SweepStep
  BY <1>5 DEF DeadlinePasses, SweepStep, SweepLists, SweepCloses,
              SweepEnqueues, SweepEnds
<1>6. CASE TaskStep
  BY <1>6 DEF TaskStep, TaskChecks, TaskPays, TaskAcknowledged, TaskRedelivered
<1>7. CASE UNCHANGED vars
  BY <1>7 DEF vars
<1>. QED
  BY <1>1, <1>2, <1>3, <1>4, <1>5, <1>6, <1>7 DEF Next

-----------------------------------------------------------------------------
(* Counters *)

\* Option o is counted at least as often as it has votes.
Cover(o) == Cardinality(FreeFor(o)) + Cardinality(PaidRows(PaidFor(o))) <= count[o]

\* CountersCoverVotes says this of each option.
LEMMA CoverEach == CountersCoverVotes <=> \A o \in Options : Cover(o)
BY DEF CountersCoverVotes, Cover

\* The payments for an option do not change, only their rows do.
LEMMA PrimedRows ==
  ASSUME NEW o
  PROVE  /\ PaidRows(PaidFor(o)) = Items(PaidFor(o), bought)
         /\ PaidRows(PaidFor(o))' = Items(PaidFor(o), bought')
         /\ FreeFor(o)' = {r \in free' : r[2] = o}
BY DEF PaidRows, PaidFor, Items, FreeFor

\* The sizes that Cover compares are numbers, now and after a step.
LEMMA CoverTyped ==
  ASSUME TypeOK, NEW o \in Options
  PROVE  /\ Cardinality(FreeFor(o)) \in Nat
         /\ IsFiniteSet(FreeFor(o))
         /\ Cardinality(Items(PaidFor(o), bought)) \in Nat
         /\ IsFiniteSet(Items(PaidFor(o), bought))
         /\ count[o] \in Nat
<1>1. PaidFor(o) \in SUBSET Payments /\ \A p \in PaidFor(o) : bought[p] \in Nat
  BY DEF PaidFor, TypeOK
<1>. QED
  BY <1>1, FreeForFinite, ItemsFinite DEF TypeOK

\* A step that takes votes for o away, and does not lower its counter.
LEMMA CoverKept ==
  ASSUME TypeOK, TypeOK', NEW o \in Options, Cover(o),
         FreeFor(o)' \subseteq FreeFor(o),
         \A p \in PaidFor(o) : bought'[p] <= bought[p],
         count[o] <= count'[o]
  PROVE  Cover(o)'
<1>. DEFINE a == Cardinality(FreeFor(o))
            b == Cardinality(Items(PaidFor(o), bought))
            c == Cardinality(FreeFor(o)')
            d == Cardinality(Items(PaidFor(o), bought'))
<1>1. a \in Nat /\ b \in Nat /\ count[o] \in Nat /\ IsFiniteSet(FreeFor(o))
  BY CoverTyped
<1>2. PaidFor(o) \in SUBSET Payments
  BY DEF PaidFor
<1>3. count'[o] \in Nat /\ \A p \in PaidFor(o) : bought[p] \in Nat /\ bought'[p] \in Nat
  BY <1>2 DEF TypeOK
<1>4. c \in Nat /\ c <= a
  BY <1>1, FS_Subset, FS_CardinalityType
<1>5. d \in Nat /\ d <= b
  BY <1>2, <1>3, ItemsFinite, ItemsFewer
<1>6. a + b <= count[o]
  BY PrimedRows DEF Cover
<1>. HIDE DEF a, b, c, d
<1>7. c + d <= count'[o]
  BY <1>1, <1>3, <1>4, <1>5, <1>6
<1>. QED
  BY <1>7, PrimedRows DEF Cover, c, d

\* A withdrawn option vote: at least one row is gone, and the counter loses one.
LEMMA CoverWithdrawn ==
  ASSUME TypeOK, TypeOK', NEW v \in Voters, NEW o \in Options, Cover(o),
         RemoveOptionVote(v, o)
  PROVE  Cover(o)'
<1>. DEFINE a == Cardinality(FreeFor(o))
            b == Cardinality(Items(PaidFor(o), bought))
            c == Cardinality(FreeFor(o)')
            d == Cardinality(Items(PaidFor(o), bought'))
            Gone == PaidBy(v) \cap PaidFor(o)
<1>1. /\ a \in Nat /\ b \in Nat /\ count[o] \in Nat
      /\ IsFiniteSet(FreeFor(o)) /\ IsFiniteSet(Items(PaidFor(o), bought))
  BY CoverTyped
<1>2. PaidFor(o) \in SUBSET Payments /\ Gone \in SUBSET PaidFor(o)
  BY DEF PaidFor
<1>3. /\ \A p \in PaidFor(o) : bought[p] \in Nat /\ bought'[p] \in Nat
      /\ \A p \in PaidFor(o) : bought'[p] <= bought[p]
      /\ \A p \in Gone : bought'[p] = 0
  BY <1>2 DEF TypeOK, RemoveOptionVote, DropRows
<1>4. FreeFor(o)' = FreeFor(o) \ {<<v, o>>}
  BY PrimedRows DEF RemoveOptionVote, DropRows, FreeFor
<1>5. c \in Nat /\ c <= a
  BY <1>1, <1>4, FS_Subset, FS_CardinalityType
<1>6. d \in Nat /\ d <= b /\ Items(PaidFor(o), bought') \subseteq Items(PaidFor(o), bought)
  BY <1>2, <1>3, ItemsFinite, ItemsFewer
<1>7. count'[o] = AtMost0(count[o] - 1)
  BY DEF RemoveOptionVote, TypeOK
<1>8. a + b <= count[o]
  BY PrimedRows DEF Cover
<1>9. c + d <= a + b - 1
  <2>1. CASE <<v, o>> \in free
    <3>1. <<v, o>> \in FreeFor(o)
      BY <2>1 DEF FreeFor
    <3>2. c = a - 1
      BY <1>1, <1>4, <3>1, FS_RemoveElement
    <3>. HIDE DEF a, b, c, d
    <3>. QED
      BY <1>1, <1>5, <1>6, <3>2
  <2>2. CASE PaidRows(Gone) # {}
    <3>1. PICK x : x \in Items(Gone, bought)
      BY <2>2 DEF PaidRows
    <3>2. PICK p \in Gone : x \in {p} \X (1 .. bought[p])
      BY <3>1 DEF Items
    <3>3. x \in Items(PaidFor(o), bought)
      BY <3>2 DEF Items
    <3>4. x \notin Items(PaidFor(o), bought')
      <4>. SUFFICES ASSUME NEW q \in PaidFor(o), x \in {q} \X (1 .. bought'[q])
                    PROVE  FALSE
        BY DEF Items
      <4>1. q = p
        BY <3>2
      <4>2. bought'[q] = 0
        BY <1>3, <4>1
      <4>. QED
        BY <4>2
    <3>5. Items(PaidFor(o), bought') # Items(PaidFor(o), bought)
      BY <3>3, <3>4
    <3>6. d # b
      BY <1>1, <1>6, <3>5, FS_Subset
    <3>. HIDE DEF a, b, c, d
    <3>. QED
      BY <1>1, <1>5, <1>6, <3>6
  <2>. QED
    BY <2>1, <2>2 DEF RemoveOptionVote, VotedFor
<1>. HIDE DEF a, b, c, d
<1>10. c + d <= count'[o]
  BY <1>1, <1>5, <1>6, <1>7, <1>8, <1>9 DEF AtMost0
<1>. QED
  BY <1>10, PrimedRows DEF Cover, c, d

\* A committed free vote: one more row, and the counter gains one.
LEMMA CoverVoted ==
  ASSUME TypeOK, TypeOK', NEW w \in Workers, CommitVote(w),
         NEW o \in Options, o = job[w].option, Cover(o)
  PROVE  Cover(o)'
<1>. DEFINE x == <<job[w].voter, o>>
            a == Cardinality(FreeFor(o))
            b == Cardinality(Items(PaidFor(o), bought))
            c == Cardinality(FreeFor(o)')
<1>1. /\ a \in Nat /\ b \in Nat /\ count[o] \in Nat /\ IsFiniteSet(FreeFor(o))
  BY CoverTyped
<1>2. FreeFor(o)' = FreeFor(o) \cup {x}
  BY PrimedRows DEF CommitVote, FreeFor
<1>3. c \in Nat /\ c <= a + 1
  <2>1. Cardinality(FreeFor(o) \cup {x}) = IF x \in FreeFor(o) THEN a ELSE a + 1
    BY <1>1, FS_AddElement
  <2>2. c = IF x \in FreeFor(o) THEN a ELSE a + 1
    BY <1>2, <2>1, Zenon
  <2>. HIDE DEF a, c
  <2>. QED
    BY <1>1, <2>2
<1>4. count'[o] = count[o] + 1 /\ bought' = bought
  BY DEF CommitVote, TypeOK
<1>5. a + b <= count[o]
  BY PrimedRows DEF Cover
<1>6. c + b <= count'[o]
  <2>. HIDE DEF a, b, c
  <2>. QED
    BY <1>1, <1>3, <1>4, <1>5
<1>. QED
  BY <1>4, <1>6, PrimedRows DEF Cover

\* Credited votes: a payment without rows gets those it bought, and so does
\* the counter.
LEMMA CoverCredited ==
  ASSUME TypeOK, TypeOK', NEW p \in Payments, bought[p] = 0,
         bought' = [bought EXCEPT ![p] = @ + Qty[p]],
         count' = [count EXCEPT ![OptionOf[p]] = @ + Qty[p]],
         free' = free, NEW o \in Options, o = OptionOf[p], Cover(o)
  PROVE  Cover(o)'
<1>. DEFINE a == Cardinality(FreeFor(o))
            b == Cardinality(Items(PaidFor(o), bought))
            d == Cardinality(Items(PaidFor(o), bought'))
<1>1. /\ a \in Nat /\ b \in Nat /\ count[o] \in Nat
  BY CoverTyped
<1>2. Qty[p] \in Nat /\ p \in PaidFor(o) /\ PaidFor(o) \in SUBSET Payments
  BY DEF PaidFor
<1>3. /\ bought' = [bought EXCEPT ![p] = Qty[p]]
      /\ bought \in [Payments -> Nat] /\ bought' \in [Payments -> Nat]
  <2>1. bought \in [Payments -> Nat] /\ bought' \in [Payments -> Nat]
    BY DEF TypeOK
  <2>2. 0 + Qty[p] = Qty[p]
    BY <1>2
  <2>3. bought' = [bought EXCEPT ![p] = 0 + Qty[p]]
    OBVIOUS
  <2>. QED
    BY <2>1, <2>2, <2>3
<1>4. d <= b + Qty[p]
  BY <1>2, <1>3, ItemsCredited
<1>5. d \in Nat
  BY <1>2, <1>3, ItemsFinite
<1>6. count'[o] = count[o] + Qty[p]
  BY DEF TypeOK
<1>7. a + b <= count[o]
  BY PrimedRows DEF Cover
<1>8. FreeFor(o)' = FreeFor(o)
  BY DEF FreeFor
<1>9. a + d <= count'[o]
  <2>. HIDE DEF a, b, d
  <2>. QED
    BY <1>1, <1>2, <1>4, <1>5, <1>6, <1>7
<1>. QED
  BY <1>8, <1>9, PrimedRows DEF Cover

\* With the options, all votes and the counters go.
LEMMA CoverReplaced ==
  ASSUME ReplaceOptions, NEW o \in Options
  PROVE  Cover(o)'
<1>1. FreeFor(o)' = {}
  BY DEF ReplaceOptions, DropRows, FreeFor
<1>2. Items(PaidFor(o), bought') = {}
  BY DEF ReplaceOptions, DropRows, Items, PaidFor
<1>3. count'[o] = 0
  BY DEF ReplaceOptions
<1>4. /\ Cardinality(FreeFor(o)') = 0
      /\ Cardinality(PaidRows(PaidFor(o))') = 0
  BY <1>1, <1>2, FS_EmptySet, PrimedRows
<1>. QED
  BY <1>3, <1>4 DEF Cover

\* Every step keeps the counters above the votes.
LEMMA CountersNext ==
  ASSUME TypeOK, TypeOK', CountersCoverVotes, PaidRowsBought, CreditHolds, [Next]_vars
  PROVE  CountersCoverVotes'
<1>. SUFFICES ASSUME NEW o \in Options
              PROVE  Cover(o)'
  BY DEF CountersCoverVotes, Cover
<1>1. /\ Cover(o)
      /\ \A p \in PaidFor(o) : p \in Payments /\ bought[p] \in Nat
      /\ count[o] \in Nat
  BY CoverEach DEF PaidFor, TypeOK
<1>2. CASE UNCHANGED ballots
  <2>1. FreeFor(o)' = FreeFor(o)
    BY <1>2 DEF ballots, FreeFor
  <2>. QED
    BY <1>1, <1>2, <2>1, CoverKept DEF ballots
<1>3. ASSUME NEW w \in Workers, CommitVote(w)
      PROVE  Cover(o)'
  <2>1. CASE o = job[w].option
    BY <1>1, <1>3, <2>1, CoverVoted
  <2>2. CASE o # job[w].option
    <3>1. FreeFor(o)' = FreeFor(o)
      BY <1>3, <2>2 DEF CommitVote, FreeFor
    <3>2. count'[o] = count[o] /\ bought' = bought
      BY <1>3, <2>2 DEF CommitVote, TypeOK
    <3>. QED
      BY <1>1, <3>1, <3>2, CoverKept
  <2>. QED
    BY <2>1, <2>2
<1>4. ASSUME NEW w \in Workers, CommitCredit(w)
      PROVE  Cover(o)'
  <2>. DEFINE p == job[w].payment
  <2>1. p \in Payments /\ bought[p] = 0
    <3>1. p \in Payments
      BY <1>4, JobFields DEF CommitCredit, TypeOK
    <3>2. payment[p] # "successful"
      BY <1>4 DEF CommitCredit, CreditHolds
    <3>3. bought[p] \in Nat /\ ~(bought[p] > 0)
      BY <3>1, <3>2 DEF PaidRowsBought, TypeOK
    <3>. QED
      BY <3>1, <3>3
  <2>2. /\ bought' = [bought EXCEPT ![p] = @ + Qty[p]]
        /\ count' = [count EXCEPT ![OptionOf[p]] = @ + Qty[p]]
        /\ free' = free
    BY <1>4 DEF CommitCredit
  <2>. HIDE DEF p
  <2>3. CASE o = OptionOf[p]
    BY <1>1, <2>1, <2>2, <2>3, CoverCredited
  <2>4. CASE o # OptionOf[p]
    <3>1. FreeFor(o)' = FreeFor(o)
      BY <2>2 DEF FreeFor
    <3>2. count'[o] = count[o] /\ \A q \in PaidFor(o) : bought'[q] = bought[q]
      BY <2>2, <2>4 DEF TypeOK, PaidFor
    <3>. QED
      BY <1>1, <3>1, <3>2, CoverKept
  <2>. QED
    BY <2>3, <2>4
<1>5. ASSUME NEW v \in Voters, RemoveVote(v)
      PROVE  Cover(o)'
  <2>1. FreeFor(o)' \subseteq FreeFor(o)
    BY <1>5 DEF RemoveVote, DropRows, FreeFor
  <2>2. count'[o] = count[o] /\ \A p \in PaidFor(o) : bought'[p] <= bought[p]
    BY <1>1, <1>5 DEF RemoveVote, DropRows
  <2>. QED
    BY <1>1, <2>1, <2>2, CoverKept
<1>6. ASSUME NEW v \in Voters, NEW x \in Options, RemoveOptionVote(v, x)
      PROVE  Cover(o)'
  <2>1. CASE x = o
    BY <1>1, <1>6, <2>1, CoverWithdrawn
  <2>2. CASE x # o
    <3>1. FreeFor(o)' \subseteq FreeFor(o)
      BY <1>6 DEF RemoveOptionVote, DropRows, FreeFor
    <3>2. count'[o] = count[o] /\ \A p \in PaidFor(o) : bought'[p] <= bought[p]
      BY <1>1, <1>6, <2>2 DEF RemoveOptionVote, DropRows, TypeOK
    <3>. QED
      BY <1>1, <3>1, <3>2, CoverKept
  <2>. QED
    BY <2>1, <2>2
<1>7. CASE SaveEdit /\ ReplaceOptions
  BY <1>7, CoverReplaced
<1>. QED
  BY <1>2, <1>3, <1>4, <1>5, <1>6, <1>7, BallotsChange

-----------------------------------------------------------------------------
(* Payments are credited once *)

\* The invariants about payments need each other.
PaymentsFit == PaidRowsBought /\ CreditHolds /\ ChargeFits

\* A step that leaves the money alone, begins no credit, and takes all rows of
\* a payment or none.
LEMMA FitKept ==
  ASSUME PaymentsFit, UNCHANGED <<payment, charge>>,
         \A p \in Payments : bought'[p] \in {0, bought[p]},
         \A w \in Workers : job'[w].step = "credit" => job'[w] = job[w]
  PROVE  PaymentsFit'
BY DEF PaymentsFit, PaidRowsBought, CreditHolds, ChargeFits

\* A step of the gateway or of initialize_vote_payment on a payment that no
\* webhook holds and that has no rows.
LEMMA FitPayment ==
  ASSUME TypeOK, PaymentsFit, NEW p \in Payments, PaymentStep(p)
  PROVE  PaymentsFit'
<1>. USE DEF PaymentsFit, PaidRowsBought, CreditHolds, ChargeFits, TypeOK, ballots
<1>1. CASE BeginPayment(p)
  BY <1>1 DEF BeginPayment
<1>2. CASE OpenPayment(p)
  BY <1>2 DEF OpenPayment
<1>3. CASE RefusePayment(p)
  BY <1>3 DEF RefusePayment
<1>4. CASE SettleCharge(p)
  BY <1>4 DEF SettleCharge
<1>5. ASSUME NEW w \in Workers, BeginCredit(w, p)
      PROVE  PaymentsFit'
  BY <1>5 DEF BeginCredit, Start, PaymentFree, money
<1>. QED
  BY <1>1, <1>2, <1>3, <1>4, <1>5 DEF PaymentStep

\* A step of a worker.
LEMMA FitJob ==
  ASSUME TypeOK, PaymentsFit, NEW w \in Workers, JobStep(w)
  PROVE  PaymentsFit'
<1>. USE DEF TypeOK, ballots, money
<1>1. CASE CommitVote(w)
  BY <1>1, FitKept DEF CommitVote, Finish, NoJob
<1>2. CASE CommitCredit(w)
  <2>. DEFINE p == job[w].payment
  <2>1. p \in Payments
    BY <1>2, JobFields DEF CommitCredit
  <2>2. /\ payment' = [payment EXCEPT ![p] = "successful"]
        /\ charge' = charge
        /\ charge[p] = "paid" /\ payment[p] \in {"pending", "failed"}
        /\ bought[p] \in Nat /\ Qty[p] \in Nat
    BY <1>2, <2>1 DEF CommitCredit, PaymentsFit, CreditHolds
  <2>3. bought[p] = 0
    <3>1. ~(bought[p] > 0)
      BY <2>1, <2>2 DEF PaymentsFit, PaidRowsBought
    <3>. QED
      BY <2>2, <3>1
  <2>4. bought' = [bought EXCEPT ![p] = Qty[p]]
    <3>1. 0 + Qty[p] = Qty[p]
      BY <2>2
    <3>2. bought' = [bought EXCEPT ![p] = 0 + Qty[p]]
      BY <1>2, <2>3 DEF CommitCredit
    <3>. QED
      BY <3>1, <3>2
  <2>5. \A x \in Workers : job'[x].step = "credit" =>
          x # w /\ job'[x] = job[x] /\ job[x].payment # p
    BY <1>2 DEF CommitCredit, Finish, NoJob, PaymentsFit, CreditHolds
  <2>6. PaidRowsBought'
    BY <2>1, <2>2, <2>4 DEF PaymentsFit, PaidRowsBought
  <2>7. CreditHolds'
    BY <2>2, <2>5, JobFields DEF PaymentsFit, CreditHolds
  <2>8. ChargeFits'
    BY <2>1, <2>2 DEF PaymentsFit, ChargeFits
  <2>. QED
    BY <2>6, <2>7, <2>8 DEF PaymentsFit
<1>3. CASE RejectCredit(w)
  <2>. DEFINE p == job[w].payment
  <2>1. p \in Payments
    BY <1>3, JobFields DEF RejectCredit
  <2>2. /\ payment' = [payment EXCEPT ![p] = "failed"]
        /\ bought' = bought /\ charge' = charge
        /\ charge[p] = "paid" /\ payment[p] \in {"pending", "failed"}
    BY <1>3, <2>1 DEF RejectCredit, PaymentsFit, CreditHolds
  <2>3. \A x \in Workers : job'[x].step = "credit" =>
          x # w /\ job'[x] = job[x] /\ job[x].payment # p
    BY <1>3 DEF RejectCredit, Finish, NoJob, PaymentsFit, CreditHolds
  <2>4. PaidRowsBought'
    BY <2>1, <2>2 DEF PaymentsFit, PaidRowsBought
  <2>5. CreditHolds'
    BY <2>2, <2>3, JobFields DEF PaymentsFit, CreditHolds
  <2>6. ChargeFits'
    BY <2>1, <2>2 DEF PaymentsFit, ChargeFits
  <2>. QED
    BY <2>4, <2>5, <2>6 DEF PaymentsFit
<1>4. CASE Rollback(w) \/ LoseClose(w) \/ EnqueuePayout(w)
  BY <1>4, FitKept DEF Rollback, LoseClose, EnqueuePayout, Finish, NoJob
<1>5. CASE CommitClose(w)
  BY <1>5, FitKept DEF CommitClose, NoJob
<1>. QED
  BY <1>1, <1>2, <1>3, <1>4, <1>5 DEF JobStep

\* Replaced options take their payments with them; no webhook holds one.
LEMMA FitReplaced ==
  ASSUME TypeOK, PaymentsFit, ReplaceOptions, UNCHANGED job
  PROVE  PaymentsFit'
<1>1. PaidRowsBought'
  BY DEF ReplaceOptions, DropRows, PaidRowsBought
<1>2. CreditHolds'
  BY JobFields DEF ReplaceOptions, PaymentFree, CreditHolds, TypeOK
<1>3. ChargeFits'
  BY DEF ReplaceOptions, PaymentsFit, ChargeFits
<1>. QED
  BY <1>1, <1>2, <1>3 DEF PaymentsFit

\* Every step.
LEMMA FitNext ==
  ASSUME TypeOK, PaymentsFit, [Next]_vars
  PROVE  PaymentsFit'
<1>. USE DEF ballots, money
<1>1. CASE VoterStep
  <2>1. ASSUME NEW v \in Voters, RemoveVote(v)
        PROVE  PaymentsFit'
    BY <2>1, FitKept DEF RemoveVote, DropRows
  <2>2. ASSUME NEW v \in Voters, NEW o \in Options, RemoveOptionVote(v, o)
        PROVE  PaymentsFit'
    BY <2>2, FitKept DEF RemoveOptionVote, DropRows
  <2>3. ASSUME NEW v \in Voters, NEW o \in Options, NEW w \in Workers,
               BeginVote(w, v, o)
        PROVE  PaymentsFit'
    BY <2>3, FitKept DEF BeginVote, Start, TypeOK
  <2>. QED
    BY <1>1, <2>1, <2>2, <2>3 DEF VoterStep
<1>2. CASE AuthorStep
  <2>1. ASSUME NEW w \in Workers, BeginClose(w)
        PROVE  PaymentsFit'
    BY <2>1, FitKept DEF BeginClose, Start, TypeOK
  <2>2. CASE SaveEdit
    BY <2>2, FitKept, FitReplaced DEF SaveEdit
  <2>3. CASE BeginEdit \/ Delete
    BY <2>3, FitKept DEF BeginEdit, Delete
  <2>. QED
    BY <1>2, <2>1, <2>2, <2>3 DEF AuthorStep
<1>3. CASE DeadlinePasses \/ SweepStep
  BY <1>3, FitKept DEF DeadlinePasses, SweepStep, SweepLists, SweepCloses,
                       SweepEnqueues, SweepEnds
<1>4. CASE TaskStep
  BY <1>4, FitKept DEF TaskStep, TaskChecks, TaskPays, TaskAcknowledged, TaskRedelivered
<1>5. CASE UNCHANGED vars
  BY <1>5, FitKept DEF vars
<1>. QED
  BY <1>1, <1>2, <1>3, <1>4, <1>5, FitPayment, FitJob DEF Next

-----------------------------------------------------------------------------
(* A vote that is about to commit holds the poll *)

\* No vote is about to commit.
NoVoting == \A w \in Workers : job[w].step # "vote"

\* Nobody votes: nothing to hold.
LEMMA HoldsNone ==
  ASSUME NoVoting'
  PROVE  VoteHolds'
BY DEF NoVoting, VoteHolds

\* A step beside a vote that leaves the poll open, its kind and its votes alone.
LEMMA HoldsKept ==
  ASSUME VoteHolds, UNCHANGED <<free, bought>>,
         poll'.status = poll.status, poll'.kind = poll.kind,
         \A w \in Workers : job'[w].step = "vote" => job'[w] = job[w],
         \/ sweep' = sweep
         \/ ~(sweep'.step = "closing" /\ sweep'.listed)
         \/ NoVoting'
  PROVE  VoteHolds'
<1>1. \A v, o : VotedFor(v, o)' <=> VotedFor(v, o)
  BY DEF VotedFor, PaidRows, Items, PaidBy, PaidFor
<1>2. \A v : HasVoted(v)' <=> HasVoted(v)
  BY <1>1 DEF HasVoted
<1>. QED
  BY <1>1, <1>2 DEF VoteHolds, NoVoting

\* A vote begins: the checks made under the poll's lock.
LEMMA HoldsVote ==
  ASSUME TypeOK, NEW w \in Workers, NEW v \in Voters, NEW o \in Options,
         BeginVote(w, v, o)
  PROVE  VoteHolds'
<1>1. /\ job' = [job EXCEPT ![w] = [step |-> "vote", voter |-> v, option |-> o]]
      /\ NoVoting
      /\ poll' = poll /\ sweep' = sweep /\ free' = free /\ bought' = bought
  BY DEF BeginVote, Start, PollFree, NoVoting, ballots
<1>2. /\ poll.status = "active"
      /\ poll.kind = "single" => ~HasVoted(v)
      /\ ~VotedFor(v, o)
      /\ ~(sweep.step = "closing" /\ sweep.listed)
  BY DEF BeginVote, PollFree, IsExpired, HasVoted, TypeOK, Polls
<1>3. /\ VotedFor(v, o)' <=> VotedFor(v, o)
      /\ HasVoted(v)' <=> HasVoted(v)
  BY <1>1 DEF HasVoted, VotedFor, PaidRows, Items, PaidBy, PaidFor
<1>4. \A x \in Workers : job'[x].step = "vote" =>
        x = w /\ job'[x].voter = v /\ job'[x].option = o
  BY <1>1 DEF NoVoting, TypeOK
<1>. QED
  BY <1>1, <1>2, <1>3, <1>4 DEF VoteHolds

\* A voter's step: withdrawals wait for the poll's lock.
LEMMA HoldsVoter ==
  ASSUME TypeOK, VoteHolds, VoterStep
  PROVE  VoteHolds'
<1>1. ASSUME NEW v \in Voters, RemoveVote(v)
      PROVE  VoteHolds'
  BY <1>1, HoldsNone DEF RemoveVote, PollFree, NoVoting
<1>2. ASSUME NEW v \in Voters, NEW o \in Options, RemoveOptionVote(v, o)
      PROVE  VoteHolds'
  BY <1>2, HoldsNone DEF RemoveOptionVote, PollFree, NoVoting
<1>. QED
  BY <1>1, <1>2, HoldsVote DEF VoterStep

\* A payment's: it touches neither the poll nor its votes.
LEMMA HoldsPayment ==
  ASSUME TypeOK, VoteHolds, NEW p \in Payments, PaymentStep(p)
  PROVE  VoteHolds'
<1>. USE DEF ballots, money
<1>1. CASE BeginPayment(p) \/ OpenPayment(p) \/ RefusePayment(p) \/ SettleCharge(p)
  BY <1>1, HoldsKept DEF BeginPayment, OpenPayment, RefusePayment, SettleCharge
<1>2. ASSUME NEW w \in Workers, BeginCredit(w, p)
      PROVE  VoteHolds'
  BY <1>2, HoldsKept DEF BeginCredit, Start, TypeOK
<1>. QED
  BY <1>1, <1>2 DEF PaymentStep

\* A worker's: what changes the poll waits for its lock, and the vote that
\* commits is the only one.
LEMMA HoldsJob ==
  ASSUME TypeOK, VoteHolds, NEW w \in Workers, JobStep(w)
  PROVE  VoteHolds'
<1>. USE DEF TypeOK, ballots, money, NoJob
<1>1. CASE CommitVote(w)
  <2>1. \A x \in Workers : job[x].step = "vote" => x = w
    BY <1>1 DEF CommitVote, VoteHolds
  <2>2. NoVoting'
    BY <1>1, <2>1 DEF CommitVote, Finish, NoVoting
  <2>. QED
    BY <2>2, HoldsNone
<1>2. CASE CommitCredit(w) \/ RejectCredit(w)
  <2>1. NoVoting'
    BY <1>2 DEF CommitCredit, RejectCredit, Finish, PollFree, NoVoting
  <2>. QED
    BY <2>1, HoldsNone
<1>3. CASE CommitClose(w)
  <2>1. NoVoting'
    BY <1>3 DEF CommitClose, PollFree, NoVoting
  <2>. QED
    BY <2>1, HoldsNone
<1>4. CASE Rollback(w) \/ LoseClose(w) \/ EnqueuePayout(w)
  BY <1>4, HoldsKept DEF Rollback, LoseClose, EnqueuePayout, Finish
<1>. QED
  BY <1>1, <1>2, <1>3, <1>4 DEF JobStep

\* The author's and the clock's.
LEMMA HoldsAuthor ==
  ASSUME TypeOK, VoteHolds, AuthorStep \/ DeadlinePasses
  PROVE  VoteHolds'
<1>. USE DEF ballots, money
<1>1. ASSUME NEW w \in Workers, BeginClose(w)
      PROVE  VoteHolds'
  BY <1>1, HoldsKept DEF BeginClose, Start, TypeOK
<1>2. CASE BeginEdit
  BY <1>2, HoldsKept DEF BeginEdit
<1>3. CASE SaveEdit \/ Delete
  <2>1. NoVoting'
    BY <1>3 DEF SaveEdit, Delete, PollFree, NoVoting
  <2>. QED
    BY <2>1, HoldsNone
<1>4. CASE DeadlinePasses
  BY <1>4, HoldsKept DEF DeadlinePasses, TypeOK, Polls
<1>. QED
  BY <1>1, <1>2, <1>3, <1>4 DEF AuthorStep

\* The sweep's: it lists the poll only when nobody votes.
LEMMA HoldsSweep ==
  ASSUME TypeOK, VoteHolds, SweepStep
  PROVE  VoteHolds'
<1>. USE DEF ballots, money
<1>1. CASE SweepLists
  <2>1. CASE NoVoting
    <3>1. NoVoting'
      BY <1>1, <2>1 DEF SweepLists, NoVoting
    <3>. QED
      BY <3>1, HoldsNone
  <2>2. CASE ~NoVoting
    <3>1. ~sweep'.listed
      BY <1>1, <2>2 DEF SweepLists, PollFree, NoVoting
    <3>. QED
      BY <1>1, <3>1, HoldsKept DEF SweepLists
  <2>. QED
    BY <2>1, <2>2
<1>2. CASE SweepCloses
  <2>1. NoVoting'
    BY <1>2 DEF SweepCloses, PollFree, VoteHolds, NoVoting
  <2>. QED
    BY <2>1, HoldsNone
<1>3. CASE SweepEnqueues \/ SweepEnds
  BY <1>3, HoldsKept DEF SweepEnqueues, SweepEnds
<1>. QED
  BY <1>1, <1>2, <1>3 DEF SweepStep

\* Every step.
LEMMA HoldsNext ==
  ASSUME TypeOK, VoteHolds, [Next]_vars
  PROVE  VoteHolds'
<1>. USE DEF ballots, money
<1>1. CASE TaskStep
  BY <1>1, HoldsKept DEF TaskStep, TaskChecks, TaskPays, TaskAcknowledged, TaskRedelivered
<1>2. CASE UNCHANGED vars
  BY <1>2, HoldsKept DEF vars
<1>. QED
  BY <1>1, <1>2, HoldsVoter, HoldsPayment, HoldsJob, HoldsAuthor, HoldsSweep DEF Next

-----------------------------------------------------------------------------
(* Payouts *)

\* What a task may do to the payouts.
PaysOnce == /\ Move("paying", "created")
            /\ payouts' = [rows  |-> payouts.rows + 1,
                           votes |-> payouts.votes + Cardinality(Items(Collected, Qty))]
            /\ UNCHANGED charge

\* A charge that is paid stays paid, and payouts are made by TaskPays alone.
LEMMA PayoutsChange ==
  ASSUME TypeOK, ChargeFits, [Next]_vars
  PROVE  Charged \subseteq Charged' /\ (payouts' = payouts \/ PaysOnce)
<1>. USE DEF ballots, money, pays
<1>1. CASE VoterStep
  BY <1>1 DEF VoterStep, RemoveVote, RemoveOptionVote, BeginVote, Charged
<1>2. ASSUME NEW p \in Payments, PaymentStep(p)
      PROVE  Charged \subseteq Charged' /\ payouts' = payouts
  BY <1>2 DEF PaymentStep, BeginPayment, OpenPayment, RefusePayment,
              SettleCharge, BeginCredit, Charged, ChargeFits, TypeOK
<1>3. ASSUME NEW w \in Workers, JobStep(w)
      PROVE  charge' = charge /\ payouts' = payouts
  BY <1>3 DEF JobStep, CommitVote, CommitCredit, RejectCredit, Rollback,
              CommitClose, EnqueuePayout, LoseClose
<1>4. CASE AuthorStep
  BY <1>4 DEF AuthorStep, BeginClose, BeginEdit, SaveEdit, ReplaceOptions, Delete, Charged
<1>5. CASE DeadlinePasses \/ SweepStep
  BY <1>5 DEF DeadlinePasses, SweepStep, SweepLists, SweepCloses,
              SweepEnqueues, SweepEnds, Charged
<1>6. CASE TaskStep
  BY <1>6 DEF TaskStep, TaskChecks, TaskPays, TaskAcknowledged,
              TaskRedelivered, PaysOnce, Charged
<1>7. CASE UNCHANGED vars
  BY <1>7 DEF vars, Charged
<1>8. (charge' = charge) => Charged \subseteq Charged'
  BY DEF Charged
<1>. QED
  BY <1>1, <1>2, <1>3, <1>4, <1>5, <1>6, <1>7, <1>8 DEF Next

\* Payout tasks are queued and moved, never lost, and only one that has not
\* paid can pay.
LEMMA PayersNext ==
  ASSUME TypeOK, TypeOK', PayersHaveNotPaid, [Next]_vars
  PROVE  PayersHaveNotPaid'
<1>. USE DEF ballots, money, pays, PayersHaveNotPaid
<1>0. /\ payouts.rows \in Nat
      /\ tasks \in [TaskStates -> Nat]
      /\ \A s \in TaskStates : tasks[s] \in Nat
  BY DEF TypeOK
<1>1. CASE VoterStep
  BY <1>1 DEF VoterStep, RemoveVote, RemoveOptionVote, BeginVote
<1>2. ASSUME NEW p \in Payments, PaymentStep(p)
      PROVE  PayersHaveNotPaid'
  BY <1>2 DEF PaymentStep, BeginPayment, OpenPayment, RefusePayment,
              SettleCharge, BeginCredit
<1>3. ASSUME NEW w \in Workers, JobStep(w)
      PROVE  PayersHaveNotPaid'
  <2>1. CASE EnqueuePayout(w)
    <3>1. payouts' = payouts /\ tasks' = [tasks EXCEPT !["queued"] = @ + 1]
      BY <2>1 DEF EnqueuePayout
    <3>. QED
      BY <1>0, <3>1 DEF TaskStates
  <2>2. CASE UNCHANGED pays
    BY <2>2
  <2>. QED
    BY <1>3, <2>1, <2>2 DEF JobStep, CommitVote, CommitCredit, RejectCredit,
                            Rollback, CommitClose, LoseClose
<1>4. CASE AuthorStep
  BY <1>4 DEF AuthorStep, BeginClose, BeginEdit, SaveEdit, Delete
<1>5. CASE DeadlinePasses
  BY <1>5 DEF DeadlinePasses
<1>6. CASE SweepStep
  <2>1. CASE SweepEnqueues
    <3>1. payouts' = payouts /\ tasks' = [tasks EXCEPT !["queued"] = @ + 1]
      BY <2>1 DEF SweepEnqueues
    <3>. QED
      BY <1>0, <3>1 DEF TaskStates
  <2>2. CASE UNCHANGED pays
    BY <2>2
  <2>. QED
    BY <1>6, <2>1, <2>2 DEF SweepStep, SweepLists, SweepCloses, SweepEnds
<1>7. CASE TaskChecks
  <2>1. CASE Payable
    <3>1. payouts' = payouts /\ payouts.rows = 0 /\ Move("queued", "paying")
      BY <1>7, <2>1 DEF TaskChecks, Payable
    <3>. QED
      BY <1>0, <3>1 DEF Move, TaskStates
  <2>2. CASE ~Payable
    <3>1. payouts' = payouts /\ Move("queued", "done")
      BY <1>7, <2>2 DEF TaskChecks
    <3>. QED
      BY <1>0, <3>1 DEF Move, TaskStates
  <2>. QED
    BY <2>1, <2>2
<1>8. CASE TaskPays
  <2>1. payouts'.rows = payouts.rows + 1 /\ Move("paying", "created")
    BY <1>8 DEF TaskPays
  <2>. QED
    BY <1>0, <2>1 DEF Move, TaskStates
<1>9. CASE TaskAcknowledged
  BY <1>0, <1>9 DEF TaskAcknowledged, Move, TaskStates
<1>10. CASE TaskRedelivered
  <2>1. PICK s \in {"paying", "created"} : Move(s, "queued")
    BY <1>10 DEF TaskRedelivered
  <2>2. payouts' = payouts
    BY <1>10 DEF TaskRedelivered
  <2>. QED
    BY <1>0, <2>1, <2>2 DEF Move, TaskStates
<1>11. CASE UNCHANGED vars
  BY <1>11 DEF vars
<1>. QED
  BY <1>1, <1>2, <1>3, <1>4, <1>5, <1>6, <1>7, <1>8, <1>9, <1>10, <1>11
     DEF Next, TaskStep

\* That bounds the payouts by the tasks.
LEMMA PerTask ==
  ASSUME TypeOK, PayersHaveNotPaid
  PROVE  PayoutPerTask
<1>1. payouts.rows \in Nat /\ \A s \in TaskStates : tasks[s] \in Nat
  BY DEF TypeOK
<1>. QED
  BY <1>1 DEF PayersHaveNotPaid, PayoutPerTask, TaskStates

\* A payout pays for successful payments, whose charges are paid and stay so.
LEMMA BackedNext ==
  ASSUME TypeOK, ChargeFits, PayoutBacked, [Next]_vars
  PROVE  PayoutBacked'
<1>. DEFINE n == payouts.rows
            v == payouts.votes
            b == Cardinality(Items(Charged, Qty))
            c == Cardinality(Items(Charged', Qty))
            d == Cardinality(Items(Collected, Qty))
<1>1. n \in Nat /\ v \in Nat
  BY DEF TypeOK
<1>2. /\ Charged \in SUBSET Payments /\ Charged' \in SUBSET Payments
      /\ Collected \in SUBSET Charged
  BY DEF Charged, Collected, ChargeFits
<1>3. b \in Nat /\ c \in Nat /\ d \in Nat
  BY <1>2, ItemsFinite
<1>4. b <= c
  BY <1>2, PayoutsChange, ItemsFewer
<1>5. d <= b
  <2>1. Collected \in SUBSET Payments /\ Collected \subseteq Charged
    BY <1>2
  <2>2. \A p \in Payments : Qty[p] \in Nat /\ Qty[p] <= Qty[p]
    OBVIOUS
  <2>. QED
    BY <1>2, <2>1, <2>2, ItemsFewer
<1>6. v <= n * b
  BY DEF PayoutBacked
<1>7. n * b <= n * c
  <2>. HIDE DEF n, b, c
  <2>. QED
    BY <1>1, <1>3, <1>4
<1>8. payouts'.votes <= payouts'.rows * c
  <2>1. CASE payouts' = payouts
    <3>. HIDE DEF b, c
    <3>1. v <= n * c
      <4>. HIDE DEF n, v
      <4>1. n * b \in Nat /\ n * c \in Nat
        BY <1>1, <1>3
      <4>. QED
        BY <1>1, <1>6, <1>7, <4>1
    <3>. QED
      BY <2>1, <3>1
  <2>2. CASE PaysOnce
    <3>1. payouts'.rows = n + 1 /\ payouts'.votes = v + d
      BY <2>2 DEF PaysOnce
    <3>. HIDE DEF n, v, b, c, d
    <3>2. n * b \in Nat /\ n * c \in Nat /\ (n + 1) * c = n * c + c
      BY <1>1, <1>3
    <3>3. v + d <= n * c + c
      BY <1>1, <1>3, <1>4, <1>5, <1>6, <1>7, <3>2
    <3>. QED
      BY <3>1, <3>2, <3>3
  <2>. QED
    BY <2>1, <2>2, PayoutsChange
<1>9. Cardinality(Items(Charged, Qty))' = c
  BY DEF Items
<1>. QED
  BY <1>8, <1>9 DEF PayoutBacked

-----------------------------------------------------------------------------
(* The theorems *)

\* The inductive invariant holds first: nobody has voted, paid or begun,
LEMMA IInvInit == Init => IInv
<1>. SUFFICES ASSUME Init
              PROVE  IInv
  OBVIOUS
<1>1. TypeOK
  BY TypeInit
<1>2. CountersCoverVotes
  <2>. SUFFICES ASSUME NEW o \in Options
                PROVE  Cover(o)
    BY CoverEach
  <2>1. FreeFor(o) = {} /\ PaidRows(PaidFor(o)) = {}
    BY DEF Init, FreeFor, PaidRows, PaidFor, Items
  <2>2. Cardinality(FreeFor(o)) = 0 /\ Cardinality(PaidRows(PaidFor(o))) = 0
    BY <2>1, FS_EmptySet
  <2>3. count[o] = 0
    BY DEF Init
  <2>. QED
    BY <2>2, <2>3 DEF Cover
<1>3. PaidRowsBought /\ CreditHolds /\ VoteHolds /\ ChargeFits
  BY DEF Init, NoJob, PaidRowsBought, CreditHolds, VoteHolds, ChargeFits
<1>4. PayersHaveNotPaid
  BY DEF Init, PayersHaveNotPaid, TaskStates
<1>5. PayoutBacked
  <2>1. Cardinality(Items(Charged, Qty)) \in Nat
    BY ItemsFinite DEF Charged
  <2>2. payouts.votes = 0 /\ payouts.rows = 0
    BY DEF Init
  <2>. QED
    BY <2>1, <2>2 DEF PayoutBacked
<1>. QED
  BY <1>1, <1>2, <1>3, <1>4, <1>5, PerTask DEF IInv

\* and every step keeps it.
LEMMA IInvNext == IInv /\ [Next]_vars => IInv'
<1>. SUFFICES ASSUME IInv, [Next]_vars
              PROVE  IInv'
  OBVIOUS
<1>1. TypeOK /\ TypeOK'
  BY TypeNext DEF IInv
<1>2. CountersCoverVotes'
  BY <1>1, CountersNext DEF IInv
<1>3. PaidRowsBought' /\ CreditHolds' /\ ChargeFits'
  BY <1>1, FitNext DEF IInv, PaymentsFit
<1>4. VoteHolds'
  BY <1>1, HoldsNext DEF IInv
<1>5. PayersHaveNotPaid'
  BY <1>1, PayersNext DEF IInv
<1>6. PayoutPerTask'
  <2>1. payouts'.rows \in Nat /\ \A s \in TaskStates : tasks'[s] \in Nat
    BY <1>1 DEF TypeOK
  <2>. QED
    BY <1>5, <2>1 DEF PayersHaveNotPaid, PayoutPerTask, TaskStates
<1>7. PayoutBacked'
  BY <1>1, BackedNext DEF IInv
<1>. QED
  BY <1>1, <1>2, <1>3, <1>4, <1>5, <1>6, <1>7 DEF IInv

\* The inductive invariant of a poll.
THEOREM PollInvariance == Spec => []IInv
BY IInvInit, IInvNext, PTL DEF Spec

\* No option's vote_count falls below the votes it has.
THEOREM NoVoteUncounted == Spec => []CountersCoverVotes
<1>1. IInv => CountersCoverVotes
  BY DEF IInv
<1>. QED
  BY <1>1, PollInvariance, PTL

\* However often the gateway's webhook arrives, and however its deliveries
\* overlap, a payment is credited once, and only if it was paid.
THEOREM CreditedOnce == Spec => []PaidRowsBought
<1>1. IInv => PaidRowsBought
  BY DEF IInv
<1>. QED
  BY <1>1, PollInvariance, PTL

\* A payout task pays once, although it is redelivered when its worker is lost.
THEOREM PaidOncePerTask == Spec => []PayoutPerTask
<1>1. IInv => PayoutPerTask
  BY DEF IInv
<1>. QED
  BY <1>1, PollInvariance, PTL

\* No payout pays for more than the voters paid for.
THEOREM PayoutsAreBacked == Spec => []PayoutBacked
<1>1. IInv => PayoutBacked
  BY DEF IInv
<1>. QED
  BY <1>1, PollInvariance, PTL

\* A vote that a step adds was checked under the poll's lock, which its worker
\* still holds.
LEMMA NewVoteAllowed ==
  ASSUME IInv, [Next]_vars, NEW r \in free' \ free
  PROVE  poll.status = "active" /\ (poll.kind = "single" => ~HasVoted(r[1]))
<1>1. PICK w \in Workers : CommitVote(w)
  BY BallotsChange DEF ballots, CommitCredit, RemoveVote, RemoveOptionVote,
                       DropRows, ReplaceOptions
<1>2. r = <<job[w].voter, job[w].option>>
  BY <1>1 DEF CommitVote
<1>. QED
  BY <1>1, <1>2 DEF IInv, VoteHolds, CommitVote

\* In a single-choice poll nobody who has a vote casts another, whatever the
\* interleaving.
THEOREM OneVoteEach == Spec => SingleChoiceOnce
<1>1. IInv /\ [Next]_vars =>
        [\A r \in free' \ free : poll.kind = "single" => ~HasVoted(r[1])]_vars
  BY NewVoteAllowed
<1>. QED
  BY <1>1, PollInvariance, PTL DEF Spec, SingleChoiceOnce

\* A closed poll takes no votes.
THEOREM ClosedStaysClosed == Spec => ClosedTakesNoVote
<1>1. IInv /\ [Next]_vars => [poll.status = "closed" => free' \subseteq free]_vars
  BY NewVoteAllowed
<1>. QED
  BY <1>1, PollInvariance, PTL DEF Spec, ClosedTakesNoVote

=============================================================================
