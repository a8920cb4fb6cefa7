----------------------------- MODULE DeskProofs -----------------------------
(***************************************************************************)
(* Proofs about the people who settle things, for every number of them:    *)
(* the event desk with its payouts, and conversations with the disputes    *)
(* that use them.                                                          *)
(***************************************************************************)
EXTENDS EventDesk, Disputes, FiniteSetTheorems, TLAPS

-----------------------------------------------------------------------------
(***************************************************************************)
(* Proof that an event's revenue and payouts are never more than what was  *)
(* bought and what repeated confirmations added, that there is no payout   *)
(* before the event was over, and that nothing is sold of an event that    *)
(* was never published, for every number of clerks, purchases, payouts and *)
(* calls, every price and every commission.  DeskRemembers makes DeskInv   *)
(* inductive: it says what a call that read a row long ago may rely on.    *)
(***************************************************************************)

\* A commission between 0 and 100 percent leaves a part of the whole.
LEMMA NetIsPart ==
  ASSUME NEW gross \in Nat
  PROVE  Net(gross) \in Nat /\ Net(gross) <= gross
<1>1. gross * Commission \in Nat /\ gross * Commission <= gross * 100
  BY RatePercent
<1>. DEFINE fee == gross * Commission
<1>2. fee \in Nat /\ fee <= gross * 100
  BY <1>1
<1>. HIDE DEF fee
<1>3. fee \div 100 \in Nat /\ fee \div 100 <= gross
  BY <1>2
<1>. QED
  BY <1>3 DEF Net, fee

\* Rows stay rows when a column of theirs is set.
LEMMA ColumnsSet ==
  /\ \A h \in Histories, b, c \in BOOLEAN :
       /\ [h EXCEPT !.approved = b] \in Histories
       /\ [h EXCEPT !.over = b] \in Histories
       /\ [h EXCEPT !.published = b, !.over = c] \in Histories
  /\ \A e \in EventRows :
       /\ \A b \in BOOLEAN : [e EXCEPT !.ended = b] \in EventRows
       /\ \A b \in BOOLEAN : [e EXCEPT !.deleted = b] \in EventRows
       /\ \A s \in EventStates : [e EXCEPT !.status = s] \in EventRows
BY DEF Histories, EventRows

\* The beginning fits.
LEMMA DeskStart == DeskInit => DeskInv
<1>. SUFFICES ASSUME DeskInit PROVE DeskInv
  OBVIOUS
<1>. USE DEF DeskInit, NoEvent, NoPayout, Idle
<1>1. DeskTypeOK
  BY DeskCallsNat DEF DeskTypeOK, SellerStates, SaleStates, EventRows, EventStates, PayoutRows,
                      ClerkCalls, Histories, Ledgers
<1>2. RevenueBacked /\ PayoutsEarned /\ SoldWhatWasPublished
  BY DEF RevenueBacked, PayoutsEarned, SoldWhatWasPublished, Booked
<1>3. DeskRemembers
  BY DEF DeskRemembers, IsApproved, Over
<1>. QED
  BY <1>1, <1>2, <1>3 DEF DeskInv

\* What a call carries, by its kind.
LEMMA ClerkTypes ==
  ASSUME DeskTypeOK, NEW w \in Clerks
  PROVE  /\ clerk[w].call \in {"edit", "publish", "cancel", "delete"} => clerk[w].copy \in EventRows
         /\ clerk[w].call = "request" => clerk[w].gross \in Nat
         /\ clerk[w].call \in {"paid", "rejected"} => clerk[w].p \in Payouts
         /\ clerk[w].call \in {"buy", "verify"} => clerk[w].b \in Sales
<1>. clerk[w] \in ClerkCalls
  BY DEF DeskTypeOK
<1>. QED
  BY DEF ClerkCalls, Idle

\* A call that begins changes no row, and all that is left to show is what
\* the call itself has read.
LEMMA BeginKeeps ==
  ASSUME DeskInv, NEW w \in Clerks, NEW c \in ClerkCalls, Take(w, c),
         c.call \in {"edit", "publish", "cancel", "delete"} => c.copy.rev <= Booked,
         c.call = "request" => c.gross <= Booked /\ past.over,
         c.call \in {"create", "edit", "publish", "cancel", "delete"} => past.approved,
         c.call = "edit" => c.copy.status = "draft",
         c.call \in {"buy", "verify"} => past.published /\ past.approved,
         c.call \in {"paid", "rejected"} => payout[c.p].status # "none"
  PROVE  DeskInv'
<1>. USE DEF Take
<1>1. DeskTypeOK'
  BY DeskCallsNat DEF DeskInv, DeskTypeOK
<1>2. \A z \in Clerks : clerk'[z] = IF z = w THEN c ELSE clerk[z]
  BY DEF DeskInv, DeskTypeOK
<1>3. RevenueBacked'
  BY <1>2 DEF DeskInv, RevenueBacked, Booked
<1>4. PayoutsEarned' /\ SoldWhatWasPublished'
  BY DEF DeskInv, PayoutsEarned, SoldWhatWasPublished, Booked
<1>5. DeskRemembers'
  BY <1>2 DEF DeskInv, DeskRemembers, IsApproved, Over
<1>. QED
  BY <1>1, <1>3, <1>4, <1>5 DEF DeskInv

\* Reviews, completion and the end of an event touch no call.
LEMMA ReviewKeeps ==
  ASSUME DeskInv, NEW to \in SellerStates \ {"none"}, Reviewed(to)
  PROVE  DeskInv'
<1>. USE DEF Reviewed
<1>0. DeskTypeOK
  BY DEF DeskInv
<1>1. DeskTypeOK'
  <2>. DEFINE b == past.approved \/ to = "approved"
  <2>1. b \in BOOLEAN
    OBVIOUS
  <2>2. past' = [past EXCEPT !.approved = b]
    BY DEF Reviewed
  <2>. HIDE DEF b
  <2>3. past' \in Histories
    BY <1>0, <2>1, <2>2, ColumnsSet DEF DeskTypeOK
  <2>. QED
    BY <1>0, <2>3, DeskCallsNat DEF DeskTypeOK
<1>2. RevenueBacked' /\ PayoutsEarned' /\ SoldWhatWasPublished' /\ DeskRemembers'
  BY DEF DeskInv, DeskTypeOK, Histories, RevenueBacked, PayoutsEarned, SoldWhatWasPublished,
         DeskRemembers, IsApproved, Over, Booked
<1>. QED
  BY <1>1, <1>2 DEF DeskInv

\* An event that completes or ends keeps the invariant.
LEMMA OverKeeps ==
  ASSUME DeskInv, Complete \/ EndPasses
  PROVE  DeskInv'
<1>. USE DEF Complete, EndPasses
<1>0. DeskTypeOK
  BY DEF DeskInv
<1>1. DeskTypeOK'
  <2>1. event' \in EventRows /\ past' \in Histories
    BY <1>0, ColumnsSet DEF DeskTypeOK, EventStates
  <2>. QED
    BY <1>0, <2>1, DeskCallsNat DEF DeskTypeOK
<1>2. RevenueBacked' /\ PayoutsEarned' /\ SoldWhatWasPublished' /\ DeskRemembers'
  BY DEF DeskInv, DeskTypeOK, EventRows, Histories, RevenueBacked, PayoutsEarned,
         SoldWhatWasPublished, DeskRemembers, IsApproved, Over, Existing, Booked
<1>. QED
  BY <1>1, <1>2 DEF DeskInv

\* The calls that end: a new event, an edit, the saves of one column.
LEMMA CommitsKeep ==
  ASSUME DeskInv, NEW w \in Clerks, CommitCreate(w) \/ CommitEdit(w) \/ CommitEvent(w)
  PROVE  DeskInv'
<1>. USE DEF Close
<1>0. DeskTypeOK /\ DeskRemembers /\ RevenueBacked /\ PayoutsEarned /\ SoldWhatWasPublished
  BY DEF DeskInv
<1>1. /\ event' \in EventRows /\ past' \in Histories
      /\ clerk' = [clerk EXCEPT ![w] = Idle] /\ UNCHANGED <<profile, sale, payout, calls2do, books>>
      /\ past'.approved = past.approved /\ past'.approved
      /\ past.over => past'.over
      /\ past.published => past'.published
      /\ event'.rev <= Booked
      /\ event'.status = "published" => past'.published
      /\ (event'.ended \/ event'.status \in {"completed", "cancelled"}) => past'.over
  <2>1. CASE CommitCreate(w)
    <3>1. /\ clerk[w].call = "create" /\ past' = past /\ past \in Histories
          /\ event' = [status |-> "draft", ended |-> FALSE, rev |-> 0, deleted |-> FALSE]
          /\ past.approved
      BY <1>0, <2>1 DEF CommitCreate, NoEvent, DeskTypeOK, DeskRemembers
    <3>2. Booked \in Nat
      BY <1>0 DEF Booked, DeskTypeOK, Ledgers
    <3>3. event' \in EventRows /\ event'.rev <= Booked
      BY <3>1, <3>2 DEF EventRows, EventStates
    <3>. QED
      BY <2>1, <3>1, <3>3 DEF CommitCreate
  <2>2. CASE CommitEdit(w)
    <3>1. /\ clerk[w].copy \in EventRows /\ clerk[w].copy.status = "draft"
          /\ clerk[w].copy.rev <= Booked /\ past.approved
      BY <1>0, <2>2, ClerkTypes DEF CommitEdit, DeskRemembers, RevenueBacked
    <3>. QED
      BY <1>0, <2>2, <3>1 DEF CommitEdit, DeskTypeOK, EventRows, EventStates, Histories
  <2>3. CASE CommitEvent(w)
    <3>. DEFINE shown == past.published \/ event'.status = "published"
                over  == past.over \/ event'.status = "cancelled"
    <3>1. past.approved /\ event \in EventRows /\ past \in Histories
      BY <1>0, <2>3 DEF CommitEvent, DeskRemembers, DeskTypeOK
    <3>2. /\ shown \in BOOLEAN /\ over \in BOOLEAN
          /\ past' = [past EXCEPT !.published = shown, !.over = over]
      BY <2>3 DEF CommitEvent
    <3>. HIDE DEF shown, over
    <3>3. past' \in Histories
      BY <3>1, <3>2, ColumnsSet
    <3>4. event' \in EventRows
      BY <2>3, <3>1, ColumnsSet DEF CommitEvent, EventStates
    <3>5. /\ past'.approved = past.approved
          /\ past'.published = shown /\ past'.over = over
      BY <3>1, <3>2 DEF Histories
    <3>6. /\ event'.rev = event.rev /\ event'.ended = event.ended
          /\ event'.status \in {event.status, "published", "cancelled"}
      BY <2>3, <3>1 DEF CommitEvent, EventRows
    <3>7. past.over => past'.over
      BY <3>5 DEF over
    <3>8. past.published => past'.published
      BY <3>5 DEF shown
    <3>9. event'.status = "published" => past'.published
      BY <3>5 DEF shown
    <3>10. event'.ended \/ event'.status \in {"completed", "cancelled"} => past'.over
      BY <1>0, <3>5, <3>6 DEF over, DeskRemembers, Over
    <3>. QED
      BY <1>0, <2>3, <3>1, <3>3, <3>4, <3>5, <3>6, <3>7, <3>8, <3>9, <3>10
        DEF CommitEvent, RevenueBacked
  <2>. QED
    BY <2>1, <2>2, <2>3
<1>2. DeskTypeOK'
  BY <1>0, <1>1 DEF DeskTypeOK, ClerkCalls
<1>3. \A z \in Clerks : clerk'[z] = IF z = w THEN Idle ELSE clerk[z]
  BY <1>0, <1>1 DEF DeskTypeOK
<1>4. RevenueBacked'
  BY <1>0, <1>1, <1>3 DEF RevenueBacked, Idle, Booked
<1>5. PayoutsEarned' /\ SoldWhatWasPublished'
  BY <1>0, <1>1 DEF PayoutsEarned, SoldWhatWasPublished, Booked
<1>6. DeskRemembers'
  BY <1>0, <1>1, <1>3 DEF DeskRemembers, IsApproved, Over, Idle
<1>. QED
  BY <1>2, <1>4, <1>5, <1>6 DEF DeskInv

\* What a confirmation adds to the revenue it also adds to the history.
LEMMA VerifyKeeps ==
  ASSUME DeskInv, NEW w \in Clerks, CommitVerify(w)
  PROVE  DeskInv'
<1>. USE DEF Close
<1>0. DeskTypeOK /\ DeskRemembers /\ RevenueBacked /\ PayoutsEarned /\ SoldWhatWasPublished
  BY DEF DeskInv
<1>. DEFINE b == clerk[w].b
<1>1. /\ b \in Sales /\ books \in Ledgers /\ event \in EventRows /\ TicketPrice \in Nat
      /\ past.published /\ past.approved /\ clerk[w].call = "verify"
      /\ event' = [event EXCEPT !.rev = event.rev + TicketPrice]
      /\ clerk' = [clerk EXCEPT ![w] = Idle]
      /\ sale' = [sale EXCEPT ![b] = "successful"]
      /\ profile' = profile /\ payout' = payout /\ calls2do' = calls2do /\ past' = past
  BY <1>0, PriceNat, ClerkTypes DEF CommitVerify, DeskTypeOK, DeskRemembers
<1>2. /\ books' \in Ledgers /\ books'.bought = books.bought \cup {b}
      /\ books'.sold + books'.again = books.sold + books.again + TicketPrice
  <2>1. CASE b \in books.bought
    <3>1. books' = [books EXCEPT !.again = books.again + TicketPrice]
      BY <2>1 DEF CommitVerify
    <3>. QED
      BY <1>1, <2>1, <3>1 DEF Ledgers
  <2>2. CASE b \notin books.bought
    <3>1. books' = [books EXCEPT !.sold = books.sold + TicketPrice, !.bought = books.bought \cup {b}]
      BY <2>2 DEF CommitVerify
    <3>2. books.sold \in Nat /\ books.again \in Nat /\ books.bought \in SUBSET Sales
      BY <1>1 DEF Ledgers
    <3>3. books' = [bought |-> books.bought \cup {b}, sold |-> books.sold + TicketPrice,
                    again |-> books.again]
      BY <1>1, <3>1 DEF Ledgers
    <3>. DEFINE all == books.bought \cup {b}
    <3>4. all \in SUBSET Sales
      BY <1>1, <3>2
    <3>. HIDE DEF all
    <3>5. books' \in Ledgers
      BY <1>1, <3>2, <3>3, <3>4 DEF Ledgers, all
    <3>. QED
      BY <1>1, <3>2, <3>3, <3>5
  <2>. QED
    BY <2>1, <2>2
<1>. HIDE DEF b
<1>3. /\ event' \in EventRows /\ event'.rev = event.rev + TicketPrice
      /\ event'.status = event.status /\ event'.ended = event.ended
  BY <1>1 DEF EventRows
<1>4. /\ Booked \in Nat /\ Booked' = Booked + TicketPrice /\ Booked <= Booked'
      /\ event.rev \in Nat /\ event'.rev <= Booked'
  BY <1>0, <1>1, <1>2, <1>3 DEF Booked, Ledgers, EventRows, RevenueBacked
<1>5. DeskTypeOK'
  BY <1>0, <1>1, <1>2, <1>3 DEF DeskTypeOK, ClerkCalls, SaleStates
<1>6. \A z \in Clerks : clerk'[z] = IF z = w THEN Idle ELSE clerk[z]
  BY <1>0, <1>1 DEF DeskTypeOK
<1>7. RevenueBacked'
  <2>1. ASSUME NEW z \in Clerks,
               clerk[z].call \in {"edit", "publish", "cancel", "delete"}
        PROVE  clerk[z].copy.rev <= Booked'
    <3>1. clerk[z].copy.rev \in Nat /\ clerk[z].copy.rev <= Booked
      BY <1>0, <2>1, ClerkTypes DEF RevenueBacked, EventRows
    <3>. QED
      BY <1>1, <1>4, <3>1
  <2>2. ASSUME NEW z \in Clerks, clerk[z].call = "request"
        PROVE  clerk[z].gross <= Booked'
    <3>1. clerk[z].gross \in Nat /\ clerk[z].gross <= Booked
      BY <1>0, <2>2, ClerkTypes DEF RevenueBacked
    <3>. QED
      BY <1>1, <1>4, <3>1
  <2>. QED
    BY <1>4, <1>6, <2>1, <2>2 DEF RevenueBacked, Idle
<1>8. PayoutsEarned'
  <2>1. ASSUME NEW p \in Payouts, payout[p].status # "none"
        PROVE  payout[p].amount <= Booked' /\ past'.over
    <3>1. payout[p].amount \in Nat /\ payout[p].amount <= Booked /\ past.over
      BY <1>0, <2>1 DEF PayoutsEarned, DeskTypeOK, PayoutRows, NoPayout
    <3>. QED
      BY <1>1, <1>2, <1>4, <3>1
  <2>. QED
    BY <1>1, <2>1 DEF PayoutsEarned
<1>9. SoldWhatWasPublished'
  BY <1>1, <1>2 DEF SoldWhatWasPublished
<1>10. DeskRemembers'
  BY <1>0, <1>1, <1>2, <1>3, <1>6 DEF DeskRemembers, IsApproved, Over, Idle
<1>. QED
  BY <1>5, <1>7, <1>8, <1>9, <1>10 DEF DeskInv

\* A purchase begun while the event was published may be written, refused or
\* released later: no revenue moves.
LEMMA SaleKeeps ==
  ASSUME DeskInv,
         \/ \E w \in Clerks : CommitBuy(w) \/ RefuseVerify(w)
         \/ \E b \in Sales : ChargeFails(b)
  PROVE  DeskInv'
<1>0. DeskTypeOK /\ DeskRemembers /\ RevenueBacked /\ PayoutsEarned /\ SoldWhatWasPublished
  BY DEF DeskInv
<1>. DEFINE NoneMoves ==
        /\ past.published /\ past.approved
        /\ sale' \in [Sales -> SaleStates]
        /\ calls2do' \in 0 .. MaxDeskCalls
        /\ profile' = profile /\ event' = event /\ payout' = payout
        /\ past' = past /\ books' = books
        /\ \A z \in Clerks : clerk'[z] \in {clerk[z], Idle}
        /\ clerk' \in [Clerks -> ClerkCalls]
<1>1. NoneMoves
  <2>1. ASSUME NEW w \in Clerks, CommitBuy(w) \/ RefuseVerify(w)
        PROVE  NoneMoves
    <3>1. clerk[w].b \in Sales /\ past.published /\ past.approved
      BY <1>0, <2>1, ClerkTypes DEF CommitBuy, RefuseVerify, DeskRemembers
    <3>2. sale' \in [Sales -> SaleStates]
      BY <1>0, <2>1, <3>1 DEF CommitBuy, RefuseVerify, DeskTypeOK, SaleStates
    <3>. QED
      BY <1>0, <2>1, <3>1, <3>2 DEF CommitBuy, RefuseVerify, Close, DeskTypeOK, ClerkCalls
  <2>2. ASSUME NEW b \in Sales, ChargeFails(b)
        PROVE  NoneMoves
    <3>1. sale[b] # "none" /\ past.published /\ past.approved
      BY <1>0, <2>2 DEF ChargeFails, DeskRemembers
    <3>. QED
      BY <1>0, <2>2, <3>1, DeskCallsNat DEF ChargeFails, DeskTypeOK, SaleStates
  <2>. QED
    BY <2>1, <2>2
<1>2. DeskTypeOK'
  BY <1>0, <1>1 DEF DeskTypeOK
<1>3. RevenueBacked' /\ PayoutsEarned' /\ SoldWhatWasPublished'
  BY <1>0, <1>1 DEF RevenueBacked, PayoutsEarned, SoldWhatWasPublished, Booked, Idle
<1>4. DeskRemembers'
  BY <1>0, <1>1 DEF DeskRemembers, IsApproved, Over, Idle
<1>. QED
  BY <1>2, <1>3, <1>4 DEF DeskInv

\* A payout asks for a part of what the call had read, and processing it
\* leaves the amount alone.
LEMMA PayoutKeeps ==
  ASSUME DeskInv, NEW w \in Clerks, CommitRequest(w) \/ CommitProcess(w)
  PROVE  DeskInv'
<1>. USE DEF Close
<1>0. DeskTypeOK /\ DeskRemembers /\ RevenueBacked /\ PayoutsEarned /\ SoldWhatWasPublished
  BY DEF DeskInv
<1>1. /\ clerk' = [clerk EXCEPT ![w] = Idle] /\ UNCHANGED <<profile, event, sale, calls2do, past, books>>
  BY DEF CommitRequest, CommitProcess
<1>2. /\ payout' \in [Payouts -> PayoutRows \cup {NoPayout}]
      /\ PayoutsEarned'
  <2>1. CASE CommitRequest(w)
    <3>. DEFINE net == Net(clerk[w].gross)
    <3>1. /\ clerk[w].gross \in Nat /\ clerk[w].gross <= Booked /\ past.over
          /\ Booked \in Nat
      BY <1>0, <2>1, ClerkTypes DEF CommitRequest, RevenueBacked, DeskRemembers,
                                     DeskTypeOK, Ledgers, Booked
    <3>2. net \in Nat /\ net <= clerk[w].gross
      BY <3>1, NetIsPart
    <3>3. PICK p \in Payouts :
            payout' = [payout EXCEPT ![p] = [status |-> "requested", amount |-> net]]
      BY <2>1 DEF CommitRequest
    <3>. HIDE DEF net
    <3>4. net <= Booked
      BY <3>1, <3>2
    <3>. DEFINE due == [status |-> "requested", amount |-> net]
    <3>5. due \in PayoutRows /\ due.amount <= Booked
      BY <3>2, <3>4 DEF PayoutRows, PayoutStates
    <3>. HIDE DEF due
    <3>6. \A q \in Payouts : payout'[q] = IF q = p THEN due ELSE payout[q]
      BY <1>0, <3>3 DEF DeskTypeOK, due
    <3>7. payout' \in [Payouts -> PayoutRows \cup {NoPayout}]
      BY <1>0, <3>3, <3>5 DEF DeskTypeOK, due
    <3>8. PayoutsEarned'
      BY <1>0, <1>1, <3>1, <3>5, <3>6 DEF PayoutsEarned, Booked
    <3>. QED
      BY <3>7, <3>8
  <2>2. CASE CommitProcess(w)
    <3>. DEFINE p == clerk[w].p
    <3>1. p \in Payouts /\ payout' = [payout EXCEPT ![p].status = clerk[w].call]
          /\ clerk[w].call \in {"paid", "rejected"}
      BY <1>0, <2>2, ClerkTypes DEF CommitProcess
    <3>2. payout[p].status # "none"
      BY <1>0, <2>2 DEF CommitProcess, DeskRemembers
    <3>3. payout[p] \in PayoutRows
      BY <1>0, <3>1, <3>2 DEF DeskTypeOK, NoPayout
    <3>. DEFINE due == [payout[p] EXCEPT !.status = clerk[w].call]
    <3>4. due \in PayoutRows /\ due.amount = payout[p].amount
      BY <3>1, <3>3 DEF PayoutRows, PayoutStates
    <3>5. payout' = [payout EXCEPT ![p] = due]
      BY <3>1
    <3>. HIDE DEF due, p
    <3>6. \A q \in Payouts : payout'[q] = IF q = p THEN due ELSE payout[q]
      BY <1>0, <3>5 DEF DeskTypeOK
    <3>7. payout' \in [Payouts -> PayoutRows \cup {NoPayout}]
      BY <1>0, <3>4, <3>5 DEF DeskTypeOK
    <3>8. PayoutsEarned'
      BY <1>0, <1>1, <3>1, <3>2, <3>4, <3>6 DEF PayoutsEarned, Booked
    <3>. QED
      BY <3>7, <3>8
  <2>. QED
    BY <2>1, <2>2
<1>3. DeskTypeOK'
  BY <1>0, <1>1, <1>2 DEF DeskTypeOK, ClerkCalls
<1>4. \A z \in Clerks : clerk'[z] = IF z = w THEN Idle ELSE clerk[z]
  BY <1>0, <1>1 DEF DeskTypeOK
<1>5. RevenueBacked' /\ SoldWhatWasPublished'
  BY <1>0, <1>1, <1>4 DEF RevenueBacked, SoldWhatWasPublished, Booked, Idle
<1>6. \A q \in Payouts : payout[q].status # "none" => payout'[q].status # "none"
  <2>1. CASE CommitRequest(w)
    BY <1>0, <2>1 DEF CommitRequest, DeskTypeOK
  <2>2. CASE CommitProcess(w)
    <3>1. clerk[w].call # "none" /\ clerk[w].p \in Payouts
      BY <1>0, <2>2, ClerkTypes DEF CommitProcess
    <3>. QED
      BY <1>0, <2>2, <3>1 DEF CommitProcess, DeskTypeOK, PayoutRows, NoPayout
  <2>. QED
    BY <2>1, <2>2
<1>7. DeskRemembers'
  BY <1>0, <1>1, <1>4, <1>6, ClerkTypes DEF DeskRemembers, IsApproved, Over, Idle
<1>. QED
  BY <1>2, <1>3, <1>5, <1>7 DEF DeskInv

\* Every call begins on what it has just read.
LEMMA BeginsKeep ==
  ASSUME DeskInv, NEW w \in Clerks,
         \/ BeginCreate(w) \/ BeginEdit(w) \/ BeginPublish(w) \/ BeginCancel(w)
         \/ BeginDelete(w) \/ BeginRequest(w)
         \/ \E b \in Sales : BeginBuy(w, b) \/ BeginVerify(w, b)
         \/ \E p \in Payouts, to \in {"paid", "rejected"} : BeginProcess(w, p, to)
  PROVE  DeskInv'
<1>0. DeskTypeOK /\ DeskRemembers /\ RevenueBacked /\ SoldWhatWasPublished
  BY DEF DeskInv
<1>1. CASE BeginCreate(w)
  BY <1>0, <1>1, BeginKeeps DEF BeginCreate, DeskRemembers, ClerkCalls
<1>2. ASSUME NEW call \in {"edit", "publish", "cancel", "delete"}, NEW S,
             BeginEvent(w, call, S), call = "edit" => S = {"draft"}
      PROVE  DeskInv'
  <2>1. [call |-> call, copy |-> event] \in ClerkCalls
    BY <1>0 DEF DeskTypeOK, ClerkCalls
  <2>2. past.approved /\ event.rev <= Booked /\ (call = "edit" => event.status = "draft")
    BY <1>0, <1>2 DEF BeginEvent, Existing, SoldWhatWasPublished, RevenueBacked
  <2>. QED
    BY <1>2, <2>1, <2>2, BeginKeeps DEF BeginEvent
<1>3. CASE BeginEdit(w) \/ BeginPublish(w) \/ BeginCancel(w) \/ BeginDelete(w)
  BY <1>2, <1>3 DEF BeginEdit, BeginPublish, BeginCancel, BeginDelete
<1>4. CASE \E b \in Sales : BeginBuy(w, b) \/ BeginVerify(w, b)
  <2>. PICK b \in Sales : BeginBuy(w, b) \/ BeginVerify(w, b)
    BY <1>4
  <2>1. past.published /\ past.approved
    BY <1>0 DEF BeginBuy, BeginVerify, Sellable, Existing, DeskRemembers, SoldWhatWasPublished
  <2>2. [call |-> "buy", b |-> b] \in ClerkCalls /\ [call |-> "verify", b |-> b] \in ClerkCalls
    BY DEF ClerkCalls
  <2>. QED
    BY <2>1, <2>2, BeginKeeps DEF BeginBuy, BeginVerify
<1>5. CASE BeginRequest(w)
  <2>1. [call |-> "request", gross |-> event.rev] \in ClerkCalls
    BY <1>0 DEF DeskTypeOK, ClerkCalls, EventRows
  <2>. QED
    BY <1>0, <1>5, <2>1, BeginKeeps DEF BeginRequest, DeskRemembers, RevenueBacked
<1>6. CASE \E p \in Payouts, to \in {"paid", "rejected"} : BeginProcess(w, p, to)
  <2>. PICK p \in Payouts, to \in {"paid", "rejected"} : BeginProcess(w, p, to)
    BY <1>6
  <2>1. [call |-> to, p |-> p] \in ClerkCalls
    BY DEF ClerkCalls
  <2>. QED
    BY <2>1, BeginKeeps DEF BeginProcess
<1>. QED
  BY <1>1, <1>3, <1>4, <1>5, <1>6

\* Every step keeps the invariant.
LEMMA DeskStepKeeps == DeskInv /\ [DeskNext]_eventDeskVars => DeskInv'
<1>. SUFFICES ASSUME DeskInv, [DeskNext]_eventDeskVars PROVE DeskInv'
  OBVIOUS
<1>1. CASE Apply \/ Review \/ Suspend
  BY <1>1, ReviewKeeps DEF Apply, Review, Suspend, SellerStates
<1>2. CASE Complete \/ EndPasses
  BY <1>2, OverKeeps
<1>3. CASE \E b \in Sales : ChargeFails(b)
  BY <1>3, SaleKeeps
<1>4. ASSUME NEW w \in Clerks, ClerkStep(w)
      PROVE  DeskInv'
  BY <1>4, BeginsKeep, CommitsKeep, SaleKeeps, VerifyKeeps, PayoutKeeps DEF ClerkStep
<1>5. CASE UNCHANGED eventDeskVars
  BY <1>5 DEF eventDeskVars, DeskInv, DeskTypeOK, RevenueBacked, PayoutsEarned,
              SoldWhatWasPublished, DeskRemembers, IsApproved, Over, Booked
<1>. QED
  BY <1>1, <1>2, <1>3, <1>4, <1>5 DEF DeskNext

\* However edits, sales, reviews and payouts of one event overlap, no payout
\* exceeds what was bought and, at worst, what repeated confirmations added,
\* and there is none before the event was over.
THEOREM PayoutsAreEarned == DeskSpec => []DeskInv
BY DeskStart, DeskStepKeeps, PTL DEF DeskSpec

-----------------------------------------------------------------------------
(***************************************************************************)
(* Conversations and disputes. TalkStep and DeskMoves say what any step    *)
(* may do to the rows; every action is shown to be such a step once, and   *)
(* the conjuncts are then shown to survive it, whatever action it was.     *)
(***************************************************************************)

\* The beginning fits.
LEMMA TalkStart == DisputeInit => DisputeInv /\ OrdinaryMembersListen
<1>. SUFFICES ASSUME DisputeInit PROVE DisputeInv /\ OrdinaryMembersListen
  OBVIOUS
<1>. USE DEF DisputeInit, ChatInit
<1>1. ChatTypeOK
  <2>1. NoRow \in Memberships /\ [kind |-> "none", locked |-> FALSE] \in Conversations
    BY DEF NoRow, Memberships, Roles, Conversations
  <2>2. row \in [Convs -> [ChatUsers -> Memberships]]
    <3>. DEFINE empty == [u \in ChatUsers |-> NoRow]
    <3>1. empty \in [ChatUsers -> Memberships]
      BY <2>1
    <3>2. row = [c \in Convs |-> empty]
      OBVIOUS
    <3>. HIDE DEF empty
    <3>. QED
      BY <3>1, <3>2
  <2>3. request \in [Convs -> [ChatUsers -> RequestStates]]
    <3>. DEFINE empty == [u \in ChatUsers |-> "none"]
    <3>1. empty \in [ChatUsers -> RequestStates]
      BY DEF RequestStates
    <3>2. request = [c \in Convs |-> empty]
      OBVIOUS
    <3>. HIDE DEF empty
    <3>. QED
      BY <3>1, <3>2
  <2>4. ClosedSocket \in Consumers /\ NoFrame \in Frames
    BY DEF ClosedSocket, Consumers, Frames
  <2>5. sock \in [ChatSockets -> Consumers] /\ handler \in [ChatSockets -> Frames]
    BY <2>4
  <2>. QED
    BY <2>1, <2>2, <2>3, <2>5, FramesNat DEF ChatTypeOK
<1>2. \A c \in Convs, u \in ChatUsers : row[c][u] = NoRow
  OBVIOUS
<1>3. OwnersStay /\ FreshUnseated
  BY <1>2 DEF OwnersStay, FreshUnseated, Seated, NoRow
<1>4. ApprovedJoined
  BY DEF ApprovedJoined
<1>5. OnlyMembersHear
  BY DEF OnlyMembersHear, ClosedSocket
<1>6. UnreadCovered
  <2>1. \A c \in Convs, u \in ChatUsers : FromOthers(c, u) = {}
    BY DEF FromOthers
  <2>2. \A c \in Convs, u \in ChatUsers : row[c][u].unread = 0
    BY <1>2 DEF NoRow
  <2>3. Cardinality({}) = 0
    BY FS_EmptySet
  <2>. QED
    <3>1. \A c \in Convs, u \in ChatUsers : Cardinality(FromOthers(c, u)) = 0
      BY <2>1, <2>3
    <3>. QED
      BY <2>2, <3>1 DEF UnreadCovered
<1>7. FramesAimed
  BY DEF FramesAimed, Aimed, NoFrame
<1>8. DisputeTypeOK /\ CallsAimed /\ RoomsSeated
  BY DEF DisputeTypeOK, CallsAimed, RoomsSeated, DeskCalls, NoCall
<1>9. OrdinaryMembersListen
  BY DEF OrdinaryMembersListen, Listens, ClosedSocket
<1>. QED
  BY <1>1, <1>3, <1>4, <1>5, <1>6, <1>7, <1>8, <1>9 DEF DisputeInv, ChatInv

\* What a frame carries.
LEMMA FrameTypes ==
  ASSUME ChatTypeOK, NEW s \in ChatSockets
  PROVE  LET f == handler[s] IN
         /\ Me(s) \in ChatUsers
         /\ f.op = "direct" => f.who \in ChatUsers
         /\ f.op = "group" => f.who \subseteq ChatUsers
         /\ f.op \in {"announce", "answered"} => f.c \in Convs
         /\ f.op \in {"add", "seated", "tell"} => f.c \in Convs /\ f.who \subseteq ChatUsers
         /\ f.op = "remove" => f.c \in Convs /\ f.who \in ChatUsers /\ f.role \in Roles
         /\ f.op = "removing" => f.c \in Convs /\ f.who \in ChatUsers /\ f.heir \subseteq ChatUsers
         /\ f.op = "lock" => f.c \in Convs /\ f.to \in BOOLEAN
         /\ f.op \in {"send", "read", "join"} => f.c \in Convs
         /\ f.op \in {"delete", "edit"} => f.m \in Msgs
         /\ f.op \in {"approve", "reject", "promote"} => f.c \in Convs /\ f.who \in ChatUsers
<1>1. handler[s] \in Frames /\ Me(s) \in ChatUsers
  BY SocketsOwned DEF ChatTypeOK, Me
<1>. QED
  BY <1>1 DEF Frames, NoFrame

\* A frame that is accepted is one, and aimed at what is there.
LEMMA AskedFrames ==
  ASSUME ChatTypeOK, NEW s \in ChatSockets, FrameOf(s)
  PROVE  \/ \E f \in Frames : Ask(s, f) /\ Aimed(s, f)
         \/ \E c \in Convs, u \in ChatUsers : EndCall(s, c, u)
<1>. DEFINE Asked == \E f \in Frames : Ask(s, f) /\ Aimed(s, f)
<1>1. Me(s) \in ChatUsers
  BY SocketsOwned DEF Me
<1>2. ASSUME NEW u \in ChatUsers, AskDirect(s, u) PROVE Asked
  <2>1. CASE Ask(s, [op |-> "direct", who |-> u])
    <3>1. [op |-> "direct", who |-> u] \in Frames /\ Aimed(s, [op |-> "direct", who |-> u])
      BY DEF Frames, Aimed
    <3>. QED
      BY <2>1, <3>1
  <2>2. ASSUME NEW c \in Shared(Me(s), u), Ask(s, [op |-> "announce", c |-> c])
        PROVE  Asked
    <3>. DEFINE f == [op |-> "announce", c |-> c]
    <3>1. f \in Frames /\ Aimed(s, f)
      BY DEF Frames, Aimed, Shared, Seated, IsMember
    <3>. QED
      BY <2>2, <3>1
  <2>. QED
    BY <1>2, <2>1, <2>2 DEF AskDirect
<1>3. ASSUME NEW who \in SUBSET ChatUsers, AskGroup(s, who) PROVE Asked
  <2>1. [op |-> "group", who |-> who] \in Frames /\ Aimed(s, [op |-> "group", who |-> who])
    BY DEF Frames, Aimed
  <2>. QED
    BY <1>3, <2>1 DEF AskGroup
<1>4. ASSUME NEW c \in Convs, NEW who \in SUBSET ChatUsers, AskAdd(s, c, who) PROVE Asked
  <2>. DEFINE f == [op |-> "add", c |-> c, who |-> who]
  <2>1. ~Fresh(c)
    BY <1>4 DEF AskAdd, Group, Fresh
  <2>2. f \in Frames /\ Aimed(s, f)
    BY <2>1 DEF Frames, Aimed
  <2>. QED
    BY <1>4, <2>2 DEF AskAdd
<1>5. ASSUME NEW c \in Convs, NEW u \in ChatUsers, AskRemove(s, c, u) PROVE Asked
  <2>. DEFINE f == [op |-> "remove", c |-> c, who |-> u, role |-> row[c][u].role]
  <2>1. row[c][u].role \in Roles
    BY DEF ChatTypeOK, Memberships
  <2>2. f \in Frames
    BY <2>1 DEF Frames
  <2>3. Ordinate(c, u)
    BY <1>5 DEF AskRemove, MayRemove, Ordinate, Seated, IsMember
  <2>4. Aimed(s, f)
    BY <2>3 DEF Aimed
  <2>. QED
    BY <1>5, <2>2, <2>4 DEF AskRemove
<1>6. ASSUME NEW c \in Convs, AskLock(s, c) PROVE Asked
  <2>. DEFINE f == [op |-> "lock", c |-> c, to |-> ~conv[c].locked]
  <2>1. f \in Frames /\ Aimed(s, f)
    BY DEF Frames, Aimed
  <2>. QED
    BY <1>6, <2>1 DEF AskLock
<1>7. ASSUME NEW c \in Convs, AskSend(s, c) \/ AskRead(s, c) \/ AskJoin(s, c) PROVE Asked
  <2>1. \A op \in {"send", "read", "join"} : [op |-> op, c |-> c] \in Frames
    BY DEF Frames
  <2>2. \A op \in {"read", "join"} : Aimed(s, [op |-> op, c |-> c])
    BY DEF Aimed
  <2>3. AskSend(s, c) => Aimed(s, [op |-> "send", c |-> c])
    BY DEF Aimed, AskSend, Seated, IsMember
  <2>. QED
    BY <1>7, <2>1, <2>2, <2>3 DEF AskSend, AskRead, AskJoin
<1>8. ASSUME NEW m \in Msgs, AskDelete(s, m) \/ AskEdit(s, m) PROVE Asked
  <2>1. \A op \in {"delete", "edit"} : [op |-> op, m |-> m] \in Frames
    BY DEF Frames
  <2>2. msg[m] # NoMessage
    BY <1>8 DEF AskDelete, AskEdit, MayDelete, MayEdit
  <2>3. \A op \in {"delete", "edit"} : Aimed(s, [op |-> op, m |-> m])
    BY <2>2 DEF Aimed
  <2>. QED
    BY <1>8, <2>1, <2>3 DEF AskDelete, AskEdit
<1>9. ASSUME NEW c \in Convs, NEW u \in ChatUsers,
             \/ AskPromote(s, c, u)
             \/ \E op \in {"approve", "reject"} : AskProcess(s, op, c, u)
      PROVE  Asked
  <2>1. \A op \in {"approve", "reject", "promote"} : [op |-> op, c |-> c, who |-> u] \in Frames
    BY DEF Frames
  <2>2. AskPromote(s, c, u) => Ordinate(c, u)
    BY DEF AskPromote, MayPromote, Ordinate, Seated, IsMember
  <2>3. AskPromote(s, c, u) => Aimed(s, [op |-> "promote", c |-> c, who |-> u])
    BY <2>2 DEF Aimed
  <2>4. \A op \in {"approve", "reject"} : AskProcess(s, op, c, u) => ~Fresh(c)
    BY DEF AskProcess, MayProcess, Group, Fresh
  <2>5. \A op \in {"approve", "reject"} :
          AskProcess(s, op, c, u) => Aimed(s, [op |-> op, c |-> c, who |-> u])
    BY <2>4 DEF Aimed
  <2>. QED
    BY <1>9, <2>1, <2>3, <2>5 DEF AskPromote, AskProcess
<1>. HIDE DEF Asked
<1>10. Asked \/ \E c \in Convs, u \in ChatUsers : EndCall(s, c, u)
  BY <1>1, <1>2, <1>3, <1>4, <1>5, <1>6, <1>7, <1>8, <1>9 DEF FrameOf
<1>. QED
  BY <1>10 DEF Asked

\* A step of the chat keeps the types, one lemma per kind of step.
LEMMA TypeConnection ==
  ASSUME ChatTypeOK, NEW s \in ChatSockets, Connection(s)
  PROVE  ChatTypeOK'
<1>. USE DEF ChatTypeOK, tables
<1>1. Me(s) \in ChatUsers
  BY SocketsOwned DEF Me
<1>2. ClosedSocket \in Consumers
  BY DEF ClosedSocket, Consumers
<1>3. ASSUME NEW k \in Consumers, sock' = [sock EXCEPT ![s] = k],
             online' \subseteq ChatUsers, frames' \in 0 .. MaxFrames, UNCHANGED <<tables, handler>>
      PROVE  ChatTypeOK'
  BY <1>3
<1>4. CASE Open(s)
  <2>1. [sock[s] EXCEPT !.state = "opening"] \in Consumers
    BY DEF Consumers
  <2>2. frames' \in 0 .. MaxFrames
    BY <1>4, FramesNat DEF Open
  <2>. QED
    BY <1>3, <1>4, <2>1, <2>2 DEF Open
<1>6. CASE SetOnline(s)
  BY <1>1, <1>6 DEF SetOnline, Consumers
<1>7. CASE Disconnect(s)
  BY <1>2, <1>3, <1>7 DEF Disconnect
<1>8. CASE \E c \in Convs : Deliver(s, c)
  <2>1. PICK c \in Convs : Deliver(s, c)
    BY <1>8
  <2>2. [sock[s] EXCEPT !.mail = @ \ {c}, !.joined = @ \cup {c}] \in Consumers
    BY DEF Consumers
  <2>. QED
    BY <1>3, <2>1, <2>2 DEF Deliver
<1>9. CASE \E c \in Convs : AskListen(s, c)
  <2>1. PICK c \in Convs : AskListen(s, c)
    BY <1>9
  <2>2. [sock[s] EXCEPT !.joined = @ \cup {c}] \in Consumers
    BY DEF Consumers
  <2>3. frames' \in 0 .. MaxFrames
    BY <2>1, FramesNat DEF AskListen
  <2>. QED
    BY <1>3, <2>1, <2>2, <2>3 DEF AskListen
<1>. QED
  BY <1>4, <1>6, <1>7, <1>8, <1>9 DEF Connection

\* So does reading the conversations.
LEMMA TypeRead ==
  ASSUME ChatTypeOK, NEW s \in ChatSockets, ReadConversations(s)
  PROVE  ChatTypeOK'
<1>1. [sock[s] EXCEPT !.state = "joining", !.joined = ConversationsOf(Me(s))] \in Consumers
  <2>1. sock[s] \in Consumers /\ ConversationsOf(Me(s)) \subseteq Convs
    BY DEF ChatTypeOK, ConversationsOf
  <2>. QED
    BY <2>1 DEF Consumers
<1>2. sock' \in [ChatSockets -> Consumers]
  BY <1>1 DEF ReadConversations, ChatTypeOK
<1>. QED
  BY <1>2 DEF ReadConversations, ChatTypeOK, tables

\* A call of a socket keeps the types.
LEMMA TypeFrame ==
  ASSUME ChatTypeOK, NEW s \in ChatSockets, FrameOf(s)
  PROVE  ChatTypeOK'
<1>. USE FramesNat DEF ChatTypeOK, tables
<1>1. CASE \E f \in Frames : Ask(s, f)
  BY <1>1 DEF Ask
<1>2. CASE \E c \in Convs, u \in ChatUsers : EndCall(s, c, u)
  <2>1. Me(s) \in ChatUsers
    BY SocketsOwned DEF Me
  <2>. QED
    BY <1>2, <2>1 DEF EndCall
<1>. QED
  BY <1>1, <1>2, AskedFrames

-----------------------------------------------------------------------------
(* What a step may do to each row *)

\* A membership: read, written to, left, made an admin's, or new in a
\* conversation.  An owner's is new only with the conversation.
RowMoves(c, u) ==
  \/ row'[c][u] = row[c][u]
  \/ row'[c][u] = [row[c][u] EXCEPT !.unread = 0]
  \/ /\ Seated(c, u)
     /\ \E m \in Msgs : m \notin FromOthers(c, u) /\ m \in FromOthers(c, u)'
     /\ row'[c][u] = [row[c][u] EXCEPT !.unread = @ + 1]
  \/ Ordinate(c, u) /\ row'[c][u] = [row[c][u] EXCEPT !.state = "left"]
  \/ Ordinate(c, u) /\ row'[c][u] = [row[c][u] EXCEPT !.role = "admin"]
  \/ /\ ~Seated(c, u) /\ ~Fresh(c)'
     /\ \E role \in Roles :
          /\ row'[c][u] = MemberAs(role)
          /\ role = "owner" => /\ Fresh(c)
                               /\ \A v \in ChatUsers : row'[c][v].role = "owner" => v = u

RequestMoves(c, u) ==
  \/ request'[c][u] = request[c][u]
  \/ request[c][u] = "none" /\ request'[c][u] = "pending"
  \/ request'[c][u] = "rejected"
  \/ request'[c][u] = "approved" /\ Seated(c, u)'

MessageMoves(m) ==
  \/ msg'[m] = msg[m]
  \/ msg[m] = NoMessage /\ msg'[m] # NoMessage /\ Seated(msg'[m].conv, msg'[m].sender)
  \/ /\ msg[m] # NoMessage /\ msg'[m] # NoMessage
     /\ msg'[m].conv = msg[m].conv /\ msg'[m].sender = msg[m].sender
     /\ msg[m].deleted => msg'[m].deleted

KindMoves(c) == conv'[c].kind = conv[c].kind \/ Fresh(c)

TalkStep ==
  /\ ChatTypeOK'
  /\ \A c \in Convs, u \in ChatUsers : RowMoves(c, u) /\ RequestMoves(c, u)
  /\ \A m \in Msgs : MessageMoves(m)
  /\ \A c \in Convs : KindMoves(c)

\* A step that leaves the tables alone moves no row.
LEMMA QuietStep ==
  ASSUME UNCHANGED tables, ChatTypeOK'
  PROVE  TalkStep
BY DEF TalkStep, RowMoves, RequestMoves, MessageMoves, KindMoves, tables

\* Memberships that are given are typed.
LEMMA SeatsTyped ==
  \A role \in Roles : MemberAs(role) \in Memberships
BY DEF MemberAs, Memberships

\* One conversation's rows are written anew.
LEMMA RowsWritten ==
  ASSUME ChatTypeOK, NEW c \in Convs, NEW line \in [ChatUsers -> Memberships],
         row' = [row EXCEPT ![c] = line]
  PROVE  /\ row' \in [Convs -> [ChatUsers -> Memberships]]
         /\ row'[c] = line
         /\ \A d \in Convs \ {c}, u \in ChatUsers : RowMoves(d, u)
BY DEF ChatTypeOK, RowMoves

\* A call that goes on to tell a room is typed.
LEMMA TellTyped ==
  ASSUME ChatTypeOK, NEW s \in ChatSockets, NEW c \in Convs, NEW who \in SUBSET ChatUsers,
         \/ Announced(s, c)
         \/ TellThem(s, c, who)
  PROVE  handler' \in [ChatSockets -> Frames]
<1>1. [op |-> "announce", c |-> c] \in Frames /\ [op |-> "seated", c |-> c, who |-> who] \in Frames
  BY DEF Frames
<1>. QED
  BY <1>1 DEF Announced, TellThem, Onto, ChatTypeOK

\* A call that is answered is typed.
LEMMA ReplyTyped ==
  ASSUME ChatTypeOK, NEW s \in ChatSockets, Reply(s)
  PROVE  handler' \in [ChatSockets -> Frames]
BY DEF ChatTypeOK, Reply, Onto, Frames

\* A socket that drops moves no row.
LEMMA DropStep ==
  ASSUME ChatTypeOK, NEW s \in ChatSockets, DropSocket(s)
  PROVE  TalkStep
<1>1. ClosedSocket \in Consumers
  BY DEF ClosedSocket, Consumers
<1>2. ChatTypeOK'
  BY <1>1, ReplyTyped DEF DropSocket, ChatTypeOK, tables
<1>. QED
  BY <1>2, QuietStep DEF DropSocket

\* A conversation and its first members, of which one may be the owner.
LEMMA FoundingStep ==
  ASSUME ChatTypeOK, FreshUnseated, OwnersStay, NEW c \in Convs, Fresh(c),
         NEW kind \in {"direct", "group"}, NEW founder \in ChatUsers,
         NEW role \in {"member", "owner"}, NEW others \in SUBSET ChatUsers,
         conv' = [conv EXCEPT ![c].kind = kind],
         row' = [row EXCEPT ![c] = [u \in ChatUsers |->
                   IF u = founder THEN MemberAs(role)
                   ELSE IF u \in others THEN MemberAs("member") ELSE row[c][u]]],
         handler' \in [ChatSockets -> Frames],
         UNCHANGED <<request, msg, calls, sock, online, frames>>
  PROVE  TalkStep
<1>. DEFINE line == [u \in ChatUsers |-> IF u = founder THEN MemberAs(role)
                       ELSE IF u \in others THEN MemberAs("member") ELSE row[c][u]]
<1>1. row \in [Convs -> [ChatUsers -> Memberships]] /\ conv \in [Convs -> Conversations]
  BY DEF ChatTypeOK
<1>2. line \in [ChatUsers -> Memberships]
  BY <1>1, SeatsTyped DEF Roles
<1>3. conv' \in [Convs -> Conversations] /\ ~Fresh(c)' /\ \A d \in Convs : KindMoves(d)
  BY <1>1 DEF Conversations, Fresh, KindMoves
<1>4. /\ row' \in [Convs -> [ChatUsers -> Memberships]]
      /\ row'[c] = line
      /\ \A d \in Convs \ {c}, u \in ChatUsers : RowMoves(d, u)
  <2>1. row' = [row EXCEPT ![c] = line]
    OBVIOUS
  <2>. HIDE DEF line
  <2>. QED
    BY <1>2, <2>1, RowsWritten
<1>5. \A u \in ChatUsers : ~Seated(c, u) /\ row[c][u].role # "owner"
  BY DEF FreshUnseated, OwnersStay, IsMember, Seated
<1>6. \A v \in ChatUsers : row'[c][v].role = "owner" => v = founder
  BY <1>4, <1>5 DEF MemberAs
<1>7. ASSUME NEW u \in ChatUsers PROVE RowMoves(c, u)
  <2>1. CASE u = founder
    <3>1. row'[c][u] = MemberAs(role) /\ role \in Roles
      BY <1>4, <2>1 DEF Roles
    <3>. QED
      BY <1>3, <1>5, <1>6, <2>1, <3>1 DEF RowMoves
  <2>2. CASE u # founder /\ u \in others
    <3>1. row'[c][u] = MemberAs("member") /\ "member" \in Roles
      BY <1>4, <2>2 DEF Roles
    <3>. QED
      BY <1>3, <1>5, <3>1 DEF RowMoves
  <2>3. CASE u # founder /\ u \notin others
    BY <1>4, <2>3 DEF RowMoves
  <2>. QED
    BY <2>1, <2>2, <2>3
<1>8. ChatTypeOK'
  BY <1>3, <1>4 DEF ChatTypeOK
<1>. QED
  BY <1>3, <1>4, <1>7, <1>8 DEF TalkStep, RequestMoves, MessageMoves

\* A direct conversation that is founded moves rows as TalkStep allows.
LEMMA DirectStep ==
  ASSUME ChatInv, NEW s \in ChatSockets, DoDirect(s)
  PROVE  TalkStep
<1>1. ChatTypeOK /\ FreshUnseated /\ OwnersStay /\ Me(s) \in ChatUsers /\ handler[s].who \in ChatUsers
  BY FrameTypes DEF ChatInv, DoDirect, Handles
<1>2. PICK c \in Convs :
        /\ Fresh(c)
        /\ conv' = [conv EXCEPT ![c].kind = "direct"]
        /\ row' = [row EXCEPT ![c] = [u \in ChatUsers |->
                     IF u \in {Me(s), handler[s].who} THEN MemberAs("member") ELSE row[c][u]]]
        /\ Announced(s, c)
  BY <1>1 DEF DoDirect, ChatTypeOK
<1>3. [u \in ChatUsers |-> IF u \in {Me(s), handler[s].who} THEN MemberAs("member") ELSE row[c][u]]
      = [u \in ChatUsers |-> IF u = Me(s) THEN MemberAs("member")
                             ELSE IF u \in {handler[s].who} THEN MemberAs("member") ELSE row[c][u]]
  OBVIOUS
<1>4. handler' \in [ChatSockets -> Frames]
  BY <1>1, <1>2, TellTyped
<1>5. UNCHANGED <<request, msg, calls, sock, online, frames>>
  BY DEF DoDirect
<1>6. row' = [row EXCEPT ![c] = [u \in ChatUsers |->
                IF u = Me(s) THEN MemberAs("member")
                ELSE IF u \in {handler[s].who} THEN MemberAs("member") ELSE row[c][u]]]
  BY <1>2, <1>3
<1>7. {handler[s].who} \in SUBSET ChatUsers
  BY <1>1
<1>. QED
  BY <1>1, <1>2, <1>4, <1>5, <1>6, <1>7, FoundingStep

\* So does a group.
LEMMA GroupStep ==
  ASSUME ChatInv, NEW s \in ChatSockets, DoGroup(s)
  PROVE  TalkStep
<1>1. ChatTypeOK /\ FreshUnseated /\ OwnersStay /\ Me(s) \in ChatUsers /\ handler[s].who \in SUBSET ChatUsers
  BY FrameTypes DEF ChatInv, DoGroup, Handles
<1>2. PICK c \in Convs :
        /\ Fresh(c)
        /\ conv' = [conv EXCEPT ![c].kind = "group"]
        /\ row' = [row EXCEPT ![c] = [u \in ChatUsers |->
                     IF u = Me(s) THEN MemberAs("owner")
                     ELSE IF u \in handler[s].who THEN MemberAs("member") ELSE row[c][u]]]
        /\ Announced(s, c)
  BY <1>1 DEF DoGroup, ChatTypeOK
<1>3. handler' \in [ChatSockets -> Frames]
  BY <1>1, <1>2, TellTyped
<1>4. UNCHANGED <<request, msg, calls, sock, online, frames>>
  BY DEF DoGroup
<1>. QED
  BY <1>1, <1>2, <1>3, <1>4, FoundingStep

\* Rows of one conversation that all move, and nothing else of the tables.
LEMMA SeatingStep ==
  ASSUME ChatTypeOK, NEW c \in Convs, NEW line \in [ChatUsers -> Memberships],
         row' = [row EXCEPT ![c] = line],
         \A u \in ChatUsers : RowMoves(c, u),
         \A m \in Msgs : MessageMoves(m),
         msg' \in [Msgs -> Messages \cup {NoMessage}],
         handler' \in [ChatSockets -> Frames],
         UNCHANGED <<conv, request, calls, sock, online, frames>>
  PROVE  TalkStep
<1>1. /\ row' \in [Convs -> [ChatUsers -> Memberships]]
      /\ \A d \in Convs \ {c}, u \in ChatUsers : RowMoves(d, u)
  BY RowsWritten
<1>2. ChatTypeOK'
  BY <1>1 DEF ChatTypeOK
<1>. QED
  BY <1>1, <1>2 DEF TalkStep, RequestMoves, KindMoves

\* So does a member who is added.
LEMMA AddStep ==
  ASSUME ChatInv, NEW s \in ChatSockets, DoAdd(s)
  PROVE  TalkStep
<1>. DEFINE f == handler[s]
<1>1. ChatTypeOK /\ f.op = "add" /\ f.c \in Convs /\ f.who \subseteq ChatUsers
  BY FrameTypes DEF ChatInv, DoAdd, Handles
<1>2. PICK c \in Convs : c = f.c
  BY <1>1
<1>3. CASE \A u \in f.who : row[c][u].state = "none"
  <2>. DEFINE line == [u \in ChatUsers |-> IF u \in f.who THEN MemberAs("member") ELSE row[c][u]]
  <2>1. row \in [Convs -> [ChatUsers -> Memberships]] /\ "member" \in Roles
    BY <1>1 DEF ChatTypeOK, Roles
  <2>2. line \in [ChatUsers -> Memberships]
    BY <1>1, <2>1, SeatsTyped
  <2>3. row' = [row EXCEPT ![c] = line] /\ TellThem(s, c, f.who)
        /\ UNCHANGED <<conv, request, msg, calls, sock, online, frames>>
    BY <1>1, <1>2, <1>3, <2>1 DEF DoAdd, Insertable
  <2>4. handler' \in [ChatSockets -> Frames]
    BY <1>1, <2>3, TellTyped
  <2>5. Aimed(s, f)
    BY DEF ChatInv, FramesAimed
  <2>6. ~Fresh(c)'
    BY <1>1, <1>2, <2>3, <2>5 DEF Aimed, Fresh
  <2>7. \A u \in ChatUsers : row'[c][u] = line[u]
    BY <1>1, <2>1, <2>3
  <2>8. ASSUME NEW u \in ChatUsers PROVE RowMoves(c, u)
    <3>1. CASE u \in f.who
      <4>1. row'[c][u] = MemberAs("member") /\ ~Seated(c, u)
        BY <1>3, <2>7, <3>1 DEF Seated
      <4>. QED
        BY <2>1, <2>6, <4>1 DEF RowMoves
    <3>2. CASE u \notin f.who
      BY <2>7, <3>2 DEF RowMoves
    <3>. QED
      BY <3>1, <3>2
  <2>9. msg' \in [Msgs -> Messages \cup {NoMessage}] /\ \A m \in Msgs : MessageMoves(m)
    BY <1>1, <2>3 DEF ChatTypeOK, MessageMoves
  <2>. HIDE DEF line
  <2>. QED
    BY <1>1, <2>2, <2>3, <2>4, <2>8, <2>9, SeatingStep
<1>4. CASE ~ \A u \in f.who : row[c][u].state = "none"
  BY <1>1, <1>2, <1>4, DropStep DEF DoAdd, Insertable
<1>. QED
  BY <1>3, <1>4

\* A removal takes the seat of somebody who is not the owner.
LEMMA Removals ==
  ASSUME ChatInv, NEW s \in ChatSockets, DoRemove(s)
  PROVE  \E c \in Convs, gone \in ChatUsers, heir \in SUBSET ChatUsers :
           /\ row' = Without(c, gone, heir)
           /\ Ordinate(c, gone) /\ \A u \in heir : Ordinate(c, u)
<1>. DEFINE f == handler[s]
<1>0. Aimed(s, f)
  BY DEF ChatInv, FramesAimed
<1>1. CASE Handles(s, "remove")
  <2>1. f.c \in Convs /\ f.who \in ChatUsers
    BY <1>1, FrameTypes DEF ChatInv, Handles
  <2>2. row' = Without(f.c, f.who, {}) /\ Ordinate(f.c, f.who)
    BY <1>0, <1>1 DEF DoRemove, Handles, Aimed
  <2>. QED
    BY <2>1, <2>2
<1>2. CASE Handles(s, "removing")
  <2>1. f.c \in Convs /\ f.who \in ChatUsers /\ f.heir \in SUBSET ChatUsers
    BY <1>2, FrameTypes DEF ChatInv, Handles
  <2>2. row' = Without(f.c, f.who, f.heir) /\ Ordinate(f.c, f.who)
        /\ \A u \in f.heir : Ordinate(f.c, u)
    BY <1>0, <1>2 DEF DoRemove, Handles, Aimed
  <2>. QED
    BY <2>1, <2>2
<1>. QED
  BY <1>1, <1>2 DEF DoRemove

\* So does one who is removed.
LEMMA RemovalStep ==
  ASSUME ChatInv, NEW s \in ChatSockets, DoRemove(s)
  PROVE  TalkStep
<1>1. PICK c \in Convs, gone \in ChatUsers, heir \in SUBSET ChatUsers :
        /\ row' = Without(c, gone, heir)
        /\ Ordinate(c, gone) /\ \A u \in heir : Ordinate(c, u)
  BY Removals
<1>. DEFINE line == [v \in ChatUsers |->
              IF v = gone THEN [row[c][v] EXCEPT !.state = "left"]
              ELSE IF v \in heir THEN [row[c][v] EXCEPT !.role = "admin"] ELSE row[c][v]]
<1>2. ChatTypeOK /\ row \in [Convs -> [ChatUsers -> Memberships]]
  BY DEF ChatInv, ChatTypeOK
<1>3. line \in [ChatUsers -> Memberships]
  <2>1. ASSUME NEW v \in ChatUsers
        PROVE  /\ [row[c][v] EXCEPT !.state = "left"] \in Memberships
               /\ [row[c][v] EXCEPT !.role = "admin"] \in Memberships
               /\ row[c][v] \in Memberships
    <3>1. row[c][v] \in Memberships
      BY <1>2
    <3>. QED
      BY <3>1 DEF Memberships, Roles
  <2>. QED
    BY <2>1
<1>4. row' = [row EXCEPT ![c] = line]
  BY <1>1, <1>2 DEF Without
<1>5. \A u \in ChatUsers : row'[c][u] = line[u]
  BY <1>2, <1>4
<1>6. ASSUME NEW u \in ChatUsers PROVE RowMoves(c, u)
  BY <1>1, <1>5 DEF RowMoves
<1>7. UNCHANGED <<conv, request, msg, calls, sock, online, frames>> /\ handler' \in [ChatSockets -> Frames]
  BY <1>2, ReplyTyped DEF DoRemove
<1>8. msg' \in [Msgs -> Messages \cup {NoMessage}] /\ \A m \in Msgs : MessageMoves(m)
  BY <1>2, <1>7 DEF ChatTypeOK, MessageMoves
<1>. HIDE DEF line
<1>. QED
  BY <1>2, <1>3, <1>4, <1>6, <1>7, <1>8, SeatingStep

\* So does a message.
LEMMA SendStep ==
  ASSUME ChatInv, NEW s \in ChatSockets, DoSend(s)
  PROVE  TalkStep
<1>1. PICK c \in Convs, m \in Msgs :
        /\ Seated(c, Me(s)) /\ msg[m] = NoMessage
        /\ msg' = [msg EXCEPT ![m] = [conv |-> c, sender |-> Me(s), deleted |-> FALSE, text |-> "sent"]]
        /\ row' = [row EXCEPT ![c] = [u \in ChatUsers |->
                     IF u # Me(s) /\ row[c][u].state # "none"
                     THEN [row[c][u] EXCEPT !.unread = @ + 1] ELSE row[c][u]]]
  <2>1. handler[s].c \in Convs /\ Seated(handler[s].c, Me(s))
    BY FrameTypes DEF ChatInv, FramesAimed, Aimed, DoSend, Handles
  <2>2. PICK c \in Convs : c = handler[s].c
    BY <2>1
  <2>3. row \in [Convs -> [ChatUsers -> Memberships]]
    BY DEF ChatInv, ChatTypeOK
  <2>4. row' = [row EXCEPT ![c] = [u \in ChatUsers |->
                  IF u # Me(s) /\ row[c][u].state # "none"
                  THEN [row[c][u] EXCEPT !.unread = @ + 1] ELSE row[c][u]]]
    <3>1. c \in DOMAIN row /\ DOMAIN row[c] = ChatUsers
      BY <2>3
    <3>. QED
      BY <2>2, <3>1 DEF DoSend, Seated
  <2>5. PICK m \in Msgs :
          /\ msg[m] = NoMessage
          /\ msg' = [msg EXCEPT ![m] = [conv |-> c, sender |-> Me(s), deleted |-> FALSE, text |-> "sent"]]
    BY <2>2 DEF DoSend
  <2>. QED
    BY <2>1, <2>2, <2>4, <2>5
<1>. DEFINE line == [u \in ChatUsers |-> IF u # Me(s) /\ row[c][u].state # "none"
                       THEN [row[c][u] EXCEPT !.unread = @ + 1] ELSE row[c][u]]
            new == [conv |-> c, sender |-> Me(s), deleted |-> FALSE, text |-> "sent"]
<1>2. ChatTypeOK /\ row \in [Convs -> [ChatUsers -> Memberships]] /\ Me(s) \in ChatUsers
      /\ msg \in [Msgs -> Messages \cup {NoMessage}]
  BY FrameTypes DEF ChatInv, ChatTypeOK
<1>3. new \in Messages /\ new # NoMessage
  BY <1>2 DEF Messages, NoMessage
<1>4. line \in [ChatUsers -> Memberships]
  <2>1. ASSUME NEW v \in ChatUsers
        PROVE  [row[c][v] EXCEPT !.unread = @ + 1] \in Memberships /\ row[c][v] \in Memberships
    <3>1. row[c][v] \in Memberships
      BY <1>2
    <3>. QED
      BY <3>1 DEF Memberships
  <2>. QED
    BY <2>1
<1>5. msg' \in [Msgs -> Messages \cup {NoMessage}] /\ msg'[m] = new
  BY <1>1, <1>2, <1>3
<1>6. \A u \in ChatUsers : row'[c][u] = line[u]
  BY <1>1, <1>2
<1>7. ASSUME NEW u \in ChatUsers PROVE RowMoves(c, u)
  <2>1. CASE u # Me(s) /\ Seated(c, u)
    <3>1. m \notin FromOthers(c, u) /\ m \in FromOthers(c, u)'
      BY <1>1, <1>3, <1>5, <2>1 DEF FromOthers
    <3>2. row'[c][u] = [row[c][u] EXCEPT !.unread = @ + 1]
      BY <1>6, <2>1 DEF Seated
    <3>. QED
      BY <2>1, <3>1, <3>2 DEF RowMoves
  <2>2. CASE ~(u # Me(s) /\ Seated(c, u))
    BY <1>6, <2>2 DEF RowMoves, Seated
  <2>. QED
    BY <2>1, <2>2
<1>8. ASSUME NEW n \in Msgs PROVE MessageMoves(n)
  BY <1>1, <1>2, <1>3, <1>5 DEF MessageMoves
<1>9. UNCHANGED <<conv, request, calls, sock, online, frames>> /\ handler' \in [ChatSockets -> Frames]
  BY <1>2, ReplyTyped DEF DoSend
<1>10. row' = [row EXCEPT ![c] = line]
  BY <1>1
<1>. HIDE DEF line
<1>. QED
  BY <1>2, <1>4, <1>5, <1>7, <1>8, <1>9, <1>10, SeatingStep

\* So does reading.
LEMMA ReadStep ==
  ASSUME ChatInv, NEW s \in ChatSockets, DoRead(s)
  PROVE  TalkStep
<1>1. ChatTypeOK /\ row \in [Convs -> [ChatUsers -> Memberships]] /\ Me(s) \in ChatUsers
  BY FrameTypes DEF ChatInv, ChatTypeOK
<1>2. PICK c \in Convs : row' = [row EXCEPT ![c][Me(s)].unread = 0]
  BY FrameTypes DEF ChatInv, DoRead, Handles
<1>. DEFINE line == [row[c] EXCEPT ![Me(s)].unread = 0]
<1>3. [row[c][Me(s)] EXCEPT !.unread = 0] \in Memberships
  <2>1. row[c][Me(s)] \in Memberships
    BY <1>1
  <2>. QED
    BY <2>1 DEF Memberships
<1>4. line \in [ChatUsers -> Memberships]
  BY <1>1, <1>3
<1>5. row' = [row EXCEPT ![c] = line] /\ \A u \in ChatUsers : row'[c][u] = line[u]
  BY <1>1, <1>2
<1>6. ASSUME NEW u \in ChatUsers PROVE RowMoves(c, u)
  BY <1>1, <1>5 DEF RowMoves
<1>7. UNCHANGED <<conv, request, msg, calls, sock, online, frames>> /\ handler' \in [ChatSockets -> Frames]
  BY <1>1, ReplyTyped DEF DoRead
<1>8. msg' \in [Msgs -> Messages \cup {NoMessage}] /\ \A m \in Msgs : MessageMoves(m)
  BY <1>1, <1>7 DEF ChatTypeOK, MessageMoves
<1>. HIDE DEF line
<1>. QED
  BY <1>1, <1>4, <1>5, <1>6, <1>7, <1>8, SeatingStep

\* So does a promotion.
LEMMA PromotionStep ==
  ASSUME ChatInv, NEW s \in ChatSockets, DoPromote(s)
  PROVE  TalkStep
<1>1. ChatTypeOK /\ row \in [Convs -> [ChatUsers -> Memberships]]
  BY FrameTypes DEF ChatInv, ChatTypeOK
<1>2. PICK c \in Convs, to \in ChatUsers :
        row' = [row EXCEPT ![c][to].role = "admin"] /\ Ordinate(c, to)
  <2>1. handler[s].c \in Convs /\ handler[s].who \in ChatUsers
    BY FrameTypes DEF ChatInv, DoPromote, Handles
  <2>. QED
    BY <2>1 DEF DoPromote, Handles, ChatInv, FramesAimed, Aimed
<1>. DEFINE line == [row[c] EXCEPT ![to].role = "admin"]
<1>3. [row[c][to] EXCEPT !.role = "admin"] \in Memberships
  <2>1. row[c][to] \in Memberships
    BY <1>1
  <2>. QED
    BY <2>1 DEF Memberships, Roles
<1>4. line \in [ChatUsers -> Memberships]
  BY <1>1, <1>3
<1>5. row' = [row EXCEPT ![c] = line] /\ \A u \in ChatUsers : row'[c][u] = line[u]
  BY <1>1, <1>2
<1>6. ASSUME NEW u \in ChatUsers PROVE RowMoves(c, u)
  BY <1>1, <1>2, <1>5 DEF RowMoves
<1>7. UNCHANGED <<conv, request, msg, calls, sock, online, frames>> /\ handler' \in [ChatSockets -> Frames]
  BY <1>1, ReplyTyped DEF DoPromote
<1>8. msg' \in [Msgs -> Messages \cup {NoMessage}] /\ \A m \in Msgs : MessageMoves(m)
  BY <1>1, <1>7 DEF ChatTypeOK, MessageMoves
<1>. HIDE DEF line
<1>. QED
  BY <1>1, <1>4, <1>5, <1>6, <1>7, <1>8, SeatingStep

\* Rows of messages alone.
LEMMA MessageStep ==
  ASSUME ChatInv, NEW s \in ChatSockets, DoDelete(s) \/ DoEdit(s)
  PROVE  TalkStep
<1>1. ChatTypeOK /\ msg \in [Msgs -> Messages \cup {NoMessage}]
  BY DEF ChatInv, ChatTypeOK
<1>2. PICK m \in Msgs, text \in {"cleared", "edited"} :
        /\ msg[m] # NoMessage
        /\ \/ msg' = [msg EXCEPT ![m].text = text, ![m].deleted = TRUE]
           \/ msg' = [msg EXCEPT ![m].text = text]
  <2>1. handler[s].m \in Msgs /\ msg[handler[s].m] # NoMessage
    BY FrameTypes DEF ChatInv, FramesAimed, Aimed, DoDelete, DoEdit, Handles
  <2>. QED
    BY <2>1 DEF DoDelete, DoEdit
<1>3. msg[m] \in Messages
  BY <1>1, <1>2
<1>4. msg'[m] \in Messages /\ \A n \in Msgs \ {m} : msg'[n] = msg[n]
  BY <1>1, <1>2, <1>3 DEF Messages
<1>5. /\ msg'[m].conv = msg[m].conv /\ msg'[m].sender = msg[m].sender
      /\ msg[m].deleted => msg'[m].deleted
  BY <1>1, <1>2, <1>3 DEF Messages
<1>6. msg' \in [Msgs -> Messages \cup {NoMessage}]
  BY <1>1, <1>2, <1>4
<1>7. msg'[m] # NoMessage
  BY <1>4 DEF Messages, NoMessage
<1>8. ASSUME NEW n \in Msgs PROVE MessageMoves(n)
  BY <1>2, <1>4, <1>5, <1>7 DEF MessageMoves
<1>9. UNCHANGED <<conv, row, request, calls, sock, online, frames>> /\ handler' \in [ChatSockets -> Frames]
  BY <1>1, ReplyTyped DEF DoDelete, DoEdit
<1>10. ChatTypeOK'
  BY <1>1, <1>6, <1>9 DEF ChatTypeOK
<1>. QED
  BY <1>8, <1>9, <1>10 DEF TalkStep, RowMoves, RequestMoves, KindMoves

\* So does a lock.
LEMMA LockStep ==
  ASSUME ChatInv, NEW s \in ChatSockets, DoLock(s)
  PROVE  TalkStep
<1>1. ChatTypeOK /\ conv \in [Convs -> Conversations]
  BY DEF ChatInv, ChatTypeOK
<1>2. PICK c \in Convs, to \in BOOLEAN : conv' = [conv EXCEPT ![c].locked = to]
  BY FrameTypes DEF ChatInv, DoLock, Handles
<1>3. conv' \in [Convs -> Conversations] /\ \A d \in Convs : KindMoves(d)
  BY <1>1, <1>2 DEF Conversations, KindMoves
<1>4. UNCHANGED <<row, request, msg, calls, sock, online, frames>> /\ handler' \in [ChatSockets -> Frames]
  BY <1>1, ReplyTyped DEF DoLock
<1>5. ChatTypeOK'
  BY <1>1, <1>3, <1>4 DEF ChatTypeOK
<1>. QED
  BY <1>3, <1>4, <1>5 DEF TalkStep, RowMoves, RequestMoves, MessageMoves

\* Requests alone.
LEMMA RequestStep ==
  ASSUME ChatInv, NEW s \in ChatSockets, DoJoin(s) \/ DoReject(s)
  PROVE  TalkStep
<1>1. ChatTypeOK /\ request \in [Convs -> [ChatUsers -> RequestStates]] /\ Me(s) \in ChatUsers
  BY FrameTypes DEF ChatInv, ChatTypeOK
<1>2. CASE DropSocket(s)
  BY <1>1, <1>2, DropStep
<1>3. CASE ~DropSocket(s)
  <2>1. PICK c \in Convs, u \in ChatUsers, to \in {"pending", "rejected"} :
          /\ request' = [request EXCEPT ![c][u] = to]
          /\ to = "rejected" \/ request[c][u] = "none"
    <3>1. CASE DoJoin(s)
      BY <1>1, <1>3, <3>1, FrameTypes DEF DoJoin, Handles
    <3>2. CASE DoReject(s)
      BY <1>1, <1>3, <3>2, FrameTypes DEF DoReject, Handles
    <3>. QED
      BY <3>1, <3>2
  <2>2. request' \in [Convs -> [ChatUsers -> RequestStates]]
    BY <1>1, <2>1 DEF RequestStates
  <2>3. \A d \in Convs, v \in ChatUsers : RequestMoves(d, v)
    BY <1>1, <2>1 DEF RequestMoves
  <2>4. UNCHANGED <<conv, row, msg, calls, sock, online, frames>> /\ handler' \in [ChatSockets -> Frames]
    BY <1>1, <1>3, ReplyTyped DEF DoJoin, DoReject
  <2>5. ChatTypeOK'
    BY <1>1, <2>2, <2>4 DEF ChatTypeOK
  <2>. QED
    BY <2>3, <2>4, <2>5 DEF TalkStep, RowMoves, MessageMoves, KindMoves
<1>. QED
  BY <1>2, <1>3

\* One user without a row gets one.
LEMMA NewSeat ==
  ASSUME ChatTypeOK, NEW c \in Convs, NEW u \in ChatUsers, NEW role \in {"member", "admin"},
         row' = [row EXCEPT ![c][u] = MemberAs(role)],
         ~Seated(c, u), ~Fresh(c)'
  PROVE  /\ row' \in [Convs -> [ChatUsers -> Memberships]]
         /\ \A d \in Convs, v \in ChatUsers : RowMoves(d, v)
         /\ Seated(c, u)'
<1>1. row \in [Convs -> [ChatUsers -> Memberships]] /\ role \in Roles
  BY DEF ChatTypeOK, Roles
<1>. DEFINE line == [row[c] EXCEPT ![u] = MemberAs(role)]
<1>2. line \in [ChatUsers -> Memberships]
  BY <1>1, SeatsTyped
<1>3. row' = [row EXCEPT ![c] = line] /\ \A v \in ChatUsers : row'[c][v] = line[v]
  BY <1>1
<1>4. ASSUME NEW v \in ChatUsers PROVE RowMoves(c, v)
  BY <1>1, <1>3 DEF RowMoves
<1>5. row'[c][u].state # "none"
  BY <1>1, <1>3 DEF MemberAs
<1>6. Seated(c, u)'
  BY <1>5 DEF Seated
<1>. HIDE DEF line
<1>7. /\ row' \in [Convs -> [ChatUsers -> Memberships]]
      /\ \A d \in Convs \ {c}, v \in ChatUsers : RowMoves(d, v)
  BY <1>2, <1>3, RowsWritten
<1>. QED
  BY <1>4, <1>6, <1>7

\* So does an approval.
LEMMA ApprovalStep ==
  ASSUME ChatInv, NEW s \in ChatSockets, DoApprove(s)
  PROVE  TalkStep
<1>1. ChatTypeOK /\ request \in [Convs -> [ChatUsers -> RequestStates]]
  BY FrameTypes DEF ChatInv, ChatTypeOK
<1>2. PICK c \in Convs, u \in ChatUsers : c = handler[s].c /\ u = handler[s].who
  BY <1>1, FrameTypes DEF DoApprove, Handles
<1>3. CASE row[c][u].state = "none"
  <2>1. /\ row' = [row EXCEPT ![c][u] = MemberAs("member")]
        /\ request' = [request EXCEPT ![c][u] = "approved"]
        /\ TellThem(s, c, {u})
        /\ UNCHANGED <<conv, msg, calls, sock, online, frames>>
    BY <1>2, <1>3 DEF DoApprove, Insertable
  <2>2. ~Fresh(c)'
    <3>1. Aimed(s, handler[s]) /\ handler[s].op = "approve"
      BY DEF ChatInv, FramesAimed, DoApprove, Handles
    <3>. QED
      BY <1>2, <2>1, <3>1 DEF Aimed, Fresh
  <2>3. /\ row' \in [Convs -> [ChatUsers -> Memberships]]
        /\ \A d \in Convs, v \in ChatUsers : RowMoves(d, v)
        /\ Seated(c, u)'
    BY <1>1, <1>3, <2>1, <2>2, NewSeat DEF Seated
  <2>4. handler' \in [ChatSockets -> Frames]
    BY <1>1, <2>1, TellTyped
  <2>5. request' \in [Convs -> [ChatUsers -> RequestStates]]
    BY <1>1, <2>1 DEF RequestStates
  <2>6. \A d \in Convs, v \in ChatUsers : RequestMoves(d, v)
    BY <1>1, <2>1, <2>3 DEF RequestMoves
  <2>7. ChatTypeOK'
    BY <1>1, <2>1, <2>3, <2>4, <2>5 DEF ChatTypeOK
  <2>. QED
    BY <2>1, <2>3, <2>6, <2>7 DEF TalkStep, MessageMoves, KindMoves
<1>4. CASE row[c][u].state # "none"
  BY <1>1, <1>2, <1>4, DropStep DEF DoApprove, Insertable
<1>. QED
  BY <1>3, <1>4

\* Looking for an heir moves no row.
LEMMA HeirStep ==
  ASSUME ChatInv, NEW s \in ChatSockets, FindHeir(s)
  PROVE  TalkStep
<1>. DEFINE f == handler[s]
<1>1. ChatTypeOK /\ f.c \in Convs /\ f.who \in ChatUsers
  BY FrameTypes DEF ChatInv, FindHeir, Handles
<1>2. \A heir \in Heirs(f) : heir \subseteq ChatUsers
  BY DEF Heirs, Others, MembersOf
<1>3. \A heir \in Heirs(f) : [op |-> "removing", c |-> f.c, who |-> f.who, heir |-> heir] \in Frames
  BY <1>1, <1>2 DEF Frames
<1>4. handler' \in [ChatSockets -> Frames]
  BY <1>1, <1>3 DEF FindHeir, ChatTypeOK
<1>5. ChatTypeOK'
  BY <1>1, <1>4 DEF FindHeir, ChatTypeOK, tables
<1>. QED
  BY <1>5, QuietStep DEF FindHeir

\* Telling a room moves no row, whatever becomes of it.
LEMMA PrepareStep ==
  ASSUME ChatInv, NEW s \in ChatSockets, Prepare(s)
  PROVE  TalkStep
<1>. DEFINE f == handler[s]
<1>1. ChatTypeOK /\ f.c \in Convs /\ sock \in [ChatSockets -> Consumers]
  BY FrameTypes DEF ChatInv, ChatTypeOK, Prepare, JoinOwn, ReadMembers, Pack, Handles
<1>2. [op |-> "answered", c |-> f.c] \in Frames
      /\ [op |-> "tell", c |-> f.c, who |-> MembersOf(f.c)] \in Frames
  BY <1>1 DEF Frames, MembersOf
<1>3. Pack(s) => [op |-> "tell", c |-> f.c, who |-> f.who] \in Frames
  <2>1. Pack(s) => f.who \subseteq ChatUsers
    BY <1>1, FrameTypes DEF Pack, Handles
  <2>. QED
    BY <1>1, <2>1 DEF Frames
<1>4. handler' \in [ChatSockets -> Frames]
  BY <1>1, <1>2, <1>3 DEF Prepare, JoinOwn, ReadMembers, Pack, Onto, ChatTypeOK
<1>5. [sock[s] EXCEPT !.joined = @ \cup {f.c}] \in Consumers
  BY <1>1 DEF Consumers
<1>6. sock' \in [ChatSockets -> Consumers]
  BY <1>1, <1>5 DEF Prepare, JoinOwn, ReadMembers, Pack
<1>7. UNCHANGED <<tables, online, frames>>
  BY DEF Prepare, JoinOwn, ReadMembers, Pack
<1>8. ChatTypeOK'
  BY <1>1, <1>4, <1>6, <1>7 DEF ChatTypeOK, tables
<1>. QED
  BY <1>7, <1>8, QuietStep

LEMMA TellStep ==
  ASSUME ChatInv, NEW s \in ChatSockets, NEW u \in ChatUsers, TellOne(s, u)
  PROVE  TalkStep
<1>. DEFINE f == handler[s]
<1>1. ChatTypeOK /\ f.op = "tell" /\ f.c \in Convs /\ f.who \subseteq ChatUsers
      /\ sock \in [ChatSockets -> Consumers]
  BY FrameTypes DEF ChatInv, ChatTypeOK, TellOne, Handles
<1>2. PICK got \in SUBSET Reached(f.c, {u}) :
        sock' = [z \in ChatSockets |->
                   IF z \in got THEN [sock[z] EXCEPT !.mail = @ \cup {f.c}] ELSE sock[z]]
  BY DEF TellOne
<1>3. ASSUME NEW z \in ChatSockets PROVE [sock[z] EXCEPT !.mail = @ \cup {f.c}] \in Consumers
  <2>1. sock[z] \in Consumers
    BY <1>1
  <2>. QED
    BY <1>1, <2>1 DEF Consumers
<1>4. sock' \in [ChatSockets -> Consumers]
  BY <1>1, <1>2, <1>3
<1>5. handler[s] \in Frames
  BY <1>1 DEF ChatTypeOK
<1>6. [f EXCEPT !.who = @ \ {u}] = [op |-> "tell", c |-> f.c, who |-> f.who \ {u}]
  BY <1>1, <1>5 DEF Frames, NoFrame
<1>7. NoFrame \in Frames /\ [op |-> "tell", c |-> f.c, who |-> f.who \ {u}] \in Frames
  BY <1>1 DEF Frames
<1>8. \E g \in Frames : Onto(s, g)
  BY <1>6, <1>7 DEF TellOne
<1>9. handler' \in [ChatSockets -> Frames]
  BY <1>1, <1>8 DEF Onto, ChatTypeOK
<1>10. ChatTypeOK'
  BY <1>1, <1>4, <1>9 DEF TellOne, ChatTypeOK, tables
<1>. QED
  BY <1>10, QuietStep DEF TellOne

\* What the writes of a handler have in common: they belong to a frame that
\* does not tell, drop their own socket if any, and move on no other handler.
WriteOps == {"direct", "group", "add", "remove", "removing", "lock", "send", "delete", "edit", "read",
             "join", "approve", "reject", "promote"}
LEMMA WriteShape ==
  ASSUME NEW s \in ChatSockets, Write(s)
  PROVE  /\ handler[s].op \in WriteOps
         /\ UNCHANGED sock \/ DropSocket(s)
         /\ \E f : handler' = [handler EXCEPT ![s] = f]
<1>. DEFINE Shape == /\ handler[s].op \in WriteOps
                     /\ UNCHANGED sock \/ DropSocket(s)
                     /\ \E f : handler' = [handler EXCEPT ![s] = f]
<1>1. ASSUME DoDirect(s) \/ DoGroup(s) PROVE Shape
  <2>1. PICK c : Announced(s, c)
    BY <1>1 DEF DoDirect, DoGroup
  <2>. QED
    BY <1>1, <2>1 DEF DoDirect, DoGroup, Announced, Onto, Handles, WriteOps
<1>2. DropSocket(s) => \E f : handler' = [handler EXCEPT ![s] = f]
  BY DEF DropSocket, Reply, Onto
<1>3. ASSUME DoAdd(s) \/ DoApprove(s) PROVE Shape
  <2>1. handler[s].op \in WriteOps
    BY <1>3 DEF DoAdd, DoApprove, Handles, WriteOps
  <2>2. DropSocket(s) \/ (UNCHANGED sock /\ \E c, who : TellThem(s, c, who))
    BY <1>3 DEF DoAdd, DoApprove
  <2>. QED
    BY <1>2, <2>1, <2>2 DEF TellThem, Onto
<1>4. ASSUME DoJoin(s) PROVE Shape
  <2>1. handler[s].op \in WriteOps
    BY <1>4 DEF DoJoin, Handles, WriteOps
  <2>2. DropSocket(s) \/ (UNCHANGED sock /\ Reply(s))
    BY <1>4 DEF DoJoin
  <2>. QED
    BY <1>2, <2>1, <2>2 DEF Reply, Onto
<1>5. ASSUME FindHeir(s) PROVE Shape
  BY <1>5 DEF FindHeir, Handles, WriteOps
<1>6. ASSUME DoRemove(s) \/ DoLock(s) \/ DoSend(s) \/ DoDelete(s) PROVE Shape
  <2>1. handler[s].op \in WriteOps
    BY <1>6 DEF DoRemove, DoLock, DoSend, DoDelete, Handles, WriteOps
  <2>2. UNCHANGED sock /\ Reply(s)
    BY <1>6 DEF DoRemove, DoLock, DoSend, DoDelete
  <2>. QED
    BY <2>1, <2>2 DEF Reply, Onto
<1>7. ASSUME DoEdit(s) \/ DoRead(s) \/ DoReject(s) \/ DoPromote(s) PROVE Shape
  <2>1. handler[s].op \in WriteOps
    BY <1>7 DEF DoEdit, DoRead, DoReject, DoPromote, Handles, WriteOps
  <2>2. UNCHANGED sock /\ Reply(s)
    BY <1>7 DEF DoEdit, DoRead, DoReject, DoPromote
  <2>. QED
    BY <2>1, <2>2 DEF Reply, Onto
<1>. HIDE DEF Shape
<1>8. Shape
  BY <1>1, <1>3, <1>4, <1>5, <1>6, <1>7 DEF Write
<1>. QED
  BY <1>8 DEF Shape

\* Every step of a conversation is a TalkStep.
LEMMA ChatStep ==
  ASSUME ChatInv, ChatNext
  PROVE  TalkStep
<1>1. ChatTypeOK
  BY DEF ChatInv
<1>2. ASSUME NEW s \in ChatSockets, Connection(s) PROVE TalkStep
  <2>1. UNCHANGED tables
    BY <1>2 DEF Connection, Open, SetOnline, Disconnect, Deliver, AskListen
  <2>. QED
    BY <1>1, <1>2, <2>1, TypeConnection, QuietStep
<1>3. ASSUME NEW s \in ChatSockets, FrameOf(s) PROVE TalkStep
  <2>1. ChatTypeOK'
    BY <1>1, <1>3, TypeFrame
  <2>2. UNCHANGED <<conv, row, request, msg>>
    BY <1>1, <1>3, AskedFrames DEF Ask, EndCall, tables
  <2>. QED
    BY <2>1, <2>2 DEF TalkStep, RowMoves, RequestMoves, MessageMoves, KindMoves
<1>4. ASSUME NEW s \in ChatSockets, Write(s) PROVE TalkStep
  BY <1>4, DirectStep, GroupStep, AddStep, HeirStep, RemovalStep, LockStep, SendStep, MessageStep,
     ReadStep, RequestStep, ApprovalStep, PromotionStep DEF Write
<1>5. ASSUME NEW u \in ChatUsers, PresenceExpires(u) PROVE TalkStep
  <2>1. ChatTypeOK'
    BY <1>1, <1>5 DEF PresenceExpires, ChatTypeOK, tables
  <2>. QED
    BY <1>5, <2>1, QuietStep DEF PresenceExpires
<1>6. ASSUME NEW s \in ChatSockets, ReadConversations(s) PROVE TalkStep
  BY <1>1, <1>6, TypeRead, QuietStep DEF ReadConversations
<1>7. ASSUME NEW s \in ChatSockets, LoseSocket(s) PROVE TalkStep
  BY <1>1, <1>7, DropStep DEF LoseSocket
<1>. QED
  BY <1>2, <1>3, <1>4, <1>5, <1>6, <1>7, PrepareStep, TellStep DEF ChatNext

\* What a call of the desk carries.
LEMMA CallTypes ==
  ASSUME DisputeTypeOK, CallsAimed, NEW w \in Desks, desk[w].call \in {"assign", "resolve"}
  PROVE  LET f == desk[w] IN
         /\ f.d \in DisputeIds /\ f.by \in Moderators
         /\ f.call = "resolve" => f.to \in Resolved
         /\ dispute[f.d] # NoDispute /\ dispute[f.d] \in DisputeRows
<1>1. desk[w] \in DeskCalls
  BY DEF DisputeTypeOK
<1>2. desk[w].d \in DisputeIds /\ desk[w].by \in Moderators
      /\ (desk[w].call = "resolve" => desk[w].to \in Resolved)
  BY <1>1 DEF DeskCalls, NoCall
<1>. QED
  BY <1>2 DEF DisputeTypeOK, CallsAimed

\* What a call does to the disputes' own tables.
DisputeMoves(d) ==
  \/ dispute'[d] = dispute[d]
  \/ /\ dispute[d] = NoDispute /\ dispute'[d] # NoDispute
     /\ Group(dispute[d].room)' /\ dispute'[d].status = "open"
     /\ \A u \in {Buyer, Seller} : Seated(dispute[d].room, u)'
  \/ /\ dispute[d] # NoDispute /\ dispute'[d] # NoDispute
     /\ dispute'[d].room = dispute[d].room
     /\ dispute'[d].status = "under_review" =>
          \A m \in dispute'[d].moderator : Seated(dispute[d].room, m)'

DeskMoves ==
  /\ DisputeTypeOK'
  /\ \A d \in DisputeIds : DisputeMoves(d)
  /\ \A w \in Desks : desk'[w].call \in {"assign", "resolve"} => dispute'[desk'[w].d] # NoDispute

\* A desk that takes a call moves no row.
LEMMA ServeStep ==
  ASSUME DisputeInv, NEW w \in Desks, NEW call \in DeskCalls, Serve(w, call),
         call.call \in {"assign", "resolve"} => dispute[call.d] # NoDispute
  PROVE  TalkStep /\ DeskMoves
<1>1. ChatTypeOK /\ DisputeTypeOK /\ CallsAimed
  BY DEF DisputeInv, ChatInv
<1>2. ChatTypeOK' /\ UNCHANGED tables
  BY <1>1, FramesNat DEF Serve, ChatTypeOK, tables
<1>3. DisputeTypeOK'
  BY <1>1 DEF Serve, DisputeTypeOK
<1>4. \A d \in DisputeIds : DisputeMoves(d)
  BY DEF Serve, DisputeMoves
<1>5. \A v \in Desks : desk'[v].call \in {"assign", "resolve"} => dispute'[desk'[v].d] # NoDispute
  BY <1>1 DEF Serve, CallsAimed, DisputeTypeOK
<1>. QED
  BY <1>2, <1>3, <1>4, <1>5, QuietStep DEF DeskMoves

\* A dispute that opens moves rows as both allow.
LEMMA OpenStep ==
  ASSUME DisputeInv, NEW w \in Desks, CommitOpen(w)
  PROVE  TalkStep /\ DeskMoves
<1>1. ChatTypeOK /\ DisputeTypeOK /\ CallsAimed /\ FreshUnseated /\ OwnersStay
  BY DEF DisputeInv, ChatInv
<1>2. PICK c \in Convs, d \in DisputeIds :
        /\ Fresh(c) /\ dispute[d] = NoDispute
        /\ conv' = [conv EXCEPT ![c].kind = "group"]
        /\ row' = [row EXCEPT ![c] = [u \in ChatUsers |->
                     IF u \in {Buyer, Seller} THEN MemberAs("member") ELSE row[c][u]]]
        /\ dispute' = [dispute EXCEPT ![d] = [status |-> "open", moderator |-> {}, room |-> c]]
  BY <1>1 DEF CommitOpen, ChatTypeOK
<1>3. [u \in ChatUsers |-> IF u \in {Buyer, Seller} THEN MemberAs("member") ELSE row[c][u]]
      = [u \in ChatUsers |-> IF u = Buyer THEN MemberAs("member")
                             ELSE IF u \in {Seller} THEN MemberAs("member") ELSE row[c][u]]
  OBVIOUS
<1>4. row' = [row EXCEPT ![c] = [u \in ChatUsers |->
                IF u = Buyer THEN MemberAs("member")
                ELSE IF u \in {Seller} THEN MemberAs("member") ELSE row[c][u]]]
  BY <1>2, <1>3
<1>5. UNCHANGED <<request, msg, calls, sock, online, handler, frames>> /\ Served(w)
  BY DEF CommitOpen
<1>6. handler' \in [ChatSockets -> Frames]
  BY <1>1, <1>5 DEF ChatTypeOK
<1>7. Buyer \in ChatUsers /\ Seller \in ChatUsers /\ {Seller} \in SUBSET ChatUsers
  BY DisputeUsers
<1>8. TalkStep
  BY <1>1, <1>2, <1>4, <1>5, <1>6, <1>7, FoundingStep
<1>9. Group(c)' /\ \A u \in {Buyer, Seller} : Seated(c, u)'
  BY <1>1, <1>2, <1>7 DEF ChatTypeOK, Group, Seated, MemberAs, Conversations
<1>10. [status |-> "open", moderator |-> {}, room |-> c] \in DisputeRows
  BY DEF DisputeRows
<1>11. DisputeTypeOK'
  BY <1>1, <1>2, <1>5, <1>10 DEF DisputeTypeOK, Served, DeskCalls
<1>12. dispute'[d] = [status |-> "open", moderator |-> {}, room |-> c]
       /\ \A e \in DisputeIds \ {d} : dispute'[e] = dispute[e]
  BY <1>1, <1>2 DEF DisputeTypeOK
<1>13. dispute'[d] # NoDispute
  BY <1>12 DEF NoDispute
<1>14. \A e \in DisputeIds : DisputeMoves(e)
  BY <1>2, <1>9, <1>12, <1>13 DEF DisputeMoves, Group, Seated
<1>15. \A v \in Desks : desk'[v].call \in {"assign", "resolve"} => dispute'[desk'[v].d] # NoDispute
  BY <1>1, <1>5, <1>12, <1>13, CallTypes DEF Served, CallsAimed, DisputeTypeOK, NoCall
<1>. QED
  BY <1>8, <1>11, <1>14, <1>15 DEF DeskMoves

\* So does its assignment.
LEMMA AssignStep ==
  ASSUME DisputeInv, NEW w \in Desks, CommitAssign(w)
  PROVE  TalkStep /\ DeskMoves
<1>1. ChatTypeOK /\ DisputeTypeOK /\ CallsAimed /\ RoomsSeated /\ desk[w].call = "assign"
  BY DEF DisputeInv, ChatInv, CommitAssign
<1>2. PICK d \in DisputeIds, m \in Moderators, c \in Convs :
        d = desk[w].d /\ m = desk[w].by /\ c = dispute[d].room /\ dispute[d] # NoDispute
  BY <1>1, CallTypes DEF DisputeRows
<1>3. /\ dispute' = [dispute EXCEPT ![d].status = "under_review", ![d].moderator = {m}]
      /\ row' = [row EXCEPT ![c][m] = IF row[c][m].state = "none" THEN MemberAs("admin") ELSE row[c][m]]
      /\ Served(w)
      /\ UNCHANGED <<conv, request, msg, calls, sock, online, handler, frames>>
  BY <1>1, <1>2 DEF CommitAssign
<1>4. ~Fresh(c)' /\ m \in ChatUsers
  BY <1>1, <1>2, <1>3, DisputeUsers DEF RoomsSeated, Group, Fresh
<1>5. /\ row' \in [Convs -> [ChatUsers -> Memberships]]
      /\ \A e \in Convs, v \in ChatUsers : RowMoves(e, v)
      /\ Seated(c, m)'
  <2>1. CASE Seated(c, m)
    <3>1. row' = row
      BY <1>1, <1>2, <1>3, <1>4, <2>1 DEF Seated, ChatTypeOK
    <3>. QED
      BY <1>1, <2>1, <3>1 DEF RowMoves, Seated, ChatTypeOK
  <2>2. CASE ~Seated(c, m)
    <3>1. row' = [row EXCEPT ![c][m] = MemberAs("admin")]
      BY <1>3, <2>2 DEF Seated
    <3>. QED
      BY <1>1, <1>2, <1>4, <2>2, <3>1, NewSeat
  <2>. QED
    BY <2>1, <2>2
<1>6. TalkStep
  <2>1. ChatTypeOK'
    BY <1>1, <1>3, <1>5 DEF ChatTypeOK
  <2>. QED
    BY <1>3, <1>5, <2>1 DEF TalkStep, RequestMoves, MessageMoves, KindMoves
<1>7. dispute[d] \in DisputeRows
  BY <1>1, <1>2 DEF DisputeTypeOK
<1>8. [dispute[d] EXCEPT !.status = "under_review", !.moderator = {m}] \in DisputeRows
  BY <1>7 DEF DisputeRows
<1>9. DisputeTypeOK'
  BY <1>1, <1>3, <1>8 DEF DisputeTypeOK, Served, DeskCalls
<1>10. /\ dispute'[d] \in DisputeRows /\ dispute'[d].room = c /\ dispute'[d].moderator = {m}
       /\ \A e \in DisputeIds \ {d} : dispute'[e] = dispute[e]
  BY <1>1, <1>2, <1>3, <1>7, <1>8 DEF DisputeTypeOK, DisputeRows
<1>11. dispute'[d] # NoDispute
  BY <1>10 DEF NoDispute, DisputeRows
<1>12. \A e \in DisputeIds : DisputeMoves(e)
  BY <1>2, <1>5, <1>10, <1>11 DEF DisputeMoves
<1>13. \A v \in Desks : desk'[v].call \in {"assign", "resolve"} => dispute'[desk'[v].d] # NoDispute
  BY <1>1, <1>3, <1>10, <1>11, CallTypes DEF Served, CallsAimed, DisputeTypeOK, NoCall
<1>. QED
  BY <1>6, <1>9, <1>12, <1>13 DEF DeskMoves

\* So does its resolution.
LEMMA ResolveStep ==
  ASSUME DisputeInv, NEW w \in Desks, CommitResolve(w)
  PROVE  TalkStep /\ DeskMoves
<1>1. ChatTypeOK /\ DisputeTypeOK /\ CallsAimed /\ desk[w].call = "resolve"
  BY DEF DisputeInv, ChatInv, CommitResolve
<1>2. PICK d \in DisputeIds, m \in Moderators, c \in Convs, to \in Resolved :
        d = desk[w].d /\ m = desk[w].by /\ c = dispute[d].room /\ to = desk[w].to
        /\ dispute[d] # NoDispute
  BY <1>1, CallTypes DEF DisputeRows
<1>3. /\ dispute' = [dispute EXCEPT ![d].status = to, ![d].moderator = {m}]
      /\ conv' = [conv EXCEPT ![c].locked = TRUE]
      /\ Served(w)
      /\ UNCHANGED <<row, request, msg, calls, sock, online, handler, frames>>
  BY <1>1, <1>2 DEF CommitResolve
<1>4. conv' \in [Convs -> Conversations] /\ \A e \in Convs : KindMoves(e)
  BY <1>1, <1>3 DEF ChatTypeOK, Conversations, KindMoves
<1>5. TalkStep
  <2>1. ChatTypeOK'
    BY <1>1, <1>3, <1>4 DEF ChatTypeOK
  <2>. QED
    BY <1>3, <1>4, <2>1 DEF TalkStep, RowMoves, RequestMoves, MessageMoves
<1>6. dispute[d] \in DisputeRows
  BY <1>1, <1>2 DEF DisputeTypeOK
<1>7. [dispute[d] EXCEPT !.status = to, !.moderator = {m}] \in DisputeRows
  BY <1>6 DEF DisputeRows
<1>8. DisputeTypeOK'
  BY <1>1, <1>3, <1>7 DEF DisputeTypeOK, Served, DeskCalls
<1>9. /\ dispute'[d] \in DisputeRows /\ dispute'[d].room = c /\ dispute'[d].status = to
      /\ \A e \in DisputeIds \ {d} : dispute'[e] = dispute[e]
  BY <1>1, <1>2, <1>3, <1>6, <1>7 DEF DisputeTypeOK, DisputeRows
<1>10. dispute'[d] # NoDispute /\ to # "under_review"
  BY <1>9 DEF NoDispute, DisputeRows, Resolved
<1>11. \A e \in DisputeIds : DisputeMoves(e)
  BY <1>2, <1>9, <1>10 DEF DisputeMoves
<1>12. \A v \in Desks : desk'[v].call \in {"assign", "resolve"} => dispute'[desk'[v].d] # NoDispute
  BY <1>1, <1>3, <1>9, <1>10, CallTypes DEF Served, CallsAimed, DisputeTypeOK, NoCall
<1>. QED
  BY <1>5, <1>8, <1>11, <1>12 DEF DeskMoves

\* Every step is a TalkStep, and moves the desks as DeskMoves allows.
LEMMA WholeStep ==
  ASSUME DisputeInv, DisputeNext
  PROVE  TalkStep /\ DeskMoves
<1>1. CASE ChatNext /\ UNCHANGED deskVars
  <2>1. TalkStep
    BY <1>1, ChatStep DEF DisputeInv
  <2>2. DeskMoves
    BY <1>1 DEF DisputeInv, DeskMoves, DisputeMoves, DisputeTypeOK, CallsAimed, deskVars
  <2>. QED
    BY <2>1, <2>2
<1>2. ASSUME NEW w \in Desks, DisputeStep(w) PROVE TalkStep /\ DeskMoves
  <2>1. CASE BeginOpen(w)
    BY <2>1, ServeStep DEF BeginOpen, DeskCalls
  <2>2. ASSUME NEW d \in DisputeIds, NEW m \in Moderators, BeginAssign(w, d, m)
        PROVE  TalkStep /\ DeskMoves
    <3>1. [call |-> "assign", d |-> d, by |-> m] \in DeskCalls
      BY DEF DeskCalls
    <3>. QED
      BY <2>2, <3>1, ServeStep DEF BeginAssign, Undecided
  <2>3. ASSUME NEW d \in DisputeIds, NEW m \in Moderators, NEW to \in Resolved,
               BeginResolve(w, d, m, to)
        PROVE  TalkStep /\ DeskMoves
    <3>1. [call |-> "resolve", d |-> d, by |-> m, to |-> to] \in DeskCalls
      BY DEF DeskCalls
    <3>. QED
      BY <2>3, <3>1, ServeStep DEF BeginResolve, Undecided
  <2>. QED
    BY <1>2, <2>1, <2>2, <2>3, OpenStep, AssignStep, ResolveStep DEF DisputeStep
<1>. QED
  BY <1>1, <1>2 DEF DisputeNext

-----------------------------------------------------------------------------
(* What such steps keep *)

\* Seats, conversations and ordinary seats stay what they are.
LEMMA SeatsStay ==
  ASSUME ChatTypeOK, TalkStep, NEW c \in Convs, NEW u \in ChatUsers
  PROVE  /\ Seated(c, u) => Seated(c, u)'
         /\ Ordinate(c, u) => Ordinate(c, u)'
         /\ Fresh(c)' => Fresh(c)
<1>1. row[c][u] \in Memberships /\ row'[c][u] \in Memberships
  BY DEF ChatTypeOK, TalkStep
<1>2. RowMoves(c, u) /\ KindMoves(c)
  BY DEF TalkStep
<1>3. Seated(c, u) => Seated(c, u)'
  BY <1>1, <1>2 DEF RowMoves, Seated, Memberships
<1>4. Ordinate(c, u) => row'[c][u].role # "owner"
  BY <1>1, <1>2 DEF RowMoves, Ordinate, Seated, Memberships
<1>5. Fresh(c)' => Fresh(c)
  BY <1>2 DEF KindMoves, Fresh
<1>. QED
  BY <1>3, <1>4, <1>5 DEF Ordinate

\* The same moves, field by field.
LEMMA RowFields ==
  ASSUME ChatTypeOK, TalkStep, NEW c \in Convs, NEW u \in ChatUsers
  PROVE  LET old == row[c][u]
             new == row'[c][u]
         IN  \/ /\ new.state = old.state /\ new.role = old.role
                /\ new.unread \in {0, old.unread}
             \/ /\ new.state = old.state /\ new.role = old.role
                /\ new.unread = old.unread + 1
                /\ \E m \in Msgs : m \notin FromOthers(c, u) /\ m \in FromOthers(c, u)'
             \/ /\ Ordinate(c, u) /\ new.unread = old.unread
                /\ \/ new.state = "left" /\ new.role = old.role
                   \/ new.state = old.state /\ new.role = "admin"
             \/ /\ ~Seated(c, u) /\ new.state = "active" /\ new.unread = 0
                /\ new.role = "owner" =>
                     /\ Fresh(c)
                     /\ \A v \in ChatUsers : row'[c][v].role = "owner" => v = u
<1>1. row[c][u] \in Memberships /\ row'[c][u] \in Memberships
  BY DEF ChatTypeOK, TalkStep
<1>2. RowMoves(c, u)
  BY DEF TalkStep
<1>3. CASE row'[c][u] = row[c][u]
  BY <1>3
<1>4. CASE row'[c][u] = [row[c][u] EXCEPT !.unread = 0]
  BY <1>1, <1>4 DEF Memberships
<1>5. CASE /\ \E m \in Msgs : m \notin FromOthers(c, u) /\ m \in FromOthers(c, u)'
           /\ row'[c][u] = [row[c][u] EXCEPT !.unread = @ + 1]
  BY <1>1, <1>5 DEF Memberships
<1>6. CASE Ordinate(c, u) /\ row'[c][u] = [row[c][u] EXCEPT !.state = "left"]
  BY <1>1, <1>6 DEF Memberships
<1>7. CASE Ordinate(c, u) /\ row'[c][u] = [row[c][u] EXCEPT !.role = "admin"]
  BY <1>1, <1>7 DEF Memberships
<1>8. CASE /\ ~Seated(c, u)
           /\ \E role \in Roles :
                /\ row'[c][u] = MemberAs(role)
                /\ role = "owner" => /\ Fresh(c)
                                     /\ \A v \in ChatUsers : row'[c][v].role = "owner" => v = u
  BY <1>8 DEF MemberAs
<1>. QED
  BY <1>2, <1>3, <1>4, <1>5, <1>6, <1>7, <1>8 DEF RowMoves

\* Who owns a conversation stays its member.
LEMMA OwnersStep ==
  ASSUME ChatInv, TalkStep
  PROVE  OwnersStay'
<1>1. ASSUME NEW c \in Convs, NEW o \in ChatUsers, row'[c][o].role = "owner"
      PROVE  IsMember(c, o)' /\ \A u \in ChatUsers : row'[c][u].role = "owner" => u = o
  <2>1. \A u \in ChatUsers : /\ row[c][u] \in Memberships /\ row'[c][u] \in Memberships
                             /\ RowMoves(c, u)
    BY DEF ChatInv, ChatTypeOK, TalkStep
  <2>2. ASSUME NEW u \in ChatUsers, row'[c][u].role = "owner"
        PROVE  \/ row[c][u].role = "owner" /\ row'[c][u].state = row[c][u].state
               \/ /\ row'[c][u].state = "active"
                  /\ Fresh(c)
                  /\ \A v \in ChatUsers : row'[c][v].role = "owner" => v = u
    BY <2>1, <2>2, RowFields DEF Ordinate, ChatInv
  <2>3. row'[c][o].state = "active"
    BY <1>1, <2>2 DEF ChatInv, OwnersStay, IsMember
  <2>4. ASSUME NEW u \in ChatUsers, row'[c][u].role = "owner" PROVE u = o
    BY <1>1, <2>2, <2>4 DEF ChatInv, OwnersStay
  <2>. QED
    BY <2>3, <2>4 DEF IsMember
<1>. QED
  BY <1>1 DEF OwnersStay

\* Who was approved has a row.
LEMMA ApprovedStep ==
  ASSUME ChatInv, TalkStep
  PROVE  ApprovedJoined'
<1>1. ASSUME NEW c \in Convs, NEW u \in ChatUsers, request'[c][u] = "approved"
      PROVE  row'[c][u].state # "none"
  <2>1. RequestMoves(c, u) /\ (Seated(c, u) => Seated(c, u)')
    BY SeatsStay DEF TalkStep, ChatInv
  <2>. QED
    BY <1>1, <2>1 DEF RequestMoves, Seated, ChatInv, ApprovedJoined
<1>. QED
  BY <1>1 DEF ApprovedJoined

\* A conversation that is still to come has nobody in it.
LEMMA FreshStep ==
  ASSUME ChatInv, TalkStep
  PROVE  FreshUnseated'
<1>1. ASSUME NEW c \in Convs, NEW u \in ChatUsers, Fresh(c)' PROVE ~Seated(c, u)'
  <2>1. Fresh(c) /\ ~Seated(c, u)
    BY <1>1, SeatsStay DEF ChatInv, FreshUnseated
  <2>2. row[c][u] \in Memberships /\ row'[c][u] \in Memberships /\ RowMoves(c, u)
    BY DEF ChatInv, ChatTypeOK, TalkStep
  <2>. QED
    BY <1>1, <2>1, <2>2 DEF RowMoves, Seated, Ordinate, Memberships
<1>. QED
  BY <1>1 DEF FreshUnseated

\* Who wrote has a seat.
LEMMA WritersStep ==
  ASSUME ChatInv, TalkStep
  PROVE  \A m \in Msgs : msg'[m] # NoMessage => Seated(msg[m].conv, msg[m].sender)'
<1>. SUFFICES ASSUME NEW m \in Msgs, msg'[m] # NoMessage
              PROVE  Seated(msg[m].conv, msg[m].sender)'
  OBVIOUS
<1>1. msg'[m] \in Messages
  BY DEF TalkStep, ChatTypeOK
<1>2. PICK c \in Convs, u \in ChatUsers : c = msg'[m].conv /\ u = msg'[m].sender
  BY <1>1 DEF Messages
<1>3. Seated(c, u)
  BY <1>2 DEF TalkStep, MessageMoves, ChatInv, OnlyMembersHear, Seated
<1>4. Seated(c, u)'
  BY <1>3, SeatsStay DEF ChatInv
<1>. QED
  BY <1>2, <1>4 DEF Seated

\* What is unread was written.
LEMMA UnreadStep ==
  ASSUME ChatInv, TalkStep
  PROVE  UnreadCovered'
<1>1. ASSUME NEW c \in Convs, NEW u \in ChatUsers
      PROVE  row'[c][u].unread <= Cardinality(FromOthers(c, u)')
  <2>1. IsFiniteSet(FromOthers(c, u)) /\ IsFiniteSet(FromOthers(c, u)')
    BY MsgsFinite, FS_Subset DEF FromOthers
  <2>2. FromOthers(c, u) \subseteq FromOthers(c, u)'
    BY DEF TalkStep, MessageMoves, FromOthers
  <2>3. row[c][u] \in Memberships /\ row'[c][u] \in Memberships /\ RowMoves(c, u)
    BY DEF ChatInv, ChatTypeOK, TalkStep
  <2>4. row[c][u].unread \in Nat /\ row'[c][u].unread \in Nat
    BY <2>3 DEF Memberships
  <2>5. Cardinality(FromOthers(c, u)) \in Nat /\ Cardinality(FromOthers(c, u)') \in Nat
        /\ Cardinality(FromOthers(c, u)) <= Cardinality(FromOthers(c, u)')
    BY <2>1, <2>2, FS_CardinalityType, FS_Subset
  <2>6. row[c][u].unread <= Cardinality(FromOthers(c, u))
    BY DEF ChatInv, UnreadCovered
  <2>7. CASE \E m \in Msgs : m \notin FromOthers(c, u) /\ m \in FromOthers(c, u)'
    <3>1. PICK m \in Msgs : m \notin FromOthers(c, u) /\ m \in FromOthers(c, u)'
      BY <2>7
    <3>2. FromOthers(c, u) \cup {m} \subseteq FromOthers(c, u)'
      BY <2>2, <3>1
    <3>3. Cardinality(FromOthers(c, u) \cup {m}) = Cardinality(FromOthers(c, u)) + 1
          /\ IsFiniteSet(FromOthers(c, u) \cup {m})
      BY <2>1, <3>1, FS_AddElement
    <3>4. Cardinality(FromOthers(c, u) \cup {m}) <= Cardinality(FromOthers(c, u)')
      BY <2>1, <3>2, FS_Subset
    <3>5. row'[c][u].unread <= row[c][u].unread + 1
      BY <2>4, RowFields DEF ChatInv
    <3>. QED
      BY <2>4, <2>5, <2>6, <3>3, <3>4, <3>5
  <2>8. CASE ~ \E m \in Msgs : m \notin FromOthers(c, u) /\ m \in FromOthers(c, u)'
    <3>1. row'[c][u].unread <= row[c][u].unread
      BY <2>4, <2>8, RowFields DEF ChatInv
    <3>. QED
      BY <2>4, <2>5, <2>6, <3>1
  <2>. QED
    BY <2>7, <2>8
<1>. QED
  BY <1>1 DEF UnreadCovered

\* A frame keeps what it was aimed at.
LEMMA AimStays ==
  ASSUME ChatInv, TalkStep, NEW s \in ChatSockets
  PROVE  \A f \in Frames : Aimed(s, f) => Aimed(s, f)'
<1>. SUFFICES ASSUME NEW f \in Frames, Aimed(s, f) PROVE Aimed(s, f)'
  OBVIOUS
<1>1. Me(s) \in ChatUsers
  BY SocketsOwned DEF Me
<1>2. /\ f.op \in {"add", "approve", "remove", "removing", "promote", "send", "announce", "answered",
                   "seated", "tell"} => f.c \in Convs
      /\ f.op \in {"remove", "removing", "promote"} => f.who \in ChatUsers
      /\ f.op = "removing" => f.heir \subseteq ChatUsers
      /\ f.op \in {"seated", "tell"} => f.who \subseteq ChatUsers
      /\ f.op \in {"delete", "edit"} => f.m \in Msgs
  BY DEF Frames, NoFrame
<1>3. \A c \in Convs, u \in ChatUsers :
        /\ Seated(c, u) => Seated(c, u)'
        /\ Ordinate(c, u) => Ordinate(c, u)'
        /\ Fresh(c)' => Fresh(c)
  BY SeatsStay DEF ChatInv
<1>4. \A m \in Msgs : msg[m] # NoMessage => msg'[m] # NoMessage
  BY DEF TalkStep, MessageMoves
<1>5. \A c \in Convs : Fresh(c)' => Fresh(c)
  BY <1>1, <1>3
<1>. QED
  BY <1>1, <1>2, <1>3, <1>4, <1>5 DEF Aimed

\* The handler that founds a conversation is going to tell its members.
LEMMA FoundersTold ==
  ASSUME ChatTypeOK, NEW s \in ChatSockets, DoDirect(s) \/ DoGroup(s)
  PROVE  \E c \in Convs : /\ Announced(s, c)
                         /\ row'[c][Me(s)].state = "active"
                         /\ \A d \in Convs \ {c} : row'[d] = row[d]
<1>1. Me(s) \in ChatUsers /\ row \in [Convs -> [ChatUsers -> Memberships]]
  BY SocketsOwned DEF Me, ChatTypeOK
<1>2. CASE DoDirect(s)
  <2>1. PICK c \in Convs :
          /\ row' = [row EXCEPT ![c] = [u \in ChatUsers |->
                       IF u \in {Me(s), handler[s].who} THEN MemberAs("member") ELSE row[c][u]]]
          /\ Announced(s, c)
    BY <1>1, <1>2 DEF DoDirect
  <2>2. row'[c][Me(s)] = MemberAs("member") /\ \A d \in Convs \ {c} : row'[d] = row[d]
    BY <1>1, <2>1
  <2>3. row'[c][Me(s)].state = "active"
    BY <2>2 DEF MemberAs
  <2>. QED
    BY <2>1, <2>2, <2>3
<1>3. CASE DoGroup(s)
  <2>1. PICK c \in Convs :
          /\ row' = [row EXCEPT ![c] = [u \in ChatUsers |->
                       IF u = Me(s) THEN MemberAs("owner")
                       ELSE IF u \in handler[s].who THEN MemberAs("member") ELSE row[c][u]]]
          /\ Announced(s, c)
    BY <1>1, <1>3 DEF DoGroup
  <2>2. row'[c][Me(s)] = MemberAs("owner") /\ \A d \in Convs \ {c} : row'[d] = row[d]
    BY <1>1, <2>1
  <2>3. row'[c][Me(s)].state = "active"
    BY <2>2 DEF MemberAs
  <2>. QED
    BY <2>1, <2>2, <2>3
<1>. QED
  BY <1>2, <1>3

\* Whatever a handler goes on with is aimed as well.
LEMMA FramesStep ==
  ASSUME ChatInv, TalkStep, ChatNext
  PROVE  FramesAimed'
<1>1. \A s \in ChatSockets : handler[s] \in Frames /\ Aimed(s, handler[s])
  BY DEF ChatInv, ChatTypeOK, FramesAimed
<1>2. \A s \in ChatSockets : \A f \in Frames : Aimed(s, f) => Aimed(s, f)'
  BY AimStays
<1>3. ASSUME NEW s \in ChatSockets, NEW f \in Frames, Aimed(s, f)',
             handler' = [handler EXCEPT ![s] = f]
      PROVE  FramesAimed'
  <2>1. ASSUME NEW z \in ChatSockets PROVE Aimed(z, handler[z])'
    <3>1. CASE z = s
      <4>1. handler'[z] = f
        BY <1>3, <3>1 DEF ChatInv, ChatTypeOK
      <4>. QED
        BY <1>3, <3>1, <4>1 DEF Aimed
    <3>2. CASE z # s
      <4>1. handler'[z] = handler[z]
        BY <1>3, <3>2
      <4>2. PICK g \in Frames : g = handler[z]
        BY <1>1
      <4>3. Aimed(z, g)'
        BY <1>1, <1>2, <4>2
      <4>. QED
        BY <4>1, <4>2, <4>3 DEF Aimed
    <3>. QED
      BY <3>1, <3>2
  <2>. QED
    BY <2>1 DEF FramesAimed
<1>4. ASSUME UNCHANGED handler PROVE FramesAimed'
  <2>1. ASSUME NEW z \in ChatSockets PROVE Aimed(z, handler[z])'
    <3>1. PICK g \in Frames : g = handler[z]
      BY <1>1
    <3>2. Aimed(z, g)'
      BY <1>1, <1>2, <3>1
    <3>. QED
      BY <1>4, <3>1, <3>2 DEF Aimed
  <2>. QED
    BY <2>1 DEF FramesAimed
<1>5. ASSUME NEW s \in ChatSockets, Reply(s) PROVE FramesAimed'
  <2>1. NoFrame \in Frames /\ Aimed(s, NoFrame)'
    BY DEF Frames, NoFrame, Aimed
  <2>. QED
    BY <1>3, <1>5, <2>1 DEF Reply, Onto
<1>6. ASSUME NEW s \in ChatSockets, NEW c \in Convs, NEW who \in SUBSET ChatUsers,
             TellThem(s, c, who), \A u \in who : Seated(c, u)'
      PROVE  FramesAimed'
  <2>. DEFINE f == [op |-> "seated", c |-> c, who |-> who]
  <2>1. f \in Frames /\ Aimed(s, f)'
    BY <1>6 DEF Frames, Aimed
  <2>2. handler' = [handler EXCEPT ![s] = f]
    BY <1>6 DEF TellThem, Onto
  <2>. HIDE DEF f
  <2>. QED
    BY <1>3, <2>1, <2>2
<1>7. ASSUME NEW s \in ChatSockets, FrameOf(s) PROVE FramesAimed'
  <2>1. CASE \E c \in Convs, u \in ChatUsers : EndCall(s, c, u)
    BY <1>4, <2>1 DEF EndCall
  <2>2. CASE \E f \in Frames : Ask(s, f) /\ Aimed(s, f)
    BY <1>2, <1>3, <2>2 DEF Ask
  <2>. QED
    BY <1>7, <2>1, <2>2, AskedFrames DEF ChatInv
<1>8. ASSUME NEW s \in ChatSockets, DoDirect(s) \/ DoGroup(s) PROVE FramesAimed'
  <2>1. PICK c \in Convs : Announced(s, c) /\ row'[c][Me(s)].state = "active"
    BY <1>8, FoundersTold DEF ChatInv
  <2>2. Seated(c, Me(s))'
    BY <2>1 DEF Seated, Me
  <2>. DEFINE f == [op |-> "announce", c |-> c]
  <2>3. f \in Frames /\ Aimed(s, f)'
    BY <2>2 DEF Frames, Aimed
  <2>4. handler' = [handler EXCEPT ![s] = f]
    BY <2>1 DEF Announced, Onto
  <2>. HIDE DEF f
  <2>. QED
    BY <1>3, <2>3, <2>4
<1>9. ASSUME NEW s \in ChatSockets, DoAdd(s) PROVE FramesAimed'
  <2>1. CASE DropSocket(s)
    BY <1>5, <2>1 DEF DropSocket
  <2>2. CASE ~DropSocket(s)
    <3>1. handler[s].op = "add" /\ Aimed(s, handler[s])
      BY <1>1, <1>9 DEF DoAdd, Handles
    <3>2. PICK c \in Convs, who \in SUBSET ChatUsers : c = handler[s].c /\ who = handler[s].who
      BY <3>1, FrameTypes DEF ChatInv
    <3>3. /\ row' = [row EXCEPT ![c] = [u \in ChatUsers |->
                       IF u \in who THEN MemberAs("member") ELSE row[c][u]]]
          /\ TellThem(s, c, who)
      <4>1. row \in [Convs -> [ChatUsers -> Memberships]]
        BY DEF ChatInv, ChatTypeOK
      <4>. QED
        BY <1>9, <2>2, <3>2, <4>1 DEF DoAdd
    <3>4. \A u \in who : row'[c][u].state = "active"
      BY <3>2, <3>3 DEF ChatInv, ChatTypeOK, MemberAs
    <3>5. \A u \in who : Seated(c, u)'
      BY <3>4 DEF Seated
    <3>. QED
      BY <1>6, <3>3, <3>5
  <2>. QED
    BY <2>1, <2>2
<1>10. ASSUME NEW s \in ChatSockets, DoApprove(s) PROVE FramesAimed'
  <2>1. CASE DropSocket(s)
    BY <1>5, <2>1 DEF DropSocket
  <2>2. CASE ~DropSocket(s)
    <3>1. PICK c \in Convs, u \in ChatUsers : c = handler[s].c /\ u = handler[s].who
      BY <1>10, FrameTypes DEF DoApprove, Handles, ChatInv
    <3>2. row' = [row EXCEPT ![c][u] = MemberAs("member")] /\ TellThem(s, c, {u})
      BY <1>10, <2>2, <3>1 DEF DoApprove
    <3>3. \A v \in {u} : Seated(c, v)'
      BY <3>2 DEF ChatInv, ChatTypeOK, Seated, MemberAs
    <3>4. {u} \in SUBSET ChatUsers
      OBVIOUS
    <3>. QED
      BY <1>6, <3>2, <3>3, <3>4
  <2>. QED
    BY <2>1, <2>2
<1>11. ASSUME NEW s \in ChatSockets, FindHeir(s) PROVE FramesAimed'
  <2>1. handler[s].op = "remove" /\ Aimed(s, handler[s])
    BY <1>1, <1>11 DEF FindHeir, Handles
  <2>2. PICK c \in Convs, who \in ChatUsers : c = handler[s].c /\ who = handler[s].who
    BY <2>1, FrameTypes DEF ChatInv
  <2>3. PICK heir \in Heirs(handler[s]) :
          handler' = [handler EXCEPT ![s] = [op |-> "removing", c |-> c, who |-> who, heir |-> heir]]
    BY <1>11, <2>2 DEF FindHeir
  <2>4. heir \subseteq ChatUsers /\ \A u \in heir : Ordinate(c, u)
    BY <2>2, <2>3 DEF Heirs, Others, MembersOf, IsMember, IsAdmin, Ordinate, Seated
  <2>. DEFINE f == [op |-> "removing", c |-> c, who |-> who, heir |-> heir]
  <2>5. f \in Frames
    BY <2>4 DEF Frames
  <2>6. PICK g \in Frames : g = f
    BY <2>5
  <2>7. Aimed(s, g)
    BY <2>1, <2>2, <2>4, <2>6 DEF Aimed
  <2>. QED
    BY <1>2, <1>3, <2>3, <2>6, <2>7
<1>12. ASSUME NEW s \in ChatSockets, DoJoin(s) PROVE FramesAimed'
  BY <1>5, <1>12 DEF DoJoin, DropSocket
<1>13. ASSUME NEW s \in ChatSockets,
              \/ DoRemove(s) \/ DoLock(s) \/ DoSend(s) \/ DoDelete(s) \/ DoEdit(s) \/ DoRead(s)
              \/ DoReject(s) \/ DoPromote(s) \/ LoseSocket(s)
       PROVE  FramesAimed'
  BY <1>5, <1>13 DEF DoRemove, DoLock, DoSend, DoDelete, DoEdit, DoRead, DoReject, DoPromote,
     LoseSocket, DropSocket
<1>14. ASSUME NEW s \in ChatSockets, Connection(s) \/ ReadConversations(s) PROVE FramesAimed'
  BY <1>4, <1>14 DEF Connection, Open, ReadConversations, SetOnline, Disconnect, Deliver, AskListen
<1>15. ASSUME NEW u \in ChatUsers, PresenceExpires(u) PROVE FramesAimed'
  BY <1>4, <1>15 DEF PresenceExpires
<1>16. ASSUME NEW s \in ChatSockets, Prepare(s) PROVE FramesAimed'
  <2>1. Aimed(s, handler[s])
    BY <1>1
  <2>2. PICK c \in Convs : c = handler[s].c
    BY <1>16, FrameTypes DEF Prepare, JoinOwn, ReadMembers, Pack, Handles, ChatInv
  <2>3. CASE JoinOwn(s)
    <3>. DEFINE f == [op |-> "answered", c |-> c]
    <3>1. f \in Frames /\ Aimed(s, f)
      BY <2>1, <2>2, <2>3 DEF Frames, Aimed, JoinOwn, Handles
    <3>2. handler' = [handler EXCEPT ![s] = f]
      BY <2>2, <2>3 DEF JoinOwn, Onto
    <3>. HIDE DEF f
    <3>. QED
      BY <1>2, <1>3, <3>1, <3>2
  <2>4. ASSUME NEW who \in SUBSET ChatUsers, \A u \in who : Seated(c, u),
               Onto(s, [op |-> "tell", c |-> c, who |-> who])
        PROVE  FramesAimed'
    <3>. DEFINE f == [op |-> "tell", c |-> c, who |-> who]
    <3>1. f \in Frames /\ Aimed(s, f)
      BY <2>4 DEF Frames, Aimed
    <3>2. handler' = [handler EXCEPT ![s] = f]
      BY <2>4 DEF Onto
    <3>. HIDE DEF f
    <3>. QED
      BY <1>2, <1>3, <3>1, <3>2
  <2>5. CASE ReadMembers(s)
    <3>1. MembersOf(c) \in SUBSET ChatUsers /\ \A u \in MembersOf(c) : Seated(c, u)
      BY DEF MembersOf, IsMember, Seated
    <3>. QED
      BY <2>2, <2>4, <2>5, <3>1 DEF ReadMembers
  <2>6. CASE Pack(s)
    <3>1. handler[s].who \in SUBSET ChatUsers /\ \A u \in handler[s].who : Seated(c, u)
      BY <2>1, <2>2, <2>6, FrameTypes DEF Pack, Handles, Aimed, ChatInv
    <3>. QED
      BY <2>2, <2>4, <2>6, <3>1 DEF Pack
  <2>. QED
    BY <1>16, <2>3, <2>5, <2>6 DEF Prepare
<1>17. ASSUME NEW s \in ChatSockets, NEW u \in ChatUsers, TellOne(s, u) PROVE FramesAimed'
  <2>1. handler[s] \in Frames /\ handler[s].op = "tell" /\ Aimed(s, handler[s])
    BY <1>1, <1>17 DEF TellOne, Handles
  <2>2. PICK c \in Convs, who \in SUBSET ChatUsers : c = handler[s].c /\ who = handler[s].who
    BY <2>1, FrameTypes DEF ChatInv
  <2>. DEFINE f == [op |-> "tell", c |-> c, who |-> who \ {u}]
  <2>3. [handler[s] EXCEPT !.who = @ \ {u}] = f
    BY <2>1, <2>2 DEF Frames, NoFrame
  <2>4. f \in Frames /\ Aimed(s, f)
    BY <2>1, <2>2 DEF Frames, Aimed
  <2>5. Reply(s) \/ handler' = [handler EXCEPT ![s] = f]
    BY <1>17, <2>3 DEF TellOne, Onto, Reply
  <2>. HIDE DEF f
  <2>. QED
    BY <1>2, <1>3, <1>5, <2>4, <2>5
<1>. QED
  BY <1>7, <1>8, <1>9, <1>10, <1>11, <1>12, <1>13, <1>14, <1>15, <1>16, <1>17 DEF ChatNext, Write

\* Sockets join, and are told of, conversations that their user has a seat in.
LEMMA SocketsStep ==
  ASSUME ChatInv, TalkStep, ChatNext
  PROVE  OnlyMembersHear'
<1>. DEFINE Hearing(z, d) == d \in sock[z].joined \cup sock[z].mail
<1>1. \A z \in ChatSockets : sock[z] \in Consumers /\ Me(z) \in ChatUsers
  BY SocketsOwned DEF ChatInv, ChatTypeOK, Me
<1>2. ASSUME NEW z \in ChatSockets, NEW d \in Convs, Hearing(z, d)' PROVE Hearing(z, d) \/ Seated(d, Me(z))
  <2>. USE <1>1, <1>2
  <2>1. CASE UNCHANGED sock
    BY <2>1
  <2>2. ASSUME NEW s \in ChatSockets, sock' = [sock EXCEPT ![s] = ClosedSocket]
        PROVE  Hearing(z, d)
    BY <2>2 DEF ClosedSocket, ChatInv, ChatTypeOK
  <2>3. ASSUME NEW s \in ChatSockets, Open(s) \/ SetOnline(s) PROVE Hearing(z, d)
    <3>1. PICK to \in {"opening", "open"} : sock' = [sock EXCEPT ![s].state = to]
      BY <2>3 DEF Open, SetOnline
    <3>2. sock \in [ChatSockets -> Consumers]
      BY DEF ChatInv, ChatTypeOK
    <3>3. sock'[z].joined = sock[z].joined /\ sock'[z].mail = sock[z].mail
      BY <3>1, <3>2 DEF Consumers
    <3>. QED
      BY <3>3
  <2>4. ASSUME NEW s \in ChatSockets, ReadConversations(s)
        PROVE  Hearing(z, d) \/ Seated(d, Me(z))
    BY <2>4 DEF ReadConversations, ConversationsOf, IsMember, Seated, Consumers, ChatInv, ChatTypeOK
  <2>5. ASSUME NEW s \in ChatSockets, NEW c \in Convs, Deliver(s, c) PROVE Hearing(z, d)
    BY <2>5 DEF Deliver, Consumers, ChatInv, ChatTypeOK
  <2>6. ASSUME NEW s \in ChatSockets, NEW c \in Convs, AskListen(s, c)
        PROVE  Hearing(z, d) \/ Seated(d, Me(z))
    BY <2>6 DEF AskListen, IsMember, Seated, Consumers, ChatInv, ChatTypeOK
  <2>7. ASSUME NEW s \in ChatSockets, Connection(s) PROVE Hearing(z, d) \/ Seated(d, Me(z))
    BY <2>2, <2>3, <2>5, <2>6, <2>7 DEF Connection, Disconnect
  <2>8. ASSUME NEW s \in ChatSockets, FrameOf(s) PROVE UNCHANGED sock
    BY <2>8, AskedFrames DEF Ask, EndCall, ChatInv
  <2>9. ASSUME NEW s \in ChatSockets, Write(s) PROVE Hearing(z, d)
    <3>1. UNCHANGED sock \/ sock' = [sock EXCEPT ![s] = ClosedSocket]
      BY <2>9, WriteShape DEF DropSocket
    <3>. QED
      BY <2>1, <2>2, <3>1
  <2>10. ASSUME NEW s \in ChatSockets, NEW u \in ChatUsers, TellOne(s, u)
         PROVE  Hearing(z, d) \/ Seated(d, Me(z))
    <3>1. Aimed(s, handler[s]) /\ handler[s].op = "tell" /\ u \in handler[s].who
      BY <2>10 DEF ChatInv, FramesAimed, TellOne, Handles
    <3>2. Seated(handler[s].c, u)
      BY <3>1 DEF Aimed
    <3>3. Hearing(z, d) \/ (d = handler[s].c /\ Me(z) = u)
      BY <2>10 DEF TellOne, Reached, Consumers
    <3>. QED
      BY <3>2, <3>3
  <2>11. ASSUME NEW u \in ChatUsers, PresenceExpires(u) PROVE UNCHANGED sock
    BY <2>11 DEF PresenceExpires
  <2>12. ASSUME NEW s \in ChatSockets, Prepare(s) PROVE Hearing(z, d) \/ Seated(d, Me(z))
    <3>1. CASE JoinOwn(s)
      <4>1. Seated(handler[s].c, Me(s))
        BY <3>1 DEF ChatInv, FramesAimed, Aimed, JoinOwn, Handles
      <4>2. Hearing(z, d) \/ (d = handler[s].c /\ z = s)
        BY <3>1 DEF JoinOwn, Consumers, ChatInv, ChatTypeOK
      <4>. QED
        BY <4>1, <4>2
    <3>2. CASE UNCHANGED sock
      BY <2>1, <3>2
    <3>. QED
      BY <2>12, <3>1, <3>2 DEF Prepare, ReadMembers, Pack
  <2>13. ASSUME NEW s \in ChatSockets, LoseSocket(s) PROVE Hearing(z, d)
    BY <2>2, <2>13 DEF LoseSocket, DropSocket
  <2>. QED
    BY <2>1, <2>4, <2>7, <2>8, <2>9, <2>10, <2>11, <2>12, <2>13 DEF ChatNext
<1>3. ASSUME NEW z \in ChatSockets, NEW d \in sock'[z].joined \cup sock'[z].mail
      PROVE  row'[d][Me(z)].state # "none"
  <2>1. d \in Convs
    BY DEF TalkStep, ChatTypeOK, Consumers
  <2>2. Seated(d, Me(z))
    BY <1>2, <2>1 DEF ChatInv, OnlyMembersHear, Seated
  <2>3. Seated(d, Me(z))'
    BY <1>1, <2>1, <2>2, SeatsStay DEF ChatInv, Me
  <2>. QED
    BY <2>3 DEF Seated, Me
<1>. QED
  BY <1>3, WritersStep DEF OnlyMembersHear, Seated, Me

\* A call of the desk touches no consumer.
LEMMA DeskLeavesSockets ==
  ASSUME NEW w \in Desks, DisputeStep(w)
  PROVE  UNCHANGED <<sock, handler>>
BY DEF DisputeStep, BeginOpen, CommitOpen, BeginAssign, CommitAssign, BeginResolve, CommitResolve, Serve

\* Steps of the desks keep the conversations in order.
LEMMA ConversationsKept ==
  ASSUME DisputeInv, DisputeNext
  PROVE  ChatInv'
<1>1. ChatInv /\ TalkStep
  BY WholeStep DEF DisputeInv
<1>2. CASE ChatNext
  BY <1>1, <1>2, FramesStep, SocketsStep, OwnersStep, ApprovedStep, FreshStep, UnreadStep DEF ChatInv, TalkStep
<1>3. CASE UNCHANGED <<sock, handler>>
  <2>1. ASSUME NEW s \in ChatSockets PROVE Aimed(s, handler[s])'
    <3>1. PICK f \in Frames : f = handler[s]
      BY <1>1 DEF ChatInv, ChatTypeOK
    <3>2. Aimed(s, f)'
      BY <1>1, <3>1, AimStays DEF ChatInv, FramesAimed
    <3>. QED
      BY <1>3, <3>1, <3>2 DEF Aimed
  <2>2. ASSUME NEW s \in ChatSockets, NEW d \in sock'[s].joined \cup sock'[s].mail
        PROVE  row'[d][Me(s)].state # "none"
    <3>1. d \in Convs /\ Me(s) \in ChatUsers
      BY <1>1, SocketsOwned DEF TalkStep, ChatTypeOK, Consumers, Me
    <3>2. Seated(d, Me(s))
      BY <1>1, <1>3 DEF ChatInv, OnlyMembersHear, Seated
    <3>3. Seated(d, Me(s))'
      BY <1>1, <3>1, <3>2, SeatsStay DEF ChatInv, Me
    <3>. QED
      BY <3>3 DEF Seated, Me
  <2>3. OnlyMembersHear'
    BY <1>1, <2>2, WritersStep DEF OnlyMembersHear, Seated, Me
  <2>4. FramesAimed'
    BY <2>1 DEF FramesAimed
  <2>. QED
    BY <1>1, <2>3, <2>4, OwnersStep, ApprovedStep, FreshStep, UnreadStep DEF ChatInv, TalkStep
<1>. QED
  BY <1>2, <1>3, DeskLeavesSockets DEF DisputeNext

\* The rooms of disputes keep their seats, and the calls of desks their aim.
LEMMA RoomsKept ==
  ASSUME DisputeInv, TalkStep, DeskMoves
  PROVE  RoomsSeated' /\ CallsAimed'
<1>1. CallsAimed'
  BY DEF DeskMoves, CallsAimed
<1>2. ASSUME NEW d \in DisputeIds, dispute'[d] # NoDispute
      PROVE  /\ Group(dispute[d].room)'
             /\ \A u \in {Buyer, Seller} : Seated(dispute[d].room, u)'
             /\ dispute'[d].status = "under_review" =>
                  \A m \in dispute'[d].moderator : Seated(dispute[d].room, m)'
  <2>1. DisputeMoves(d)
    BY DEF DeskMoves
  <2>2. CASE dispute[d] = NoDispute
    BY <1>2, <2>1, <2>2 DEF DisputeMoves
  <2>3. CASE dispute[d] # NoDispute
    <3>1. PICK c \in Convs : c = dispute[d].room
      BY <2>3 DEF DisputeInv, DisputeTypeOK, DisputeRows
    <3>2. dispute'[d].room = c
      BY <1>2, <2>1, <2>3, <3>1 DEF DisputeMoves
    <3>3. Group(c) /\ \A u \in {Buyer, Seller} : Seated(c, u)
      BY <2>3, <3>1 DEF DisputeInv, RoomsSeated, Seated
    <3>4. \A u \in ChatUsers : Seated(c, u) => Seated(c, u)'
      BY SeatsStay DEF DisputeInv, ChatInv
    <3>5. Group(c)'
      BY <3>3 DEF TalkStep, KindMoves, Group, Fresh
    <3>6. \A u \in {Buyer, Seller} : Seated(c, u)'
      BY <3>3, <3>4, DisputeUsers
    <3>7. ASSUME dispute'[d].status = "under_review", NEW m \in dispute'[d].moderator
          PROVE  Seated(c, m)'
      <4>1. CASE dispute'[d] = dispute[d]
        <5>1. m \in ChatUsers /\ Seated(c, m)
          BY <2>3, <3>1, <3>7, <4>1, DisputeUsers DEF DisputeInv, RoomsSeated, Seated, DisputeTypeOK, DisputeRows
        <5>. QED
          BY <3>4, <5>1
      <4>2. CASE dispute'[d] # dispute[d]
        <5>1. Seated(dispute[d].room, m)'
          BY <2>1, <2>3, <3>7, <4>2 DEF DisputeMoves
        <5>. QED
          BY <3>2, <5>1 DEF Seated
      <4>. QED
        BY <4>1, <4>2
    <3>. QED
      BY <3>2, <3>5, <3>6, <3>7 DEF Group, Seated
  <2>. QED
    BY <2>2, <2>3
<1>. QED
  BY <1>1, <1>2 DEF RoomsSeated, Seated

\* Every step of chats and disputes keeps the invariant.
LEMMA TalkKept ==
  DisputeInv /\ [DisputeNext]_disputeVars => DisputeInv'
<1>. SUFFICES ASSUME DisputeInv, [DisputeNext]_disputeVars PROVE DisputeInv'
  OBVIOUS
<1>1. CASE DisputeNext
  <2>1. TalkStep /\ DeskMoves
    BY <1>1, WholeStep
  <2>. QED
    BY <1>1, <2>1, ConversationsKept, RoomsKept DEF DisputeInv, DeskMoves
<1>2. CASE UNCHANGED disputeVars
  BY <1>2 DEF disputeVars, deskVars, chatVars, tables, DisputeInv, ChatInv, ChatTypeOK, OwnersStay,
     ApprovedJoined, OnlyMembersHear, UnreadCovered, FromOthers, FreshUnseated, FramesAimed, Aimed,
     Seated, Ordinate, Fresh, IsMember, DisputeTypeOK, CallsAimed, RoomsSeated, Group, Me
<1>. QED
  BY <1>1, <1>2

\* Whatever frames of whatever sockets and calls of the desk overlap: a group
\* keeps its one owner, only those with a seat write and hear, unread counters
\* are covered by messages, an approved request has its seat, and the parties
\* of a dispute and its moderator have theirs in its room.
THEOREM TalkHolds == DisputeSpec => []DisputeInv
BY TalkStart, TalkKept, PTL DEF DisputeSpec

\* Nobody gets a seat from the chat without somebody being about to tell.
LEMMA NewSeatsTold ==
  ASSUME ChatInv, TalkStep, ChatNext, NEW c \in Convs, NEW u \in ChatUsers,
         ~Seated(c, u), Seated(c, u)'
  PROVE  \E z \in ChatSockets : Telling(handler'[z], c, u)
<1>. DEFINE IsTold == \E z \in ChatSockets : Telling(handler'[z], c, u)
<1>1. /\ row \in [Convs -> [ChatUsers -> Memberships]]
      /\ handler \in [ChatSockets -> Frames]
      /\ row[c][u].state = "none" /\ row'[c][u].state # "none"
  BY DEF ChatInv, ChatTypeOK, Seated
<1>2. ASSUME NEW s \in ChatSockets, NEW who, TellThem(s, c, who), u \in who
      PROVE  IsTold
  <2>1. handler'[s] = [op |-> "seated", c |-> c, who |-> who]
    BY <1>1, <1>2 DEF TellThem, Onto
  <2>. QED
    BY <1>2, <2>1 DEF Telling
<1>3. row'[c] # row[c]
  BY <1>1
<1>4. ASSUME NEW s \in ChatSockets, DoDirect(s) \/ DoGroup(s) PROVE IsTold
  <2>1. PICK d \in Convs : Announced(s, d) /\ \A e \in Convs \ {d} : row'[e] = row[e]
    BY <1>4, FoundersTold DEF ChatInv
  <2>2. handler'[s] = [op |-> "announce", c |-> c]
    BY <1>1, <1>3, <2>1 DEF Announced, Onto
  <2>. QED
    BY <2>2 DEF Telling
<1>5. ASSUME NEW s \in ChatSockets, DoAdd(s) PROVE IsTold
  <2>1. ~DropSocket(s)
    BY <1>3 DEF DropSocket, tables
  <2>2. handler[s].op = "add"
    BY <1>5 DEF DoAdd, Handles
  <2>3. PICK d \in Convs, who \in SUBSET ChatUsers : d = handler[s].c /\ who = handler[s].who
    BY <2>2, FrameTypes DEF ChatInv
  <2>4. /\ row' = [row EXCEPT ![d] = [v \in ChatUsers |->
                     IF v \in who THEN MemberAs("member") ELSE row[d][v]]]
        /\ TellThem(s, d, who)
    BY <1>1, <1>5, <2>1, <2>3 DEF DoAdd
  <2>5. d = c /\ u \in who
    BY <1>1, <1>3, <2>4
  <2>. QED
    BY <1>2, <2>4, <2>5
<1>6. ASSUME NEW s \in ChatSockets, DoApprove(s) PROVE IsTold
  <2>1. ~DropSocket(s)
    BY <1>3 DEF DropSocket, tables
  <2>2. PICK d \in Convs, v \in ChatUsers : d = handler[s].c /\ v = handler[s].who
    BY <1>6, FrameTypes DEF DoApprove, Handles, ChatInv
  <2>3. row' = [row EXCEPT ![d][v] = MemberAs("member")] /\ TellThem(s, d, {v})
    BY <1>6, <2>1, <2>2 DEF DoApprove
  <2>4. d = c /\ v = u
    BY <1>1, <1>3, <2>3
  <2>. QED
    BY <1>2, <2>3, <2>4
<1>7. ASSUME NEW s \in ChatSockets, DoRemove(s) PROVE FALSE
  <2>1. PICK d \in Convs, gone \in ChatUsers, heir \in SUBSET ChatUsers :
          /\ row' = Without(d, gone, heir)
          /\ Ordinate(d, gone) /\ \A v \in heir : Ordinate(d, v)
    BY <1>7, Removals
  <2>2. row' = [row EXCEPT ![d] = [v \in ChatUsers |->
                  IF v = gone THEN [row[d][v] EXCEPT !.state = "left"]
                  ELSE IF v \in heir THEN [row[d][v] EXCEPT !.role = "admin"] ELSE row[d][v]]]
    BY <1>1, <2>1 DEF Without
  <2>3. d = c
    BY <1>1, <1>3, <2>2
  <2>4. u # gone /\ u \notin heir
    BY <1>1, <2>1, <2>3 DEF Ordinate, Seated
  <2>5. row'[c][u] = row[c][u]
    BY <1>1, <2>2, <2>3, <2>4
  <2>. QED
    BY <1>1, <2>5
<1>8. ASSUME NEW s \in ChatSockets, DoSend(s) PROVE FALSE
  <2>1. PICK d \in Convs :
          row' = [row EXCEPT ![d] = [v \in ChatUsers |->
                    IF v # Me(s) /\ Seated(d, v)
                    THEN [row[d][v] EXCEPT !.unread = @ + 1] ELSE row[d][v]]]
    <3>1. PICK d \in Convs : d = handler[s].c
      BY <1>8, FrameTypes DEF DoSend, Handles, ChatInv
    <3>. QED
      BY <1>8, <3>1 DEF DoSend
  <2>2. d = c
    BY <1>1, <1>3, <2>1
  <2>3. row'[c][u] = row[c][u]
    BY <1>1, <2>1, <2>2 DEF Seated
  <2>. QED
    BY <1>1, <2>3
<1>9. ASSUME NEW s \in ChatSockets, DoRead(s) \/ DoPromote(s) PROVE FALSE
  <2>1. PICK d \in Convs, v \in ChatUsers :
          \/ row' = [row EXCEPT ![d][v].unread = 0]
          \/ row' = [row EXCEPT ![d][v].role = "admin"]
    BY <1>9, FrameTypes DEF DoRead, DoPromote, Handles, ChatInv
  <2>2. d = c /\ v = u
    BY <1>1, <2>1
  <2>3. row[c][u] \in Memberships
    BY <1>1
  <2>4. \/ row'[c][u] = [row[c][u] EXCEPT !.unread = 0]
        \/ row'[c][u] = [row[c][u] EXCEPT !.role = "admin"]
    BY <1>1, <2>1, <2>2
  <2>5. row'[c][u].state = row[c][u].state
    BY <2>3, <2>4 DEF Memberships
  <2>. QED
    BY <1>1, <2>5
<1>10. ASSUME NEW s \in ChatSockets,
              \/ FindHeir(s) \/ DoLock(s) \/ DoDelete(s) \/ DoEdit(s) \/ DoJoin(s) \/ DoReject(s)
              \/ Prepare(s) \/ LoseSocket(s) \/ Connection(s) \/ ReadConversations(s) \/ FrameOf(s)
              \/ \E v \in ChatUsers : TellOne(s, v)
       PROVE  FALSE
  <2>1. FrameOf(s) => UNCHANGED row
    BY AskedFrames DEF ChatInv, Ask, EndCall, tables
  <2>2. UNCHANGED row
    BY <1>10, <2>1 DEF FindHeir, DoLock, DoDelete, DoEdit, DoJoin, DoReject, DropSocket, tables,
       Prepare, JoinOwn, ReadMembers, Pack, TellOne, LoseSocket, Connection, Open, ReadConversations, SetOnline, Disconnect, Deliver, AskListen
  <2>. QED
    BY <1>3, <2>2
<1>11. ASSUME NEW v \in ChatUsers, PresenceExpires(v) PROVE FALSE
  BY <1>3, <1>11 DEF PresenceExpires, tables
<1>. QED
  BY <1>4, <1>5, <1>6, <1>7, <1>8, <1>9, <1>10, <1>11 DEF ChatNext, Write

\* A socket that hears a conversation, or is about to be told of it, stays so
\* while its user is a member and it is served, or what it was to be told of
\* has been lost.
LEMMA HearingStays ==
  ASSUME ChatInv, ChatNext, NEW s \in ChatSockets, NEW c \in Convs, IsMember(c, Me(s)), Hears(s, c),
         Listens(s), Listens(s)', <<s, c>> \notin untold'
  PROVE  Hears(s, c)'
<1>. DEFINE Hearing == c \in sock[s].joined \cup sock[s].mail
            IsTold  == \E z \in ChatSockets : Telling(handler[z], c, Me(s))
            Tellers == {"announce", "answered", "seated", "tell"}
<1>1. /\ sock \in [ChatSockets -> Consumers] /\ handler \in [ChatSockets -> Frames]
      /\ sock[s] \in Consumers /\ Me(s) \in ChatUsers
      /\ sock[s].state \in {"joining", "open"} /\ sock'[s].state \in {"joining", "open"}
  BY SocketsOwned DEF ChatInv, ChatTypeOK, Me, Listens
<1>2. ASSUME NEW z \in ChatSockets, NEW x \in ChatSockets \ {z}, NEW f,
             handler' = [handler EXCEPT ![z] = f], Telling(handler[x], c, Me(s))
      PROVE  IsTold'
  <2>1. handler'[x] = handler[x]
    BY <1>1, <1>2
  <2>2. Telling(handler'[x], c, Me(s)')
    BY <1>2, <2>1 DEF Telling, Me
  <2>. QED
    BY <2>2
<1>3. ASSUME NEW z \in ChatSockets, NEW f, handler' = [handler EXCEPT ![z] = f],
             handler[z].op \notin Tellers, IsTold
      PROVE  IsTold'
  <2>1. PICK x \in ChatSockets : Telling(handler[x], c, Me(s))
    BY <1>3
  <2>2. x # z
    BY <1>3, <2>1 DEF Telling
  <2>. QED
    BY <1>2, <1>3, <2>1, <2>2
<1>4. ASSUME UNCHANGED handler, IsTold PROVE IsTold'
  BY <1>4 DEF Me
<1>5. ASSUME NEW z \in ChatSockets, Connection(z) \/ ReadConversations(z)
      PROVE  (Hearing => Hearing') /\ (IsTold => IsTold')
  <2>1. UNCHANGED handler
    BY <1>5 DEF Connection, Open, ReadConversations, SetOnline, Disconnect, Deliver, AskListen
  <2>2. CASE Open(z) \/ SetOnline(z)
    <3>1. PICK to \in {"opening", "open"} : sock' = [sock EXCEPT ![z].state = to]
      BY <2>2 DEF Open, SetOnline
    <3>2. sock'[s].joined = sock[s].joined /\ sock'[s].mail = sock[s].mail
      BY <1>1, <3>1 DEF Consumers
    <3>. QED
      BY <1>4, <2>1, <3>2
  <2>3. CASE ReadConversations(z)
    <3>1. z # s
      BY <1>1, <2>3 DEF ReadConversations
    <3>. QED
      BY <1>1, <1>4, <2>1, <2>3, <3>1 DEF ReadConversations
  <2>4. CASE Disconnect(z)
    <3>1. z # s
      BY <1>1, <2>4 DEF Disconnect, ClosedSocket
    <3>. QED
      BY <1>1, <1>4, <2>1, <2>4, <3>1 DEF Disconnect
  <2>5. ASSUME NEW d \in Convs, Deliver(z, d) \/ AskListen(z, d) PROVE Hearing => Hearing'
    <3>1. CASE z = s
      BY <1>1, <2>5, <3>1 DEF Deliver, AskListen, Consumers
    <3>2. CASE z # s
      BY <1>1, <2>5, <3>2 DEF Deliver, AskListen
    <3>. QED
      BY <3>1, <3>2
  <2>. QED
    BY <1>4, <1>5, <2>1, <2>2, <2>3, <2>4, <2>5 DEF Connection
<1>6. ASSUME NEW z \in ChatSockets, DropSocket(z) PROVE z # s /\ (Hearing => Hearing')
  <2>1. z # s
    BY <1>1, <1>6 DEF DropSocket, ClosedSocket
  <2>. QED
    BY <1>1, <1>6, <2>1 DEF DropSocket
<1>7. ASSUME NEW z \in ChatSockets, FrameOf(z) PROVE (Hearing => Hearing') /\ (IsTold => IsTold')
  <2>1. CASE \E d \in Convs, u \in ChatUsers : EndCall(z, d, u)
    BY <1>4, <2>1 DEF EndCall
  <2>2. CASE \E f \in Frames : Ask(z, f)
    <3>1. PICK f \in Frames : handler' = [handler EXCEPT ![z] = f]
      BY <2>2 DEF Ask
    <3>2. UNCHANGED sock /\ handler[z].op = "idle"
      BY <2>2 DEF Ask, NoFrame
    <3>3. handler[z].op \notin Tellers
      BY <3>2
    <3>4. IsTold => IsTold'
      BY <1>3, <3>1, <3>3
    <3>. HIDE DEF IsTold
    <3>. QED
      BY <3>2, <3>4
  <2>. QED
    BY <1>7, <2>1, <2>2, AskedFrames DEF ChatInv
<1>8. ASSUME NEW z \in ChatSockets, Write(z) PROVE (Hearing => Hearing') /\ (IsTold => IsTold')
  <2>1. /\ handler[z].op \in WriteOps
        /\ UNCHANGED sock \/ DropSocket(z)
        /\ \E f : handler' = [handler EXCEPT ![z] = f]
    BY <1>8, WriteShape
  <2>2. handler[z].op \notin Tellers
    BY <2>1 DEF WriteOps
  <2>. HIDE DEF IsTold, Hearing
  <2>3. UNCHANGED sock => (Hearing => Hearing')
    BY DEF Hearing
  <2>. QED
    BY <1>3, <1>6, <2>1, <2>2, <2>3
<1>9. ASSUME NEW z \in ChatSockets, NEW u \in ChatUsers, TellOne(z, u)
      PROVE  Hearing \/ IsTold => (Hearing \/ IsTold)'
  <2>. DEFINE f == handler[z]
  <2>1. Hearing => Hearing'
    BY <1>1, <1>9 DEF TellOne, Consumers
  <2>2. PICK g : handler' = [handler EXCEPT ![z] = g] /\ g = IF f.who = {u} THEN NoFrame ELSE [f EXCEPT !.who = @ \ {u}]
    BY <1>9 DEF TellOne, Onto
  <2>3. ASSUME NEW x \in ChatSockets \ {z}, Telling(handler[x], c, Me(s)) PROVE IsTold'
    BY <1>2, <2>2, <2>3
  <2>4. ASSUME Telling(f, c, Me(s)), ~Hearing PROVE Hearing' \/ IsTold'
    <3>1. f.op = "tell" /\ f.c = c /\ Me(s) \in f.who
      BY <1>9, <2>4 DEF TellOne, Handles, Telling
    <3>2. CASE Me(s) = u
      <4>1. s \in Reached(c, {u})
        BY <1>1, <2>4, <3>2 DEF Reached, Subscribed
      <4>2. s \in ({y \in Reached(c, {u}) : Listens(y)})
        BY <4>1
      <4>3. PICK got \in SUBSET Reached(c, {u}) :
              /\ sock' = [y \in ChatSockets |->
                            IF y \in got THEN [sock[y] EXCEPT !.mail = @ \cup {c}] ELSE sock[y]]
              /\ Miss(c, Reached(c, {u}) \ got)
        BY <1>9, <3>1 DEF TellOne
      <4>4. s \in got
        BY <4>1, <4>3 DEF Miss
      <4>. QED
        BY <1>1, <4>3, <4>4 DEF Consumers
    <3>3. CASE Me(s) # u
      <4>1. handler[z] \in Frames /\ f.who # {u}
        BY <1>1, <3>1, <3>3
      <4>2. g = [op |-> "tell", c |-> c, who |-> f.who \ {u}]
        <5>1. g = [f EXCEPT !.who = @ \ {u}]
          BY <2>2, <4>1
        <5>2. f \in [op : {"add", "seated", "tell"}, c : Convs, who : SUBSET ChatUsers]
          BY <3>1, <4>1 DEF Frames, NoFrame
        <5>. QED
          BY <3>1, <5>1, <5>2
      <4>3. handler'[z] = g /\ Telling(g, c, Me(s))
        BY <1>1, <2>2, <3>1, <3>3, <4>2 DEF Telling
      <4>4. Telling(handler'[z], c, Me(s)')
        BY <4>3 DEF Telling, Me
      <4>. QED
        BY <4>4
    <3>. QED
      BY <3>2, <3>3
  <2>. HIDE DEF Hearing
  <2>5. ASSUME IsTold PROVE Hearing \/ Hearing' \/ IsTold'
    <3>1. PICK x \in ChatSockets : Telling(handler[x], c, Me(s))
      BY <2>5
    <3>. QED
      BY <2>3, <2>4, <3>1
  <2>. HIDE DEF IsTold
  <2>. QED
    BY <2>1, <2>5
<1>10. ASSUME NEW u \in ChatUsers, PresenceExpires(u) PROVE (Hearing => Hearing') /\ (IsTold => IsTold')
  BY <1>4, <1>10 DEF PresenceExpires
<1>11. ASSUME NEW z \in ChatSockets, LoseSocket(z) PROVE Hearing \/ IsTold => (Hearing \/ IsTold)'
  <2>. DEFINE f == handler[z]
  <2>1. z # s /\ (Hearing => Hearing')
    BY <1>6, <1>11 DEF LoseSocket
  <2>2. handler' = [handler EXCEPT ![z] = NoFrame]
    BY <1>11 DEF LoseSocket, DropSocket, Reply, Onto
  <2>3. ASSUME Telling(f, c, Me(s)), ~Hearing PROVE FALSE
    <3>1. f.c = c /\ Me(s) \in ToTell(f)
      BY <1>1, <2>3 DEF Telling, ToTell, MembersOf
    <3>2. s \in Reached(c, ToTell(f)) \ {z}
      BY <1>1, <2>1, <2>3, <3>1 DEF Reached, Subscribed
    <3>3. Miss(c, Reached(c, ToTell(f)) \ {z})
      BY <1>11, <3>1 DEF LoseSocket
    <3>. QED
      BY <3>2, <3>3 DEF Miss
  <2>. HIDE DEF Hearing
  <2>4. ASSUME IsTold PROVE Hearing \/ IsTold'
    <3>1. PICK x \in ChatSockets : Telling(handler[x], c, Me(s))
      BY <2>4
    <3>. QED
      BY <1>2, <2>2, <2>3, <3>1
  <2>. HIDE DEF IsTold
  <2>. QED
    BY <2>1, <2>4
<1>12. ASSUME NEW z \in ChatSockets, Prepare(z) PROVE (Hearing => Hearing') /\ (IsTold => IsTold')
  <2>. DEFINE f == handler[z]
  <2>1. Hearing => Hearing'
    BY <1>1, <1>12 DEF Prepare, JoinOwn, ReadMembers, Pack, Consumers
  <2>2. PICK g : /\ handler' = [handler EXCEPT ![z] = g]
                 /\ \/ f.op = "announce" /\ g = [op |-> "answered", c |-> f.c]
                    \/ f.op = "answered" /\ g = [op |-> "tell", c |-> f.c, who |-> MembersOf(f.c)]
                    \/ f.op = "seated" /\ g = [op |-> "tell", c |-> f.c, who |-> f.who]
    BY <1>12 DEF Prepare, JoinOwn, ReadMembers, Pack, Onto, Handles
  <2>3. ASSUME Telling(f, c, Me(s)) PROVE Telling(g, c, Me(s))
    BY <1>1, <2>2, <2>3 DEF Telling, MembersOf
  <2>4. ASSUME IsTold PROVE IsTold'
    <3>1. PICK x \in ChatSockets : Telling(handler[x], c, Me(s))
      BY <2>4
    <3>2. CASE x = z
      <4>1. handler'[z] = g /\ Telling(g, c, Me(s))
        BY <1>1, <2>2, <2>3, <3>1, <3>2
      <4>2. Telling(handler'[z], c, Me(s)')
        BY <4>1 DEF Telling, Me
      <4>. QED
        BY <4>2
    <3>3. CASE x # z
      BY <1>2, <2>2, <3>1, <3>3
    <3>. QED
      BY <3>2, <3>3
  <2>. QED
    BY <2>1, <2>4
<1>13. Hearing \/ IsTold
  BY DEF Hears
<1>. HIDE DEF Hearing, IsTold
<1>14. (Hearing \/ IsTold)'
  BY <1>5, <1>7, <1>8, <1>9, <1>10, <1>11, <1>12, <1>13 DEF ChatNext
<1>. USE DEF Hearing, IsTold
<1>. QED
  BY <1>14 DEF Hears

\* The rooms of disputes are the only conversations whose seats nobody tells.
LEMMA OrdinaryStep ==
  ASSUME DisputeInv, OrdinaryMembersListen, DisputeNext
  PROVE  OrdinaryMembersListen'
<1>1. ChatInv /\ TalkStep /\ DeskMoves
  BY WholeStep DEF DisputeInv
<1>. SUFFICES ASSUME NEW c \in Convs, Ordinary(c)', NEW s \in ChatSockets,
                     Listens(s)', IsMember(c, Me(s))', <<s, c>> \notin untold'
              PROVE  Hears(s, c)'
  BY DEF OrdinaryMembersListen
<1>2. Ordinary(c)
  BY <1>1 DEF DeskMoves, DisputeMoves, Ordinary
<1>3. PICK u \in ChatUsers : u = Me(s)
  BY SocketsOwned DEF Me
<1>4. row'[c][u].state = "active" /\ u = Me(s)'
  BY <1>3 DEF IsMember, Me
<1>5. IsMember(c, u) \/ (~Seated(c, u) /\ Seated(c, u)')
  BY <1>1, <1>4, RowFields DEF ChatInv, IsMember, Seated, Ordinate
<1>6. ASSUME ChatNext, ~Seated(c, u), Seated(c, u)' PROVE Hears(s, c)'
  BY <1>1, <1>3, <1>4, <1>6, NewSeatsTold DEF Hears
<1>7. ASSUME ChatNext, IsMember(c, u) PROVE Hears(s, c)'
  <2>1. CASE ReadConversations(s)
    <3>1. c \in sock'[s].joined
      BY <1>1, <1>3, <1>7, <2>1 DEF ReadConversations, ConversationsOf, Consumers, ChatInv, ChatTypeOK
    <3>. QED
      BY <3>1 DEF Hears
  <2>2. CASE ~ReadConversations(s)
    <3>1. <<s, c>> \notin untold
      <4>1. untold \subseteq untold' \/ \E z \in ChatSockets : ReadConversations(z)
        BY <1>7 DEF ChatNext, TellOne, LoseSocket, Miss
      <4>2. ASSUME NEW z \in ChatSockets, ReadConversations(z), <<s, c>> \in untold PROVE FALSE
        <5>1. z # s
          BY <2>2, <4>2
        <5>2. <<s, c>> \in untold'
          BY <4>2, <5>1 DEF ReadConversations
        <5>. QED
          BY <5>2
      <4>. QED
        BY <4>1, <4>2
    <3>2. Listens(s)
      <4>. USE DEF ChatInv, ChatTypeOK
      <4>1. sock \in [ChatSockets -> Consumers] /\ sock'[s].state \in {"joining", "open"}
        BY <1>1 DEF Listens
      <4>2. ASSUME NEW z \in ChatSockets, Connection(z) \/ ReadConversations(z) PROVE Listens(s)
        BY <2>2, <4>1, <4>2 DEF Connection, Open, ReadConversations, SetOnline, Disconnect, Deliver, AskListen,
           ClosedSocket, Consumers, Listens
      <4>3. ASSUME UNCHANGED sock PROVE Listens(s)
        BY <4>1, <4>3 DEF Listens
      <4>4. ASSUME NEW z \in ChatSockets, sock' = [sock EXCEPT ![z] = ClosedSocket] PROVE Listens(s)
        BY <4>1, <4>4 DEF Listens, ClosedSocket
      <4>5. ASSUME NEW z \in ChatSockets, FrameOf(z) PROVE UNCHANGED sock
        BY <1>1, <4>5, AskedFrames DEF Ask, EndCall
      <4>6. ASSUME NEW z \in ChatSockets, Write(z)
            PROVE  UNCHANGED sock \/ sock' = [sock EXCEPT ![z] = ClosedSocket]
        BY <4>6, WriteShape DEF DropSocket
      <4>7. ASSUME NEW z \in ChatSockets, Prepare(z) PROVE Listens(s)
        <5>1. sock[s] \in Consumers
          BY <4>1
        <5>. QED
          BY <4>1, <4>7, <5>1 DEF Prepare, JoinOwn, ReadMembers, Pack, Consumers, Listens
      <4>8. ASSUME NEW z \in ChatSockets, NEW v \in ChatUsers, TellOne(z, v) PROVE Listens(s)
        <5>1. sock[s] \in Consumers
          BY <4>1
        <5>. QED
          BY <4>1, <4>8, <5>1 DEF TellOne, Consumers, Listens
      <4>9. ASSUME NEW z \in ChatSockets, LoseSocket(z) PROVE Listens(s)
        BY <4>4, <4>9 DEF LoseSocket, DropSocket
      <4>10. ASSUME NEW v \in ChatUsers, PresenceExpires(v) PROVE UNCHANGED sock
        BY <4>10 DEF PresenceExpires
      <4>. QED
        BY <1>7, <4>2, <4>3, <4>4, <4>5, <4>6, <4>7, <4>8, <4>9, <4>10 DEF ChatNext
    <3>3. Hears(s, c)
      BY <1>2, <1>3, <1>7, <3>1, <3>2 DEF OrdinaryMembersListen
    <3>. QED
      BY <1>1, <1>3, <1>7, <3>2, <3>3, HearingStays
  <2>. QED
    BY <2>1, <2>2
<1>8. ASSUME NEW w \in Desks, DisputeStep(w), UNCHANGED untold PROVE Hears(s, c)'
  <2>1. UNCHANGED <<sock, handler>>
    BY <1>8, DeskLeavesSockets
  <2>2. IsMember(c, u)
    <3>1. CASE CommitOpen(w)
      <4>1. PICK d \in Convs, x \in DisputeIds :
              /\ dispute[x] = NoDispute
              /\ \E line : row' = [row EXCEPT ![d] = line]
              /\ dispute' = [dispute EXCEPT ![x] = [status |-> "open", moderator |-> {}, room |-> d]]
        BY <3>1 DEF CommitOpen
      <4>2. dispute'[x] = [status |-> "open", moderator |-> {}, room |-> d]
        BY <4>1 DEF DisputeInv, DisputeTypeOK
      <4>3. d # c
        BY <4>2 DEF Ordinary, NoDispute
      <4>4. row'[c] = row[c]
        BY <1>1, <4>1, <4>3 DEF ChatInv, ChatTypeOK
      <4>. QED
        BY <1>4, <4>4 DEF IsMember
    <3>2. CASE CommitAssign(w)
      <4>1. desk[w].call = "assign" /\ \E line : row' = [row EXCEPT ![dispute[desk[w].d].room] = line]
        BY <3>2 DEF CommitAssign
      <4>2. desk[w].d \in DisputeIds /\ dispute[desk[w].d] # NoDispute
        BY <4>1, CallTypes DEF DisputeInv
      <4>3. dispute[desk[w].d].room # c
        BY <1>2, <4>2 DEF Ordinary
      <4>4. row'[c] = row[c]
        BY <1>1, <4>1, <4>3 DEF ChatInv, ChatTypeOK
      <4>. QED
        BY <1>4, <4>4 DEF IsMember
    <3>3. CASE UNCHANGED row
      BY <1>4, <3>3 DEF IsMember
    <3>. QED
      BY <1>8, <3>1, <3>2, <3>3 DEF DisputeStep, BeginOpen, BeginAssign, BeginResolve, CommitResolve, Serve, tables
  <2>3. Hears(s, c)
    BY <1>2, <1>3, <1>8, <2>1, <2>2 DEF OrdinaryMembersListen, Listens
  <2>. QED
    BY <2>1, <2>3 DEF Hears, Me
<1>. QED
  BY <1>5, <1>6, <1>7, <1>8 DEF DisputeNext

\* Whoever is a member of a conversation that no dispute opened hears it on
\* every socket that has read its user's conversations, or is about to be told
\* of it, or the telling was lost: connecting and being added, in whatever
\* order, loses no conversation while nobody who tells dies and no event is
\* dropped.
THEOREM MembersListen == DisputeSpec => []OrdinaryMembersListen
<1>1. DisputeInv /\ OrdinaryMembersListen /\ [DisputeNext]_disputeVars => OrdinaryMembersListen'
  <2>. SUFFICES ASSUME DisputeInv, OrdinaryMembersListen, UNCHANGED disputeVars
                PROVE  OrdinaryMembersListen'
    BY OrdinaryStep
  <2>. QED
    BY DEF OrdinaryMembersListen, Ordinary, Hears, Listens, IsMember, Me, disputeVars, deskVars, chatVars, tables
<1>. QED
  BY <1>1, TalkStart, TalkKept, PTL DEF DisputeSpec

\* No step of chats or disputes brings a member back who left, takes a deletion
\* or an ownership back, or makes a processed request pending again.
THEOREM PastHolds == DisputeSpec => ChatPastKept
<1>1. DisputeInv /\ [DisputeNext]_disputeVars => [PastIsPast]_chatVars
  <2>. SUFFICES ASSUME DisputeInv, DisputeNext PROVE PastIsPast
    BY DEF disputeVars
  <2>1. ChatTypeOK /\ TalkStep
    BY WholeStep DEF DisputeInv, ChatInv
  <2>2. ASSUME NEW c \in Convs, NEW u \in ChatUsers
        PROVE  /\ row[c][u].state = "left" => row'[c][u].state = "left"
               /\ row[c][u].role = "owner" => row'[c][u].role = "owner"
               /\ request[c][u] \in {"approved", "rejected"} => request'[c][u] # "pending"
    <3>1. row[c][u].state = "left" => row'[c][u].state = "left"
      BY <2>1, RowFields DEF Seated
    <3>2. row[c][u].role = "owner" => row'[c][u].role = "owner"
      BY <2>1, RowFields DEF Ordinate, DisputeInv, ChatInv, OwnersStay, IsMember, Seated
    <3>3. RequestMoves(c, u)
      BY <2>1 DEF TalkStep
    <3>. QED
      BY <3>1, <3>2, <3>3 DEF RequestMoves
  <2>3. \A m \in Msgs : msg[m] # NoMessage /\ msg[m].deleted => msg'[m].deleted
    BY <2>1 DEF TalkStep, MessageMoves
  <2>. QED
    BY <2>2, <2>3 DEF PastIsPast
<1>. QED
  BY <1>1, TalkStart, TalkKept, PTL DEF DisputeSpec, ChatPastKept
=============================================================================
