----------------------------- MODULE EventDesk -----------------------------
(***************************************************************************)
(* A seller's application, one event of theirs and its payouts             *)
(* (src/tickets: seller_service, event_service, payout_service and their   *)
(* views).  Every call reads a row with an unlocked query, checks it, and  *)
(* later saves what it set on its copy: some columns, or, in an edit,      *)
(* every column.  What a purchase does to its reservation is TicketSales;  *)
(* here it is a check that the event is on sale, a row, and verifications  *)
(* of its payment that each add to the event's totals: two that overlap,   *)
(* or one after a release of the paid purchase, add it twice.              *)
(***************************************************************************)
EXTENDS Integers, FiniteSets

CONSTANTS
  Payouts,      \* payouts that may come to exist
  Clerks,       \* threads serving calls
  Sales,        \* purchases that may come to exist
  TicketPrice,  \* TicketPurchase.total_amount, what a sale adds to total_revenue
  Commission,   \* SellerProfile.commission_rate, in percent
  MaxDeskCalls  \* bound: calls served

ASSUME PriceNat      == TicketPrice \in Nat
ASSUME RatePercent   == Commission \in 0 .. 100
ASSUME DeskCallsNat  == MaxDeskCalls \in Nat

VARIABLES
  profile,   \* SellerProfile.status
  event,     \* the Event row: status, ended (ends_at has passed), rev, deleted
  sale,      \* sale[b]: TicketPurchase.payment_status, "open" for all but successful
  payout,    \* payout[p]: the Payout row: status, amount
  clerk,     \* clerk[w]: the call thread w serves, with what it read
  calls2do,  \* calls still to come
  past,      \* what has happened, not a row: an approval, a publication, an end
  books      \* no row either: the purchases bought, for how much, and what
             \* confirmations that repeated one of them added

eventDeskVars == <<profile, event, sale, payout, clerk, calls2do, past, books>>

SellerStates == {"none", "pending", "approved", "rejected", "suspended"}
EventStates  == {"none", "draft", "published", "cancelled", "completed"}
EventRows    == [status : EventStates, ended : BOOLEAN, rev : Nat, deleted : BOOLEAN]
NoEvent      == [status |-> "none", ended |-> FALSE, rev |-> 0, deleted |-> FALSE]
SaleStates   == {"none", "open", "successful"}
PayoutStates == {"requested", "paid", "rejected"}
PayoutRows   == [status : PayoutStates, amount : Nat]
NoPayout     == [status |-> "none", amount |-> 0]
Idle         == [call |-> "idle"]
Histories    == [approved : BOOLEAN, published : BOOLEAN, over : BOOLEAN]
Ledgers      == [bought : SUBSET Sales, sold : Nat, again : Nat]
ClerkCalls   == {Idle, [call |-> "create"]}
                \cup [call : {"buy", "verify"}, b : Sales]
                \cup [call : {"edit", "publish", "cancel", "delete"}, copy : EventRows]
                \cup [call : {"request"}, gross : Nat]
                \cup [call : {"paid", "rejected"}, p : Payouts]

DeskInit ==
  /\ profile = "none"
  /\ event = NoEvent
  /\ sale = [b \in Sales |-> "none"]
  /\ payout = [p \in Payouts |-> NoPayout]
  /\ clerk = [w \in Clerks |-> Idle]
  /\ calls2do = MaxDeskCalls
  /\ past = [approved |-> FALSE, published |-> FALSE, over |-> FALSE]
  /\ books = [bought |-> {}, sold |-> 0, again |-> 0]

Take(w, call) ==
  /\ clerk[w] = Idle /\ calls2do > 0
  /\ calls2do' = calls2do - 1
  /\ clerk' = [clerk EXCEPT ![w] = call]
  /\ UNCHANGED <<profile, event, sale, payout, past, books>>
Close(w) == clerk' = [clerk EXCEPT ![w] = Idle] /\ UNCHANGED calls2do

-----------------------------------------------------------------------------
(* Sellers *)

\* An application, a first one or not, makes the profile pending again, a
\* suspended one too; a review and a suspension ask for no earlier status.
Reviewed(to) ==
  /\ calls2do > 0 /\ calls2do' = calls2do - 1
  /\ profile' = to
  /\ past' = [past EXCEPT !.approved = @ \/ to = "approved"]
  /\ UNCHANGED <<event, sale, payout, clerk, books>>
Apply   == Reviewed("pending")
Review  == profile # "none" /\ \E to \in {"approved", "rejected"} : Reviewed(to)
Suspend == profile # "none" /\ Reviewed("suspended")

IsApproved == profile = "approved"

-----------------------------------------------------------------------------
(* Events *)

BeginCreate(w) ==
  /\ IsApproved /\ event = NoEvent
  /\ \A z \in Clerks : clerk[z] # [call |-> "create"]
  /\ Take(w, [call |-> "create"])
CommitCreate(w) ==
  /\ clerk[w].call = "create"
  /\ event' = [NoEvent EXCEPT !.status = "draft"]
  /\ Close(w)
  /\ UNCHANGED <<profile, sale, payout, past, books>>

\* A view reads the seller's event; its service checks the status it read.
Existing == event # NoEvent /\ ~event.deleted
BeginEvent(w, call, status) ==
  /\ Existing /\ event.status \in status
  /\ Take(w, [call |-> call, copy |-> event])
BeginEdit(w)    == BeginEvent(w, "edit", {"draft"})
BeginPublish(w) == BeginEvent(w, "publish", {"draft"})
BeginCancel(w)  == BeginEvent(w, "cancel", {"published"})
BeginDelete(w)  == BeginEvent(w, "delete", EventStates)

\* event.save(): every column of the copy, with another ends_at perhaps.
CommitEdit(w) ==
  /\ clerk[w].call = "edit"
  /\ \E ended \in BOOLEAN : event' = [clerk[w].copy EXCEPT !.ended = ended]
  /\ past' = [past EXCEPT !.over = @ \/ event'.ended]
  /\ Close(w)
  /\ UNCHANGED <<profile, sale, payout, books>>

\* save(update_fields=["status"]), and the soft deletion.
CommitEvent(w) ==
  /\ \/ /\ clerk[w].call = "publish"
        /\ event' = [event EXCEPT !.status = "published"]
     \/ /\ clerk[w].call = "cancel"
        /\ event' = [event EXCEPT !.status = "cancelled"]
     \/ /\ clerk[w].call = "delete"
        /\ event' = [event EXCEPT !.deleted = TRUE]
  /\ past' = [past EXCEPT !.published = @ \/ event'.status = "published",
                          !.over = @ \/ event'.status = "cancelled"]
  /\ Close(w)
  /\ UNCHANGED <<profile, sale, payout, books>>

\* mark_completed asks for no earlier status.
Complete ==
  /\ Existing /\ event.status # "completed"
  /\ calls2do > 0 /\ calls2do' = calls2do - 1
  /\ event' = [event EXCEPT !.status = "completed"]
  /\ past' = [past EXCEPT !.over = TRUE]
  /\ UNCHANGED <<profile, sale, payout, clerk, books>>

EndPasses ==
  /\ Existing /\ ~event.ended
  /\ event' = [event EXCEPT !.ended = TRUE]
  /\ past' = [past EXCEPT !.over = TRUE]
  /\ UNCHANGED <<profile, sale, payout, clerk, calls2do, books>>

\* A purchase: the event must be on sale when it begins, and the row is
\* written whatever the event's status is by then, or refused for its tier.
SellableAny == Existing
Sellable    == Existing /\ event.status = "published"
BeginBuy(w, b) ==
  /\ sale[b] = "none" /\ Sellable
  /\ \A z \in Clerks : clerk[z] # [call |-> "buy", b |-> b]
  /\ Take(w, [call |-> "buy", b |-> b])
CommitBuy(w) ==
  /\ clerk[w].call = "buy"
  /\ sale' \in {sale, [sale EXCEPT ![clerk[w].b] = "open"]}
  /\ Close(w)
  /\ UNCHANGED <<profile, event, payout, past, books>>

\* A verification reads the status without a lock and asks the gateway.  When
\* that says paid, it adds the amount, whatever others did meanwhile; when
\* not, it releases the purchase; an exception leaves everything.
BeginVerify(w, b) == sale[b] = "open" /\ Take(w, [call |-> "verify", b |-> b])
CommitVerify(w) ==
  /\ clerk[w].call = "verify"
  /\ event' = [event EXCEPT !.rev = @ + TicketPrice]
  /\ sale' = [sale EXCEPT ![clerk[w].b] = "successful"]
  /\ books' = IF clerk[w].b \in books.bought
              THEN [books EXCEPT !.again = @ + TicketPrice]
              ELSE [books EXCEPT !.sold = @ + TicketPrice, !.bought = @ \cup {clerk[w].b}]
  /\ Close(w)
  /\ UNCHANGED <<profile, payout, past>>
RefuseVerify(w) ==
  /\ clerk[w].call = "verify"
  /\ sale' \in {sale, [sale EXCEPT ![clerk[w].b] = "open"]}
  /\ Close(w)
  /\ UNCHANGED <<profile, event, payout, past, books>>

\* A failed charge's webhook releases the purchase, a paid one too.
ChargeFails(b) ==
  /\ sale[b] = "successful"
  /\ calls2do > 0 /\ calls2do' = calls2do - 1
  /\ sale' = [sale EXCEPT ![b] = "open"]
  /\ UNCHANGED <<profile, event, payout, clerk, past, books>>

-----------------------------------------------------------------------------
(* Payouts *)

Net(gross) == gross - (gross * Commission) \div 100
Awaited    == {p \in Payouts : payout[p].status = "requested"}
Over       == event.ended \/ event.status \in {"completed", "cancelled"}

BeginRequest(w) ==
  /\ IsApproved /\ Existing /\ Over
  /\ Awaited = {}
  /\ Net(event.rev) > 0
  /\ Take(w, [call |-> "request", gross |-> event.rev])
CommitRequest(w) ==
  /\ clerk[w].call = "request"
  /\ \E p \in Payouts :
       /\ payout[p] = NoPayout
       /\ payout' = [payout EXCEPT ![p] =
            [status |-> "requested", amount |-> Net(clerk[w].gross)]]
  /\ Close(w)
  /\ UNCHANGED <<profile, event, sale, past, books>>

\* Paid, or rejected: from the status read, to the status row only.
BeginProcess(w, p, to) ==
  payout[p].status = "requested" /\ Take(w, [call |-> to, p |-> p])
CommitProcess(w) ==
  /\ clerk[w].call \in {"paid", "rejected"}
  /\ payout' = [payout EXCEPT ![clerk[w].p].status = clerk[w].call]
  /\ Close(w)
  /\ UNCHANGED <<profile, event, sale, past, books>>

-----------------------------------------------------------------------------
ClerkStep(w) ==
  \/ BeginCreate(w) \/ CommitCreate(w)
  \/ BeginEdit(w) \/ BeginPublish(w) \/ BeginCancel(w) \/ BeginDelete(w)
  \/ CommitEdit(w) \/ CommitEvent(w)
  \/ \E b \in Sales : BeginBuy(w, b) \/ BeginVerify(w, b)
  \/ CommitBuy(w) \/ CommitVerify(w) \/ RefuseVerify(w)
  \/ BeginRequest(w) \/ CommitRequest(w)
  \/ \E p \in Payouts, to \in {"paid", "rejected"} : BeginProcess(w, p, to)
  \/ CommitProcess(w)

DeskNext ==
  \/ Apply \/ Review \/ Suspend \/ Complete \/ EndPasses
  \/ \E b \in Sales : ChargeFails(b)
  \/ \E w \in Clerks : ClerkStep(w)

DeskSpec == DeskInit /\ [][DeskNext]_eventDeskVars

-----------------------------------------------------------------------------
(* Properties *)

\* Every row, call and ledger keeps its type.
DeskTypeOK ==
  /\ profile \in SellerStates
  /\ event \in EventRows
  /\ sale \in [Sales -> SaleStates]
  /\ payout \in [Payouts -> PayoutRows \cup {NoPayout}]
  /\ clerk \in [Clerks -> ClerkCalls]
  /\ calls2do \in 0 .. MaxDeskCalls
  /\ past \in Histories
  /\ books \in Ledgers

\* What the confirmations added, the repeated ones included.
Booked == books.sold + books.again

\* Edits from outdated copies may lose revenue that was booked, but neither
\* the event nor a copy of it ever shows more than the purchases that were
\* bought and the confirmations that repeated one of them.
RevenueBacked ==
  /\ event.rev <= Booked
  /\ \A w \in Clerks :
       /\ clerk[w].call \in {"edit", "publish", "cancel", "delete"} => clerk[w].copy.rev <= Booked
       /\ clerk[w].call = "request" => clerk[w].gross <= Booked

\* A payout is never for more than what was bought and, at worst, what
\* repeated confirmations added, and there is none before the event had
\* ended, was completed or was cancelled.
PayoutsEarned ==
  \A p \in Payouts : payout[p].status # "none" =>
    payout[p].amount <= Booked /\ past.over

\* Only an approved seller gets an event, nothing is bought of one that was
\* never published, and what is added again was bought before.
SoldWhatWasPublished ==
  /\ event # NoEvent => past.approved
  /\ books.bought # {} => past.published
  /\ Booked > 0 => books.bought # {}

\* What the three rest on: an approval, a publication or an end that a row
\* shows, or that a call once read, did happen; an edit's copy is a draft;
\* a purchase was begun while the event was published.
DeskRemembers ==
  /\ IsApproved => past.approved
  /\ event.status = "published" => past.published
  /\ Over => past.over
  /\ \A b \in Sales : sale[b] # "none" => past.published /\ past.approved
  /\ \A w \in Clerks :
       /\ clerk[w].call \in {"create", "edit", "publish", "cancel", "delete"} => past.approved
       /\ clerk[w].call = "edit" => clerk[w].copy.status = "draft"
       /\ clerk[w].call \in {"buy", "verify"} => past.published /\ past.approved
       /\ clerk[w].call = "request" => past.over
       /\ clerk[w].call \in {"paid", "rejected"} => payout[clerk[w].p].status # "none"

\* The sellers' desk as a whole: every call acts on rows read earlier, and
\* still no payout, edit or sale gets ahead of what happened.
DeskInv ==
  DeskTypeOK /\ RevenueBacked /\ PayoutsEarned /\ SoldWhatWasPublished /\ DeskRemembers
=============================================================================
