----------------------------- MODULE TierLedger -----------------------------
(***************************************************************************)
(* What the inventory of an event promises: every price tier is a bounded  *)
(* pool whose seats move between three places, free, held and sold.        *)
(* Reserving takes free seats, releasing gives held seats back and         *)
(* selling turns held seats into sold ones; sold seats never return.       *)
(* Nothing is said here about purchases, locks, payments or retries:       *)
(* TicketSales is the code, and it is shown to implement this ledger.      *)
(***************************************************************************)
EXTENDS Naturals

CONSTANTS
  Tiers,     \* the price tiers of one event
  Quantity   \* Quantity[t]: seats on sale in tier t

VARIABLES
  sold,      \* sold[t]: PriceTier.quantity_sold
  held       \* held[t]: PriceTier.quantity_reserved

Init ==
  /\ sold = [t \in Tiers |-> 0]
  /\ held = [t \in Tiers |-> 0]

Reserve(t, n) ==
  /\ sold[t] + held[t] + n <= Quantity[t]
  /\ held' = [held EXCEPT ![t] = @ + n]
  /\ UNCHANGED sold

Release(t, n) ==
  /\ n <= held[t]
  /\ held' = [held EXCEPT ![t] = @ - n]
  /\ UNCHANGED sold

Sell(t, n) ==
  /\ n <= held[t]
  /\ sold' = [sold EXCEPT ![t] = @ + n]
  /\ held' = [held EXCEPT ![t] = @ - n]

Next ==
  \E t \in Tiers : \E n \in 1 .. Quantity[t] :
    Reserve(t, n) \/ Release(t, n) \/ Sell(t, n)

Spec == Init /\ [][Next]_<<sold, held>>
=============================================================================
