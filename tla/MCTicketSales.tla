--------------------------- MODULE MCTicketSales ---------------------------
(* Small instances of TicketSales for TLC. *)
EXTENDS TicketSales, TLC

CONSTANTS p1, p2, std, vip

\* Two requests for the same tier, one for one seat and one for two: with
\* three seats both fit, with two only one of them does.  The second tier has
\* a seat that nobody buys, which counts in the event's totals.
PairTierOf == (p1 :> std) @@ (p2 :> std)
PairQty    == (p1 :> 1) @@ (p2 :> 2)
Roomy      == (std :> 3) @@ (vip :> 1)
Tight      == (std :> 2) @@ (vip :> 1)
Prices     == (std :> 3) @@ (vip :> 5)

\* A rush: every buyer wants one seat of the same tier.
RushTierOf == [p \in Purchases |-> std]
RushQty    == [p \in Purchases |-> 1]

WorkerSymmetry == Permutations(Workers)
RushSymmetry   == Permutations(Purchases) \cup Permutations(Workers)
=============================================================================
