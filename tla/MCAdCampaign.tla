---------------------------- MODULE MCAdCampaign ----------------------------
(* Small instances of AdCampaign for TLC. *)
EXTENDS AdCampaign, TLC

CONSTANTS b1, b2

\* An impression whose beacon has a dedupe_key, and a click without one.
MixKindOf == (b1 :> "impression") @@ (b2 :> "click")
MixKeyed  == (b1 :> TRUE) @@ (b2 :> FALSE)
MixRuns   == (b1 :> 2) @@ (b2 :> 1)
MixPrices == {[kind |-> "click", bid |-> 1]}

\* A window that lies ahead at first, and one that no edit may set.
OneWindow == {<<1, 2>>, <<2, 1>>}

WorkerSymmetry == Permutations(Workers)
=============================================================================
