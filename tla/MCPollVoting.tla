---------------------------- MODULE MCPollVoting ----------------------------
(* Small instances of PollVoting for TLC. *)
EXTENDS PollVoting, TLC

CONSTANTS v1, v2, p1, yes, no

\* One payment, for two votes, by a voter who also votes freely.
MixVoterOf  == p1 :> v1
MixOptionOf == p1 :> yes
MixQty      == p1 :> 2

WorkerSymmetry == Permutations(Workers)
=============================================================================
