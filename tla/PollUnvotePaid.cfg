SPECIFICATION Spec
CONSTANTS
  v1 = v1
  v2 = v2
  p1 = p1
  yes = yes
  no = no
  Voters = {v1, v2}
  Options = {yes, no}
  Payments = {p1}
  Workers = {w1, w2}
  VoterOf <- MixVoterOf
  OptionOf <- MixOptionOf
  Qty <- MixQty
  Kinds = {"single", "multiple"}
  MaxCount = 1
  MaxEdits = 0
CHECK_DEADLOCK FALSE
SYMMETRY WorkerSymmetry
INVARIANT PaidVotesStay
