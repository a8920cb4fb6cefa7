SPECIFICATION FairSpec
CONSTANTS
  v1 = v1
  v2 = v2
  p1 = p1
  yes = yes
  no = no
  Voters = {v1}
  Options = {yes}
  Payments = {p1}
  Workers = {w1}
  VoterOf <- MixVoterOf
  OptionOf <- MixOptionOf
  Qty <- MixQty
  Kinds = {"single"}
  MaxCount = 1
  MaxEdits = 1
CHECK_DEADLOCK FALSE
INVARIANTS PayoutPerTask PayoutBacked
PROPERTIES DueCloses PayoutFollows
