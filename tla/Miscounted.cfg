CONSTANTS
  Node <- TwoNodes
  Candidate <- TwoCandidates
  Beating <- Nobody
  Command = {a}
  Empty = empty
  Network = "reordering"
  MaxSlot = 1
  MaxRound = 2
  MaxSubmits = 1
  MaxInTransit = 2
SPECIFICATION Spec
INVARIANTS CommitBackedByQuorum
CHECK_DEADLOCK FALSE
