CONSTANTS
  Node <- ThreeNodes
  Candidate <- TwoCandidates
  Beating <- Nobody
  Command = {a, b}
  Empty = empty
  Network = "lossy"
  MaxSlot = 1
  MaxRound = 1
  MaxSubmits = 1
  MaxInTransit = 2
SPECIFICATION Spec
INVARIANTS Agreement
CHECK_DEADLOCK FALSE
