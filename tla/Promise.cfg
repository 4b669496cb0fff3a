CONSTANTS
  Node <- ThreeNodes
  Candidate <- TwoCandidates
  Beating <- Nobody
  Command = {a}
  Empty = empty
  Network = "reliable"
  MaxSlot = 1
  MaxRound = 1
  MaxSubmits = 1
  MaxInTransit = 2
SPECIFICATION Spec
PROPERTIES AcceptorKeepsPromise
CHECK_DEADLOCK FALSE
