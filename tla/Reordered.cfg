CONSTANTS
  Node <- TwoNodes
  Candidate <- TwoCandidates
  Beating <- TwoCandidates
  Command = {a, e}
  Empty = e
  Network = "reordering"
  MaxSlot = 2
  MaxRound = 2
  MaxSubmits = 1
  MaxInTransit = 1
SPECIFICATION Spec
INVARIANTS
  TypeOK ElectionInv ValueInv AppliedAtMostSubmitted
  OneLeaderPerBallot OneValuePerBallot ElectionQuorum
PROPERTIES ElectionCommitsNothing
CHECK_DEADLOCK FALSE
