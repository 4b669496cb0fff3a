CONSTANTS
  Node <- TwoNodes
  Candidate <- OneCandidate
  Beating <- OneCandidate
  Command = {a, empty}
  Empty = empty
  Network = "lossy"
  MaxSlot = 2
  MaxRound = 1
  MaxSubmits = 1
  MaxInTransit = 9
  Restarting <- Follower
  MaxRestarts = 1
SPECIFICATION FairSpec
INVARIANTS AppliedMatchesLog Agreement
PROPERTIES ImplementsReplicatedLog CatchUp
CHECK_DEADLOCK FALSE
