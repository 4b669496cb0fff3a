CONSTANTS
  Node <- ThreeNodes
  Candidate <- OneCandidate
  Beating <- Nobody
  Command = {a, b}
  Empty = empty
  Network = "reliable"
  MaxSlot = 2
  MaxRound = 1
  MaxSubmits = 1
  MaxInTransit = 9
  Restarting <- Nobody
  MaxRestarts = 0
SPECIFICATION FairSpec
PROPERTIES ImplementsReplicatedLog EveryProposalApplied
CHECK_DEADLOCK FALSE
