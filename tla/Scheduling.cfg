SPECIFICATION TimedSpec
CONSTANTS
  Node <- TwoNodes
  Candidate <- TwoNodes
  Beating <- TwoNodes
  Command = {a}
  Empty = empty
  Network = "reliable"
  MaxSlot = 1
  MaxRound = 2
  MaxSubmits = 1
  MaxInTransit = 99
  SelectRounds = 10
  HeartbeatTicks = 2
  ElectionTicks = 3
  BaseTimeout = 14
  MaxSkew = 8
INVARIANTS TimedTypeOK OnePlace NoLostWakeUp
PROPERTIES LeaderKeepsOffice
CHECK_DEADLOCK FALSE
