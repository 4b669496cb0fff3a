CONSTANTS
  Node <- OneNode
  Start = "cold"
  Replication = "dropping"
  Keys <- Deleting
  InitialLength = 1
  MaxEdits = 2
  MaxTyped = 2
  MaxCopies = 2
SPECIFICATION FairSpec
INVARIANTS ShowsEachEditOnce
PROPERTIES EditTakesEffect
CHECK_DEADLOCK FALSE
