CONSTANTS
  Node <- TwoNodes
  Start = "open"
  Replication = "ordered"
  Keys <- Typewriter
  InitialLength = 1
  MaxEdits = 1
  MaxTyped = 2
  MaxCopies = 1
SPECIFICATION Spec
INVARIANTS NoReplicaDies
CHECK_DEADLOCK FALSE
