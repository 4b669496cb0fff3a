CONSTANTS
  Node <- OneNode
  Start = "open"
  Replication = "ordered"
  Keys <- Typewriter
  InitialLength = 1
  MaxEdits = 1
  MaxTyped = 1
  MaxCopies = 2
SPECIFICATION Spec
INVARIANTS ViewFollowsDocument
CHECK_DEADLOCK FALSE
