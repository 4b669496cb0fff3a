CONSTANTS
  Node <- TwoNodes
  Start = "open"
  Replication = "reordering"
  Keys <- Clicking
  InitialLength = 1
  MaxEdits = 2
  MaxTyped = 2
  MaxCopies = 1
SPECIFICATION Spec
INVARIANTS TypeOK DocumentsAgree ViewFollowsDocument
CHECK_DEADLOCK FALSE
