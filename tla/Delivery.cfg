CONSTANTS
  Node <- TwoNodes
  Script <- Talk
  WordSize = 256
  MaxFrame = 18
  Crashing <- Receiver
  Quitting <- Receiver
  SignalOnClosed = TRUE
SPECIFICATION FairSpec
INVARIANTS TypeOK OrderedOnOneConnection EntriesSurvive
PROPERTIES ImplementsChannels EventuallyHanded
CHECK_DEADLOCK FALSE
