SPECIFICATION FairSpec
CONSTANTS
  FileSizes = {1, 3, 4, 5}
  LongSize = 4
  SendSpace = 4
  MaxCommands = 1
INVARIANTS
  TypeOK
  SavedIsServers
  Delivered
PROPERTIES
  CommandEnds
  HandlerEnds
CHECK_DEADLOCK FALSE
