SPECIFICATION FairSpec
CONSTANTS
  AppData <- MCAppData
  DestData <- MCDestData
  MaxSkew = 1
  Skews <- MCSkews
  MaxClock = 1
INVARIANTS
  TypeOK
  OnlyHeaderBeforeReply
  VerdictMatchesServer
  OpenedWithinSkew
PROPERTIES
  ImplementsPipe
  VerdictComes
  HalfCloseDelivers
CHECK_DEADLOCK FALSE
