SPECIFICATION Spec
CONSTANTS
  AppData <- MCAppData
  DestData <- MCDestData
  MaxSkew = 1
  Skews <- MCNoSkew
  MaxClock = 1
INVARIANTS
  AuthFailMeansAuth
CHECK_DEADLOCK FALSE
