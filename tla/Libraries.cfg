INIT Init_
NEXT Next_
CONSTANTS
  material = material
  End = {client_end, server_end}
  RawConfigs <- MCRawConfigs
  KeyMaterial = {material}
  Epochs = {0}
  MaxLen = 3
  MaxDraw = 2
  Base = 6
  TsLen = 2
  V4Len = 2
  V6Len = 3
  PortLen = 2
  MacLen = 2
  MaxDomainLen = 3
  MaxHeader = 13
  MaxSkew = 2
  Utf8 <- MCUtf8
  Targets <- MCTargets
  Stamps <- MCStamps
  Payloads <- MCPayloads
  AllNames <- MCNames
  Width = 4
  Amounts = {1, 2}
  MaxAdded = 5
  Master <- MCMaster
  Lower <- MCLower
  Cidrs <- MCCidrs
  Answers <- MCAnswers
  Observations <- MCObservations
  MinRtt = 1
  MaxRtt = 3
  VersionLen = 1
  StampLen = 2
  ShortIdField = 2
  MaxShortId = 3
  ShortIds <- MCShortIds
  ServerKeys = {"k1", "k2"}
  ServerKey = "k1"
  ServerIds <- MCServerIds
  MaxTimeDiff = 2
  Skews <- MCSkews
  Times <- MCTimes
INVARIANTS
  TypeOK
  PoolsNest
  PoolSize
  HeavierStaysIn
  AsksForWhatIsMissing
  AcceptsWhatWasSent
  RefusalHasItsCause
  SnapshotIsRecent
  DeltasAddUp
  PruneIsExact
  AcceptedMeans
  RelayedForCause
