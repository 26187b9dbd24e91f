INIT Init_
NEXT Next_
CONSTANTS
  Proc = {p1}
  MaxId = 4
  Specs = {"s1", "s2"}
  Bins <- MCBins
  MaxVersion = 2
  MaxConfig = 3
INVARIANTS
  TypeOK
  PinStable
  ServesWhatItPrinted
  InstalledMeans
  RemovedMeans
  AllInstallsOneBuild
PROPERTIES
  StartsWhatWasInstalled
  ConfigKept
