SPECIFICATION ServiceSpec
CONSTANTS
  Specs = {"s1"}
INVARIANTS
  UninstallStopsTheService
