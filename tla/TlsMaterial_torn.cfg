SPECIFICATION Spec
CONSTANTS
  Proc = {p1}
  MaxId = 2
INVARIANTS
  LaterRunsServe
