SPECIFICATION Spec
CONSTANTS
  a = a  b = b  c = c  d = d  e = e
  SNI = {a, b, c, d, e}
  EpochLen = 2
  MaxEpoch = 4
  KeyedEpochSubset <- MCSubset
  Period = 3
  MaxSkew = 3
  MaxClock = 9
  None = None
INVARIANTS
  TypeOK
  SkewAndLagTolerated
  CommonNameWithinTwoEpochs
PROPERTY
  AcceptedWhenEpochsAgree
