\* ClientManager alone: registry and arbitration under every call sequence.
CONSTANTS
  c1 = c1
  c2 = c2
  c3 = c3
  fX = fX
  NoValue = NoValue
  NaN = NaN
  Clients <- MCClients
  Fields <- MCFields
  DefaultReportInterval = 100
  MinSupportedReportInterval = 10
  ULONG_MAX = 1000
  IntervalInputs <- MCIntervalInputs
  DefaultSensitivity <- MCDefaultSensitivity
  SensitivityInputs <- MCSensitivityInputs
SPECIFICATION Spec
INVARIANT CMTypeOK
INVARIANT CountsConsistent
INVARIANT ArbitratedReportInterval
INVARIANT ArbitratedSensitivity
SYMMETRY MCSymmetry
