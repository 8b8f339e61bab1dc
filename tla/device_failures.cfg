\* One queue thread; any single SPB register access of a sequence may fail.
CONSTANTS
  c1 = c1
  c2 = c2
  fX = fX
  t1 = t1
  t2 = t2
  NoValue = NoValue
  NaN = NaN
  Clients <- MCClients
  Fields <- MCFields
  Threads <- OneThread
  RegisterAccessMayFail = TRUE
  DefaultReportInterval = 100
  MinSupportedReportInterval = 10
  ULONG_MAX = 1000
  IntervalInputs <- MCIntervalInputs
  DefaultSensitivity <- MCDefaultSensitivity
  SensitivityInputs <- MCSensitivityInputs
SPECIFICATION Spec
INVARIANT SamplingModeMeasures
SYMMETRY MCSymmetry
