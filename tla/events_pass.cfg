\* One client and one queue thread with the interrupt path, the report
\* manager's eventing thread and D0 transitions; reliable register accesses.
CONSTANTS
  c1 = c1
  fX = fX
  t1 = t1
  NoValue = NoValue
  NaN = NaN
  Clients <- MCClients
  Fields <- MCFields
  Threads <- OneThread
  RegisterAccessMayFail = FALSE
  DefaultReportInterval = 1
  MinSupportedReportInterval = 1
  ULONG_MAX = 2
  IntervalInputs <- MCIntervalInputs
  DefaultSensitivity <- MCDefaultSensitivity
  SensitivityInputs <- MCSensitivityInputs
SPECIFICATION SESpec
INVARIANT StateChangeKept
PROPERTY ActivityReported
