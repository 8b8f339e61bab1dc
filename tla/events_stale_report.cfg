\* The same instance, checking that a data event is posted only in D0 and
\* after the READY state change; expected to be violated.
CONSTANTS
  c1 = c1
  fX = fX
  t1 = t1
  NoValue = NoValue
  NaN = NaN
  Clients <- MCClients
  Fields <- MCFields
  Threads <- OneThread
  RegisterAccessMayFail = FALSE
  DefaultReportInterval = 1
  MinSupportedReportInterval = 1
  ULONG_MAX = 2
  IntervalInputs <- MCIntervalInputs
  DefaultSensitivity <- MCDefaultSensitivity
  SensitivityInputs <- MCSensitivityInputs
SPECIFICATION SESpec
INVARIANT DataEventsOnlyWhenReady
