\* The data cache written by the work item and a polling queue thread and
\* read by GetDataFields and the eventing thread, composed with the report
\* manager: the report manager's guarantees and the state-change flag.
CONSTANTS
  t1 = t1
  wi = wi
  Threads <- MCThreads
  WorkItem <- wi
  Intervals <- MCIntervals
  MaxElapsed <- MCMaxElapsed
  MaxSamples <- MCMaxSamples
SPECIFICATION DCSpec
INVARIANT DCTypeOK
INVARIANT DCReportOnlyWhileStarted
INVARIANT StateChangeNotLost
INVARIANT ReadingsDelivered
PROPERTY DCImplementsThrottle
