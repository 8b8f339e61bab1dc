\* Violated: StateChangePostedOnce.
CONSTANTS
  t1 = t1
  wi = wi
  Threads <- MCThreads
  WorkItem <- wi
  Intervals <- MCIntervals
  MaxElapsed <- MCMaxElapsed
  MaxSamples <- MCMaxSamplesThree
SPECIFICATION DCSpec
INVARIANT StateChangePostedOnce
