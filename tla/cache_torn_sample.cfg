\* Violated: SampleCopiesWhole.
CONSTANTS
  t1 = t1
  wi = wi
  Threads <- MCThreads
  WorkItem <- wi
  Intervals <- MCIntervals
  MaxElapsed <- MCMaxElapsed
  MaxSamples <- MCMaxSamples
SPECIFICATION DCSpec
INVARIANT SampleCopiesWhole
