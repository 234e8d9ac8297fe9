\* Three goroutines, two failures to open, a window of two instants and calls
\* that take up to two: late reports can move the window and clear the probe.
\* Failures stop at instant 7; the clock runs past every window they opened.
SPECIFICATION FairSpec
CONSTANTS
  Callers = {c1, c2, c3}
  FailureThreshold = 2
  OpenDuration = 2
  Patience = 2
  MaxTime = 11
  FaultsUntil = 7
INVARIANTS
  TypeOK
  OpenExactlyAtThreshold
  ProbeIsAccounted
  StormBound
PROPERTIES
  FailureBuysQuiet
  GateSpec
  Recovers
