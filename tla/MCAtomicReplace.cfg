\* One installer that nobody races, and one signal.
SPECIFICATION FairSpec
CONSTANTS
  Publishers = {p1}
  MaxAttempts = 10
  MaxReleases = 1
  FaultKinds = {"interrupt"}
  MaxFaults = 1
  Installers = {i1}
  Wanted = {1, 2}
  None = None
  Manual = Manual
  Damaged = Damaged
PROPERTY
  ReplacementIsAtomic
