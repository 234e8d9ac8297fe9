\* Two workflow runs and two installers, one fault of any kind; three initial
\* destinations.  Two attempts, and a run that fails and is started again, are
\* enough for the other run to be overtaken twice.
SPECIFICATION FairSpec
CONSTANTS
  Publishers = {p1, p2}
  MaxAttempts = 2
  MaxReleases = 2
  FaultKinds = {"network", "disk", "interrupt", "kill"}
  MaxFaults = 1
  Installers = {i1, i2}
  Wanted = {1, 2}
  None = None
  Manual = Manual
  Damaged = Damaged
INVARIANTS
  PluginIsARelease
  GivesUpOnlyWhenOvertaken
PROPERTY
  Heals
