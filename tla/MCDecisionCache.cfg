\* Two goroutines, three requests that differ, room for two entries, and two
\* policy revisions: sweeps, replacements, evictions and late puts all happen.
SPECIFICATION Spec
CONSTANTS
  Callers = {c1, c2}
  Requests <- DistinctRequests
  KeyOf <- DistinctKeys
  Answers <- MCAnswers
  MaximumEntries = 2
  MaximumTTL = 2
  Patience = 1
  MaxTime = 4
  NoRequest = NoRequest
  NoEntry = NoEntry
SYMMETRY CallerSymmetry
INVARIANTS
  TypeOK
  IndexMatchesEntries
  OneRevision
  Bounded
  ExactBinding
PROPERTIES
  StaleDenyBound
  NoOlderPolicy
  LosesOnlyTheOldest
