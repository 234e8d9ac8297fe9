\* Two goroutines, two requests whose verdicts change once, every failure mode
\* at "deny"; the Agent may fail for ever.
SPECIFICATION FairSpec
CONSTANTS
  maximumCacheTTL = 2
  Callers = {c1, c2}
  Requests = {r1, r2}
  r1 = r1
  r2 = r2
  KeyOf <- MCKeyOf
  Policies <- MCPolicies
  ErrorResponse <- errorAnswer
  Faults = {"timeout"}
  Modes <- Closed
  FailureThreshold = 1
  OpenDuration = 1
  MaximumEntries = 1
  MaximumTTL = 1
  Patience = 1
  MaxTime = 3
  NoRequest = NoRequest
  NoEntry = NoEntry
  NoResponse = NoResponse
INVARIANTS
  FailClosed
PROPERTIES
  DenialIsRecent
  LiveDenialIsEnforced
  EveryRequestAnswered
  BreakerSpec
  CacheSpec
