\* Lists with a network whose first address alone is public.
SPECIFICATION RangesSpec
CONSTANTS
  Addresses <- MCAddresses
  NotPublic <- MCNotPublic
  SourceOrder <- MCOrder
  ProviderOf <- MCProviderOf
  Lists <- WideLists
  providerMaximumRanges = 2
  MaximumStaleAge = 6
  Interval = 2
  RefreshTime = 1
  MaxTime = 4
  FaultsUntil = 4
INVARIANTS
  NonPublicRejected
