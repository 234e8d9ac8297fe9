\* Both providers list address 2, at all times.
SPECIFICATION Spec
CONSTANTS
  Addresses <- MCAddresses
  NotPublic <- MCNotPublic
  SourceOrder <- MCOrder
  ProviderOf <- MCProviderOf
  Lists <- SharedLists
  providerMaximumRanges = 2
  MaximumStaleAge = 2
  Interval = 2
  RefreshTime = 1
  MaxTime = 2
  FaultsUntil = 1
  Trusted <- MCTrusted
  Requests <- MCRequests
  maximumForwardedHops = 3
  NoRequest = NoRequest
  NoAddress = NoAddress
  Missing = Missing
INVARIANTS
  HeaderNamesNoNode
