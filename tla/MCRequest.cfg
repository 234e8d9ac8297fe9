\* One goroutine, 34 requests, two sources that may trade a node at any time.
\* Values at both sides of each limit; up to five headers and four cookies
\* against bounds of two and seven bytes; bodies up to two bytes over the limit.
SPECIFICATION RequestSpec
CONSTANTS
  Addresses <- MCAddresses
  NotPublic <- MCNotPublic
  SourceOrder <- MCOrder
  ProviderOf <- MCProviderOf
  Lists <- MCLists
  providerMaximumRanges = 2
  MaximumStaleAge = 0
  Interval = 1
  RefreshTime = 0
  MaxTime = 2
  FaultsUntil = 2
  Trusted <- MCTrusted
  Requests <- MCRequests
  maximumForwardedHops = 3
  NoRequest = NoRequest
  NoAddress = NoAddress
  Missing = Missing
  maximumCacheTTL = 2
  ContentLength = 1
  CookieHeader = 2
  NoTokens = {7}
  InvalidNames = {4, 7}
  TransferEncoding = 5
  NameBytes = 1
  FramingBytes = 1
  maximumForwardedValueBytes = 3
  maximumForwarded = 2
  maximumForwardedBytes = 7
  MaximumBytes = 2
INVARIANTS
  AddressIsVouchedFor
  NodesAreNotVisitors
  LabelNamesItsHeader
  ShownAsAnswered
  CacheKeepsWhatWasAuthorised
  CompleteUnlessFlagged
  AllowlistedDataIsKept
  BoundedUnlessFramed
  BodyIntact
