\* The documented bounds, with the framing headers that are added after them.
SPECIFICATION ExchangeSpec
CONSTANTS
  maximumCacheTTL = 2
  ContentLength = 1
  CookieHeader = 2
  NoTokens = {7}
  InvalidNames = {4, 7}
  TransferEncoding = 5
  NameBytes = 1
  FramingBytes = 1
  maximumForwardedValueBytes = 3
  maximumForwarded = 2
  maximumForwardedBytes = 7
  MaximumBytes = 2
INVARIANTS
  ForwardingIsBounded
