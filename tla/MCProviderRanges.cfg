\* A list is believed for six instants and refreshed every two: one missed
\* refresh is survived for certain. Fetches fail at random up to instant 4, later
\* only those of a list that has become unusable, which then expires.
SPECIFICATION FairRangesSpec
CONSTANTS
  Addresses <- MCAddresses
  NotPublic <- MCNotPublic
  SourceOrder <- MCOrder
  ProviderOf <- MCProviderOf
  Lists <- MCLists
  providerMaximumRanges = 2
  MaximumStaleAge = 6
  Interval = 2
  RefreshTime = 1
  MaxTime = 12
  FaultsUntil = 4
INVARIANTS
  RangesTypeOK
  StaleListsExpire
  OutageSurvived
PROPERTIES
  Settles
