\* Clock to 5: a page may be one instant older than an interval and a delay
\* allow.  Two failures: a retry with a used token, a second late one.
SPECIFICATION FairSpec
CONSTANTS
  visitor = visitor
  other = other
  challengeFile = challengeFile
  Unusable = Unusable
  FileOf <- MCFileOf
  DecisionOf <- MCDecisionOf
  LinksOf <- MCLinksOf
  Visitors = {visitor, other}
  Contents = {custom}
  ReloadInterval = 2
  Patience = 1
  MaxTime = 5
  MaxFaults = 2
PROPERTIES
  PageIsRecent
  LoadsAreSpaced
  VisitorGetsIn
