\* Requests that differ only in whether a pair is a header or a cookie, or in
\* the case of a cookie's name.
SPECIFICATION Spec
CONSTANTS
  Callers = {c1, c2}
  Requests <- SimilarRequests
  KeyOf <- SimilarKeys
  Answers <- MCAnswers
  MaximumEntries = 2
  MaximumTTL = 2
  Patience = 1
  MaxTime = 3
  NoRequest = NoRequest
  NoEntry = NoEntry
INVARIANTS
  ExactBinding
