SPECIFICATION FairSpec
CONSTANTS
  Worker = {w1, w2}
  Key = {k1, k2}
  Hash = {h1, h2}
  MaxRequests = 3
  MaxTears = 1
INVARIANTS
  OneAssessmentPerKey
  AnswersAreOnFile
PROPERTIES
  ClaimsSettle
  RequestsEnd
