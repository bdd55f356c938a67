SPECIFICATION FairSpec
CONSTANTS
  w1 = w1
  w2 = w2
  w3 = w3
  a1 = a1
  a2 = a2
  k1 = k1
  k2 = k2
  h1 = h1
  h2 = h2
  System = System
  NoSession = NoSession
  Submit = Submit
  Propose = Propose
  Fresh = Fresh
  NoKey = NoKey
  Aggregate = {}
  Worker = {w1, w2, w3}
  Session = {w1, w2, w3}
  App = {a1}
  Action = {Submit, Propose}
  Kind = {Submit, Propose}
  Key = {k1, k2}
  Payload = {h1, h2}
  MaxRequests = 3
INVARIANTS
  ChainIntact
  ExactlyOnce
  AnswersAgree
PROPERTIES
  KillSwitch
  ImplementsAtomicLedger
  RequestsEnd
