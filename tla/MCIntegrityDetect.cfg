SPECIFICATION IntegritySpec
CONSTANTS
  w1 = w1
  m1 = m1
  m2 = m2
  a1 = a1
  k1 = k1
  k2 = k2
  h1 = h1
  System = System
  NoSession = NoSession
  Submit = Submit
  Fresh = Fresh
  NoKey = NoKey
  Aggregate <- Aggregates
  Kind <- Kinds
  StreamOrder <- AppsThenSystem
  Worker = {w1}
  Admin = {m1, m2}
  Session = {w1, m1, m2}
  App = {a1}
  Action = {Submit}
  Key = {k1}
  Payload = {h1}
  TamperTargets = {a1, System}
  ReleaseTargets = {a1}
  MaxRequests = 1
  MaxJobs = 2
  MaxTampers = 1
SYMMETRY Symmetry
INVARIANT DetectionQuarantines
