SPECIFICATION FairProjectionSpec
CONSTANTS
  w1 = w1
  w2 = w2
  m1 = m1
  m2 = m2
  a1 = a1
  a2 = a2
  k1 = k1
  k2 = k2
  h1 = h1
  Propose = Propose
  System = System
  NoSession = NoSession
  Submit = Submit
  Fresh = Fresh
  NoKey = NoKey
  Aggregate <- Aggregates
  Kind <- Kinds
  Skipped = {"ProjectionRebuilt"}
  Worker = {w1}
  Admin = {m1, m2}
  Session = {w1, m1, m2}
  App = {a1}
  Action = {Submit, Propose}
  Key = {k1, k2}
  Payload = {h1}
  Undated = {h1}
  MaxRequests = 2
  MaxTasks = 2
INVARIANTS
  RowsHaveEvents
PROPERTIES
  RebuildExact
  TasksEnd
