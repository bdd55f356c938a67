SPECIFICATION Spec
CONSTANTS
  w1 = w1
  w2 = w2
  x1 = x1
  h1 = h1
  h2 = h2
  Worker = {w1, w2}
  Experiment = {x1}
  Content = {h1, h2}
  Actor = {"ana", "agent"}
  Version = {0}
  MaxRequests = 3
  MaxTears = 1
SYMMETRY Symmetry
INVARIANTS
  ApprovalsAreManual
  DuplicatesNeedRace
  CrashesLeaveATrail
