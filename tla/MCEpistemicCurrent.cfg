SPECIFICATION RebuildSpec
CONSTANTS
  s1 = s1
  s2 = s2
  NoSession = NoSession
  Session = {s1}
  Target = 1
  MaxCommands = 4
  MaxObservations = 1
  MaxHypotheses = 1
  MaxRebuilds = 3
INVARIANTS
  AtMostOneCurrent
