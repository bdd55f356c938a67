SPECIFICATION RebuildSpec
CONSTANTS
  s1 = s1
  s2 = s2
  NoSession = NoSession
  Session = {s1, s2}
  Target = 1
  MaxCommands = 2
  MaxObservations = 1
  MaxHypotheses = 1
  MaxRebuilds = 2
SYMMETRY Symmetry
PROPERTY RebuildReplaces
