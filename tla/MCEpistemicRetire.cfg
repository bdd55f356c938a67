SPECIFICATION Spec
CONSTANTS
  s1 = s1
  s2 = s2
  NoSession = NoSession
  Session = {s1, s2}
  Target = 1
  MaxCommands = 5
  MaxObservations = 1
  MaxHypotheses = 1
SYMMETRY Symmetry
PROPERTY RetiredIsFinal
