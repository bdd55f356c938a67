SPECIFICATION WellbeingSpec
CONSTANTS
  p1 = p1
  t1 = t1
  t2 = t2
  Process = {p1}
  Thread = {t1, t2}
  Home <- MCHome
  Catalogue <- MCEdited
  Bootstrap = {"none_here"}
  PageSize = 2
  Width = 14
  MaxRequests = 1
  Excludable = {"first"}
  MaxRestarts = 1
  MaxExclusions = 0
SYMMETRY Symmetry
VIEW WithoutSnapshots
INVARIANT OnlyNewestCounts
CHECK_DEADLOCK FALSE
