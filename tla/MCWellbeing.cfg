SPECIFICATION WellbeingSpec
CONSTANTS
  p1 = p1
  t1 = t1
  t2 = t2
  Process = {p1}
  Thread = {t1, t2}
  Home <- MCHome
  Catalogue <- MCCatalogue
  Bootstrap = {"none_here"}
  PageSize = 1
  Width = 14
  MaxRequests = 1
  Excludable = {"first"}
  MaxRestarts = 1
  MaxExclusions = 2
SYMMETRY Symmetry
VIEW WithoutSnapshots
INVARIANTS
  ScanIsPrefix
PROPERTIES
  EditsSupersede
  EvidenceIsKept
  ExclusionsStay
CHECK_DEADLOCK FALSE
