SPECIFICATION Spec
CONSTANTS
  Observations <- MCAll
  Few <- MCSome
  Assessments <- MCAssessments
  Ratios <- MCRatios
  Subjects <- MCSubjects
  Scopes <- MCScopes
  Reports <- MCReports
  Rows <- MCRows
  Samples <- MCSamples
  Beliefs <- MCBeliefs
INVARIANTS
  ShadowOnlyLowers
  BadDataIsDeferred
  OutcomeIsLabel
  AbsenceProvesNothing
  TestNeverIncluded
  ConfidenceIsEarned
  NoEarlyStop
