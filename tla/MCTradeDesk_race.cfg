CONSTANTS
  Null = Null
  Messages <- MCMessages
  MigrationTimes <- MCMigrationTimes
  MaxEvents = 4
SPECIFICATION Spec
INVARIANT ResultsFollowEvidence
