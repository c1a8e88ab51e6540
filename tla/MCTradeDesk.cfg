CONSTANTS
  Null = Null
  Messages <- MCMessages
  MigrationTimes <- MCMigrationTimes
  MaxEvents = 4
SPECIFICATION Spec
INVARIANTS SetupsSummariseEvents AttemptsFollowMarketTime
PROPERTIES FrozenFieldsStand CurrentWritesAgree
