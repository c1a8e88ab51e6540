CONSTANTS
  MaxId = 2
  Kind <- MCKind
  SymbolOf <- MCSymbolOf
  Preferences <- MCPreferences
  Groups <- MCGroups
  Limit = 1
  Slots = {k1, k2}
  MaxFaults = 2
  NoPoll = NoPoll
SPECIFICATION Spec
INVARIANTS NothingShownIsAskedAgain PassedForACause
PROPERTIES RowsAreReached
