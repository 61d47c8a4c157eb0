\* Starting over any database, cut at any statement, with failing statements.
CONSTANTS
  MaxStops = 2
  MaxErrors = 1
  MaxEdits = 2
CHECK_DEADLOCK FALSE
SPECIFICATION StartupSpec
INVARIANT StartsWhole
PROPERTY StartsKeepEdits
