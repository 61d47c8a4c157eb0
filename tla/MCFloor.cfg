\* The floor: sessions, releases, the idle sweep, calls for a waiter.
CONSTANTS
  Phones = {p1}
  MaxSessions = 2
  MaxCalls = 1
  MaxTokens = 2
  MaxTables = 2
  MaxTables0 = 1
  MaxInFlight = 1
  MaxRestarts = 1
CHECK_DEADLOCK FALSE
SPECIFICATION Spec
INVARIANTS
  TypeOK
  CallsEndOnce
  
PROPERTIES
  TablesComeBack
