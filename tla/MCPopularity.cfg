\* The popularity snapshot: when it is rebuilt, what the menu shows of it.
CONSTANTS
  a = a
  b = b
  c = c
  Dishes <- MCDishes
  Baskets <- MCBaskets
  Dayparts = 2
  RerankEvery = 3
  SpikeCooldown = 2
  SpikeMinUnits = 2
  Week = 2
  Periods = {2, 4}
  PopularCount = 3
  MaxTime = 4
  MaxOrders = 2
  MaxUpsets = 2
CHECK_DEADLOCK FALSE
SPECIFICATION PopularitySpec

  
PROPERTIES
  
  NeverShuffles
