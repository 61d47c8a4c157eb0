\* The live screens: broadcasts, buffers, sockets.
CONSTANTS
  o1 = o1
  h1 = h1
  h2 = h2
  waiter = waiter
  phone = phone
  Orders <- MCOrders
  Handlers <- MCHandlers
  Screens <- MCScreens
  TopicsOf <- MCTopicsOf
  Guarded = {waiter}
  Stuck = {phone}
  Preparers <- MCPreparers
  Moves <- MCMoves
  ChannelCap = 1
  MaxChanges = 3
  MaxOverlaps = 1
  MaxConnections = 1
  MaxUpsets = 1
CHECK_DEADLOCK FALSE
SPECIFICATION Spec

  
  
PROPERTIES
  PagesArrive
