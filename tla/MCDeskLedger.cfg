SPECIFICATION Spec
CONSTANTS
  o1 = o1
  o2 = o2
  Product = {p1}
  Session = {s1}
  Table = {t1}
  OrderId = {o1, o2}
  Job = {j1}
  InitStock <- MCInitStock
  Basket <- MCBasket
  Delta <- MCDelta
  MaxStock = 2
SYMMETRY Symmetry
PROPERTY LedgerSpec
CHECK_DEADLOCK FALSE
