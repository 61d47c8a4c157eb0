SPECIFICATION Spec
CONSTANTS
  p1 = p1
  o1 = o1
  o2 = o2
  j1 = j1
  j2 = j2
  Product = {p1}
  Session = {s1}
  Table = {t1}
  OrderId = {o1, o2}
  Job = {j1, j2}
  InitStock <- MCInitStock
  Basket <- MCBasket
  Delta <- MCDelta
  MaxStock = 2
SYMMETRY Symmetry
INVARIANTS
  DeskTypeOK
  CancelSnapshotHolds
  Conservation
PROPERTIES
  CancelOnlyUncooked
  OnlyEditorMakesUnlimited
CHECK_DEADLOCK FALSE
