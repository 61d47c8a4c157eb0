SPECIFICATION SafetySpec
CONSTANTS
  s1 = s1
  s2 = s2
  t1 = t1
  t2 = t2
  r1 = r1
  r2 = r2
  Product = {p1}
  OrderId = {o1}
  Session = {s1, s2}
  Table = {t1, t2}
  Line = {l1}
  Req = {r1, r2}
  NoOne = NoOne
  MaxQty = 2
  MaxLeft = 1
  InitStock <- MCInitStock
  Basket <- MCBasket
  Count <- MCCount
  ProductOf <- MCProductOf
SYMMETRY Symmetry
INVARIANTS
  OrderingTypeOK
  CartsBounded
