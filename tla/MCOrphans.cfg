SPECIFICATION Spec
CONSTANTS
  Product = {p1}
  OrderId = {o1}
  Session = {s1}
  Table = {t1, t2}
  Line = {l1, l2}
  Req = {r1, r2}
  NoOne = NoOne
  MaxQty = 1
  MaxLeft = 1
  InitStock <- MCInitStock
  Basket <- MCBasket
  Count <- MCCount
  ProductOf <- MCProductOf
PROPERTY OrphanReservationsEnd
