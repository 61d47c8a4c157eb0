SPECIFICATION Spec
CONSTANTS
  i1 = i1
  i2 = i2
  j1 = j1
  t1 = t1
  t2 = t2
  Table = {t1}
  FullDay = {}
  Id = {i1, i2}
  Job = {j1}
  Nobody = Nobody
  Time <- MCTime
  HoldFor = 1
  Grace = 1
  Length = 1
INVARIANTS
  BookingsTypeOK
  NoDoubleBooking
PROPERTIES
  KeepsItsTime
  DiarySpec
  OverIsClosed
