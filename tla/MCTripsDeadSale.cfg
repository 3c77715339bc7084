SPECIFICATION TripsSpec
CONSTANTS
  t1 = t1
  t2 = t2
  s1 = s1
  k1 = k1
  NoTrip = NoTrip
  NoSale = NoSale
  Trips = {t1, t2}
  Sales = {k1}
  SaleTargets <- EndSale
  Staff = {s1}
  Mortal = {}
INVARIANTS DeadSaleHasNoDeparture
CHECK_DEADLOCK FALSE
