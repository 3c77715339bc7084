SPECIFICATION Spec
CONSTANTS
  p1 = p1
  p2 = p2
  m1 = m1
  m2 = m2
  m3 = m3
  h1 = h1
  h2 = h2
  None = None
  Asks = {p1, p2}
  Payments = {m1, m2}
  Handlers = {h1, h2}
  Amounts = {1, 2}
  Total = 2
  Mix <- StaffCrash
SYMMETRY Symmetry
INVARIANTS TypeOK OneVerifier ReceivedIsRecorded OneOpenRequestPerAmount
CHECK_DEADLOCK FALSE
