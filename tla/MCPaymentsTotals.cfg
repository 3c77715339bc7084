SPECIFICATION Spec
CONSTANTS
  p1 = p1
  p2 = p2
  m1 = m1
  m2 = m2
  m3 = m3
  h1 = h1
  h2 = h2
  None = None
  Asks = {p1}
  Payments = {m1, m2}
  Handlers = {h1, h2}
  Amounts = {1}
  Total = 2
  Mix <- DeskOnly
SYMMETRY Symmetry
INVARIANTS TotalsMatchPayments
CHECK_DEADLOCK FALSE
