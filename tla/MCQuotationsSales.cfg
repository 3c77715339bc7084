SPECIFICATION FairSpec
CONSTANTS
  q1 = q1
  q2 = q2
  e1 = e1
  b1 = b1
  b2 = b2
  r1 = r1
  r2 = r2
  r3 = r3
  None = None
  Quotes = {q1, q2}
  Mirrored = {}
  Enquiries = {e1}
  Bookings = {b1, b2}
  Requests = {r1, r2}
  Offers <- OneOffer
  Mix <- SalesMix
INVARIANTS TypeOK OneAcceptancePerEnquiry ConvertedHasItsBooking OneOpenOfferPerEnquiry
PROPERTIES ImplementsLedger RequestsFinish
CHECK_DEADLOCK FALSE
