SPECIFICATION FieldSpec
CONSTANTS
  x1 = x1
  x2 = x2
  s1 = s1
  s2 = s2
  k1 = k1
  k2 = k2
  b1 = b1
  c1 = c1
  o1 = o1
  i1 = i1
  NoTrip = NoTrip
  NoSale = NoSale
  NoOrder = NoOrder
  NoToken = NoToken
  NoTask = NoTask
  NoWords = NoWords
  NoCompany = NoCompany
  NoPerson = NoPerson
  NoInvitation = NoInvitation
  NoCall = NoCall
  Trips = {x1, x2}
  Sales = {b1}
  Staff = {s1, s2}
  Mortal = {s1, s2}
  SaleTargets <- Cancels
  Orders = {x1, x2}
  Buyers = {s1, s2}
  Clerks = {c1}
  Tokens = {k1, k2}
  Quantities = {1, 2}
  Capacity = 1
  OrderTargets <- Cancels
  Outs = {o1}
  Ins = {i1}
  Saying <- Stops
  Hands = {s1, s2}
  MaxTries = 2
  MaxDeaths = 1
  MaxErrors = 1
  Told <- Reports
  Words = {k1, k2}
  Travellers = {s1, s2}
  Inviters = {s1, s2}
  Moderators = {c1}
  Companies = {x1, x2}
  People = {k1, k2}
  Calls = {s1, s2}
  Invitations = {k1, k2}
  SeatLimit = 2
  Editions = {k1, k2}
  MaxDays = 2
  Places = {c1}
  Requests = {s1, s2}
SYMMETRY FieldSymmetry
INVARIANTS FieldTypeOK OneLiveTripPerBooking ReadyIsSetUp OneOrderPerToken OversellIsBounded PublicWordsAreApproved OneCompanyPerFounder InvitationIsSpentOnce PublishedWasApproved ItineraryIsWhole
PROPERTIES TripsMoveByTheTable DepartsSetUp NoDoubleSend
CHECK_DEADLOCK FALSE
