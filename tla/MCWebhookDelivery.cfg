SPECIFICATION FairDeliverySpec
CONSTANTS
  d1 = d1
  j1 = j1
  j2 = j2
  j3 = j3
  j4 = j4
  w1 = w1
  w2 = w2
  None = None
  Deliveries = {d1}
  MaxTries = 2
  Jobs = {j1, j2, j3, j4}
  Workers = {w1, w2}
  Batch = 2
  MaxAttempts = 2
  MaxMishaps = 2
  Mix <- CrashMix
INVARIANTS DeliveryTypeOK PendingHasJob VerdictIsEarned OneWorkerPerJob
PROPERTIES JobSettles DeliverySettles
CHECK_DEADLOCK FALSE
