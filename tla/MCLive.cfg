SPECIFICATION LiveSpec
CONSTANTS
  r1 = r1
  r2 = r2
  r3 = r3
  x1 = x1
  x2 = x2
  a1 = a1
  a2 = a2
  n1 = n1
  n2 = n2
  v1 = v1
  g1 = g1
  Nothing = Nothing
  NoEnrollment = NoEnrollment
  NoVehicle = NoVehicle
  Requests = {r1, r2, r3}
  Bodies = {x1, x2}
  Answers = {a1, a2}
  MaxLost = 1
  KeyMix <- Mishaps
  Rows = {n1, n2}
  Vehicles = {v1}
  TrackWorkers = {g1}
  MaxTrackTries = 2
  MaxFaults = 2
INVARIANTS LiveTypeOK AtMostOncePerStoredAnswer ReplayIsTheEffect TrackerIsAlive
PROPERTIES KeyIsFreed RetiredDevicesGo
CHECK_DEADLOCK FALSE
