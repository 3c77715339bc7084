---------------------------- MODULE TripsProofs ----------------------------
(***************************************************************************)
(* For any number of trips, bookings and requests at once: the type        *)
(* invariant of Trips, that a booking has one live trip, that a trip only  *)
(* makes the moves of the table, that none departs which is not set up,    *)
(* and in which two cases one may say READY that is not.  Any of the       *)
(* requests in Mortal may die at any of its steps.                         *)
(***************************************************************************)
EXTENDS Trips, TLAPS

\* The steps at which a request has a trip in hand, and those at which a booking.
TripSteps == {"move", "gate", "write", "edit", "recheck"}
SaleSteps == {"agreed", "insert", "saleMove", "saleWrite", "standDown", "recheckSale"}

\* What a request knows at each step, whatever became of its trip since.
SoundDesk(d) ==
  /\ d \in Desk
  /\ d.at \in TripSteps <=> d.trip # NoTrip
  /\ d.at \in SaleSteps => d.sale \in Sales
  /\ d.at \in {"saleMove", "saleWrite"} => d.to \in BookingStatuses
  /\ d.at = "move" => d.to \in TripStatuses
  /\ d.at \in {"gate", "write"} => d.seen \in TripStatuses /\ d.to \in TripTransitions[d.seen]

TripsWired ==
  /\ TripsTypeOK
  /\ \A s \in Staff : SoundDesk(desk[s])
  /\ \A s \in Staff : desk[s].trip # NoTrip => Born(desk[s].trip)

\* What a request alone on a trip knows of the trip is still so, it passed the gate
\* if it had to, and a trip that lost its set-up while READY is on its way back, or
\* was lost by a request that died.
OnTrack(d, row, lost) ==
  /\ d.at \in {"edit", "gate", "write"} => d.seen = row.status
  /\ d.at = "write" /\ Gated(d.to) => row.setUp
  /\ row.status = "READY" /\ ~row.setUp =>
       lost \/ d.at = "recheck" \/ (d.at \in {"move", "write"} /\ d.to = "PREPARING")

Alone ==
  \A s, u \in Staff : desk[s].trip \in Trips \ contended /\ desk[u].trip = desk[s].trip => s = u

Tracked ==
  \A s \in Staff : desk[s].trip \in Trips \ contended =>
    OnTrack(desk[s], trip[desk[s].trip], desk[s].trip \in forsaken)

TripsInv == TripsWired /\ OneLiveTripPerBooking

ReadyInv == TripsWired /\ Alone /\ Tracked /\ ReadyIsSetUp

-----------------------------------------------------------------------------
LEMMA TripsStart == TripsInit => TripsInv /\ ReadyInv
<1> SUFFICES ASSUME TripsInit PROVE TripsInv /\ ReadyInv
  OBVIOUS
<1> USE TripsAssumption DEF TripsInit
<1>1. \A s \in Staff : desk[s] = AtRest
  OBVIOUS
<1>2. \A t \in Trips : ~Born(t) /\ trip[t].status = "NONE"
  BY DEF Born, Unborn
<1>3. SoundDesk(AtRest) /\ AtRest.trip = NoTrip
  BY DEF SoundDesk, AtRest, Desk, DeskSteps, TripSteps, SaleSteps, TripStatuses
<1>4. TripsTypeOK
  <2>1. trip \in [Trips -> Trip]
    BY DEF Unborn, Trip
  <2>2. sale \in [Sales -> Sale]
    BY DEF Sale, BookingStatuses
  <2>3. desk \in [Staff -> Desk]
    BY <1>3 DEF SoundDesk
  <2> QED
    BY <2>1, <2>2, <2>3 DEF TripsTypeOK
<1>5. TripsWired
  BY <1>1, <1>3, <1>4 DEF TripsWired
<1>6. OneLiveTripPerBooking /\ ReadyIsSetUp
  BY <1>2 DEF OneLiveTripPerBooking, LiveTrip, ReadyIsSetUp
<1>7. Alone /\ Tracked
  BY <1>1, <1>3 DEF Alone, Tracked
<1> QED
  BY <1>5, <1>6, <1>7 DEF TripsInv, ReadyInv

\* A step writes the desk of one request.
LEMMA DeskStep ==
  ASSUME TripsWired, NEW s \in Staff, NEW d, SoundDesk(d),
         d.trip # NoTrip => trip'[d.trip].status # "NONE",
         desk' = [desk EXCEPT ![s] = d],
         \A t \in Trips : trip[t].status # "NONE" => trip'[t].status # "NONE",
         trip' \in [Trips -> Trip], sale' \in [Sales -> Sale], contended' \subseteq Trips,
         forsaken' \subseteq Trips
  PROVE  TripsWired'
<1> USE DEF TripsWired
<1>1. desk' \in [Staff -> Desk]
  BY DEF TripsTypeOK, SoundDesk
<1>2. \A u \in Staff : desk'[u] = (IF u = s THEN d ELSE desk[u])
  BY DEF TripsTypeOK
<1>3. TripsTypeOK'
  BY <1>1 DEF TripsTypeOK
<1>4. \A u \in Staff : SoundDesk(desk'[u])
  BY <1>2
<1>5. \A u \in Staff : desk'[u].trip # NoTrip => trip'[desk'[u].trip].status # "NONE"
  <2> TAKE u \in Staff
  <2>1. CASE u = s
    BY <1>2, <2>1
  <2>2. CASE u # s
    BY <1>2, <2>2 DEF SoundDesk, Desk, Born
  <2> QED
    BY <2>1, <2>2
<1> QED
  BY <1>3, <1>4, <1>5 DEF Born

LEMMA RestSound == SoundDesk(AtRest) /\ AtRest.trip = NoTrip
BY TripsAssumption DEF SoundDesk, AtRest, Desk, DeskSteps, TripSteps, SaleSteps, TripStatuses

\* A request at work on a booking.
LEMMA SaleDeskSound ==
  ASSUME NEW step \in SaleSteps, NEW b \in Sales, NEW to \in BookingStatuses
  PROVE  /\ SoundDesk([AtRest EXCEPT !.at = step, !.sale = b, !.to = to])
         /\ step \notin {"saleMove", "saleWrite"} =>
              SoundDesk([AtRest EXCEPT !.at = step, !.sale = b])
BY TripsAssumption DEF SoundDesk, AtRest, Desk, DeskSteps, TripSteps, SaleSteps, TripStatuses

LEMMA TableTyped ==
  ASSUME NEW from \in TripStatuses
  PROVE  TripTransitions[from] \subseteq TripStatuses \ {from}
BY DEF TripTransitions, TripStatuses

\* A request that takes up a trip.
LEMMA TakeSound ==
  ASSUME TripsWired, NEW t \in Trips, Born(t), NEW step \in {"move", "edit", "recheck"},
         NEW to \in TripStatuses
  PROVE  SoundDesk([at |-> step, trip |-> t, sale |-> NoSale, seen |-> trip[t].status, to |-> to])
<1>1. trip[t].status \in TripStatuses /\ t # NoTrip
  BY TripsAssumption DEF TripsWired, TripsTypeOK, Trip, Born
<1> QED
  BY <1>1 DEF SoundDesk, Desk, DeskSteps, TripSteps, SaleSteps

LEMMA TripsWiredTake ==
  ASSUME TripsWired, NEW s \in Staff, NEW t \in Trips, Born(t),
         NEW step \in {"move", "edit", "recheck"}, NEW to \in TripStatuses,
         Take(s, t, step, to), UNCHANGED <<trip, sale, forsaken>>
  PROVE  TripsWired'
<1> DEFINE d == [at |-> step, trip |-> t, sale |-> NoSale, seen |-> trip[t].status, to |-> to]
<1>1. SoundDesk(d) /\ d.trip = t
  BY TakeSound
<1>2. desk' = [desk EXCEPT ![s] = d] /\ contended' \subseteq Trips
  BY DEF Take, TripsWired, TripsTypeOK
<1> HIDE DEF d
<1> QED
  BY <1>1, <1>2, DeskStep DEF TripsWired, TripsTypeOK, Born

\* A request that stops, or turns to a booking, with the trips as they were.
LEMMA TripsWiredSale ==
  ASSUME TripsWired, NEW s \in Staff, UNCHANGED <<trip, contended>>, sale' \in [Sales -> Sale],
         forsaken' \subseteq Trips, NEW d, d = AtRest
           \/ (\E step \in SaleSteps, b \in Sales, to \in BookingStatuses :
                 d = [AtRest EXCEPT !.at = step, !.sale = b, !.to = to])
           \/ (\E step \in SaleSteps \ {"saleMove", "saleWrite"}, b \in Sales :
                 d = [AtRest EXCEPT !.at = step, !.sale = b]),
         desk' = [desk EXCEPT ![s] = d]
  PROVE  TripsWired'
<1>1. SoundDesk(d) /\ d.trip = NoTrip
  <2>1. ASSUME NEW step \in SaleSteps, NEW b \in Sales, NEW to \in BookingStatuses,
               d = [AtRest EXCEPT !.at = step, !.sale = b, !.to = to]
        PROVE  SoundDesk(d) /\ d.trip = NoTrip
    BY <2>1, SaleDeskSound DEF AtRest
  <2>2. ASSUME NEW step \in SaleSteps \ {"saleMove", "saleWrite"}, NEW b \in Sales,
               d = [AtRest EXCEPT !.at = step, !.sale = b]
        PROVE  SoundDesk(d) /\ d.trip = NoTrip
    BY <2>2, SaleDeskSound DEF BookingStatuses, AtRest
  <2> QED
    BY <2>1, <2>2, RestSound
<1> QED
  BY <1>1, DeskStep DEF TripsWired, TripsTypeOK

\* A request that goes on with the booking it has.
LEMMA TripsWiredGoto ==
  ASSUME TripsWired, NEW s \in Staff, desk[s].at \in SaleSteps,
         NEW step \in SaleSteps, step = "saleWrite" => desk[s].at = "saleMove", step # "saleMove",
         Goto(s, step), UNCHANGED <<trip, contended, forsaken>>, sale' \in [Sales -> Sale]
  PROVE  TripsWired'
<1> DEFINE d == [desk[s] EXCEPT !.at = step]
<1>1. SoundDesk(desk[s]) /\ desk[s] \in Desk
  BY DEF TripsWired, SoundDesk
<1>2. SoundDesk(d) /\ d.trip = NoTrip
  BY <1>1 DEF SoundDesk, Desk, DeskSteps, TripSteps, SaleSteps
<1>3. desk' = [desk EXCEPT ![s] = d]
  BY DEF Goto
<1> HIDE DEF d
<1> QED
  BY <1>2, <1>3, DeskStep DEF TripsWired, TripsTypeOK

\* A request that goes on with the trip it has.
LEMMA TripsWiredMove ==
  ASSUME TripsWired, NEW s \in Staff, desk[s].at \in TripSteps, NEW d, SoundDesk(d),
         d.trip = desk[s].trip \/ d.trip = NoTrip, desk' = [desk EXCEPT ![s] = d],
         UNCHANGED <<sale, contended>>, forsaken' \subseteq Trips, trip' \in [Trips -> Trip],
         \A t \in Trips : trip[t].status # "NONE" => trip'[t].status # "NONE"
  PROVE  TripsWired'
<1>1. d.trip # NoTrip => trip[d.trip].status # "NONE" /\ d.trip \in Trips
  BY DEF TripsWired, Born, SoundDesk, Desk
<1> QED
  BY <1>1, DeskStep DEF TripsWired, TripsTypeOK

LEMMA TripsWiredStep == TripsWired /\ [TripsNext]_tripVars => TripsWired'
<1> SUFFICES ASSUME TripsWired, [TripsNext]_tripVars PROVE TripsWired'
  OBVIOUS
<1>0. /\ trip \in [Trips -> Trip] /\ sale \in [Sales -> Sale] /\ desk \in [Staff -> Desk]
      /\ forsaken \subseteq Trips
      /\ \A s \in Staff : SoundDesk(desk[s])
      /\ \A s \in Staff : desk[s].trip # NoTrip => Born(desk[s].trip)
  BY DEF TripsWired, TripsTypeOK
<1>1. ASSUME NEW s \in Staff, NEW b \in Sales, HandoverRead(s, b) PROVE TripsWired'
  BY <1>0, <1>1, TripsWiredSale DEF HandoverRead, SaleSteps
<1>2. ASSUME NEW s \in Staff, HandoverCheck(s) PROVE TripsWired'
  <2>1. CASE Rest(s)
    BY <1>0, <1>2, <2>1, TripsWiredSale DEF HandoverCheck, Rest
  <2>2. CASE Goto(s, "insert")
    BY <1>0, <1>2, <2>2, TripsWiredGoto DEF HandoverCheck, DeskAt, SaleSteps
  <2> QED
    BY <1>2, <2>1, <2>2 DEF HandoverCheck
<1>3. ASSUME NEW s \in Staff, HandoverInsert(s) PROVE TripsWired'
  <2>1. desk[s].sale \in Sales
    BY <1>0, <1>3 DEF HandoverInsert, DeskAt, SoundDesk, SaleSteps
  <2>2. trip' \in [Trips -> Trip] /\ \A t \in Trips : trip[t].status # "NONE" => trip'[t].status # "NONE"
    BY <1>0, <1>3, <2>1 DEF HandoverInsert, Trip, TripStatuses, Born
  <2> QED
    BY <1>0, <1>3, <2>2, RestSound, DeskStep DEF HandoverInsert, Rest, TripsWired, TripsTypeOK
<1>4. ASSUME NEW s \in Staff, NEW t \in Trips, EditRead(s, t) \/ \E to \in TripStatuses : StartMove(s, t, to)
      PROVE  TripsWired'
  <2>1. Born(t) /\ UNCHANGED <<trip, sale, forsaken>>
    BY <1>4 DEF EditRead, StartMove
  <2>2. trip[t].status \in TripStatuses
    BY <1>0, <2>1 DEF Trip, Born
  <2> QED
    BY <1>4, <2>1, <2>2, TripsWiredTake DEF EditRead, StartMove
<1>5. ASSUME NEW s \in Staff, MoveRead(s) PROVE TripsWired'
  <2>1. CASE Rest(s)
    BY <1>0, <1>5, <2>1, TripsWiredSale DEF MoveRead, Rest
  <2>2. CASE ~Rest(s)
    <3> DEFINE d == [desk[s] EXCEPT !.at = IF Gated(desk[s].to) THEN "gate" ELSE "write",
                                    !.seen = trip[desk[s].trip].status]
    <3>1. desk' = [desk EXCEPT ![s] = d] /\ desk[s].to \in TripTransitions[trip[desk[s].trip].status]
      BY <1>5, <2>2 DEF MoveRead
    <3>2. desk[s].trip \in Trips /\ trip[desk[s].trip].status \in TripStatuses
      BY <1>0, <1>5 DEF MoveRead, DeskAt, SoundDesk, Desk, TripSteps, Trip, Born
    <3>3. SoundDesk(d) /\ d.trip = desk[s].trip
      <4>1. desk[s] \in Desk
        BY <1>0 DEF SoundDesk
      <4>2. d \in Desk /\ d.at \in {"gate", "write"} /\ d.seen = trip[desk[s].trip].status
              /\ d.to = desk[s].to /\ d.trip = desk[s].trip
        BY <3>2, <4>1 DEF Desk, DeskSteps
      <4> HIDE DEF d
      <4>3. desk[s].trip # NoTrip
        BY <1>0, <1>5 DEF SoundDesk, MoveRead, DeskAt, TripSteps
      <4> QED
        BY <3>1, <3>2, <4>2, <4>3 DEF SoundDesk, TripSteps, SaleSteps
    <3> HIDE DEF d
    <3> QED
      BY <1>0, <1>5, <3>1, <3>3, TripsWiredMove DEF MoveRead, DeskAt, TripSteps
  <2> QED
    BY <2>1, <2>2
<1>6. ASSUME NEW s \in Staff, Gate(s) PROVE TripsWired'
  <2> DEFINE d == [desk[s] EXCEPT !.at = "write"]
  <2>1. SoundDesk(d) /\ d.trip = desk[s].trip
    BY <1>0, <1>6 DEF SoundDesk, Desk, DeskSteps, TripSteps, SaleSteps, Gate, DeskAt
  <2>2. CASE desk' = [desk EXCEPT ![s] = d]
    <3> HIDE DEF d
    <3> QED
      BY <1>0, <1>6, <2>1, <2>2, TripsWiredMove DEF Gate, DeskAt, TripSteps
  <2>3. CASE Rest(s)
    BY <1>0, <1>6, <2>3, TripsWiredSale DEF Gate, Rest
  <2> QED
    BY <1>6, <2>2, <2>3 DEF Gate, Goto
<1>7. ASSUME NEW s \in Staff, MoveWrite(s) PROVE TripsWired'
  <2>1. desk[s].to \in TripStatuses
    BY <1>0, <1>7, TableTyped DEF MoveWrite, DeskAt, SoundDesk
  <2>2. trip' \in [Trips -> Trip] /\ \A t \in Trips : trip[t].status # "NONE" => trip'[t].status # "NONE"
    <3>1. LET row == [trip[desk[s].trip] EXCEPT !.status = desk[s].to]
          IN  desk[s].trip \in Trips => row \in Trip /\ row.status # "NONE"
      BY <1>0, <2>1 DEF Trip, TripStatuses
    <3>2. UNCHANGED trip \/ trip' = [trip EXCEPT ![desk[s].trip] =
                                        [trip[desk[s].trip] EXCEPT !.status = desk[s].to]]
      BY <1>0, <1>7 DEF MoveWrite
    <3> QED
      BY <1>0, <3>1, <3>2
  <2> QED
    BY <1>0, <1>7, <2>2, RestSound, DeskStep DEF MoveWrite, Rest, TripsWired, TripsTypeOK
<1>8. ASSUME NEW s \in Staff, EditWrite(s) PROVE TripsWired'
  <2>1. trip' \in [Trips -> Trip] /\ \A t \in Trips : trip[t].status # "NONE" => trip'[t].status # "NONE"
    <3>1. PICK f \in BOOLEAN : trip' = [trip EXCEPT ![desk[s].trip].setUp = f]
      BY <1>8 DEF EditWrite
    <3> QED
      BY <1>0, <3>1 DEF Trip
  <2>2. CASE Rest(s)
    BY <1>0, <1>8, <2>1, <2>2, RestSound, DeskStep DEF EditWrite, Rest, TripsWired, TripsTypeOK
  <2>3. CASE Goto(s, "recheck")
    <3> DEFINE d == [desk[s] EXCEPT !.at = "recheck"]
    <3>1. SoundDesk(d) /\ d.trip = desk[s].trip
      BY <1>0, <1>8 DEF SoundDesk, Desk, DeskSteps, TripSteps, SaleSteps, EditWrite, DeskAt
    <3>2. desk' = [desk EXCEPT ![s] = d]
      BY <2>3 DEF Goto
    <3> HIDE DEF d
    <3> QED
      BY <1>0, <1>8, <2>1, <3>1, <3>2, TripsWiredMove DEF EditWrite, DeskAt, TripSteps
  <2> QED
    BY <1>8, <2>2, <2>3 DEF EditWrite
<1>9. ASSUME NEW s \in Staff, Recheck(s) PROVE TripsWired'
  <2> DEFINE d == [desk[s] EXCEPT !.at = "move", !.to = "PREPARING"]
  <2>1. SoundDesk(d) /\ d.trip = desk[s].trip
    BY <1>0, <1>9 DEF SoundDesk, Desk, DeskSteps, TripSteps, SaleSteps, TripStatuses, Recheck, DeskAt
  <2>2. CASE desk' = [desk EXCEPT ![s] = d]
    <3> HIDE DEF d
    <3> QED
      BY <1>0, <1>9, <2>1, <2>2, TripsWiredMove DEF Recheck, DeskAt, TripSteps
  <2>3. CASE Rest(s)
    BY <1>0, <1>9, <2>3, TripsWiredSale DEF Recheck, Rest
  <2>4. Rest(s) \/ desk' = [desk EXCEPT ![s] = d]
    BY <1>0, <1>9 DEF Recheck
  <2> QED
    BY <2>2, <2>3, <2>4
<1>10. ASSUME NEW s \in Staff, NEW b \in Sales, NEW to \in SaleTargets, StartSaleMove(s, b, to) PROVE TripsWired'
  BY <1>0, <1>10, TripsWiredSale, TripsAssumption DEF StartSaleMove, SaleSteps
<1>11. ASSUME NEW s \in Staff, SaleMoveRead(s) PROVE TripsWired'
  <2>1. CASE Rest(s)
    BY <1>0, <1>11, <2>1, TripsWiredSale DEF SaleMoveRead, Rest
  <2>2. CASE Goto(s, "saleWrite")
    BY <1>0, <1>11, <2>2, TripsWiredGoto DEF SaleMoveRead, DeskAt, SaleSteps
  <2> QED
    BY <1>11, <2>1, <2>2 DEF SaleMoveRead
<1>12. ASSUME NEW s \in Staff, SaleMoveWrite(s) PROVE TripsWired'
  <2>1. desk[s].sale \in Sales /\ desk[s].to \in BookingStatuses
    BY <1>0, <1>12 DEF SaleMoveWrite, DeskAt, SoundDesk, SaleSteps
  <2>2. sale' \in [Sales -> Sale]
    BY <1>0, <1>12, <2>1 DEF SaleMoveWrite, Sale
  <2>3. CASE Rest(s)
    BY <1>0, <1>12, <2>2, <2>3, TripsWiredSale DEF SaleMoveWrite, Rest
  <2>4. CASE Goto(s, "standDown")
    BY <1>0, <1>12, <2>2, <2>4, TripsWiredGoto DEF SaleMoveWrite, DeskAt, SaleSteps
  <2> QED
    BY <1>12, <2>3, <2>4 DEF SaleMoveWrite
<1>13. ASSUME NEW s \in Staff, NEW b \in Sales, SoftDelete(s, b) PROVE TripsWired'
  <2>1. sale' \in [Sales -> Sale]
    BY <1>0, <1>13 DEF SoftDelete, Sale
  <2> QED
    BY <1>0, <1>13, <2>1, TripsWiredSale DEF SoftDelete, SaleSteps
<1>14. ASSUME NEW b \in Sales, Restore(b) PROVE TripsWired'
  <2>1. sale' \in [Sales -> Sale]
    BY <1>0, <1>14 DEF Restore, Sale
  <2> QED
    BY <1>14, <2>1 DEF Restore, TripsWired, TripsTypeOK, Born
<1>15. ASSUME NEW s \in Staff, NEW t \in TripsOf(desk[s].sale), NEW step \in {"move", "recheck"},
              NEW to \in TripStatuses, Take(s, t, step, to), UNCHANGED <<trip, sale, forsaken>>
       PROVE  TripsWired'
  BY <1>15, TripsWiredTake DEF TripsOf
<1>16. ASSUME NEW s \in Staff, StandDown(s) PROVE TripsWired'
  <2>1. CASE Rest(s) /\ UNCHANGED contended
    BY <1>0, <1>16, <2>1, TripsWiredSale DEF StandDown, Rest
  <2>2. CASE \E t \in TripsOf(desk[s].sale) : Take(s, t, "move", "CANCELLED")
    BY <1>15, <1>16, <2>2 DEF StandDown, TripStatuses
  <2> QED
    BY <1>16, <2>1, <2>2 DEF StandDown
<1>17. ASSUME NEW s \in Staff, NEW b \in Sales, Deposit(s, b) PROVE TripsWired'
  <2>1. sale' \in [Sales -> Sale]
    BY <1>0, <1>17 DEF Deposit, Sale
  <2>2. PICK target \in DepositTargets :
          desk' = [desk EXCEPT ![s] =
                  IF sale[b].status \in Advanceable \ {target}
                  THEN [AtRest EXCEPT !.at = "saleMove", !.sale = b, !.to = target]
                  ELSE [AtRest EXCEPT !.at = "recheckSale", !.sale = b]]
    BY <1>17 DEF Deposit
  <2>3. target \in BookingStatuses
    BY DEF BookingStatuses, DepositTargets
  <2> QED
    BY <1>0, <1>17, <2>1, <2>2, <2>3, TripsWiredSale DEF Deposit, SaleSteps
<1>18. ASSUME NEW s \in Staff, RecheckSale(s) PROVE TripsWired'
  <2>1. CASE Rest(s) /\ UNCHANGED contended
    BY <1>0, <1>18, <2>1, TripsWiredSale DEF RecheckSale, Rest
  <2>2. CASE \E t \in TripsOf(desk[s].sale) : Take(s, t, "recheck", trip[t].status)
    <3>1. \A t \in TripsOf(desk[s].sale) : trip[t].status \in TripStatuses
      BY <1>0 DEF TripsOf, Trip, Born
    <3> QED
      BY <1>15, <1>18, <2>2, <3>1 DEF RecheckSale
  <2> QED
    BY <1>18, <2>1, <2>2 DEF RecheckSale
<1>19. ASSUME NEW s \in Staff, DeskDies(s) PROVE TripsWired'
  <2>1. Rechecking(s) => desk[s].trip \in Trips
    BY <1>0 DEF Rechecking, DeskAt, SoundDesk, TripSteps, Desk
  <2>2. forsaken' \subseteq Trips
    BY <1>0, <1>19, <2>1 DEF DeskDies
  <2> QED
    BY <1>0, <1>19, <2>2, TripsWiredSale DEF DeskDies, Rest
<1>20. CASE UNCHANGED tripVars
  BY <1>20 DEF tripVars, TripsWired, TripsTypeOK, Born
<1> QED
  BY <1>1, <1>2, <1>3, <1>4, <1>5, <1>6, <1>7, <1>8, <1>9, <1>10, <1>11, <1>12, <1>13, <1>14,
     <1>16, <1>17, <1>18, <1>19, <1>20 DEF TripsNext, TripStep

\* Every variable of Trips keeps its type: no row is given a status its column
\* could not hold, and a request always names the trip or booking it is at work on.
THEOREM TripsTypeCorrect == TripsSpec => []TripsTypeOK
<1>1. TripsWired => TripsTypeOK
  BY DEF TripsWired
<1>2. TripsInit => TripsWired
  BY TripsStart DEF TripsInv
<1> QED
  BY <1>1, <1>2, TripsWiredStep, PTL DEF TripsSpec

-----------------------------------------------------------------------------
\* Three steps write the table of trips.
LEMMA TripWriters ==
  [TripsNext]_tripVars =>
    UNCHANGED trip \/ \E s \in Staff : HandoverInsert(s) \/ MoveWrite(s) \/ EditWrite(s)
BY DEF TripsNext, TripStep, HandoverRead, HandoverCheck, StartMove, MoveRead, Gate, EditRead, Recheck,
  StartSaleMove, SaleMoveRead, SaleMoveWrite, SoftDelete, Restore, StandDown, Deposit, RecheckSale,
  DeskDies, tripVars

\* What a write of a status or of the set-up does to the trips.
LEMMA MoveWriteDoes ==
  ASSUME TripsWired, NEW s \in Staff, MoveWrite(s), NEW t \in Trips, trip'[t] # trip[t]
  PROVE  /\ t = desk[s].trip /\ trip[t].status = desk[s].seen
         /\ trip'[t] = [trip[t] EXCEPT !.status = desk[s].to]
         /\ trip'[t].status \in TripTransitions[trip[t].status]
<1>1. desk[s].to \in TripTransitions[desk[s].seen]
  BY DEF TripsWired, MoveWrite, DeskAt, SoundDesk
<1>2. desk[s].trip = t /\ StillAsSeen(s) /\ trip'[t] = [trip[t] EXCEPT !.status = desk[s].to]
  BY DEF TripsWired, TripsTypeOK, MoveWrite
<1>3. trip'[t].status = desk[s].to
  BY <1>2 DEF TripsWired, TripsTypeOK, Trip
<1> QED
  BY <1>1, <1>2, <1>3 DEF StillAsSeen

LEMMA EditWriteDoes ==
  ASSUME TripsWired, NEW s \in Staff, EditWrite(s), NEW t \in Trips
  PROVE  /\ trip'[t].status = trip[t].status /\ trip'[t].sale = trip[t].sale
         /\ trip'[t] # trip[t] => t = desk[s].trip
BY DEF TripsWired, TripsTypeOK, EditWrite, Trip

LEMMA HandoverInsertDoes ==
  ASSUME TripsWired, NEW s \in Staff, HandoverInsert(s), NEW t \in Trips, trip'[t] # trip[t]
  PROVE  /\ ~Born(t) /\ trip'[t].status = "PREPARING" /\ trip'[t].sale = desk[s].sale
         /\ Insertable(desk[s].sale)
         /\ \A u \in Trips \ {t} : trip'[u] = trip[u]
<1>1. Insertable(desk[s].sale)
  BY DEF HandoverInsert
<1>2. PICK n \in Trips, f \in BOOLEAN :
        ~Born(n) /\ trip' = [trip EXCEPT ![n] = [status |-> "PREPARING", sale |-> desk[s].sale, setUp |-> f]]
  BY <1>1 DEF HandoverInsert
<1> QED
  BY <1>1, <1>2 DEF TripsWired, TripsTypeOK

\* The table decides every move of a trip.
LEMMA TripMoves ==
  ASSUME TripsWired, [TripsNext]_tripVars, NEW t \in Trips, Born(t),
         trip'[t].status # trip[t].status
  PROVE  trip'[t].status \in TripTransitions[trip[t].status]
BY TripWriters, MoveWriteDoes, EditWriteDoes, HandoverInsertDoes

LEMMA OneLiveTripStep ==
  TripsWired /\ OneLiveTripPerBooking /\ [TripsNext]_tripVars => OneLiveTripPerBooking'
<1> SUFFICES ASSUME TripsWired, OneLiveTripPerBooking, [TripsNext]_tripVars
             PROVE  OneLiveTripPerBooking'
  OBVIOUS
<1>1. CASE UNCHANGED trip
  BY <1>1 DEF OneLiveTripPerBooking, LiveTrip, Born
<1>2. ASSUME NEW s \in Staff, HandoverInsert(s), trip' # trip PROVE OneLiveTripPerBooking'
  <2>1. PICK n \in Trips : trip'[n] # trip[n]
    BY <1>2 DEF TripsWired, TripsTypeOK, HandoverInsert
  <2>2. /\ trip'[n].sale = desk[s].sale /\ Insertable(desk[s].sale)
        /\ \A u \in Trips \ {n} : trip'[u] = trip[u]
    BY <1>2, <2>1, HandoverInsertDoes
  <2> QED
    BY <2>2 DEF OneLiveTripPerBooking, LiveTrip, Born, Insertable, TripsOf
<1>3. ASSUME NEW s \in Staff, MoveWrite(s) \/ EditWrite(s) PROVE OneLiveTripPerBooking'
  <2>1. \A t \in Trips : trip'[t].sale = trip[t].sale /\ (LiveTrip(t)' => LiveTrip(t))
    <3> TAKE t \in Trips
    <3>1. CASE trip'[t] = trip[t]
      BY <3>1 DEF LiveTrip, Born
    <3>2. CASE EditWrite(s)
      BY <3>2, EditWriteDoes DEF LiveTrip, Born
    <3>3. CASE MoveWrite(s) /\ trip'[t] # trip[t]
      <4>1. /\ trip'[t] = [trip[t] EXCEPT !.status = desk[s].to]
            /\ trip[t].status = desk[s].seen /\ desk[s].to \in TripTransitions[desk[s].seen]
            /\ desk[s].seen \in TripStatuses
        BY <3>3, MoveWriteDoes DEF TripsWired, MoveWrite, DeskAt, SoundDesk
      <4>2. trip'[t].sale = trip[t].sale
        BY <4>1 DEF TripsWired, TripsTypeOK, Trip
      <4>3. desk[s].seen \notin {"NONE", "CANCELLED"}
        BY <4>1 DEF TripTransitions, TripStatuses
      <4> QED
        BY <4>1, <4>2, <4>3 DEF LiveTrip, Born
    <3> QED
      BY <1>3, <3>1, <3>2, <3>3
  <2> QED
    BY <2>1 DEF OneLiveTripPerBooking
<1> QED
  BY <1>1, <1>2, <1>3, TripWriters

\* A booking is in operations at most once: two requests that hand it over at the
\* same time leave one trip, and no move brings a cancelled one back
\* (createTripFromBooking and its partial unique index, changeTripStatus).
THEOREM OneLiveTrip == TripsSpec => []OneLiveTripPerBooking
<1>1. TripsInit => TripsInv
  BY TripsStart
<1>2. TripsInv /\ [TripsNext]_tripVars => TripsInv'
  BY TripsWiredStep, OneLiveTripStep DEF TripsInv
<1>3. TripsInv => OneLiveTripPerBooking
  BY DEF TripsInv
<1> QED
  BY <1>1, <1>2, <1>3, PTL DEF TripsSpec

\* However requests overlap, a trip only makes the moves of the table: an update
\* names the status the move was checked against (changeTripStatus).
THEOREM TableDecides == TripsSpec => TripsMoveByTheTable
<1> DEFINE ByTheTable ==
      \A t \in Trips : Born(t) /\ trip'[t].status # trip[t].status =>
        trip'[t].status \in TripTransitions[trip[t].status]
<1>1. TripsInit => TripsWired
  BY TripsStart DEF TripsInv
<1>2. TripsWired /\ [TripsNext]_tripVars => [ByTheTable]_tripVars
  BY TripMoves
<1> QED
  BY <1>1, <1>2, TripsWiredStep, PTL DEF TripsSpec, TripsMoveByTheTable

-----------------------------------------------------------------------------
\* A step of request s, which goes on with d, touches no trip that another request
\* has to itself, leaves its own as the record of its next step says, and makes up
\* for no lost re-check but that of its own.
Considerate(s, d) ==
  /\ \A t \in Trips \ contended' : trip'[t] # trip[t] => \A u \in Staff \ {s} : desk[u].trip # t
  /\ d.trip \in Trips \ contended' =>
       OnTrack(d, trip'[d.trip], d.trip \in forsaken') /\ \A u \in Staff \ {s} : desk[u].trip # d.trip
  /\ \A t \in Trips \ (contended' \cup forsaken') :
       (t = desk[s].trip \/ trip'[t] # trip[t]) /\ t # d.trip /\ trip'[t].status = "READY" =>
         trip'[t].setUp
  /\ \A t \in forsaken \ forsaken' : t = desk[s].trip

LEMMA ReadyStep ==
  ASSUME ReadyInv, NEW s \in Staff, NEW d \in Desk, desk' = [desk EXCEPT ![s] = d],
         contended \subseteq contended', Considerate(s, d)
  PROVE  Alone' /\ Tracked' /\ ReadyIsSetUp'
<1> USE DEF Considerate
<1>1. \A u \in Staff : desk'[u] = (IF u = s THEN d ELSE desk[u])
  BY DEF ReadyInv, TripsWired, TripsTypeOK
<1>2. Alone'
  BY <1>1 DEF Alone, ReadyInv
<1>3. ASSUME NEW u \in Staff, desk'[u].trip \in Trips \ contended'
      PROVE  OnTrack(desk'[u], trip'[desk'[u].trip], desk'[u].trip \in forsaken')
  <2>1. CASE u = s
    BY <1>1, <1>3, <2>1
  <2>2. CASE u # s
    <3>1. desk'[u] = desk[u] /\ desk[u].trip \in Trips \ contended
      BY <1>1, <1>3, <2>2
    <3>2. OnTrack(desk[u], trip[desk[u].trip], desk[u].trip \in forsaken) /\ desk[u].trip # desk[s].trip
      BY <2>2, <3>1 DEF ReadyInv, Tracked, Alone
    <3>3. trip'[desk[u].trip] = trip[desk[u].trip]
      BY <1>3, <2>2, <3>1
    <3>4. desk[u].trip \in forsaken => desk[u].trip \in forsaken'
      BY <3>2
    <3> QED
      BY <3>1, <3>2, <3>3, <3>4 DEF OnTrack
  <2> QED
    BY <2>1, <2>2
<1>4. ReadyIsSetUp'
  BY <1>1 DEF ReadyIsSetUp, Busy, ReadyInv
<1> QED
  BY <1>2, <1>3, <1>4 DEF Tracked, OnTrack

\* A request that takes up a trip nobody is at work on.
LEMMA ReadyTake ==
  ASSUME ReadyInv, NEW s \in Staff, desk[s].trip = NoTrip, NEW t \in Trips, Born(t),
         NEW step \in {"move", "edit", "recheck"}, NEW to \in TripStatuses,
         Take(s, t, step, to), UNCHANGED <<trip, sale, forsaken>>
  PROVE  Alone' /\ Tracked' /\ ReadyIsSetUp'
<1> DEFINE d == [at |-> step, trip |-> t, sale |-> NoSale, seen |-> trip[t].status, to |-> to]
<1>1. d \in Desk /\ d.trip = t
  BY TakeSound DEF SoundDesk, ReadyInv
<1>2. contended' = (IF Busy(t) THEN contended \cup {t} ELSE contended) /\ desk' = [desk EXCEPT ![s] = d]
  BY DEF Take
<1>3. ~Busy(t) /\ t \notin contended => OnTrack(d, trip[t], t \in forsaken)
  BY DEF OnTrack, ReadyInv, ReadyIsSetUp
<1>4. \A u \in Trips : u # desk[s].trip
  BY TripsAssumption
<1> HIDE DEF d
<1> QED
  <2>1. Considerate(s, d)
    BY <1>1, <1>2, <1>3, <1>4 DEF Considerate, Busy
  <2> QED
    BY <1>1, <1>2, <2>1, ReadyStep

\* A request without a trip that takes none up.
LEMMA ReadyAway ==
  ASSUME ReadyInv, NEW s \in Staff, desk[s].trip = NoTrip, NEW d \in Desk, d.trip = NoTrip,
         desk' = [desk EXCEPT ![s] = d], UNCHANGED <<trip, contended, forsaken>>
  PROVE  Alone' /\ Tracked' /\ ReadyIsSetUp'
<1>1. Considerate(s, d)
  BY TripsAssumption DEF Considerate
<1> QED
  BY <1>1, ReadyStep

LEMMA ReadyNext == ReadyInv /\ [TripsNext]_tripVars => ReadyInv'
<1> SUFFICES ASSUME ReadyInv, [TripsNext]_tripVars PROVE Alone' /\ Tracked' /\ ReadyIsSetUp'
  BY TripsWiredStep DEF ReadyInv
<1>0. /\ trip \in [Trips -> Trip] /\ desk \in [Staff -> Desk]
      /\ \A s \in Staff : SoundDesk(desk[s])
      /\ \A s \in Staff : desk[s].trip # NoTrip => Born(desk[s].trip)
      /\ AtRest \in Desk /\ AtRest.trip = NoTrip /\ NoTrip \notin Trips
  BY RestSound, TripsAssumption DEF ReadyInv, TripsWired, TripsTypeOK, SoundDesk
<1>1. ASSUME NEW s \in Staff, NEW t \in Trips, EditRead(s, t) \/ \E to \in TripStatuses : StartMove(s, t, to)
      PROVE  Alone' /\ Tracked' /\ ReadyIsSetUp'
  <2>1. Born(t) /\ UNCHANGED <<trip, sale, forsaken>> /\ desk[s].trip = NoTrip
    BY <1>0, <1>1 DEF EditRead, StartMove, DeskAt, SoundDesk, TripSteps
  <2>2. trip[t].status \in TripStatuses
    BY <1>0, <2>1 DEF Trip, Born
  <2> QED
    BY <1>1, <2>1, <2>2, ReadyTake DEF EditRead, StartMove
<1>2. ASSUME NEW s \in Staff, StandDown(s) \/ RecheckSale(s)
      PROVE  Alone' /\ Tracked' /\ ReadyIsSetUp'
  <2>1. desk[s].trip = NoTrip
    BY <1>0, <1>2 DEF StandDown, RecheckSale, DeskAt, SoundDesk, TripSteps
  <2>2. CASE Rest(s) /\ UNCHANGED contended
    BY <1>0, <1>2, <2>1, <2>2, ReadyAway DEF StandDown, RecheckSale, Rest
  <2>3. ASSUME NEW t \in TripsOf(desk[s].sale),
               Take(s, t, "move", "CANCELLED") \/ Take(s, t, "recheck", trip[t].status)
        PROVE  Alone' /\ Tracked' /\ ReadyIsSetUp'
    <3>1. t \in Trips /\ Born(t)
      BY DEF TripsOf
    <3>2. trip[t].status \in TripStatuses /\ "CANCELLED" \in TripStatuses
      BY <1>0, <3>1 DEF Trip, Born, TripStatuses
    <3> QED
      BY <1>2, <2>1, <2>3, <3>1, <3>2, ReadyTake DEF StandDown, RecheckSale
  <2> QED
    BY <1>2, <2>2, <2>3 DEF StandDown, RecheckSale
<1>3. ASSUME NEW s \in Staff,
             \/ HandoverCheck(s) \/ SaleMoveRead(s) \/ SaleMoveWrite(s)
             \/ \E b \in Sales : \/ HandoverRead(s, b) \/ SoftDelete(s, b) \/ Deposit(s, b)
                                 \/ \E to \in SaleTargets : StartSaleMove(s, b, to)
      PROVE  Alone' /\ Tracked' /\ ReadyIsSetUp'
  <2>1. desk[s].trip = NoTrip /\ UNCHANGED <<trip, contended, forsaken>>
    BY <1>0, <1>3 DEF HandoverCheck, SaleMoveRead, SaleMoveWrite, HandoverRead, SoftDelete, Deposit,
      StartSaleMove, DeskAt, SoundDesk, TripSteps
  <2>2. \E d \in Desk : d.trip = NoTrip /\ desk' = [desk EXCEPT ![s] = d]
    <3>1. ASSUME NEW step \in DeskSteps, Goto(s, step)
          PROVE  \E d \in Desk : d.trip = NoTrip /\ desk' = [desk EXCEPT ![s] = d]
      <4>1. [desk[s] EXCEPT !.at = step] \in Desk /\ [desk[s] EXCEPT !.at = step].trip = NoTrip
        BY <1>0, <2>1 DEF Desk
      <4> QED
        BY <3>1, <4>1 DEF Goto
    <3>2. CASE HandoverCheck(s) \/ SaleMoveRead(s) \/ SaleMoveWrite(s)
      BY <1>0, <3>1, <3>2 DEF HandoverCheck, SaleMoveRead, SaleMoveWrite, Rest, DeskSteps
    <3>3. ASSUME NEW b \in Sales,
                 \/ HandoverRead(s, b) \/ SoftDelete(s, b)
                 \/ Deposit(s, b) \/ \E to \in SaleTargets : StartSaleMove(s, b, to)
          PROVE  \E d \in Desk : d.trip = NoTrip /\ desk' = [desk EXCEPT ![s] = d]
      <4>1. ASSUME NEW step \in DeskSteps, NEW to \in BookingStatuses
            PROVE  /\ [AtRest EXCEPT !.at = step, !.sale = b, !.to = to] \in Desk
                   /\ [AtRest EXCEPT !.at = step, !.sale = b, !.to = to].trip = NoTrip
                   /\ [AtRest EXCEPT !.at = step, !.sale = b] \in Desk
                   /\ [AtRest EXCEPT !.at = step, !.sale = b].trip = NoTrip
        BY <1>0 DEF Desk
      <4>2. /\ {"agreed", "standDown", "saleMove", "recheckSale"} \subseteq DeskSteps
            /\ DepositTargets \subseteq BookingStatuses
            /\ "CONFIRMED" \in BookingStatuses
        BY DEF DeskSteps, BookingStatuses, DepositTargets
      <4>3. CASE HandoverRead(s, b) \/ SoftDelete(s, b)
        BY <4>1, <4>2, <4>3 DEF HandoverRead, SoftDelete
      <4>4. CASE Deposit(s, b)
        BY <4>1, <4>2, <4>4 DEF Deposit
      <4>5. ASSUME NEW to \in SaleTargets, StartSaleMove(s, b, to)
            PROVE  \E d \in Desk : d.trip = NoTrip /\ desk' = [desk EXCEPT ![s] = d]
        BY <4>1, <4>2, <4>5, TripsAssumption DEF StartSaleMove
      <4> QED
        BY <3>3, <4>3, <4>4, <4>5
    <3> QED
      BY <1>3, <3>2, <3>3
  <2> QED
    BY <2>1, <2>2, ReadyAway
<1>4. ASSUME NEW s \in Staff, HandoverInsert(s) PROVE Alone' /\ Tracked' /\ ReadyIsSetUp'
  <2>1. desk[s].trip = NoTrip /\ trip' \in [Trips -> Trip]
    <3>1. desk[s].sale \in Sales /\ desk[s].trip = NoTrip
      BY <1>0, <1>4 DEF HandoverInsert, DeskAt, SoundDesk, SaleSteps, TripSteps
    <3> QED
      BY <1>0, <1>4, <3>1 DEF HandoverInsert, Trip, TripStatuses
  <2>2. \A t \in Trips : trip'[t] # trip[t] => ~Born(t) /\ trip'[t].status # "READY"
    BY <1>4, HandoverInsertDoes DEF ReadyInv
  <2>3. \A t \in Trips : trip'[t] # trip[t] => \A u \in Staff : desk[u].trip # t
    BY <1>0, <2>2
  <2>4. desk' = [desk EXCEPT ![s] = AtRest] /\ UNCHANGED <<contended, forsaken>>
    BY <1>4 DEF HandoverInsert, Rest
  <2>5. Considerate(s, AtRest)
    BY <1>0, <2>1, <2>2, <2>3, <2>4 DEF Considerate
  <2> QED
    BY <1>0, <2>4, <2>5, ReadyStep
<1>5. ASSUME NEW s \in Staff, MoveRead(s) \/ Gate(s) \/ Recheck(s) \/ MoveWrite(s) \/ EditWrite(s),
             desk[s].trip \in contended
      PROVE  Alone' /\ Tracked' /\ ReadyIsSetUp'
  <2>1. PICK d \in Desk : desk' = [desk EXCEPT ![s] = d] /\ d.trip \in {desk[s].trip, NoTrip}
    <3>1. TripsWired'
      BY TripsWiredStep DEF ReadyInv
    <3>2. desk'[s] \in Desk /\ desk' = [desk EXCEPT ![s] = desk'[s]]
      BY <1>0, <1>5, <3>1 DEF TripsWired, TripsTypeOK, MoveRead, Gate, Recheck, MoveWrite, EditWrite,
        Rest, Goto
    <3>3. desk'[s].trip \in {desk[s].trip, NoTrip}
      <4>1. ASSUME NEW step, Goto(s, step) PROVE desk'[s].trip = desk[s].trip
        BY <1>0, <4>1 DEF Desk, Goto
      <4>2. Rest(s) => desk'[s].trip = NoTrip
        BY <1>0 DEF Rest
      <4>3. CASE MoveRead(s)
        <5>1. PICK step \in DeskSteps : \E from :
                Rest(s) \/ desk' = [desk EXCEPT ![s] = [desk[s] EXCEPT !.at = step, !.seen = from]]
          BY <4>3 DEF MoveRead, DeskSteps
        <5>2. desk[s] \in Desk
          BY <1>0
        <5> QED
          <6>1. PICK from : Rest(s) \/ desk' = [desk EXCEPT ![s] = [desk[s] EXCEPT !.at = step, !.seen = from]]
            BY <5>1
          <6>2. [desk[s] EXCEPT !.at = step, !.seen = from].trip = desk[s].trip
            BY <5>2 DEF Desk
          <6> QED
            BY <1>0, <4>2, <6>1, <6>2
      <4>4. CASE Recheck(s)
        BY <1>0, <4>2, <4>4 DEF Desk, Recheck
      <4> QED
        BY <1>5, <4>1, <4>2, <4>3, <4>4 DEF Gate, MoveWrite, EditWrite
    <3> QED
      BY <3>2, <3>3
  <2>2. \A t \in Trips : trip'[t] # trip[t] => t = desk[s].trip
    BY <1>5, MoveWriteDoes, EditWriteDoes DEF MoveRead, Gate, Recheck, ReadyInv
  <2>3. contended' = contended /\ trip' \in [Trips -> Trip]
    <3>1. TripsWired'
      BY TripsWiredStep DEF ReadyInv
    <3> QED
      BY <1>5, <3>1 DEF MoveRead, Gate, Recheck, MoveWrite, EditWrite, TripsWired, TripsTypeOK
  <2>4. \A t \in forsaken \ forsaken' : t = desk[s].trip
    BY <1>5 DEF MoveRead, Gate, Recheck, MoveWrite, EditWrite
  <2>5. Considerate(s, d)
    BY <1>0, <1>5, <2>1, <2>2, <2>3, <2>4 DEF Considerate
  <2> QED
    BY <2>1, <2>3, <2>5, ReadyStep
<1>6. ASSUME NEW s \in Staff, MoveRead(s) \/ Gate(s) \/ Recheck(s) \/ MoveWrite(s) \/ EditWrite(s),
             desk[s].trip \notin contended
      PROVE  Alone' /\ Tracked' /\ ReadyIsSetUp'
  <2>1. desk[s].trip \in Trips \ contended
    BY <1>0, <1>6 DEF MoveRead, Gate, Recheck, MoveWrite, EditWrite, DeskAt, SoundDesk, TripSteps, Desk
  <2>2. PICK t \in Trips \ contended : t = desk[s].trip
    BY <2>1
  <2>3. OnTrack(desk[s], trip[t], t \in forsaken) /\ \A u \in Staff \ {s} : desk[u].trip # t
    BY <2>2 DEF ReadyInv, Tracked, Alone
  <2>4. desk[s] \in Desk /\ trip[t] \in Trip /\ trip[t].status \in TripStatuses
    BY <1>0, <2>2 DEF Trip, Born
  <2>5. ASSUME NEW d \in Desk, desk' = [desk EXCEPT ![s] = d], d.trip = t,
               OnTrack(d, trip'[t], t \in forsaken'), trip' \in [Trips -> Trip], contended' = contended,
               \A u \in Trips : trip'[u] # trip[u] => u = t, \A u \in forsaken \ forsaken' : u = t
        PROVE  Alone' /\ Tracked' /\ ReadyIsSetUp'
    <3>1. Considerate(s, d)
      BY <2>2, <2>3, <2>5 DEF Considerate
    <3> QED
      BY <2>5, <3>1, ReadyStep
  <2>6. ASSUME Rest(s), trip'[t].status = "READY" => trip'[t].setUp \/ t \in forsaken',
               trip' \in [Trips -> Trip], contended' = contended,
               \A u \in Trips : trip'[u] # trip[u] => u = t, \A u \in forsaken \ forsaken' : u = t
        PROVE  Alone' /\ Tracked' /\ ReadyIsSetUp'
    <3>1. Considerate(s, AtRest)
      BY <1>0, <2>2, <2>3, <2>6 DEF Considerate
    <3> QED
      BY <1>0, <2>6, <3>1, ReadyStep DEF Rest
  <2>7. CASE MoveRead(s)
    <3>1. CASE desk[s].to \in TripTransitions[trip[t].status]
      <4> DEFINE d == [desk[s] EXCEPT !.at = IF Gated(desk[s].to) THEN "gate" ELSE "write",
                                      !.seen = trip[t].status]
      <4>1. desk' = [desk EXCEPT ![s] = d]
        BY <2>2, <2>7, <3>1 DEF MoveRead
      <4>2. d \in Desk /\ d.trip = t
        BY <2>2, <2>4 DEF Desk, DeskSteps
      <4>3. OnTrack(d, trip[t], t \in forsaken)
        BY <2>3, <2>4, <2>7 DEF OnTrack, MoveRead, DeskAt, Desk, Gated
      <4> HIDE DEF d
      <4> QED
        BY <1>0, <2>5, <2>7, <4>1, <4>2, <4>3 DEF MoveRead
    <3>2. CASE desk[s].to \notin TripTransitions[trip[t].status]
      <4>1. trip[t].status = "READY" => trip[t].setUp \/ t \in forsaken
        BY <2>3, <2>7, <3>2 DEF OnTrack, MoveRead, DeskAt, TripTransitions
      <4> QED
        BY <1>0, <2>2, <2>6, <2>7, <3>2, <4>1 DEF MoveRead
    <3> QED
      BY <3>1, <3>2
  <2>8. CASE Gate(s)
    <3>1. CASE CanBeReady(t)
      <4> DEFINE d == [desk[s] EXCEPT !.at = "write"]
      <4>1. desk' = [desk EXCEPT ![s] = d]
        BY <2>2, <2>8, <3>1 DEF Gate, Goto
      <4>2. d \in Desk /\ d.trip = t
        BY <2>2, <2>4 DEF Desk, DeskSteps
      <4>3. OnTrack(d, trip[t], t \in forsaken)
        BY <2>3, <2>4, <2>8, <3>1 DEF OnTrack, Gate, DeskAt, Desk, CanBeReady
      <4> HIDE DEF d
      <4> QED
        BY <1>0, <2>5, <2>8, <4>1, <4>2, <4>3 DEF Gate
    <3>2. CASE ~CanBeReady(t)
      <4>1. trip[t].status = "READY" => trip[t].setUp \/ t \in forsaken
        BY <2>3, <2>8 DEF OnTrack, Gate, DeskAt
      <4> QED
        BY <1>0, <2>2, <2>6, <2>8, <3>2, <4>1 DEF Gate
    <3> QED
      BY <3>1, <3>2
  <2>9. CASE Recheck(s)
    <3>1. CASE trip[t].status = "READY" /\ ~CanBeReady(t)
      <4> DEFINE d == [desk[s] EXCEPT !.at = "move", !.to = "PREPARING"]
      <4>1. desk' = [desk EXCEPT ![s] = d]
        BY <1>0, <2>2, <2>9, <3>1 DEF Recheck
      <4>2. d \in Desk /\ d.trip = t
        BY <2>2, <2>4 DEF Desk, DeskSteps, TripStatuses
      <4>3. OnTrack(d, trip[t], t \in forsaken')
        BY <2>4 DEF OnTrack, Desk
      <4> HIDE DEF d
      <4> QED
        BY <1>0, <2>2, <2>5, <2>9, <4>1, <4>2, <4>3 DEF Recheck
    <3>2. CASE ~(trip[t].status = "READY" /\ ~CanBeReady(t))
      BY <1>0, <2>2, <2>6, <2>9, <3>2 DEF Recheck, CanBeReady
    <3> QED
      BY <3>1, <3>2
  <2>10. CASE MoveWrite(s)
    <3>1. /\ trip' = [trip EXCEPT ![t].status = desk[s].to] /\ desk[s].to \in TripTransitions[trip[t].status]
          /\ Rest(s) /\ contended' = contended /\ forsaken' = forsaken \ {t}
      BY <1>0, <2>2, <2>3, <2>10 DEF MoveWrite, DeskAt, OnTrack, StillAsSeen, SoundDesk
    <3>2. desk[s].to \in TripStatuses
      BY <2>4, <3>1, TableTyped
    <3>3. trip' \in [Trips -> Trip] /\ \A u \in Trips : trip'[u] # trip[u] => u = t
      BY <1>0, <3>1, <3>2 DEF Trip
    <3>4. trip'[t].status = desk[s].to /\ trip'[t].setUp = trip[t].setUp
      BY <1>0, <2>4, <3>1 DEF Trip
    <3>5. desk[s].to = "READY" => trip[t].setUp
      BY <2>3, <2>10 DEF OnTrack, MoveWrite, DeskAt, Gated
    <3> QED
      BY <2>6, <3>1, <3>3, <3>4, <3>5
  <2>11. CASE EditWrite(s)
    <3>1. PICK f \in BOOLEAN : trip' = [trip EXCEPT ![t].setUp = f]
      BY <2>2, <2>11 DEF EditWrite
    <3>2. /\ trip' \in [Trips -> Trip] /\ \A u \in Trips : trip'[u] # trip[u] => u = t
          /\ trip'[t].status = trip[t].status /\ contended' = contended /\ forsaken' = forsaken
      BY <1>0, <2>2, <2>4, <2>11, <3>1 DEF Trip, EditWrite
    <3>3. desk[s].seen = trip[t].status
      BY <2>3, <2>11 DEF OnTrack, EditWrite, DeskAt
    <3>4. CASE Rechecks(s)
      <4> DEFINE d == [desk[s] EXCEPT !.at = "recheck"]
      <4>1. desk' = [desk EXCEPT ![s] = d]
        BY <2>11, <3>4 DEF EditWrite, Goto
      <4>2. d \in Desk /\ d.trip = t
        BY <2>2, <2>4 DEF Desk, DeskSteps
      <4>3. OnTrack(d, trip'[t], t \in forsaken')
        BY <2>4 DEF OnTrack, Desk
      <4> HIDE DEF d
      <4> QED
        BY <2>5, <3>2, <4>1, <4>2, <4>3
    <3>5. CASE ~Rechecks(s)
      <4>1. Rest(s) /\ trip'[t].status # "READY"
        BY <2>11, <3>2, <3>3, <3>5 DEF EditWrite, Rechecks
      <4> QED
        BY <2>6, <3>2, <4>1
    <3> QED
      BY <3>4, <3>5
  <2> QED
    BY <1>6, <2>7, <2>8, <2>9, <2>10, <2>11
<1>7. ASSUME UNCHANGED <<trip, desk, contended, forsaken>> PROVE Alone' /\ Tracked' /\ ReadyIsSetUp'
  BY <1>7 DEF ReadyInv, Alone, Tracked, ReadyIsSetUp, Busy, OnTrack
<1>8. ASSUME NEW b \in Sales, Restore(b) PROVE Alone' /\ Tracked' /\ ReadyIsSetUp'
  BY <1>7, <1>8 DEF Restore
<1>9. ASSUME NEW s \in Staff, DeskDies(s) PROVE Alone' /\ Tracked' /\ ReadyIsSetUp'
  <2>1. desk' = [desk EXCEPT ![s] = AtRest] /\ UNCHANGED <<trip, contended>> /\ forsaken \subseteq forsaken'
    BY <1>9 DEF DeskDies, Rest
  <2>2. ASSUME NEW t \in Trips \ (contended' \cup forsaken'), t = desk[s].trip, trip[t].status = "READY"
        PROVE  trip[t].setUp
    <3>1. OnTrack(desk[s], trip[t], t \in forsaken)
      BY <2>1, <2>2 DEF ReadyInv, Tracked
    <3>2. ~Rechecking(s) /\ t \notin forsaken
      BY <1>9, <2>1, <2>2 DEF DeskDies
    <3> QED
      BY <2>2, <3>1, <3>2 DEF OnTrack, Rechecking, DeskAt
  <2>3. Considerate(s, AtRest)
    BY <1>0, <2>1, <2>2 DEF Considerate
  <2> QED
    BY <1>0, <2>1, <2>3, ReadyStep
<1>10. CASE UNCHANGED tripVars
  BY <1>7, <1>10 DEF tripVars
<1> QED
  BY <1>1, <1>2, <1>3, <1>4, <1>5, <1>6, <1>8, <1>9, <1>10 DEF TripsNext, TripStep

\* READY is a claim about the world: a trip nobody is at work on that says READY and
\* is not set up was met by two requests at once, or lost its set-up to one that died
\* before the re-check, and has not been edited since (updateTrip, revalidateTrip,
\* changeTripStatus).
THEOREM ReadyKeepsItsPromise == TripsSpec => []ReadyIsSetUp
<1>1. TripsInit => ReadyInv
  BY TripsStart
<1>2. ReadyInv => ReadyIsSetUp
  BY DEF ReadyInv
<1> QED
  BY <1>1, <1>2, ReadyNext, PTL DEF TripsSpec

\* The step that takes a trip on the road is that of a request which passed the gate.
LEMMA DepartureGated ==
  ASSUME ReadyInv, [TripsNext]_tripVars, NEW t \in Trips \ contended,
         trip[t].status # "IN_PROGRESS", trip'[t].status = "IN_PROGRESS"
  PROVE  trip[t].setUp
<1>0. TripsWired
  BY DEF ReadyInv
<1>1. PICK s \in Staff : MoveWrite(s)
  <2>1. ASSUME NEW s \in Staff, HandoverInsert(s) \/ EditWrite(s) PROVE FALSE
    BY <1>0, <2>1, EditWriteDoes, HandoverInsertDoes
  <2> QED
    BY <2>1, TripWriters
<1>2. /\ t = desk[s].trip /\ desk[s].at = "write"
      /\ trip'[t] = [trip[t] EXCEPT !.status = desk[s].to]
  BY <1>0, <1>1, MoveWriteDoes DEF MoveWrite, DeskAt
<1>3. desk[s].to = "IN_PROGRESS"
  BY <1>0, <1>2 DEF TripsWired, TripsTypeOK, Trip
<1>4. OnTrack(desk[s], trip[t], t \in forsaken)
  BY <1>2 DEF ReadyInv, Tracked
<1> QED
  BY <1>2, <1>3, <1>4 DEF OnTrack, Gated

\* Departure is a stronger claim than readiness: whichever requests died on the way,
\* a trip that only ever had one request at a time is set up when it departs, even
\* where the row said READY and was not (changeTripStatus, updateTrip).
THEOREM NoneDepartsUnready == TripsSpec => DepartsSetUp
<1> DEFINE SetUpFirst ==
      \A t \in Trips \ contended :
        trip[t].status # "IN_PROGRESS" /\ trip'[t].status = "IN_PROGRESS" => trip[t].setUp
<1>1. TripsInit => ReadyInv
  BY TripsStart
<1>2. ReadyInv /\ [TripsNext]_tripVars => [SetUpFirst]_tripVars
  BY DepartureGated
<1> QED
  BY <1>1, <1>2, ReadyNext, PTL DEF TripsSpec, DepartsSetUp
=============================================================================
