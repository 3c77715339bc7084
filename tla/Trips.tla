------------------------------- MODULE Trips -------------------------------
(***************************************************************************)
(* Handing bookings over to operations (trips.ts): trips, the readiness    *)
(* gate before READY and departure, edits that may take readiness away,    *)
(* and the bookings whose end must end the trip (bookings.ts).             *)
(*                                                                         *)
(* A handler is one request.  Each of its steps is one access to the       *)
(* database, so that what it read may be stale when it writes; between two *)
(* of them the process may die, or the database refuse the next.  Gate and *)
(* Recheck are a read of the trip, of its booking and of its crew each:    *)
(* nothing is written on the strength of one of them alone.                *)
(***************************************************************************)
EXTENDS BookingStatus

CONSTANTS
  Trips,        \* ids for trips
  Sales,        \* bookings that may be handed over
  Staff,        \* requests that may run at once
  Mortal,       \* those of them that may die half-way
  SaleTargets,  \* bound: the statuses a booking is moved to
  NoTrip, NoSale

ASSUME TripsAssumption ==
  /\ NoTrip \notin Trips
  /\ NoSale \notin Sales
  /\ Mortal \subseteq Staff
  /\ SaleTargets \subseteq BookingStatuses

VARIABLES
  trip,       \* trips
  sale,       \* the columns of bookings that trips depend on
  desk,       \* where each request stands
  contended,  \* history: trips that two requests worked on at once
  forsaken    \* history: READY trips whose re-check was cut short and not done since

tripVars == <<trip, sale, desk, contended, forsaken>>

TripStatuses == {"PREPARING", "READY", "IN_PROGRESS", "COMPLETED", "CANCELLED"}

TripTransitions ==
  [PREPARING   |-> {"READY", "CANCELLED"},
   READY       |-> {"PREPARING", "IN_PROGRESS", "CANCELLED"},
   IN_PROGRESS |-> {"COMPLETED", "CANCELLED"},
   COMPLETED   |-> {},
   CANCELLED   |-> {}]

\* setUp: dates, accommodation, vehicle and driver are all there.
Trip == [status : TripStatuses \cup {"NONE"}, sale : Sales \cup {NoSale}, setUp : BOOLEAN]

Sale == [status : BookingStatuses, deposit : BOOLEAN, deleted : BOOLEAN]

DeskSteps == {"idle", "agreed", "insert", "move", "gate", "write", "edit", "recheck",
              "saleMove", "saleWrite", "standDown", "recheckSale"}

\* seen: the status the request read; to: the status it wants.
Desk == [at : DeskSteps, trip : Trips \cup {NoTrip}, sale : Sales \cup {NoSale},
         seen : TripStatuses \cup BookingStatuses, to : TripStatuses \cup BookingStatuses]

TripsTypeOK ==
  /\ trip \in [Trips -> Trip]
  /\ sale \in [Sales -> Sale]
  /\ desk \in [Staff -> Desk]
  /\ contended \subseteq Trips
  /\ forsaken \subseteq Trips

Unborn == [status |-> "NONE", sale |-> NoSale, setUp |-> FALSE]

AtRest == [at |-> "idle", trip |-> NoTrip, sale |-> NoSale, seen |-> "CANCELLED", to |-> "CANCELLED"]

\* An accepted quotation leaves a confirmed booking on which nothing is paid; a
\* booking made by hand is pending.
TripsInit ==
  /\ trip = [t \in Trips |-> Unborn]
  /\ sale \in [Sales -> [status : {"PENDING", "CONFIRMED"}, deposit : {FALSE}, deleted : {FALSE}]]
  /\ desk = [s \in Staff |-> AtRest]
  /\ contended = {}
  /\ forsaken = {}

-----------------------------------------------------------------------------
DeskAt(s, step) == desk[s].at = step

Busy(t) == \E s \in Staff : desk[s].trip = t

Born(t) == trip[t].status # "NONE"

LiveTrip(t) == Born(t) /\ trip[t].status # "CANCELLED"

TripsOf(b) == {t \in Trips : Born(t) /\ trip[t].sale = b}

Dead(b) == sale[b].status \in {"CANCELLED", "REFUNDED"} \/ sale[b].deleted

Rest(s) == desk' = [desk EXCEPT ![s] = AtRest]

Goto(s, step) == desk' = [desk EXCEPT ![s].at = step]

\* A request starts to work on trip t.
Take(s, t, step, to) ==
  /\ desk' = [desk EXCEPT ![s] = [at |-> step, trip |-> t, sale |-> NoSale,
                                  seen |-> trip[t].status, to |-> to]]
  /\ contended' = IF Busy(t) THEN contended \cup {t} ELSE contended

-----------------------------------------------------------------------------
(* createTripFromBooking *)

HandoverRead(s, b) ==
  /\ DeskAt(s, "idle")
  /\ \A t \in TripsOf(b) : ~LiveTrip(t)
  /\ desk' = [desk EXCEPT ![s] = [AtRest EXCEPT !.at = "agreed", !.sale = b]]
  /\ UNCHANGED <<trip, sale, contended, forsaken>>

HandoverCheck(s) ==
  LET b == desk[s].sale IN
  /\ DeskAt(s, "agreed")
  /\ IF Dead(b) \/ sale[b].status = "DRAFT" THEN Rest(s) ELSE Goto(s, "insert")
  /\ UNCHANGED <<trip, sale, contended, forsaken>>

\* Mutant: the index of drizzle/0017 is missing.
InsertableMutant(b) == TRUE

\* The partial unique index on the booking of a trip that is not cancelled.
Insertable(b) == \A t \in TripsOf(b) : ~LiveTrip(t)

HandoverInsert(s) ==
  LET b == desk[s].sale IN
  /\ DeskAt(s, "insert")
  /\ IF Insertable(b)
     THEN \E t \in Trips :
            /\ ~Born(t)
            /\ \E f \in BOOLEAN :
                 trip' = [trip EXCEPT ![t] = [status |-> "PREPARING", sale |-> b, setUp |-> f]]
     ELSE UNCHANGED trip
  /\ Rest(s)
  /\ UNCHANGED <<sale, contended, forsaken>>

-----------------------------------------------------------------------------
(* changeTripStatus *)

StartMove(s, t, to) ==
  /\ DeskAt(s, "idle")
  /\ Born(t)
  /\ to \in TripStatuses
  /\ Take(s, t, "move", to)
  /\ UNCHANGED <<trip, sale, forsaken>>

\* Mutant: a trip that is READY departs without being asked again.
GatedMutant(to) == to = "READY"

\* Readiness is asked for before READY and before departure.
Gated(to) == to \in {"READY", "IN_PROGRESS"}

MoveRead(s) ==
  LET d == desk[s] IN
  LET from == trip[d.trip].status IN
  /\ DeskAt(s, "move")
  /\ IF d.to \in TripTransitions[from]
     THEN desk' = [desk EXCEPT ![s] =
                     [d EXCEPT !.at = IF Gated(d.to) THEN "gate" ELSE "write",
                               !.seen = from]]
     ELSE Rest(s)
  /\ UNCHANGED <<trip, sale, contended, forsaken>>

\* The critical checks.
CanBeReady(t) ==
  /\ trip[t].setUp
  /\ sale[trip[t].sale].status \in {"CONFIRMED", "IN_PROGRESS", "COMPLETED"}
  /\ sale[trip[t].sale].deposit

Gate(s) ==
  /\ DeskAt(s, "gate")
  /\ IF CanBeReady(desk[s].trip) THEN Goto(s, "write") ELSE Rest(s)
  /\ UNCHANGED <<trip, sale, contended, forsaken>>

\* Mutant: the update is by id alone.
StillAsSeenMutant(s) == TRUE

\* The update names the status that was read.
StillAsSeen(s) == trip[desk[s].trip].status = desk[s].seen

MoveWrite(s) ==
  /\ DeskAt(s, "write")
  /\ IF StillAsSeen(s)
     THEN /\ trip' = [trip EXCEPT ![desk[s].trip].status = desk[s].to]
          /\ forsaken' = forsaken \ {desk[s].trip}
     ELSE UNCHANGED <<trip, forsaken>>
  /\ Rest(s)
  /\ UNCHANGED <<sale, contended>>

-----------------------------------------------------------------------------
(* updateTrip, revalidateTrip *)

EditRead(s, t) ==
  /\ DeskAt(s, "idle")
  /\ Born(t)
  /\ trip[t].status \notin {"COMPLETED", "CANCELLED"}
  /\ Take(s, t, "edit", trip[t].status)
  /\ UNCHANGED <<trip, sale, forsaken>>

\* Mutant: an edited trip is not checked again.
RechecksMutant(s) == FALSE

Rechecks(s) == desk[s].seen = "READY"

EditWrite(s) ==
  /\ DeskAt(s, "edit")
  /\ \E f \in BOOLEAN : trip' = [trip EXCEPT ![desk[s].trip].setUp = f]
  /\ IF Rechecks(s) THEN Goto(s, "recheck") ELSE Rest(s)
  /\ UNCHANGED <<sale, contended, forsaken>>

Recheck(s) ==
  LET t == desk[s].trip IN
  /\ DeskAt(s, "recheck")
  /\ IF trip[t].status = "READY" /\ ~CanBeReady(t)
     THEN desk' = [desk EXCEPT ![s].at = "move", ![s].to = "PREPARING"]
     ELSE Rest(s)
  /\ forsaken' = forsaken \ {t}
  /\ UNCHANGED <<trip, sale, contended>>

-----------------------------------------------------------------------------
(* bookings.ts: changeBookingStatus, softDeleteBooking, restoreBooking,     *)
(* applyPaymentTotals                                                      *)

StartSaleMove(s, b, to) ==
  /\ DeskAt(s, "idle")
  /\ desk' = [desk EXCEPT ![s] = [AtRest EXCEPT !.at = "saleMove", !.sale = b, !.to = to]]
  /\ UNCHANGED <<trip, sale, contended, forsaken>>

SaleMoveRead(s) ==
  LET b == desk[s].sale IN
  /\ DeskAt(s, "saleMove")
  /\ IF ~sale[b].deleted /\ MayMove(sale[b].status, desk[s].to) THEN Goto(s, "saleWrite") ELSE Rest(s)
  /\ UNCHANGED <<trip, sale, contended, forsaken>>

\* By id: whatever the booking's status is by now.
SaleMoveWrite(s) ==
  LET b == desk[s].sale IN
  /\ DeskAt(s, "saleWrite")
  /\ sale' = [sale EXCEPT ![b].status = desk[s].to]
  /\ IF desk[s].to \in {"CANCELLED", "REFUNDED"} THEN Goto(s, "standDown") ELSE Rest(s)
  /\ UNCHANGED <<trip, contended, forsaken>>

SoftDelete(s, b) ==
  /\ DeskAt(s, "idle")
  /\ ~sale[b].deleted
  /\ sale' = [sale EXCEPT ![b].deleted = TRUE]
  /\ desk' = [desk EXCEPT ![s] = [AtRest EXCEPT !.at = "standDown", !.sale = b]]
  /\ UNCHANGED <<trip, contended, forsaken>>

Restore(b) ==
  /\ sale[b].deleted
  /\ sale' = [sale EXCEPT ![b].deleted = FALSE]
  /\ UNCHANGED <<trip, desk, contended, forsaken>>

\* cancelTripForBooking: some trip of the booking, a cancelled one included.
StandDown(s) ==
  LET b == desk[s].sale IN
  /\ DeskAt(s, "standDown")
  /\ \/ /\ TripsOf(b) = {}
        /\ Rest(s)
        /\ UNCHANGED contended
     \/ \E t \in TripsOf(b) :
          IF trip[t].status \in {"PREPARING", "READY"}
          THEN Take(s, t, "move", "CANCELLED")
          ELSE Rest(s) /\ UNCHANGED contended
  /\ UNCHANGED <<trip, sale, forsaken>>

DepositTargets == {"CONFIRMED", "PARTIALLY_PAID"}

\* A first payment: the booking moves on and the call ends there, or its trip is
\* checked again.
Deposit(s, b) ==
  /\ DeskAt(s, "idle")
  /\ ~sale[b].deleted
  /\ sale' = [sale EXCEPT ![b].deposit = TRUE]
  /\ \E target \in DepositTargets :
       desk' = [desk EXCEPT ![s] =
                  IF sale[b].status \in Advanceable \ {target}
                  THEN [AtRest EXCEPT !.at = "saleMove", !.sale = b, !.to = target]
                  ELSE [AtRest EXCEPT !.at = "recheckSale", !.sale = b]]
  /\ UNCHANGED <<trip, contended, forsaken>>

\* revalidateTripForBooking: again, some trip of the booking.
RecheckSale(s) ==
  LET b == desk[s].sale IN
  /\ DeskAt(s, "recheckSale")
  /\ \/ /\ TripsOf(b) = {}
        /\ Rest(s)
        /\ UNCHANGED contended
     \/ \E t \in TripsOf(b) : Take(s, t, "recheck", trip[t].status)
  /\ UNCHANGED <<trip, sale, forsaken>>

-----------------------------------------------------------------------------
\* Half-way through revalidateTrip, with a trip that is still READY.
Rechecking(s) ==
  /\ DeskAt(s, "recheck") \/ (desk[s].at \in {"move", "write"} /\ desk[s].to = "PREPARING")
  /\ trip[desk[s].trip].status = "READY"

\* The process dies between two statements, or the next one throws: what was
\* written stays, and nobody takes up what was left to do.
DeskDies(s) ==
  /\ s \in Mortal
  /\ ~DeskAt(s, "idle")
  /\ Rest(s)
  /\ forsaken' = IF Rechecking(s) THEN forsaken \cup {desk[s].trip} ELSE forsaken
  /\ UNCHANGED <<trip, sale, contended>>

TripStep(s) ==
  \/ HandoverCheck(s) \/ HandoverInsert(s)
  \/ MoveRead(s) \/ Gate(s) \/ MoveWrite(s)
  \/ EditWrite(s) \/ Recheck(s)
  \/ SaleMoveRead(s) \/ SaleMoveWrite(s) \/ StandDown(s) \/ RecheckSale(s)

TripsNext ==
  \/ \E s \in Staff :
       \/ TripStep(s)
       \/ DeskDies(s)
       \/ \E t \in Trips :
            \/ EditRead(s, t)
            \/ \E to \in TripStatuses : StartMove(s, t, to)
       \/ \E b \in Sales :
            \/ HandoverRead(s, b) \/ SoftDelete(s, b) \/ Deposit(s, b)
            \/ \E to \in SaleTargets : StartSaleMove(s, b, to)
  \/ \E b \in Sales : Restore(b)

TripsSpec == TripsInit /\ [][TripsNext]_tripVars

-----------------------------------------------------------------------------
(* Properties.                                                             *)

\* A booking is in operations at most once, whoever hands it over at the same
\* time and however often its trips are cancelled (createTripFromBooking).
OneLiveTripPerBooking ==
  \A t, u \in Trips : LiveTrip(t) /\ LiveTrip(u) /\ trip[t].sale = trip[u].sale => t = u

\* Whatever requests overlap, a trip only ever makes the moves of the table: one
\* that was cancelled or completed stays so, and none departs unless it was READY
\* (changeTripStatus; changeBookingStatus, with the same shape, has no such
\* promise).
TripsMoveByTheTable ==
  [][\A t \in Trips : Born(t) /\ trip'[t].status # trip[t].status =>
       trip'[t].status \in TripTransitions[trip[t].status]]_tripVars

\* "READY is a claim about the world, and the world moves": a trip that says READY
\* while nobody is at work on it is set up, unless two requests met on it, or the
\* one that took its set-up away died before its re-check was over and nobody has
\* edited the trip since.  There is no other way to a READY that lies (updateTrip,
\* revalidateTrip, changeTripStatus).
ReadyIsSetUp ==
  \A t \in Trips \ (contended \cup forsaken) :
    trip[t].status = "READY" /\ ~Busy(t) => trip[t].setUp

\* "A trip that could not be marked ready must not be able to leave by skipping past
\* it": even a trip left READY by a request that died between its edit and its
\* re-check does not depart without its set-up, because departure asks again
\* (changeTripStatus).
DepartsSetUp ==
  [][\A t \in Trips \ contended :
       trip[t].status # "IN_PROGRESS" /\ trip'[t].status = "IN_PROGRESS" => trip[t].setUp]_tripVars

\* "A dead sale must not leave a live departure behind" (changeBookingStatus,
\* softDeleteBooking, cancelTripForBooking): once nobody is at work, a booking
\* that was cancelled, refunded or deleted has no trip waiting to leave.
DeadSaleHasNoDeparture ==
  (\A s \in Staff : DeskAt(s, "idle")) =>
    \A t \in Trips : trip[t].status \in {"PREPARING", "READY"} => ~Dead(trip[t].sale)
=============================================================================
