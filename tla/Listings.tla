------------------------------ MODULE Listings ------------------------------
(***************************************************************************)
(* One marketplace listing (tours.ts): its operator writes it, replaces    *)
(* its itinerary and its destinations as whole lists, submits, withdraws,  *)
(* archives and deletes it; the platform reviews and publishes it.         *)
(*                                                                         *)
(* A request is a sequence of database calls.  Transactions run at READ    *)
(* COMMITTED: what a delete removes is what was there when it began, so    *)
(* rows another request commits meanwhile survive it.  The search for a    *)
(* free slug and the operator's profile are left out.                      *)
(***************************************************************************)
EXTENDS Naturals

CONSTANTS
  Editions,   \* an itinerary's text
  MaxDays,    \* bound on its days
  Places,
  Requests

ASSUME ListingsAssumption == MaxDays \in Nat \ {0} /\ Editions # {}

VARIABLES
  listing,    \* the row of tours
  days,       \* its rows of tour_itinerary_days: <<day number, edition>>
  places,     \* its rows of tour_destinations
  request,    \* where each request stands
  cleared    \* history: the platform approved it since it was last submitted

listingVars == <<listing, days, places, request, cleared>>

ListingStatuses ==
  {"NONE", "DRAFT", "SUBMITTED", "IN_REVIEW", "CHANGES_REQUESTED", "APPROVED",
   "PUBLISHED", "UNPUBLISHED", "ARCHIVED"}

TourActions ==
  {"submit", "start_review", "approve", "request_changes", "publish", "unpublish",
   "archive", "restore"}

\* The list an editor may send: days 1, 2, 3 with no gaps or repeats.
Itineraries == {{<<n, e>> : n \in 1 .. l} : l \in 0 .. MaxDays, e \in Editions}

Days == (1 .. MaxDays) \X Editions

\* fields: every column assertPublishable asks for is filled in.
Listing == [status : ListingStatuses, live : BOOLEAN, fields : BOOLEAN]

Idle == [at |-> "idle"]

Request ==
  {Idle}
  \cup [at : {"fields", "parts", "move"}, action : TourActions, from : ListingStatuses]
  \cup [at : {"days", "places"}, list : Itineraries \cup SUBSET Places, deleted : {"no", "all", "gone"}]

ListingsTypeOK ==
  /\ listing \in Listing
  /\ days \subseteq Days /\ places \subseteq Places
  /\ request \in [Requests -> Request]
  /\ cleared \in BOOLEAN

ListingsInit ==
  /\ listing = [status |-> "NONE", live |-> FALSE, fields |-> FALSE]
  /\ days = {} /\ places = {}
  /\ request = [r \in Requests |-> Idle]
  /\ cleared = FALSE

-----------------------------------------------------------------------------
Step(r, next) == request' = [request EXCEPT ![r] = next]

\* The process dies, a call fails, or the request is refused: what it did not
\* commit never happened.
GiveUp(r) ==
  /\ request[r] # Idle
  /\ Step(r, Idle)
  /\ UNCHANGED <<listing, days, places, cleared>>

CreateTour(fields) ==
  /\ listing.status = "NONE"
  /\ listing' = [status |-> "DRAFT", live |-> TRUE, fields |-> fields]
  /\ UNCHANGED <<days, places, request, cleared>>

\* Whatever its status: editing a listing never resets it.
UpdateTour(fields) ==
  /\ listing.live
  /\ listing' = [listing EXCEPT !.fields = fields]
  /\ UNCHANGED <<days, places, request, cleared>>

SoftDeleteTour ==
  /\ listing.live
  /\ listing' = [listing EXCEPT !.live = FALSE]
  /\ UNCHANGED <<days, places, request, cleared>>

-----------------------------------------------------------------------------
(* replaceItinerary, setTourDestinations: one transaction that finds the    *)
(* listing live, deletes the old rows, inserts the new list and commits.    *)

ReplaceOwned(r, what, list) ==
  /\ request[r] = Idle /\ listing.live
  /\ Step(r, [at |-> what, list |-> list, deleted |-> "no"])
  /\ UNCHANGED <<listing, days, places, cleared>>

ReplaceDelete(r) ==
  /\ request[r].at \in {"days", "places"} /\ request[r].deleted = "no"
  /\ Step(r, [request[r] EXCEPT !.deleted = "all"])
  /\ UNCHANGED <<listing, days, places, cleared>>

\* The rows the transaction's delete leaves: those of a list committed after it.
Left(r, rows) == IF request[r].deleted = "all" THEN {} ELSE rows

\* Mutant: nothing keeps a tour from having two first days.
DaysFitMutant(left, list) == TRUE

\* One day of each number per tour: the unique index.
DaysFit(left, list) == \A old \in left, new \in list : old[1] # new[1]

\* Whoever deleted the same table's rows before this commit finds them gone.
Committed(r, what) ==
  request' = [q \in Requests |->
    IF q = r THEN Idle
    ELSE IF request[q].at = what /\ request[q].deleted = "all"
         THEN [request[q] EXCEPT !.deleted = "gone"] ELSE request[q]]

ReplaceItinerary(r) ==
  /\ request[r].at = "days" /\ request[r].deleted # "no"
  /\ DaysFit(Left(r, days), request[r].list)
  /\ days' = Left(r, days) \cup request[r].list
  /\ Committed(r, "days")
  /\ UNCHANGED <<listing, places, cleared>>

\* The primary key admits a place once.
SetTourDestinations(r) ==
  /\ request[r].at = "places" /\ request[r].deleted # "no"
  /\ Left(r, places) \cap request[r].list = {}
  /\ places' = Left(r, places) \cup request[r].list
  /\ Committed(r, "places")
  /\ UNCHANGED <<listing, days, cleared>>

-----------------------------------------------------------------------------
(* transitionTour                                                           *)

MovesFrom(action) ==
  CASE action = "submit" -> {"DRAFT", "CHANGES_REQUESTED", "UNPUBLISHED"}
    [] action = "start_review" -> {"SUBMITTED"}
    [] action \in {"approve", "request_changes"} -> {"SUBMITTED", "IN_REVIEW"}
    [] action = "publish" -> {"APPROVED", "UNPUBLISHED"}
    [] action = "unpublish" -> {"PUBLISHED"}
    [] action = "archive" -> ListingStatuses \ {"NONE", "PUBLISHED", "ARCHIVED"}
    [] action = "restore" -> {"ARCHIVED"}

MovesTo(action) ==
  CASE action = "submit" -> "SUBMITTED"
    [] action = "start_review" -> "IN_REVIEW"
    [] action = "approve" -> "APPROVED"
    [] action = "request_changes" -> "CHANGES_REQUESTED"
    [] action = "publish" -> "PUBLISHED"
    [] action = "unpublish" -> "UNPUBLISHED"
    [] action = "archive" -> "ARCHIVED"
    [] action = "restore" -> "DRAFT"

TransitionRead(r, action) ==
  /\ request[r] = Idle
  /\ listing.live /\ listing.status \in MovesFrom(action)
  /\ Step(r, [at |-> IF action = "submit" THEN "fields" ELSE "move",
              action |-> action, from |-> listing.status])
  /\ UNCHANGED <<listing, days, places, cleared>>

\* assertPublishable: the row first, then its days and destinations are counted.
PublishableFields(r) ==
  /\ request[r].at = "fields"
  /\ listing.live /\ listing.fields
  /\ Step(r, [request[r] EXCEPT !.at = "parts"])
  /\ UNCHANGED <<listing, days, places, cleared>>

PublishableParts(r) ==
  /\ request[r].at = "parts"
  /\ days # {} /\ places # {}
  /\ Step(r, [request[r] EXCEPT !.at = "move"])
  /\ UNCHANGED <<listing, days, places, cleared>>

\* Mutant: the update finds the row by its id alone.
StillInMutant(status) == listing.live

\* Compare-and-set on the status the request validated against.
StillIn(status) == listing.live /\ listing.status = status

TransitionWrite(r) ==
  /\ request[r].at = "move" /\ StillIn(request[r].from)
  /\ listing' = [listing EXCEPT !.status = MovesTo(request[r].action)]
  /\ cleared' = CASE request[r].action = "approve" -> TRUE
                   [] request[r].action \in {"submit", "request_changes", "restore"} -> FALSE
                   [] OTHER -> cleared
  /\ Step(r, Idle)
  /\ UNCHANGED <<days, places>>

ListingsNext ==
  \/ SoftDeleteTour
  \/ \E fields \in BOOLEAN : CreateTour(fields) \/ UpdateTour(fields)
  \/ \E r \in Requests :
       \/ GiveUp(r)
       \/ \E list \in Itineraries : ReplaceOwned(r, "days", list)
       \/ \E list \in SUBSET Places : ReplaceOwned(r, "places", list)
       \/ ReplaceDelete(r) \/ ReplaceItinerary(r) \/ SetTourDestinations(r)
       \/ \E action \in TourActions : TransitionRead(r, action)
       \/ PublishableFields(r) \/ PublishableParts(r) \/ TransitionWrite(r)

ListingsSpec == ListingsInit /\ [][ListingsNext]_listingVars

-----------------------------------------------------------------------------
(* Properties.                                                             *)

\* "Only the marketplace team can review or publish a listing" (transitionTour):
\* a listing that is approved, on sale or off sale again was approved since it
\* was last submitted, although whoever moves it decides on a status read
\* earlier and others submit, reject and archive it meanwhile.
PublishedWasApproved ==
  listing.status \in {"APPROVED", "PUBLISHED", "UNPUBLISHED"} => cleared

\* "Replace the itinerary as one list, atomically" (replaceItinerary): a tour
\* never shows two editions mixed, a day twice or a gap, however two editors'
\* transactions overlap or fail.
ItineraryIsWhole == days \in Itineraries
=============================================================================
