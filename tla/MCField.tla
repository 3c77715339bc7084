------------------------------ MODULE MCField ------------------------------
(***************************************************************************)
(* Instances of Trips, OrderLinks, Messaging, Reviews, Team and Listings   *)
(* for TLC.  The six share no state, so one run checks them, one scene     *)
(* each: a behaviour is a behaviour of the component its scene names,      *)
(* while the others stand still.  They also share names: s1 is a request,  *)
(* a buyer or a worker, whichever the scene is about.                      *)
(***************************************************************************)
EXTENDS Trips, OrderLinks, Messaging, Reviews, Team, Listings, TLC

CONSTANTS x1, x2, s1, s2, k1, k2, b1, c1, o1, i1

VARIABLE scene

Cancels == {"CANCELLED"}
Stops == i1 :> "stop"
\* The report that lets a message be sent again; the others only keep it from it.
Reports == {"FAILED"}

FieldInit ==
  /\ scene \in {"trips", "orders", "messages", "reviews", "team", "listings"}
  /\ TripsInit /\ OrdersInit /\ MessagingInit /\ ReviewsInit /\ TeamInit /\ ListingsInit
  /\ scene # "trips" => \A b \in Sales : sale[b].status = "PENDING"

FieldNext ==
  /\ UNCHANGED scene
  /\ \/ /\ scene = "trips" /\ TripsNext
        /\ UNCHANGED <<orderVars, messageVars, reviewVars, teamVars, listingVars>>
     \/ /\ scene = "orders" /\ OrdersNext
        /\ UNCHANGED <<tripVars, messageVars, reviewVars, teamVars, listingVars>>
     \/ /\ scene = "messages" /\ MessagingNext
        /\ UNCHANGED <<tripVars, orderVars, reviewVars, teamVars, listingVars>>
     \/ /\ scene = "reviews" /\ ReviewsNext
        /\ UNCHANGED <<tripVars, orderVars, messageVars, teamVars, listingVars>>
     \/ /\ scene = "team" /\ TeamNext
        /\ UNCHANGED <<tripVars, orderVars, messageVars, reviewVars, listingVars>>
     \/ /\ scene = "listings" /\ ListingsNext
        /\ UNCHANGED <<tripVars, orderVars, messageVars, reviewVars, teamVars>>

FieldSpec ==
  FieldInit /\ [][FieldNext]_<<scene, tripVars, orderVars, messageVars, reviewVars, teamVars,
                             listingVars>>

\* Each component keeps its variables in their ranges.
FieldTypeOK ==
  /\ TripsTypeOK /\ OrdersTypeOK /\ MessagingTypeOK
  /\ ReviewsTypeOK /\ TeamTypeOK /\ ListingsTypeOK

FieldSymmetry == Permutations({x1, x2}) \cup Permutations({s1, s2}) \cup Permutations({k1, k2})
=============================================================================
