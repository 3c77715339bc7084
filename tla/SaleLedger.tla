----------------------------- MODULE SaleLedger -----------------------------
(***************************************************************************)
(* What quoting and accepting promise, without requests, locks, statuses   *)
(* or indexes: an offer is made once and never rewritten, a sale is made   *)
(* at the offer that was made, and an enquiry is sold at most once.        *)
(***************************************************************************)
CONSTANTS Quotes, Enquiries, Bookings, FrozenOffers, None

VARIABLES
  offered,  \* quotation -> the offer made, or None
  sale      \* booking -> the sale it records, or None

Sale == [q : Quotes, enq : Enquiries \cup {None}, price : FrozenOffers]

Init ==
  /\ offered = [q \in Quotes |-> None]
  /\ sale = [b \in Bookings |-> None]

MakeOffer(q) ==
  /\ offered[q] = None
  /\ offered'[q] \in FrozenOffers
  /\ offered' = [offered EXCEPT ![q] = offered'[q]]
  /\ UNCHANGED sale

Sold(e) == \E b \in Bookings : sale[b] # None /\ sale[b].enq = e

Sell(b, q, e) ==
  /\ sale[b] = None
  /\ offered[q] # None
  /\ e # None => ~Sold(e)
  /\ sale' = [sale EXCEPT ![b] = [q |-> q, enq |-> e, price |-> offered[q]]]
  /\ UNCHANGED offered

Next ==
  \/ \E q \in Quotes : MakeOffer(q)
  \/ \E b \in Bookings, q \in Quotes, e \in Enquiries \cup {None} : Sell(b, q, e)

Spec == Init /\ [][Next]_<<offered, sale>>
=============================================================================
