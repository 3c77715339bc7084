-------------------------- MODULE QuotationsProofs --------------------------
(***************************************************************************)
(* What holds of Quotations for any number of quotations, enquiries,       *)
(* bookings and handlers in flight.                                        *)
(***************************************************************************)
EXTENDS Quotations, TLAPS

\* A row that exists has been written whole.
Written == \A q \in Quotes : quote[q].status # "ABSENT" => quote[q].live # None

\* What a handler needs at each step, it has: a row that exists, an offer, a
\* status, a booking.
Kitted(h) ==
  /\ h.at \notin {"idle", "accept.confirm", "direct.close"} =>
       h.q # None /\ quote[h.q].status # "ABSENT"
  /\ h.at \in {"send.items", "send.freeze", "accept.claim", "mirror.write",
               "mirror.clear", "mirror.lines"} => h.offer # None
  /\ h.at = "mirror.write" => h.status \in MirrorStatus \cup LocallyOwned
  /\ h.at \in {"send.quoted", "direct.close"} => h.enq # None
  /\ h.at \in {"accept.confirm", "direct.close"} => h.b # None

Equipped == Written /\ \A r \in Requests : Kitted(request[r])

TypeInv == TypeOK /\ Equipped

\* No step empties a row, and a row that comes to exist is written whole.
NothingErased ==
  \A q \in Quotes : /\ quote[q].status # "ABSENT" => quote'[q].status # "ABSENT"
                    /\ quote'[q].status # "ABSENT" => quote'[q].live # None

USE QuotationsAssumption

-----------------------------------------------------------------------------
(* A row of each table stays a row of that table when one field is written. *)

LEMMA QuotationEdit ==
  ASSUME NEW v \in Quotation
  PROVE  /\ v.status \in QuoteStatus /\ v.enq \in Enquiries \cup {None}
         /\ v.live \in LiveOffers \cup {None} /\ v.frozen \in LiveOffers \cup {None}
         /\ \A s \in QuoteStatus : [v EXCEPT !.status = s] \in Quotation
         /\ \A e \in Enquiries \cup {None} : [v EXCEPT !.enq = e] \in Quotation
         /\ \A o \in LiveOffers \cup {None} : [v EXCEPT !.live = o] \in Quotation
         /\ \A o \in LiveOffers \cup {None} : [v EXCEPT !.frozen = o] \in Quotation
         /\ \A t \in BOOLEAN : [v EXCEPT !.lapsed = t] \in Quotation
         /\ \A t \in BOOLEAN : [v EXCEPT !.deleted = t] \in Quotation
         /\ \A b \in Bookings \cup {None} : [v EXCEPT !.bookedAs = b] \in Quotation
BY DEF Quotation

LEMMA HandlerEdit ==
  ASSUME NEW h \in Handler
  PROVE  /\ h.q \in Quotes \cup {None} /\ h.enq \in Enquiries \cup {None}
         /\ h.offer \in LiveOffers \cup {None} /\ h.status \in QuoteStatus \cup {None}
         /\ h.b \in Bookings \cup {None}
         /\ \A s \in Steps : [h EXCEPT !.at = s] \in Handler
         /\ \A q \in Quotes \cup {None} : [h EXCEPT !.q = q] \in Handler
         /\ \A e \in Enquiries \cup {None} : [h EXCEPT !.enq = e] \in Handler
         /\ \A o \in LiveOffers \cup {None} : [h EXCEPT !.offer = o] \in Handler
         /\ \A s \in QuoteStatus \cup {None} : [h EXCEPT !.status = s] \in Handler
         /\ \A b \in Bookings \cup {None} : [h EXCEPT !.b = b] \in Handler
BY DEF Handler

LEMMA OfferEdit ==
  ASSUME NEW o \in LiveOffers, NEW n \in Nat
  PROVE  /\ o.total \in Nat /\ o.lines \in Nat
         /\ [o EXCEPT !.lines = n] \in LiveOffers
         /\ [o EXCEPT !.total = n] \in LiveOffers
BY DEF LiveOffers

LEMMA StatusNames ==
  /\ "ABSENT" \in QuoteStatus /\ "DRAFT" \in QuoteStatus /\ "SENT" \in QuoteStatus
  /\ "DECLINED" \in QuoteStatus /\ "EXPIRED" \in QuoteStatus
  /\ "SUPERSEDED" \in QuoteStatus /\ "CONVERTED" \in QuoteStatus
  /\ MirrorStatus \subseteq QuoteStatus /\ LocallyOwned \subseteq QuoteStatus
  /\ "ABSENT" \notin MirrorStatus \cup LocallyOwned
BY DEF QuoteStatus, MirrorStatus, LocallyOwned

LEMMA StepNames ==
  /\ "idle" \in Steps /\ "send.items" \in Steps /\ "send.freeze" \in Steps
  /\ "send.commit" \in Steps /\ "send.quoted" \in Steps /\ "decline.write" \in Steps
  /\ "accept.expire" \in Steps /\ "accept.lock" \in Steps /\ "accept.claim" \in Steps
  /\ "accept.confirm" \in Steps /\ "mirror.write" \in Steps /\ "mirror.clear" \in Steps
  /\ "mirror.lines" \in Steps /\ "direct.close" \in Steps
BY DEF Steps

LEMMA BookingEdit ==
  ASSUME NEW b \in Booking
  PROVE  /\ \A s \in {"live", "deleted"} : [b EXCEPT !.row = s] \in Booking
         /\ [b EXCEPT !.status = "CONFIRMED"] \in Booking
BY DEF Booking

LEMMA IdleTyped == Idle \in Handler
BY StepNames DEF Idle, Handler

-----------------------------------------------------------------------------
LEMMA InitTyped == Init => TypeInv
BY DEF Init, TypeInv, TypeOK, Equipped, Kitted, Written, Quotation,
       Enquiry, Booking, Handler,        QuoteStatus, EnquiryStatus, Steps, Idle, LiveOffers

LEMMA KitTyped ==
  ASSUME TypeInv, NEW r \in Requests
  PROVE  /\ request[r] \in Handler
         /\ request[r].at \notin {"idle", "accept.confirm", "direct.close"} =>
              /\ request[r].q \in Quotes
              /\ quote[request[r].q] \in Quotation
              /\ quote[request[r].q].status # "ABSENT"
              /\ quote[request[r].q].live \in LiveOffers
         /\ request[r].at \in {"send.items", "send.freeze", "accept.claim", "mirror.write",
                              "mirror.clear", "mirror.lines"} =>
              request[r].offer \in LiveOffers
         /\ request[r].at = "mirror.write" =>
              request[r].status \in QuoteStatus \ {"ABSENT"}
         /\ request[r].at \in {"send.quoted", "direct.close"} => request[r].enq \in Enquiries
         /\ request[r].at \in {"accept.confirm", "direct.close"} => request[r].b \in Bookings
BY HandlerEdit, QuotationEdit, StatusNames DEF TypeInv, TypeOK, Equipped, Written, Kitted

LEMMA EnquiryEdit ==
  ASSUME NEW e \in Enquiry
  PROVE  [e EXCEPT !.status = "QUOTED"] \in Enquiry
BY DEF Enquiry, EnquiryStatus

\* A step that moves one handler, erases no quotation and leaves the moved
\* handler with what it needs.
LEMMA Reequipped ==
  ASSUME TypeOK, Equipped, NEW r \in Requests,
         request' = [request EXCEPT ![r] = request'[r]],
         Kitted(request[r])',
         NothingErased
  PROVE  Equipped'
<1>1. ASSUME NEW x \in Requests, x # r PROVE Kitted(request[x])'
  <2>1. request'[x] = request[x]
    BY <1>1 DEF TypeOK
  <2>2. Kitted(request[x])
    BY DEF Equipped
  <2>3. request[x].q \in Quotes \cup {None}
    BY DEF TypeOK, Handler
  <2> QED
    BY <2>1, <2>2, <2>3 DEF Kitted, NothingErased
<1> QED
  BY <1>1 DEF Equipped, Written, NothingErased

LEMMA StepTyped == TypeInv /\ [Next]_vars => TypeInv'
<1> SUFFICES ASSUME TypeInv, [Next]_vars PROVE TypeInv'
  OBVIOUS
<1> USE DEF TypeInv, TypeOK
<1>1. ASSUME NEW q \in Quotes, NEW e \in Enquiries \cup {None}, NEW o \in Offers, CreateQuotation(q, e, o) PROVE TypeInv'
  <2>1. quote' \in [Quotes -> Quotation]
    BY <1>1, QuotationEdit, StatusNames DEF CreateQuotation
  <2>2. Equipped'
    BY <1>1, StatusNames DEF Equipped, Kitted, Written, CreateQuotation, Quotation
  <2> QED
    BY <1>1, <2>1, <2>2 DEF CreateQuotation
<1>2. ASSUME NEW r \in Requests, NEW q \in Quotes, SendRead(r, q) PROVE TypeInv'
  <2>1. request' \in [Requests -> Handler]
    BY <1>2, HandlerEdit, QuotationEdit, StatusNames, IdleTyped, StepNames DEF SendRead,
      Goto, Finish
  <2>2. Kitted(request[r])'
    BY <1>2, StatusNames, QuotationEdit, HandlerEdit DEF Equipped, Kitted, Written, At,
      Goto, Finish, Idle, SendRead, Found,
      MaySend
  <2>3. Equipped'
    BY <1>2, <2>2, Reequipped, StatusNames, QuotationEdit DEF Equipped, Kitted, Written,
      NothingErased, Goto, Finish, SendRead
  <2> QED
    BY <1>2, <2>1, <2>2, <2>3 DEF SendRead
<1>3. ASSUME NEW r \in Requests, SendItems(r) PROVE TypeInv'
  <2> DEFINE o == [request[r].offer EXCEPT !.lines = quote[request[r].q].live.lines]
             h == [request[r] EXCEPT !.at = "send.freeze", !.offer = o]
  <2>1. /\ request[r].q \in Quotes
        /\ quote[request[r].q].status # "ABSENT"
        /\ o \in LiveOffers
    BY <1>3, KitTyped, OfferEdit DEF SendItems, At
  <2>2. h \in Handler
    BY <2>1, KitTyped, HandlerEdit, StepNames
  <2>3. h.at = "send.freeze" /\ h.offer # None /\ h.q = request[r].q
    BY <2>1, KitTyped DEF Handler
  <2>4. request' = [request EXCEPT ![r] = h] /\ UNCHANGED quote
    BY <1>3 DEF SendItems, Goto
  <2> HIDE DEF h
  <2>5. Kitted(request[r])'
    BY <2>1, <2>3, <2>4 DEF Kitted
  <2>6. Equipped'
    BY <2>4, <2>5, Reequipped DEF Equipped, Written, NothingErased
  <2> QED
    BY <1>3, <2>2, <2>4, <2>6 DEF SendItems
<1>4. ASSUME NEW r \in Requests, SendFreeze(r) PROVE TypeInv'
  <2> DEFINE q == request[r].q
             v == [quote[q] EXCEPT !.frozen = Frozen(q, request[r].offer)]
             h == [request[r] EXCEPT !.at = "send.commit", !.offer = None]
  <2>1. q \in Quotes /\ quote[q] \in Quotation /\ quote[q].status # "ABSENT"
    BY <1>4, KitTyped DEF SendFreeze, At
  <2>2. v \in Quotation /\ v.status = quote[q].status /\ v.live = quote[q].live
    <3>1. Frozen(q, request[r].offer) \in LiveOffers \cup {None}
      BY <2>1, QuotationEdit, HandlerEdit DEF Frozen
    <3> QED
      BY <2>1, <3>1, QuotationEdit DEF Quotation
  <2>3. h \in Handler /\ h.at = "send.commit" /\ h.q = q
    <3>1. h \in Handler
      BY HandlerEdit, StepNames
    <3>2. request[r] \in Handler
      OBVIOUS
    <3> QED
      BY <3>1, <3>2 DEF Handler
  <2>4. quote' = [quote EXCEPT ![q] = v] /\ request' = [request EXCEPT ![r] = h]
    BY <1>4 DEF SendFreeze, Goto
  <2> HIDE DEF v, h
  <2>5. Kitted(request[r])'
    BY <2>1, <2>2, <2>3, <2>4 DEF Kitted
  <2>6. NothingErased
    BY <2>1, <2>2, <2>4 DEF NothingErased, Equipped, Written
  <2>7. Equipped'
    BY <2>3, <2>4, <2>5, <2>6, Reequipped
  <2> QED
    BY <1>4, <2>1, <2>2, <2>3, <2>4, <2>7 DEF SendFreeze
<1>5. ASSUME NEW r \in Requests, SendCommit(r) PROVE TypeInv'
  <2> DEFINE q == request[r].q
  <2>1. quote' \in [Quotes -> Quotation]
    BY <1>5, QuotationEdit, StatusNames DEF SendCommit
  <2>2. request' \in [Requests -> Handler]
    <3>1. [request[r] EXCEPT !.at = "send.quoted"] \in Handler
      BY HandlerEdit, StepNames
    <3> QED
      BY <1>5, <3>1, IdleTyped DEF SendCommit, Goto, Finish
  <2>3. NothingErased
    <3>1. q \in Quotes /\ quote[q].status # "ABSENT"
      BY <1>5, KitTyped DEF SendCommit, At
    <3>2. ASSUME NEW x \in Quotes
          PROVE  /\ quote[x].status # "ABSENT" => quote'[x].status # "ABSENT"
                 /\ quote'[x].status # "ABSENT" => quote'[x].live # None
      <4> DEFINE s == IF x = q THEN "SENT"
                      ELSE IF x \in Replaced(q, request[r].enq) THEN "SUPERSEDED"
                      ELSE quote[x].status
      <4>1. quote'[x] = [quote[x] EXCEPT !.status = s]
        BY <1>5 DEF SendCommit
      <4>2. quote'[x].status = s /\ quote'[x].live = quote[x].live
        BY <4>1 DEF Quotation
      <4>3. x \in Replaced(q, request[r].enq) => quote[x].status # "ABSENT"
        BY DEF Replaced
      <4> QED
        BY <3>1, <4>2, <4>3 DEF Equipped, Written
    <3> QED
      BY <3>2 DEF NothingErased
  <2>4. Kitted(request[r])'
    <3>1. CASE request[r].enq = None
      BY <1>5, <3>1 DEF SendCommit, Finish, Goto, Kitted, Idle
    <3>2. CASE request[r].enq # None
      <4> DEFINE h == [request[r] EXCEPT !.at = "send.quoted"]
      <4>1. h.at = "send.quoted" /\ h.q = q /\ h.enq # None
        BY <3>2, KitTyped DEF Handler
      <4>2. request'[r] = h
        BY <1>5, <3>2 DEF SendCommit, Goto
      <4>3. q \in Quotes /\ quote'[q].status # "ABSENT"
        BY <1>5, <2>3, KitTyped DEF SendCommit, At, NothingErased
      <4> QED
        BY <4>1, <4>2, <4>3 DEF Kitted
    <3> QED
      BY <3>1, <3>2
  <2>5. Equipped'
    BY <1>5, <2>3, <2>4, Reequipped DEF SendCommit, Goto, Finish
  <2> QED
    BY <1>5, <2>1, <2>2, <2>5 DEF SendCommit
<1>6. ASSUME NEW r \in Requests, SendQuoted(r) PROVE TypeInv'
  <2>1. enquiry' \in [Enquiries -> Enquiry]
    BY <1>6, EnquiryEdit DEF SendQuoted
  <2>2. request' \in [Requests -> Handler]
    BY <1>6, IdleTyped DEF SendQuoted, Finish, Goto
  <2>3. Kitted(request[r])'
    BY <1>6 DEF SendQuoted, Finish, Goto, Kitted, Idle
  <2>4. Equipped'
    BY <1>6, <2>3, Reequipped DEF SendQuoted, Finish, Goto, Equipped, Written, NothingErased
  <2> QED
    BY <1>6, <2>1, <2>2, <2>4 DEF SendQuoted
<1>7. ASSUME NEW r \in Requests, NEW q \in Quotes, DeclineRead(r, q) PROVE TypeInv'
  <2>1. request' \in [Requests -> Handler]
    BY <1>7, HandlerEdit, QuotationEdit, StatusNames, IdleTyped, StepNames DEF
      DeclineRead, Goto, Finish
  <2>2. Kitted(request[r])'
    BY <1>7, StatusNames, QuotationEdit, HandlerEdit DEF Equipped, Kitted, Written, At,
      Goto, Finish, Idle, DeclineRead,
      Found
  <2>3. Equipped'
    BY <1>7, <2>2, Reequipped, StatusNames, QuotationEdit DEF Equipped, Kitted, Written,
      NothingErased, Goto, Finish, DeclineRead
  <2> QED
    BY <1>7, <2>1, <2>2, <2>3 DEF DeclineRead
<1>8. ASSUME NEW r \in Requests, DeclineWrite(r) PROVE TypeInv'
  <2>1. quote' \in [Quotes -> Quotation]
    <3> DEFINE q == request[r].q
               s == IF MayDecline(quote[q].status) THEN "DECLINED" ELSE quote[q].status
    <3>1. q \in Quotes => s \in QuoteStatus
      BY QuotationEdit, StatusNames
    <3>2. quote' = [quote EXCEPT ![q].status = s]
      BY <1>8 DEF DeclineWrite
    <3> HIDE DEF s
    <3> QED
      BY <3>1, <3>2, QuotationEdit
  <2>2. request' \in [Requests -> Handler]
    BY <1>8, IdleTyped DEF DeclineWrite, Finish, Goto
  <2>3. Kitted(request[r])'
    BY <1>8 DEF DeclineWrite, Finish, Goto, Kitted, Idle
  <2>4. NothingErased
    BY <1>8, KitTyped, QuotationEdit, OfferEdit DEF DeclineWrite, MayDecline, Quotation,
      Equipped, Written, NothingErased
  <2>5. Equipped'
    BY <1>8, <2>3, <2>4, Reequipped DEF DeclineWrite, Finish, Goto
  <2> QED
    BY <1>8, <2>1, <2>2, <2>5 DEF DeclineWrite
<1>9. ASSUME NEW r \in Requests, NEW q \in Quotes, AcceptRead(r, q) PROVE TypeInv'
  <2> DEFINE h == IF quote[q].lapsed
                 THEN [Idle EXCEPT !.at = "accept.expire", !.q = q]
                 ELSE [Idle EXCEPT !.at = "accept.lock", !.q = q, !.enq = quote[q].enq]
  <2>1. request' = [request EXCEPT ![r] = h] /\ UNCHANGED quote
    BY <1>9 DEF AcceptRead, Goto
  <2>2. quote[q].status # "ABSENT" /\ quote[q].enq \in Enquiries \cup {None}
    BY <1>9, QuotationEdit DEF AcceptRead, Found
  <2>3. h \in Handler
    BY <2>2, IdleTyped, HandlerEdit, StepNames
  <2>4. h.q = q /\ h.at \in {"accept.expire", "accept.lock"}
    BY DEF Idle
  <2> HIDE DEF h
  <2>5. Kitted(request[r])'
    BY <2>1, <2>2, <2>4 DEF Kitted
  <2>6. Equipped'
    BY <2>1, <2>5, Reequipped DEF Equipped, Written, NothingErased
  <2> QED
    BY <1>9, <2>1, <2>3, <2>6 DEF AcceptRead
<1>10. ASSUME NEW r \in Requests, AcceptExpire(r) PROVE TypeInv'
  <2>1. quote' \in [Quotes -> Quotation]
    BY <1>10, QuotationEdit, StatusNames DEF AcceptExpire
  <2>2. request' \in [Requests -> Handler]
    BY <1>10, IdleTyped DEF AcceptExpire, Finish, Goto
  <2>3. Kitted(request[r])'
    BY <1>10 DEF AcceptExpire, Finish, Goto, Kitted, Idle
  <2>4. NothingErased
    BY <1>10, KitTyped, QuotationEdit, OfferEdit DEF AcceptExpire, At, Quotation,
      Equipped, Written, NothingErased
  <2>5. Equipped'
    BY <1>10, <2>3, <2>4, Reequipped DEF AcceptExpire, Finish, Goto
  <2> QED
    BY <1>10, <2>1, <2>2, <2>5 DEF AcceptExpire
<1>11. ASSUME NEW r \in Requests, AcceptLock(r) PROVE TypeInv'
  <2> DEFINE q == request[r].q
             h == [request[r] EXCEPT !.at = "accept.claim", !.offer = quote[q].frozen]
  <2>1. q \in Quotes /\ quote[q].status # "ABSENT" /\ quote[q].frozen \in LiveOffers \cup {None}
    BY <1>11, KitTyped, QuotationEdit DEF AcceptLock, At
  <2>2. h \in Handler
    BY <2>1, KitTyped, HandlerEdit, StepNames
  <2>3. h.at = "accept.claim" /\ h.offer = quote[q].frozen /\ h.q = q
    BY KitTyped DEF Handler
  <2>4. CASE quote[q].frozen # None /\ StillAcceptable(q, request[r].enq)
    <3>1. request' = [request EXCEPT ![r] = h] /\ UNCHANGED quote
      BY <1>11, <2>4 DEF AcceptLock, Goto
    <3>2. lock' \in [LockKeys -> Requests \cup {None}]
      BY <1>11, <2>4 DEF AcceptLock
    <3> HIDE DEF h
    <3>3. Kitted(request[r])'
      BY <2>1, <2>3, <2>4, <3>1 DEF Kitted
    <3>4. Equipped'
      BY <3>1, <3>3, Reequipped DEF Equipped, Written, NothingErased
    <3> QED
      BY <1>11, <2>2, <3>1, <3>2, <3>4 DEF AcceptLock
  <2>5. CASE ~(quote[q].frozen # None /\ StillAcceptable(q, request[r].enq))
    <3>1. request' = [request EXCEPT ![r] = Idle] /\ UNCHANGED <<quote, lock>>
      BY <1>11, <2>5 DEF AcceptLock, Goto, Finish
    <3>2. Kitted(request[r])'
      BY <3>1 DEF Kitted, Idle
    <3>3. Equipped'
      BY <3>1, <3>2, Reequipped DEF Equipped, Written, NothingErased
    <3> QED
      BY <1>11, <3>1, <3>3, IdleTyped DEF AcceptLock
  <2> QED
    BY <2>4, <2>5
<1>12. ASSUME NEW r \in Requests, AcceptClaim(r) PROVE TypeInv'
  <2> DEFINE q == request[r].q
             e == request[r].enq
             o == request[r].offer
  <2>1. q \in Quotes /\ quote[q].status # "ABSENT" /\ o \in LiveOffers
        /\ e \in Enquiries \cup {None} /\ quote[q] \in Quotation
        /\ quote[q].live # None
    <3>1. request[r].at = "accept.claim"
      BY <1>12 DEF AcceptClaim, At
    <3>2. q \in Quotes /\ quote[q].status # "ABSENT" /\ o \in LiveOffers /\ quote[q] \in Quotation
      BY <3>1, KitTyped
    <3>3. e \in Enquiries \cup {None}
      BY HandlerEdit
    <3> QED
      BY <3>2, <3>3 DEF Equipped, Written
  <2>2. lock' \in [LockKeys -> Requests \cup {None}]
    BY <1>12 DEF AcceptClaim, Unlocked
  <2>3. CASE UNCHANGED <<quote, enquiry, booking>> /\ Finish(r)
    <3>1. Kitted(request[r])'
      BY <2>3 DEF Kitted, Idle, Finish, Goto
    <3>2. Equipped'
      BY <2>3, <3>1, Reequipped DEF Equipped, Written, NothingErased, Finish, Goto
    <3> QED
      BY <2>2, <2>3, <3>2, IdleTyped DEF Finish, Goto
  <2>4. ASSUME NEW b \in Bookings,
               booking' = [booking EXCEPT ![b] = BookingRow(q, e, o)],
               quote' = [quote EXCEPT ![q] = [@ EXCEPT !.status = "CONVERTED", !.bookedAs = b]],
               enquiry' = [x \in Enquiries |->
                             IF x = e THEN [status |-> "CONVERTED", bookedAs |-> b]
                                      ELSE enquiry[x]],
               Goto(r, [Idle EXCEPT !.at = "accept.confirm", !.b = b])
        PROVE  TypeInv'
    <3> DEFINE h == [Idle EXCEPT !.at = "accept.confirm", !.b = b]
    <3>1. quote' \in [Quotes -> Quotation]
      <4>1. [quote[q] EXCEPT !.status = "CONVERTED", !.bookedAs = b] \in Quotation
        BY <2>1, QuotationEdit, StatusNames
      <4> QED
        BY <2>4, <4>1
    <3>2. enquiry' \in [Enquiries -> Enquiry]
      <4>1. [status |-> "CONVERTED", bookedAs |-> b] \in Enquiry
        BY DEF Enquiry, EnquiryStatus
      <4> QED
        BY <2>4, <4>1
    <3>3. booking' \in [Bookings -> Booking]
      <4>1. BookingRow(q, e, o) \in Booking
        BY <2>1 DEF BookingRow, Booking
      <4> QED
        BY <2>4, <4>1
    <3>4. h \in Handler /\ h.at = "accept.confirm" /\ h.b # None
      <4>1. h \in Handler
        BY IdleTyped, HandlerEdit, StepNames
      <4> QED
        BY <4>1 DEF Idle
    <3>5. request' = [request EXCEPT ![r] = h]
      BY <2>4 DEF Goto
    <3> HIDE DEF h
    <3>6. Kitted(request[r])'
      BY <3>4, <3>5 DEF Kitted
    <3>7. NothingErased
      <4>1. \A x \in Quotes \ {q} : quote'[x] = quote[x]
        BY <2>4
      <4>2. quote'[q].status = "CONVERTED" /\ quote'[q].live = quote[q].live
        BY <2>1, <2>4 DEF Quotation
      <4> QED
        BY <2>1, <4>1, <4>2 DEF Equipped, Written, NothingErased
    <3>8. Equipped'
      BY <3>5, <3>6, <3>7, Reequipped
    <3> QED
      BY <2>2, <3>1, <3>2, <3>3, <3>4, <3>5, <3>8
  <2> QED
    BY <1>12, <2>3, <2>4 DEF AcceptClaim
<1>13. ASSUME NEW r \in Requests, AcceptConfirm(r) PROVE TypeInv'
  <2>1. booking' \in [Bookings -> Booking]
    BY <1>13, BookingEdit DEF AcceptConfirm
  <2>2. request' \in [Requests -> Handler]
    BY <1>13, HandlerEdit, QuotationEdit, StatusNames, IdleTyped, StepNames DEF
      AcceptConfirm, Goto, Finish
  <2>3. Kitted(request[r])'
    BY <1>13, StatusNames, QuotationEdit, HandlerEdit DEF Equipped, Kitted, Written, At,
      Goto, Finish, Idle, AcceptConfirm
  <2>4. Equipped'
    BY <1>13, <2>3, Reequipped, StatusNames, QuotationEdit DEF Equipped, Kitted,
      Written, NothingErased, Goto, Finish,
      AcceptConfirm
  <2> QED
    BY <1>13, <2>1, <2>2, <2>3, <2>4 DEF AcceptConfirm
<1>14. ASSUME NEW q \in Quotes, Lapse(q) PROVE TypeInv'
  <2>1. quote' \in [Quotes -> Quotation]
    BY <1>14, QuotationEdit, StatusNames DEF Lapse
  <2>2. Equipped'
    BY <1>14, StatusNames DEF Equipped, Kitted, Written, Lapse, Quotation
  <2> QED
    BY <1>14, <2>1, <2>2 DEF Lapse
<1>15. ASSUME ExpireStaleQuotations PROVE TypeInv'
  <2>1. quote' \in [Quotes -> Quotation]
    BY <1>15, QuotationEdit, StatusNames DEF ExpireStaleQuotations
  <2>2. \A x \in Quotes : /\ quote[x].status # "ABSENT" => quote'[x].status # "ABSENT"
                         /\ quote'[x].status # "ABSENT" => quote'[x].live # None
    <3> SUFFICES ASSUME NEW x \in Quotes
                 PROVE  /\ quote[x].status # "ABSENT" => quote'[x].status # "ABSENT"
                        /\ quote'[x].status # "ABSENT" => quote'[x].live # None
      OBVIOUS
    <3>1. CASE Stale(x)
      BY <1>15, <3>1 DEF ExpireStaleQuotations, Stale, Equipped, Written, Quotation
    <3>2. CASE ~Stale(x)
      BY <1>15, <3>2 DEF ExpireStaleQuotations, Equipped, Written
    <3> QED
      BY <3>1, <3>2
  <2>3. Equipped'
    <3>1. ASSUME NEW r \in Requests PROVE Kitted(request[r])'
      BY <1>15, <2>2, KitTyped DEF ExpireStaleQuotations, Equipped, Kitted
    <3> QED
      BY <2>2, <3>1 DEF Equipped, Written
  <2> QED
    BY <1>15, <2>1, <2>3 DEF ExpireStaleQuotations
<1>16. ASSUME NEW r \in Requests, Crash(r) PROVE TypeInv'
  <2>1. request' \in [Requests -> Handler]
    BY <1>16, HandlerEdit, QuotationEdit, StatusNames, IdleTyped, StepNames DEF Crash,
      Goto, Finish
  <2>2. lock' \in [LockKeys -> Requests \cup {None}]
    BY <1>16 DEF Crash, LockKeys
  <2>3. Kitted(request[r])'
    BY <1>16, StatusNames, QuotationEdit, HandlerEdit DEF Equipped, Kitted, Written, At,
      Goto, Finish, Idle, Crash
  <2>4. Equipped'
    BY <1>16, <2>3, Reequipped, StatusNames, QuotationEdit DEF Equipped, Kitted,
      Written, NothingErased, Goto, Finish, Crash
  <2> QED
    BY <1>16, <2>1, <2>2, <2>3, <2>4 DEF Crash
<1>17. ASSUME NEW r \in Requests, NEW q \in Quotes,
             NEW e \in Enquiries \cup {None}, NEW o \in Offers, NEW s \in MirrorStatus,
             MirrorInsert(r, q, e, o, s)
      PROVE  TypeInv'
  <2> DEFINE v == [quote[q] EXCEPT !.status = s, !.enq = e, !.live = [o EXCEPT !.lines = 0]]
  <2>1. v \in Quotation /\ v.status # "ABSENT" /\ v.live # None
    <3>1. [o EXCEPT !.lines = 0] \in LiveOffers
      BY OfferEdit
    <3>2. v \in Quotation
      BY <3>1, QuotationEdit, StatusNames
    <3> QED
      BY <3>1, <3>2, StatusNames DEF Quotation
  <2>2. quote' = [quote EXCEPT ![q] = v]
    BY <1>17 DEF MirrorInsert
  <2> HIDE DEF v
  <2>3. request' \in [Requests -> Handler]
    BY <1>17, IdleTyped, HandlerEdit, StepNames DEF MirrorInsert, Goto
  <2>4. Kitted(request[r])'
    <3> DEFINE h == [Idle EXCEPT !.at = "mirror.lines", !.q = q, !.offer = o]
    <3>1. h.at = "mirror.lines" /\ h.q = q /\ h.offer # None
      BY DEF Idle
    <3>2. request'[r] = h /\ quote'[q].status # "ABSENT"
      BY <1>17, <2>1, <2>2 DEF MirrorInsert, Goto
    <3> HIDE DEF h
    <3> QED
      BY <3>1, <3>2 DEF Kitted
  <2>5. Equipped'
    BY <1>17, <2>1, <2>2, <2>4, Reequipped DEF MirrorInsert, Goto, Equipped, Written,
      NothingErased
  <2> QED
    BY <1>17, <2>1, <2>2, <2>3, <2>5 DEF MirrorInsert
<1>18. ASSUME NEW r \in Requests, NEW q \in Quotes,
             NEW e \in Enquiries \cup {None}, NEW o \in Offers, NEW s \in MirrorStatus,
             MirrorRead(r, q, e, o, s)
      PROVE  TypeInv'
  <2>1. request' \in [Requests -> Handler]
    BY <1>18, HandlerEdit, QuotationEdit, StatusNames, IdleTyped, StepNames DEF
      MirrorRead, Goto, Finish, MirroredStatus
  <2>2. Kitted(request[r])'
    BY <1>18, StatusNames, QuotationEdit, HandlerEdit DEF Equipped, Kitted, Written, At,
      Goto, Finish, Idle, MirrorRead,
      MirroredStatus
  <2>3. Equipped'
    BY <1>18, <2>2, Reequipped, StatusNames, QuotationEdit DEF Equipped, Kitted,
      Written, NothingErased, Goto, Finish, MirrorRead
  <2> QED
    BY <1>18, <2>1, <2>2, <2>3 DEF MirrorRead
<1>19. ASSUME NEW r \in Requests, MirrorWrite(r) PROVE TypeInv'
  <2> DEFINE m == request[r]
             v == [quote[m.q] EXCEPT !.status = m.status, !.enq = m.enq, !.lapsed = FALSE,
                                     !.live.total = m.offer.total]
  <2>1. /\ m.q \in Quotes /\ m.offer \in LiveOffers /\ m.status \in QuoteStatus \ {"ABSENT"}
        /\ m.enq \in Enquiries \cup {None}
        /\ quote[m.q] \in Quotation /\ quote[m.q].live \in LiveOffers
    BY <1>19, KitTyped, HandlerEdit DEF MirrorWrite, At
  <2>2. v \in Quotation /\ v.status # "ABSENT" /\ v.live # None
    <3>1. [quote[m.q].live EXCEPT !.total = m.offer.total] \in LiveOffers
      BY <2>1, OfferEdit
    <3>2. [quote[m.q] EXCEPT !.status = m.status, !.enq = m.enq] \in Quotation
      BY <2>1, QuotationEdit
    <3>3. [quote[m.q] EXCEPT !.status = m.status, !.enq = m.enq, !.lapsed = FALSE]
            \in Quotation
      BY <3>2, QuotationEdit
    <3>4. v \in Quotation
      BY <3>1, <3>3 DEF Quotation
    <3> QED
      BY <2>1, <3>1, <3>4 DEF Quotation
  <2>3. quote' = [quote EXCEPT ![m.q] = v]
    BY <1>19 DEF MirrorWrite
  <2>4. request' = [request EXCEPT ![r] = [Idle EXCEPT !.at = "mirror.clear", !.q = m.q,
                                                       !.offer = m.offer]]
    BY <1>19 DEF MirrorWrite, Goto
  <2> HIDE DEF v
  <2>5. request' \in [Requests -> Handler]
    BY <2>1, <2>4, IdleTyped, HandlerEdit, StepNames
  <2>6. Kitted(request[r])'
    BY <2>1, <2>2, <2>3, <2>4 DEF Kitted, Idle
  <2>7. Equipped'
    BY <2>1, <2>2, <2>3, <2>4, <2>6, Reequipped DEF Equipped, Written, NothingErased
  <2> QED
    BY <1>19, <2>1, <2>2, <2>3, <2>5, <2>7 DEF MirrorWrite
<1>20. ASSUME NEW r \in Requests, MirrorClear(r) PROVE TypeInv'
  <2> DEFINE q == request[r].q
             v == [quote[q] EXCEPT !.live.lines = 0]
  <2>1. /\ q \in Quotes /\ quote[q] \in Quotation /\ quote[q].status # "ABSENT"
        /\ quote[q].live \in LiveOffers /\ request[r].offer \in LiveOffers
    BY <1>20, KitTyped DEF MirrorClear, At
  <2>2. v \in Quotation /\ v.status # "ABSENT" /\ v.live # None
    <3>1. [quote[q].live EXCEPT !.lines = 0] \in LiveOffers
      BY <2>1, OfferEdit DEF LiveOffers
    <3>2. v \in Quotation
      BY <2>1, <3>1, QuotationEdit
    <3> QED
      BY <2>1, <3>1, <3>2 DEF Quotation
  <2>3. quote' = [quote EXCEPT ![q] = v]
    BY <2>1, <1>20 DEF MirrorClear
  <2>4. request' = [request EXCEPT ![r] = [request[r] EXCEPT !.at = "mirror.lines"]]
    BY <1>20 DEF MirrorClear, Goto, Finish
  <2> HIDE DEF v
  <2>5. request' \in [Requests -> Handler]
    BY <2>1, <2>4, KitTyped, IdleTyped, HandlerEdit, StepNames
  <2>6. Kitted(request[r])'
    BY <2>1, <2>2, <2>3, <2>4, KitTyped DEF Kitted, Idle, Handler
  <2>7. Equipped'
    BY <2>1, <2>2, <2>3, <2>4, <2>6, Reequipped DEF Equipped, Written, NothingErased
  <2> QED
    BY <1>20, <2>1, <2>2, <2>3, <2>5, <2>7 DEF MirrorClear
<1>21. ASSUME NEW r \in Requests, MirrorLines(r) PROVE TypeInv'
  <2> DEFINE q == request[r].q
             v == [quote[q] EXCEPT !.live.lines = quote[q].live.lines + request[r].offer.lines]
  <2>1. /\ q \in Quotes /\ quote[q] \in Quotation /\ quote[q].status # "ABSENT"
        /\ quote[q].live \in LiveOffers /\ request[r].offer \in LiveOffers
    BY <1>21, KitTyped DEF MirrorLines, At
  <2>2. v \in Quotation /\ v.status # "ABSENT" /\ v.live # None
    <3>1. [quote[q].live EXCEPT !.lines = quote[q].live.lines + request[r].offer.lines] \in LiveOffers
      BY <2>1, OfferEdit DEF LiveOffers
    <3>2. v \in Quotation
      BY <2>1, <3>1, QuotationEdit
    <3> QED
      BY <2>1, <3>1, <3>2 DEF Quotation
  <2>3. quote' = [quote EXCEPT ![q] = v]
    BY <2>1, <1>21 DEF MirrorLines
  <2>4. request' = [request EXCEPT ![r] = Idle]
    BY <1>21 DEF MirrorLines, Goto, Finish
  <2> HIDE DEF v
  <2>5. request' \in [Requests -> Handler]
    BY <2>1, <2>4, KitTyped, IdleTyped, HandlerEdit, StepNames
  <2>6. Kitted(request[r])'
    BY <2>1, <2>2, <2>3, <2>4, KitTyped DEF Kitted, Idle, Handler
  <2>7. Equipped'
    BY <2>1, <2>2, <2>3, <2>4, <2>6, Reequipped DEF Equipped, Written, NothingErased
  <2> QED
    BY <1>21, <2>1, <2>2, <2>3, <2>5, <2>7 DEF MirrorLines
<1>22. ASSUME NEW q \in Quotes, SoftDeleteQuotation(q) PROVE TypeInv'
  <2>1. quote' \in [Quotes -> Quotation]
    BY <1>22, QuotationEdit, StatusNames DEF SoftDeleteQuotation
  <2>2. Equipped'
    BY <1>22, StatusNames DEF Equipped, Kitted, Written, SoftDeleteQuotation, Quotation
  <2> QED
    BY <1>22, <2>1, <2>2 DEF SoftDeleteQuotation
<1>23. ASSUME NEW q \in Quotes, RestoreQuotation(q) PROVE TypeInv'
  <2>1. quote' \in [Quotes -> Quotation]
    BY <1>23, QuotationEdit, StatusNames DEF RestoreQuotation
  <2>2. Equipped'
    BY <1>23, StatusNames DEF Equipped, Kitted, Written, RestoreQuotation, Quotation
  <2> QED
    BY <1>23, <2>1, <2>2 DEF RestoreQuotation
<1>24. ASSUME NEW b \in Bookings, SoftDeleteBooking(b) PROVE TypeInv'
  <2>1. booking' \in [Bookings -> Booking]
    BY <1>24, BookingEdit DEF SoftDeleteBooking
  <2>2. Equipped'
    BY <1>24, StatusNames DEF Equipped, Kitted, Written, SoftDeleteBooking
  <2> QED
    BY <1>24, <2>1, <2>2 DEF SoftDeleteBooking
<1>25. ASSUME NEW b \in Bookings, RestoreBooking(b) PROVE TypeInv'
  <2>1. booking' \in [Bookings -> Booking]
    BY <1>25, BookingEdit DEF RestoreBooking
  <2>2. Equipped'
    BY <1>25, StatusNames DEF Equipped, Kitted, Written, RestoreBooking
  <2> QED
    BY <1>25, <2>1, <2>2 DEF RestoreBooking
<1>26. ASSUME NEW r \in Requests, NEW b \in Bookings,
             NEW q \in Quotes \cup {None}, NEW e \in Enquiries \cup {None},
             DirectBooking(r, b, q, e)
      PROVE  TypeInv'
  <2> DEFINE row == [row |-> "live", via |-> "direct", q |-> q, enq |-> e,
                    price |-> None, status |-> "PENDING"]
             h == [Idle EXCEPT !.at = "direct.close", !.enq = e, !.b = b]
  <2>1. booking' \in [Bookings -> Booking]
    <3>1. row \in Booking
      BY DEF Booking
    <3> QED
      BY <1>26, <3>1 DEF DirectBooking
  <2>2. CASE e = None
    <3>1. Kitted(request[r])'
      BY <1>26, <2>2 DEF DirectBooking, Finish, Goto, Kitted, Idle
    <3>2. Equipped'
      BY <1>26, <2>2, <3>1, Reequipped DEF DirectBooking, Finish, Goto, Equipped,
        Written, NothingErased
    <3> QED
      BY <1>26, <2>1, <2>2, <3>2, IdleTyped DEF DirectBooking, Finish, Goto
  <2>3. CASE e # None
    <3>1. h \in Handler
      BY IdleTyped, HandlerEdit, StepNames
    <3>2. h.at = "direct.close" /\ h.enq = e /\ h.b = b
      BY DEF Idle
    <3>3. request' = [request EXCEPT ![r] = h] /\ UNCHANGED quote
      BY <1>26, <2>3 DEF DirectBooking, Goto
    <3> HIDE DEF h
    <3>4. Kitted(request[r])'
      BY <2>3, <3>2, <3>3 DEF Kitted
    <3>5. Equipped'
      BY <3>3, <3>4, Reequipped DEF Equipped, Written, NothingErased
    <3> QED
      BY <1>26, <2>1, <3>1, <3>3, <3>5 DEF DirectBooking
  <2> QED
    BY <2>2, <2>3
<1>27. ASSUME NEW r \in Requests, DirectClose(r) PROVE TypeInv'
  <2>1. enquiry' \in [Enquiries -> Enquiry]
    BY <1>27 DEF DirectClose, Enquiry, Handler, EnquiryStatus
  <2>2. request' \in [Requests -> Handler]
    BY <1>27, HandlerEdit, QuotationEdit, StatusNames, IdleTyped, StepNames DEF
      DirectClose, Goto, Finish
  <2>3. Kitted(request[r])'
    BY <1>27, StatusNames, QuotationEdit, HandlerEdit DEF Equipped, Kitted, Written, At,
      Goto, Finish, Idle, DirectClose
  <2>4. Equipped'
    BY <1>27, <2>3, Reequipped, StatusNames, QuotationEdit DEF Equipped, Kitted,
      Written, NothingErased, Goto, Finish, DirectClose
  <2> QED
    BY <1>27, <2>1, <2>2, <2>3, <2>4 DEF DirectClose
<1>28. CASE UNCHANGED vars
  BY <1>28 DEF vars, Equipped, Kitted, Written
<1> QED
  BY <1>1, <1>2, <1>3, <1>4, <1>5, <1>6, <1>7, <1>8, <1>9, <1>10, <1>11,
     <1>12, <1>13, <1>14, <1>15, <1>16, <1>17, <1>18, <1>19, <1>20, <1>21,
     <1>22, <1>23, <1>24, <1>25, <1>26, <1>27, <1>28 DEF Next, Desk, Start, Proceed, Acquire

\* Every variable keeps its type: no interleaving of handlers writes a status,
\* a price or a link that the tables could not hold.
THEOREM TypeCorrect == Spec => []TypeOK
<1>1. TypeInv => TypeOK
  BY DEF TypeInv
<1> QED
  BY InitTyped, StepTyped, <1>1, PTL DEF Spec
-----------------------------------------------------------------------------
(* One acceptance per enquiry.  A handler that passed the re-read holds the *)
(* lock of its enquiry, and as long as it does nobody sells that enquiry;  *)
(* and an enquiry that was sold says so for ever, which is what the next   *)
(* re-read refuses.                                                        *)

Claiming(r) == request[r].at = "accept.claim"

Sold(e) == \E b \in Bookings : booking[b].via = "accept" /\ booking[b].enq = e

LockHeld ==
  \A r \in Requests : Claiming(r) => lock[ClaimKey(request[r].q, request[r].enq)] = r

StillUnsold ==
  \A r \in Requests : Claiming(r) /\ request[r].enq # None => ~Sold(request[r].enq)

SoldIsClosed ==
  \A b \in Bookings :
    booking[b].via = "accept" /\ booking[b].enq # None
      => enquiry[booking[b].enq].bookedAs # None

SaleInv == OneAcceptancePerEnquiry /\ LockHeld /\ StillUnsold /\ SoldIsClosed

\* A step that sells nothing, claims nothing and reopens no enquiry.
Quiet ==
  /\ \A r \in Requests : Claiming(r)' =>
       /\ request'[r] = request[r]
       /\ lock'[ClaimKey(request[r].q, request[r].enq)]
            = lock[ClaimKey(request[r].q, request[r].enq)]
  /\ \A b \in Bookings : booking'[b].via = "accept" =>
       /\ booking[b].via = "accept"
       /\ booking'[b].enq = booking[b].enq
  /\ \A e \in Enquiries : enquiry[e].bookedAs # None => enquiry'[e].bookedAs # None

Moved(r) == request'[r].at # "accept.claim" /\ request' = [request EXCEPT ![r] = request'[r]]

LEMMA MovedElsewhere ==
  ASSUME TypeInv, NEW r \in Requests, Moved(r), UNCHANGED lock
  PROVE  \A x \in Requests : Claiming(x)' =>
           /\ request'[x] = request[x]
           /\ lock'[ClaimKey(request[x].q, request[x].enq)]
                = lock[ClaimKey(request[x].q, request[x].enq)]
BY DEF TypeInv, TypeOK, Claiming, Moved

LEMMA GotoMoves ==
  ASSUME TypeInv, NEW r \in Requests, NEW h, h.at # "accept.claim", Goto(r, h)
  PROVE  Moved(r)
BY DEF TypeInv, TypeOK, Goto, Moved

LEMMA QuietSteps ==
  TypeInv /\ SaleInv /\ [Next]_vars =>
    Quiet \/ \E r \in Requests : AcceptLock(r) \/ AcceptClaim(r)
<1> SUFFICES ASSUME TypeInv, SaleInv, [Next]_vars,
                    ~ \E r \in Requests : AcceptLock(r) \/ AcceptClaim(r)
             PROVE  Quiet
  OBVIOUS
<1>1. ASSUME NEW r \in Requests, NEW q \in Quotes,
             SendRead(r, q) \/ DeclineRead(r, q) \/ AcceptRead(r, q)
      PROVE  Quiet
  <2>1. Moved(r)
    <3>1. PICK h : h.at \in Steps \ {"accept.claim"} /\ Goto(r, h)
      <4>1. CASE SendRead(r, q)
        <5> DEFINE h == [Idle EXCEPT !.at = "send.items", !.q = q,
                                     !.enq = quote[q].enq, !.offer = quote[q].live]
        <5>1. h.at = "send.items"
          BY DEF Idle
        <5> QED
          BY <4>1, <5>1, StepNames DEF SendRead
      <4>2. CASE DeclineRead(r, q)
        <5> DEFINE h == [Idle EXCEPT !.at = "decline.write", !.q = q]
        <5>1. h.at = "decline.write"
          BY DEF Idle
        <5> QED
          BY <4>2, <5>1, StepNames DEF DeclineRead
      <4>3. CASE AcceptRead(r, q)
        <5> DEFINE g == [Idle EXCEPT !.at = "accept.expire", !.q = q]
                   h == [Idle EXCEPT !.at = "accept.lock", !.q = q, !.enq = quote[q].enq]
        <5>1. g.at = "accept.expire" /\ h.at = "accept.lock"
          BY DEF Idle
        <5> QED
          BY <4>3, <5>1, StepNames DEF AcceptRead
      <4> QED
        BY <1>1, <4>1, <4>2, <4>3
    <3> QED
      BY <3>1, GotoMoves
  <2> QED
    BY <1>1, <2>1, MovedElsewhere DEF SendRead, DeclineRead, AcceptRead, Quiet
<1>2. ASSUME NEW r \in Requests,
             \/ SendItems(r) \/ SendFreeze(r) \/ SendCommit(r) \/ DeclineWrite(r)
             \/ AcceptExpire(r) \/ MirrorWrite(r) \/ MirrorClear(r) \/ MirrorLines(r)
      PROVE  Quiet
  <2>1. Moved(r)
    <3>1. CASE SendItems(r)
      BY <3>1 DEF SendItems, Goto, Moved, TypeInv, TypeOK, Handler
    <3>2. CASE SendFreeze(r)
      BY <3>2 DEF SendFreeze, Goto, Moved, TypeInv, TypeOK, Handler
    <3>3. CASE SendCommit(r)
      BY <3>3 DEF SendCommit, Finish, Goto, Idle, Moved, TypeInv, TypeOK, Handler
    <3>4. CASE DeclineWrite(r) \/ AcceptExpire(r) \/ MirrorLines(r)
      BY <3>4 DEF DeclineWrite, AcceptExpire, MirrorLines, Finish, Goto, Idle, Moved,
        TypeInv, TypeOK
    <3>5. CASE MirrorWrite(r)
      BY <3>5 DEF MirrorWrite, Goto, Idle, Moved, TypeInv, TypeOK
    <3>6. CASE MirrorClear(r)
      BY <3>6 DEF MirrorClear, Goto, Moved, TypeInv, TypeOK, Handler
    <3> QED
      BY <1>2, <3>1, <3>2, <3>3, <3>4, <3>5, <3>6
  <2>2. UNCHANGED <<enquiry, booking, lock>>
    BY <1>2 DEF SendItems, SendFreeze, SendCommit, DeclineWrite, AcceptExpire, MirrorWrite,
      MirrorClear, MirrorLines
  <2> QED
    BY <2>1, <2>2, MovedElsewhere DEF Quiet
<1>3. ASSUME NEW r \in Requests, SendQuoted(r) PROVE Quiet
  <2>1. Moved(r)
    BY <1>3 DEF SendQuoted, Finish, Goto, Idle, Moved, TypeInv, TypeOK
  <2>2. \A e \in Enquiries : enquiry'[e].bookedAs = enquiry[e].bookedAs
    BY <1>3 DEF SendQuoted, TypeInv, TypeOK, Enquiry
  <2> QED
    BY <1>3, <2>1, <2>2, MovedElsewhere DEF SendQuoted, Quiet
<1>4. ASSUME NEW r \in Requests, AcceptConfirm(r) PROVE Quiet
  <2>1. Moved(r)
    BY <1>4 DEF AcceptConfirm, Finish, Goto, Idle, Moved, TypeInv, TypeOK
  <2>2. \A b \in Bookings : booking'[b].via = booking[b].via /\ booking'[b].enq = booking[b].enq
    BY <1>4 DEF AcceptConfirm, TypeInv, TypeOK, Booking
  <2> QED
    BY <1>4, <2>1, <2>2, MovedElsewhere DEF AcceptConfirm, Quiet
<1>5. ASSUME NEW r \in Requests, Crash(r) PROVE Quiet
  <2>1. ASSUME NEW x \in Requests, Claiming(x)'
        PROVE  /\ request'[x] = request[x]
               /\ lock'[ClaimKey(request[x].q, request[x].enq)]
                    = lock[ClaimKey(request[x].q, request[x].enq)]
    <3>1. x # r /\ request'[x] = request[x]
      BY <1>5, <2>1 DEF Crash, Finish, Goto, Idle, Claiming, TypeInv, TypeOK
    <3>2. ClaimKey(request[x].q, request[x].enq) \in LockKeys
      BY <2>1, <3>1, KitTyped, HandlerEdit DEF Claiming, ClaimKey, LockKeys
    <3>3. lock[ClaimKey(request[x].q, request[x].enq)] = x
      BY <2>1, <3>1, <1>5 DEF SaleInv, LockHeld, Claiming
    <3> QED
      BY <1>5, <3>1, <3>2, <3>3 DEF Crash
  <2> QED
    BY <1>5, <2>1 DEF Crash, Quiet
<1>6. ASSUME NEW r \in Requests, NEW q \in Quotes, NEW e \in Enquiries \cup {None},
             NEW o \in Offers, NEW s \in MirrorStatus,
             MirrorInsert(r, q, e, o, s) \/ MirrorRead(r, q, e, o, s)
      PROVE  Quiet
  <2>1. Moved(r)
    <3>1. CASE MirrorInsert(r, q, e, o, s)
      BY <3>1 DEF MirrorInsert, Goto, Idle, Moved, TypeInv, TypeOK
    <3>2. CASE MirrorRead(r, q, e, o, s)
      BY <3>2 DEF MirrorRead, Goto, Idle, Moved, TypeInv, TypeOK
    <3> QED
      BY <1>6, <3>1, <3>2
  <2> QED
    BY <1>6, <2>1, MovedElsewhere DEF MirrorInsert, MirrorRead, Quiet
<1>7. ASSUME NEW r \in Requests, NEW b \in Bookings, NEW q \in Quotes \cup {None},
             NEW e \in Enquiries \cup {None}, DirectBooking(r, b, q, e)
      PROVE  Quiet
  <2>1. Moved(r)
    <3>1. CASE e = None
      BY <1>7, <3>1 DEF DirectBooking, Finish, Goto, Idle, Moved, TypeInv, TypeOK
    <3>2. CASE e # None
      <4> DEFINE h == [Idle EXCEPT !.at = "direct.close", !.enq = e, !.b = b]
      <4>1. h.at = "direct.close"
        BY DEF Idle
      <4>2. Goto(r, h)
        BY <1>7, <3>2 DEF DirectBooking
      <4> QED
        BY <4>1, <4>2, GotoMoves
    <3> QED
      BY <3>1, <3>2
  <2>2. ASSUME NEW c \in Bookings, booking'[c].via = "accept"
        PROVE  booking[c].via = "accept" /\ booking'[c].enq = booking[c].enq
    BY <1>7, <2>2 DEF DirectBooking, TypeInv, TypeOK
  <2> QED
    BY <1>7, <2>1, <2>2, MovedElsewhere DEF DirectBooking, Quiet
<1>8. ASSUME NEW r \in Requests, DirectClose(r) PROVE Quiet
  <2>1. Moved(r)
    BY <1>8 DEF DirectClose, Finish, Goto, Idle, Moved, TypeInv, TypeOK
  <2>2. request[r].b # None
    BY <1>8, KitTyped DEF DirectClose, At
  <2>3. ASSUME NEW e \in Enquiries, enquiry[e].bookedAs # None
        PROVE  enquiry'[e].bookedAs # None
    BY <1>8, <2>2, <2>3 DEF DirectClose, TypeInv, TypeOK
  <2> QED
    BY <1>8, <2>1, <2>3, MovedElsewhere DEF DirectClose, Quiet
<1>9. ASSUME NEW b \in Bookings, SoftDeleteBooking(b) \/ RestoreBooking(b) PROVE Quiet
  <2>1. \A c \in Bookings : booking'[c].via = booking[c].via /\ booking'[c].enq = booking[c].enq
    BY <1>9 DEF SoftDeleteBooking, RestoreBooking, TypeInv, TypeOK, Booking
  <2> QED
    BY <1>9, <2>1 DEF SoftDeleteBooking, RestoreBooking, Quiet, Claiming
<1>10. CASE UNCHANGED <<enquiry, booking, request, lock>>
  BY <1>10 DEF Quiet, Claiming
<1>11. ASSUME NEW q \in Quotes, NEW e \in Enquiries \cup {None}, NEW o \in Offers,
              CreateQuotation(q, e, o)
       PROVE  UNCHANGED <<enquiry, booking, request, lock>>
  BY <1>11 DEF CreateQuotation
<1>12. ASSUME NEW q \in Quotes, SoftDeleteQuotation(q) \/ RestoreQuotation(q) \/ Lapse(q)
       PROVE  UNCHANGED <<enquiry, booking, request, lock>>
  BY <1>12 DEF SoftDeleteQuotation, RestoreQuotation, Lapse
<1>13. ExpireStaleQuotations => UNCHANGED <<enquiry, booking, request, lock>>
  BY DEF ExpireStaleQuotations
<1> QED
  BY <1>1, <1>2, <1>3, <1>4, <1>5, <1>6, <1>7, <1>8, <1>9, <1>10, <1>11, <1>12, <1>13
  DEF Next, Desk, Start, Proceed, Acquire, vars

LEMMA SaleInit == Init => SaleInv
BY DEF Init, SaleInv, OneAcceptancePerEnquiry, LockHeld, StillUnsold, SoldIsClosed,
       Claiming, Sold, Idle

LEMMA SaleStep == TypeInv /\ TypeInv' /\ SaleInv /\ [Next]_vars => SaleInv'
<1> SUFFICES ASSUME TypeInv, TypeInv', SaleInv, [Next]_vars PROVE SaleInv'
  OBVIOUS
<1>1. CASE Quiet
  <2>1. OneAcceptancePerEnquiry'
    BY <1>1 DEF Quiet, SaleInv, OneAcceptancePerEnquiry
  <2>2. LockHeld'
    BY <1>1 DEF Quiet, SaleInv, LockHeld, Claiming
  <2>3. StillUnsold'
    BY <1>1 DEF Quiet, SaleInv, StillUnsold, Claiming, Sold
  <2>4. SoldIsClosed'
    <3>1. ASSUME NEW b \in Bookings, booking'[b].via = "accept", booking'[b].enq # None
          PROVE  enquiry'[booking'[b].enq].bookedAs # None
      <4>1. booking[b].via = "accept" /\ booking'[b].enq = booking[b].enq
        BY <1>1, <3>1 DEF Quiet
      <4>2. booking[b].enq \in Enquiries
        BY <3>1, <4>1 DEF TypeInv, TypeOK, Booking
      <4> QED
        BY <1>1, <3>1, <4>1, <4>2 DEF Quiet, SaleInv, SoldIsClosed
    <3> QED
      BY <3>1 DEF SoldIsClosed
  <2> QED
    BY <2>1, <2>2, <2>3, <2>4 DEF SaleInv
<1>2. ASSUME NEW r \in Requests, AcceptLock(r) PROVE SaleInv'
  <2> DEFINE q == request[r].q
             e == request[r].enq
             k == ClaimKey(q, e)
  <2>1. q \in Quotes /\ e \in Enquiries \cup {None} /\ k \in LockKeys
    BY <1>2, KitTyped, HandlerEdit DEF AcceptLock, At, ClaimKey, LockKeys
  <2>2. \A x \in Requests \ {r} : request'[x] = request[x]
    BY <1>2 DEF AcceptLock, Goto, Finish, TypeInv, TypeOK
  <2>3. \A x \in Requests : Claiming(x) => ClaimKey(request[x].q, request[x].enq) # k
    BY <1>2 DEF AcceptLock, SaleInv, LockHeld
  <2>4. UNCHANGED <<enquiry, booking>>
    BY <1>2 DEF AcceptLock
  <2>5. CASE quote[q].frozen # None /\ StillAcceptable(q, e)
    <3>1. request'[r].q = q /\ request'[r].enq = e
      <4>1. request'[r] = [request[r] EXCEPT !.at = "accept.claim", !.offer = quote[q].frozen]
        BY <1>2, <2>5 DEF AcceptLock, Goto, TypeInv, TypeOK
      <4>2. request[r] \in Handler
        BY DEF TypeInv, TypeOK
      <4> QED
        BY <4>1, <4>2 DEF Handler
    <3>2. lock' = [lock EXCEPT ![k] = r]
      BY <1>2, <2>5 DEF AcceptLock
    <3>3. LockHeld'
      <4>1. ASSUME NEW x \in Requests, Claiming(x)', x # r
            PROVE  lock'[ClaimKey(request'[x].q, request'[x].enq)] = x
        BY <2>2, <2>3, <3>2, <4>1 DEF SaleInv, LockHeld, Claiming
      <4>2. lock'[ClaimKey(request'[r].q, request'[r].enq)] = r
        BY <2>1, <3>1, <3>2 DEF TypeInv, TypeOK
      <4> QED
        BY <4>1, <4>2 DEF LockHeld
    <3>4. e # None => ~Sold(e)
      BY <2>5 DEF StillAcceptable, SaleInv, SoldIsClosed, Sold
    <3>5. StillUnsold'
      BY <2>2, <2>4, <3>1, <3>4 DEF SaleInv, StillUnsold, Claiming, Sold
    <3> QED
      BY <2>4, <3>3, <3>5 DEF SaleInv, OneAcceptancePerEnquiry, SoldIsClosed
  <2>6. CASE ~(quote[q].frozen # None /\ StillAcceptable(q, e))
    <3>1. ~Claiming(r)' /\ lock' = lock
      BY <1>2, <2>6 DEF AcceptLock, Finish, Goto, Idle, Claiming, TypeInv, TypeOK
    <3>2. LockHeld' /\ StillUnsold'
      BY <2>2, <2>4, <3>1 DEF SaleInv, LockHeld, StillUnsold, Claiming, Sold
    <3> QED
      BY <2>4, <3>2 DEF SaleInv, OneAcceptancePerEnquiry, SoldIsClosed
  <2> QED
    BY <2>5, <2>6
<1>3. ASSUME NEW r \in Requests, AcceptClaim(r) PROVE SaleInv'
  <2> DEFINE q == request[r].q
             e == request[r].enq
             k == ClaimKey(q, e)
  <2>1. q \in Quotes /\ e \in Enquiries \cup {None} /\ k \in LockKeys /\ Claiming(r)
    BY <1>3, KitTyped, HandlerEdit DEF AcceptClaim, At, ClaimKey, LockKeys, Claiming
  <2>2. \A x \in Requests \ {r} : request'[x] = request[x]
    BY <1>3 DEF AcceptClaim, Goto, Finish, TypeInv, TypeOK
  <2>3. ~Claiming(r)'
    <3>1. CASE Finish(r)
      BY <3>1 DEF Goto, Finish, Idle, Claiming, TypeInv, TypeOK
    <3>2. CASE \E b \in Bookings : Goto(r, [Idle EXCEPT !.at = "accept.confirm", !.b = b])
      BY <3>2 DEF Goto, Idle, Claiming, TypeInv, TypeOK
    <3> QED
      BY <1>3, <3>1, <3>2 DEF AcceptClaim
  <2>4. \A x \in Requests \ {r} :
           Claiming(x) => ClaimKey(request[x].q, request[x].enq) # k
    BY <2>1 DEF SaleInv, LockHeld
  <2>5. LockHeld'
    <3>1. lock' = [lock EXCEPT ![k] = None]
      BY <1>3 DEF AcceptClaim, Unlocked
    <3> QED
      BY <2>2, <2>3, <2>4, <3>1 DEF SaleInv, LockHeld, Claiming
  <2>6. CASE UNCHANGED <<enquiry, booking>>
    <3>1. StillUnsold'
      BY <2>2, <2>3, <2>6 DEF SaleInv, StillUnsold, Claiming, Sold
    <3> QED
      BY <2>5, <2>6, <3>1 DEF SaleInv, OneAcceptancePerEnquiry, SoldIsClosed
  <2>7. ASSUME NEW b \in Bookings,
               booking' = [booking EXCEPT ![b] = BookingRow(q, e, request[r].offer)],
               enquiry' = [x \in Enquiries |->
                             IF x = e THEN [status |-> "CONVERTED", bookedAs |-> b]
                                      ELSE enquiry[x]]
        PROVE  SaleInv'
    <3>1. booking'[b].via = "accept" /\ booking'[b].enq = e
      BY <2>7 DEF BookingRow, TypeInv, TypeOK
    <3>2. \A c \in Bookings \ {b} : booking'[c] = booking[c]
      BY <2>7 DEF TypeInv, TypeOK
    <3>3. e # None => ~Sold(e)
      BY <2>1 DEF SaleInv, StillUnsold
    <3>4. OneAcceptancePerEnquiry'
      BY <3>1, <3>2, <3>3 DEF SaleInv, OneAcceptancePerEnquiry, Sold
    <3>5. StillUnsold'
      <4>1. ASSUME NEW x \in Requests, Claiming(x)', request'[x].enq # None
            PROVE  ~Sold(request[x].enq)'
        <5>1. x # r /\ request'[x] = request[x] /\ Claiming(x)
          BY <2>2, <2>3, <4>1 DEF Claiming
        <5>2. request[x].enq # e
          BY <2>4, <4>1, <5>1 DEF ClaimKey
        <5>3. ~Sold(request[x].enq)
          BY <4>1, <5>1 DEF SaleInv, StillUnsold
        <5> QED
          BY <3>1, <3>2, <5>1, <5>2, <5>3 DEF Sold
      <4> QED
        BY <4>1 DEF StillUnsold
    <3>6. SoldIsClosed'
      <4>1. ASSUME NEW c \in Bookings, booking'[c].via = "accept", booking'[c].enq # None
            PROVE  enquiry'[booking'[c].enq].bookedAs # None
        <5>1. booking'[c].enq \in Enquiries
          BY <4>1 DEF TypeInv, TypeOK, Booking
        <5> QED
          BY <2>7, <3>1, <3>2, <4>1, <5>1 DEF SaleInv, SoldIsClosed
      <4> QED
        BY <4>1 DEF SoldIsClosed
    <3> QED
      BY <2>5, <3>4, <3>5, <3>6 DEF SaleInv
  <2> QED
    BY <1>3, <2>6, <2>7 DEF AcceptClaim
<1> QED
  BY <1>1, <1>2, <1>3, QuietSteps

\* However accepts, sends, mirrors, direct bookings, deletions and crashes
\* interleave, no enquiry gets two bookings out of accepted quotations
\* (acceptQuotation's advisory lock and its re-read of the enquiry).
THEOREM OneAcceptance == Spec => []OneAcceptancePerEnquiry
<1>1. SaleInv => OneAcceptancePerEnquiry
  BY DEF SaleInv
<1>2. Init => TypeInv /\ SaleInv
  BY InitTyped, SaleInit
<1>3. TypeInv /\ SaleInv /\ [Next]_vars => (TypeInv /\ SaleInv)'
  BY StepTyped, SaleStep
<1> QED
  BY <1>1, <1>2, <1>3, PTL DEF Spec

-----------------------------------------------------------------------------
(* What a booking says about its quotation, its price and its enquiry.     *)
(* Most steps touch none of it; seven do, and each is looked at alone.     *)

\* A booking that was never made names nothing.
Unborn ==
  \A b \in Bookings : booking[b].row = "none" =>
    booking[b].via = "none" /\ booking[b].q = None /\ booking[b].enq = None

\* The offer a claim carries is the one that was frozen.
ClaimsFrozen ==
  \A r \in Requests : request[r].at = "accept.claim" =>
    request[r].offer = quote[request[r].q].frozen /\ request[r].offer # None

\* A booking made by acceptance names its quotation and has its price.
SoldAsFrozen ==
  \A b \in Bookings : booking[b].via = "accept" =>
    /\ booking[b].q \in Quotes
    /\ booking[b].price # None
    /\ booking[b].price = quote[booking[b].q].frozen

\* The booking a quotation points to was made by accepting it.
Linked ==
  \A q \in Quotes : quote[q].bookedAs # None =>
    booking[quote[q].bookedAs].via = "accept" /\ booking[quote[q].bookedAs].q = q

\* A sync about to write CONVERTED read it on a row that pointed to a booking.
ConvertedIsLinked ==
  /\ \A q \in Quotes : quote[q].status = "CONVERTED" => quote[q].bookedAs # None
  /\ \A r \in Requests :
       request[r].at = "mirror.write" /\ request[r].status = "CONVERTED" =>
         quote[request[r].q].bookedAs # None

ClosedByItsBooking ==
  /\ \A e \in Enquiries : enquiry[e].bookedAs # None => booking[enquiry[e].bookedAs].enq = e
  /\ \A r \in Requests : request[r].at = "direct.close" =>
       booking[request[r].b].enq = request[r].enq

LinkInv ==
  Unborn /\ ClaimsFrozen /\ SoldAsFrozen /\ Linked /\ ConvertedIsLinked /\ ClosedByItsBooking

\* Steps whose handler carries something the invariant is about.
Laden == {"accept.claim", "mirror.write", "direct.close"}

RequestCalm ==
  \A r \in Requests : request'[r].at \in Laden => request'[r] = request[r]

BookingCalm ==
  \A b \in Bookings :
    /\ booking'[b].via = booking[b].via /\ booking'[b].q = booking[b].q
    /\ booking'[b].enq = booking[b].enq /\ booking'[b].price = booking[b].price
    /\ booking'[b].row = "none" => booking[b].row = "none"

QuoteCalm ==
  \A q \in Quotes :
    /\ quote'[q].frozen = quote[q].frozen /\ quote'[q].bookedAs = quote[q].bookedAs
    /\ quote'[q].status = "CONVERTED" => quote[q].status = "CONVERTED"

EnquiryCalm == \A e \in Enquiries : enquiry'[e].bookedAs = enquiry[e].bookedAs

Calm == RequestCalm /\ BookingCalm /\ QuoteCalm /\ EnquiryCalm

LEMMA StillCalm ==
  /\ UNCHANGED request => RequestCalm
  /\ UNCHANGED booking => BookingCalm
  /\ UNCHANGED quote => QuoteCalm
  /\ UNCHANGED enquiry => EnquiryCalm
BY DEF RequestCalm, BookingCalm, QuoteCalm, EnquiryCalm

LEMMA GotoCalm ==
  ASSUME TypeInv, NEW r \in Requests, NEW h, h.at \notin Laden, Goto(r, h)
  PROVE  RequestCalm
BY DEF TypeInv, TypeOK, Goto, RequestCalm

LEMMA FinishCalm ==
  ASSUME TypeInv, NEW r \in Requests, Finish(r)
  PROVE  RequestCalm
<1>1. Idle.at \notin Laden
  BY DEF Idle, Laden
<1> QED
  BY <1>1, GotoCalm DEF Finish

LEMMA RequestsCalm ==
  ASSUME TypeInv, NEW r \in Requests,
         \/ SendItems(r) \/ SendFreeze(r) \/ SendCommit(r) \/ SendQuoted(r)
         \/ DeclineWrite(r) \/ AcceptExpire(r) \/ AcceptClaim(r) \/ AcceptConfirm(r)
         \/ MirrorWrite(r) \/ MirrorClear(r) \/ MirrorLines(r) \/ DirectClose(r) \/ Crash(r)
         \/ \E q \in Quotes : SendRead(r, q) \/ DeclineRead(r, q) \/ AcceptRead(r, q)
         \/ \E q \in Quotes, e \in Enquiries \cup {None}, o \in Offers, s \in MirrorStatus :
              MirrorInsert(r, q, e, o, s)
  PROVE  RequestCalm
<1> USE DEF Laden
<1>1. CASE \/ SendQuoted(r) \/ DeclineWrite(r) \/ AcceptExpire(r) \/ AcceptConfirm(r)
           \/ MirrorLines(r) \/ DirectClose(r) \/ Crash(r)
  BY <1>1, FinishCalm DEF SendQuoted, DeclineWrite, AcceptExpire, AcceptConfirm, MirrorLines,
    DirectClose, Crash
<1>2. request[r] \in Handler
  BY DEF TypeInv, TypeOK
<1>3. \A s \in Steps : [request[r] EXCEPT !.at = s].at = s
  BY <1>2 DEF Handler
<1>4. CASE SendItems(r)
  <2> DEFINE h == [request[r] EXCEPT !.at = "send.freeze",
                                     !.offer.lines = quote[request[r].q].live.lines]
  <2>1. h.at = "send.freeze"
    BY <1>2 DEF Handler
  <2>2. Goto(r, h)
    BY <1>4 DEF SendItems
  <2> HIDE DEF h
  <2> QED
    BY <2>1, <2>2, GotoCalm
<1>5. CASE SendFreeze(r)
  <2> DEFINE h == [request[r] EXCEPT !.at = "send.commit", !.offer = None]
  <2>1. h.at = "send.commit"
    BY <1>2 DEF Handler
  <2>2. Goto(r, h)
    BY <1>5 DEF SendFreeze
  <2> HIDE DEF h
  <2> QED
    BY <2>1, <2>2, GotoCalm
<1>6. CASE SendCommit(r)
  BY <1>3, <1>6, FinishCalm, GotoCalm, StepNames DEF SendCommit
<1>7. CASE AcceptClaim(r)
  <2>1. \A b \in Bookings : [Idle EXCEPT !.at = "accept.confirm", !.b = b].at = "accept.confirm"
    BY DEF Idle
  <2> QED
    BY <1>7, <2>1, FinishCalm, GotoCalm DEF AcceptClaim
<1>8. CASE MirrorWrite(r)
  <2> DEFINE h == [Idle EXCEPT !.at = "mirror.clear", !.q = request[r].q, !.offer = request[r].offer]
  <2>1. h.at = "mirror.clear"
    BY DEF Idle
  <2>2. Goto(r, h)
    BY <1>8 DEF MirrorWrite
  <2> HIDE DEF h
  <2> QED
    BY <2>1, <2>2, GotoCalm
<1>9. CASE MirrorClear(r)
  BY <1>3, <1>9, GotoCalm, StepNames DEF MirrorClear
<1>10. ASSUME NEW q \in Quotes, SendRead(r, q) \/ DeclineRead(r, q) \/ AcceptRead(r, q)
       PROVE  RequestCalm
  <2> DEFINE Read(h) == h \in { [Idle EXCEPT !.at = "send.items", !.q = q,
                                            !.enq = quote[q].enq, !.offer = quote[q].live],
                                [Idle EXCEPT !.at = "decline.write", !.q = q],
                                [Idle EXCEPT !.at = "accept.expire", !.q = q],
                                [Idle EXCEPT !.at = "accept.lock", !.q = q, !.enq = quote[q].enq]}
  <2>1. \A h : Read(h) => h.at \notin Laden
    BY DEF Idle
  <2>2. \E h : Read(h) /\ Goto(r, h)
    BY <1>10 DEF SendRead, DeclineRead, AcceptRead
  <2> HIDE DEF Read
  <2> QED
    BY <2>1, <2>2, GotoCalm
<1>11. ASSUME NEW q \in Quotes, NEW e \in Enquiries \cup {None}, NEW o \in Offers,
              NEW s \in MirrorStatus, MirrorInsert(r, q, e, o, s)
       PROVE  RequestCalm
  <2> DEFINE h == [Idle EXCEPT !.at = "mirror.lines", !.q = q, !.offer = o]
  <2>1. h.at = "mirror.lines"
    BY DEF Idle
  <2>2. Goto(r, h)
    BY <1>11 DEF MirrorInsert
  <2> HIDE DEF h
  <2> QED
    BY <2>1, <2>2, GotoCalm
<1> QED
  BY <1>1, <1>4, <1>5, <1>6, <1>7, <1>8, <1>9, <1>10, <1>11

\* A quotation that was not there gets a status, an enquiry and an offer.
LEMMA OneQuoteCalm ==
  ASSUME TypeInv, NEW q \in Quotes, NEW s, s # "CONVERTED", NEW e, NEW o,
         quote' = [quote EXCEPT ![q] = [@ EXCEPT !.status = s, !.enq = e, !.live = o]]
  PROVE  QuoteCalm
<1>1. quote \in [Quotes -> Quotation]
  BY DEF TypeInv, TypeOK
<1> DEFINE row == [quote[q] EXCEPT !.status = s, !.enq = e, !.live = o]
<1>2. row.status = s /\ row.frozen = quote[q].frozen /\ row.bookedAs = quote[q].bookedAs
  BY <1>1 DEF Quotation
<1>3. quote'[q] = row /\ \A x \in Quotes \ {q} : quote'[x] = quote[x]
  BY <1>1
<1> HIDE DEF row
<1> QED
  BY <1>2, <1>3 DEF QuoteCalm

LEMMA QuotesCalm ==
  ASSUME TypeInv,
         \/ \E r \in Requests : SendCommit(r) \/ DeclineWrite(r) \/ AcceptExpire(r)
              \/ MirrorClear(r) \/ MirrorLines(r)
         \/ \E q \in Quotes, e \in Enquiries \cup {None}, o \in Offers : CreateQuotation(q, e, o)
         \/ \E r \in Requests, q \in Quotes, e \in Enquiries \cup {None}, o \in Offers,
               s \in MirrorStatus : MirrorInsert(r, q, e, o, s)
         \/ \E q \in Quotes : SoftDeleteQuotation(q) \/ RestoreQuotation(q) \/ Lapse(q)
         \/ ExpireStaleQuotations
  PROVE  QuoteCalm
<1>0. quote \in [Quotes -> Quotation]
  BY DEF TypeInv, TypeOK
<1>1. ASSUME NEW r \in Requests, SendCommit(r) PROVE QuoteCalm
  BY <1>0, <1>1 DEF SendCommit, QuoteCalm, Quotation
<1>2. ASSUME NEW r \in Requests, DeclineWrite(r) \/ AcceptExpire(r) PROVE QuoteCalm
  BY <1>0, <1>2 DEF DeclineWrite, AcceptExpire, QuoteCalm, Quotation
<1>3. ASSUME NEW r \in Requests, MirrorClear(r) \/ MirrorLines(r) PROVE QuoteCalm
  <2>1. \E n : quote' = [quote EXCEPT ![request[r].q] = [quote[request[r].q] EXCEPT !.live = n]]
    BY <1>0, <1>3 DEF MirrorClear, MirrorLines, Quotation
  <2>2. \A q \in Quotes : \A n : LET row == [quote[q] EXCEPT !.live = n]
                                 IN  row.status = quote[q].status /\ row.frozen = quote[q].frozen
                                /\ row.bookedAs = quote[q].bookedAs
    BY <1>0 DEF Quotation
  <2> QED
    BY <1>0, <2>1, <2>2 DEF QuoteCalm
<1>4. ASSUME NEW q \in Quotes, NEW e \in Enquiries \cup {None}, NEW o \in Offers,
             CreateQuotation(q, e, o)
      PROVE  QuoteCalm
  BY <1>4, OneQuoteCalm DEF CreateQuotation
<1>5. ASSUME NEW r \in Requests, NEW q \in Quotes, NEW e \in Enquiries \cup {None},
             NEW o \in Offers, NEW s \in MirrorStatus, MirrorInsert(r, q, e, o, s)
      PROVE  QuoteCalm
  <2>1. s # "CONVERTED"
    BY DEF MirrorStatus
  <2> QED
    BY <1>5, <2>1, OneQuoteCalm DEF MirrorInsert
<1>6. ASSUME NEW q \in Quotes, SoftDeleteQuotation(q) \/ RestoreQuotation(q) \/ Lapse(q)
      PROVE  QuoteCalm
  BY <1>0, <1>6 DEF SoftDeleteQuotation, RestoreQuotation, Lapse, QuoteCalm, Quotation
<1>7. CASE ExpireStaleQuotations
  BY <1>0, <1>7 DEF ExpireStaleQuotations, QuoteCalm, Quotation
<1> QED
  BY <1>1, <1>2, <1>3, <1>4, <1>5, <1>6, <1>7

\* The steps that write what the invariant is about.
Delicate ==
  \/ \E r \in Requests : SendFreeze(r) \/ AcceptLock(r) \/ AcceptClaim(r) \/ MirrorWrite(r)
       \/ DirectClose(r)
  \/ \E r \in Requests, q \in Quotes, e \in Enquiries \cup {None}, o \in Offers,
        s \in MirrorStatus : MirrorRead(r, q, e, o, s)
  \/ \E r \in Requests, b \in Bookings, q \in Quotes \cup {None}, e \in Enquiries \cup {None} :
       DirectBooking(r, b, q, e)

LEMMA CalmSteps == TypeInv /\ [Next]_vars => Calm \/ Delicate
<1> SUFFICES ASSUME TypeInv, [Next]_vars, ~Delicate PROVE Calm
  OBVIOUS
<1>1. ASSUME NEW r \in Requests,
             \/ SendItems(r)
             \/ \E q \in Quotes : SendRead(r, q) \/ DeclineRead(r, q) \/ AcceptRead(r, q)
      PROVE  Calm
  BY <1>1, RequestsCalm, StillCalm DEF Calm, SendRead, DeclineRead, AcceptRead, SendItems
<1>2. ASSUME NEW r \in Requests,
             \/ SendCommit(r) \/ DeclineWrite(r) \/ AcceptExpire(r)
             \/ MirrorClear(r) \/ MirrorLines(r)
      PROVE  Calm
  <2>1. UNCHANGED <<enquiry, booking>>
    BY <1>2 DEF SendCommit, DeclineWrite, AcceptExpire, MirrorClear, MirrorLines
  <2> QED
    BY <1>2, <2>1, RequestsCalm, QuotesCalm, StillCalm DEF Calm
<1>3. ASSUME NEW r \in Requests, NEW q \in Quotes, NEW e \in Enquiries \cup {None},
             NEW o \in Offers, NEW s \in MirrorStatus, MirrorInsert(r, q, e, o, s)
      PROVE  Calm
  <2>1. UNCHANGED <<enquiry, booking>>
    BY <1>3 DEF MirrorInsert
  <2> QED
    BY <1>3, <2>1, RequestsCalm, QuotesCalm, StillCalm DEF Calm
<1>4. ASSUME NEW r \in Requests, SendQuoted(r) PROVE Calm
  <2>1. EnquiryCalm
    BY <1>4 DEF SendQuoted, EnquiryCalm, TypeInv, TypeOK, Enquiry
  <2> QED
    BY <1>4, <2>1, RequestsCalm, StillCalm DEF Calm, SendQuoted
<1>5. ASSUME NEW r \in Requests, AcceptConfirm(r) PROVE Calm
  <2>1. BookingCalm
    BY <1>5 DEF AcceptConfirm, BookingCalm, TypeInv, TypeOK, Booking
  <2> QED
    BY <1>5, <2>1, RequestsCalm, StillCalm DEF Calm, AcceptConfirm
<1>6. ASSUME NEW r \in Requests, Crash(r) PROVE Calm
  BY <1>6, RequestsCalm, StillCalm DEF Calm, Crash
<1>7. CASE \/ \E q \in Quotes, e \in Enquiries \cup {None}, o \in Offers : CreateQuotation(q, e, o)
           \/ \E q \in Quotes : SoftDeleteQuotation(q) \/ RestoreQuotation(q) \/ Lapse(q)
           \/ ExpireStaleQuotations
  <2>1. UNCHANGED <<enquiry, booking, request>>
    BY <1>7 DEF CreateQuotation, SoftDeleteQuotation, RestoreQuotation, Lapse,
      ExpireStaleQuotations
  <2> QED
    BY <1>7, <2>1, QuotesCalm, StillCalm DEF Calm
<1>8. ASSUME NEW b \in Bookings, SoftDeleteBooking(b) \/ RestoreBooking(b) PROVE Calm
  <2>1. BookingCalm
    BY <1>8 DEF SoftDeleteBooking, RestoreBooking, BookingCalm, TypeInv, TypeOK, Booking
  <2> QED
    BY <1>8, <2>1, StillCalm DEF Calm, SoftDeleteBooking, RestoreBooking
<1>9. CASE UNCHANGED vars
  BY <1>9, StillCalm DEF Calm, vars
<1> QED
  BY <1>1, <1>2, <1>3, <1>4, <1>5, <1>6, <1>7, <1>8, <1>9
  DEF Next, Desk, Start, Proceed, Acquire, Delicate

LEMMA LinkInit == Init => LinkInv
BY DEF Init, LinkInv, Unborn, ClaimsFrozen, SoldAsFrozen, Linked, ConvertedIsLinked,
       ClosedByItsBooking, Idle

LEMMA CalmLinks == TypeInv /\ TypeInv' /\ LinkInv /\ Calm => LinkInv'
<1> SUFFICES ASSUME TypeInv, TypeInv', LinkInv, Calm PROVE LinkInv'
  OBVIOUS
<1> USE DEF Calm, LinkInv
<1>1. Unborn'
  BY DEF Unborn, BookingCalm
<1>2. ClaimsFrozen'
  <2>1. ASSUME NEW r \in Requests, request'[r].at = "accept.claim"
        PROVE  request'[r] = request[r] /\ request[r].q \in Quotes
    BY <2>1, KitTyped DEF RequestCalm, Laden
  <2> QED
    BY <2>1 DEF ClaimsFrozen, QuoteCalm
<1>3. SoldAsFrozen'
  BY DEF SoldAsFrozen, BookingCalm, QuoteCalm
<1>4. Linked'
  BY DEF Linked, BookingCalm, QuoteCalm, TypeInv, TypeOK, Quotation
<1>5. ConvertedIsLinked'
  <2>1. ASSUME NEW r \in Requests, request'[r].at = "mirror.write"
        PROVE  request'[r] = request[r] /\ request[r].q \in Quotes
    BY <2>1, KitTyped DEF RequestCalm, Laden
  <2> QED
    BY <2>1 DEF ConvertedIsLinked, QuoteCalm
<1>6. ClosedByItsBooking'
  <2>1. ASSUME NEW r \in Requests, request'[r].at = "direct.close"
        PROVE  request'[r] = request[r] /\ request[r].b \in Bookings
    BY <2>1, KitTyped DEF RequestCalm, Laden
  <2>2. \A e \in Enquiries : enquiry[e].bookedAs \in Bookings \cup {None}
    BY DEF TypeInv, TypeOK, Enquiry
  <2> QED
    BY <2>1, <2>2 DEF ClosedByItsBooking, BookingCalm, EnquiryCalm
<1> QED
  BY <1>1, <1>2, <1>3, <1>4, <1>5, <1>6

LEMMA FreezeLinks ==
  ASSUME TypeInv, TypeInv', LinkInv, NEW r \in Requests, SendFreeze(r)
  PROVE  LinkInv'
<1> USE DEF LinkInv
<1>1. RequestCalm /\ UNCHANGED <<enquiry, booking>>
  BY RequestsCalm DEF SendFreeze
<1>2. ASSUME NEW q \in Quotes
      PROVE  /\ quote[q].frozen # None => quote'[q].frozen = quote[q].frozen
             /\ quote'[q].bookedAs = quote[q].bookedAs
             /\ quote'[q].status = quote[q].status
  BY DEF SendFreeze, Frozen, TypeInv, TypeOK, Quotation
<1>3. ASSUME NEW x \in Requests, request'[x].at \in Laden
      PROVE  request'[x] = request[x] /\ request[x].at \in Laden
  BY <1>1, <1>3 DEF RequestCalm
<1>4. ClaimsFrozen'
  <2>1. ASSUME NEW x \in Requests, request'[x].at = "accept.claim"
        PROVE  request'[x] = request[x] /\ request[x].q \in Quotes
    BY <1>3, <2>1, KitTyped DEF Laden
  <2> QED
    BY <1>2, <2>1 DEF ClaimsFrozen
<1>5. SoldAsFrozen'
  BY <1>1, <1>2 DEF SoldAsFrozen
<1>6. Unborn' /\ Linked'
  BY <1>1, <1>2 DEF Unborn, Linked
<1>7. ConvertedIsLinked'
  <2>1. ASSUME NEW x \in Requests, request'[x].at = "mirror.write"
        PROVE  request'[x] = request[x] /\ request[x].q \in Quotes
    BY <1>3, <2>1, KitTyped DEF Laden
  <2> QED
    BY <1>2, <2>1 DEF ConvertedIsLinked
<1>8. ClosedByItsBooking'
  BY <1>1, <1>3 DEF ClosedByItsBooking, Laden
<1> QED
  BY <1>4, <1>5, <1>6, <1>7, <1>8

\* A step that writes only what one handler carries.
LEMMA CarriedLinks ==
  ASSUME TypeInv, TypeInv', LinkInv, NEW r \in Requests, NEW h \in Handler, Goto(r, h),
         UNCHANGED <<quote, enquiry, booking>>,
         h.at = "accept.claim" => h.offer = quote[h.q].frozen /\ h.offer # None,
         h.at = "mirror.write" /\ h.status = "CONVERTED" => quote[h.q].bookedAs # None,
         h.at = "direct.close" => booking[h.b].enq = h.enq
  PROVE  LinkInv'
<1>1. \A x \in Requests : request'[x] = IF x = r THEN h ELSE request[x]
  BY DEF Goto, TypeInv, TypeOK
<1> QED
  BY <1>1 DEF LinkInv, Unborn, ClaimsFrozen, SoldAsFrozen, Linked, ConvertedIsLinked,
    ClosedByItsBooking

LEMMA LockLinks ==
  ASSUME TypeInv, TypeInv', LinkInv, NEW r \in Requests, AcceptLock(r)
  PROVE  LinkInv'
<1> DEFINE q == request[r].q
           h == [request[r] EXCEPT !.at = "accept.claim", !.offer = quote[q].frozen]
<1>1. q \in Quotes /\ quote[q].frozen \in LiveOffers \cup {None} /\ request[r] \in Handler
  BY KitTyped, QuotationEdit DEF AcceptLock, At
<1>2. h \in Handler /\ h.at = "accept.claim" /\ h.offer = quote[h.q].frozen /\ h.q = q
  <2>1. h \in Handler
    BY <1>1, HandlerEdit, StepNames
  <2> QED
    BY <1>1, <2>1 DEF Handler
<1>3. UNCHANGED <<quote, enquiry, booking>>
  BY DEF AcceptLock
<1>4. CASE quote[q].frozen # None /\ Goto(r, h)
  <2> HIDE DEF h
  <2> QED
    BY <1>2, <1>3, <1>4, CarriedLinks
<1>5. CASE Finish(r)
  <2>1. Idle.at = "idle"
    BY DEF Idle
  <2> QED
    BY <1>3, <1>5, <2>1, IdleTyped, CarriedLinks DEF Finish
<1> QED
  BY <1>4, <1>5 DEF AcceptLock

LEMMA MirrorReadLinks ==
  ASSUME TypeInv, TypeInv', LinkInv, NEW r \in Requests, NEW q \in Quotes,
         NEW e \in Enquiries \cup {None}, NEW o \in Offers, NEW s \in MirrorStatus,
         MirrorRead(r, q, e, o, s)
  PROVE  LinkInv'
<1> DEFINE h == [Idle EXCEPT !.at = "mirror.write", !.q = q, !.offer = o,
                             !.enq = IF e # None THEN e ELSE quote[q].enq,
                             !.status = MirroredStatus(quote[q].status, s)]
<1>1. request' = [request EXCEPT ![r] = h] /\ UNCHANGED <<quote, enquiry, booking>>
  BY DEF MirrorRead, Goto
<1>2. h \in Handler
  <2>1. request'[r] \in Handler
    BY DEF TypeInv, TypeOK
  <2> QED
    BY <1>1, <2>1 DEF TypeInv, TypeOK
<1>3. h.at = "mirror.write" /\ h.q = q /\ h.status = MirroredStatus(quote[q].status, s)
  BY DEF Idle
<1>4. h.status = "CONVERTED" => quote[h.q].bookedAs # None
  BY <1>3 DEF MirroredStatus, MirrorStatus, LinkInv, ConvertedIsLinked
<1> HIDE DEF h
<1> QED
  BY <1>1, <1>2, <1>3, <1>4, CarriedLinks DEF Goto

LEMMA MirrorWriteLinks ==
  ASSUME TypeInv, TypeInv', LinkInv, NEW r \in Requests, MirrorWrite(r)
  PROVE  LinkInv'
<1> USE DEF LinkInv
<1>1. RequestCalm /\ UNCHANGED <<enquiry, booking>>
  BY RequestsCalm DEF MirrorWrite
<1>2. ASSUME NEW q \in Quotes
      PROVE  /\ quote'[q].frozen = quote[q].frozen
             /\ quote'[q].bookedAs = quote[q].bookedAs
             /\ quote'[q].status = "CONVERTED" => quote[q].bookedAs # None
  <2>1. CASE q # request[r].q
    BY <2>1 DEF MirrorWrite, TypeInv, TypeOK, ConvertedIsLinked
  <2>2. CASE q = request[r].q
    <3>1. /\ quote'[q].frozen = quote[q].frozen /\ quote'[q].bookedAs = quote[q].bookedAs
          /\ quote'[q].status = request[r].status
      BY <2>2 DEF MirrorWrite, TypeInv, TypeOK, Quotation
    <3> QED
      BY <2>2, <3>1 DEF MirrorWrite, At, ConvertedIsLinked
  <2> QED
    BY <2>1, <2>2
<1>3. ASSUME NEW x \in Requests, request'[x].at \in Laden
      PROVE  request'[x] = request[x] /\ request[x].at \in Laden
  BY <1>1, <1>3 DEF RequestCalm
<1>4. ClaimsFrozen'
  <2>1. ASSUME NEW x \in Requests, request'[x].at = "accept.claim"
        PROVE  request'[x] = request[x] /\ request[x].q \in Quotes
    BY <1>3, <2>1, KitTyped DEF Laden
  <2> QED
    BY <1>2, <2>1 DEF ClaimsFrozen
<1>5. SoldAsFrozen' /\ Unborn' /\ Linked'
  BY <1>1, <1>2 DEF SoldAsFrozen, Unborn, Linked
<1>6. ConvertedIsLinked'
  <2>1. ASSUME NEW x \in Requests, request'[x].at = "mirror.write"
        PROVE  request'[x] = request[x] /\ request[x].q \in Quotes
    BY <1>3, <2>1, KitTyped DEF Laden
  <2> QED
    BY <1>2, <2>1 DEF ConvertedIsLinked
<1>7. ClosedByItsBooking'
  BY <1>1, <1>3 DEF ClosedByItsBooking, Laden
<1> QED
  BY <1>4, <1>5, <1>6, <1>7

LEMMA DirectCloseLinks ==
  ASSUME TypeInv, TypeInv', LinkInv, NEW r \in Requests, DirectClose(r)
  PROVE  LinkInv'
<1> USE DEF LinkInv
<1>1. RequestCalm /\ UNCHANGED <<quote, booking>>
  BY RequestsCalm DEF DirectClose
<1>2. Unborn' /\ ClaimsFrozen' /\ SoldAsFrozen' /\ Linked' /\ ConvertedIsLinked'
  BY <1>1 DEF RequestCalm, Laden, Unborn, ClaimsFrozen, SoldAsFrozen, Linked, ConvertedIsLinked
<1>3. ClosedByItsBooking'
  <2>1. \A e \in Enquiries :
          enquiry'[e].bookedAs = IF e = request[r].enq THEN request[r].b ELSE enquiry[e].bookedAs
    BY DEF DirectClose, TypeInv, TypeOK
  <2> QED
    BY <1>1, <2>1 DEF RequestCalm, Laden, ClosedByItsBooking, DirectClose, At
<1> QED
  BY <1>2, <1>3

LEMMA DirectLinks ==
  ASSUME TypeInv, TypeInv', LinkInv, NEW r \in Requests, NEW b \in Bookings,
         NEW q \in Quotes \cup {None}, NEW e \in Enquiries \cup {None}, DirectBooking(r, b, q, e)
  PROVE  LinkInv'
<1> DEFINE h == IF e = None THEN Idle ELSE [Idle EXCEPT !.at = "direct.close", !.enq = e, !.b = b]
<1>1. Goto(r, h) /\ UNCHANGED <<quote, enquiry>>
  BY DEF DirectBooking, Finish
<1>2. h.at \in {"idle", "direct.close"} /\ (h.at = "direct.close" => h.enq = e /\ h.b = b)
  BY DEF Idle
<1>3. booking[b].row = "none" /\ booking[b].via = "none" /\ booking[b].q = None
      /\ booking[b].enq = None
  BY DEF DirectBooking, LinkInv, Unborn
<1>4. booking'[b].row = "live" /\ booking'[b].via = "direct" /\ booking'[b].enq = e
  BY DEF DirectBooking, TypeInv, TypeOK
<1>5. \A c \in Bookings \ {b} : booking'[c] = booking[c]
  BY DEF DirectBooking, TypeInv, TypeOK
<1> HIDE DEF h
<1>6. \A x \in Requests : request'[x] = IF x = r THEN h ELSE request[x]
  BY <1>1 DEF Goto, TypeInv, TypeOK
<1>7. Unborn'
  BY <1>4, <1>5 DEF LinkInv, Unborn
<1>8. ClaimsFrozen' /\ SoldAsFrozen' /\ ConvertedIsLinked'
  BY <1>1, <1>2, <1>4, <1>5, <1>6 DEF LinkInv, ClaimsFrozen, SoldAsFrozen, ConvertedIsLinked
<1>9. Linked'
  BY <1>1, <1>3, <1>5 DEF LinkInv, Linked, TypeInv, TypeOK, Quotation
<1>10. ClosedByItsBooking'
  <2>1. \A x \in Requests : request[x].at = "direct.close" =>
          request[x].b # b /\ request[x].b \in Bookings
    BY <1>3, KitTyped DEF LinkInv, ClosedByItsBooking
  <2>2. \A x \in Enquiries : enquiry[x].bookedAs # b /\ enquiry[x].bookedAs \in Bookings \cup {None}
    BY <1>3 DEF LinkInv, ClosedByItsBooking, TypeInv, TypeOK, Enquiry
  <2> QED
    BY <1>1, <1>2, <1>4, <1>5, <1>6, <2>1, <2>2 DEF LinkInv, ClosedByItsBooking
<1> QED
  BY <1>7, <1>8, <1>9, <1>10 DEF LinkInv

LEMMA ClaimLinks ==
  ASSUME TypeInv, TypeInv', LinkInv, NEW r \in Requests, AcceptClaim(r)
  PROVE  LinkInv'
<1> DEFINE q == request[r].q
           e == request[r].enq
           o == request[r].offer
<1>0. RequestCalm
  BY RequestsCalm
<1>1. CASE UNCHANGED <<quote, enquiry, booking>>
  BY <1>0, <1>1, StillCalm, CalmLinks DEF Calm
<1>2. ASSUME NEW b \in Bookings,
             booking[b].row = "none",
             booking' = [booking EXCEPT ![b] = BookingRow(q, e, o)],
             quote' = [quote EXCEPT ![q] = [@ EXCEPT !.status = "CONVERTED", !.bookedAs = b]],
             enquiry' = [x \in Enquiries |->
                           IF x = e THEN [status |-> "CONVERTED", bookedAs |-> b]
                                    ELSE enquiry[x]]
      PROVE  LinkInv'
  <2>1. q \in Quotes /\ o \in LiveOffers /\ request[r].at = "accept.claim"
    BY KitTyped DEF AcceptClaim, At
  <2>2. o = quote[q].frozen /\ o # None
    BY <2>1 DEF LinkInv, ClaimsFrozen
  <2>3. booking[b].via = "none" /\ booking[b].q = None /\ booking[b].enq = None
    BY <1>2 DEF LinkInv, Unborn
  <2>4. /\ booking'[b].row = "live" /\ booking'[b].via = "accept" /\ booking'[b].q = q
        /\ booking'[b].enq = e /\ booking'[b].price = o
    BY <1>2 DEF BookingRow, TypeInv, TypeOK
  <2>5. \A c \in Bookings \ {b} : booking'[c] = booking[c]
    BY <1>2 DEF TypeInv, TypeOK
  <2>6. \A x \in Quotes :
          /\ quote'[x].frozen = quote[x].frozen
          /\ quote'[x].bookedAs = IF x = q THEN b ELSE quote[x].bookedAs
          /\ x # q => quote'[x].status = quote[x].status
    BY <1>2 DEF TypeInv, TypeOK, Quotation
  <2>7. ASSUME NEW x \in Requests, request'[x].at \in Laden
        PROVE  request'[x] = request[x] /\ request[x].at \in Laden
    BY <1>0, <2>7 DEF RequestCalm
  <2>8. Unborn'
    BY <2>4, <2>5 DEF LinkInv, Unborn
  <2>9. ClaimsFrozen'
    <3>1. ASSUME NEW x \in Requests, request'[x].at = "accept.claim"
          PROVE  request'[x] = request[x] /\ request[x].q \in Quotes
      BY <2>7, <3>1, KitTyped DEF Laden
    <3> QED
      BY <2>6, <3>1 DEF LinkInv, ClaimsFrozen
  <2>10. SoldAsFrozen'
    BY <2>1, <2>2, <2>4, <2>5, <2>6 DEF LinkInv, SoldAsFrozen
  <2>11. Linked'
    BY <2>3, <2>4, <2>5, <2>6 DEF LinkInv, Linked, TypeInv, TypeOK, Quotation
  <2>12. ConvertedIsLinked'
    <3>1. ASSUME NEW x \in Requests, request'[x].at = "mirror.write"
          PROVE  request'[x] = request[x] /\ request[x].q \in Quotes
      BY <2>7, <3>1, KitTyped DEF Laden
    <3> QED
      BY <2>6, <3>1, b # None DEF LinkInv, ConvertedIsLinked
  <2>13. ClosedByItsBooking'
    <3>1. \A x \in Requests : request[x].at = "direct.close" =>
            request[x].b # b /\ request[x].b \in Bookings
      BY <2>3, KitTyped DEF LinkInv, ClosedByItsBooking
    <3>2. ASSUME NEW x \in Enquiries, enquiry'[x].bookedAs # None
          PROVE  booking'[enquiry'[x].bookedAs].enq = x
      <4>1. CASE x = e
        BY <1>2, <2>4, <4>1
      <4>2. CASE x # e
        <5>1. enquiry'[x] = enquiry[x]
          BY <1>2, <4>2
        <5>2. enquiry[x].bookedAs # b /\ enquiry[x].bookedAs \in Bookings
          BY <2>3, <3>2, <5>1 DEF LinkInv, ClosedByItsBooking, TypeInv, TypeOK, Enquiry
        <5> QED
          BY <2>5, <3>2, <5>1, <5>2 DEF LinkInv, ClosedByItsBooking
      <4> QED
        BY <4>1, <4>2
    <3> QED
      BY <2>5, <2>7, <3>1, <3>2 DEF LinkInv, ClosedByItsBooking, Laden
  <2> QED
    BY <2>8, <2>9, <2>10, <2>11, <2>12, <2>13 DEF LinkInv
<1> QED
  BY <1>1, <1>2 DEF AcceptClaim

LEMMA LinkStep == TypeInv /\ TypeInv' /\ LinkInv /\ [Next]_vars => LinkInv'
BY CalmSteps, CalmLinks, FreezeLinks, LockLinks, ClaimLinks, MirrorReadLinks, MirrorWriteLinks,
   DirectLinks, DirectCloseLinks DEF Delicate

LEMMA Linking == Spec => [](TypeInv /\ LinkInv)
BY InitTyped, StepTyped, LinkInit, LinkStep, PTL DEF Spec

\* A quotation that reads CONVERTED leads to the booking that accepting it
\* made, and an enquiry that was converted to a booking of its own, whatever
\* syncs, direct bookings and crashes come between the two (acceptQuotation
\* commits the three together; upsertQuotationMirror keeps CONVERTED).
THEOREM ConvertedLeadsToItsBooking == Spec => []ConvertedHasItsBooking
<1>1. TypeInv /\ LinkInv => ConvertedHasItsBooking
  BY DEF LinkInv, Linked, ConvertedIsLinked, ClosedByItsBooking, ConvertedHasItsBooking,
    TypeInv, TypeOK, Quotation
<1> QED
  BY <1>1, Linking, PTL

\* What a traveller is charged for is what the first send froze: no edit, sync
\* or second send reaches the price of a booking made by acceptance
\* (frozenOfferFor, the write-once quotation_versions).
THEOREM PricedAsFrozen == Spec => []BookedAsFrozen
<1>1. LinkInv => BookedAsFrozen
  BY DEF LinkInv, SoldAsFrozen, BookedAsFrozen
<1> QED
  BY <1>1, Linking, PTL

-----------------------------------------------------------------------------
(* One live booking for each quotation: the index refuses the second row   *)
(* whichever of the three writers brings it.                               *)

LEMMA OneLiveStep ==
  TypeInv /\ OneLiveBookingPerQuotation /\ [Next]_vars => OneLiveBookingPerQuotation'
<1> SUFFICES ASSUME TypeInv, OneLiveBookingPerQuotation, [Next]_vars
             PROVE  OneLiveBookingPerQuotation'
  OBVIOUS
<1> DEFINE NoneShown == \A b \in Bookings :
             booking'[b].row = "live" => booking[b].row = "live" /\ booking'[b].q = booking[b].q
           Shown(b) == /\ booking'[b].q # None => QuotationKeyFree(booking'[b].q)
                       /\ \A c \in Bookings \ {b} : booking'[c] = booking[c]
<1>1. NoneShown => OneLiveBookingPerQuotation'
  BY DEF OneLiveBookingPerQuotation
<1>2. ASSUME NEW b \in Bookings, Shown(b) PROVE OneLiveBookingPerQuotation'
  BY <1>2 DEF OneLiveBookingPerQuotation, QuotationKeyFree
<1>3. UNCHANGED booking => NoneShown
  OBVIOUS
<1>4. ASSUME NEW r \in Requests, AcceptConfirm(r) PROVE NoneShown
  BY <1>4 DEF AcceptConfirm, TypeInv, TypeOK, Booking
<1>5. ASSUME NEW b \in Bookings, SoftDeleteBooking(b) PROVE NoneShown
  BY <1>5 DEF SoftDeleteBooking, TypeInv, TypeOK, Booking
<1>6. ASSUME NEW b \in Bookings, RestoreBooking(b) PROVE Shown(b)
  BY <1>6 DEF RestoreBooking, TypeInv, TypeOK, Booking
<1>7. ASSUME NEW r \in Requests, NEW b \in Bookings, NEW q \in Quotes \cup {None},
             NEW e \in Enquiries \cup {None}, DirectBooking(r, b, q, e)
      PROVE  Shown(b)
  BY <1>7 DEF DirectBooking, TypeInv, TypeOK
<1>8. ASSUME NEW r \in Requests, AcceptClaim(r), ~ UNCHANGED booking
      PROVE  \E b \in Bookings : Shown(b)
  <2> DEFINE q == request[r].q
  <2>1. PICK b \in Bookings :
          /\ QuotationKeyFree(q)
          /\ booking' = [booking EXCEPT ![b] = BookingRow(q, request[r].enq, request[r].offer)]
    BY <1>8 DEF AcceptClaim
  <2>2. booking'[b].q = q
    BY <2>1 DEF BookingRow, TypeInv, TypeOK
  <2> QED
    BY <2>1, <2>2 DEF TypeInv, TypeOK
<1>9. \/ UNCHANGED booking
      \/ \E r \in Requests : AcceptConfirm(r) \/ AcceptClaim(r)
      \/ \E b \in Bookings : SoftDeleteBooking(b) \/ RestoreBooking(b)
      \/ \E r \in Requests, b \in Bookings, q \in Quotes \cup {None},
            e \in Enquiries \cup {None} : DirectBooking(r, b, q, e)
  <2>1. ASSUME NEW r \in Requests, Start(r) PROVE UNCHANGED booking \/
          \E b \in Bookings, q \in Quotes \cup {None}, e \in Enquiries \cup {None} :
            DirectBooking(r, b, q, e)
    BY <2>1 DEF Start, SendRead, DeclineRead, AcceptRead, MirrorInsert, MirrorRead
  <2>2. ASSUME NEW r \in Requests, Proceed(r) PROVE UNCHANGED booking \/
          AcceptConfirm(r) \/ AcceptClaim(r)
    BY <2>2 DEF Proceed, SendItems, SendFreeze, SendQuoted, DeclineWrite, AcceptExpire,
      MirrorWrite, MirrorClear, MirrorLines, DirectClose
  <2>3. ASSUME NEW r \in Requests, Acquire(r) \/ Crash(r) PROVE UNCHANGED booking
    BY <2>3 DEF Acquire, SendCommit, AcceptLock, Crash
  <2>4. CASE Desk
    BY <2>4 DEF Desk, CreateQuotation, SoftDeleteQuotation, RestoreQuotation, Lapse,
      ExpireStaleQuotations
  <2> QED
    BY <2>1, <2>2, <2>3, <2>4 DEF Next, vars
<1> HIDE DEF NoneShown, Shown
<1> QED
  BY <1>1, <1>2, <1>3, <1>4, <1>5, <1>6, <1>7, <1>8, <1>9

\* However a quotation is put back on offer, booked directly or has a deleted
\* booking restored, at most one visible booking comes from it (the index
\* bookings_one_per_quotation, met by createBooking and by a restore).
THEOREM OneLiveBooking == Spec => []OneLiveBookingPerQuotation
<1>1. Init => OneLiveBookingPerQuotation
  BY DEF Init, OneLiveBookingPerQuotation
<1> QED
  BY <1>1, InitTyped, StepTyped, OneLiveStep, PTL DEF Spec

-----------------------------------------------------------------------------
(* The sale ledger.                                                        *)

Offered == [q \in Quotes |-> quote[q].frozen]

Sales ==
  [b \in Bookings |->
     IF booking[b].via = "accept"
     THEN [q |-> booking[b].q, enq |-> booking[b].enq, price |-> booking[b].price]
     ELSE None]

LEMMA LedgerInit == Init => Ledger!Init
BY DEF Init, Ledger!Init

LEMMA CalmLedger == Calm => UNCHANGED <<Offered, Sales>>
<1> SUFFICES ASSUME Calm PROVE UNCHANGED <<Offered, Sales>>
  OBVIOUS
<1>1. \A q \in Quotes : quote'[q].frozen = quote[q].frozen
  BY DEF Calm, QuoteCalm
<1>2. \A b \in Bookings :
        /\ booking'[b].via = booking[b].via /\ booking'[b].q = booking[b].q
        /\ booking'[b].enq = booking[b].enq /\ booking'[b].price = booking[b].price
  BY DEF Calm, BookingCalm
<1> QED
  BY <1>1, <1>2 DEF Offered, Sales

LEMMA FreezeLedger ==
  ASSUME TypeInv, NEW r \in Requests, SendFreeze(r)
  PROVE  (\E q \in Quotes : Ledger!MakeOffer(q)) \/ UNCHANGED <<Offered, Sales>>
<1> DEFINE o == request[r].offer
<1>1. PICK q \in Quotes : q = request[r].q
  BY KitTyped DEF SendFreeze, At
<1>0. o \in LiveOffers
  BY KitTyped DEF SendFreeze, At
<1>2. UNCHANGED Sales
  BY DEF SendFreeze, Sales
<1>3. \A x \in Quotes : quote'[x].frozen = IF x = q THEN Frozen(q, o) ELSE quote[x].frozen
  BY <1>1 DEF SendFreeze, TypeInv, TypeOK, Quotation
<1>4. Offered' = [Offered EXCEPT ![q] = Frozen(q, o)]
  BY <1>1, <1>3 DEF Offered
<1>5. Offered[q] = quote[q].frozen /\ Offered'[q] = Frozen(q, o)
  BY <1>1, <1>3 DEF Offered
<1>6. CASE quote[q].frozen = None
  <2>1. Ledger!MakeOffer(q)
    BY <1>0, <1>2, <1>4, <1>5, <1>6 DEF Ledger!MakeOffer, Frozen, Offered, Sales
  <2> QED
    BY <2>1
<1>7. CASE quote[q].frozen # None
  BY <1>2, <1>3, <1>7 DEF Frozen, Offered
<1> QED
  BY <1>6, <1>7

LEMMA ClaimLedger ==
  ASSUME TypeInv, LinkInv, SaleInv, NEW r \in Requests, AcceptClaim(r)
  PROVE  \/ \E b \in Bookings, q \in Quotes, e \in Enquiries \cup {None} : Ledger!Sell(b, q, e)
         \/ UNCHANGED <<Offered, Sales>>
<1> DEFINE o == request[r].offer
<1>0. PICK q \in Quotes, e \in Enquiries \cup {None} : q = request[r].q /\ e = request[r].enq
  BY KitTyped, HandlerEdit DEF AcceptClaim, At
<1>1. CASE UNCHANGED <<quote, enquiry, booking>>
  BY <1>1 DEF Offered, Sales
<1>2. ASSUME NEW b \in Bookings,
             booking[b].row = "none",
             booking' = [booking EXCEPT ![b] = BookingRow(q, e, o)],
             quote' = [quote EXCEPT ![q] = [@ EXCEPT !.status = "CONVERTED", !.bookedAs = b]]
      PROVE  Ledger!Sell(b, q, e)
  <2>1. Claiming(r)
    BY DEF AcceptClaim, At, Claiming
  <2>2. o = quote[q].frozen /\ o # None
    BY <1>0, <2>1 DEF LinkInv, ClaimsFrozen, Claiming
  <2>3. booking[b].via = "none"
    BY <1>2 DEF LinkInv, Unborn
  <2>4. \A x \in Quotes : quote'[x].frozen = quote[x].frozen
    BY <1>2 DEF TypeInv, TypeOK, Quotation
  <2>5. UNCHANGED Offered
    BY <2>4 DEF Offered
  <2>6. Sales[b] = None /\ Offered[q] = o
    BY <2>2, <2>3 DEF Sales, Offered
  <2>7. Sales' = [Sales EXCEPT ![b] = [q |-> q, enq |-> e, price |-> o]]
    <3>1. /\ booking'[b].via = "accept" /\ booking'[b].q = q
          /\ booking'[b].enq = e /\ booking'[b].price = o
      BY <1>2 DEF BookingRow, TypeInv, TypeOK
    <3>2. \A c \in Bookings \ {b} : booking'[c] = booking[c]
      BY <1>2 DEF TypeInv, TypeOK
    <3> QED
      BY <3>1, <3>2 DEF Sales
  <2>8. e # None => ~Ledger!Sold(e)
    <3>1. e # None => ~Sold(e)
      BY <1>0, <2>1 DEF SaleInv, StillUnsold
    <3>2. ASSUME NEW c \in Bookings, Sales[c] # None, Sales[c].enq = e
          PROVE  Sold(e)
      BY <3>2 DEF Sales, Sold
    <3> QED
      BY <3>1, <3>2 DEF Ledger!Sold, Sales
  <2> QED
    BY <2>2, <2>5, <2>6, <2>7, <2>8 DEF Ledger!Sell, Sales, Offered
<1> QED
  BY <1>0, <1>1, <1>2 DEF AcceptClaim

LEMMA LedgerStep ==
  TypeInv /\ LinkInv /\ SaleInv /\ [Next]_vars => [Ledger!Next]_<<Offered, Sales>>
<1> SUFFICES ASSUME TypeInv, LinkInv, SaleInv, [Next]_vars
             PROVE  Ledger!Next \/ UNCHANGED <<Offered, Sales>>
  OBVIOUS
<1>1. CASE UNCHANGED <<quote, booking>>
  BY <1>1 DEF Offered, Sales
<1>2. ASSUME NEW r \in Requests, MirrorWrite(r) PROVE UNCHANGED <<Offered, Sales>>
  <2>1. \A q \in Quotes : quote'[q].frozen = quote[q].frozen
    BY <1>2 DEF MirrorWrite, TypeInv, TypeOK, Quotation
  <2> QED
    BY <1>2, <2>1 DEF MirrorWrite, Offered, Sales
<1>3. ASSUME NEW r \in Requests, NEW b \in Bookings, NEW q \in Quotes \cup {None},
             NEW e \in Enquiries \cup {None}, DirectBooking(r, b, q, e)
      PROVE  UNCHANGED <<Offered, Sales>>
  <2>1. booking[b].via # "accept" /\ booking'[b].via # "accept"
    BY <1>3 DEF DirectBooking, LinkInv, Unborn, TypeInv, TypeOK
  <2>2. \A c \in Bookings \ {b} : booking'[c] = booking[c]
    BY <1>3 DEF DirectBooking, TypeInv, TypeOK
  <2> QED
    BY <1>3, <2>1, <2>2 DEF DirectBooking, Offered, Sales
<1>4. ASSUME NEW r \in Requests, AcceptLock(r) \/ DirectClose(r) PROVE UNCHANGED <<quote, booking>>
  BY <1>4 DEF AcceptLock, DirectClose
<1>5. ASSUME NEW r \in Requests, NEW q \in Quotes, NEW e \in Enquiries \cup {None},
             NEW o \in Offers, NEW s \in MirrorStatus, MirrorRead(r, q, e, o, s)
      PROVE  UNCHANGED <<quote, booking>>
  BY <1>5 DEF MirrorRead
<1> QED
  BY <1>1, <1>2, <1>3, <1>4, <1>5, CalmSteps, CalmLedger, FreezeLedger, ClaimLedger
  DEF Delicate, Ledger!Next

\* The handlers, with their locks, stale reads, retries and crashes, implement
\* the sale ledger: an offer is made once and never rewritten, a sale is made
\* at the offer that was made, and an enquiry is sold at most once
\* (acceptQuotation, sendQuotation and frozenOfferFor together).
THEOREM LedgerImplemented == Spec => ImplementsLedger
<1>1. Spec => [](TypeInv /\ LinkInv /\ SaleInv)
  BY InitTyped, StepTyped, LinkInit, LinkStep, SaleInit, SaleStep, PTL DEF Spec
<1>2. Init => Ledger!Init
  BY LedgerInit
<1>3. TypeInv /\ LinkInv /\ SaleInv /\ [Next]_vars => [Ledger!Next]_<<Offered, Sales>>
  BY LedgerStep
<1> QED
  BY <1>1, <1>2, <1>3, PTL DEF Spec, ImplementsLedger, Ledger!Spec, Offered, Sales

-----------------------------------------------------------------------------
(* One open offer for each enquiry, for a tenant whose quotations are made *)
(* here and not deleted.  A send withdraws the other offers of the enquiry *)
(* it read, and without a sync the quotation still belongs to it.          *)

Sending == {"send.items", "send.freeze", "send.commit"}

SentForItsEnquiry ==
  \A r \in Requests : request[r].at \in Sending => request[r].enq = quote[request[r].q].enq

NothingDeleted == \A q \in Quotes : ~quote[q].deleted

NothingMirrored == \A r \in Requests : request[r].at # "mirror.write"

OfferInv == OneOpenOfferPerEnquiry /\ SentForItsEnquiry /\ NothingDeleted /\ NothingMirrored

\* A step that opens no offer and moves none to another enquiry.
OpensNothing ==
  \A q \in Quotes :
    /\ quote'[q].enq = quote[q].enq \/ quote[q].status = "ABSENT"
    /\ quote'[q].deleted = quote[q].deleted
    /\ OpenForAcceptance(quote'[q].status) => OpenForAcceptance(quote[q].status)

\* A step that begins no send and no sync.
BeginsNothing ==
  \A r \in Requests :
    /\ request'[r].at \in Sending =>
         /\ request[r].at \in Sending
         /\ request'[r].enq = request[r].enq
         /\ request'[r].q = request[r].q
    /\ request'[r].at = "mirror.write" => request[r].at = "mirror.write"

LEMMA GotoBegins ==
  ASSUME TypeInv, NEW r \in Requests, NEW h, Goto(r, h),
         \/ h.at \notin Sending \cup {"mirror.write"}
         \/ request[r].at \in Sending /\ h.at \in Sending
              /\ h.enq = request[r].enq /\ h.q = request[r].q
  PROVE  BeginsNothing
BY DEF TypeInv, TypeOK, Goto, BeginsNothing, Sending

LEMMA CommitBegins ==
  ASSUME TypeInv, NEW r \in Requests, SendCommit(r)
  PROVE  BeginsNothing
<1>1. Idle.at = "idle"
  BY DEF Idle
<1>2. [request[r] EXCEPT !.at = "send.quoted"].at = "send.quoted"
  BY DEF TypeInv, TypeOK, Handler
<1> QED
  BY <1>1, <1>2, GotoBegins DEF SendCommit, Finish, Sending

LEMMA RequestsBegin ==
  ASSUME TypeInv, [Next]_vars,
         ~ \E r \in Requests, q \in Quotes : SendRead(r, q),
         "mirror" \notin Mix
  PROVE  BeginsNothing
<1> USE DEF Sending
<1>0. \A r \in Requests : Finish(r) => BeginsNothing
  <2>1. Idle.at = "idle"
    BY DEF Idle
  <2> QED
    BY <2>1, GotoBegins DEF Finish
<1>1. \A r \in Requests : request[r] \in Handler
  BY DEF TypeInv, TypeOK
<1>2. \A r \in Requests, s \in Steps : [request[r] EXCEPT !.at = s].at = s
  BY <1>1 DEF Handler
<1>3. ASSUME NEW r \in Requests, SendItems(r) PROVE BeginsNothing
  <2> DEFINE h == [request[r] EXCEPT !.at = "send.freeze",
                                     !.offer.lines = quote[request[r].q].live.lines]
  <2>1. h.at = "send.freeze" /\ h.enq = request[r].enq /\ h.q = request[r].q
    BY <1>1 DEF Handler
  <2>2. Goto(r, h) /\ request[r].at \in Sending
    BY <1>3 DEF SendItems, At
  <2> HIDE DEF h
  <2> QED
    BY <2>1, <2>2, GotoBegins
<1>4. ASSUME NEW r \in Requests, SendFreeze(r) PROVE BeginsNothing
  <2> DEFINE h == [request[r] EXCEPT !.at = "send.commit", !.offer = None]
  <2>1. h.at = "send.commit" /\ h.enq = request[r].enq /\ h.q = request[r].q
    BY <1>1 DEF Handler
  <2>2. Goto(r, h) /\ request[r].at \in Sending
    BY <1>4 DEF SendFreeze, At
  <2> HIDE DEF h
  <2> QED
    BY <2>1, <2>2, GotoBegins
<1>5. ASSUME NEW r \in Requests, SendCommit(r) PROVE BeginsNothing
  BY <1>5, CommitBegins
<1>6. ASSUME NEW r \in Requests, NEW q \in Quotes, DeclineRead(r, q) \/ AcceptRead(r, q)
      PROVE  BeginsNothing
  <2> DEFINE Read(h) == h \in { [Idle EXCEPT !.at = "decline.write", !.q = q],
                                [Idle EXCEPT !.at = "accept.expire", !.q = q],
                                [Idle EXCEPT !.at = "accept.lock", !.q = q, !.enq = quote[q].enq]}
  <2>1. \A h : Read(h) => h.at \notin Sending \cup {"mirror.write"}
    BY DEF Idle
  <2>2. \E h : Read(h) /\ Goto(r, h)
    BY <1>6 DEF DeclineRead, AcceptRead
  <2> HIDE DEF Read
  <2> QED
    BY <2>1, <2>2, GotoBegins
<1>7. ASSUME NEW r \in Requests, AcceptLock(r) PROVE BeginsNothing
  <2> DEFINE h == [request[r] EXCEPT !.at = "accept.claim", !.offer = quote[request[r].q].frozen]
  <2>1. h.at = "accept.claim"
    BY <1>1 DEF Handler
  <2>2. Goto(r, h) \/ Finish(r)
    BY <1>7 DEF AcceptLock
  <2> HIDE DEF h
  <2> QED
    BY <1>0, <2>1, <2>2, GotoBegins
<1>8. ASSUME NEW r \in Requests, AcceptClaim(r) PROVE BeginsNothing
  <2>1. \A b \in Bookings : [Idle EXCEPT !.at = "accept.confirm", !.b = b].at = "accept.confirm"
    BY DEF Idle
  <2> QED
    BY <1>0, <1>8, <2>1, GotoBegins DEF AcceptClaim
<1>9. ASSUME NEW r \in Requests, MirrorWrite(r) PROVE BeginsNothing
  <2> DEFINE h == [Idle EXCEPT !.at = "mirror.clear", !.q = request[r].q, !.offer = request[r].offer]
  <2>1. h.at = "mirror.clear"
    BY DEF Idle
  <2>2. Goto(r, h)
    BY <1>9 DEF MirrorWrite
  <2> HIDE DEF h
  <2> QED
    BY <2>1, <2>2, GotoBegins
<1>10. ASSUME NEW r \in Requests, MirrorClear(r) PROVE BeginsNothing
  BY <1>2, <1>10, GotoBegins, StepNames DEF MirrorClear
<1>11. ASSUME NEW r \in Requests, NEW b \in Bookings, NEW q \in Quotes \cup {None},
              NEW e \in Enquiries \cup {None}, DirectBooking(r, b, q, e)
       PROVE  BeginsNothing
  <2>1. [Idle EXCEPT !.at = "direct.close", !.enq = e, !.b = b].at = "direct.close"
    BY DEF Idle
  <2> QED
    BY <1>0, <1>11, <2>1, GotoBegins DEF DirectBooking
<1>12. ASSUME NEW r \in Requests,
              \/ SendQuoted(r) \/ DeclineWrite(r) \/ AcceptExpire(r) \/ AcceptConfirm(r)
              \/ MirrorLines(r) \/ DirectClose(r) \/ Crash(r)
       PROVE  BeginsNothing
  BY <1>0, <1>12 DEF SendQuoted, DeclineWrite, AcceptExpire, AcceptConfirm, MirrorLines,
    DirectClose, Crash
<1>13. CASE UNCHANGED request
  BY <1>13 DEF BeginsNothing
<1>14. Desk \/ UNCHANGED vars => UNCHANGED request
  BY DEF Desk, CreateQuotation, SoftDeleteQuotation, RestoreQuotation, Lapse, SoftDeleteBooking,
    RestoreBooking, ExpireStaleQuotations, vars
<1>15. ASSUME NEW r \in Requests, Start(r) PROVE BeginsNothing
  BY <1>6, <1>11, <1>15 DEF Start, MirrorInsert, MirrorRead
<1>16. ASSUME NEW r \in Requests, Proceed(r) \/ Acquire(r) \/ Crash(r) PROVE BeginsNothing
  BY <1>3, <1>4, <1>5, <1>7, <1>8, <1>9, <1>10, <1>12, <1>16 DEF Proceed, Acquire
<1> QED
  BY <1>13, <1>14, <1>15, <1>16 DEF Next

LEMMA QuotesOpen ==
  ASSUME TypeInv, [Next]_vars, OfferInv, "mirror" \notin Mix, "delete" \notin Mix,
         ~ \E r \in Requests : SendCommit(r)
  PROVE  OpensNothing
<1>0. quote \in [Quotes -> Quotation]
  BY DEF TypeInv, TypeOK
<1> USE DEF OpensNothing, OpenForAcceptance
<1>1. ASSUME NEW r \in Requests, SendFreeze(r) PROVE OpensNothing
  BY <1>0, <1>1 DEF SendFreeze, Quotation
<1>2. ASSUME NEW r \in Requests, DeclineWrite(r) \/ AcceptExpire(r) PROVE OpensNothing
  BY <1>0, <1>2 DEF DeclineWrite, AcceptExpire, Quotation
<1>3. ASSUME NEW r \in Requests, MirrorClear(r) \/ MirrorLines(r) PROVE OpensNothing
  BY <1>0, <1>3 DEF MirrorClear, MirrorLines, Quotation
<1>4. ASSUME NEW r \in Requests, AcceptClaim(r) PROVE OpensNothing
  <2>1. \/ UNCHANGED quote
        \/ \E b \in Bookings :
             quote' = [quote EXCEPT ![request[r].q] = [@ EXCEPT !.status = "CONVERTED",
                                                                !.bookedAs = b]]
    BY <1>4 DEF AcceptClaim
  <2>2. ASSUME NEW b \in Bookings, NEW q \in Quotes,
               quote'[q] = [quote[q] EXCEPT !.status = "CONVERTED", !.bookedAs = b]
        PROVE  /\ quote'[q].enq = quote[q].enq /\ quote'[q].deleted = quote[q].deleted
               /\ quote'[q].status = "CONVERTED"
    BY <1>0, <2>2 DEF Quotation
  <2>3. \A b \in Bookings, q \in Quotes :
          quote' = [quote EXCEPT ![request[r].q] = [@ EXCEPT !.status = "CONVERTED",
                                                             !.bookedAs = b]]
          => quote'[q] = IF q = request[r].q
                         THEN [quote[q] EXCEPT !.status = "CONVERTED", !.bookedAs = b]
                         ELSE quote[q]
    BY <1>0
  <2> QED
    <3>1. ASSUME NEW b \in Bookings, NEW q \in Quotes,
                 quote' = [quote EXCEPT ![request[r].q] = [@ EXCEPT !.status = "CONVERTED", !.bookedAs = b]]
          PROVE  quote'[q] = quote[q] \/ quote'[q] = [quote[q] EXCEPT !.status = "CONVERTED", !.bookedAs = b]
      BY <2>3, <3>1
    <3> QED
      BY <2>1, <2>2, <3>1
<1>5. ASSUME NEW q \in Quotes, NEW e \in Enquiries \cup {None}, NEW o \in Offers,
             CreateQuotation(q, e, o)
      PROVE  OpensNothing
  BY <1>0, <1>5 DEF CreateQuotation, Quotation
<1>6. ASSUME NEW q \in Quotes, SoftDeleteQuotation(q) \/ RestoreQuotation(q) \/ Lapse(q)
      PROVE  OpensNothing
  BY <1>0, <1>6 DEF SoftDeleteQuotation, RestoreQuotation, OfferInv, NothingDeleted, Lapse,
    Quotation
<1>7. CASE ExpireStaleQuotations
  BY <1>0, <1>7 DEF ExpireStaleQuotations, Quotation
<1>8. ASSUME NEW r \in Requests, MirrorWrite(r) PROVE FALSE
  BY <1>8 DEF MirrorWrite, At, OfferInv, NothingMirrored
<1>9. UNCHANGED quote => OpensNothing
  OBVIOUS
<1>10. ASSUME NEW r \in Requests, Start(r) PROVE UNCHANGED quote
  BY <1>10 DEF Start, SendRead, DeclineRead, AcceptRead, MirrorInsert, MirrorRead, DirectBooking
<1>11. ASSUME NEW r \in Requests,
              \/ SendItems(r) \/ SendQuoted(r) \/ AcceptConfirm(r) \/ DirectClose(r)
              \/ AcceptLock(r) \/ Crash(r)
       PROVE  UNCHANGED quote
  BY <1>11 DEF SendItems, SendQuoted, AcceptConfirm, DirectClose, AcceptLock, Crash
<1>12. ASSUME NEW b \in Bookings, SoftDeleteBooking(b) \/ RestoreBooking(b) PROVE UNCHANGED quote
  BY <1>12 DEF SoftDeleteBooking, RestoreBooking
<1> HIDE DEF OpensNothing
<1> QED
  BY <1>1, <1>2, <1>3, <1>4, <1>5, <1>6, <1>7, <1>8, <1>9, <1>10, <1>11, <1>12
  DEF Next, Desk, Proceed, Acquire, vars

LEMMA OfferStep ==
  ASSUME "mirror" \notin Mix, "delete" \notin Mix
  PROVE  TypeInv /\ TypeInv' /\ OfferInv /\ [Next]_vars => OfferInv'
<1> SUFFICES ASSUME TypeInv, TypeInv', OfferInv, [Next]_vars PROVE OfferInv'
  OBVIOUS
<1> USE DEF OfferInv
<1>1. OpensNothing => OneOpenOfferPerEnquiry' /\ NothingDeleted'
  <2> SUFFICES ASSUME OpensNothing PROVE OneOpenOfferPerEnquiry' /\ NothingDeleted'
    OBVIOUS
  <2>1. \A q \in Quotes : OpenForAcceptance(quote'[q].status) =>
          OpenForAcceptance(quote[q].status) /\ quote'[q].enq = quote[q].enq
    BY DEF OpensNothing, OpenForAcceptance
  <2> QED
    BY <2>1 DEF OpensNothing, OneOpenOfferPerEnquiry, NothingDeleted
<1>2. ASSUME NEW r \in Requests, SendCommit(r) PROVE OfferInv'
  <2> DEFINE q == request[r].q
             e == request[r].enq
  <2>1. q \in Quotes /\ e = quote[q].enq
    BY <1>2, KitTyped DEF SendCommit, At, SentForItsEnquiry, Sending
  <2>2. ASSUME NEW x \in Quotes
        PROVE  /\ quote'[x].enq = quote[x].enq /\ quote'[x].deleted = quote[x].deleted
               /\ quote'[x].status = IF x = q THEN "SENT"
                                     ELSE IF x \in Replaced(q, e) THEN "SUPERSEDED"
                                     ELSE quote[x].status
    BY <1>2 DEF SendCommit, TypeInv, TypeOK, Quotation
  <2>3. ASSUME NEW x \in Quotes, x # q, OpenForAcceptance(quote'[x].status),
               quote[x].enq = e, e # None
        PROVE  FALSE
    BY <2>2, <2>3 DEF Replaced, OpenForAcceptance, NothingDeleted
  <2>4. \A x \in Quotes : x # q /\ OpenForAcceptance(quote'[x].status) =>
          OpenForAcceptance(quote[x].status)
    BY <2>2 DEF OpenForAcceptance
  <2>5. OneOpenOfferPerEnquiry'
    BY <2>1, <2>2, <2>3, <2>4 DEF OneOpenOfferPerEnquiry
  <2>6. NothingDeleted'
    BY <2>2 DEF NothingDeleted
  <2>7. BeginsNothing
    BY <1>2, CommitBegins
  <2>8. SentForItsEnquiry'
    BY <2>2, <2>7, KitTyped DEF BeginsNothing, SentForItsEnquiry, Sending
  <2>9. NothingMirrored'
    BY <2>7 DEF BeginsNothing, NothingMirrored
  <2> QED
    BY <2>5, <2>6, <2>8, <2>9
<1>3. ASSUME NEW r \in Requests, NEW q \in Quotes, SendRead(r, q) PROVE OfferInv'
  <2> DEFINE h == [Idle EXCEPT !.at = "send.items", !.q = q,
                               !.enq = quote[q].enq, !.offer = quote[q].live]
  <2>1. h.at = "send.items" /\ h.q = q /\ h.enq = quote[q].enq
    BY DEF Idle
  <2>2. Goto(r, h) /\ UNCHANGED quote
    BY <1>3 DEF SendRead
  <2> HIDE DEF h
  <2>3. \A x \in Requests : request'[x] = IF x = r THEN h ELSE request[x]
    BY <2>2 DEF Goto, TypeInv, TypeOK
  <2>4. SentForItsEnquiry' /\ NothingMirrored'
    BY <2>1, <2>2, <2>3 DEF SentForItsEnquiry, NothingMirrored
  <2> QED
    BY <2>2, <2>4 DEF OneOpenOfferPerEnquiry, NothingDeleted
<1>4. CASE /\ ~ \E r \in Requests, q \in Quotes : SendRead(r, q)
           /\ ~ \E r \in Requests : SendCommit(r)
  <2>1. OpensNothing /\ BeginsNothing
    BY <1>4, QuotesOpen, RequestsBegin
  <2>2. SentForItsEnquiry'
    <3>1. ASSUME NEW r \in Requests, request'[r].at \in Sending
          PROVE  request'[r].enq = quote'[request'[r].q].enq
      <4>1. request[r].at \in Sending /\ request'[r].enq = request[r].enq
            /\ request'[r].q = request[r].q
        BY <2>1, <3>1 DEF BeginsNothing
      <4>2. request[r].q \in Quotes /\ quote[request[r].q].status # "ABSENT"
        BY <4>1, KitTyped DEF Sending
      <4> QED
        BY <2>1, <4>1, <4>2 DEF OpensNothing, SentForItsEnquiry
    <3> QED
      BY <3>1 DEF SentForItsEnquiry
  <2>3. NothingMirrored'
    BY <2>1 DEF BeginsNothing, NothingMirrored
  <2> QED
    BY <1>1, <2>1, <2>2, <2>3
<1> QED
  BY <1>2, <1>3, <1>4

\* "An enquiry is never briefly left with two acceptable offers" (sendQuotation):
\* where no website mirror writes and no quotation is deleted and restored,
\* whatever sends, declines, lapses, acceptances and crashes overlap.
THEOREM OneOpenOffer ==
  ASSUME "mirror" \notin Mix, "delete" \notin Mix
  PROVE  Spec => []OneOpenOfferPerEnquiry
<1>1. Init => OfferInv
  BY DEF Init, OfferInv, OneOpenOfferPerEnquiry, SentForItsEnquiry, NothingDeleted,
    NothingMirrored, Idle, Sending
<1>2. TypeInv /\ OfferInv /\ [Next]_vars => (TypeInv /\ OfferInv)'
  BY StepTyped, OfferStep
<1>3. OfferInv => OneOpenOfferPerEnquiry
  BY DEF OfferInv
<1> QED
  BY <1>1, <1>2, <1>3, InitTyped, PTL DEF Spec
=============================================================================
