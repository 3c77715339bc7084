----------------------------- MODULE Quotations -----------------------------
(***************************************************************************)
(* The life of a quotation: drafted, frozen and sent, declined, expired,   *)
(* mirrored from a tenant's own website, accepted and turned into a        *)
(* booking (quotations.ts, quotation-snapshot.ts, the booking insert of    *)
(* bookings.ts and the two partial unique indexes it relies on).           *)
(*                                                                         *)
(* A handler is a request that takes one step per database round trip, so  *)
(* what it read can be stale by the time it writes.  Only the acceptance   *)
(* and the send of an offer on an enquiry open a transaction; both take    *)
(* the advisory lock of the enquiry first.  A transaction's writes become  *)
(* visible together, in the step that commits.                             *)
(***************************************************************************)
EXTENDS Naturals, FiniteSets

CONSTANTS
  Quotes,      \* quotation rows
  Mirrored,    \* those that carry an external reference: a mirror may write them
  Enquiries,   \* booking_requests rows
  Bookings,    \* booking ids that may be allocated (bounds the model)
  Offers,      \* what a quotation can say: its total, and what its lines add up to
  Requests,    \* handlers that may be in flight at once
  Mix,         \* optional operations this instance exercises
  None

Operations == {"mirror", "delete", "direct", "lapse", "decline", "crash"}

\* A mirror deletes the lines and inserts new ones in two statements, so for a
\* while a quotation has none (0), or those of two mirrors at once.
LiveOffers == [total : Nat, lines : Nat]

ASSUME QuotationsAssumption ==
  /\ Mirrored \subseteq Quotes
  /\ Mix \subseteq Operations
  /\ None \notin Quotes \cup Enquiries \cup Bookings \cup LiveOffers \cup Requests
  /\ Quotes \cap Enquiries = {}
  /\ Offers \subseteq {o \in LiveOffers : o.lines # 0}

VARIABLES
  quote,    \* quotations + the row of quotation_versions
  enquiry,  \* booking_requests: status and converted_booking_id
  booking,  \* bookings
  request,  \* what each handler in flight read, and where it stands
  lock      \* pg_advisory_xact_lock: key -> the holder's request

vars == <<quote, enquiry, booking, request, lock>>

LockKeys == Quotes \cup Enquiries

QuoteStatus == {"ABSENT", "DRAFT", "SENT", "VIEWED", "ACCEPTED", "DECLINED",
                "EXPIRED", "SUPERSEDED", "CONVERTED"}
MirrorStatus == {"DRAFT", "SENT", "VIEWED", "ACCEPTED", "DECLINED", "EXPIRED"}
EnquiryStatus == {"NEW", "QUOTED", "CONVERTED"}

Steps == {"idle", "send.items", "send.freeze", "send.commit", "send.quoted", "decline.write",
          "accept.expire", "accept.lock", "accept.claim", "accept.confirm",
          "mirror.write", "mirror.clear", "mirror.lines", "direct.close"}

Idle == [at |-> "idle", q |-> None, enq |-> None, offer |-> None,
         status |-> None, b |-> None]

Quotation == [status : QuoteStatus,
              enq : Enquiries \cup {None},
              live : LiveOffers \cup {None},
              frozen : LiveOffers \cup {None},
              lapsed : BOOLEAN,
              deleted : BOOLEAN,
              bookedAs : Bookings \cup {None}]

Enquiry == [status : EnquiryStatus, bookedAs : Bookings \cup {None}]

Booking == [row : {"none", "live", "deleted"},
            via : {"none", "accept", "direct"},
            q : Quotes \cup {None},
            enq : Enquiries \cup {None},
            price : LiveOffers \cup {None},
            status : {"PENDING", "AWAITING_PAYMENT", "CONFIRMED"}]

Handler == [at : Steps,
            q : Quotes \cup {None},
            enq : Enquiries \cup {None},
            offer : LiveOffers \cup {None},
            status : QuoteStatus \cup {None},
            b : Bookings \cup {None}]

TypeOK ==
  /\ quote \in [Quotes -> Quotation]
  /\ enquiry \in [Enquiries -> Enquiry]
  /\ booking \in [Bookings -> Booking]
  /\ request \in [Requests -> Handler]
  /\ lock \in [LockKeys -> Requests \cup {None}]

Init ==
  /\ quote = [q \in Quotes |->
                [status |-> "ABSENT", enq |-> None, live |-> None, frozen |-> None,
                 lapsed |-> FALSE, deleted |-> FALSE, bookedAs |-> None]]
  /\ enquiry = [e \in Enquiries |-> [status |-> "NEW", bookedAs |-> None]]
  /\ booking = [b \in Bookings |->
                  [row |-> "none", via |-> "none", q |-> None, enq |-> None,
                   price |-> None, status |-> "PENDING"]]
  /\ request = [r \in Requests |-> Idle]
  /\ lock = [k \in LockKeys |-> None]

-----------------------------------------------------------------------------
(* Handlers.                                                               *)

At(r, step) == request[r].at = step

Goto(r, state) == request' = [request EXCEPT ![r] = state]

\* Mutant: the answered request is left behind in a state of its own.
FinishMutant(r) == Goto(r, [Idle EXCEPT !.at = "done"])

Finish(r) == Goto(r, Idle)

\* getQuotation: a soft-deleted row is not found.
Found(q) == quote[q].status # "ABSENT" /\ ~quote[q].deleted

-----------------------------------------------------------------------------
(* createQuotation: a draft with lines that add up to its total.  The row  *)
(* and its lines are two inserts in the code; a draft whose creation broke *)
(* off between them, without lines, is left out.                           *)

CreateQuotation(q, e, o) ==
  /\ quote[q].status = "ABSENT"
  /\ o.total = o.lines
  /\ quote' = [quote EXCEPT ![q] = [@ EXCEPT !.status = "DRAFT", !.enq = e, !.live = o]]
  /\ UNCHANGED <<enquiry, booking, request, lock>>

-----------------------------------------------------------------------------
(* sendQuotation: read the row, then its lines, freeze the offer, then one *)
(* transaction that sends this offer and withdraws the others of the same  *)
(* enquiry, then mark the enquiry QUOTED.  Delivery to the traveller       *)
(* changes none of this.                                                   *)

MaySend(s) == s \in {"DRAFT", "SENT", "VIEWED"}

SendRead(r, q) ==
  /\ At(r, "idle")
  /\ Found(q)
  /\ MaySend(quote[q].status)
  /\ Goto(r, [Idle EXCEPT !.at = "send.items", !.q = q,
                          !.enq = quote[q].enq, !.offer = quote[q].live])
  /\ UNCHANGED <<quote, enquiry, booking, lock>>

SendItems(r) ==
  /\ At(r, "send.items")
  /\ Goto(r, [request[r] EXCEPT !.at = "send.freeze",
                                !.offer.lines = quote[request[r].q].live.lines])
  /\ UNCHANGED <<quote, enquiry, booking, lock>>

\* insert into quotation_versions ... on conflict do nothing: the version
\* never changes, so the first freeze stands.
\* Mutant: every send freezes again.
FrozenMutant(q, offer) == offer

Frozen(q, offer) == IF quote[q].frozen = None THEN offer ELSE quote[q].frozen

SendFreeze(r) ==
  /\ At(r, "send.freeze")
  /\ LET q == request[r].q
     IN  quote' = [quote EXCEPT ![q].frozen = Frozen(q, request[r].offer)]
  /\ Goto(r, [request[r] EXCEPT !.at = "send.commit", !.offer = None])
  /\ UNCHANGED <<enquiry, booking, lock>>

\* Mutant: only an offer the traveller has opened is withdrawn.
ReplacedMutant(q, e) ==
  {x \in Quotes : e # None /\ x # q /\ quote[x].enq = e /\ quote[x].status = "VIEWED"}

\* The other offers of the enquiry that the send withdraws.
Replaced(q, e) ==
  {x \in Quotes : /\ e # None
                  /\ x # q
                  /\ quote[x].enq = e
                  /\ ~quote[x].deleted
                  /\ quote[x].status \in {"SENT", "VIEWED"}}

SendCommit(r) ==
  LET q == request[r].q
      e == request[r].enq
  IN  /\ At(r, "send.commit")
      /\ e # None => lock[e] = None
      /\ quote' = [x \in Quotes |->
                     [quote[x] EXCEPT !.status = IF x = q THEN "SENT"
                                                 ELSE IF x \in Replaced(q, e) THEN "SUPERSEDED"
                                                 ELSE @]]
      /\ IF e = None THEN Finish(r)
                     ELSE Goto(r, [request[r] EXCEPT !.at = "send.quoted"])
      /\ UNCHANGED <<enquiry, booking, lock>>

SendQuoted(r) ==
  /\ At(r, "send.quoted")
  /\ enquiry' = [enquiry EXCEPT ![request[r].enq].status = "QUOTED"]
  /\ Finish(r)
  /\ UNCHANGED <<quote, booking, lock>>

-----------------------------------------------------------------------------
(* declineQuotation: refused for a sale or a replaced offer, and the write *)
(* carries the statuses it may move from.                                  *)

MayDecline(s) == s \in {"DRAFT", "SENT", "VIEWED", "DECLINED", "EXPIRED"}

DeclineRead(r, q) ==
  /\ "decline" \in Mix
  /\ At(r, "idle")
  /\ Found(q)
  /\ quote[q].status \notin {"CONVERTED", "ACCEPTED", "SUPERSEDED"}
  /\ Goto(r, [Idle EXCEPT !.at = "decline.write", !.q = q])
  /\ UNCHANGED <<quote, enquiry, booking, lock>>

DeclineWrite(r) ==
  /\ At(r, "decline.write")
  /\ LET q == request[r].q
     IN  quote' = [quote EXCEPT ![q].status = IF MayDecline(@) THEN "DECLINED" ELSE @]
  /\ Finish(r)
  /\ UNCHANGED <<enquiry, booking, lock>>

-----------------------------------------------------------------------------
(* acceptQuotation.                                                        *)

OpenForAcceptance(s) == s \in {"SENT", "VIEWED"}

\* A repeat on a CONVERTED quotation only reads.  A quotation past its
\* validity is about to be written EXPIRED, whatever else it is.
AcceptRead(r, q) ==
  /\ At(r, "idle")
  /\ Found(q)
  /\ ~(quote[q].status = "CONVERTED" /\ quote[q].bookedAs # None)
  /\ \/ /\ quote[q].lapsed
        /\ Goto(r, [Idle EXCEPT !.at = "accept.expire", !.q = q])
     \/ /\ ~quote[q].lapsed
        /\ OpenForAcceptance(quote[q].status)
        /\ Goto(r, [Idle EXCEPT !.at = "accept.lock", !.q = q, !.enq = quote[q].enq])
  /\ UNCHANGED <<quote, enquiry, booking, lock>>

AcceptExpire(r) ==
  /\ At(r, "accept.expire")
  /\ quote' = [quote EXCEPT ![request[r].q].status = "EXPIRED"]
  /\ Finish(r)
  /\ UNCHANGED <<enquiry, booking, lock>>

\* claimKey: the enquiry when the handler's first read found one.
ClaimKey(q, e) == IF e # None THEN e ELSE q

\* Mutant: the enquiry is not read again under the lock.
StillAcceptableMutant(q, e) == OpenForAcceptance(quote[q].status)

\* What the transaction re-reads under the lock.
StillAcceptable(q, e) ==
  /\ OpenForAcceptance(quote[q].status)
  /\ e # None => enquiry[e].bookedAs = None

\* frozenOfferFor, then the lock, then the re-read.  The frozen offer is
\* written once, so reading it here or a moment earlier is the same read.
AcceptLock(r) ==
  LET q == request[r].q
      e == request[r].enq
      k == ClaimKey(q, e)
  IN  /\ At(r, "accept.lock")
      /\ lock[k] = None
      /\ IF quote[q].frozen # None /\ StillAcceptable(q, e)
         THEN /\ lock' = [lock EXCEPT ![k] = r]
              /\ Goto(r, [request[r] EXCEPT !.at = "accept.claim",
                                            !.offer = quote[q].frozen])
         ELSE /\ Finish(r)
              /\ UNCHANGED lock
      /\ UNCHANGED <<quote, enquiry, booking>>

\* Mutant: the index was never created.
QuotationKeyFreeMutant(q) == TRUE

\* bookings_one_per_quotation: at most one live row per quotation.
QuotationKeyFree(q) ==
  \A b \in Bookings : ~(booking[b].row = "live" /\ booking[b].q = q)

\* Mutant: the booking forgets its quotation.
BookingRowMutant(q, e, o) ==
  [row |-> "live", via |-> "accept", q |-> None, enq |-> e,
   price |-> o, status |-> "AWAITING_PAYMENT"]

\* What acceptance hands to createBooking.
BookingRow(q, e, o) ==
  [row |-> "live", via |-> "accept", q |-> q, enq |-> e,
   price |-> o, status |-> "AWAITING_PAYMENT"]

\* Mutant: a session lock, which a rollback does not release.
UnlockedMutant(k, commits) == IF commits THEN [lock EXCEPT ![k] = None] ELSE lock

\* A transaction lock is released by commit and by rollback.
Unlocked(k, commits) == [lock EXCEPT ![k] = None]

\* createBooking on the transaction's connection, the conditional claim, the
\* enquiry, commit; or a rollback.  The booking's total is added up from the
\* frozen lines, and a booking without lines is refused.
AcceptClaim(r) ==
  LET q == request[r].q
      e == request[r].enq
      o == request[r].offer
      wins == /\ OpenForAcceptance(quote[q].status)
              /\ QuotationKeyFree(q)
              /\ o.lines # 0
  IN  /\ At(r, "accept.claim")
      /\ lock' = Unlocked(ClaimKey(q, e), wins)
      /\ \/ /\ wins
            /\ \E b \in Bookings :
                 /\ booking[b].row = "none"
                 /\ booking' = [booking EXCEPT ![b] = BookingRow(q, e, o)]
                 /\ quote' = [quote EXCEPT ![q] = [@ EXCEPT !.status = "CONVERTED",
                                                            !.bookedAs = b]]
                 /\ enquiry' = [x \in Enquiries |->
                                  IF x = e THEN [status |-> "CONVERTED", bookedAs |-> b]
                                           ELSE enquiry[x]]
                 /\ Goto(r, [Idle EXCEPT !.at = "accept.confirm", !.b = b])
         \/ /\ ~wins
            /\ Finish(r)
            /\ UNCHANGED <<quote, enquiry, booking>>

\* "Accepted means confirmed": changeBookingStatus after the commit; a
\* failure (a booking deleted meanwhile) is logged and swallowed.
AcceptConfirm(r) ==
  /\ At(r, "accept.confirm")
  /\ LET b == request[r].b
     IN  booking' = IF booking[b].row = "live" /\ booking[b].status = "AWAITING_PAYMENT"
                    THEN [booking EXCEPT ![b].status = "CONFIRMED"]
                    ELSE booking
  /\ Finish(r)
  /\ UNCHANGED <<quote, enquiry, lock>>

-----------------------------------------------------------------------------
(* Time, the sweep, and a crash of the process that serves a request: an   *)
(* open transaction is rolled back and its lock released.                  *)

Lapse(q) ==
  /\ "lapse" \in Mix
  /\ quote[q].status # "ABSENT" /\ ~quote[q].lapsed
  /\ quote' = [quote EXCEPT ![q].lapsed = TRUE]
  /\ UNCHANGED <<enquiry, booking, request, lock>>

Stale(q) == quote[q].lapsed /\ quote[q].status \in {"SENT", "VIEWED"}

ExpireStaleQuotations ==
  /\ \E q \in Quotes : Stale(q)
  /\ quote' = [q \in Quotes |-> IF Stale(q) THEN [quote[q] EXCEPT !.status = "EXPIRED"]
                                            ELSE quote[q]]
  /\ UNCHANGED <<enquiry, booking, request, lock>>

Crash(r) ==
  /\ "crash" \in Mix
  /\ ~At(r, "idle")
  /\ Finish(r)
  /\ lock' = [k \in LockKeys |-> IF lock[k] = r THEN None ELSE lock[k]]
  /\ UNCHANGED <<quote, enquiry, booking>>

-----------------------------------------------------------------------------
(* upsertQuotationMirror.  The payload's status yields to a state only     *)
(* Connect can express, judged on the row as it was read.                  *)

LocallyOwned == {"CONVERTED", "SUPERSEDED"}

MirroredStatus(current, reported) ==
  IF current \in LocallyOwned THEN current ELSE reported

\* The lookup by external reference finds nothing.  No index makes the reference
\* unique: two mirrors that both find nothing insert two rows, here as two inserts
\* under different q, and later mirrors go to either.
MirrorInsert(r, q, e, o, s) ==
  /\ "mirror" \in Mix /\ q \in Mirrored
  /\ At(r, "idle")
  /\ quote[q].status = "ABSENT"
  /\ quote' = [quote EXCEPT ![q] = [@ EXCEPT !.status = s, !.enq = e,
                                            !.live = [o EXCEPT !.lines = 0]]]
  /\ Goto(r, [Idle EXCEPT !.at = "mirror.lines", !.q = q, !.offer = o])
  /\ UNCHANGED <<enquiry, booking, lock>>

\* The lookup by external reference also finds a soft-deleted row.
MirrorRead(r, q, e, o, s) ==
  /\ "mirror" \in Mix /\ q \in Mirrored
  /\ At(r, "idle")
  /\ quote[q].status # "ABSENT"
  /\ Goto(r, [Idle EXCEPT !.at = "mirror.write", !.q = q, !.offer = o,
                          !.enq = IF e # None THEN e ELSE quote[q].enq,
                          !.status = MirroredStatus(quote[q].status, s)])
  /\ UNCHANGED <<quote, enquiry, booking, lock>>

\* The payload carries its own validity date, taken here to be in the future.
MirrorWrite(r) ==
  LET m == request[r]
  IN  /\ At(r, "mirror.write")
      /\ quote' = [quote EXCEPT ![m.q] =
                     [@ EXCEPT !.status = m.status, !.enq = m.enq, !.lapsed = FALSE,
                               !.live.total = m.offer.total]]
      /\ Goto(r, [Idle EXCEPT !.at = "mirror.clear", !.q = m.q, !.offer = m.offer])
      /\ UNCHANGED <<enquiry, booking, lock>>

\* delete from quotation_items, then insert.
MirrorClear(r) ==
  /\ At(r, "mirror.clear")
  /\ quote' = [quote EXCEPT ![request[r].q].live.lines = 0]
  /\ Goto(r, [request[r] EXCEPT !.at = "mirror.lines"])
  /\ UNCHANGED <<enquiry, booking, lock>>

MirrorLines(r) ==
  /\ At(r, "mirror.lines")
  /\ quote' = [quote EXCEPT ![request[r].q].live.lines = @ + request[r].offer.lines]
  /\ Finish(r)
  /\ UNCHANGED <<enquiry, booking, lock>>

-----------------------------------------------------------------------------
(* Deleting and restoring hide and show a row; nothing else about it       *)
(* changes.  A restored booking meets the unique index again.              *)

SoftDeleteQuotation(q) ==
  /\ "delete" \in Mix
  /\ Found(q)
  /\ quote' = [quote EXCEPT ![q].deleted = TRUE]
  /\ UNCHANGED <<enquiry, booking, request, lock>>

RestoreQuotation(q) ==
  /\ quote[q].deleted
  /\ quote' = [quote EXCEPT ![q].deleted = FALSE]
  /\ UNCHANGED <<enquiry, booking, request, lock>>

SoftDeleteBooking(b) ==
  /\ "delete" \in Mix
  /\ booking[b].row = "live"
  /\ booking' = [booking EXCEPT ![b].row = "deleted"]
  /\ UNCHANGED <<quote, enquiry, request, lock>>

RestoreBooking(b) ==
  /\ booking[b].row = "deleted"
  /\ booking[b].q # None => QuotationKeyFree(booking[b].q)
  /\ booking' = [booking EXCEPT ![b].row = "live"]
  /\ UNCHANGED <<quote, enquiry, request, lock>>

-----------------------------------------------------------------------------
(* POST /api/v1/bookings: createBooking outside any transaction, with an   *)
(* arbitrary quotation and enquiry; the enquiry is written in a second     *)
(* statement.                                                              *)

DirectBooking(r, b, q, e) ==
  /\ "direct" \in Mix
  /\ At(r, "idle")
  /\ booking[b].row = "none"
  /\ q # None => quote[q].status # "ABSENT" /\ QuotationKeyFree(q)
  /\ booking' = [booking EXCEPT ![b] =
                   [row |-> "live", via |-> "direct", q |-> q, enq |-> e,
                    price |-> None, status |-> "PENDING"]]
  /\ IF e = None THEN Finish(r)
                 ELSE Goto(r, [Idle EXCEPT !.at = "direct.close", !.enq = e, !.b = b])
  /\ UNCHANGED <<quote, enquiry, lock>>

DirectClose(r) ==
  /\ At(r, "direct.close")
  /\ enquiry' = [enquiry EXCEPT ![request[r].enq] =
                   [status |-> "CONVERTED", bookedAs |-> request[r].b]]
  /\ Finish(r)
  /\ UNCHANGED <<quote, booking, lock>>

-----------------------------------------------------------------------------
\* A step a handler in flight takes without waiting for a lock.
Proceed(r) ==
  \/ SendItems(r) \/ SendFreeze(r) \/ SendQuoted(r)
  \/ DeclineWrite(r)
  \/ AcceptExpire(r) \/ AcceptClaim(r) \/ AcceptConfirm(r)
  \/ MirrorWrite(r) \/ MirrorClear(r) \/ MirrorLines(r)
  \/ DirectClose(r)

\* A step that waits for the advisory lock.
Acquire(r) == SendCommit(r) \/ AcceptLock(r)

Start(r) ==
  \/ \E q \in Quotes : SendRead(r, q) \/ DeclineRead(r, q) \/ AcceptRead(r, q)
  \/ \E q \in Quotes, e \in Enquiries \cup {None}, o \in Offers, s \in MirrorStatus :
       MirrorInsert(r, q, e, o, s) \/ MirrorRead(r, q, e, o, s)
  \/ \E b \in Bookings, q \in Quotes \cup {None}, e \in Enquiries \cup {None} :
       DirectBooking(r, b, q, e)

Desk ==
  \/ \E q \in Quotes, e \in Enquiries \cup {None}, o \in Offers : CreateQuotation(q, e, o)
  \/ \E q \in Quotes : SoftDeleteQuotation(q) \/ RestoreQuotation(q) \/ Lapse(q)
  \/ \E b \in Bookings : SoftDeleteBooking(b) \/ RestoreBooking(b)
  \/ ExpireStaleQuotations

Next ==
  \/ Desk
  \/ \E r \in Requests : Start(r) \/ Proceed(r) \/ Acquire(r) \/ Crash(r)

Spec == Init /\ [][Next]_vars

\* A handler that started runs on: its awaits return, and Postgres grants the
\* advisory lock to waiters in turn.
FairSpec ==
  Spec /\ \A r \in Requests : WF_vars(Proceed(r)) /\ SF_vars(Acquire(r))

-----------------------------------------------------------------------------
(* Properties.                                                             *)

\* "One enquiry, one acceptance, one booking": however accepts, sends and
\* mirrors interleave, an enquiry never has two bookings made by accepting
\* quotations (the advisory lock and the re-read of acceptQuotation).
OneAcceptancePerEnquiry ==
  \A b, c \in Bookings :
    /\ booking[b].via = "accept" /\ booking[c].via = "accept"
    /\ booking[b].enq = booking[c].enq /\ booking[b].enq # None
    => b = c

\* A quotation that reads CONVERTED leads to the booking made from it, and
\* an enquiry that was converted leads to a booking for that enquiry: the
\* booking, the claim and the enquiry commit together (acceptQuotation).
ConvertedHasItsBooking ==
  /\ \A q \in Quotes : quote[q].status = "CONVERTED" =>
       \E b \in Bookings : /\ quote[q].bookedAs = b
                           /\ booking[b].via = "accept" /\ booking[b].q = q
  /\ \A e \in Enquiries : enquiry[e].bookedAs # None =>
       booking[enquiry[e].bookedAs].enq = e

\* A booking made by acceptance carries the offer that was frozen when the
\* quotation was first sent, whatever the live row says by then
\* (frozenOfferFor, write-once quotation_versions).
BookedAsFrozen ==
  \A b \in Bookings : booking[b].via = "accept" =>
    booking[b].price = quote[booking[b].q].frozen

\* Two bookings that are both visible never come from one quotation, even
\* when a quotation is put back on offer or a deleted booking is restored
\* (index bookings_one_per_quotation).
OneLiveBookingPerQuotation ==
  \A b, c \in Bookings :
    /\ booking[b].row = "live" /\ booking[c].row = "live"
    /\ booking[b].q = booking[c].q /\ booking[b].q # None
    => b = c

\* "An enquiry is never briefly left with two acceptable offers"
\* (sendQuotation): of the offers on one enquiry at most one is open.
OneOpenOfferPerEnquiry ==
  \A q, x \in Quotes :
    /\ quote[q].enq = quote[x].enq /\ quote[q].enq # None
    /\ ~quote[q].deleted /\ ~quote[x].deleted
    /\ OpenForAcceptance(quote[q].status) /\ OpenForAcceptance(quote[x].status)
    => q = x

\* Nothing that was sold changes status in the step.
SalesStand ==
  \A q \in Quotes : quote[q].status = "CONVERTED" => quote'[q].status = "CONVERTED"

\* "An external sync cannot un-convert a locally CONVERTED quotation"
\* (upsertQuotationMirror).
SyncNeverUnconverts == [][(\E r \in Requests : MirrorWrite(r)) => SalesStand]_vars

\* Every request that started is answered: no handler waits for a lock for
\* ever, and no lock outlives the transaction that took it.
RequestsFinish ==
  \A r \in Requests : ~At(r, "idle") ~> At(r, "idle")

-----------------------------------------------------------------------------
\* Acceptance implements the sale ledger: what was frozen is what was offered,
\* and the bookings made by acceptance are the sales.
Ledger == INSTANCE SaleLedger WITH
  FrozenOffers <- LiveOffers,
  offered <- [q \in Quotes |-> quote[q].frozen],
  sale <- [b \in Bookings |->
             IF booking[b].via = "accept"
             THEN [q |-> booking[b].q, enq |-> booking[b].enq, price |-> booking[b].price]
             ELSE None]

\* Every step of the handlers is an offer, a sale or invisible to the ledger.
ImplementsLedger == Ledger!Spec
=============================================================================
