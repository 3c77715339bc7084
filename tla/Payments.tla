------------------------------ MODULE Payments ------------------------------
(***************************************************************************)
(* Money for one booking: the payment requests sent to the traveller, the  *)
(* traveller's claim to have paid, its verification by staff, the payment  *)
(* rows, and the totals and status of the booking (payment-requests.ts,    *)
(* payments/index.ts, applyPaymentTotals and changeBookingStatus of        *)
(* bookings.ts).                                                           *)
(*                                                                         *)
(* No handler here opens a transaction.  Each takes one step per database  *)
(* round trip that another handler can disturb, and acts on what it read.  *)
(* Payments are MANUAL: the hosted providers are not configured in this    *)
(* program, a BANK_TRANSFER row stays PENDING and nothing reads it, and    *)
(* nothing calls refundPayment.                                            *)
(***************************************************************************)
EXTENDS Naturals, FiniteSets, FiniteSetsExt, BookingStatus

CONSTANTS
  Asks,      \* payment_requests rows
  Payments,  \* payments rows that may be inserted (bounds the model)
  Handlers,  \* requests that may be in flight at once
  Amounts,   \* amounts asked for and received
  Total,     \* the booking's total
  Mix,       \* optional operations this instance exercises
  None

Operations == {"desk", "staff", "notfound", "error", "crash"}

ASSUME PaymentsAssumption ==
  /\ Amounts \subseteq Nat \ {0}
  /\ Total \in Nat
  /\ IsFiniteSet(Payments)
  /\ Mix \subseteq Operations
  /\ None \notin Asks \cup Payments \cup BookingStatuses \cup Nat

VARIABLES
  booking,  \* status and amount_paid; balance_due is what is left of Total
  ask,      \* payment_requests
  payment,  \* payments
  handler   \* what each request in flight read, and where it stands

vars == <<booking, ask, payment, handler>>

AskStatuses == {"ABSENT", "REQUESTED", "REPORTED", "PARTIALLY_PAID", "PAID"}
Active == {"REQUESTED", "REPORTED", "PARTIALLY_PAID"}
PaymentStatuses == {"ABSENT", "PENDING", "SUCCEEDED", "FAILED"}

Steps == {"idle", "ask.insert", "ask.route", "verify.claim", "verify.write",
          "verify.release", "notfound.write", "pay.insert", "pay.charge", "pay.fail",
          "totals.sum", "totals.write", "status.read", "status.write"}

\* for: what the handler does.  had: amount_received when the request was read.
\* sum: the payments added up.  to: the status the booking is to move to.
Idle == [at |-> "idle", for |-> "none", ask |-> None, amount |-> 0, had |-> 0,
         payment |-> None, sum |-> 0, to |-> None]

Request == [status : AskStatuses, amount : Nat, received : Nat, claimed : BOOLEAN]

\* taken: history, the payment was SUCCEEDED at some time.
Payment == [status : PaymentStatuses, amount : Nat, ask : Asks \cup {None}, taken : BOOLEAN]

Handler == [at : Steps,
            for : {"none", "request", "verify", "desk", "staff", "notfound"},
            ask : Asks \cup {None},
            amount : Nat,
            had : Nat,
            payment : Payments \cup {None},
            sum : Nat,
            to : BookingStatuses \cup {None}]

TypeOK ==
  /\ booking \in [status : BookingStatuses, paid : Nat]
  /\ ask \in [Asks -> Request]
  /\ payment \in [Payments -> Payment]
  /\ handler \in [Handlers -> Handler]

\* A booking enters in one of the statuses createBooking is given.
Init ==
  /\ booking \in [status : {"DRAFT", "PENDING", "AWAITING_PAYMENT"}, paid : {0}]
  /\ ask = [p \in Asks |-> [status |-> "ABSENT", amount |-> 0, received |-> 0,
                            claimed |-> FALSE]]
  /\ payment = [m \in Payments |-> [status |-> "ABSENT", amount |-> 0, ask |-> None,
                                    taken |-> FALSE]]
  /\ handler = [h \in Handlers |-> Idle]

-----------------------------------------------------------------------------
At(h, step) == handler[h].at = step

Goto(h, state) == handler' = [handler EXCEPT ![h] = state]

Step(h, step) == Goto(h, [handler[h] EXCEPT !.at = step])

Finish(h) == Goto(h, Idle)

Less(a, b) == IF a > b THEN a - b ELSE 0

SumOf(ms) == MapThenSumSet(LAMBDA m : payment[m].amount, ms)

Succeeded == {m \in Payments : payment[m].status = "SUCCEEDED"}

\* Bound of the model: a payment is only begun while a row is left for it.
Room ==
  Cardinality({m \in Payments : payment[m].status = "ABSENT"})
    > Cardinality({h \in Handlers : handler[h].at \in {"verify.claim", "pay.insert"}})

-----------------------------------------------------------------------------
(* createPaymentRequest, and the route that then moves the booking.        *)

CreateRead(h, amount) ==
  /\ At(h, "idle")
  /\ amount <= Less(Total, booking.paid)
  /\ Goto(h, [Idle EXCEPT !.at = "ask.insert", !.for = "request", !.amount = amount])
  /\ UNCHANGED <<booking, ask, payment>>

\* payment_requests_active_booking_amount_key: p may hold this amount while active.
\* Mutant: only a request nobody answered yet counts.
UnclashedMutant(p, amount) ==
  \A x \in Asks \ {p} : ~(ask[x].status = "REQUESTED" /\ ask[x].amount = amount)

Unclashed(p, amount) ==
  \A x \in Asks \ {p} : ~(ask[x].status \in Active /\ ask[x].amount = amount)

\* The select for a request to reuse comes first, but the unique index decides.
CreateInsert(h) ==
  /\ At(h, "ask.insert")
  /\ \/ \E p \in Asks :
          /\ ask[p].status = "ABSENT"
          /\ Unclashed(p, handler[h].amount)
          /\ ask' = [ask EXCEPT ![p] = [@ EXCEPT !.status = "REQUESTED",
                                                 !.amount = handler[h].amount]]
     \/ /\ \E x \in Asks : ask[x].status \in Active /\ ask[x].amount = handler[h].amount
        /\ UNCHANGED ask
  /\ Goto(h, [Idle EXCEPT !.at = "ask.route", !.for = "request"])
  /\ UNCHANGED <<booking, payment>>

\* "The booking follows its own rules; already-awaiting is fine."
CreateRoute(h) ==
  /\ At(h, "ask.route")
  /\ IF booking.status \in {"DRAFT", "PENDING"}
     THEN Goto(h, [handler[h] EXCEPT !.at = "status.read",
                                     !.to = IF booking.status = "DRAFT" THEN "PENDING"
                                                                        ELSE "AWAITING_PAYMENT"])
     ELSE Finish(h)
  /\ UNCHANGED <<booking, ask, payment>>

-----------------------------------------------------------------------------
(* reportPayment: "A claim, never money".  Its update carries the statuses *)
(* it may move from, so the read before it decides nothing.                *)

ReportPayment(p) ==
  /\ ask[p].status \in {"REQUESTED", "PARTIALLY_PAID"}
  /\ ask' = [ask EXCEPT ![p] = [@ EXCEPT !.status = "REPORTED", !.claimed = FALSE]]
  /\ UNCHANGED <<booking, payment, handler>>

-----------------------------------------------------------------------------
(* verifyPaymentRequest: staff confirms that money arrived.                *)

VerifyRead(h, p, amount) ==
  /\ At(h, "idle") /\ Room
  /\ ask[p].status = "REPORTED"
  /\ amount <= Less(ask[p].amount, ask[p].received)
  /\ Goto(h, [Idle EXCEPT !.at = "verify.claim", !.for = "verify", !.ask = p,
                          !.amount = amount, !.had = ask[p].received])
  /\ UNCHANGED <<booking, ask, payment>>

\* Mutant: the update does not ask that nobody holds the claim.
ClaimableMutant(p) == ask[p].status = "REPORTED"

\* Compare-and-set on the status and verification_started_at.
Claimable(p) == ask[p].status = "REPORTED" /\ ~ask[p].claimed

VerifyClaim(h) ==
  LET p == handler[h].ask
  IN  /\ At(h, "verify.claim")
      /\ IF Claimable(p)
         THEN /\ ask' = [ask EXCEPT ![p].claimed = TRUE]
              /\ Step(h, "pay.insert")
         ELSE /\ Finish(h)
              /\ UNCHANGED ask
      /\ UNCHANGED <<booking, payment>>

\* createPayment threw: the claim is given back.
\* Mutant: the error is only rethrown.
ReleasedMutant(p) == ask[p]

Released(p) == [ask[p] EXCEPT !.claimed = FALSE]

VerifyRelease(h) ==
  /\ At(h, "verify.release")
  /\ ask' = [ask EXCEPT ![handler[h].ask] = Released(handler[h].ask)]
  /\ Finish(h)
  /\ UNCHANGED <<booking, payment>>

Verified(p, had, amount) ==
  [ask[p] EXCEPT !.status = IF had + amount >= ask[p].amount THEN "PAID" ELSE "PARTIALLY_PAID",
                 !.received = had + amount, !.claimed = FALSE]

\* The row as the handler first read it, plus what it recorded; by id alone, so
\* only the unique index can refuse it.
VerifyWrite(h) ==
  LET p == handler[h].ask
      row == Verified(p, handler[h].had, handler[h].amount)
  IN  /\ At(h, "verify.write")
      /\ ask' = IF row.status = "PAID" \/ Unclashed(p, row.amount)
                THEN [ask EXCEPT ![p] = row]
                ELSE ask
      /\ Finish(h)
      /\ UNCHANGED <<booking, payment>>

-----------------------------------------------------------------------------
(* paymentNotFound: back to outstanding.                                   *)

NotFoundRead(h, p) ==
  /\ "notfound" \in Mix
  /\ At(h, "idle")
  /\ ask[p].status = "REPORTED"
  /\ Goto(h, [Idle EXCEPT !.at = "notfound.write", !.for = "notfound", !.ask = p,
                          !.had = ask[p].received])
  /\ UNCHANGED <<booking, ask, payment>>

NotFoundWrite(h) ==
  LET p == handler[h].ask
  IN  /\ At(h, "notfound.write")
      /\ IF ask[p].status = "REPORTED"
         THEN ask' = [ask EXCEPT ![p] =
                        [@ EXCEPT !.status = IF handler[h].had > 0 THEN "PARTIALLY_PAID"
                                                                   ELSE "REQUESTED",
                                  !.claimed = FALSE]]
         ELSE UNCHANGED ask
      /\ Finish(h)
      /\ UNCHANGED <<booking, payment>>

-----------------------------------------------------------------------------
(* createPayment, for a verification or recorded at the desk.              *)

DeskPayment(h, amount) ==
  /\ "desk" \in Mix
  /\ At(h, "idle") /\ Room
  /\ Goto(h, [Idle EXCEPT !.at = "pay.insert", !.for = "desk", !.amount = amount])
  /\ UNCHANGED <<booking, ask, payment>>

PayInsert(h) ==
  /\ At(h, "pay.insert")
  /\ \E m \in Payments :
       /\ payment[m].status = "ABSENT"
       /\ payment' = [payment EXCEPT ![m] = [status |-> "PENDING", ask |-> handler[h].ask,
                                             amount |-> handler[h].amount, taken |-> FALSE]]
       /\ Goto(h, [handler[h] EXCEPT !.at = "pay.charge", !.payment = m])
  /\ UNCHANGED <<booking, ask>>

\* The charge of a MANUAL payment succeeds; setPaymentStatus writes it down.
PayCharge(h) ==
  /\ At(h, "pay.charge")
  /\ payment' = [payment EXCEPT ![handler[h].payment] = [@ EXCEPT !.status = "SUCCEEDED",
                                                                  !.taken = TRUE]]
  /\ Step(h, "totals.sum")
  /\ UNCHANGED <<booking, ask>>

\* Mutant: the verification goes on as if the charge had gone through.
RethrownMutant(h) == IF handler[h].for = "verify" THEN Step(h, "verify.write") ELSE Finish(h)

\* The error reaches whoever asked for the payment.
Rethrown(h) == IF handler[h].for = "verify" THEN Step(h, "verify.release") ELSE Finish(h)

\* createPayment caught an error: the payment becomes FAILED, whatever it was.
PayFail(h) ==
  /\ At(h, "pay.fail")
  /\ payment' = [payment EXCEPT ![handler[h].payment].status = "FAILED"]
  /\ Rethrown(h)
  /\ UNCHANGED <<booking, ask>>

-----------------------------------------------------------------------------
(* applyPaymentTotals: add up, write, and advance the booking.             *)

TotalsSum(h) ==
  /\ At(h, "totals.sum")
  /\ Goto(h, [handler[h] EXCEPT !.at = "totals.write", !.sum = SumOf(Succeeded)])
  /\ UNCHANGED <<booking, ask, payment>>

\* A refused move, or any other error, fails the payment it was made for.
Refused(h) == IF handler[h].for \in {"verify", "desk"} THEN Step(h, "pay.fail") ELSE Finish(h)

\* What the rest of createPayment leads to; its own statements may still fail.
Recorded(h) ==
  \/ IF handler[h].for = "verify" THEN Step(h, "verify.write") ELSE Finish(h)
  \/ "error" \in Mix /\ Refused(h)

\* Mutants: any payment confirms; a request's status for a booking's.
AdvanceToMutant(sum) == "CONFIRMED"
AdvanceToPaidMutant(sum) == IF sum >= Total THEN "PAID" ELSE "PARTIALLY_PAID"

AdvanceTo(sum) == IF sum >= Total THEN "CONFIRMED" ELSE "PARTIALLY_PAID"

TotalsWrite(h) ==
  LET sum == handler[h].sum
  IN  /\ At(h, "totals.write")
      /\ booking' = [booking EXCEPT !.paid = sum]
      /\ IF booking.status \in Advanceable /\ sum > 0 /\ AdvanceTo(sum) # booking.status
         THEN Goto(h, [handler[h] EXCEPT !.at = "status.read", !.to = AdvanceTo(sum)])
         ELSE Recorded(h)
      /\ UNCHANGED <<ask, payment>>

-----------------------------------------------------------------------------
(* changeBookingStatus: read, check, write by id.                          *)

StaffMove(h, to) ==
  /\ "staff" \in Mix
  /\ At(h, "idle")
  /\ Goto(h, [Idle EXCEPT !.at = "status.read", !.for = "staff", !.to = to])
  /\ UNCHANGED <<booking, ask, payment>>

\* The route of a request on a DRAFT booking makes two moves.
Moved(h) ==
  IF handler[h].for = "request" /\ handler[h].to = "PENDING"
  THEN Goto(h, [handler[h] EXCEPT !.at = "status.read", !.to = "AWAITING_PAYMENT"])
  ELSE Recorded(h)

StatusRead(h) ==
  LET to == handler[h].to
  IN  /\ At(h, "status.read")
      /\ \/ booking.status = to /\ Moved(h)
         \/ booking.status # to /\ MayMove(booking.status, to) /\ Step(h, "status.write")
         \/ booking.status # to /\ ~MayMove(booking.status, to) /\ Refused(h)
      /\ UNCHANGED <<booking, ask, payment>>

\* The row of its history is inserted next, which may fail.
StatusWrite(h) ==
  /\ At(h, "status.write")
  /\ booking' = [booking EXCEPT !.status = handler[h].to]
  /\ Moved(h) \/ ("error" \in Mix /\ Refused(h))
  /\ UNCHANGED <<ask, payment>>

-----------------------------------------------------------------------------
\* A statement of createPayment, or of what it calls, fails: before the insert
\* nothing is left; afterwards the payment is to become FAILED, which is a
\* statement that may fail as well.
PayThrows(h) ==
  /\ "error" \in Mix
  /\ handler[h].for \in {"verify", "desk"}
  /\ \/ handler[h].at \in {"pay.insert", "pay.fail"} /\ Rethrown(h)
     \/ /\ handler[h].at \in {"pay.charge", "totals.sum", "totals.write", "status.read", "status.write"}
        /\ Step(h, "pay.fail")
  /\ UNCHANGED <<booking, ask, payment>>

Crash(h) ==
  /\ "crash" \in Mix
  /\ ~At(h, "idle")
  /\ Finish(h)
  /\ UNCHANGED <<booking, ask, payment>>

Start(h) ==
  \/ \E amount \in Amounts : CreateRead(h, amount) \/ DeskPayment(h, amount)
  \/ \E p \in Asks : NotFoundRead(h, p) \/ (\E amount \in Amounts : VerifyRead(h, p, amount))
  \/ \E to \in BookingStatuses : StaffMove(h, to)

Proceed(h) ==
  \/ CreateInsert(h) \/ CreateRoute(h)
  \/ VerifyClaim(h) \/ VerifyRelease(h) \/ VerifyWrite(h) \/ NotFoundWrite(h)
  \/ PayInsert(h) \/ PayCharge(h) \/ PayFail(h)
  \/ TotalsSum(h) \/ TotalsWrite(h) \/ StatusRead(h) \/ StatusWrite(h)

Next ==
  \/ \E p \in Asks : ReportPayment(p)
  \/ \E h \in Handlers : Start(h) \/ Proceed(h) \/ PayThrows(h) \/ Crash(h)

Spec == Init /\ [][Next]_vars

\* A handler that started runs on.
FairSpec == Spec /\ \A h \in Handlers : WF_vars(Proceed(h))

-----------------------------------------------------------------------------
(* Properties.                                                             *)

Linked(p) == {m \in Succeeded : payment[m].ask = p}

\* Past the claim and before the row is settled again.
Verifying(h, p) ==
  /\ handler[h].for = "verify" /\ handler[h].ask = p
  /\ handler[h].at \notin {"idle", "verify.claim"}

\* "Two staff taps cannot both get past this point": at most one verification
\* of a request is past its claim (verifyPaymentRequest).
OneVerifier ==
  \A p \in Asks, h, i \in Handlers : Verifying(h, p) /\ Verifying(i, p) => h = i

\* Whatever overlaps or fails, a request never says it received more than the
\* successful payments recorded for it (verifyPaymentRequest, createPayment).
ReceivedIsRecorded == \A p \in Asks : ask[p].received <= SumOf(Linked(p))

\* The status tells how much of the request was received: PAID means all of
\* it, and a request that is still open is short of it.
StatusTellsReceived ==
  \A p \in Asks : ask[p].status # "ABSENT" =>
    (ask[p].status = "PAID" <=> ask[p].received >= ask[p].amount)

\* "These indexes are the actual concurrency guarantee for double-clicked
\* requests": no two open requests for one amount, also when a request is
\* opened again by a verification or a claim not found.
OneOpenRequestPerAmount ==
  \A p, x \in Asks :
    /\ ask[p].status \in Active /\ ask[x].status \in Active
    /\ ask[p].amount = ask[x].amount
    => p = x

\* Every claim to verify is given up again, with the money recorded or not
\* (verifyPaymentRequest's two ways out).
ClaimsAreShortLived == \A p \in Asks : ask[p].claimed ~> ~ask[p].claimed

Quiet == \A h \in Handlers : At(h, "idle")

\* "Payment rows are the source of truth" (applyPaymentTotals): when nothing is
\* in flight, what the booking says was paid is the sum of the payments that
\* succeeded.
TotalsMatchPayments == Quiet => booking.paid = SumOf(Succeeded)

\* Where staff leaves the status alone, a booking is CONFIRMED only after payments
\* for the whole of it had succeeded, however they overlap and whichever of them
\* an error turns into FAILED, before or after (applyPaymentTotals, createPayment).
ConfirmedIsPaid ==
  booking.status = "CONFIRMED" => SumOf({m \in Payments : payment[m].taken}) >= Total
=============================================================================
