--------------------------- MODULE PaymentsProofs ---------------------------
(***************************************************************************)
(* For any number of requests for payment, payments and handlers: the type *)
(* invariant; that two open requests never ask one amount; that PAID says  *)
(* what was received, and that this was recorded as paid; where nobody     *)
(* reports that money was not found, that a claim is verified by one       *)
(* handler at a time; and where staff leaves the status alone, that a      *)
(* CONFIRMED booking was charged for.                                      *)
(***************************************************************************)
EXTENDS Payments, SumLemmas

PayingSteps == {"pay.charge", "pay.fail", "totals.sum", "totals.write"}

StatusSteps == {"status.read", "status.write"}

\* A handler that has a payment in hand.  One that gives its claim back may have
\* failed before there was one.
Paying(d) ==
  \/ d.at \in PayingSteps \cup {"verify.write"}
  \/ d.at \in StatusSteps /\ d.for \in {"verify", "desk"}

\* What a handler knows at each step.
Knows(d) ==
  /\ d.at = "idle" => d.for = "none"
  /\ d.at \in {"verify.claim", "verify.release", "verify.write"} => d.for = "verify"
  /\ d.at \in PayingSteps \cup {"pay.insert"} => d.for \in {"verify", "desk"}
  /\ d.at = "notfound.write" => d.for = "notfound"
  /\ d.at = "ask.insert" => d.amount > 0
  /\ d.at = "ask.route" => d.for = "request"
  /\ d.at \in StatusSteps => d.to \in BookingStatuses
  /\ d.for \in {"verify", "notfound"} => d.ask \in Asks
  /\ d.for = "notfound" => "notfound" \in Mix
  /\ d.at # "verify.release" => (d.payment # None <=> Paying(d))

AskRows ==
  /\ ask \in [Asks -> Request]
  /\ \A p \in Asks : ask[p].status = "ABSENT" => ask[p].received = 0

\* What succeeded is remembered.
Remembered ==
  \A m \in Payments :
    /\ payment[m].status = "SUCCEEDED" => payment[m].taken
    /\ payment[m].status = "ABSENT" => ~payment[m].taken

MoneyWired ==
  /\ TypeOK
  /\ AskRows
  /\ Remembered
  /\ \A h \in Handlers : Knows(handler[h])

\* Who is past the claim holds it, on a request that is REPORTED.
ClaimsHeld ==
  \A h \in Handlers, p \in Asks : Verifying(h, p) => ask[p].claimed /\ ask[p].status = "REPORTED"

-----------------------------------------------------------------------------
\* What a sum of payments p is.
AddsAmounts(p, ms, g) ==
  g = [s \in SUBSET ms |-> IF s = {} THEN 0 ELSE p[Chosen(s)].amount + g[s \ {Chosen(s)}]]

Amount(p) == [m \in Payments |-> p[m].amount]

LEMMA AmountsAdded ==
  ASSUME NEW p \in [Payments -> Payment], NEW ms \in SUBSET Payments
  PROVE  MapThenSumSet(LAMBDA m : p[m].amount, ms) = SumOver(Amount(p), ms)
<1>0. IsFiniteSet(Payments) /\ Amount(p) \in [Payments -> Nat] /\ IsFiniteSet(ms)
  BY PaymentsAssumption, FS_Subset DEF Amount, Payment
<1>1. PICK g : IsTable(Amount(p), Payments, g)
  BY <1>0, SumsTable
<1>2. \A s \in SUBSET Payments : s # {} => Amount(p)[Chosen(s)] = p[Chosen(s)].amount
  BY ChosenIn DEF Amount
<1>3. \E f : AddsAmounts(p, ms, f)
  <2> DEFINE f == [s \in SUBSET ms |-> g[s]]
  <2>1. ASSUME NEW s \in SUBSET ms
        PROVE  f[s] = IF s = {} THEN 0 ELSE p[Chosen(s)].amount + f[s \ {Chosen(s)}]
    BY <1>1, <1>2 DEF IsTable, Adds, Entry
  <2>2. AddsAmounts(p, ms, f)
    BY <2>1 DEF AddsAmounts
  <2> QED
    BY <2>2
<1>4. PICK f : f = (CHOOSE x : AddsAmounts(p, ms, x))
  OBVIOUS
<1>5. AddsAmounts(p, ms, f)
  BY <1>3, <1>4, Zenon
<1>6. Adds(Amount(p), ms, f)
  BY <1>2, <1>5 DEF AddsAmounts, Adds, Entry
<1>7. f[ms] = g[ms]
  BY <1>0, <1>1, <1>6, TablesAgree DEF IsTable
<1>8. MapThenSumSet(LAMBDA m : p[m].amount, ms) = f[ms]
  BY <1>4 DEF MapThenSumSet, MapThenFoldSet, AddsAmounts, Chosen
<1> QED
  BY <1>1, <1>7, <1>8 DEF IsTable

LEMMA SumOfType ==
  ASSUME payment \in [Payments -> Payment], NEW ms \in SUBSET Payments
  PROVE  SumOf(ms) = SumOver(Amount(payment), ms) /\ SumOf(ms) \in Nat
<1>1. SumOf(ms) = SumOver(Amount(payment), ms)
  BY AmountsAdded DEF SumOf
<1>2. Amount(payment) \in [Payments -> Nat] /\ IsFiniteSet(Payments)
  BY PaymentsAssumption DEF Amount, Payment
<1> QED
  BY <1>1, <1>2, SumType

LEMMA MoneyStart == Init => MoneyWired /\ ClaimsHeld /\ OneVerifier /\ StatusTellsReceived /\ OneOpenRequestPerAmount
<1> SUFFICES ASSUME Init
             PROVE  MoneyWired /\ ClaimsHeld /\ OneVerifier /\ StatusTellsReceived /\ OneOpenRequestPerAmount
  OBVIOUS
<1>1. AskRows
  BY DEF Init, AskRows, Request, AskStatuses
<1>2. \A h \in Handlers : handler[h] = Idle
  BY DEF Init
<1>3. TypeOK
  BY <1>1, PaymentsAssumption DEF Init, TypeOK, AskRows, Handler, Idle, Steps, Payment, PaymentStatuses,
    BookingStatuses
<1>4. \A h \in Handlers : Knows(handler[h])
  BY <1>2 DEF Knows, Idle, Paying, PayingSteps, StatusSteps
<1>5. \A h \in Handlers, p \in Asks : ~Verifying(h, p)
  BY <1>2 DEF Verifying, Idle
<1>6. \A p \in Asks : ask[p].status = "ABSENT"
  BY DEF Init
<1>7. Remembered
  BY DEF Init, Remembered
<1> QED
  BY <1>1, <1>3, <1>4, <1>5, <1>6, <1>7 DEF MoneyWired, ClaimsHeld, OneVerifier, StatusTellsReceived,
    OneOpenRequestPerAmount, Active

\* How the record d of a handler may become e: a verification past its claim was
\* one before, what it read was received then, and who has a payment in hand has
\* it from the insert, for the same.  A sum is one of what succeeded; who moves a
\* booking to CONFIRMED saw it paid, or is staff.
Follows(d, e) ==
  /\ e.for = "verify" /\ e.at # "verify.claim" =>
       d.for = "verify" /\ d.ask = e.ask /\ d.had = e.had /\ d.at # "idle"
  /\ e.payment # None =>
       /\ e.for = d.for /\ e.ask = d.ask /\ e.amount = d.amount
       /\ IF d.at = "pay.insert" THEN payment[e.payment].status = "ABSENT" ELSE e.payment = d.payment
  /\ e.at = "verify.claim" => e.had = ask[e.ask].received
  /\ e.sum \in {0, d.sum, SumOf(Succeeded)}
  /\ e.to = "CONFIRMED" => d.to = "CONFIRMED" \/ d.sum >= Total \/ "staff" \in Mix

\* A step of a handler, seen from the record it writes.
Writes(h) ==
  \E e \in Handler : Goto(h, e) /\ Knows(e) /\ Follows(handler[h], e)

LEMMA BeginWrites ==
  ASSUME NEW h \in Handlers, Start(h), AskRows
  PROVE  Writes(h)
<1> USE PaymentsAssumption
<1>0. Amounts \subseteq Nat /\ (\A a \in Amounts : a > 0) /\ Idle \in Handler
      /\ (\A p \in Asks : ask[p].received \in Nat) /\ None # "CONFIRMED"
  BY DEF Handler, Idle, Steps, AskRows, Request, BookingStatuses
<1>1. ASSUME NEW amount \in Amounts, CreateRead(h, amount) \/ DeskPayment(h, amount)
      PROVE  Writes(h)
  <2>1. ASSUME NEW at \in {"ask.insert", "pay.insert"}, NEW for \in {"request", "desk"},
               at = "ask.insert" <=> for = "request",
               Goto(h, [Idle EXCEPT !.at = at, !.for = for, !.amount = amount])
        PROVE  Writes(h)
    <3> DEFINE e == [Idle EXCEPT !.at = at, !.for = for, !.amount = amount]
    <3>1. e \in Handler
      BY <1>0, <2>1 DEF Handler, Idle, Steps
    <3>2. Knows(e) /\ Follows(handler[h], e)
      BY <1>0, <2>1 DEF Knows, Follows, Idle, Paying, PayingSteps, StatusSteps
    <3> HIDE DEF e
    <3> QED
      BY <2>1, <3>1, <3>2 DEF Writes, e
  <2> QED
    BY <1>1, <2>1 DEF CreateRead, DeskPayment
<1>2. ASSUME NEW p \in Asks, NEW amount \in Amounts, VerifyRead(h, p, amount) PROVE Writes(h)
  <2> DEFINE e == [Idle EXCEPT !.at = "verify.claim", !.for = "verify", !.ask = p,
                               !.amount = amount, !.had = ask[p].received]
  <2>1. e \in Handler
    BY <1>0 DEF Handler, Idle, Steps
  <2>2. Knows(e) /\ Follows(handler[h], e)
    BY <1>0 DEF Knows, Follows, Idle, Paying, PayingSteps, StatusSteps
  <2>3. Goto(h, e)
    BY <1>2 DEF VerifyRead
  <2> HIDE DEF e
  <2> QED
    BY <2>1, <2>2, <2>3 DEF Writes
<1>3. ASSUME NEW p \in Asks, NotFoundRead(h, p) PROVE Writes(h)
  <2> DEFINE e == [Idle EXCEPT !.at = "notfound.write", !.for = "notfound", !.ask = p,
                               !.had = ask[p].received]
  <2>1. e \in Handler
    BY <1>0 DEF Handler, Idle, Steps
  <2>2. Knows(e) /\ Follows(handler[h], e)
    BY <1>0, <1>3 DEF Knows, Follows, Idle, Paying, PayingSteps, StatusSteps, NotFoundRead
  <2>3. Goto(h, e)
    BY <1>3 DEF NotFoundRead
  <2> HIDE DEF e
  <2> QED
    BY <2>1, <2>2, <2>3 DEF Writes
<1>4. ASSUME NEW to \in BookingStatuses, StaffMove(h, to) PROVE Writes(h)
  <2> DEFINE e == [Idle EXCEPT !.at = "status.read", !.for = "staff", !.to = to]
  <2>1. e \in Handler
    BY <1>0 DEF Handler, Idle, Steps
  <2>2. Knows(e) /\ Follows(handler[h], e)
    BY <1>4 DEF Knows, Follows, Idle, Paying, PayingSteps, StatusSteps, StaffMove
  <2>3. Goto(h, e)
    BY <1>4 DEF StaffMove
  <2> HIDE DEF e
  <2> QED
    BY <2>1, <2>2, <2>3 DEF Writes
<1> QED
  BY <1>1, <1>2, <1>3, <1>4 DEF Start

LEMMA FinishWrites ==
  ASSUME NEW h \in Handlers, Finish(h) PROVE Writes(h)
<1>1. Idle \in Handler /\ Knows(Idle)
  BY DEF Handler, Idle, Steps, Knows, Paying, PayingSteps, StatusSteps
<1>2. Follows(handler[h], Idle)
  BY PaymentsAssumption DEF Idle, Follows, BookingStatuses
<1> QED
  BY <1>1, <1>2 DEF Finish, Writes

\* A handler that goes on with what it does.
LEMMA GoOnWrites ==
  ASSUME NEW h \in Handlers, handler[h].at # "idle", NEW e \in Handler, Goto(h, e), Knows(e),
         e.for = handler[h].for, e.ask = handler[h].ask, e.amount = handler[h].amount,
         e.had = handler[h].had, e.at # "verify.claim", e.sum \in {handler[h].sum, SumOf(Succeeded)},
         e.to = "CONFIRMED" => handler[h].to = "CONFIRMED" \/ handler[h].sum >= Total,
         IF handler[h].at = "pay.insert" /\ e.payment # None THEN payment[e.payment].status = "ABSENT"
         ELSE e.payment = handler[h].payment
  PROVE  Writes(h)
BY DEF Writes, Follows

LEMMA StepWrites ==
  ASSUME MoneyWired, NEW h \in Handlers, handler[h].at # "idle", NEW step, Step(h, step),
         \/ step = "pay.insert" /\ handler[h].at = "verify.claim"
         \/ step \in PayingSteps /\ Paying(handler[h]) /\ handler[h].for \in {"verify", "desk"}
         \/ step \in {"verify.write", "verify.release"} /\ Paying(handler[h]) /\ handler[h].for = "verify"
         \/ step = "verify.release" /\ handler[h].at = "pay.insert" /\ handler[h].for = "verify"
         \/ step = "status.write" /\ handler[h].at = "status.read"
  PROVE  Writes(h)
<1> DEFINE e == [handler[h] EXCEPT !.at = step]
<1>0. handler[h] \in Handler /\ Knows(handler[h])
  BY DEF MoneyWired, TypeOK
<1>1. /\ e \in Handler /\ e.at = step /\ e.for = handler[h].for /\ e.ask = handler[h].ask
      /\ e.amount = handler[h].amount /\ e.had = handler[h].had /\ e.payment = handler[h].payment
      /\ e.to = handler[h].to /\ e.sum = handler[h].sum
  BY <1>0 DEF Handler, Steps, PayingSteps
<1>2. Goto(h, e)
  BY DEF Step
<1> HIDE DEF e
<1>3. Knows(e) /\ e.at # "verify.claim"
  BY <1>0, <1>1 DEF Knows, Paying, PayingSteps, StatusSteps
<1>4. handler[h].at = "pay.insert" => e.payment = None
  BY <1>0, <1>1 DEF Knows, Paying, PayingSteps, StatusSteps
<1> QED
  BY <1>1, <1>2, <1>3, <1>4, GoOnWrites

\* A handler on its way to a status of the booking.
LEMMA TowardsWrites ==
  ASSUME MoneyWired, NEW h \in Handlers, handler[h].at \notin {"idle", "pay.insert"}, NEW to \in BookingStatuses,
         Paying(handler[h]) <=> handler[h].for \in {"verify", "desk"},
         to = "CONFIRMED" => handler[h].sum >= Total,
         Goto(h, [handler[h] EXCEPT !.at = "status.read", !.to = to])
  PROVE  Writes(h)
<1> DEFINE e == [handler[h] EXCEPT !.at = "status.read", !.to = to]
<1>0. handler[h] \in Handler /\ Knows(handler[h])
  BY DEF MoneyWired, TypeOK
<1>1. /\ e \in Handler /\ e.at = "status.read" /\ e.for = handler[h].for /\ e.ask = handler[h].ask
      /\ e.amount = handler[h].amount /\ e.had = handler[h].had /\ e.payment = handler[h].payment
      /\ e.to = to /\ e.sum = handler[h].sum
  BY <1>0 DEF Handler, Steps
<1>2. Goto(h, e)
  OBVIOUS
<1> HIDE DEF e
<1>3. Knows(e)
  BY <1>0, <1>1 DEF Knows, Paying, PayingSteps, StatusSteps
<1> QED
  BY <1>1, <1>2, <1>3, GoOnWrites

LEMMA MovedWrites ==
  ASSUME MoneyWired, NEW h \in Handlers, handler[h].at \in StatusSteps \cup {"totals.write"},
         Moved(h) \/ Recorded(h)
  PROVE  Writes(h)
<1>0. handler[h].at \notin {"idle", "pay.insert"} /\ (Paying(handler[h]) <=> handler[h].for \in {"verify", "desk"})
  BY DEF MoneyWired, Knows, Paying, PayingSteps, StatusSteps
<1>1. CASE Recorded(h)
  <2>1. CASE Refused(h)
    BY <1>0, <2>1, FinishWrites, StepWrites DEF Refused, PayingSteps
  <2>2. CASE IF handler[h].for = "verify" THEN Step(h, "verify.write") ELSE Finish(h)
    BY <1>0, <2>2, FinishWrites, StepWrites
  <2> QED
    BY <1>1, <2>1, <2>2 DEF Recorded
<1>2. CASE Goto(h, [handler[h] EXCEPT !.at = "status.read", !.to = "AWAITING_PAYMENT"])
  BY <1>0, <1>2, TowardsWrites DEF BookingStatuses
<1> QED
  BY <1>1, <1>2 DEF Moved

LEMMA ProceedWrites == ASSUME MoneyWired, NEW h \in Handlers, Proceed(h) PROVE Writes(h)
<1>0. handler[h] \in Handler /\ Knows(handler[h])
  BY DEF MoneyWired, TypeOK
<1>1. CASE CreateInsert(h)
  <2> DEFINE e == [Idle EXCEPT !.at = "ask.route", !.for = "request"]
  <2>1. e \in Handler /\ Knows(e) /\ Follows(handler[h], e)
    BY PaymentsAssumption DEF Handler, Idle, Steps, Knows, Follows, Paying, PayingSteps, StatusSteps,
      BookingStatuses
  <2>2. Goto(h, e)
    BY <1>1 DEF CreateInsert
  <2> HIDE DEF e
  <2> QED
    BY <2>1, <2>2 DEF Writes
<1>2. CASE CreateRoute(h)
  <2>1. handler[h].at = "ask.route" /\ handler[h].for = "request" /\ ~Paying(handler[h])
    BY <1>0, <1>2 DEF CreateRoute, At, Knows, Paying, PayingSteps, StatusSteps
  <2> QED
    BY <1>2, <2>1, FinishWrites, TowardsWrites DEF CreateRoute, BookingStatuses
<1>3. CASE VerifyClaim(h)
  BY <1>3, FinishWrites, StepWrites DEF VerifyClaim, At
<1>4. CASE VerifyRelease(h) \/ VerifyWrite(h) \/ NotFoundWrite(h)
  BY <1>4, FinishWrites DEF VerifyRelease, VerifyWrite, NotFoundWrite
<1>5. CASE PayInsert(h)
  <2>1. PICK m \in Payments : /\ Goto(h, [handler[h] EXCEPT !.at = "pay.charge", !.payment = m])
                              /\ payment[m].status = "ABSENT"
    BY <1>5 DEF PayInsert
  <2> DEFINE e == [handler[h] EXCEPT !.at = "pay.charge", !.payment = m]
  <2>2. /\ e \in Handler /\ e.at = "pay.charge" /\ e.for = handler[h].for /\ e.ask = handler[h].ask
        /\ e.amount = handler[h].amount /\ e.had = handler[h].had /\ e.payment = m
        /\ e.to = handler[h].to /\ e.sum = handler[h].sum
    BY <1>0 DEF Handler, Steps
  <2>3. m # None /\ handler[h].at = "pay.insert"
    BY <1>5, PaymentsAssumption DEF PayInsert, At
  <2> HIDE DEF e
  <2>4. Knows(e)
    BY <1>0, <2>2, <2>3 DEF Knows, Paying, PayingSteps, StatusSteps
  <2> QED
    BY <2>1, <2>2, <2>3, <2>4, GoOnWrites DEF e
<1>6. ASSUME handler[h].at \in PayingSteps
      PROVE  handler[h].at # "idle" /\ Paying(handler[h]) /\ handler[h].for \in {"verify", "desk"}
  BY <1>0, <1>6 DEF Knows, Paying, PayingSteps
<1>7. CASE PayCharge(h)
  BY <1>6, <1>7, StepWrites DEF PayCharge, At, PayingSteps
<1>8. CASE PayFail(h)
  BY <1>6, <1>8, FinishWrites, StepWrites DEF PayFail, Rethrown, At, PayingSteps
<1>9. CASE TotalsSum(h)
  <2>0. SumOf(Succeeded) \in Nat
    BY SumOfType DEF MoneyWired, TypeOK, Succeeded
  <2> DEFINE e == [handler[h] EXCEPT !.at = "totals.write", !.sum = SumOf(Succeeded)]
  <2>1. /\ e \in Handler /\ e.at = "totals.write" /\ e.for = handler[h].for /\ e.ask = handler[h].ask
        /\ e.amount = handler[h].amount /\ e.had = handler[h].had /\ e.payment = handler[h].payment
        /\ e.to = handler[h].to
        /\ e.sum = SumOf(Succeeded)
    BY <1>0, <2>0 DEF Handler, Steps
  <2>2. Goto(h, e) /\ handler[h].at = "totals.sum"
    BY <1>9 DEF TotalsSum, At
  <2> HIDE DEF e
  <2>3. Knows(e)
    BY <1>0, <2>1, <2>2 DEF Knows, Paying, PayingSteps, StatusSteps
  <2> QED
    BY <2>1, <2>2, <2>3, GoOnWrites
<1>10. CASE TotalsWrite(h)
  <2>1. handler[h].at = "totals.write"
    BY <1>10 DEF TotalsWrite, At
  <2>2. handler[h].at \notin {"idle", "pay.insert"} /\ Paying(handler[h]) /\ handler[h].for \in {"verify", "desk"}
    BY <1>6, <2>1 DEF PayingSteps
  <2>3. /\ AdvanceTo(handler[h].sum) \in BookingStatuses
        /\ AdvanceTo(handler[h].sum) = "CONFIRMED" => handler[h].sum >= Total
    BY DEF AdvanceTo, BookingStatuses
  <2> QED
    BY <1>10, <2>1, <2>2, <2>3, MovedWrites, TowardsWrites DEF TotalsWrite
<1>11. CASE StatusRead(h)
  <2>1. handler[h].at = "status.read"
    BY <1>11 DEF StatusRead, At
  <2>2. handler[h].for \in {"verify", "desk"} => Paying(handler[h])
    BY <2>1 DEF Paying, StatusSteps
  <2>3. CASE Moved(h)
    BY <2>1, <2>3, MovedWrites DEF StatusSteps
  <2>4. CASE Step(h, "status.write")
    BY <2>1, <2>4, StepWrites
  <2>5. CASE Refused(h)
    BY <2>1, <2>2, <2>5, StepWrites, FinishWrites DEF Refused, PayingSteps
  <2> QED
    BY <1>11, <2>3, <2>4, <2>5 DEF StatusRead
<1>12. CASE StatusWrite(h)
  <2>1. handler[h].at = "status.write"
    BY <1>12 DEF StatusWrite, At
  <2>2. handler[h].for \in {"verify", "desk"} => Paying(handler[h])
    BY <2>1 DEF Paying, StatusSteps
  <2>3. CASE Moved(h)
    BY <2>1, <2>3, MovedWrites DEF StatusSteps
  <2>4. CASE Refused(h)
    BY <2>1, <2>2, <2>4, StepWrites, FinishWrites DEF Refused, PayingSteps
  <2> QED
    BY <1>12, <2>3, <2>4 DEF StatusWrite
<1> QED
  BY <1>1, <1>2, <1>3, <1>4, <1>5, <1>7, <1>8, <1>9, <1>10, <1>11, <1>12 DEF Proceed

LEMMA ThrowsWrites == ASSUME MoneyWired, NEW h \in Handlers, PayThrows(h) PROVE Writes(h)
<1>0. handler[h] \in Handler /\ Knows(handler[h])
  BY DEF MoneyWired, TypeOK
<1>1. CASE handler[h].at = "pay.insert" /\ Rethrown(h)
  BY <1>1, StepWrites, FinishWrites DEF Rethrown
<1>2. CASE handler[h].at = "pay.fail" /\ Rethrown(h)
  BY <1>0, <1>2, FinishWrites, StepWrites DEF Rethrown, Knows, Paying, PayingSteps
<1>3. CASE /\ handler[h].at \in {"pay.charge", "totals.sum", "totals.write", "status.read", "status.write"}
           /\ Step(h, "pay.fail")
  BY <1>0, <1>3, StepWrites DEF PayThrows, Paying, PayingSteps, StatusSteps
<1> QED
  BY <1>1, <1>2, <1>3 DEF PayThrows

\* Every step of a handler is one of these, and nothing else moves a handler.
Acts(h) == Start(h) \/ Proceed(h) \/ PayThrows(h) \/ Crash(h)

LEMMA HandlersStep ==
  ASSUME MoneyWired, [Next]_vars
  PROVE  /\ handler' \in [Handlers -> Handler]
         /\ \A h \in Handlers : Knows(handler'[h])
         /\ \A h \in Handlers : handler'[h] = handler[h] \/ (Follows(handler[h], handler'[h]) /\ Acts(h))
         /\ \A h, i \in Handlers : handler'[h] # handler[h] /\ handler'[i] # handler[i] => h = i
<1>1. handler \in [Handlers -> Handler] /\ SumOf(Succeeded) \in Nat
  BY SumOfType DEF MoneyWired, TypeOK, Succeeded
<1>2. CASE UNCHANGED handler
  BY <1>1, <1>2 DEF MoneyWired
<1>3. ASSUME NEW h \in Handlers, Acts(h)
      PROVE  Writes(h)
  <2>1. CASE Start(h)
    BY <2>1, BeginWrites DEF MoneyWired
  <2>2. CASE Proceed(h)
    BY <1>1, <2>2, ProceedWrites
  <2>3. CASE Crash(h)
    BY <2>3, FinishWrites DEF Crash
  <2>4. CASE PayThrows(h)
    BY <2>4, ThrowsWrites
  <2> QED
    BY <1>3, <2>1, <2>2, <2>3, <2>4 DEF Acts
<1>4. ASSUME NEW h \in Handlers, Writes(h), Acts(h)
      PROVE  /\ handler' \in [Handlers -> Handler]
             /\ \A i \in Handlers : Knows(handler'[i])
             /\ \A i \in Handlers : handler'[i] = handler[i] \/ (Follows(handler[i], handler'[i]) /\ Acts(i))
             /\ \A i, j \in Handlers : handler'[i] # handler[i] /\ handler'[j] # handler[j] => i = j
  <2>1. PICK e \in Handler : Goto(h, e) /\ Knows(e) /\ Follows(handler[h], e)
    BY <1>4 DEF Writes
  <2>2. \A i \in Handlers : handler'[i] = (IF i = h THEN e ELSE handler[i])
    BY <1>1, <2>1 DEF Goto
  <2>3. handler' \in [Handlers -> Handler]
    BY <1>1, <2>1 DEF Goto
  <2> QED
    BY <1>4, <2>1, <2>2, <2>3 DEF MoneyWired
<1>5. UNCHANGED handler \/ \E h \in Handlers : Acts(h)
  BY DEF Next, ReportPayment, vars, Acts
<1> QED
  BY <1>2, <1>3, <1>4, <1>5

-----------------------------------------------------------------------------
\* What becomes of the row of request p: it is opened, keeps its status, moves
\* between the open ones, or says what was received.
RowMoves(p, row) ==
  \/ /\ ask[p].status = "ABSENT" /\ row.status = "REQUESTED"
     /\ row.amount > 0 /\ row.received = ask[p].received /\ Unclashed(p, row.amount)
  \/ row.status = ask[p].status /\ row.amount = ask[p].amount /\ row.received = ask[p].received
  \/ /\ ask[p].status \in Active /\ row.status \in Active
     /\ row.amount = ask[p].amount /\ row.received = ask[p].received
  \/ /\ row.amount = ask[p].amount
     /\ row.status = IF row.received >= row.amount THEN "PAID" ELSE "PARTIALLY_PAID"
     /\ row.status = "PAID" \/ Unclashed(p, row.amount)

RowWritten == \E p \in Asks, row \in Request : ask' = [ask EXCEPT ![p] = row] /\ RowMoves(p, row)

LEMMA AskStep == ASSUME MoneyWired, [Next]_vars PROVE UNCHANGED ask \/ RowWritten
<1>0. AskRows /\ ask \in [Asks -> Request]
  BY DEF MoneyWired, AskRows
<1>h. handler \in [Handlers -> Handler]
  BY DEF MoneyWired, TypeOK
<1>k. \A h \in Handlers : Knows(handler[h]) /\ handler[h].amount \in Nat /\ handler[h].had \in Nat
  BY <1>h DEF MoneyWired, Handler
<1>r. ASSUME NEW p \in Asks, NEW row \in Request, ask' = [ask EXCEPT ![p] = row], RowMoves(p, row)
      PROVE  RowWritten
  BY <1>r DEF RowWritten
<1>1. ASSUME NEW p \in Asks, ReportPayment(p) PROVE RowWritten
  <2> DEFINE row == [ask[p] EXCEPT !.status = "REPORTED", !.claimed = FALSE]
  <2>1. row \in Request
    BY <1>0 DEF Request, AskStatuses
  <2>2. ask' = [ask EXCEPT ![p] = row]
    BY <1>1 DEF ReportPayment
  <2>3. RowMoves(p, row)
    BY <1>0, <1>1 DEF ReportPayment, RowMoves, Active, Request
  <2> HIDE DEF row
  <2> QED
    BY <1>r, <2>1, <2>2, <2>3
<1>2. ASSUME NEW h \in Handlers, CreateInsert(h) PROVE UNCHANGED ask \/ RowWritten
  <2> SUFFICES ASSUME ask' # ask PROVE RowWritten
    OBVIOUS
  <2>1. PICK p \in Asks : /\ ask[p].status = "ABSENT" /\ Unclashed(p, handler[h].amount)
                          /\ ask' = [ask EXCEPT ![p] = [@ EXCEPT !.status = "REQUESTED",
                                                                 !.amount = handler[h].amount]]
    BY <1>2 DEF CreateInsert
  <2> DEFINE row == [ask[p] EXCEPT !.status = "REQUESTED", !.amount = handler[h].amount]
  <2>2. row \in Request /\ row.status = "REQUESTED" /\ row.amount = handler[h].amount
        /\ row.received = ask[p].received
    BY <1>0, <1>k DEF Request, AskStatuses
  <2>3. handler[h].amount > 0
    BY <1>2, <1>k DEF CreateInsert, At, Knows
  <2>4. ask' = [ask EXCEPT ![p] = row]
    BY <2>1
  <2>5. RowMoves(p, row)
    BY <2>1, <2>2, <2>3 DEF RowMoves
  <2> HIDE DEF row
  <2> QED
    BY <1>r, <2>2, <2>4, <2>5
<1>3. ASSUME NEW h \in Handlers, NEW p \in Asks, NEW c \in BOOLEAN,
             ask' = [ask EXCEPT ![p] = [ask[p] EXCEPT !.claimed = c]]
      PROVE  RowWritten
  <2> DEFINE row == [ask[p] EXCEPT !.claimed = c]
  <2>1. row \in Request /\ RowMoves(p, row)
    BY <1>0 DEF Request, RowMoves
  <2>2. ask' = [ask EXCEPT ![p] = row]
    BY <1>3
  <2> HIDE DEF row
  <2> QED
    BY <1>r, <2>1, <2>2
<1>4. ASSUME NEW h \in Handlers, VerifyClaim(h) \/ VerifyRelease(h) PROVE UNCHANGED ask \/ RowWritten
  <2>1. PICK p \in Asks : p = handler[h].ask
    BY <1>4, <1>k DEF VerifyClaim, VerifyRelease, At, Knows
  <2>2. UNCHANGED ask \/ \E c \in BOOLEAN : ask' = [ask EXCEPT ![p] = [ask[p] EXCEPT !.claimed = c]]
    BY <1>0, <1>4, <2>1 DEF VerifyClaim, VerifyRelease, Released
  <2> QED
    BY <1>3, <2>1, <2>2
<1>5. ASSUME NEW h \in Handlers, VerifyWrite(h) PROVE UNCHANGED ask \/ RowWritten
  <2> SUFFICES ASSUME ask' # ask PROVE RowWritten
    OBVIOUS
  <2>1. PICK p \in Asks : p = handler[h].ask
    BY <1>5, <1>k DEF VerifyWrite, At, Knows
  <2> DEFINE row == Verified(p, handler[h].had, handler[h].amount)
  <2>2. row.status = "PAID" \/ Unclashed(p, row.amount)
    BY <1>5, <2>1 DEF VerifyWrite
  <2>3. ask' = [ask EXCEPT ![p] = row]
    BY <1>5, <2>1 DEF VerifyWrite
  <2>4. handler[h].had + handler[h].amount \in Nat
    BY <1>k
  <2>5. /\ row \in Request /\ row.amount = ask[p].amount
        /\ row.status = IF row.received >= row.amount THEN "PAID" ELSE "PARTIALLY_PAID"
    BY <1>0, <2>4 DEF Verified, Request, AskStatuses
  <2>6. RowMoves(p, row)
    BY <2>2, <2>5 DEF RowMoves
  <2> HIDE DEF row
  <2> QED
    BY <1>r, <2>3, <2>5, <2>6
<1>6. ASSUME NEW h \in Handlers, NotFoundWrite(h) PROVE UNCHANGED ask \/ RowWritten
  <2> SUFFICES ASSUME ask' # ask PROVE RowWritten
    OBVIOUS
  <2>1. PICK p \in Asks : p = handler[h].ask
    BY <1>6, <1>k DEF NotFoundWrite, At, Knows
  <2>2. PICK s \in {"PARTIALLY_PAID", "REQUESTED"} :
          /\ ask' = [ask EXCEPT ![p] = [ask[p] EXCEPT !.status = s, !.claimed = FALSE]]
          /\ ask[p].status = "REPORTED"
    BY <1>0, <1>6, <2>1 DEF NotFoundWrite
  <2> DEFINE row == [ask[p] EXCEPT !.status = s, !.claimed = FALSE]
  <2>3. row \in Request
    BY <1>0 DEF Request, AskStatuses
  <2>4. RowMoves(p, row)
    BY <1>0, <2>2 DEF RowMoves, Active, Request
  <2>5. ask' = [ask EXCEPT ![p] = row]
    BY <2>2
  <2> HIDE DEF row
  <2> QED
    BY <1>r, <2>3, <2>4, <2>5
<1>7. ASSUME NEW h \in Handlers,
             \/ Start(h) \/ Crash(h) \/ CreateRoute(h) \/ PayInsert(h) \/ PayCharge(h) \/ PayFail(h)
             \/ PayThrows(h) \/ TotalsSum(h) \/ TotalsWrite(h) \/ StatusRead(h) \/ StatusWrite(h)
      PROVE  UNCHANGED ask
  BY <1>7 DEF Start, CreateRead, DeskPayment, NotFoundRead, VerifyRead, StaffMove, Crash, PayThrows, CreateRoute,
    PayInsert, PayCharge, PayFail, TotalsSum, TotalsWrite, StatusRead, StatusWrite
<1> QED
  BY <1>1, <1>2, <1>4, <1>5, <1>6, <1>7 DEF Next, Proceed, vars

\* The row of payment m as a step may leave it.
PaymentMoves(h, m, row) ==
  \/ /\ PayInsert(h) /\ payment[m].status = "ABSENT" /\ handler'[h].payment = m
     /\ row = [status |-> "PENDING", ask |-> handler[h].ask, amount |-> handler[h].amount,
               taken |-> FALSE]
  \/ PayCharge(h) /\ m = handler[h].payment
     /\ row = [payment[m] EXCEPT !.status = "SUCCEEDED", !.taken = TRUE]
  \/ PayFail(h) /\ m = handler[h].payment /\ row = [payment[m] EXCEPT !.status = "FAILED"]

LEMMA PaymentStep ==
  ASSUME MoneyWired, [Next]_vars
  PROVE  \/ UNCHANGED payment
         \/ \E h \in Handlers, m \in Payments, row \in Payment :
              payment' = [payment EXCEPT ![m] = row] /\ PaymentMoves(h, m, row)
<1>0. payment \in [Payments -> Payment] /\ handler \in [Handlers -> Handler] /\ \A h \in Handlers : Knows(handler[h])
  BY DEF MoneyWired, TypeOK
<1> SUFFICES ASSUME payment' # payment
             PROVE  \E h \in Handlers, m \in Payments, row \in Payment :
                      payment' = [payment EXCEPT ![m] = row] /\ PaymentMoves(h, m, row)
  OBVIOUS
<1>1. ASSUME NEW h \in Handlers, PayInsert(h)
      PROVE  \E m \in Payments, row \in Payment : payment' = [payment EXCEPT ![m] = row] /\ PaymentMoves(h, m, row)
  <2>1. PICK m \in Payments :
          /\ payment[m].status = "ABSENT"
          /\ payment' = [payment EXCEPT ![m] = [status |-> "PENDING", ask |-> handler[h].ask,
                                                amount |-> handler[h].amount, taken |-> FALSE]]
          /\ Goto(h, [handler[h] EXCEPT !.at = "pay.charge", !.payment = m])
    BY <1>1 DEF PayInsert
  <2> DEFINE row == [status |-> "PENDING", ask |-> handler[h].ask, amount |-> handler[h].amount,
                     taken |-> FALSE]
  <2>2. row \in Payment
    BY <1>0 DEF Payment, Handler, PaymentStatuses
  <2>3. handler'[h].payment = m
    BY <1>0, <2>1 DEF Goto, Handler
  <2> QED
    BY <1>1, <2>1, <2>2, <2>3 DEF PaymentMoves
<1>2. ASSUME NEW h \in Handlers, PayCharge(h) \/ PayFail(h)
      PROVE  \E m \in Payments, row \in Payment : payment' = [payment EXCEPT ![m] = row] /\ PaymentMoves(h, m, row)
  <2>1. PICK m \in Payments : m = handler[h].payment
    <3>1. handler[h] \in Handler /\ handler[h].payment # None
      BY <1>0, <1>2 DEF PayCharge, PayFail, At, Knows, Paying, PayingSteps
    <3> QED
      BY <3>1 DEF Handler
  <2>2. CASE PayCharge(h)
    <3>1. payment' = [payment EXCEPT ![m] = [payment[m] EXCEPT !.status = "SUCCEEDED", !.taken = TRUE]]
      BY <2>1, <2>2 DEF PayCharge
    <3>2. [payment[m] EXCEPT !.status = "SUCCEEDED", !.taken = TRUE] \in Payment
      BY <1>0 DEF Payment, PaymentStatuses
    <3> QED
      BY <2>1, <2>2, <3>1, <3>2 DEF PaymentMoves
  <2>3. CASE PayFail(h)
    <3>1. payment' = [payment EXCEPT ![m] = [payment[m] EXCEPT !.status = "FAILED"]]
      BY <2>1, <2>3 DEF PayFail
    <3>2. [payment[m] EXCEPT !.status = "FAILED"] \in Payment
      BY <1>0 DEF Payment, PaymentStatuses
    <3> QED
      BY <2>1, <2>3, <3>1, <3>2 DEF PaymentMoves
  <2> QED
    BY <1>2, <2>2, <2>3
<1>3. \E h \in Handlers : PayInsert(h) \/ PayCharge(h) \/ PayFail(h)
  BY DEF Next, Proceed, vars, Start, CreateRead, DeskPayment, NotFoundRead, VerifyRead, StaffMove, Crash, PayThrows,
    CreateInsert, CreateRoute, VerifyClaim, VerifyRelease, VerifyWrite, NotFoundWrite, ReportPayment,
    TotalsSum, TotalsWrite, StatusRead, StatusWrite
<1> QED
  BY <1>1, <1>2, <1>3

\* What the booking says comes from a sum or from a move.
LEMMA BookingStep ==
  ASSUME MoneyWired, [Next]_vars
  PROVE  \/ UNCHANGED booking
         \/ \E h \in Handlers : TotalsWrite(h) /\ booking' = [booking EXCEPT !.paid = handler[h].sum]
         \/ \E h \in Handlers : StatusWrite(h) /\ booking' = [booking EXCEPT !.status = handler[h].to]
<1>1. \/ UNCHANGED booking
      \/ \E h \in Handlers : TotalsWrite(h) \/ StatusWrite(h)
  <2>1. CASE UNCHANGED vars
    BY <2>1 DEF vars
  <2>2. CASE \E p \in Asks : ReportPayment(p)
    BY <2>2 DEF ReportPayment
  <2>3. ASSUME NEW h \in Handlers, Start(h) \/ PayThrows(h) \/ Crash(h)
        PROVE  UNCHANGED booking
    BY <2>3 DEF Start, CreateRead, DeskPayment, NotFoundRead, VerifyRead, StaffMove, PayThrows, Crash
  <2>4. ASSUME NEW h \in Handlers, Proceed(h)
        PROVE  UNCHANGED booking \/ TotalsWrite(h) \/ StatusWrite(h)
    BY <2>4 DEF Proceed, CreateInsert, CreateRoute, VerifyClaim, VerifyRelease, VerifyWrite, NotFoundWrite,
      PayInsert, PayCharge, PayFail, TotalsSum, StatusRead
  <2> QED
    BY <2>1, <2>2, <2>3, <2>4 DEF Next
<1> QED
  BY <1>1 DEF TotalsWrite, StatusWrite

LEMMA BooksStep ==
  ASSUME MoneyWired, [Next]_vars
  PROVE  /\ booking' \in [status : BookingStatuses, paid : Nat] /\ payment' \in [Payments -> Payment]
         /\ Remembered'
<1>0. /\ booking \in [status : BookingStatuses, paid : Nat] /\ payment \in [Payments -> Payment]
      /\ \A h \in Handlers : handler[h] \in Handler /\ Knows(handler[h])
  BY DEF MoneyWired, TypeOK
<1>1. \A h \in Handlers : handler[h].sum \in Nat /\ (StatusWrite(h) => handler[h].to \in BookingStatuses)
  BY <1>0 DEF Handler, Knows, StatusWrite, At, StatusSteps
<1>2. booking' \in [status : BookingStatuses, paid : Nat]
  BY <1>0, <1>1, BookingStep
<1>3. payment' \in [Payments -> Payment]
  BY <1>0, PaymentStep
<1>4. ASSUME UNCHANGED payment
      PROVE  Remembered'
  BY <1>4 DEF MoneyWired, Remembered
<1>5. ASSUME NEW h \in Handlers, NEW m \in Payments, NEW row \in Payment,
             payment' = [payment EXCEPT ![m] = row], PaymentMoves(h, m, row)
      PROVE  Remembered'
  <2>1. row.status # "ABSENT" /\ (row.status = "SUCCEEDED" => row.taken)
    <3>1. payment[m] \in Payment
      BY <1>0
    <3>2. CASE row = [status |-> "PENDING", ask |-> handler[h].ask, amount |-> handler[h].amount,
                      taken |-> FALSE]
      BY <3>2
    <3>3. CASE row = [payment[m] EXCEPT !.status = "SUCCEEDED", !.taken = TRUE]
      BY <3>1, <3>3 DEF Payment
    <3>4. CASE row = [payment[m] EXCEPT !.status = "FAILED"]
      BY <3>1, <3>4 DEF Payment
    <3> QED
      BY <1>5, <3>2, <3>3, <3>4 DEF PaymentMoves
  <2> QED
    BY <1>0, <1>5, <2>1 DEF MoneyWired, Remembered
<1> QED
  BY <1>2, <1>3, <1>4, <1>5, PaymentStep

LEMMA MoneyWiredStep == MoneyWired /\ [Next]_vars => MoneyWired'
<1> SUFFICES ASSUME MoneyWired, [Next]_vars PROVE MoneyWired'
  OBVIOUS
<1>0. /\ booking' \in [status : BookingStatuses, paid : Nat] /\ payment' \in [Payments -> Payment]
      /\ Remembered'
  BY BooksStep
<1>1. CASE UNCHANGED ask
  BY <1>0, <1>1, HandlersStep DEF MoneyWired, TypeOK, AskRows
<1>2. CASE RowWritten
  <2>1. PICK p \in Asks, row \in Request : ask' = [ask EXCEPT ![p] = row] /\ RowMoves(p, row)
    BY <1>2 DEF RowWritten
  <2>2. ask' \in [Asks -> Request] /\ \A x \in Asks : ask'[x] = (IF x = p THEN row ELSE ask[x])
    BY <2>1 DEF MoneyWired, AskRows
  <2>3. row.status = "ABSENT" => row.received = 0
    BY <2>1 DEF MoneyWired, AskRows, RowMoves, Active
  <2>4. AskRows'
    BY <2>2, <2>3 DEF MoneyWired, AskRows
  <2> QED
    BY <1>0, <2>4, HandlersStep DEF MoneyWired, TypeOK, AskRows
<1> QED
  BY <1>1, <1>2, AskStep

LEMMA StatusTellsStep ==
  MoneyWired /\ StatusTellsReceived /\ [Next]_vars => StatusTellsReceived'
<1> SUFFICES ASSUME MoneyWired, StatusTellsReceived, [Next]_vars PROVE StatusTellsReceived'
  OBVIOUS
<1>1. CASE UNCHANGED ask
  BY <1>1 DEF StatusTellsReceived
<1>2. CASE RowWritten
  <2>1. PICK p \in Asks, row \in Request : ask' = [ask EXCEPT ![p] = row] /\ RowMoves(p, row)
    BY <1>2 DEF RowWritten
  <2>2. \A x \in Asks : ask'[x] = (IF x = p THEN row ELSE ask[x])
    BY <2>1 DEF MoneyWired, AskRows
  <2>3. ask[p].received \in Nat /\ row.received \in Nat /\ row.amount \in Nat
    BY DEF MoneyWired, AskRows, Request
  <2>4. row.status # "ABSENT" => (row.status = "PAID" <=> row.received >= row.amount)
    BY <2>1, <2>3 DEF StatusTellsReceived, RowMoves, Active, MoneyWired, AskRows
  <2> QED
    BY <2>2, <2>4 DEF StatusTellsReceived
<1> QED
  BY <1>1, <1>2, AskStep

LEMMA OneOpenStep ==
  MoneyWired /\ OneOpenRequestPerAmount /\ [Next]_vars => OneOpenRequestPerAmount'
<1> SUFFICES ASSUME MoneyWired, OneOpenRequestPerAmount, [Next]_vars PROVE OneOpenRequestPerAmount'
  OBVIOUS
<1>1. CASE UNCHANGED ask
  BY <1>1 DEF OneOpenRequestPerAmount
<1>2. CASE RowWritten
  <2>1. PICK p \in Asks, row \in Request : ask' = [ask EXCEPT ![p] = row] /\ RowMoves(p, row)
    BY <1>2 DEF RowWritten
  <2>2. \A x \in Asks : ask'[x] = (IF x = p THEN row ELSE ask[x])
    BY <2>1 DEF MoneyWired, AskRows
  <2>3. row.status \in Active =>
          Unclashed(p, row.amount) \/ (ask[p].status \in Active /\ row.amount = ask[p].amount)
    BY <2>1 DEF RowMoves, Active
  <2>4. row.status \in Active => \A x \in Asks \ {p} : ~(ask[x].status \in Active /\ ask[x].amount = row.amount)
    BY <2>3 DEF Unclashed, OneOpenRequestPerAmount
  <2> QED
    BY <2>2, <2>4 DEF OneOpenRequestPerAmount
<1> QED
  BY <1>1, <1>2, AskStep

\* PAID means that all of it was received, and an open request is short of it,
\* however claims, verifications, failures and crashes overlap
\* (verifyPaymentRequest, paymentNotFound, reportPayment).
THEOREM StatusTells == Spec => []StatusTellsReceived
<1> DEFINE I == MoneyWired /\ StatusTellsReceived
<1>1. Init => I
  BY MoneyStart
<1>2. I /\ [Next]_vars => I'
  BY MoneyWiredStep, StatusTellsStep
<1>3. I => StatusTellsReceived
  OBVIOUS
<1> QED
  BY <1>1, <1>2, <1>3, PTL DEF Spec

\* No two open requests ask one amount: the unique index decides about every
\* insert and every verification that opens a request again
\* (payment_requests_active_booking_amount_key).
THEOREM OneOpenRequest == Spec => []OneOpenRequestPerAmount
<1> DEFINE I == MoneyWired /\ OneOpenRequestPerAmount
<1>1. Init => I
  BY MoneyStart
<1>2. I /\ [Next]_vars => I'
  BY MoneyWiredStep, OneOpenStep
<1>3. I => OneOpenRequestPerAmount
  OBVIOUS
<1> QED
  BY <1>1, <1>2, <1>3, PTL DEF Spec

-----------------------------------------------------------------------------
\* Who is past the claim was so before the step, unless the step is the claim.
LEMMA VerifiersStay ==
  ASSUME MoneyWired, [Next]_vars, NEW i \in Handlers, NEW p \in Asks, Verifying(i, p)'
  PROVE  Verifying(i, p) \/ (VerifyClaim(i) /\ handler[i].ask = p)
<1>0. handler \in [Handlers -> Handler]
  BY DEF MoneyWired, TypeOK
<1>1. CASE handler'[i] = handler[i]
  BY <1>1 DEF Verifying
<1>2. CASE handler'[i] # handler[i]
  <2>1. handler[i].for = "verify" /\ handler[i].ask = p /\ handler[i].at # "idle"
    BY <1>2, HandlersStep DEF Follows, Verifying
  <2>2. SUFFICES ASSUME handler[i].at = "verify.claim" PROVE VerifyClaim(i)
    BY <2>1 DEF Verifying
  <2>3. \A h \in Handlers : \A e : Goto(h, e) /\ h # i => handler'[i] = handler[i]
    BY <1>0 DEF Goto
  <2>4. handler'[i] # Idle
    BY DEF Verifying, Idle
  <2>5. \A e : Goto(i, e) => handler'[i] = e
    BY <1>0 DEF Goto
  <2>6. PICK h \in Handlers : Acts(h)
    BY <1>2 DEF Next, ReportPayment, vars, Acts
  <2>7. \E e : Goto(h, e)
    BY <2>6 DEF Acts, Start, Proceed, Crash, PayThrows, CreateRead, DeskPayment, NotFoundRead,
      VerifyRead, StaffMove, CreateInsert, CreateRoute, VerifyClaim, VerifyRelease, VerifyWrite,
      NotFoundWrite, PayInsert, PayCharge, PayFail, TotalsSum, TotalsWrite, StatusRead, StatusWrite,
      Finish, Step, Moved, Recorded, Refused, Rethrown
  <2>8. h = i
    BY <1>2, <2>3, <2>7
  <2>9. ~Start(i) /\ ~Crash(i) /\ ~PayThrows(i)
    BY <2>2, <2>4, <2>5 DEF Start, Crash, PayThrows, CreateRead, DeskPayment, NotFoundRead, VerifyRead, StaffMove,
      At, Finish
  <2> QED
    BY <2>2, <2>6, <2>8, <2>9 DEF Acts, Proceed, At, CreateInsert, CreateRoute, VerifyRelease, VerifyWrite,
      NotFoundWrite, PayInsert, PayCharge, PayFail, TotalsSum, TotalsWrite, StatusRead, StatusWrite
<1> QED
  BY <1>1, <1>2

\* Nothing but its own verification takes a claim away from a request.
LEMMA ClaimsStay ==
  ASSUME "notfound" \notin Mix, MoneyWired, ClaimsHeld, OneVerifier, [Next]_vars,
         NEW i \in Handlers, NEW p \in Asks, Verifying(i, p), Verifying(i, p)'
  PROVE  ask'[p].claimed /\ ask'[p].status = "REPORTED"
<1>0. ask \in [Asks -> Request] /\ \A h \in Handlers : Knows(handler[h])
  BY DEF MoneyWired, AskRows
<1>h. handler \in [Handlers -> Handler]
  BY DEF MoneyWired, TypeOK
<1>1. ask[p].claimed /\ ask[p].status = "REPORTED"
  BY DEF ClaimsHeld
<1>2. SUFFICES ASSUME ask'[p] # ask[p] PROVE FALSE
  BY <1>1
<1>3. \A x \in Asks : ~ReportPayment(x)
  BY <1>0, <1>1, <1>2 DEF ReportPayment
<1>4. ASSUME NEW h \in Handlers, CreateInsert(h) PROVE FALSE
  BY <1>0, <1>1, <1>2, <1>4 DEF CreateInsert
<1>5. ASSUME NEW h \in Handlers, VerifyClaim(h) PROVE FALSE
  <2>1. handler[h].ask = p /\ Claimable(p)
    BY <1>0, <1>2, <1>5 DEF VerifyClaim
  <2> QED
    BY <1>1, <2>1 DEF Claimable
<1>6. ASSUME NEW h \in Handlers, VerifyRelease(h) \/ VerifyWrite(h) PROVE FALSE
  <2>1. handler[h].ask = p /\ handler'[h] = Idle
    BY <1>0, <1>2, <1>6, <1>h DEF VerifyRelease, VerifyWrite, Finish, Goto
  <2>2. Verifying(h, p)
    BY <1>0, <1>6, <2>1 DEF VerifyRelease, VerifyWrite, At, Knows, Verifying
  <2>3. h = i
    BY <2>2 DEF OneVerifier
  <2> QED
    BY <2>1, <2>3 DEF Verifying, Idle
<1>7. ASSUME NEW h \in Handlers, NotFoundWrite(h) PROVE FALSE
  BY <1>0, <1>7 DEF NotFoundWrite, At, Knows
<1>8. ASSUME NEW h \in Handlers,
             \/ Start(h) \/ Crash(h) \/ CreateRoute(h) \/ PayInsert(h) \/ PayCharge(h) \/ PayFail(h)
             \/ PayThrows(h) \/ TotalsSum(h) \/ TotalsWrite(h) \/ StatusRead(h) \/ StatusWrite(h)
      PROVE  FALSE
  BY <1>2, <1>8 DEF Start, CreateRead, DeskPayment, NotFoundRead, VerifyRead, StaffMove, Crash, PayThrows,
    CreateRoute, PayInsert, PayCharge, PayFail, TotalsSum, TotalsWrite, StatusRead, StatusWrite
<1> QED
  BY <1>2, <1>3, <1>4, <1>5, <1>6, <1>7, <1>8 DEF Next, Proceed, vars

\* The claim is there to be taken only while nobody is past it.
LEMMA ClaimTaken ==
  ASSUME MoneyWired, ClaimsHeld, NEW h \in Handlers, NEW p \in Asks, VerifyClaim(h),
         handler[h].ask = p, Verifying(h, p)'
  PROVE  /\ ask'[p].claimed /\ ask'[p].status = "REPORTED"
         /\ \A i \in Handlers : ~Verifying(i, p)
<1>0. ask \in [Asks -> Request]
  BY DEF MoneyWired, AskRows
<1>h. handler \in [Handlers -> Handler]
  BY DEF MoneyWired, TypeOK
<1>1. Claimable(p) /\ ask' = [ask EXCEPT ![p].claimed = TRUE]
  BY <1>h DEF VerifyClaim, Finish, Goto, Verifying, Idle
<1> QED
  BY <1>0, <1>1 DEF Claimable, ClaimsHeld, Request

LEMMA ClaimsStep ==
  ASSUME "notfound" \notin Mix, MoneyWired, ClaimsHeld, OneVerifier, [Next]_vars
  PROVE  ClaimsHeld' /\ OneVerifier'
<1>1. ASSUME NEW h \in Handlers, NEW p \in Asks, Verifying(h, p)'
      PROVE  ask'[p].claimed /\ ask'[p].status = "REPORTED"
  BY <1>1, VerifiersStay, ClaimsStay, ClaimTaken
<1>2. ASSUME NEW h \in Handlers, NEW i \in Handlers, NEW p \in Asks, VerifyClaim(h), VerifyClaim(i)
      PROVE  h = i
  <2>1. handler \in [Handlers -> Handler]
    BY DEF MoneyWired, TypeOK
  <2>2. handler'[h] # handler[h] /\ \A x \in Handlers \ {h} : handler'[x] = handler[x]
    BY <1>2, <2>1 DEF VerifyClaim, Step, Finish, Goto, At, Idle, Handler
  <2>3. handler'[i] # handler[i]
    BY <1>2, <2>1 DEF VerifyClaim, Step, Finish, Goto, At, Idle, Handler
  <2> QED
    BY <2>2, <2>3
<1>3. ASSUME NEW h \in Handlers, NEW i \in Handlers, NEW p \in Asks, Verifying(h, p)', Verifying(i, p)'
      PROVE  h = i
  <2>1. CASE Verifying(h, p) /\ Verifying(i, p)
    BY <2>1 DEF OneVerifier
  <2>2. CASE VerifyClaim(h) /\ handler[h].ask = p
    BY <1>2, <1>3, <2>2, ClaimTaken, VerifiersStay
  <2>3. CASE VerifyClaim(i) /\ handler[i].ask = p
    BY <1>2, <1>3, <2>3, ClaimTaken, VerifiersStay
  <2> QED
    BY <1>3, <2>1, <2>2, <2>3, VerifiersStay
<1> QED
  BY <1>1, <1>3 DEF ClaimsHeld, OneVerifier

\* "Two staff taps cannot both get past this point": of one request, at most
\* one handler is past the claim, whatever fails or dies (verifyPaymentRequest).
\* Where somebody may answer that money was not found, the claim is taken away
\* while a verification runs, and this does not hold.
THEOREM OneVerifierAtATime == ASSUME "notfound" \notin Mix PROVE Spec => []OneVerifier
<1> DEFINE I == MoneyWired /\ ClaimsHeld /\ OneVerifier
<1>1. Init => I
  BY MoneyStart
<1>2. I /\ [Next]_vars => I'
  BY MoneyWiredStep, ClaimsStep
<1>3. I => OneVerifier
  OBVIOUS
<1> QED
  BY <1>1, <1>2, <1>3, PTL DEF Spec

-----------------------------------------------------------------------------
\* The payment a handler has in hand is recorded, for what it verifies, and is
\* paid between the charge and the end of what the handler does.
InHand(h) ==
  LET m == handler[h].payment
  IN  m # None =>
        /\ payment[m].status # "ABSENT"
        /\ handler[h].at \notin {"pay.charge", "pay.fail", "verify.release"} => payment[m].status = "SUCCEEDED"
        /\ handler[h].for = "verify" =>
             payment[m].ask = handler[h].ask /\ payment[m].amount = handler[h].amount

Hands ==
  /\ \A h \in Handlers : InHand(h)
  /\ \A h, i \in Handlers : handler[h].payment # None /\ handler[h].payment = handler[i].payment => h = i

\* What was recorded for p and no handler can still undo.
Safe(p) == {m \in Linked(p) : \A h \in Handlers : handler[h].payment # m}

\* What is received of a request, now or when a verification of it began, is
\* covered by payments that stay.
Covered ==
  /\ \A p \in Asks : ask[p].received <= SumOf(Safe(p))
  /\ \A h \in Handlers : handler[h].for = "verify" => handler[h].had <= SumOf(Safe(handler[h].ask))

\* Only the handler that has a payment in hand changes it.
LEMMA OthersStay ==
  ASSUME MoneyWired, [Next]_vars, NEW m \in Payments, payment[m].status # "ABSENT",
         \A h \in Handlers : (PayCharge(h) \/ PayFail(h)) => handler[h].payment # m
  PROVE  payment'[m] = payment[m]
<1>1. CASE UNCHANGED payment
  BY <1>1
<1>2. ASSUME NEW h \in Handlers, NEW x \in Payments, NEW row \in Payment,
             payment' = [payment EXCEPT ![x] = row], PaymentMoves(h, x, row)
      PROVE  payment'[m] = payment[m]
  <2>1. x # m
    BY <1>2 DEF PaymentMoves
  <2> QED
    BY <1>2, <2>1 DEF MoneyWired, TypeOK
<1> QED
  BY <1>1, <1>2, PaymentStep

\* Nobody takes a payment in hand that is there already.
LEMMA HandsStay ==
  ASSUME MoneyWired, [Next]_vars, NEW h \in Handlers, NEW m \in Payments, handler'[h].payment = m
  PROVE  handler[h].payment = m \/ (payment[m].status = "ABSENT" /\ handler[h].at = "pay.insert")
<1>1. m # None
  BY PaymentsAssumption
<1> QED
  BY <1>1, HandlersStep DEF Follows

\* An error that finds the handler with its payment in hand.
Fails(h) == PayThrows(h) /\ \E step \in {"pay.fail", "verify.release"} : Step(h, step)

\* Where a handler that has a payment in hand goes from.
LEMMA WhereFrom ==
  ASSUME MoneyWired, [Next]_vars, NEW h \in Handlers, handler'[h] # handler[h], handler'[h].payment # None
  PROVE  /\ handler[h].at = "pay.insert" => PayInsert(h)
         /\ handler[h].at = "pay.charge" => PayCharge(h) \/ Fails(h)
         /\ handler[h].at = "pay.fail" => PayFail(h) \/ Fails(h)
         /\ handler[h].at # "verify.release"
<1>1. handler \in [Handlers -> Handler]
  BY DEF MoneyWired, TypeOK
<1>2. ~Finish(h)
  BY <1>1 DEF Finish, Goto, Idle
<1>3. Acts(h)
  BY HandlersStep
<1>4. PayThrows(h) => Fails(h) /\ handler[h].at \notin {"pay.insert", "verify.release"}
  <2> SUFFICES ASSUME PayThrows(h) PROVE Fails(h) /\ handler[h].at \notin {"pay.insert", "verify.release"}
    OBVIOUS
  <2>1. PICK step \in {"pay.fail", "verify.release"} : Step(h, step)
    BY <1>2 DEF PayThrows, Rethrown
  <2>2. handler[h].at # "verify.release"
    BY DEF PayThrows
  <2>3. ASSUME handler[h].at = "pay.insert" PROVE FALSE
    <3>1. handler[h].payment = None
      BY <2>3 DEF MoneyWired, Knows, Paying, PayingSteps, StatusSteps
    <3>2. handler'[h].payment = handler[h].payment
      BY <1>1, <2>1 DEF Step, Goto, Handler
    <3> QED
      BY <3>1, <3>2
  <2> QED
    BY <2>1, <2>2, <2>3 DEF Fails
<1>5. ~Start(h) \/ handler[h].at = "idle"
  BY DEF Start, CreateRead, DeskPayment, NotFoundRead, VerifyRead, StaffMove, At
<1>6. ASSUME Proceed(h)
      PROVE  /\ handler[h].at # "verify.release"
             /\ handler[h].at = "pay.insert" => PayInsert(h)
             /\ handler[h].at = "pay.charge" => PayCharge(h)
             /\ handler[h].at = "pay.fail" => PayFail(h)
  BY <1>2, <1>6 DEF At, Proceed, CreateInsert, CreateRoute, VerifyClaim, VerifyRelease, VerifyWrite,
    NotFoundWrite, PayInsert, PayCharge, PayFail, TotalsSum, TotalsWrite, StatusRead, StatusWrite
<1> QED
  BY <1>2, <1>3, <1>4, <1>5, <1>6 DEF Acts, Crash

LEMMA HandsStep == MoneyWired /\ Hands /\ [Next]_vars => Hands'
<1> SUFFICES ASSUME MoneyWired, Hands, [Next]_vars PROVE Hands'
  OBVIOUS
<1>0. /\ handler \in [Handlers -> Handler] /\ handler' \in [Handlers -> Handler]
      /\ payment \in [Payments -> Payment] /\ payment' \in [Payments -> Payment]
      /\ \A h \in Handlers : Knows(handler[h])
  BY HandlersStep, BooksStep DEF MoneyWired, TypeOK
<1>1. ASSUME NEW h \in Handlers, NEW i \in Handlers, handler'[h].payment # None,
             handler'[h].payment = handler'[i].payment, h # i
      PROVE  FALSE
  <2>1. PICK m \in Payments : m = handler'[h].payment
    BY <1>0, <1>1 DEF Handler
  <2>2. m # None
    BY <1>1, <2>1
  <2>3. ASSUME NEW j \in Handlers, handler[j].payment = m PROVE payment[m].status # "ABSENT"
    BY <2>2, <2>3 DEF Hands, InHand
  <2>4. handler'[h] = handler[h] \/ handler'[i] = handler[i]
    BY <1>1, HandlersStep
  <2>5. handler[h].payment = m /\ handler[i].payment = m
    BY <1>1, <2>1, <2>3, <2>4, HandsStay
  <2> QED
    BY <1>1, <2>2, <2>5 DEF Hands
<1>2. ASSUME NEW h \in Handlers, NEW m \in Payments, m = handler'[h].payment, m # None
      PROVE  /\ payment'[m].status # "ABSENT"
             /\ handler'[h].at \notin {"pay.charge", "pay.fail", "verify.release"} =>
                  payment'[m].status = "SUCCEEDED"
             /\ handler'[h].for = "verify" =>
                  payment'[m].ask = handler'[h].ask /\ payment'[m].amount = handler'[h].amount
  <2>1. CASE PayInsert(h)
    <3>1. PICK x \in Payments :
            /\ payment' = [payment EXCEPT ![x] = [status |-> "PENDING", ask |-> handler[h].ask,
                                                  amount |-> handler[h].amount, taken |-> FALSE]]
            /\ Goto(h, [handler[h] EXCEPT !.at = "pay.charge", !.payment = x])
      BY <2>1 DEF PayInsert
    <3>2. handler'[h] = [handler[h] EXCEPT !.at = "pay.charge", !.payment = x]
      BY <1>0, <3>1 DEF Goto
    <3>3. /\ handler'[h].payment = x /\ handler'[h].at = "pay.charge"
          /\ handler'[h].ask = handler[h].ask /\ handler'[h].amount = handler[h].amount
      BY <1>0, <3>2 DEF Handler
    <3> QED
      BY <1>0, <1>2, <3>1, <3>3
  <2>2. CASE handler[h].payment = m /\ (PayCharge(h) \/ PayFail(h))
    <3>1. PICK s \in {"SUCCEEDED", "FAILED"}, t \in BOOLEAN, step \in {"totals.sum", "verify.release", "idle"} :
            /\ payment' = [payment EXCEPT ![m] = [payment[m] EXCEPT !.status = s, !.taken = t]]
            /\ Step(h, step) \/ Finish(h)
            /\ step = "totals.sum" => s = "SUCCEEDED"
      <4>1. CASE PayCharge(h)
        BY <2>2, <4>1 DEF PayCharge
      <4>2. CASE PayFail(h)
        <5>1. /\ payment' = [payment EXCEPT ![m] = [payment[m] EXCEPT !.status = "FAILED",
                                                                    !.taken = payment[m].taken]]
              /\ payment[m].taken \in BOOLEAN
          BY <1>0, <2>2, <4>2 DEF PayFail, Payment
        <5> QED
          BY <2>2, <4>2, <5>1 DEF PayFail, Rethrown
      <4> QED
        BY <2>2, <4>1, <4>2
    <3>2. ~Finish(h)
      BY <1>0, <1>2 DEF Finish, Goto, Idle
    <3>3. handler'[h] = [handler[h] EXCEPT !.at = step]
      BY <1>0, <3>1, <3>2 DEF Step, Goto
    <3>4. /\ handler'[h].at = step /\ handler'[h].for = handler[h].for
          /\ handler'[h].ask = handler[h].ask /\ handler'[h].amount = handler[h].amount
      BY <1>0, <3>3 DEF Handler
    <3>5. handler'[h].at # "idle"
      BY <1>2, HandlersStep DEF Knows, Paying, PayingSteps, StatusSteps
    <3>6. payment'[m].status = s /\ payment'[m].ask = payment[m].ask /\ payment'[m].amount = payment[m].amount
      BY <1>0, <3>1 DEF Payment
    <3> QED
      BY <1>2, <2>2, <3>1, <3>4, <3>5, <3>6 DEF Hands, InHand
  <2>3. CASE handler[h].payment = m /\ ~PayCharge(h) /\ ~PayFail(h)
    <3>1. payment[m].status # "ABSENT"
      BY <1>2, <2>3 DEF Hands, InHand
    <3>2. payment'[m] = payment[m]
      BY <1>2, <2>3, <3>1, OthersStay DEF Hands
    <3>3. CASE handler'[h] = handler[h]
      BY <1>2, <2>3, <3>2, <3>3 DEF Hands, InHand
    <3>4. CASE handler'[h] # handler[h]
      <4>1. \/ handler[h].at \notin {"pay.charge", "pay.fail", "verify.release"}
            \/ handler'[h].at \in {"pay.fail", "verify.release"}
        <5>1. Fails(h) => handler'[h].at \in {"pay.fail", "verify.release"}
          BY <1>0 DEF Fails, Step, Goto, Handler
        <5> QED
          BY <1>2, <2>3, <3>4, <5>1, WhereFrom
      <4>2. handler'[h].for = handler[h].for /\ handler'[h].ask = handler[h].ask
            /\ handler'[h].amount = handler[h].amount
        BY <1>2, <3>4, HandlersStep DEF Follows
      <4> QED
        BY <1>2, <2>3, <3>2, <4>1, <4>2 DEF Hands, InHand
    <3> QED
      BY <3>3, <3>4
  <2>4. CASE handler[h].at = "pay.insert" /\ handler[h].payment # m
    BY <1>2, <2>1, <2>4, WhereFrom
  <2> QED
    BY <1>2, <2>1, <2>2, <2>3, <2>4, HandsStay
<1>3. \A h \in Handlers : InHand(h)'
  BY <1>0, <1>2 DEF InHand, Handler
<1> QED
  BY <1>1, <1>3 DEF Hands

\* A payment nobody can undo stays what it is, and nobody takes it in hand.
LEMMA SafeStays ==
  ASSUME MoneyWired, [Next]_vars, NEW p \in Asks, NEW m \in Safe(p)
  PROVE  m \in Safe(p)' /\ payment'[m] = payment[m]
<1>1. /\ m \in Payments /\ payment[m].status = "SUCCEEDED" /\ payment[m].ask = p
      /\ \A h \in Handlers : handler[h].payment # m
  BY DEF Safe, Linked, Succeeded
<1>2. payment'[m] = payment[m]
  BY <1>1, OthersStay
<1>3. \A h \in Handlers : handler'[h].payment # m
  BY <1>1, HandsStay
<1> QED
  BY <1>1, <1>2, <1>3 DEF Safe, Linked, Succeeded

\* More payments of the same amounts or more come to as much or more.
LEMMA SumsGrow ==
  ASSUME MoneyWired, [Next]_vars, NEW S \in SUBSET Payments, NEW T \in SUBSET Payments, S \subseteq T,
         \A m \in S : payment'[m].amount = payment[m].amount
  PROVE  MapThenSumSet(LAMBDA m : payment[m].amount, S) <= MapThenSumSet(LAMBDA m : payment'[m].amount, T)
<1>0. IsFiniteSet(Payments) /\ payment \in [Payments -> Payment] /\ payment' \in [Payments -> Payment]
  BY PaymentsAssumption, BooksStep DEF MoneyWired, TypeOK
<1>1. PICK v \in [Payments -> Payment] : v = payment
  BY <1>0
<1>2. PICK w \in [Payments -> Payment] : w = payment'
  BY <1>0
<1>3. Amount(v) \in [Payments -> Nat] /\ Amount(w) \in [Payments -> Nat]
  BY DEF Amount, Payment
<1>4. \A m \in S : Amount(v)[m] <= Amount(w)[m]
  BY <1>1, <1>2, <1>3 DEF Amount
<1>5. SumOver(Amount(v), S) <= SumOver(Amount(w), T)
  BY <1>0, <1>3, <1>4, SumGrows
<1>6. SumOver(Amount(v), S) = MapThenSumSet(LAMBDA m : v[m].amount, S)
  BY AmountsAdded
<1>7. SumOver(Amount(w), T) = MapThenSumSet(LAMBDA m : w[m].amount, T)
  BY AmountsAdded
<1> QED
  BY <1>1, <1>2, <1>5, <1>6, <1>7

LEMMA SafeGrows ==
  ASSUME MoneyWired, [Next]_vars, NEW p \in Asks
  PROVE  SumOf(Safe(p)) <= SumOf(Safe(p))' /\ SumOf(Safe(p)) \in Nat /\ SumOf(Safe(p))' \in Nat
<1>1. PICK S : S = Safe(p)
  OBVIOUS
<1>2. PICK T : T = Safe(p)'
  OBVIOUS
<1>3. S \in SUBSET Payments /\ T \in SUBSET Payments
  BY <1>1, <1>2 DEF Safe, Linked, Succeeded
<1>4. S \subseteq T /\ \A m \in S : payment'[m].amount = payment[m].amount
  BY <1>1, <1>2, SafeStays
<1>5. MapThenSumSet(LAMBDA m : payment[m].amount, S) <= MapThenSumSet(LAMBDA m : payment'[m].amount, T)
  BY <1>3, <1>4, SumsGrow
<1>6. SumOf(S) \in Nat
  BY <1>3, SumOfType DEF MoneyWired, TypeOK
<1>7. PICK w \in [Payments -> Payment] : w = payment'
  BY BooksStep
<1>8. MapThenSumSet(LAMBDA m : w[m].amount, T) \in Nat
  <2>1. Amount(w) \in [Payments -> Nat] /\ IsFiniteSet(Payments)
    BY PaymentsAssumption DEF Amount, Payment
  <2> QED
    BY <1>3, <2>1, AmountsAdded, SumType
<1>9. SumOf(Safe(p)) = MapThenSumSet(LAMBDA m : payment[m].amount, S)
  BY <1>1 DEF SumOf
<1>10. (SumOf(Safe(p)))' = MapThenSumSet(LAMBDA m : payment'[m].amount, T)
  <2>1. (SumOf(Safe(p)))' = MapThenSumSet(LAMBDA m : payment'[m].amount, Safe(p)')
    BY DEF SumOf, MapThenSumSet, MapThenFoldSet
  <2> QED
    BY <1>2, <2>1
<1>11. SumOf(Safe(p)) \in Nat
  BY <1>1, <1>6
<1>12. (SumOf(Safe(p)))' \in Nat
  BY <1>7, <1>8, <1>10
<1> QED
  BY <1>5, <1>9, <1>10, <1>11, <1>12

\* What is received of a request is changed by the end of a verification only.
LEMMA ReceivedStep ==
  ASSUME MoneyWired, [Next]_vars, NEW p \in Asks
  PROVE  \/ ask'[p].received = ask[p].received
         \/ \E h \in Handlers : /\ VerifyWrite(h) /\ handler[h].ask = p
                                /\ ask'[p].received = handler[h].had + handler[h].amount
<1>0. ask \in [Asks -> Request] /\ \A q \in Asks : ask[q] \in Request
  BY DEF MoneyWired, AskRows
<1>1. ASSUME NEW q \in Asks, ReportPayment(q) PROVE ask'[p].received = ask[p].received
  BY <1>0, <1>1 DEF ReportPayment, Request
<1>2. ASSUME NEW h \in Handlers, CreateInsert(h) PROVE ask'[p].received = ask[p].received
  <2>1. CASE UNCHANGED ask
    BY <2>1
  <2>2. ASSUME NEW q \in Asks,
               ask' = [ask EXCEPT ![q] = [ask[q] EXCEPT !.status = "REQUESTED", !.amount = handler[h].amount]]
        PROVE  ask'[p].received = ask[p].received
    BY <1>0, <2>2 DEF Request
  <2> QED
    BY <1>0, <1>2, <2>1, <2>2 DEF CreateInsert
<1>3. ASSUME NEW h \in Handlers, VerifyClaim(h) \/ VerifyRelease(h) PROVE ask'[p].received = ask[p].received
  BY <1>0, <1>3 DEF VerifyClaim, VerifyRelease, Released, Request
<1>4. ASSUME NEW h \in Handlers, NotFoundWrite(h) PROVE ask'[p].received = ask[p].received
  <2>1. CASE UNCHANGED ask
    BY <2>1
  <2>2. ASSUME NEW q, NEW s, ask' = [ask EXCEPT ![q] = [ask[q] EXCEPT !.status = s, !.claimed = FALSE]]
        PROVE  ask'[p].received = ask[p].received
    BY <1>0, <2>2 DEF Request
  <2> QED
    BY <1>0, <1>4, <2>1, <2>2 DEF NotFoundWrite
<1>5. ASSUME NEW h \in Handlers, VerifyWrite(h), ask'[p].received # ask[p].received
      PROVE  handler[h].ask = p /\ ask'[p].received = handler[h].had + handler[h].amount
  <2>1. ask' = [ask EXCEPT ![handler[h].ask] = Verified(handler[h].ask, handler[h].had, handler[h].amount)]
    BY <1>5 DEF VerifyWrite
  <2>2. handler[h].ask = p
    BY <1>0, <1>5, <2>1
  <2>3. ask'[p] = Verified(p, handler[h].had, handler[h].amount)
    BY <1>0, <2>1, <2>2
  <2> QED
    BY <1>0, <2>2, <2>3 DEF Verified, Request
<1>6. ASSUME NEW h \in Handlers,
             \/ Start(h) \/ Crash(h) \/ CreateRoute(h) \/ PayInsert(h) \/ PayCharge(h) \/ PayFail(h)
             \/ PayThrows(h) \/ TotalsSum(h) \/ TotalsWrite(h) \/ StatusRead(h) \/ StatusWrite(h)
      PROVE  UNCHANGED ask
  BY <1>6 DEF Start, CreateRead, DeskPayment, NotFoundRead, VerifyRead, StaffMove, Crash, PayThrows, CreateRoute,
    PayInsert, PayCharge, PayFail, TotalsSum, TotalsWrite, StatusRead, StatusWrite
<1> QED
  BY <1>1, <1>2, <1>3, <1>4, <1>5, <1>6 DEF Next, Proceed, vars

\* The payment of a verification that ends is added to those nobody can undo.
LEMMA SafeAdds ==
  ASSUME MoneyWired, Hands, [Next]_vars, NEW h \in Handlers, VerifyWrite(h), NEW p \in Asks, handler[h].ask = p
  PROVE  SumOf(Safe(p)) + handler[h].amount <= SumOf(Safe(p))'
<1>0. /\ payment \in [Payments -> Payment] /\ IsFiniteSet(Payments) /\ handler \in [Handlers -> Handler]
      /\ Knows(handler[h]) /\ UNCHANGED payment /\ handler[h].at = "verify.write"
      /\ handler' = [handler EXCEPT ![h] = Idle]
  BY PaymentsAssumption DEF MoneyWired, TypeOK, VerifyWrite, At, Finish, Goto
<1>1. handler[h].payment # None /\ handler[h].for = "verify"
  BY <1>0 DEF Knows, Paying
<1>2. PICK m \in Payments : m = handler[h].payment
  BY <1>0, <1>1 DEF Handler
<1>3. payment[m].status = "SUCCEEDED" /\ payment[m].ask = p /\ payment[m].amount = handler[h].amount
  BY <1>0, <1>1, <1>2 DEF Hands, InHand
<1>4. PICK S : S = Safe(p)
  OBVIOUS
<1>5. PICK T : T = Safe(p)'
  OBVIOUS
<1>6. S \in SUBSET Payments /\ T \in SUBSET Payments /\ m \notin S
  BY <1>2, <1>4, <1>5 DEF Safe, Linked, Succeeded
<1>7. S \cup {m} \subseteq T
  <2>1. \A i \in Handlers : handler'[i].payment # m
    BY <1>0, <1>1, <1>2, PaymentsAssumption DEF Hands, Idle
  <2>2. m \in T
    BY <1>0, <1>3, <1>5, <2>1 DEF Safe, Linked, Succeeded
  <2> QED
    BY <1>4, <1>5, <2>2, SafeStays
<1>8. MapThenSumSet(LAMBDA x : payment[x].amount, S \cup {m})
        <= MapThenSumSet(LAMBDA x : payment'[x].amount, T)
  BY <1>0, <1>6, <1>7, SumsGrow
<1>9. PICK v \in [Payments -> Payment] : v = payment
  BY <1>0
<1>10. Amount(v) \in [Payments -> Nat] /\ Amount(v)[m] = handler[h].amount
  BY <1>3, <1>9 DEF Amount, Payment
<1>11. SumOver(Amount(v), S \cup {m}) = handler[h].amount + SumOver(Amount(v), S)
  BY <1>0, <1>6, <1>10, SumAdds
<1>12. /\ SumOf(S) = SumOver(Amount(v), S) /\ SumOf(S) \in Nat
       /\ SumOf(S \cup {m}) = SumOver(Amount(v), S \cup {m})
  BY <1>0, <1>6, <1>9, SumOfType
<1>13. handler[h].amount \in Nat
  BY <1>0 DEF Handler
<1>14. /\ SumOf(S \cup {m}) = MapThenSumSet(LAMBDA x : payment[x].amount, S \cup {m})
       /\ SumOf(Safe(p)) = SumOf(S)
  BY <1>4 DEF SumOf
<1>15. (SumOf(Safe(p)))' = MapThenSumSet(LAMBDA x : payment'[x].amount, T)
  <2>1. (SumOf(Safe(p)))' = MapThenSumSet(LAMBDA x : payment'[x].amount, Safe(p)')
    BY DEF SumOf, MapThenSumSet, MapThenFoldSet
  <2> QED
    BY <1>5, <2>1
<1>16. SumOf(S \cup {m}) <= (SumOf(Safe(p)))'
  BY <1>8, <1>14, <1>15
<1> QED
  BY <1>11, <1>12, <1>13, <1>14, <1>16, SafeGrows

LEMMA CoveredStep == MoneyWired /\ Hands /\ Covered /\ [Next]_vars => Covered'
<1> SUFFICES ASSUME MoneyWired, Hands, Covered, [Next]_vars PROVE Covered'
  OBVIOUS
<1>0. /\ \A h \in Handlers : handler[h] \in Handler /\ Knows(handler[h])
      /\ \A h \in Handlers : handler'[h] \in Handler /\ Knows(handler'[h])
      /\ \A p \in Asks : ask[p].received \in Nat
  BY HandlersStep DEF MoneyWired, TypeOK, AskRows, Request
<1>1. ASSUME NEW p \in Asks PROVE ask'[p].received <= SumOf(Safe(p))'
  <2>1. ask[p].received <= SumOf(Safe(p))
    BY DEF Covered
  <2>2. ASSUME NEW h \in Handlers, VerifyWrite(h), handler[h].ask = p,
               ask'[p].received = handler[h].had + handler[h].amount
        PROVE  ask'[p].received <= SumOf(Safe(p))'
    <3>1. handler[h].for = "verify"
      BY <1>0, <2>2 DEF VerifyWrite, At, Knows
    <3>2. handler[h].had <= SumOf(Safe(p)) /\ handler[h].had \in Nat /\ handler[h].amount \in Nat
      BY <1>0, <2>2, <3>1 DEF Covered, Handler
    <3>3. SumOf(Safe(p)) + handler[h].amount <= SumOf(Safe(p))'
      BY <2>2, SafeAdds
    <3> QED
      BY <2>2, <3>2, <3>3, SafeGrows
  <2>3. CASE ask'[p].received = ask[p].received
    BY <1>0, <2>1, <2>3, SafeGrows
  <2> QED
    BY <2>2, <2>3, ReceivedStep
<1>2. ASSUME NEW h \in Handlers, NEW p \in Asks, handler'[h].for = "verify", p = handler'[h].ask
      PROVE  handler'[h].had <= SumOf(Safe(p))'
  <2>1. handler'[h].had \in Nat
    BY <1>0 DEF Handler
  <2>2. handler'[h].had <= SumOf(Safe(p))
    <3>1. CASE handler'[h] = handler[h]
      BY <1>2, <3>1 DEF Covered
    <3>2. CASE Follows(handler[h], handler'[h]) /\ handler'[h].at = "verify.claim"
      BY <1>2, <3>2 DEF Covered, Follows
    <3>3. CASE Follows(handler[h], handler'[h]) /\ handler'[h].at # "verify.claim"
      BY <1>2, <3>3 DEF Covered, Follows
    <3> QED
      BY <3>1, <3>2, <3>3, HandlersStep
  <2> QED
    BY <2>1, <2>2, SafeGrows
<1>3. \A h \in Handlers : handler'[h].for = "verify" => handler'[h].ask \in Asks
  BY <1>0 DEF Knows
<1>4. \A h \in Handlers : (handler[h].for = "verify" => handler[h].had <= SumOf(Safe(handler[h].ask)))'
  <2> SUFFICES ASSUME NEW h \in Handlers, handler'[h].for = "verify"
               PROVE  handler'[h].had <= (SumOf(Safe(handler[h].ask)))'
    OBVIOUS
  <2>1. PICK p \in Asks : p = handler'[h].ask
    BY <1>3
  <2>2. handler'[h].had <= SumOf(Safe(p))'
    BY <1>2, <2>1
  <2> QED
    BY <2>1, <2>2 DEF SumOf, Safe, Linked
<1> QED
  BY <1>1, <1>4 DEF Covered

\* Whatever overlaps, fails or crashes, a request never says it received more
\* than the payments that succeeded for it: a handler adds to what it read the
\* payment it made, which nobody else can undo, and takes its claim back where
\* the payment failed (verifyPaymentRequest, createPayment).
THEOREM ReceivedWasRecorded == Spec => []ReceivedIsRecorded
<1> DEFINE I == MoneyWired /\ Hands /\ Covered
<1>1. Init => I
  <2> SUFFICES ASSUME Init PROVE Hands /\ Covered
    BY MoneyStart
  <2>0. MoneyWired
    BY MoneyStart
  <2>1. \A h \in Handlers : handler[h].payment = None /\ handler[h].for = "none"
    BY DEF Init, Idle
  <2>2. Hands
    BY <2>1 DEF Hands, InHand
  <2>3. ASSUME NEW p \in Asks PROVE ask[p].received <= SumOf(Safe(p))
    <3>1. ask[p].received = 0
      BY DEF Init
    <3>2. SumOf(Safe(p)) \in Nat
      BY <2>0, SumOfType DEF MoneyWired, TypeOK, Safe, Linked, Succeeded
    <3> QED
      BY <3>1, <3>2
  <2> QED
    BY <2>1, <2>2, <2>3 DEF Covered
<1>2. I /\ [Next]_vars => I'
  BY MoneyWiredStep, HandsStep, CoveredStep
<1>3. I => ReceivedIsRecorded
  <2> SUFFICES ASSUME I, NEW p \in Asks PROVE ask[p].received <= SumOf(Linked(p))
    BY DEF ReceivedIsRecorded
  <2>0. payment \in [Payments -> Payment] /\ IsFiniteSet(Payments) /\ ask[p].received \in Nat
    BY PaymentsAssumption DEF MoneyWired, TypeOK, Request
  <2>1. Safe(p) \subseteq Linked(p) /\ Linked(p) \subseteq Payments
    BY DEF Safe, Linked, Succeeded
  <2>2. Amount(payment) \in [Payments -> Nat]
    BY <2>0 DEF Amount, Payment
  <2>3. SumOver(Amount(payment), Safe(p)) <= SumOver(Amount(payment), Linked(p))
    <3>1. \A m \in Safe(p) : Amount(payment)[m] <= Amount(payment)[m]
      BY <2>1, <2>2
    <3> QED
      BY <2>0, <2>1, <2>2, <3>1, SumGrows
  <2>4. /\ SumOf(Safe(p)) = SumOver(Amount(payment), Safe(p)) /\ SumOf(Safe(p)) \in Nat
        /\ SumOf(Linked(p)) = SumOver(Amount(payment), Linked(p)) /\ SumOf(Linked(p)) \in Nat
    BY <2>0, <2>1, SumOfType
  <2> QED
    BY <2>0, <2>3, <2>4 DEF Covered
<1> QED
  BY <1>1, <1>2, <1>3, PTL DEF Spec

-----------------------------------------------------------------------------
\* What was charged at some time, given back or not.
Charged == {m \in Payments : payment[m].taken}

\* Every sum a handler goes by was charged, and so was the total wherever the
\* booking is CONFIRMED or about to be.
Backed ==
  /\ \A h \in Handlers :
       /\ handler[h].sum <= SumOf(Charged)
       /\ handler[h].to = "CONFIRMED" => SumOf(Charged) >= Total
  /\ booking.status = "CONFIRMED" => SumOf(Charged) >= Total

LEMMA ChargedStays ==
  ASSUME MoneyWired, [Next]_vars, NEW m \in Charged
  PROVE  m \in Charged' /\ payment'[m].amount = payment[m].amount
<1>0. payment \in [Payments -> Payment] /\ m \in Payments /\ payment[m].taken /\ payment[m].status # "ABSENT"
  BY DEF MoneyWired, TypeOK, Charged, Remembered
<1>1. CASE UNCHANGED payment
  BY <1>0, <1>1 DEF Charged
<1>2. ASSUME NEW h \in Handlers, NEW x \in Payments, NEW row \in Payment,
             payment' = [payment EXCEPT ![x] = row], PaymentMoves(h, x, row)
      PROVE  payment'[m].taken /\ payment'[m].amount = payment[m].amount
  <2>1. CASE x # m
    BY <1>0, <1>2, <2>1
  <2>2. CASE x = m
    <3>1. row.taken /\ row.amount = payment[m].amount
      BY <1>0, <1>2, <2>2 DEF PaymentMoves, Payment
    <3> QED
      BY <1>0, <1>2, <2>2, <3>1
  <2> QED
    BY <2>1, <2>2
<1> QED
  BY <1>0, <1>1, <1>2, PaymentStep DEF Charged

LEMMA ChargedGrows ==
  ASSUME MoneyWired, [Next]_vars
  PROVE  SumOf(Charged) <= SumOf(Charged)' /\ SumOf(Charged) \in Nat /\ SumOf(Charged)' \in Nat
<1>1. PICK S : S = Charged
  OBVIOUS
<1>2. PICK T : T = Charged'
  OBVIOUS
<1>3. S \in SUBSET Payments /\ T \in SUBSET Payments
  BY <1>1, <1>2 DEF Charged
<1>4. S \subseteq T /\ \A m \in S : payment'[m].amount = payment[m].amount
  BY <1>1, <1>2, ChargedStays
<1>5. MapThenSumSet(LAMBDA m : payment[m].amount, S) <= MapThenSumSet(LAMBDA m : payment'[m].amount, T)
  BY <1>3, <1>4, SumsGrow
<1>6. PICK w \in [Payments -> Payment] : w = payment'
  BY BooksStep
<1>7. MapThenSumSet(LAMBDA m : w[m].amount, T) \in Nat
  <2>1. Amount(w) \in [Payments -> Nat] /\ IsFiniteSet(Payments)
    BY PaymentsAssumption DEF Amount, Payment
  <2> QED
    BY <1>3, <2>1, AmountsAdded, SumType
<1>8. SumOf(Charged) = MapThenSumSet(LAMBDA m : payment[m].amount, S)
  BY <1>1 DEF SumOf
<1>9. (SumOf(Charged))' = MapThenSumSet(LAMBDA m : payment'[m].amount, T)
  <2>1. (SumOf(Charged))' = MapThenSumSet(LAMBDA m : payment'[m].amount, Charged')
    BY DEF SumOf, MapThenSumSet, MapThenFoldSet
  <2> QED
    BY <1>2, <2>1
<1>10. SumOf(Charged) \in Nat
  BY SumOfType DEF MoneyWired, TypeOK, Charged
<1>11. (SumOf(Charged))' \in Nat
  BY <1>6, <1>7, <1>9
<1> QED
  BY <1>5, <1>8, <1>9, <1>10, <1>11

LEMMA SucceededIsCharged ==
  ASSUME MoneyWired PROVE SumOf(Succeeded) <= SumOf(Charged) /\ SumOf(Succeeded) \in Nat /\ SumOf(Charged) \in Nat
<1>1. payment \in [Payments -> Payment] /\ IsFiniteSet(Payments)
  BY PaymentsAssumption DEF MoneyWired, TypeOK
<1>2. Succeeded \subseteq Charged /\ Charged \subseteq Payments
  BY DEF Succeeded, Charged, MoneyWired, Remembered
<1>3. Amount(payment) \in [Payments -> Nat] /\ \A m \in Succeeded : Amount(payment)[m] <= Amount(payment)[m]
  <2>1. Amount(payment) \in [Payments -> Nat]
    BY <1>1 DEF Amount, Payment
  <2> QED
    BY <1>2, <2>1
<1>4. SumOver(Amount(payment), Succeeded) <= SumOver(Amount(payment), Charged)
  BY <1>1, <1>2, <1>3, SumGrows
<1> QED
  BY <1>1, <1>2, <1>4, SumOfType

LEMMA BackedStep ==
  ASSUME "staff" \notin Mix, MoneyWired, Backed, [Next]_vars PROVE Backed'
<1> USE PaymentsAssumption
<1>0. /\ \A h \in Handlers : handler[h].sum \in Nat /\ handler'[h].sum \in Nat
      /\ booking \in [status : BookingStatuses, paid : Nat]
  BY HandlersStep DEF MoneyWired, TypeOK, Handler
<1>1. PICK n \in Nat : n = SumOf(Charged)
  BY SucceededIsCharged
<1>2. PICK k \in Nat : k = (SumOf(Charged))' /\ n <= k
  BY <1>1, ChargedGrows
<1>3. ASSUME NEW h \in Handlers
      PROVE  handler'[h].sum <= k /\ (handler'[h].to = "CONFIRMED" => k >= Total)
  <2>1. handler[h].sum <= n /\ (handler[h].to = "CONFIRMED" => n >= Total)
    BY <1>1 DEF Backed
  <2>2. CASE handler'[h] = handler[h]
    BY <1>0, <1>2, <2>1, <2>2
  <2>3. CASE Follows(handler[h], handler'[h])
    <3>1. PICK t \in Nat : t = SumOf(Succeeded) /\ t <= n
      BY <1>1, SucceededIsCharged
    <3>2. handler'[h].sum \in {0, handler[h].sum, t}
      BY <2>3, <3>1 DEF Follows
    <3>3. handler'[h].to = "CONFIRMED" => handler[h].to = "CONFIRMED" \/ handler[h].sum >= Total
      BY <2>3 DEF Follows
    <3> QED
      BY <1>0, <1>2, <2>1, <3>1, <3>2, <3>3
  <2> QED
    BY <2>2, <2>3, HandlersStep
<1>4. ASSUME booking'.status = "CONFIRMED" PROVE k >= Total
  <2>1. CASE booking'.status = booking.status
    BY <1>1, <1>2, <1>4, <2>1 DEF Backed
  <2>2. ASSUME NEW h \in Handlers, booking' = [booking EXCEPT !.paid = handler[h].sum]
        PROVE  booking'.status = booking.status
    BY <1>0, <2>2
  <2>3. ASSUME NEW h \in Handlers, booking' = [booking EXCEPT !.status = handler[h].to]
        PROVE  k >= Total
    <3>1. handler[h].to = "CONFIRMED"
      BY <1>0, <1>4, <2>3
    <3> QED
      BY <1>1, <1>2, <3>1 DEF Backed
  <2> QED
    BY <2>1, <2>2, <2>3, BookingStep
<1> QED
  BY <1>2, <1>3, <1>4 DEF Backed

\* Every record and row keeps its shape, in every step of every handler.
THEOREM MoneyTypesCorrect == Spec => []TypeOK
<1>1. Init => MoneyWired
  BY MoneyStart
<1>2. MoneyWired /\ [Next]_vars => MoneyWired'
  BY MoneyWiredStep
<1>3. MoneyWired => TypeOK
  BY DEF MoneyWired
<1> QED
  BY <1>1, <1>2, <1>3, PTL DEF Spec

\* Where staff does not move the booking by hand, it is CONFIRMED only after
\* money for all of it was charged: the sum that confirms it was read from
\* payments that had succeeded, and a payment that fails afterwards had been
\* charged all the same (applyPaymentTotals, createPayment).
THEOREM ConfirmedWasCharged == ASSUME "staff" \notin Mix PROVE Spec => []ConfirmedIsPaid
<1> DEFINE I == MoneyWired /\ Backed
<1>1. Init => I
  <2> SUFFICES ASSUME Init, MoneyWired PROVE Backed
    BY MoneyStart
  <2>1. \A h \in Handlers : handler[h].sum = 0 /\ handler[h].to = None
    BY DEF Init, Idle
  <2>2. None # "CONFIRMED" /\ booking.status # "CONFIRMED"
    BY PaymentsAssumption DEF Init, BookingStatuses
  <2> QED
    BY <2>1, <2>2, SucceededIsCharged DEF Backed
<1>2. I /\ [Next]_vars => I'
  BY MoneyWiredStep, BackedStep
<1>3. I => ConfirmedIsPaid
  BY DEF Backed, ConfirmedIsPaid, Charged
<1> QED
  BY <1>1, <1>2, <1>3, PTL DEF Spec
=============================================================================
