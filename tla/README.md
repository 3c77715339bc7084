# Verification of Makutano Connect

TLA+ modules, model-checking configurations and machine-checked proofs about the
server side of Makutano Connect: a multi-tenant SvelteKit application on Postgres
(drizzle-orm) with which safari operators quote, sell, collect payments, message
travellers on WhatsApp and run trips. All paths below are relative to the repository;
`lib/server/` is short for `src/lib/server/`.

The program keeps its state in Postgres. Several instances of the application run at
once, every request awaits one database round trip after another, and most handlers
open no transaction. Hence the shape of every model here: **a handler is a process that
takes one step per round trip and acts on what it read earlier**; a transaction's writes
become visible in the step that commits.

A process may die between any two round trips. Where that changes what a model can reach it
is an action: `Crash` (`Quotations`, `Payments`, `JobQueue`), `CrashDelivery`, `KeyCrash`,
`PassCrash`, `DeskDies` (`Trips`), `BuyerLost` (`OrderLinks`), `Die` (`Messaging`), `CallDies`
(`Team`), `GiveUp` (`Listings`): the handler is forgotten, what a transaction held is
released, the rows already written stay. Elsewhere - the clerks of `OrderLinks`, all of
`Reviews` - a dead request is one that takes no further step: nothing there waits for a
request or speaks of the moment when none is at work, so safety covers it. A statement may
also *fail* while its process lives on; that is an action where the code does something about
it (`DatabaseError`, `SucceedThrows`, `PayThrows`, `Fail`, a thrown operation in
`Idempotency`, `Fault` of the provider) and is otherwise the same as a death.

## 1. The system

### 1.1 Core: selling, collecting, delivering

| Component | State | Operations | Interacts with | Hard part | Correct when |
|---|---|---|---|---|---|
| **Quotations** `lib/server/quotations.ts`, `quotation-snapshot.ts` | `quotations`, `quotation_items`, write-once `quotation_versions` | create, send (freeze, supersede the others), decline, accept, expire, mirror from an external site, delete, restore | bookings (accept inserts one), enquiries (status, link), events | staff, traveller and the tenant's own site write one row; the advisory lock covers only send and accept | one acceptance per enquiry, one open offer, a sale always has its booking, the booking is at the frozen price |
| **Bookings** `bookings.ts` | `bookings`, travellers, items, status history | create, change status, apply payment totals, delete, restore | quotations, payments, trips | status is read, checked and written by id; index `bookings_one_per_quotation` | status follows the table of moves; paid amount is the sum of payments |
| **Enquiries** `booking-requests.ts`, `customers.ts`, `leads.ts` | `booking_requests`, `customers` | capture, assign, qualify, mirror, close | quotations, conversations, marketplace | link to the booking decides whether it may be accepted again | an enquiry converts once and links to its booking |
| **Payment requests** `payment-requests.ts` | `payment_requests` | request, remind, report (traveller), verify / not found (staff) | payments, bookings, WhatsApp | the claim is a column, not a lock; two members of staff and a traveller act on one row | money is recorded once, and the request says what was received |
| **Payments** `payments/` | `payments` | create, charge, fail, refund, reconcile | bookings, orders | sum and write are two statements; any error marks the row FAILED | totals equal the payments that succeeded |
| **Jobs** `jobs/` | `jobs` | enqueue, claim (skip locked), succeed, reschedule or bury, requeue stalled | every background handler | workers die with a claimed batch; staleness is judged by age | one worker per job, bounded attempts, every job ends |
| **Webhooks and events** `events.ts`, `webhooks/` | `webhook_deliveries`, `webhook_endpoints` | emit, deliver, record failure and requeue, delete endpoint | jobs, the tenant's server | two retry counters (the job's, the delivery's), two jobs for one delivery after a crash | a verdict was earned; no delivery is forgotten |
| **Idempotency keys** `idempotency.ts` | `idempotency_keys` | insert, replay, refuse, complete, release, purge | the public API | overlap, throw, crash, late repeat | the operation takes effect once; a replay is that effect's answer |

### 1.2 Operations and people

| Component | State | Operations | Hard part | Correct when |
|---|---|---|---|---|
| **Trips** `trips.ts`, `crew.ts`, and `bookings.ts` | `trips` of a booking | hand over, change status behind a readiness gate, edit, re-check, cancel with the booking | gate, edit and booking are read and written in separate statements; a cancelled booking's trip is handed over again (`drizzle/0017`) | one live trip per booking; moves follow the table; READY means set up, and where it does not, the trip still cannot depart; no departure for a dead sale |
| **Tracker enrolment** `tracking/enrollment.ts`, `tracking/provisioning-worker.ts`, `vehicles.ts` | the ledger `tracker_enrollments`, the vehicle's tracker columns, devices at the provider | start, cancel, extend, remove; claim, provision, detect, bind, sweep, clean up | calls to the provider fail with or without effect; the pass dies; operators cancel and replace meanwhile | a vehicle's tracker is alive; the device of a closed row goes |
| **Orders** `orders.ts`, `order-links.ts`, `order-batches.ts` | `orders`, items, link, batch | public submission, status moves, edits of a draft, link and batch status | a form is posted twice; the cap is counted and then written | one order per submission token; overselling is bounded |
| **WhatsApp** `whatsapp/`, `conversations.ts`, `customers.ts` | `messages`, `conversations`, `webhook_events`, the connection's status | queue, send, report, take in, opt out, connect, disconnect | jobs run again after Meta took the message; reports in any order; two workers for one customer | what Meta took is not sent again |
| **Reviews** `reviews.ts` | `reviews` | invite, submit, correct, moderate, answer | every write is by id, on a row read earlier | public words are words a moderator published |
| **Team** `team.ts`, `provisioning.ts`, `auth/verification.ts` | `tenants`, `tenant_memberships`, `verification_tokens` | found, invite, resend, accept, switch on and off, remove | advisory lock, single-use token, everything else read then written | one company per founder, with its owner; an invitation is accepted once |
| **Listings** `tours.ts` | `tours`, itinerary days, destinations | edit, replace lists, submit, review, publish, withdraw, archive | two editors' and reviewers' requests on one row; READ COMMITTED transactions | what is on sale was approved; an itinerary is one edition |

### 1.3 Around them

| Component | What it is |
|---|---|
| Enquiries `booking-requests.ts`, `customers.ts`, `leads.ts` | capture, assignment, mirror; the link to the booking is in `Quotations` |
| Live tracking, Discovery, Marketplace, WhatsApp templates | reads and rankings of published rows, rendering |
| Entitlements and billing | limits and usage counters; the seat limit is in `Team` |
| Media, Notifications / e-mail / push, AI assistance | external services, best effort, no protocol of their own |
| HTTP and plumbing, User interface and routes, Scripts | single-request parsing, pages, one-off tools |
| Database `db/schema.ts`, `drizzle/` | appears in each module: tables as variables, indexes as guards of inserts |

`PROJECT.json` lists the 28 components with their files and status, and every hazard at
its line.

### 1.4 How they interact

    enquiry --- quotation --accept--> booking <--totals, status-- payment <--verify-- payment request
       ^            |  ^                                                                   ^
       |            |  +-- mirror (tenant's own site, idempotent upsert)                   | report (traveller)
       +--QUOTED----+
    any handler --emit--> webhook_deliveries + job --> worker --> POST to the tenant's server
    public API  --Idempotency-Key--> operation
    booking --hand over--> trip;  booking cancelled / deleted / paid --cascade--> trip
    message, Meta's event --> job --> worker --> Meta / conversation
    enrolment row --> provisioning pass --> device at the provider --first fix--> vehicle

## 2. Modules and how they correspond to the code

| Module | Models | Built on |
|---|---|---|
| `Quotations` | the life of a quotation, acceptance, the booking insert, the enquiry's link | - |
| `SaleLedger` | abstract: offers made once, sales at the offered price, an enquiry sold once | - |
| `BookingStatus` | the statuses of a booking and the moves `changeBookingStatus` allows | - |
| `Payments` | payment requests, payments, totals, status of one booking | `BookingStatus` |
| `JobQueue` | job table, workers, the sweep | - |
| `WebhookDelivery` | emit and the delivery handler, running inside the workers of the queue | `JobQueue` (composition) |
| `Idempotency` | one key and the requests that carry it | - |
| `Trips` | trips of bookings, readiness, and the cascades from a booking's end | `BookingStatus` |
| `TrackerEnrollment` | the enrolment ledger, the provider's devices, the provisioning pass | - |
| `OrderLinks` | one public order link, its orders and its batch | - |
| `Messaging` | messages to and from one customer, over the job queue as a handler meets it | - |
| `Reviews` | the review of one booking | - |
| `Team` | companies, seats and invitations | - |
| `Listings` | one marketplace listing | - |
| `QuotationsProofs`, `JobQueueProofs`, `WebhookDeliveryProofs`, `PaymentsProofs`, `TripsProofs` | theorems and their proofs | the module each names |
| `LiveProofs` | theorems of the components of `MCLive`, and of the composed scenes | `MCLive`'s modules |
| `FieldProofs` | theorems of the components of `MCField`, and of its composed scenes | `MCField`'s modules, `TripsProofs` |
| `SumLemmas` | what the sums of `Payments` and `OrderLinks` add up to | - |
| `MCQuotations`, `MCPayments`, `MCTrips`, `MCWebhookDelivery` | instances for TLC: model values, offers, mixes, symmetry | the module each names |
| `MCLive` | two components that share no state, one *scene* each | `Idempotency`, `TrackerEnrollment` |
| `MCField` | six components that share no state, one scene each | `Trips`, `OrderLinks`, `Messaging`, `Reviews`, `Team`, `Listings` |

A *scene* is a component: the initial state names it, and only its actions are taken, so
that a behaviour of `MCField` is a behaviour of one component and every property speaks of
that component alone. Components that share state are composed instead: the handler of
`WebhookDelivery` runs inside the workers of `JobQueue`, and `Trips` moves the bookings
whose end it must follow.

`Mix` is a constant of several modules: the set of optional operations (mirror, delete,
crash ...) an instance exercises. It lets one module serve several questions without each
run paying for all of them; the proofs hold for every `Mix` unless they say otherwise.

### 2.1 Quotations

`quote[q]` is the row of `quotations` with the one row of `quotation_versions` that can
exist for it (`frozen`; the version number never changes, so the insert with *on conflict
do nothing* happens once). `live` and `frozen` are records of a total and of what the lines
add up to: the two numbers differ for mirrored quotations, and that is all the properties
need to know of a price. `lapsed` says that `validUntil` has passed. `enquiry` and
`booking` hold the columns that acceptance reads and writes, `lock` the advisory
transaction locks, `request[r]` where handler `r` stands and what it read.

| Actions | Code |
|---|---|
| `SendRead`, `SendItems`, `SendFreeze`, `SendCommit`, `SendQuoted` | `sendQuotation`: read row, read lines, freeze, the transaction, the enquiry |
| `DeclineRead`, `DeclineWrite` | `declineQuotation` |
| `AcceptRead`, `AcceptExpire`, `AcceptLock`, `AcceptClaim`, `AcceptConfirm` | `acceptQuotation`: checks, expiry, lock and re-read, booking + claim + enquiry, confirmation after commit |
| `MirrorInsert`, `MirrorRead`, `MirrorWrite`, `MirrorClear`, `MirrorLines` | `upsertQuotationMirror` and its delete / insert of lines |
| `ExpireStaleQuotations`, `Lapse` | the sweep; time |
| `SoftDelete*`, `Restore*` | soft deletion of quotations and bookings |
| `DirectBooking`, `DirectClose` | `POST /api/v1/bookings`: a booking outside any transaction |
| `Crash` | the process dies: an open transaction rolls back and its lock is freed |

`SendCommit` is one step although it is a transaction of several statements: it holds the
enquiry's lock from its first statement, writes only at commit and reads nothing before.
For a quotation without an enquiry no lock is taken and the transaction is one update.
`CreateQuotation` is one step although the row (`quotations.ts:93`) and its lines (`:124`)
are two inserts: nobody has the id before the call returns, and a draft without lines that
a broken-off call leaves behind is outside the module. `MirrorInsert` is the insert of a
mirror that found no row; no index makes the external reference unique, so two mirrors at
once insert two rows, in the model under two names.
`AcceptLock` and `AcceptClaim` are separate because other, unlocked writers can move the
row between the re-read and the conditional claim.

### 2.2 Payments

One booking. `ask` is `payment_requests` (`claimed` stands for a set
`verification_started_at`), `payment` is `payments`, `booking` its status and
`amount_paid`. `handler[h]` records what it is `for`, so that the shared tail - insert,
charge, add up, write, change status, or fail - is written once and returns to whoever
called it, as the functions do.

Unreachable in this program, and therefore absent: hosted providers are declared but not
configured, so no request has an ONLINE method and none is ever CANCELLED; nothing
enqueues the reconciliation; nothing calls `refundPayment`. BANK_TRANSFER rows stay
PENDING and no one reads them. Reminders write columns no other operation reads.
`Room` bounds the payment rows: a payment is only begun while a row is left for it.

Errors (`"error" \in Mix`). `createPayment` wraps all that follows its insert in one `try`, so
`PayThrows` may strike any of its statements: before the insert nothing is left, afterwards
the payment is to become FAILED whatever it was (`PayFail`), and that statement may fail too.
Where a function still has statements after its last modelled write - the booking's history,
the event - the error is an alternative of the step (`StatusWrite`, `Recorded`). Either way the
verification gives its claim back (`VerifyRelease`). An error of the claim, of its release or of
the final write of the request ends the request where it is, which is `Crash`. `taken` is
history: a payment that was SUCCEEDED at some time.

### 2.3 JobQueue

A worker claims up to `Batch` due rows, takes them in some order, runs the handler, and
settles by id. `worker[w].batch` holds the rows *as claimed*, because `reschedule`
decides on those attempts. Backoff is abstracted: a pending job may be claimed at any
time, which covers every schedule. `GrowOld` is the passing of the sweep's ten minutes.
A job whose worker is gone always grows old; one in a live worker's hands only where
`"slow" \in Mix`. Deduplicated enqueueing is an insert that happens once per row. `succeed`
stands in the handler's `try` (`worker.ts:19-24`): if it throws, the job that ran is rescheduled
(`SucceedThrows`); if `reschedule` throws, the tick ends, which is `Crash`.

### 2.4 WebhookDelivery

Extends the queue: each worker's handler is `deliverPendingWebhook`, split at its database
calls and at the post. A failed post is swallowed, so the job succeeds and another job is
queued; only a database error makes the handler throw and the queue's own retries count.
`DatabaseError` may strike any statement: after the post the first failure lands in the
catch block, which records a failed attempt, exactly as one `try` covers both. Nothing in
the program clears `is_active`, so `LoseSecret` (the secret can no longer be decrypted)
is what leads to the disabled branch. Deleting an endpoint cascades to its deliveries
(`GONE`). `SettlingThrows` is the queue's `SucceedThrows` after a delivery: one more way to
two runs of one job. `posts` is a history variable.

### 2.5 Idempotency

One key, since keys do not interact. The row's `owner` stands for its id: an update or a
delete by id misses a row that someone else inserted. `effect` is a history variable of
what the operation did since the key was last purged. `Expire` (24 hours) assumes that no
operation runs that long. An operation that throws is taken to have had no effect; one
that throws after a partial effect is outside the module.

### 2.6 Trips

`trip[t]` is the row of `trips`: its status, its booking, and whether it is *set up* (dates,
accommodation, vehicle and driver are there: what the critical checks of `CHECKS` ask of
the trip itself). `sale[b]` holds the three columns of the booking they depend on.
`desk[s]` is a request: `HandoverRead`, `HandoverCheck`, `HandoverInsert` are
`createTripFromBooking`; `MoveRead`, `Gate`, `MoveWrite` are `changeTripStatus`;
`EditRead`, `EditWrite`, `Recheck` are `updateTrip` and `revalidateTrip`; `SaleMove*`,
`SoftDelete`, `StandDown`, `Deposit`, `RecheckSale` are the calls in `bookings.ts` that end
in `cancelTripForBooking` and `revalidateTripForBooking`. Both of those select any one trip
of the booking (`limit 1` without an order), hence the `\E t \in TripsOf(b)`.
`Gate` and `Recheck` read the trip, its booking and its crew in several statements and are one
step each: nothing is written on one of those reads alone, and the status they lead to is
written over the status read before.

`updateTrip` writes the edit (`trips.ts:959`) and only then re-checks (`:967`, `:1033-1047`).
`DeskDies` is a request in `Mortal` that ends between two of its statements, killed or by an
error (the cascades of `bookings.ts:362-366` and `:497-502` even swallow theirs). Two history
variables name the ways to a READY trip that is not set up: `contended`, a trip two requests
worked on at once, and `forsaken`, a READY trip whose re-check was cut short and which nobody
has re-checked or moved since. `ReadyIsSetUp` says that there is no third; `DepartsSetUp`, that
a trip left so does not depart, since departure passes the gate again.

### 2.7 TrackerEnrollment

`ledger` is `tracker_enrollments`; `device` the set of devices that exist at the provider,
each named by the row that minted its reference; `tracker[v]` the row a vehicle's tracker
columns come from. A pass goes through the phases of `runProvisioningPass` - claim and
provision until nothing is due, detect, sweep, clean - and selects rows in one step and
treats them one by one in later ones (`todo`), as the loops do. A call to the provider may
fail with or without having had its effect (`Fault`). The lease of a claim outlasts every
attempt, so a row is taken while some pass is at work on it. `revived` is history: rows
that a late `recordFailure`, which writes by id, opened again after they were closed.

### 2.8 OrderLinks

One link with a cap and its batch. `buyer[b]` is one POST of the form, with the submission
token it carries: replay, room, batch, `createOrder`'s own check of the batch, the insert
under the unique index, the items, the receipt. `clerk[c]` is staff: a status move (read,
then by id) or an edit of an order that is not confirmed (read, delete the items, insert
others). `receipt` and `edited` are history. The receipt is given in the step that inserts the
items (`orders.ts:189-225`). `updateOrderLink` (`order-links.ts:175-219`), which may change the
capacity and the batch of a link on sale, is left out: `OversellIsBounded` is about a link whose
capacity stays.

### 2.9 Messaging

One customer. `out[m]` is an outbound row and where `queueMessage` stands with it, `task`
the job of a message or of an event, `hand[h]` a worker in the middle of `sendQueuedMessage`
or `processInboundEvent`. The queue is abstract here: a job is run by one worker at a time,
again after a throw up to `MaxTries`, and again after a death - the guarantees `JobQueue`
proves. `copies` counts what Meta took; `recorded` are the copies whose id was written
down; `reported` what Meta told. `Fail` is a database call that fails, and follows the
code's `try`: after the post it leads into the catch that writes FAILED. Reports come in any
order; `Told` bounds what they may say. In the run it is FAILED, the one report after which a
message may be sent again: SENT, DELIVERED and READ (written as DELIVERED is) only take the row
out of QUEUED and FAILED, the statuses a handler sends from. The proof allows all of them.
Messages queued without a job of their own (`enqueueJob: false`, `messages.ts:48`, `:229`) are
left out.

### 2.10 Reviews, Team, Listings

`Reviews`: one booking; `review` is its row, `answered` the words the operator's answer was
given to, `journey` what `checkReviewEligibility` looks at. A request found the row by its
link once; from then on it writes by id. `approved` is the words the row held when a
moderator last published it, which need not be the words that were on the moderator's page.

`Team`: `seat[k, p]` is a membership, `invitation[i]` a token, `founding[p]` the advisory
lock of a founder, `call[c]` a request. `provisionTenant` is one transaction that reads
what the founder owns and commits; the rest is single statements. **Only self-signup founds
companies here** (`owner.kind = "existing"`). The admin pages also call `provisionTenant` with
an e-mail address or without an owner: those branches lock another key
(`provisioning.ts:280-285`), skip the look at what the person owns (`:295`), and can give a
person a second company, or found one without an owner. `OneCompanyPerFounder` is about the
former and would be false with the latter. `InviteRevive` also writes the role in the code
(`team.ts:355`), which cannot be the owner's. `ChangeSeat` reads membership and owners in
several statements (`:583-584`, `:622-623`) and is one step; a company here has one owner.

`Listings`: one listing. `ReplaceOwned`, `ReplaceDelete`, `ReplaceItinerary` are the
transaction of `replaceItinerary`. Postgres runs it at READ COMMITTED: a delete removes the
rows that were committed when it began, so rows another editor commits afterwards survive
it (`deleted = "gone"` once someone else replaced them). `TransitionRead` leaves out the check
that the operator may publish (`tours.ts:1277-1279`), so the model allows more moves than the
code. `cleared` is history: the platform approved the listing since it was last submitted.

## 3. What is checked

Passing runs explore their whole state space; each *violation* run checks one sentence
of the repository and finds it broken. State counts are of distinct states.

| Run | Instance | States | Shows |
|---|---|---|---|
| `sales` | 2 quotations, 1 enquiry, 2 handlers; lapse, decline | 335 thousand | `OneAcceptancePerEnquiry`, `ConvertedHasItsBooking`, `OneOpenOfferPerEnquiry` with competing sends and accepts; `Quotations` implements `SaleLedger`; every request is answered (`RequestsFinish`) |
| `mirror` | 1 mirrored quotation whose total and lines differ, 2 handlers | 1.04 million | the booking is the frozen offer (`BookedAsFrozen`) while the source rewrites row and lines |
| `desk` | 2 quotations, deletion, restoring, direct bookings, crashes | 1.44 million | the unique index keeps a quotation to one live booking (`OneLiveBookingPerQuotation`) when rows hide and reappear |
| `claims` | 2 requests, 2 payments, 2 handlers; staff moves, crashes | 605 thousand | `OneVerifier`, `ReceivedIsRecorded`, `OneOpenRequestPerAmount` |
| `money` | 1 request, 2 payments; desk payments, "not found", errors in any statement of `createPayment` | 1.08 million | `ConfirmedIsPaid` and `ReceivedIsRecorded` also where two verifications overlap and payments that succeeded become FAILED; claims are given back (`ClaimsAreShortLived`) |
| `webhooks` | 1 delivery, 4 jobs, 2 workers, batch 2, 2 attempts, 2 tries, 2 mishaps | 693 thousand | the queue alone (`OneWorkerPerJob`, `JobSettles`) and the delivery on top of it (`PendingHasJob`, `VerdictIsEarned`, `DeliverySettles`) |
| `live` | key: 3 requests, 2 bodies, 2 answers, 1 lost answer; tracker: 2 rows, 1 vehicle, 1 pass, 2 faults | 399 thousand | `AtMostOncePerStoredAnswer`, `ReplayIsTheEffect`, `KeyIsFreed`; `TrackerIsAlive`, `RetiredDevicesGo` |
| `field` | six scenes, below | 1.09 million | `OneLiveTripPerBooking`, `TripsMoveByTheTable`, `ReadyIsSetUp`, `DepartsSetUp`; `OneOrderPerToken`, `OversellIsBounded`; `NoDoubleSend`; `PublicWordsAreApproved`; `OneCompanyPerFounder`, `InvitationIsSpentOnce`; `PublishedWasApproved`, `ItineraryIsWhole` |
| `sync_race` | 2 quotations, one mirrored | violation | a mirror that read before an acceptance un-converts it |
| `two_verifiers` | 1 request, "not found" | violation | two verifications of one request |
| `totals` | 1 request, desk payments | violation | two payments at once leave the booking at the older sum |
| `dead_sale` | 1 booking, 2 trips, 1 request at a time | violation | a cancelled booking leaves a live departure behind |

The scenes of `field`: 2 trips, 1 booking, 2 requests that may die; 2 tokens, 2 orders, 2 buyers
and a clerk, with a cap of 1; 1 message out, 1 "stop" in, 2 workers, 2 tries, 1 death, 1 failed
call, reports of failure; 2 wordings, 2 requests through links, 2 inviters, 1 moderator; 2 companies, 2 people, 2 calls,
2 invitations, 2 seats; 2 editions of up to 2 days, 1 place, 2 requests.

Every property of a passing run is falsified by a plausible bug planted in a definition
that models the code (the `...Mutant` operators, listed in `PROJECT.json`): a lock that
survives rollback, an index never created, a claim that does not look, an error that is
only rethrown, a retry that is not queued.

### 3.1 Bounds, and why they are enough

* **Two quotations on one enquiry, two handlers.** All competition is pairwise: the lock
  is per enquiry, the claim per row, the superseding per enquiry. Crashes leave no
  residue but rows, so a third handler repeats a pair. `OneAcceptance` is proved without
  these bounds.
* **Two bookings.** One more than any promise allows.
* **Amounts 1 and 2, total 2.** Enough for partial, exact and excess payment, and for two
  requests that add up to the booking. `totals` needs only one amount.
* **Two payments, `Room`.** Two suffice to overlap, and to let a payment that becomes FAILED
  stand beside one that stays.
* **`MaxAttempts` = 2, `MaxTries` = 2.** One retry, and the last one. A row can be
  rescheduled, buried, and requeued past its limit.
* **`MaxMishaps` = 2.** A crash, and a crash while its aftermath is cleared up. The bound
  is needed: a job that kills its worker every time never settles (section 5).
* **4 jobs for one delivery.** With two tries and two mishaps no behaviour asks for a
  fifth before the delivery is over; if one did, the handler's `DeliverRetry` would be
  stuck and `DeliverySettles` would fail.
* **Two requests, workers or buyers per scene.** Every hazard listed for these components
  is one request acting on what another changed; a third one repeats a pair. Trips need two
  rows, so that one may be cancelled and another handed over; both requests are `Mortal`.
* **A cap of 1 with quantities up to 2.** Two buyers who overlap exceed it by one;
  `OversellIsBounded` allows exactly that, since a submission that asks for 2 finds no room.
* **One death and one failed call in `Messaging`.** Enough for a job to run twice after
  Meta took the message, on the death and on the error path; a second of each only repeats.
* **Two rows, one vehicle, one pass in `TrackerEnrollment`.** A setup and its replacement,
  with `MaxFaults` = 2: a failure and another while its aftermath is cleared up. The
  deployment runs one pass at a time; section 5 says what two at once would do.
* **`MaxLost` = 1.** One answer the database failed to store, which is what permits a
  second effect.

Runs without liveness properties use symmetry over the quotations (where none is mirrored),
bookings, requests, payments, handlers and the interchangeable names of the scenes. Runs
with liveness properties use none; `JobSettles` is stated for one job, since jobs differ in
nothing but their names.

### 3.2 Fairness

* *Quotations*: `WF(Proceed(r))` - an await returns, and a handler has no other way to
  stop than a crash - and `SF(Acquire(r))` for the advisory lock, because Postgres queues
  its waiters: a handler that finds the lock free again and again gets it.
* *Payments*: `WF(Proceed(h))`. There are no locks to wait for. Errors are not fair.
* *JobQueue*: `WF(Work(w))` (the worker's timer fires again after every tick),
  `WF(RequeueStalled)` (its own timer), and `WF(GrowOld(j))` without a mishap: time passes
  for jobs nobody holds.
* *WebhookDelivery*: the queue's, with `WF(QueueStep(w) \/ Deliver(w))`: a post is cut off
  by a timeout. Nothing forces an emitter on, so a delivery counts from its job's insert.
* *Idempotency*: `WF(Proceed(r))`, `WF(Expire)`, `WF(Purge)`: the hourly
  `maintenance.cleanup`.
* *TrackerEnrollment*: `WF(WorkerStep(w))`: `scripts/tracking-worker.ts` starts a pass again
  and again, also after one that died. Operators are not forced to do anything, and the
  provider may fail `MaxFaults` times and no more.
* The scenes of `field` assume no fairness; their properties are
  safety. Neither does any violation run: none is a temporal counterexample.

Nothing is ever assumed to *start* a request, and no crash is fair.

Deadlock is not checked, because all these systems really stop: when every quotation is
settled and every booking row used up, every payment recorded, every job settled, every
delivery gone. What must not stop half-way is stated as liveness instead:
`RequestsFinish`, `ClaimsAreShortLived`, `JobSettles`, `DeliverySettles`, `KeyIsFreed`,
`RetiredDevicesGo`.

## 4. What is proved

TLAPS checks these for every value of the constants that satisfies the named assumption of
the module (an unused model value is none of the real ones, bounds are numbers, sets whose
members are added up are finite). Every safety property that a passing run checks is stated
by a theorem; two more, `StatusTellsReceived` and `SettledStays`, are stated in their modules and
proved without a run. A hypothesis in the form `"x" \notin Mix` leaves an
operation out that would meet a violated property of section 5 or a known gap; it stands in
the theorem as in the mix of the run.

Every proof has the same shape: an inductive invariant, checked by TLC before it was proved;
one lemma that the initial states have it; one that each step keeps it, action by action,
after the many steps that touch none of it have been disposed of at once (`QuietSteps`,
`CalmSteps`, `TripWriters`, ...); and a theorem that ends in `PTL`.

**`QuotationsProofs`**, from `QuotationsAssumption`.

* `TypeCorrect`. `TypeOK` alone is not inductive: `SendItems` reads the lines of a
  quotation that must have been written, `AcceptClaim` writes the handler's offer into the
  booking. `TypeInv == TypeOK /\ Equipped` adds that a row that exists has an offer, and
  that a handler at a step carries what the step uses.
* `OneAcceptance`: *one enquiry, one acceptance, one booking*, for any number of handlers and
  rows, with mirrors that change the enquiry link under a running acceptance, direct
  bookings, deletions and crashes. The property says nothing of locks, so it is strengthened
  to `SaleInv`: a handler past its re-read holds the lock of *its* enquiry (`LockHeld`); no
  enquiry so locked has a booking by acceptance yet (`StillUnsold`); and one that has is
  linked to a booking for ever, so the re-read refuses (`SoldIsClosed`). Only `AcceptLock`
  (which establishes the middle part), `AcceptClaim` (which uses it) and the steps that write
  an enquiry's link disturb it.
* `ConvertedLeadsToItsBooking`, `PricedAsFrozen`, from `LinkInv`: what a booking says of its
  quotation, price and enquiry, what a claim carries, and that a sync that is about to write
  CONVERTED read it on a row that already pointed to its booking.
* `OneLiveBooking`: from `TypeInv` and the guard of each insert and restore; the unique
  index is all it takes.
* `LedgerImplemented == Spec => ImplementsLedger`: the refinement of `SaleLedger`. `Offered`
  and `Sales` are the refinement mapping; every step is mapped to a step of the ledger or a
  stutter, the acceptance from `SaleInv` and `LinkInv`, the first send from `TypeInv`.
* `OneOpenOffer`, without "mirror" and "delete" in the mix: with them it is false, by
  bringing a second offer to an enquiry behind the send that withdrew the others.

**`JobQueueProofs`**, from `JobQueueAssumption`. `TypeCorrect` holds whatever is slow.
`OneWorker`, `Bounded` and `SettledForGood` are under `Punctual` (no batch outlasts the
sweep's horizon; without it they are false, section 5). The invariant is
`TypeOK /\ Faithful /\ Apart /\ Spare /\ AttemptsBounded`: what a worker holds in memory is
still so in the table, no job is in two places, and a job that may be claimed again has an
attempt left or a mishap to blame. A `succeed` that throws leaves the job in its worker's hands
and only changes which way it is settled. `Spare` is the inductive form of the bound: a requeued job
keeps its attempts, so the bound can only be kept by paying for every requeue with a mishap.
`AttemptsBounded` is proved and not in a run: `Bounded` needs no instance.

**`WebhookDeliveryProofs`**, from the assumptions of the queue and its own, extends
`JobQueueProofs`.

* `OneWorkerDelivering`, `SettledWhileDelivering` (`Punctual`): the steps of the handler are
  steps of the queue, or a database error of the handler, which the queue's invariant
  survives as a mishap. The queue's proofs are used, not repeated.
* `DeliveryTypeCorrect`, `VerdictEarned`, whatever is slow: `Wired` (a job in anyone's hands
  names a delivery, a handler that is not handling stands at its start) and `Truthful`. Several
  jobs may carry one delivery, and slow workers run one job twice; so what a handler is about
  to write is compared with the history of posts, never with the row.
* `PendingKeepsItsJob` (`Punctual`): `PendingIsOpen` says more than the property, that the
  job which carries a pending delivery is not in the hands of a worker that is done with it.
  The property alone is not kept by the worker that marks its job as succeeded.

**`PaymentsProofs`**, from `PaymentsAssumption`.

* `MoneyTypesCorrect`, from `MoneyWired`: what each handler knows at each step (`Knows`).
* `StatusTells`, `OneOpenRequest`: every write of a request is one of a few moves
  (`RowMoves`); the sum that decides PAID is read inside the write.
* `OneVerifierAtATime`, without "notfound": who is past the claim holds it, on a request that
  is REPORTED (`ClaimsHeld`). An answer "not found" drops the claim under a running
  verification, and a second one begins: run `two_verifiers`.
* `ReceivedWasRecorded`, with every operation: `Covered` says that what a request received,
  and what it *had* when a verification in progress began, is covered by payments no handler
  can still undo (`Safe`), errors after the charge included. `received` alone is not kept by
  `VerifyRelease`, which puts back an earlier number; `Hands` says whose a payment is.
* `ConfirmedWasCharged`, without "staff" (who may confirm by hand): `Backed` says of every
  sum a handler carries that payments covering it had succeeded (`taken`). Totals may go down
  between the read and the write of the booking's status, and after it, when an error turns a
  payment into FAILED; what was taken is not given back, since nothing calls `refundPayment`.

**`TripsProofs`**, from `TripsAssumption`.

* `TripsTypeCorrect`, from `TripsWired`: what a request knows at each step.
* `OneLiveTrip`: the check and the insert of a handover are two steps; the partial unique
  index stands behind both, and no move of the table brings a cancelled trip back.
* `TableDecides`, `TripsMoveByTheTable`: from `TripsWired` alone, as the write is guarded by
  the status it read.
* `ReadyKeepsItsPromise`: `ReadyIsSetUp` with requests that die or throw anywhere. Where
  requests come to a trip one at a time, what a request read is still so (`Tracked`) and it is
  alone (`Alone`); a READY trip that is not set up then has a request on its way to demote it, or
  one that was cut short there, which `forsaken` records at that step and at no other.
* `NoneDepartsUnready`: a request about to write a departure passed the gate, and nobody else
  edits the trip meanwhile (`DepartureGated`), so it is set up, forsaken or not.
* What is proved is that overlap and interruption are the *only* ways to a READY that lies. Both
  are among the states `field` explores; section 5 describes them.

**`LiveProofs`**, from `IdempotencyAssumption` and `TrackerAssumption`.

* `KeyTypeCorrect`, `AtMostOnce`, `ReplayCorrect`: a request whose operation runs owns the
  unexpired row (`Exclusive`), effects are accounted for where none is pending (`Clean`), and
  the one that waits to be stored, or is stored, is the last one (`Pending`, `Kept`).
* `TrackerTypeCorrect`, for any number of passes. `TrackersAlive`, under `OnePass` (the worker
  is deployed as one service that runs passes one after another): a row that is provisioned
  has its device unless it was revived by an operator (`RowsAlive`), and a pass about to
  delete devices deletes those of retired rows only (`PassKnows`). Two passes would delete
  under each other, so the hypothesis is needed.
* `LiveTypesCorrect`: both, for the composed specification the run checks.

**`FieldProofs`**, one section for each component.

* *Reviews* `PublicIsApproved`: no request unwrites a review a moderator looks at, and a
  published row shows words approved at some time (`ReviewsInv`). The edit and the decision
  overlap, and both are written by id (`updateCustomerReview`, `moderateReview`); every edit of
  a published row takes it back to PENDING in the same statement. That the moderator *saw* the
  words does not follow, and is false (section 5).
* *Listings* `PublishedIsApproved`: a transition writes over the status it read, so one that
  remembers a status remembers one it may move from (`Remembers`). `ItineraryStaysWhole`: the
  days are replaced in one transaction.
* *Team* `OneCompany`: `TeamInv` says who holds the lock of a person, and that nobody who is
  past the look at his seats and holds it founded before; eighteen steps, each with what it
  leaves alone. `InvitationSpentOnce`: accepting spends the invitation in the same step, and
  nothing revives it (`SpentInv`).
* *Orders* `OneOrder`: the unique token, and a buyer at the items holds the order of his own
  token (`TokensInv`). `OversellBounded`: what was sold through the form together with what
  submissions past the check may still add (`Pledge`) stays within capacity and one largest
  submission for each *other* buyer (`RoomInv`). Oversold at all it may be, which section 5
  shows; the bound is what the check-then-act costs at most.
* *Types*, `FieldTypesCorrect`: a behaviour of the composed specification is one of each of the
  six components (`EachScene`), and each keeps its ranges. Two ranges are no matter of form. The
  items of an order stay within one largest edit for each member of staff and what the form
  asked for (`ItemsInv`: what is there, what staff between their delete and their insert
  still add, and what the form still adds, together), though any number of edits overlap. Meta
  takes a message no more often than its job was taken up, which is at most once per try and
  once per death of a worker (`PaidInv`).
* *Messaging* `NothingSentTwice`: a copy whose id was written down and did not fail is the one
  the row names (`RowTells`), and a handler past the check of the row knows of none
  (`HandTells`). It is an action property: the invariant holds at the step that posts.

**`SumLemmas`**: what `MapThenSumSet` adds up, for any finite set: it is a number, one more
entry adds its value, equal entries give equal sums, larger ones larger sums, one changed entry
changes the sum by the difference, entries of at most `k` add up to at most
`Cardinality(S) * k`. The library's induction theorems take an operator and cannot be
instantiated here; each lemma is proved by a smallest counterexample instead, from the
well-foundedness of the numbers.

**Only model-checked:**

* all liveness (`RequestsFinish`, `ClaimsAreShortLived`, `JobSettles`, `DeliverySettles`,
  `KeyIsFreed`, `RetiredDevicesGo`): liveness under fairness, and `ENABLED`, are beyond the
  prover;
* the four violated properties of section 5, which no theorem could state.

## 5. Where the code and its comments part

Behaviours of the model, and so of the code, that contradict a sentence of the repository.
The first four are runs; the others are reachable in the same modules and are described
instead of run. None is assumed away: a property that would meet one is checked in
instances whose `Mix` leaves the operation out, and says so.

**With a run**

1. *An acceptance is undone by a mirror* (`sync_race`). `upsertQuotationMirror` reads the
   row (`quotations.ts:1235`), decides that the status is its own, and updates by id
   (`:1314`). An acceptance that commits in between is overwritten. The test M1 in
   `tests/acceptance-integrity.test.ts:361` says an external sync cannot un-convert a
   locally CONVERTED quotation; it runs the two in sequence.
2. *Two verifications of one request* (`two_verifiers`). `paymentNotFound` clears the claim
   whoever holds it (`payment-requests.ts:750`); the traveller reports again, and a second
   verification claims the row while the first still records. Comment at `:621`.
3. *A booking's total is not the sum of its payments* (`totals`). `applyPaymentTotals`
   (`bookings.ts:480`) writes a sum read earlier; `createPayment` also marks a succeeded
   payment FAILED without adding up again (`payments/index.ts:96`). Comment at
   `bookings.ts:457-458`.
4. *A dead sale leaves a departure* (`dead_sale`). `cancelTripForBooking` selects any one
   trip of the booking (`trips.ts:1001`, `limit 1`) and gives up when that one is not
   waiting to leave; after a cancelled trip and a second handover that may be the dead one.
   Comment at `bookings.ts:359`.

**Without a run: the core**

5. *A send reopens a sale.* `quotations.ts:496` writes SENT by id, on a status read before
   the freeze. An acceptance in between leaves a booked quotation SENT. The comment at
   `:428` says only an open offer may be sent. A second booking is still refused by the
   enquiry's link or by the unique index, which is why `ConvertedHasItsBooking` and
   `OneLiveBookingPerQuotation` are stated as they are.
6. *Expiry rewrites a settled status.* The expiry check of acceptance comes before the
   status check (`:894-896`), so opening the accept link of a DECLINED or SUPERSEDED
   quotation past its date makes it EXPIRED; `:484` says a settled quotation must keep the
   status that records how it ended.
7. *Total and lines of a mirrored quotation.* The mirrored total is authoritative (`:1338`),
   acceptance books the sum of the frozen lines.
8. *A send can freeze an offer without lines.* The mirror deletes the lines (`:1319`) and
   inserts them later (`:1339`); a send between them freezes the empty offer for good, and
   its acceptance is then refused every time. Two mirrors at once can leave both sets.
9. *One reference, two quotations.* Two mirrors of a new reference both find no row and both
   insert (`:1327`); `:1201-1202` calls the mirror idempotent, and no index stands behind it.
10. *Restoring gives two open offers.* `restoreQuotation` (`:1386`) does not look at the
    enquiry's other offers; `:486-487` says an enquiry never has two.
11. *A claim outlives its process.* `payment-requests.ts:638` sets the claim as a column and
    nothing releases it after a crash, or after an error in the final write, but a new report;
    `db/schema.ts:1536` calls it short-lived.
12. *More recorded than was due.* What remains is computed from a row read before the claim
    (`payment-requests.ts:591`); a whole verification may fit in between, and both amounts
    are recorded as payments.
13. *A payment overrides CANCELLED.* `changeBookingStatus` checks, then writes by id
    (`bookings.ts:325`); `:484-485` says a payment never overrides a manual CANCELLED.
14. *One job, two workers.* A worker whose batch takes more than ten minutes loses its last
    jobs to the sweep (`jobs/queue.ts:113`) while it still means to run them, and the later
    of the two settlements stands, even over SUCCEEDED. The header of `queue.ts` says no
    job is handed to two workers.
15. *A job that kills its worker is never buried.* `requeueStalled` does not look at
    `max_attempts` (`queue.ts:110`), and `reschedule`, which does, is never reached.
16. *A late failure overwrites SUCCEEDED.* After a crash between queueing a retry and
    settling the job, or an error while settling it, two handlers may carry one delivery
    (`webhooks/deliver.ts:89`).
17. *A delivered event is sent again.* The update of the endpoint's counters shares the
    delivery's `try` (`deliver.ts:97`): if it fails, the delivery goes back to PENDING.
18. *A delivery without a job.* Row and job are two inserts (`events.ts:96`); an emitter
    that dies between them leaves a PENDING row nothing looks for.
19. *A second effect for one key.* The catch block of `withIdempotency`
    (`idempotency.ts:95`) also releases the key when only storing the answer failed;
    `:25` promises at most one run. `AtMostOncePerStoredAnswer` counts these.

**Without a run: operations and people**

20. *READY, and yet not set up.* `updateTrip` decides on the status it read before
    the edit (`trips.ts:967`) whether to re-check. An edit that read PREPARING, and overlaps the
    move to READY after its gate, takes a driver away and is not re-checked. The comment at
    `trips.ts:1028-1030` says that anything that removes a critical fact demotes the trip. The
    same is left behind by a request that dies, or whose re-check throws, between `:959` and the
    end of `:967` (`forsaken`); by `applyPaymentTotals`, which skips the re-check when it also
    moves the status, and swallows its error when it does not (`bookings.ts:497-502`); and by a
    driver or guide who is stood down while trips name them.
21. *Words the moderator never saw.* `moderateReview` decides by id
    (`reviews.ts:508`) on whatever the row holds; a correction since the page was loaded is
    published unread. A correction that read the review before it was published rewrites it by
    id likewise. `reviews.ts:394-395` says the platform has seen what is on a public page.
    `PublicWordsAreApproved` therefore says less: the public words are those the row held when a
    moderator last published it.
22. *A trip for a sale that just ended.* `createTripFromBooking` looks at the booking and then
    inserts; a cancellation between the two finds no trip to cancel. A cancellation whose cascade
    fails only logs it (`bookings.ts:362-366`), and the trip stays.
23. *Two passes over one ledger.* `scripts/tracking-worker.ts:17` says duplicate execution is
    safe; `sweepExpired` writes on a selection the other pass may have bound meanwhile.
24. *A closed enrolment that opens again.* `recordFailure` writes by id, so a cancelled row
    whose attempt fails late is active again; `enrollment.ts:339` says it stays CLOSED. If its
    clean-up was done by then, nothing cleans it a second time; if another row of the vehicle is
    in flight, `te_one_inflight_key` refuses the update and the pass ends there.
25. *Devices nobody deletes.* A row that ends FAILED keeps its device at the provider; and with
    two passes at once, one marks a clean-up done before the other's slow provisioning call
    creates the device. `RetiredDevicesGo` speaks of CLOSED rows, under one pass.
26. *A replay that echoes the caller.* Between the insert of an order and of its items a replay
    finds no stored line and answers with the quantity of the request; `order-links.ts:498` says
    it echoes the stored order.
27. *A batch that closes does kill the sale* when it closes between the submission's read and
    `createOrder`'s own check, against the comment that it must not.
28. *An order edited after it was confirmed.* `updateDraftOrder` reads the status and writes
    later, and its items add to those the buyer's handler has yet to insert.
    `changeOrderStatus` writes by id: two clerks bring a cancelled order back.
29. *An inbound message is lost.* Two handlers create one customer's conversation; the loser
    throws on the unique index, and its retry finds the event already claimed.
30. *SENT becomes FAILED.* The `catch` of `sendQueuedMessage` covers `markSendSuccess`
    (`messages.ts:246`); when only that write fails, the message is marked failed and is sent
    again on retry. So is one whose answer was never heard, or whose worker died before the id
    was written. `NoDoubleSend` does not speak of these: it says that a copy whose id was written
    down, and which did not fail, is not sent again, however often the job runs.
31. *Reports overwrite each other.* Delivery reports are written as they come, so READ goes back
    to DELIVERED, and a report that arrives before the message id is stored is lost.
32. *A message queued for ever.* A crash between the message row and its job leaves QUEUED, and
    `dedupeKey` answers every later call with that row.
33. *Opted out, and written to.* Compliance is asked when a message is queued, not when it is
    sent.
34. *Reviews that lose their history.* An edit can take REJECTED back to PENDING, and the
    operator's answer stays under words it did not answer.
35. *Seats beyond the plan.* `inviteMember` counts and then inserts; switching a seat on and
    accepting an invitation do not count at all; `team.ts:8` says the plan always wins.
36. *Two live invitations, or one that undoes a deactivation.* `issueToken` retires and then
    inserts. An unspent invitation switches a seat back on that was switched off;
    `team.ts:495` asks to reactivate it first. It also retires the same person's invitations to
    other companies.
37. *Galleries and destinations that merge.* Two editors' lists, each deleted and inserted in a
    READ COMMITTED transaction, are both kept when they are disjoint; `tours.ts:1098` (and
    `:707`) says replacing the whole list removes that class of bug. The itinerary is saved by
    its unique index, which is what `ItineraryIsWhole` shows.
38. *Approval of a listing that changed.* `transitionTour` checks completeness on submission
    only, so an edit can empty a listing before it is approved or published; the country of a
    listing may change under its destinations (`tours.ts:667`).

## 6. What is not modelled

Each for its reason; reads that only build pages are absent throughout.

* **Enquiries.** Their link to a booking is in `Quotations`. `createBookingRequest` is a
  dozen untransacted inserts that only grow a record, and the mirror
  (`booking-requests.ts:676`) reads, merges and writes one JSON column: the race is the lost
  update of every upsert here, without a second table to tell it from a correct order.
  Worth a module only together with the conversation that shares its row (section 7).
* **Quotations and bookings, the rest.** Public tokens, links and messages change no modelled
  state; travellers, items and notes are details no other operation reads.
* **Payments, the rest.** Hosted providers, reconciliation and refunds: no caller reaches them.
* **Orders placed by hand**, prices and the notes of an order; the cap on active links, a count
  before a write like the seat limit; `updateOrderLink`, which may move the cap under the orders
  already placed (section 2.8).
* **WhatsApp, the rest.** The service window, templates, onboarding sessions, credentials and
  the relay: text, expiry times and an external dialogue that the code answers one step at a
  time.
* **Listings, the rest.** Slugs, gallery, inclusions and departures of a tour are lists
  replaced as `SetTourDestinations` does it; prices are arithmetic (section 7).
* **Team, the rest.** Roles and overrides, sessions, passwords and one-time codes: single rows
  read and written by one request. Plans and usage counters are reports. Companies founded by the
  platform's staff (section 2.10): one admin at a time, under locks that a signup does not take.
* **Live tracking, Discovery, Marketplace queries.** Functions of rows, some over floating
  point, which TLA+ does not have.
* **Media, notifications, e-mail, push, AI.** Calls whose failure is logged and forgotten.
* **HTTP plumbing, pages, scripts, schema details.** Single requests and generated code. A
  route appears where it decides what an action may be given.
* **Time.** Backoff, deadlines and leases appear as events that may happen at any moment
  (`Lapse`, `GrowOld`, `Expire`, `LinkLapses`), never as numbers.
* **Tenants.** No modelled operation crosses them, but for `Team`, which has companies.

## 7. Plan

Done: the core and the components of section 1.2. Left, in this order:

1. **Pricing** (`pricing.ts`, `quotation-lines.ts`, `money.ts`) as functions, against
   reference definitions over bounded inputs.
2. **Enquiries** with the conversation they come from, composed with `Quotations`.

Runs stay as few as the questions: a component that shares no state with the others is a scene
of `live` or `field`, and smaller questions about one component share an instance.

## 8. Running

    tlc -config MCQuotationsSales.cfg MCQuotations.tla
    tlapm QuotationsProofs.tla

The longest run takes about three minutes with two workers; the proofs of all modules together
take about a quarter of an hour with two threads.
