--------------------------- MODULE WebhookDelivery ---------------------------
(***************************************************************************)
(* Events for a tenant's own server (events.ts, webhooks/deliver.ts) on    *)
(* top of the job queue: emit inserts a delivery row and queues a job that *)
(* names it; the handler of that job posts the event, writes down what     *)
(* came of it, and queues another job while there are attempts left.       *)
(*                                                                         *)
(* The queue's retries and the delivery's are two counters.  The handler   *)
(* swallows a failed post, so its job succeeds; only a database error      *)
(* makes the handler throw.                                                *)
(***************************************************************************)
EXTENDS JobQueue

CONSTANTS
  Deliveries,  \* webhook_deliveries rows of one endpoint
  MaxTries     \* MAX_ATTEMPTS of deliver.ts

ASSUME WebhookAssumption ==
  /\ MaxTries \in Nat \ {0}
  /\ None \notin Deliveries

VARIABLES
  delivery,  \* webhook_deliveries: status and attempts
  payload,   \* jobs.payload.deliveryId
  emitting,  \* rows inserted whose job is not queued yet
  usable,    \* the endpoint's signing secret can be read
  sending,   \* where the handler of each worker stands
  posts      \* history: what the endpoint was sent, and whether it took it in

hookVars == <<delivery, payload, emitting, usable, sending, posts>>
deliveryVars == <<queueVars, hookVars>>

DeliveryRow == [status : {"ABSENT", "PENDING", "SUCCEEDED", "DEAD", "GONE"}, attempts : 0..MaxTries]

\* caught: the handler runs in its catch block.
Sending == [at : {"start", "disable", "post", "accept", "accepted", "fail", "retry", "done"},
            attempt : 0..MaxTries,
            caught : BOOLEAN]

DeliveryTypeOK ==
  /\ TypeOK
  /\ delivery \in [Deliveries -> DeliveryRow]
  /\ payload \in [Jobs -> Deliveries \cup {None}]
  /\ emitting \subseteq Deliveries
  /\ usable \in BOOLEAN
  /\ sending \in [Workers -> Sending]
  /\ posts \in [Deliveries -> [sent : Nat, taken : BOOLEAN]]

Start == [at |-> "start", attempt |-> 0, caught |-> FALSE]

DeliveryInit ==
  /\ Init
  /\ delivery = [d \in Deliveries |-> [status |-> "ABSENT", attempts |-> 0]]
  /\ payload = [j \in Jobs |-> None]
  /\ emitting = {}
  /\ usable = TRUE
  /\ sending = [w \in Workers |-> Start]
  /\ posts = [d \in Deliveries |-> [sent |-> 0, taken |-> FALSE]]

-----------------------------------------------------------------------------
(* emit: insert, then enqueue.  An emitter that dies, or whose enqueue     *)
(* fails, never takes the second step.                                     *)

EmitInsert(d) ==
  /\ delivery[d].status = "ABSENT"
  /\ delivery' = [delivery EXCEPT ![d].status = "PENDING"]
  /\ emitting' = emitting \cup {d}
  /\ UNCHANGED <<queueVars, payload, usable, sending, posts>>

EnqueueDelivery(d) ==
  \E j \in Jobs : Enqueue(j) /\ payload' = [payload EXCEPT ![j] = d]

EmitEnqueue(d) ==
  /\ d \in emitting
  /\ EnqueueDelivery(d)
  /\ emitting' = emitting \ {d}
  /\ UNCHANGED <<delivery, usable, sending, posts>>

\* The key that sealed the secret is lost.  (Nothing in the program clears
\* is_active, which deliverPendingWebhook treats the same way.)
LoseSecret ==
  /\ usable
  /\ usable' = FALSE
  /\ UNCHANGED <<queueVars, delivery, payload, emitting, sending, posts>>

\* deleteEndpoint: its deliveries go with it, and no more can be inserted.
DeleteEndpoint ==
  /\ \E d \in Deliveries : delivery[d].status # "GONE"
  /\ delivery' = [d \in Deliveries |-> [delivery[d] EXCEPT !.status = "GONE"]]
  /\ UNCHANGED <<queueVars, payload, emitting, usable, sending, posts>>

-----------------------------------------------------------------------------
(* deliverPendingWebhook, the handler.                                     *)

Handling(w) == payload[worker[w].current.id]

InHandler(w, step) == worker[w].at = "handling" /\ sending[w].at = step

Go(w, step) == sending' = [sending EXCEPT ![w].at = step]

\* The handler ends, and is at its start for the next job.
Leave(w, outcome) == Return(w, outcome) /\ sending' = [sending EXCEPT ![w] = Start]

\* An update by id: a row that was deleted meanwhile is not there to write.
Wrote(w, row) ==
  delivery' = IF delivery[Handling(w)].status = "GONE"
              THEN delivery
              ELSE [delivery EXCEPT ![Handling(w)] = row]

Over(status) == status \in {"SUCCEEDED", "DEAD", "GONE"}

DeliverRead(w) ==
  LET row == delivery[Handling(w)]
  IN  /\ InHandler(w, "start")
      /\ \/ Over(row.status) /\ Leave(w, "done")
         \/ ~Over(row.status) /\ ~usable /\ Go(w, "disable") /\ UNCHANGED queueVars
         \/ /\ ~Over(row.status) /\ usable
            /\ sending' = [sending EXCEPT ![w] = [Start EXCEPT !.at = "post",
                                                               !.attempt = row.attempts + 1]]
            /\ UNCHANGED queueVars
      /\ UNCHANGED <<delivery, payload, emitting, usable, posts>>

DeliverDisabled(w) ==
  /\ InHandler(w, "disable")
  /\ Wrote(w, [delivery[Handling(w)] EXCEPT !.status = "DEAD"])
  /\ Leave(w, "done")
  /\ UNCHANGED <<payload, emitting, usable, posts>>

\* The endpoint answers with success or another status, or is not heard
\* (though it may have taken the event in).
Post(w) ==
  /\ InHandler(w, "post")
  /\ \E taken, heard \in BOOLEAN :
       /\ posts' = [posts EXCEPT ![Handling(w)] = [sent |-> @.sent + 1, taken |-> @.taken \/ taken]]
       /\ sending' = [sending EXCEPT ![w].at = IF taken /\ heard THEN "accept" ELSE "fail",
                                     ![w].caught = ~heard]
  /\ UNCHANGED <<queueVars, delivery, payload, emitting, usable>>

\* Two updates: the delivery, then the endpoint's counters.
DeliverAccept(w) ==
  /\ InHandler(w, "accept")
  /\ Wrote(w, [status |-> "SUCCEEDED", attempts |-> sending[w].attempt])
  /\ Go(w, "accepted")
  /\ UNCHANGED <<queueVars, payload, emitting, usable, posts>>

DeliverAccepted(w) ==
  /\ InHandler(w, "accepted")
  /\ Leave(w, "done")
  /\ UNCHANGED <<delivery, payload, emitting, usable, posts>>

\* recordFailure.
\* Mutants: one attempt fewer than allowed; a failed delivery counts as done.
FailedMutant(attempt) ==
  [status |-> IF attempt + 1 >= MaxTries THEN "DEAD" ELSE "PENDING", attempts |-> attempt]
FailedTypeMutant(attempt) ==
  [status |-> IF attempt >= MaxTries THEN "FAILED" ELSE "PENDING", attempts |-> attempt]

Failed(attempt) ==
  [status |-> IF attempt >= MaxTries THEN "DEAD" ELSE "PENDING", attempts |-> attempt]

DeliverFail(w) ==
  LET row == Failed(sending[w].attempt)
  IN  /\ InHandler(w, "fail")
      /\ Wrote(w, row)
      /\ Go(w, IF row.status = "PENDING" THEN "retry" ELSE "done")
      /\ UNCHANGED <<queueVars, payload, emitting, usable, posts>>

\* Mutant: the next job is left to a sweep nobody wrote.
RetryQueuedMutant(d) == UNCHANGED <<queueVars, payload>>

RetryQueued(d) == EnqueueDelivery(d)

DeliverRetry(w) ==
  /\ InHandler(w, "retry")
  /\ RetryQueued(Handling(w))
  /\ Go(w, "done")
  /\ UNCHANGED <<delivery, emitting, usable, posts>>

DeliverDone(w) ==
  /\ InHandler(w, "done")
  /\ Leave(w, "done")
  /\ UNCHANGED <<delivery, payload, emitting, usable, posts>>

\* A database call fails.  After the post the first failure lands in the catch
\* block, which records a failed attempt; any other leaves the handler.
DatabaseError(w) ==
  /\ "throw" \in Mix
  /\ mishaps < MaxMishaps
  /\ worker[w].at = "handling" /\ sending[w].at \notin {"post", "done"}
  /\ mishaps' = mishaps + 1
  /\ IF sending[w].at \in {"start", "disable"} \/ sending[w].caught
     THEN /\ worker' = [worker EXCEPT ![w].at = "failed"]
          /\ sending' = [sending EXCEPT ![w] = Start]
     ELSE /\ sending' = [sending EXCEPT ![w].at = "fail", ![w].caught = TRUE]
          /\ UNCHANGED worker
  /\ UNCHANGED <<job, delivery, payload, emitting, usable, posts>>

Deliver(w) ==
  \/ DeliverRead(w) \/ DeliverDisabled(w) \/ Post(w)
  \/ DeliverAccept(w) \/ DeliverAccepted(w)
  \/ DeliverFail(w) \/ DeliverRetry(w) \/ DeliverDone(w)

\* What the queue does on its own.
QueueStep(w) == (Claim(w) \/ Take(w) \/ Succeed(w) \/ Reschedule(w)) /\ UNCHANGED hookVars

CrashDelivery(w) ==
  /\ Crash(w)
  /\ sending' = [sending EXCEPT ![w] = Start]
  /\ UNCHANGED <<delivery, payload, emitting, usable, posts>>

\* The handler is over; the queue cannot write that it is.
SettlingThrows(w) == SucceedThrows(w) /\ UNCHANGED hookVars

SweepJobs == Sweep /\ UNCHANGED hookVars

DeliveryNext ==
  \/ \E d \in Deliveries : EmitInsert(d) \/ EmitEnqueue(d)
  \/ LoseSecret \/ DeleteEndpoint
  \/ \E w \in Workers : QueueStep(w) \/ Deliver(w) \/ DatabaseError(w) \/ CrashDelivery(w)
                         \/ SettlingThrows(w)
  \/ SweepJobs

DeliverySpec == DeliveryInit /\ [][DeliveryNext]_deliveryVars

\* The fairness of the queue, and a handler that runs ends: a post is cut off
\* after TIMEOUT_MS.  Nothing makes the emitter go on.
FairDeliverySpec ==
  /\ DeliverySpec
  /\ \A w \in Workers : WF_deliveryVars(QueueStep(w) \/ Deliver(w))
  /\ WF_deliveryVars(RequeueStalled /\ UNCHANGED hookVars)
  /\ \A j \in Jobs : WF_deliveryVars(GrowOld(j) /\ UNCHANGED <<mishaps, hookVars>>)

-----------------------------------------------------------------------------
(* Properties.                                                             *)

Carries(j, d) == payload[j] = d /\ job[j].status \in {"PENDING", "RUNNING", "DEAD"}

\* Nothing looks for PENDING deliveries, so one that was emitted must always
\* be named by a job that is not done, or was buried where staff can see it
\* (recordFailure's enqueue against crashes and two jobs for one delivery).
PendingHasJob ==
  \A d \in Deliveries :
    delivery[d].status = "PENDING" /\ d \notin emitting => \E j \in Jobs : Carries(j, d)

\* A delivery only ever says SUCCEEDED after the endpoint took the event in, and
\* DEAD after MAX_ATTEMPTS posts or because its secret was lost, whichever of
\* several jobs wrote the row last (deliverPendingWebhook, recordFailure).
VerdictIsEarned ==
  \A d \in Deliveries :
    /\ delivery[d].status = "SUCCEEDED" => posts[d].taken
    /\ delivery[d].status = "DEAD" => posts[d].sent >= MaxTries \/ ~usable

\* Every delivery whose job was queued ends: delivered, given up, or held by a
\* job that was buried (emit, deliverPendingWebhook, the queue's recovery).
DeliverySettles ==
  \A d \in Deliveries :
    delivery[d].status = "PENDING" /\ d \notin emitting
      ~> \/ Over(delivery[d].status)
         \/ \E j \in Jobs : payload[j] = d /\ job[j].status = "DEAD"
=============================================================================
