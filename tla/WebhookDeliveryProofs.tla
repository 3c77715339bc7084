------------------------ MODULE WebhookDeliveryProofs ------------------------
(***************************************************************************)
(* For any number of deliveries, jobs, workers and attempts: the types of  *)
(* WebhookDelivery, that a verdict on a delivery is earned, and, where no  *)
(* batch outlasts the sweep's patience, that a pending delivery always has *)
(* a job and that the queue's own guarantees survive its handlers.         *)
(***************************************************************************)
EXTENDS WebhookDelivery, JobQueueProofs

USE JobQueueAssumption, WebhookAssumption

\* What the handlers do to the queue that the queue does not do by itself: a
\* database error counts as a mishap, and may make the handler throw.
Thrown(w) ==
  /\ mishaps < MaxMishaps /\ mishaps' = mishaps + 1
  /\ UNCHANGED job
  /\ \/ worker[w].at = "handling" /\ worker' = [worker EXCEPT ![w].at = "failed"]
     \/ UNCHANGED worker

LEMMA QueueView ==
  [DeliveryNext]_deliveryVars => [Next]_queueVars \/ \E w \in Workers : Thrown(w)
<1> SUFFICES ASSUME [DeliveryNext]_deliveryVars
             PROVE  [Next]_queueVars \/ \E w \in Workers : Thrown(w)
  OBVIOUS
<1>1. ASSUME NEW d \in Deliveries, EmitInsert(d) \/ EmitEnqueue(d) PROVE [Next]_queueVars
  BY <1>1 DEF EmitInsert, EmitEnqueue, EnqueueDelivery, Next
<1>2. CASE LoseSecret \/ DeleteEndpoint
  BY <1>2 DEF LoseSecret, DeleteEndpoint
<1>3. ASSUME NEW w \in Workers, QueueStep(w) \/ CrashDelivery(w) \/ SettlingThrows(w)
      PROVE  [Next]_queueVars
  BY <1>3 DEF QueueStep, CrashDelivery, SettlingThrows, Next, Work
<1>4. ASSUME NEW w \in Workers, Leave(w, "done") PROVE Next
  BY <1>4 DEF Leave, Next, Work
<1>5. ASSUME NEW w \in Workers, Deliver(w) PROVE [Next]_queueVars
  <2>1. CASE DeliverRead(w) \/ DeliverDisabled(w) \/ DeliverAccepted(w) \/ DeliverDone(w)
    BY <1>4, <2>1 DEF DeliverRead, DeliverDisabled, DeliverAccepted, DeliverDone
  <2>2. CASE Post(w) \/ DeliverAccept(w) \/ DeliverFail(w)
    BY <2>2 DEF Post, DeliverAccept, DeliverFail
  <2>3. CASE DeliverRetry(w)
    BY <2>3 DEF DeliverRetry, RetryQueued, EnqueueDelivery, Next
  <2> QED
    BY <1>5, <2>1, <2>2, <2>3 DEF Deliver
<1>6. ASSUME NEW w \in Workers, DatabaseError(w) PROVE Thrown(w)
  BY <1>6 DEF DatabaseError, Thrown
<1>7. CASE SweepJobs
  BY <1>7 DEF SweepJobs, Next
<1>8. CASE UNCHANGED deliveryVars
  BY <1>8 DEF deliveryVars
<1> QED
  BY <1>1, <1>2, <1>3, <1>5, <1>6, <1>7, <1>8 DEF DeliveryNext

LEMMA ThrownInv == ASSUME Inv, NEW w \in Workers, Thrown(w) PROVE Inv'
<1>1. TypeOK'
  BY DEF Thrown, Inv, TypeOK, Worker
<1>2. \A v \in Workers : InHand(v)' = InHand(v) /\ worker'[v].current \notin worker'[v].batch
  BY DEF Thrown, InHand, Inv, TypeOK, Apart, Worker
<1>3. Faithful' /\ Apart'
  BY <1>2 DEF Thrown, Inv, Faithful, Apart
<1>4. Spare' /\ AttemptsBounded'
  <2>1. \A j \in Jobs : job[j].attempts \in Nat
    BY DEF Inv, TypeOK, Job
  <2>2. mishaps \in Nat /\ mishaps' = mishaps + 1 /\ job' = job
    BY DEF Thrown, Inv, TypeOK
  <2>3. \A j \in Jobs : Loose(j)' => Loose(j)
    BY <1>2, <2>2 DEF Loose
  <2> QED
    BY <2>1, <2>2, <2>3 DEF Inv, Spare, AttemptsBounded
<1> QED
  BY <1>1, <1>3, <1>4 DEF Inv

LEMMA QueueInvStep == Punctual /\ Inv /\ [DeliveryNext]_deliveryVars => Inv'
BY QueueView, ThrownInv, NextInv

LEMMA QueueInv == ASSUME Punctual PROVE DeliverySpec => []Inv
<1>1. DeliveryInit => Inv
  BY InitInv DEF DeliveryInit
<1> QED
  BY <1>1, QueueInvStep, PTL DEF DeliverySpec

\* With the webhook handler running the jobs, its database errors included, no
\* job is in two workers' hands (claim, and the sweep's horizon).
THEOREM OneWorkerDelivering == ASSUME Punctual PROVE DeliverySpec => []OneWorkerPerJob
<1>1. Inv => OneWorkerPerJob
  BY DEF Inv, Apart, OneWorkerPerJob, Holds, InHand
<1> QED
  BY <1>1, QueueInv, PTL

\* A job the webhook handler finished, or that was buried, is never taken up
\* again (succeed, reschedule, requeueStalled).
THEOREM SettledWhileDelivering == ASSUME Punctual PROVE DeliverySpec => SettledStays
<1>1. Inv /\ [DeliveryNext]_deliveryVars =>
        [\A j \in Jobs : job[j].status \in Settled => job'[j].status = job[j].status]_queueVars
  BY QueueView, SettledStep DEF Thrown
<1> QED
  BY <1>1, QueueInv, PTL DEF DeliverySpec, SettledStays

-----------------------------------------------------------------------------
(* What the handler knows and writes.                                      *)

\* A job in a worker's hands was queued, and a job that was queued names a
\* delivery; both for ever, however the queue passes jobs around.
InHandQueued == \A w \in Workers : \A c \in InHand(w) : job[c.id].status # "ABSENT"

JobsNamed == \A j \in Jobs : job[j].status # "ABSENT" => payload[j] \in Deliveries

BeginsAtStart == \A w \in Workers : worker[w].at # "handling" => sending[w] = Start

\* What a row says of its delivery is so: one that may be tried has a try left,
\* every attempt on record was a post, and a verdict was earned.
RowTrue(d) ==
  /\ delivery[d].status \in {"ABSENT", "PENDING"} => delivery[d].attempts < MaxTries
  /\ delivery[d].attempts <= posts[d].sent
  /\ delivery[d].status = "SUCCEEDED" => posts[d].taken
  /\ delivery[d].status = "DEAD" => posts[d].sent >= MaxTries \/ ~usable

\* What the handler is about to write is true of its delivery.
Earning(w) ==
  worker[w].at = "handling" =>
    /\ sending[w].at = "post" => sending[w].attempt <= posts[Handling(w)].sent + 1
    /\ sending[w].at \in {"accept", "accepted", "fail", "retry", "done"} =>
         sending[w].attempt <= posts[Handling(w)].sent
    /\ sending[w].at = "accept" => posts[Handling(w)].taken
    /\ sending[w].at = "disable" => ~usable

Wired == DeliveryTypeOK /\ InHandQueued /\ JobsNamed /\ BeginsAtStart

Truthful == (\A d \in Deliveries : RowTrue(d)) /\ \A w \in Workers : Earning(w)

DeliveryInv == Wired /\ Truthful

LEMMA QueuedStep ==
  TypeOK /\ InHandQueued /\ [DeliveryNext]_deliveryVars =>
    TypeOK' /\ InHandQueued' /\ \A j \in Jobs : job[j].status # "ABSENT" => job'[j].status # "ABSENT"
<1> SUFFICES ASSUME TypeOK, InHandQueued, [DeliveryNext]_deliveryVars
             PROVE  /\ TypeOK' /\ InHandQueued'
                    /\ \A j \in Jobs : job[j].status # "ABSENT" => job'[j].status # "ABSENT"
  OBVIOUS
<1> DEFINE Kept == \A j \in Jobs : job[j].status # "ABSENT" => job'[j].status # "ABSENT"
           SameHeld == \A w \in Workers : InHand(w)' \subseteq InHand(w)
<1>0. \A w \in Workers : InHand(w) \subseteq Claimed
  BY InHandType
<1>1. Kept /\ SameHeld => InHandQueued'
  BY <1>0 DEF InHandQueued, Claimed
<1>2. ASSUME NEW w \in Workers, Thrown(w) PROVE TypeOK' /\ Kept /\ SameHeld
  <2>1. TypeOK'
    BY <1>2 DEF Thrown, TypeOK, Worker
  <2>2. SameHeld
    BY <1>2 DEF Thrown, TypeOK, InHand, Worker
  <2> QED
    BY <1>2, <2>1, <2>2 DEF Thrown
<1>3. CASE [Next]_queueVars
  <2>1. TypeOK'
    BY <1>3, NextTyped
  <2>2. ASSUME NEW w \in Workers, Claim(w) PROVE Kept /\ InHandQueued'
    <3>1. PICK due \in SUBSET Due :
            /\ job' = [j \in Jobs |->
                         IF j \in due
                         THEN [status |-> "RUNNING", attempts |-> job[j].attempts + 1, old |-> FALSE]
                         ELSE job[j]]
            /\ worker' = [worker EXCEPT ![w].batch =
                            {[id |-> j, attempts |-> job[j].attempts + 1] : j \in due}]
      BY <2>2 DEF Claim
    <3>2. Kept
      BY <3>1 DEF Due
    <3>3. \A v \in Workers \ {w} : InHand(v)' = InHand(v)
      BY <3>1 DEF InHand, TypeOK
    <3>4. InHand(w)' = {[id |-> j, attempts |-> job[j].attempts + 1] : j \in due}
      BY <2>2, <3>1 DEF Claim, InHand, Free, TypeOK
    <3>5. \A c \in InHand(w)' : c.id \in Jobs /\ job'[c.id].status = "RUNNING"
      BY <3>1, <3>4 DEF Due
    <3> QED
      BY <1>0, <3>2, <3>3, <3>5 DEF InHandQueued, Claimed
  <2>3. ASSUME NEW w \in Workers, Take(w) \/ Return(w, "done") \/ Return(w, "failed")
        PROVE  Kept /\ SameHeld
    BY <2>3 DEF Take, Return, InHand, TypeOK, Worker
  <2>4. ASSUME NEW w \in Workers, Succeed(w) \/ Reschedule(w) PROVE Kept /\ SameHeld
    <3>1. SameHeld
      <4>1. worker' = [worker EXCEPT ![w] = [@ EXCEPT !.at = "idle", !.current = None]]
        BY <2>4 DEF Succeed, Reschedule, PutDown
      <4>2. worker'[w].batch = worker[w].batch /\ worker'[w].current = None
        BY <4>1 DEF TypeOK, Worker
      <4>3. InHand(w)' = worker[w].batch
        BY <4>2 DEF InHand
      <4>4. \A v \in Workers \ {w} : InHand(v)' = InHand(v)
        BY <4>1 DEF InHand, TypeOK
      <4> QED
        BY <4>3, <4>4 DEF InHand
    <3>2. PICK s \in {"SUCCEEDED", "DEAD", "PENDING"} :
            job' = [job EXCEPT ![worker[w].current.id].status = s]
      BY <2>4 DEF Succeed, Reschedule
    <3> QED
      BY <3>1, <3>2 DEF TypeOK, Job
  <2>5. ASSUME NEW j \in Jobs, Enqueue(j) \/ GrowOld(j) PROVE Kept /\ SameHeld
    BY <2>5 DEF Enqueue, GrowOld, InHand, TypeOK, Job
  <2>6. ASSUME RequeueStalled PROVE Kept /\ SameHeld
    <3>1. SameHeld
      BY <2>6 DEF RequeueStalled, InHand
    <3>2. Kept
      BY <2>6 DEF RequeueStalled, TypeOK, Job
    <3> QED
      BY <3>1, <3>2
  <2>7. ASSUME NEW w \in Workers, Crash(w) \/ SucceedThrows(w) PROVE Kept /\ SameHeld
    <3>1. CASE Crash(w)
      BY <3>1 DEF Crash, Free, InHand, TypeOK
    <3>2. CASE SucceedThrows(w)
      BY <3>2 DEF SucceedThrows, InHand, TypeOK, Worker
    <3> QED
      BY <2>7, <3>1, <3>2
  <2>8. ASSUME UNCHANGED queueVars PROVE Kept /\ SameHeld
    <3>1. SameHeld
      BY <2>8 DEF queueVars, InHand
    <3>2. Kept
      BY <2>8 DEF queueVars
    <3> QED
      BY <3>1, <3>2
  <2> HIDE DEF Kept, SameHeld
  <2>9. ASSUME NEW w \in Workers, Work(w) PROVE Kept /\ InHandQueued'
    BY <1>1, <2>2, <2>3, <2>4, <2>9 DEF Work
  <2>10. Kept /\ InHandQueued'
    BY <1>1, <1>3, <2>5, <2>6, <2>7, <2>8, <2>9 DEF Next, Sweep
  <2> QED
    BY <2>1, <2>10 DEF Kept
<1> QED
  BY <1>1, <1>2, <1>3, QueueView

LEMMA HandlingNamed ==
  ASSUME Wired, NEW w \in Workers, worker[w].at = "handling"
  PROVE  /\ worker[w].current \in Claimed /\ worker[w].current.id \in Jobs
         /\ job[worker[w].current.id].status # "ABSENT"
         /\ Handling(w) \in Deliveries
<1>1. worker[w].current \in Claimed /\ worker[w].current # None
  BY DEF Wired, DeliveryTypeOK, TypeOK, Worker
<1>2. worker[w].current \in InHand(w) /\ worker[w].current.id \in Jobs
  BY <1>1 DEF InHand, Claimed
<1> QED
  BY <1>1, <1>2 DEF Wired, InHandQueued, JobsNamed, Handling

LEMMA RowEdit ==
  ASSUME NEW v \in DeliveryRow
  PROVE  /\ v.attempts \in 0..MaxTries
         /\ \A s \in {"ABSENT", "PENDING", "SUCCEEDED", "DEAD", "GONE"} :
              /\ [v EXCEPT !.status = s] \in DeliveryRow
              /\ [v EXCEPT !.status = s].status = s
              /\ [v EXCEPT !.status = s].attempts = v.attempts
BY DEF DeliveryRow

LEMMA SendingEdit ==
  ASSUME NEW v \in Sending
  PROVE  /\ v.attempt \in 0..MaxTries
         /\ \A s \in {"start", "disable", "post", "accept", "accepted", "fail", "retry", "done"} :
              /\ [v EXCEPT !.at = s] \in Sending
              /\ [v EXCEPT !.at = s].at = s
              /\ [v EXCEPT !.at = s].attempt = v.attempt
              /\ \A c \in BOOLEAN : /\ [v EXCEPT !.at = s, !.caught = c] \in Sending
                                    /\ [v EXCEPT !.at = s, !.caught = c].at = s
                                    /\ [v EXCEPT !.at = s, !.caught = c].attempt = v.attempt
BY DEF Sending

LEMMA StartTyped == Start \in Sending /\ Start.at = "start"
BY DEF Start, Sending

\* A job keeps its delivery: payload is only written for a job that was absent.
Rerouted ==
  \/ UNCHANGED payload /\ \A j \in Jobs : job[j].status = "ABSENT" => job'[j].status = "ABSENT"
  \/ \E j \in Jobs, d \in Deliveries : Enqueue(j) /\ payload' = [payload EXCEPT ![j] = d]

LEMMA RoutesKept ==
  ASSUME Wired, Rerouted
  PROVE  /\ payload' \in [Jobs -> Deliveries \cup {None}]
         /\ JobsNamed'
         /\ \A j \in Jobs : job[j].status # "ABSENT" => payload'[j] = payload[j]
<1>1. CASE UNCHANGED payload /\ \A j \in Jobs : job[j].status = "ABSENT" => job'[j].status = "ABSENT"
  BY <1>1 DEF Wired, DeliveryTypeOK, JobsNamed
<1>2. ASSUME NEW j \in Jobs, NEW d \in Deliveries, Enqueue(j), payload' = [payload EXCEPT ![j] = d]
      PROVE  /\ payload' \in [Jobs -> Deliveries \cup {None}]
             /\ JobsNamed'
             /\ \A i \in Jobs : job[i].status # "ABSENT" => payload'[i] = payload[i]
  BY <1>2 DEF Enqueue, Wired, DeliveryTypeOK, JobsNamed, TypeOK
<1> QED
  BY <1>1, <1>2 DEF Rerouted

LEMMA ReroutedStep == Wired /\ [DeliveryNext]_deliveryVars => Rerouted
<1> SUFFICES ASSUME Wired, [DeliveryNext]_deliveryVars PROVE Rerouted
  OBVIOUS
<1> DEFINE NoNew == \A j \in Jobs : job[j].status = "ABSENT" => job'[j].status = "ABSENT"
<1>1. ASSUME NEW d \in Deliveries, EmitInsert(d) \/ EmitEnqueue(d) PROVE Rerouted
  BY <1>1 DEF EmitInsert, EmitEnqueue, EnqueueDelivery, Rerouted, queueVars
<1>2. CASE LoseSecret \/ DeleteEndpoint \/ UNCHANGED deliveryVars
  BY <1>2 DEF LoseSecret, DeleteEndpoint, deliveryVars, hookVars, Rerouted, queueVars
<1>3. ASSUME NEW w \in Workers, DeliverRetry(w) PROVE Rerouted
  <2>1. Handling(w) \in Deliveries
    BY <1>3, HandlingNamed DEF DeliverRetry, InHandler
  <2> QED
    BY <1>3, <2>1 DEF DeliverRetry, RetryQueued, EnqueueDelivery, Rerouted
<1>4. ASSUME NEW w \in Workers, Leave(w, "done") \/ UNCHANGED queueVars PROVE NoNew
  BY <1>4 DEF Leave, Return, queueVars
<1>5. ASSUME NEW w \in Workers,
             \/ DeliverRead(w) \/ DeliverDisabled(w) \/ Post(w) \/ DeliverAccept(w)
             \/ DeliverAccepted(w) \/ DeliverFail(w) \/ DeliverDone(w)
      PROVE  Rerouted
  BY <1>4, <1>5 DEF DeliverRead, DeliverDisabled, Post, DeliverAccept, DeliverAccepted,
    DeliverFail, DeliverDone, Rerouted
<1>6. ASSUME NEW w \in Workers, DatabaseError(w) \/ CrashDelivery(w) \/ SettlingThrows(w)
      PROVE  Rerouted
  BY <1>6 DEF DatabaseError, CrashDelivery, Crash, SettlingThrows, SucceedThrows, hookVars, Rerouted
<1>7. ASSUME NEW w \in Workers, QueueStep(w) PROVE Rerouted
  <2>1. CASE Claim(w)
    <3>1. NoNew
      BY <2>1 DEF Claim, Due
    <3> QED
      BY <1>7, <3>1 DEF QueueStep, hookVars, Rerouted
  <2>2. CASE Take(w)
    BY <1>7, <2>2 DEF QueueStep, hookVars, Rerouted, Take
  <2>3. CASE Succeed(w) \/ Reschedule(w)
    <3>1. worker[w].current # None
      BY <2>3 DEF Succeed, Reschedule, Wired, DeliveryTypeOK, TypeOK
    <3>2. worker[w].current \in InHand(w)
      BY <3>1 DEF InHand
    <3>3. job[worker[w].current.id].status # "ABSENT"
      BY <3>2 DEF Wired, InHandQueued
    <3>4. \A j \in Jobs : j # worker[w].current.id => job'[j] = job[j]
      BY <2>3 DEF Succeed, Reschedule, Wired, DeliveryTypeOK, TypeOK
    <3> QED
      BY <1>7, <3>3, <3>4 DEF QueueStep, hookVars, Rerouted
  <2> QED
    BY <1>7, <2>1, <2>2, <2>3 DEF QueueStep
<1>8. CASE SweepJobs
  <2>1. NoNew
    BY <1>8 DEF SweepJobs, Sweep, RequeueStalled, Stalled, GrowOld, Wired, DeliveryTypeOK, TypeOK, Job
  <2> QED
    BY <1>8, <2>1 DEF SweepJobs, hookVars, Rerouted
<1> HIDE DEF NoNew
<1> QED
  BY <1>1, <1>2, <1>3, <1>5, <1>6, <1>7, <1>8 DEF DeliveryNext, Deliver

-----------------------------------------------------------------------------
(* Step by step: what was posted stays posted, and a lost secret stays     *)
(* lost, so what another worker knows of a delivery stays true.            *)

HookTypeOK ==
  /\ delivery \in [Deliveries -> DeliveryRow]
  /\ emitting \subseteq Deliveries
  /\ usable \in BOOLEAN
  /\ sending \in [Workers -> Sending]
  /\ posts \in [Deliveries -> [sent : Nat, taken : BOOLEAN]]

HookInv == HookTypeOK /\ BeginsAtStart /\ Truthful

Forward ==
  /\ \A d \in Deliveries : posts'[d].sent >= posts[d].sent /\ (posts[d].taken => posts'[d].taken)
  /\ ~usable => ~usable'

\* Worker v's handler is where it was, or at its start.
Undisturbed(v) ==
  \/ sending'[v] = Start
  \/ /\ sending'[v] = sending[v]
     /\ worker'[v].at = worker[v].at /\ worker'[v].current = worker[v].current

LEMMA RowKept ==
  ASSUME Wired, Forward, NEW d \in Deliveries, RowTrue(d), delivery'[d] = delivery[d],
         posts' \in [Deliveries -> [sent : Nat, taken : BOOLEAN]]
  PROVE  RowTrue(d)'
<1>1. posts[d].sent \in Nat /\ posts'[d].sent \in Nat /\ delivery[d].attempts \in Nat
  BY DEF Wired, DeliveryTypeOK, DeliveryRow
<1> QED
  BY <1>1 DEF Forward, RowTrue

LEMMA EarningKept ==
  ASSUME Wired, Forward, Rerouted, NEW v \in Workers, Earning(v), Undisturbed(v),
         posts' \in [Deliveries -> [sent : Nat, taken : BOOLEAN]]
  PROVE  Earning(v)'
<1>1. CASE sending'[v] = Start
  BY <1>1, StartTyped DEF Earning
<1>2. CASE /\ sending'[v] = sending[v] /\ worker[v].at = "handling"
           /\ worker'[v].at = worker[v].at /\ worker'[v].current = worker[v].current
  <2>1. Handling(v) \in Deliveries /\ Handling(v)' = Handling(v)
    BY <1>2, HandlingNamed, RoutesKept DEF Handling
  <2>2. /\ posts[Handling(v)].sent \in Nat /\ posts'[Handling(v)].sent \in Nat
        /\ sending[v].attempt \in Nat
    BY <2>1 DEF Wired, DeliveryTypeOK, Sending
  <2> QED
    BY <1>2, <2>1, <2>2 DEF Forward, Earning
<1>3. CASE worker'[v].at # "handling"
  BY <1>3 DEF Earning
<1> QED
  BY <1>1, <1>2, <1>3 DEF Undisturbed

\* A step of the queue, or of the desk, that leaves what the handlers wrote.
LEMMA OutsideStep ==
  ASSUME Wired, Truthful, [DeliveryNext]_deliveryVars, HookTypeOK', Forward,
         \A d \in Deliveries :
           delivery'[d] = delivery[d] \/ RowTrue(d)',
         \A v \in Workers : Undisturbed(v),
         BeginsAtStart'
  PROVE  HookInv'
<1>1. \A d \in Deliveries : RowTrue(d)'
  BY RowKept DEF Truthful, HookTypeOK
<1>2. \A v \in Workers : Earning(v)'
  BY EarningKept, ReroutedStep DEF Truthful, HookTypeOK
<1> QED
  BY <1>1, <1>2 DEF HookInv, Truthful

LEMMA NothingPosted == UNCHANGED <<posts, usable>> /\ HookTypeOK => Forward
BY DEF Forward, HookTypeOK

LEMMA DeskStep ==
  ASSUME Wired, Truthful, DeliveryNext,
         \/ \E d \in Deliveries : EmitInsert(d) \/ EmitEnqueue(d)
         \/ LoseSecret \/ DeleteEndpoint
  PROVE  HookInv'
<1>0. HookTypeOK /\ BeginsAtStart
  BY DEF Wired, DeliveryTypeOK, HookTypeOK
<1>1. \A v \in Workers : UNCHANGED <<worker, sending>> => Undisturbed(v)
  BY DEF Undisturbed
<1>2. UNCHANGED <<worker, sending>> => BeginsAtStart'
  BY <1>0 DEF BeginsAtStart
<1>3. UNCHANGED <<worker, sending>>
  BY DEF EmitInsert, EmitEnqueue, EnqueueDelivery, Enqueue, LoseSecret, DeleteEndpoint, queueVars
<1>4. ASSUME NEW d \in Deliveries, EmitInsert(d) PROVE HookInv'
  <2>1. HookTypeOK'
    BY <1>0, <1>4, RowEdit DEF EmitInsert, HookTypeOK
  <2>2. Forward
    BY <1>0, <1>4, NothingPosted DEF EmitInsert
  <2>3. \A x \in Deliveries \ {d} : delivery'[x] = delivery[x]
    BY <1>0, <1>4 DEF EmitInsert, HookTypeOK
  <2>4. /\ delivery[d].status = "ABSENT" /\ delivery'[d].status = "PENDING"
        /\ delivery'[d].attempts = delivery[d].attempts /\ UNCHANGED posts
    BY <1>0, <1>4 DEF EmitInsert, HookTypeOK, DeliveryRow
  <2>5. RowTrue(d)'
    BY <2>4 DEF Truthful, RowTrue
  <2> QED
    BY <1>1, <1>2, <1>3, <2>1, <2>2, <2>3, <2>5, OutsideStep
<1>5. ASSUME NEW d \in Deliveries, EmitEnqueue(d) PROVE HookInv'
  <2>1. HookTypeOK'
    BY <1>0, <1>5 DEF EmitEnqueue, HookTypeOK
  <2>2. Forward /\ UNCHANGED delivery
    BY <1>0, <1>5, NothingPosted DEF EmitEnqueue
  <2> QED
    BY <1>1, <1>2, <1>3, <2>1, <2>2, OutsideStep
<1>6. CASE LoseSecret
  <2>1. HookTypeOK'
    BY <1>0, <1>6 DEF LoseSecret, HookTypeOK
  <2>2. Forward /\ UNCHANGED delivery
    BY <1>0, <1>6 DEF LoseSecret, Forward, HookTypeOK
  <2> QED
    BY <1>1, <1>2, <1>3, <2>1, <2>2, OutsideStep
<1>7. CASE DeleteEndpoint
  <2>1. HookTypeOK'
    BY <1>0, <1>7, RowEdit DEF DeleteEndpoint, HookTypeOK
  <2>2. Forward
    BY <1>0, <1>7, NothingPosted DEF DeleteEndpoint
  <2>3. ASSUME NEW d \in Deliveries PROVE RowTrue(d)'
    <3>1. /\ delivery'[d].status = "GONE" /\ delivery'[d].attempts = delivery[d].attempts
          /\ UNCHANGED posts
      BY <1>0, <1>7 DEF DeleteEndpoint, HookTypeOK, DeliveryRow
    <3> QED
      BY <3>1 DEF Truthful, RowTrue
  <2> QED
    BY <1>1, <1>2, <1>3, <2>1, <2>2, <2>3, OutsideStep
<1> QED
  BY <1>4, <1>5, <1>6, <1>7

\* The worker takes jobs from the queue, and settles them, between its handlers.
LEMMA QueueStepBetween ==
  ASSUME NEW w \in Workers, QueueStep(w) PROVE worker[w].at # "handling" /\ UNCHANGED hookVars
<1>1. Claim(w) => worker[w].at = "idle"
  BY DEF Claim, Free
<1>2. Take(w) => worker[w].at = "idle"
  BY DEF Take
<1>3. Succeed(w) => worker[w].at = "done"
  BY DEF Succeed
<1>4. Reschedule(w) => worker[w].at = "failed"
  BY DEF Reschedule
<1> QED
  BY <1>1, <1>2, <1>3, <1>4 DEF QueueStep

LEMMA QueueMoves ==
  ASSUME Wired, Truthful, DeliveryNext,
         SweepJobs \/ \E w \in Workers : QueueStep(w) \/ CrashDelivery(w) \/ SettlingThrows(w)
  PROVE  HookInv'
<1>0. HookTypeOK /\ BeginsAtStart /\ worker \in [Workers -> Worker]
  BY DEF Wired, DeliveryTypeOK, HookTypeOK, TypeOK
<1>1. UNCHANGED <<delivery, emitting, usable, posts>>
  BY DEF SweepJobs, QueueStep, CrashDelivery, SettlingThrows, hookVars
<1>2. Forward
  BY <1>0, <1>1, NothingPosted
<1>3. CASE SweepJobs
  <2>1. UNCHANGED <<worker, sending>>
    BY <1>3 DEF SweepJobs, Sweep, RequeueStalled, GrowOld, hookVars
  <2>2. HookTypeOK' /\ BeginsAtStart' /\ \A v \in Workers : Undisturbed(v)
    BY <1>0, <1>1, <2>1 DEF HookTypeOK, BeginsAtStart, Undisturbed
  <2> QED
    BY <1>1, <1>2, <2>2, OutsideStep
<1>4. ASSUME NEW w \in Workers, QueueStep(w) PROVE HookInv'
  <2>1. worker[w].at # "handling" /\ UNCHANGED sending
    BY <1>4, QueueStepBetween DEF hookVars
  <2>2. sending[w] = Start
    BY <1>0, <2>1 DEF BeginsAtStart
  <2>3. \A v \in Workers \ {w} : worker'[v] = worker[v]
    BY <1>0, <1>4 DEF QueueStep, Claim, Take, Succeed, Reschedule, PutDown
  <2>4. HookTypeOK' /\ BeginsAtStart' /\ \A v \in Workers : Undisturbed(v)
    BY <1>0, <1>1, <2>1, <2>2, <2>3 DEF HookTypeOK, BeginsAtStart, Undisturbed
  <2> QED
    BY <1>1, <1>2, <2>4, OutsideStep
<1>5. ASSUME NEW w \in Workers, CrashDelivery(w) PROVE HookInv'
  <2>1. \A v \in Workers \ {w} : worker'[v] = worker[v] /\ sending'[v] = sending[v]
    BY <1>0, <1>5 DEF CrashDelivery, Crash, HookTypeOK
  <2>2. sending'[w] = Start /\ sending' \in [Workers -> Sending]
    BY <1>0, <1>5, StartTyped DEF CrashDelivery, HookTypeOK
  <2>3. HookTypeOK' /\ BeginsAtStart' /\ \A v \in Workers : Undisturbed(v)
    BY <1>0, <1>1, <2>1, <2>2 DEF HookTypeOK, BeginsAtStart, Undisturbed
  <2> QED
    BY <1>1, <1>2, <2>3, OutsideStep
<1>6. ASSUME NEW w \in Workers, SettlingThrows(w) PROVE HookInv'
  <2>1. worker[w].at # "handling" /\ UNCHANGED sending
    BY <1>6 DEF SettlingThrows, SucceedThrows, hookVars
  <2>2. sending[w] = Start
    BY <1>0, <2>1 DEF BeginsAtStart
  <2>3. \A v \in Workers \ {w} : worker'[v] = worker[v]
    BY <1>0, <1>6 DEF SettlingThrows, SucceedThrows
  <2>4. HookTypeOK' /\ BeginsAtStart' /\ \A v \in Workers : Undisturbed(v)
    BY <1>0, <1>1, <2>1, <2>2, <2>3 DEF HookTypeOK, BeginsAtStart, Undisturbed
  <2> QED
    BY <1>1, <1>2, <2>4, OutsideStep
<1> QED
  BY <1>3, <1>4, <1>5, <1>6

LEMMA HandlerStep ==
  ASSUME Wired, Truthful, [DeliveryNext]_deliveryVars, NEW w \in Workers, HookTypeOK', Forward,
         \A v \in Workers \ {w} : sending'[v] = sending[v] /\ worker'[v] = worker[v],
         \A d \in Deliveries : delivery'[d] = delivery[d] \/ RowTrue(d)',
         Earning(w)',
         worker'[w].at = "handling" \/ sending'[w] = Start
  PROVE  HookInv'
<1>1. \A d \in Deliveries : RowTrue(d)'
  BY RowKept DEF Truthful, HookTypeOK
<1>2. \A v \in Workers : Earning(v)'
  BY EarningKept, ReroutedStep DEF Truthful, HookTypeOK, Undisturbed
<1>3. BeginsAtStart'
  BY DEF Wired, BeginsAtStart
<1> QED
  BY <1>1, <1>2, <1>3 DEF HookInv, Truthful

\* Before a handler step: the types, and where the handler stands.
LEMMA Standing ==
  ASSUME Wired, NEW w \in Workers, worker[w].at = "handling"
  PROVE  /\ HookTypeOK /\ worker \in [Workers -> Worker]
         /\ Handling(w) \in Deliveries
         /\ delivery[Handling(w)] \in DeliveryRow
         /\ sending[w] \in Sending
         /\ delivery[Handling(w)].attempts \in Nat /\ sending[w].attempt \in Nat
         /\ posts[Handling(w)].sent \in Nat
<1>1. HookTypeOK /\ worker \in [Workers -> Worker]
  BY DEF Wired, DeliveryTypeOK, HookTypeOK, TypeOK
<1>2. Handling(w) \in Deliveries
  BY HandlingNamed
<1>3. delivery[Handling(w)] \in DeliveryRow /\ sending[w] \in Sending
  BY <1>1, <1>2 DEF HookTypeOK
<1> QED
  BY <1>1, <1>2, <1>3 DEF HookTypeOK, DeliveryRow, Sending

\* The handler ends: its verdict, if it wrote one, is the row's.
LEMMA LeaveStep ==
  ASSUME Wired, Truthful, [DeliveryNext]_deliveryVars, NEW w \in Workers, Leave(w, "done"),
         UNCHANGED <<emitting, usable, posts>>,
         delivery' \in [Deliveries -> DeliveryRow],
         \A d \in Deliveries : delivery'[d] = delivery[d] \/ RowTrue(d)'
  PROVE  HookInv'
<1>1. HookTypeOK /\ worker \in [Workers -> Worker]
  BY Standing DEF Leave, Return
<1>2. /\ sending' \in [Workers -> Sending] /\ sending'[w] = Start
      /\ \A v \in Workers \ {w} : sending'[v] = sending[v] /\ worker'[v] = worker[v]
  BY <1>1, StartTyped DEF Leave, Return, HookTypeOK
<1>3. HookTypeOK'
  BY <1>1, <1>2 DEF HookTypeOK
<1>4. Forward
  BY <1>1, NothingPosted
<1>5. Earning(w)'
  BY <1>2, StartTyped DEF Earning
<1> QED
  BY <1>2, <1>3, <1>4, <1>5, HandlerStep

\* The handler goes on to another step, having written what it wrote.
LEMMA GoStep ==
  ASSUME Wired, Truthful, [DeliveryNext]_deliveryVars, NEW w \in Workers,
         worker[w].at = "handling", UNCHANGED worker,
         NEW s \in Sending, sending' = [sending EXCEPT ![w] = s],
         UNCHANGED <<emitting, usable>>,
         delivery' \in [Deliveries -> DeliveryRow],
         posts' \in [Deliveries -> [sent : Nat, taken : BOOLEAN]],
         Forward,
         \A d \in Deliveries : delivery'[d] = delivery[d] \/ RowTrue(d)',
         s.at = "post" => s.attempt <= posts'[Handling(w)].sent + 1,
         s.at \in {"accept", "accepted", "fail", "retry", "done"} =>
           s.attempt <= posts'[Handling(w)].sent,
         s.at = "accept" => posts'[Handling(w)].taken,
         s.at = "disable" => ~usable
  PROVE  HookInv'
<1>1. HookTypeOK /\ worker \in [Workers -> Worker]
  BY Standing
<1>2. /\ sending' \in [Workers -> Sending] /\ sending'[w] = s
      /\ \A v \in Workers \ {w} : sending'[v] = sending[v] /\ worker'[v] = worker[v]
  BY <1>1 DEF HookTypeOK
<1>3. HookTypeOK'
  BY <1>1, <1>2 DEF HookTypeOK
<1>4. Handling(w)' = Handling(w)
  BY HandlingNamed, ReroutedStep, RoutesKept DEF Handling
<1>5. Earning(w)'
  BY <1>2, <1>4 DEF Earning
<1> QED
  BY <1>2, <1>3, <1>5, HandlerStep

LEMMA WroteRow ==
  ASSUME Wired, Truthful, NEW w \in Workers, worker[w].at = "handling",
         NEW row \in DeliveryRow, Wrote(w, row), UNCHANGED <<posts, usable>>,
         row.status # "GONE",
         row.status = "PENDING" => row.attempts < MaxTries,
         row.status # "ABSENT",
         row.attempts <= posts[Handling(w)].sent,
         row.status = "SUCCEEDED" => posts[Handling(w)].taken,
         row.status = "DEAD" => posts[Handling(w)].sent >= MaxTries \/ ~usable
  PROVE  /\ delivery' \in [Deliveries -> DeliveryRow]
         /\ \A d \in Deliveries : delivery'[d] = delivery[d] \/ RowTrue(d)'
<1>1. Handling(w) \in Deliveries /\ HookTypeOK
  BY Standing
<1>2. delivery' \in [Deliveries -> DeliveryRow]
  BY <1>1 DEF Wrote, HookTypeOK
<1>3. \A d \in Deliveries : delivery'[d] = delivery[d] \/ (d = Handling(w) /\ delivery'[d] = row)
  BY <1>1 DEF Wrote, HookTypeOK
<1> QED
  BY <1>2, <1>3 DEF RowTrue

LEMMA ReadStep ==
  ASSUME Wired, Truthful, DeliveryNext, NEW w \in Workers, DeliverRead(w)
  PROVE  HookInv'
<1> DEFINE row == delivery[Handling(w)]
<1>1. worker[w].at = "handling" /\ sending[w].at = "start"
      /\ UNCHANGED <<delivery, emitting, usable, posts>>
  BY DEF DeliverRead, InHandler
<1>2. HookTypeOK /\ Forward /\ delivery' \in [Deliveries -> DeliveryRow]
      /\ posts' \in [Deliveries -> [sent : Nat, taken : BOOLEAN]]
  BY <1>1, Standing, NothingPosted DEF HookTypeOK
<1>3. CASE Leave(w, "done")
  BY <1>1, <1>2, <1>3, LeaveStep
<1>4. CASE ~usable /\ Go(w, "disable") /\ UNCHANGED queueVars
  <2> DEFINE s == [sending[w] EXCEPT !.at = "disable"]
  <2>1. s \in Sending /\ s.at = "disable"
    <3>1. sending[w] \in Sending
      BY <1>1, Standing
    <3> QED
      BY <3>1 DEF Sending
  <2>2. sending' = [sending EXCEPT ![w] = s] /\ UNCHANGED worker
    BY <1>4 DEF Go, queueVars
  <2> HIDE DEF s
  <2> QED
    BY <1>1, <1>2, <1>4, <2>1, <2>2, GoStep
<1>5. CASE /\ ~Over(row.status) /\ usable
           /\ sending' = [sending EXCEPT ![w] = [Start EXCEPT !.at = "post",
                                                              !.attempt = row.attempts + 1]]
           /\ UNCHANGED queueVars
  <2> DEFINE s == [Start EXCEPT !.at = "post", !.attempt = row.attempts + 1]
  <2>1. row.status \in {"ABSENT", "PENDING"}
    BY <1>1, <1>5, Standing DEF Over, DeliveryRow
  <2>2. row.attempts < MaxTries /\ row.attempts <= posts[Handling(w)].sent
        /\ row.attempts \in Nat /\ posts[Handling(w)].sent \in Nat
    BY <1>1, <2>1, Standing DEF Truthful, RowTrue
  <2>3. s \in Sending /\ s.at = "post" /\ s.attempt = row.attempts + 1
    <3>1. row.attempts + 1 \in 0..MaxTries
      BY <2>2
    <3> HIDE DEF row
    <3> QED
      BY <3>1 DEF Start, Sending
  <2>4. s.attempt <= posts'[Handling(w)].sent + 1
    BY <1>1, <2>2, <2>3
  <2>5. sending' = [sending EXCEPT ![w] = s] /\ UNCHANGED worker
    BY <1>5 DEF queueVars
  <2> HIDE DEF s
  <2> QED
    BY <1>1, <1>2, <2>3, <2>4, <2>5, GoStep
<1> QED
  BY <1>3, <1>4, <1>5 DEF DeliverRead

LEMMA DisabledStep ==
  ASSUME Wired, Truthful, DeliveryNext, NEW w \in Workers, DeliverDisabled(w)
  PROVE  HookInv'
<1> DEFINE row == [delivery[Handling(w)] EXCEPT !.status = "DEAD"]
<1>1. worker[w].at = "handling" /\ sending[w].at = "disable"
      /\ UNCHANGED <<emitting, usable, posts>> /\ Wrote(w, row) /\ Leave(w, "done")
  BY DEF DeliverDisabled, InHandler
<1>2. row \in DeliveryRow /\ row.status = "DEAD" /\ row.attempts = delivery[Handling(w)].attempts
  BY <1>1, Standing, RowEdit
<1>3. ~usable /\ delivery[Handling(w)].attempts <= posts[Handling(w)].sent
  BY <1>1, Standing DEF Truthful, Earning, RowTrue
<1> HIDE DEF row
<1>4. /\ delivery' \in [Deliveries -> DeliveryRow]
      /\ \A d \in Deliveries : delivery'[d] = delivery[d] \/ RowTrue(d)'
  BY <1>1, <1>2, <1>3, WroteRow
<1> QED
  BY <1>1, <1>4, LeaveStep

LEMMA PostStep ==
  ASSUME Wired, Truthful, DeliveryNext, NEW w \in Workers, Post(w)
  PROVE  HookInv'
<1> DEFINE d == Handling(w)
<1>1. PICK taken \in BOOLEAN, heard \in BOOLEAN :
        /\ posts' = [posts EXCEPT ![d] = [sent |-> @.sent + 1, taken |-> @.taken \/ taken]]
        /\ sending' = [sending EXCEPT ![w].at = IF taken /\ heard THEN "accept" ELSE "fail",
                                      ![w].caught = ~heard]
  BY DEF Post
<1>2. worker[w].at = "handling" /\ sending[w].at = "post"
      /\ UNCHANGED <<worker, delivery, emitting, usable>>
  BY DEF Post, InHandler, queueVars
<1>3. HookTypeOK /\ d \in Deliveries /\ posts[d].sent \in Nat /\ sending[w].attempt \in Nat
      /\ sending[w] \in Sending
  BY <1>2, Standing
<1>4. posts' \in [Deliveries -> [sent : Nat, taken : BOOLEAN]]
  BY <1>1, <1>3 DEF HookTypeOK
<1>5. posts'[d].sent = posts[d].sent + 1 /\ (taken => posts'[d].taken)
      /\ (posts[d].taken => posts'[d].taken)
  BY <1>1, <1>3 DEF HookTypeOK
<1>6. \A x \in Deliveries : posts[x].sent \in Nat /\ (x # d => posts'[x] = posts[x])
  BY <1>1, <1>3 DEF HookTypeOK
<1>7. Forward
  BY <1>2, <1>5, <1>6 DEF Forward
<1>8. sending[w].attempt <= posts[d].sent + 1
  BY <1>2 DEF Truthful, Earning
<1> DEFINE s == [sending[w] EXCEPT !.at = IF taken /\ heard THEN "accept" ELSE "fail",
                                   !.caught = ~heard]
<1>9. /\ s \in Sending /\ s.attempt = sending[w].attempt
      /\ s.at = IF taken /\ heard THEN "accept" ELSE "fail"
  BY <1>3 DEF Sending
<1>10. sending' = [sending EXCEPT ![w] = s]
  BY <1>1, <1>3 DEF HookTypeOK
<1> HIDE DEF s
<1>11. s.attempt <= posts'[d].sent /\ (s.at = "accept" => posts'[d].taken)
       /\ s.at \in {"accept", "fail"}
  BY <1>3, <1>5, <1>8, <1>9
<1> QED
  BY <1>2, <1>3, <1>4, <1>7, <1>9, <1>10, <1>11, GoStep DEF HookTypeOK

LEMMA AcceptStep ==
  ASSUME Wired, Truthful, DeliveryNext, NEW w \in Workers, DeliverAccept(w)
  PROVE  HookInv'
<1> DEFINE row == [status |-> "SUCCEEDED", attempts |-> sending[w].attempt]
           s == [sending[w] EXCEPT !.at = "accepted"]
<1>1. worker[w].at = "handling" /\ sending[w].at = "accept"
      /\ UNCHANGED <<worker, emitting, usable, posts>> /\ Wrote(w, row)
      /\ sending' = [sending EXCEPT ![w] = s]
  BY DEF DeliverAccept, InHandler, queueVars, Go
<1>2. row \in DeliveryRow /\ row.status = "SUCCEEDED" /\ row.attempts = sending[w].attempt
  BY <1>1, Standing, SendingEdit DEF DeliveryRow
<1>3. sending[w].attempt <= posts[Handling(w)].sent /\ posts[Handling(w)].taken
  BY <1>1 DEF Truthful, Earning
<1>4. s \in Sending /\ s.at = "accepted" /\ s.attempt = sending[w].attempt
  <2>1. sending[w] \in Sending
    BY <1>1, Standing
  <2> QED
    BY <2>1 DEF Sending
<1> HIDE DEF row, s
<1>5. /\ delivery' \in [Deliveries -> DeliveryRow]
      /\ \A d \in Deliveries : delivery'[d] = delivery[d] \/ RowTrue(d)'
  BY <1>1, <1>2, <1>3, WroteRow
<1>6. Forward /\ posts' \in [Deliveries -> [sent : Nat, taken : BOOLEAN]]
  BY <1>1, Standing, NothingPosted DEF HookTypeOK
<1> QED
  BY <1>1, <1>3, <1>4, <1>5, <1>6, GoStep

LEMMA FailStep ==
  ASSUME Wired, Truthful, DeliveryNext, NEW w \in Workers, DeliverFail(w)
  PROVE  HookInv'
<1> DEFINE row == Failed(sending[w].attempt)
           s == [sending[w] EXCEPT !.at = IF row.status = "PENDING" THEN "retry" ELSE "done"]
<1>1. worker[w].at = "handling" /\ sending[w].at = "fail"
      /\ UNCHANGED <<worker, emitting, usable, posts>> /\ Wrote(w, row)
      /\ sending' = [sending EXCEPT ![w] = s]
  BY DEF DeliverFail, InHandler, queueVars, Go
<1>2. sending[w].attempt \in 0..MaxTries
  BY <1>1, Standing, SendingEdit
<1>3. /\ row \in DeliveryRow /\ row.attempts = sending[w].attempt
      /\ \/ row.status = "PENDING" /\ row.attempts < MaxTries
         \/ row.status = "DEAD" /\ row.attempts >= MaxTries
  BY <1>2 DEF Failed, DeliveryRow
<1>4. sending[w].attempt <= posts[Handling(w)].sent /\ posts[Handling(w)].sent \in Nat
  BY <1>1, Standing DEF Truthful, Earning
<1>5. s \in Sending /\ s.at \in {"retry", "done"} /\ s.attempt = sending[w].attempt
  <2>1. sending[w] \in Sending
    BY <1>1, Standing
  <2> HIDE DEF row
  <2> QED
    BY <2>1 DEF Sending
<1> HIDE DEF row, s
<1>6. row.status = "DEAD" => posts[Handling(w)].sent >= MaxTries
  BY <1>2, <1>3, <1>4
<1>7. /\ delivery' \in [Deliveries -> DeliveryRow]
      /\ \A d \in Deliveries : delivery'[d] = delivery[d] \/ RowTrue(d)'
  BY <1>1, <1>3, <1>4, <1>6, WroteRow
<1>8. Forward /\ posts' \in [Deliveries -> [sent : Nat, taken : BOOLEAN]]
  BY <1>1, Standing, NothingPosted DEF HookTypeOK
<1> QED
  BY <1>1, <1>4, <1>5, <1>7, <1>8, GoStep

LEMMA RestStep ==
  ASSUME Wired, Truthful, DeliveryNext, NEW w \in Workers,
         DeliverAccepted(w) \/ DeliverRetry(w) \/ DeliverDone(w) \/ DatabaseError(w)
  PROVE  HookInv'
<1>1. worker[w].at = "handling" /\ UNCHANGED <<delivery, emitting, usable, posts>>
  BY DEF DeliverAccepted, DeliverRetry, DeliverDone, DatabaseError, InHandler
<1>2. HookTypeOK /\ Forward /\ delivery' \in [Deliveries -> DeliveryRow]
      /\ posts' \in [Deliveries -> [sent : Nat, taken : BOOLEAN]]
      /\ sending[w] \in Sending /\ worker \in [Workers -> Worker]
  BY <1>1, Standing, NothingPosted DEF HookTypeOK
<1>3. CASE DeliverAccepted(w) \/ DeliverDone(w)
  BY <1>1, <1>2, <1>3, LeaveStep DEF DeliverAccepted, DeliverDone
<1>4. CASE DeliverRetry(w)
  <2> DEFINE s == [sending[w] EXCEPT !.at = "done"]
  <2>1. s \in Sending /\ s.at = "done" /\ s.attempt = sending[w].attempt
    BY <1>2, SendingEdit
  <2>2. sending' = [sending EXCEPT ![w] = s] /\ UNCHANGED worker
    BY <1>4 DEF DeliverRetry, RetryQueued, EnqueueDelivery, Enqueue, Go
  <2>3. sending[w].attempt <= posts[Handling(w)].sent
    BY <1>4 DEF DeliverRetry, InHandler, Truthful, Earning
  <2> HIDE DEF s
  <2> QED
    BY <1>1, <1>2, <2>1, <2>2, <2>3, GoStep
<1>5. CASE /\ DatabaseError(w) /\ UNCHANGED worker
           /\ sending[w].at \in {"accept", "accepted", "fail", "retry"}
           /\ sending' = [sending EXCEPT ![w].at = "fail", ![w].caught = TRUE]
  <2> DEFINE s == [sending[w] EXCEPT !.at = "fail", !.caught = TRUE]
  <2>1. s \in Sending /\ s.at = "fail" /\ s.attempt = sending[w].attempt
    BY <1>2, SendingEdit
  <2>2. sending' = [sending EXCEPT ![w] = s]
    BY <1>2, <1>5 DEF HookTypeOK
  <2>3. sending[w].attempt <= posts[Handling(w)].sent
    BY <1>1, <1>5 DEF Truthful, Earning
  <2> HIDE DEF s
  <2> QED
    BY <1>1, <1>2, <1>5, <2>1, <2>2, <2>3, GoStep
<1>6. CASE /\ worker' = [worker EXCEPT ![w].at = "failed"]
           /\ sending' = [sending EXCEPT ![w] = Start]
  <2>1. /\ sending' \in [Workers -> Sending] /\ sending'[w] = Start
        /\ \A v \in Workers \ {w} : sending'[v] = sending[v] /\ worker'[v] = worker[v]
    BY <1>2, <1>6, StartTyped DEF HookTypeOK
  <2>2. HookTypeOK' /\ Earning(w)'
    BY <1>1, <1>2, <2>1, StartTyped DEF HookTypeOK, Earning
  <2> QED
    BY <1>1, <1>2, <2>1, <2>2, HandlerStep
<1>7. DatabaseError(w) => sending[w].at \in {"start", "disable", "accept", "accepted", "fail", "retry"}
  BY <1>2 DEF DatabaseError, Sending
<1> QED
  BY <1>3, <1>4, <1>5, <1>6, <1>7 DEF DatabaseError

LEMMA DeliveryStep == DeliveryInv /\ [DeliveryNext]_deliveryVars => DeliveryInv'
<1> SUFFICES ASSUME Wired, Truthful, [DeliveryNext]_deliveryVars PROVE DeliveryInv'
  BY DEF DeliveryInv
<1>1. HookInv'
  <2>1. CASE DeliveryNext
    BY <2>1, DeskStep, QueueMoves, ReadStep, DisabledStep, PostStep, AcceptStep, FailStep, RestStep
    DEF DeliveryNext, Deliver
  <2>2. CASE UNCHANGED deliveryVars
    <3>1. HookInv
      BY DEF Wired, DeliveryTypeOK, HookInv, HookTypeOK
    <3>2. UNCHANGED <<worker, delivery, payload, emitting, usable, sending, posts>>
      BY <2>2 DEF deliveryVars, queueVars, hookVars
    <3> QED
      BY <3>1, <3>2 DEF HookInv, HookTypeOK, BeginsAtStart, Truthful, RowTrue, Earning, Handling
  <2> QED
    BY <2>1, <2>2
<1>2. TypeOK' /\ InHandQueued'
  BY QueuedStep DEF Wired, DeliveryTypeOK
<1>3. payload' \in [Jobs -> Deliveries \cup {None}] /\ JobsNamed'
  BY ReroutedStep, RoutesKept
<1> QED
  BY <1>1, <1>2, <1>3 DEF DeliveryInv, Wired, DeliveryTypeOK, HookInv, HookTypeOK

LEMMA DeliveryStart == DeliveryInit => DeliveryInv
<1> SUFFICES ASSUME DeliveryInit PROVE DeliveryInv
  OBVIOUS
<1> USE DEF DeliveryInit, Init
<1>1. TypeOK
  BY InitInv DEF Inv
<1>2. \A w \in Workers : InHand(w) = {} /\ worker[w].at = "idle"
  BY DEF InHand, Free
<1>3. DeliveryTypeOK
  BY <1>1, StartTyped DEF DeliveryTypeOK, DeliveryRow
<1>4. InHandQueued /\ JobsNamed /\ BeginsAtStart
  BY <1>2 DEF InHandQueued, JobsNamed, BeginsAtStart
<1>5. Truthful
  BY <1>2 DEF Truthful, RowTrue, Earning
<1> QED
  BY <1>3, <1>4, <1>5 DEF DeliveryInv, Wired

LEMMA Delivering == DeliverySpec => []DeliveryInv
BY DeliveryStart, DeliveryStep, PTL DEF DeliverySpec

\* Every variable of the queue and of its webhook handler keeps its type, and a
\* delivery is never given more than MAX_ATTEMPTS attempts, however crashes,
\* database errors and stalled jobs interleave (deliverPendingWebhook).
THEOREM DeliveryTypeCorrect == DeliverySpec => []DeliveryTypeOK
<1>1. DeliveryInv => DeliveryTypeOK
  BY DEF DeliveryInv, Wired
<1> QED
  BY <1>1, Delivering, PTL

\* A delivery says SUCCEEDED only after the endpoint took the event in, and DEAD
\* only after MAX_ATTEMPTS posts or without its secret, whichever of several
\* jobs for the delivery wrote last (deliverPendingWebhook, recordFailure).
THEOREM VerdictEarned == DeliverySpec => []VerdictIsEarned
<1>1. DeliveryInv => VerdictIsEarned
  BY DEF DeliveryInv, Truthful, RowTrue, VerdictIsEarned
<1> QED
  BY <1>1, Delivering, PTL

-----------------------------------------------------------------------------
(* A pending delivery has a job that is not through with it.               *)

Live == {"PENDING", "RUNNING", "DEAD"}

\* Worker w is about to mark its job as succeeded.
Finished(w) ==
  \/ worker[w].at = "done"
  \/ worker[w].at = "handling" /\ sending[w].at \in {"accepted", "done"}

OpenJob(j) ==
  \A w \in Workers : worker[w].current # None /\ worker[w].current.id = j => ~Finished(w)

PendingIsOpen ==
  \A d \in Deliveries :
    delivery[d].status = "PENDING" /\ d \notin emitting =>
      \E j \in Jobs : Carries(j, d) /\ OpenJob(j)

\* Worker v comes no closer to marking a job as succeeded.
Sober(v) == Finished(v)' => Finished(v) /\ worker'[v].current = worker[v].current

LEMMA LiveKept ==
  ASSUME Wired, [DeliveryNext]_deliveryVars, NEW j \in Jobs, job[j].status \in Live, OpenJob(j)
  PROVE  job'[j].status \in Live
<1> USE DEF Live
<1>0. job \in [Jobs -> Job]
  BY DEF Wired, DeliveryTypeOK, TypeOK
<1>1. CASE [Next]_queueVars
  <2>1. ASSUME NEW w \in Workers, Claim(w) PROVE job'[j].status \in Live
    BY <2>1 DEF Claim
  <2>2. ASSUME NEW w \in Workers,
               Take(w) \/ Return(w, "done") \/ Return(w, "failed") \/ Crash(w) \/ SucceedThrows(w)
        PROVE  job'[j].status \in Live
    BY <2>2 DEF Take, Return, Crash, SucceedThrows
  <2>3. ASSUME NEW w \in Workers, Succeed(w) PROVE job'[j].status \in Live
    <3>1. worker[w].current # None /\ Finished(w)
      BY <2>3 DEF Succeed, Finished, Wired, DeliveryTypeOK, TypeOK
    <3>2. worker[w].current.id # j
      BY <3>1 DEF OpenJob
    <3> QED
      BY <1>0, <2>3, <3>2 DEF Succeed
  <2>4. ASSUME NEW w \in Workers, Reschedule(w) PROVE job'[j].status \in Live
    <3>1. PICK s \in {"DEAD", "PENDING"} : job' = [job EXCEPT ![worker[w].current.id].status = s]
      BY <2>4 DEF Reschedule
    <3> QED
      BY <1>0, <3>1 DEF Job
  <2>5. ASSUME NEW i \in Jobs, Enqueue(i) \/ GrowOld(i) PROVE job'[j].status \in Live
    BY <1>0, <2>5 DEF Enqueue, GrowOld, Job
  <2>6. RequeueStalled => job'[j].status \in Live
    BY <1>0 DEF RequeueStalled, Job
  <2>7. UNCHANGED queueVars => job'[j].status \in Live
    BY DEF queueVars
  <2> QED
    BY <1>1, <2>1, <2>2, <2>3, <2>4, <2>5, <2>6, <2>7 DEF Next, Work, Sweep
<1> QED
  BY <1>1, QueueView DEF Thrown

LEMMA SoberOpens ==
  ASSUME NEW j \in Jobs, OpenJob(j),
         \A v \in Workers : Sober(v) \/ (worker'[v].current # None => worker'[v].current.id # j)
  PROVE  OpenJob(j)'
BY DEF OpenJob, Sober

LEMMA CarriesKept ==
  ASSUME Wired, [DeliveryNext]_deliveryVars, NEW j \in Jobs, NEW d, Carries(j, d), OpenJob(j)
  PROVE  Carries(j, d)'
<1>1. job[j].status \in Live /\ payload[j] = d
  BY DEF Carries, Live
<1>2. job'[j].status \in Live
  BY <1>1, LiveKept
<1>3. payload'[j] = d
  BY <1>1, ReroutedStep, RoutesKept DEF Live
<1> QED
  BY <1>2, <1>3 DEF Carries, Live

\* Sober steps of the others; worker w's own step is looked at by the caller.
LEMMA OthersSober ==
  ASSUME NEW w \in Workers, \A v \in Workers \ {w} : sending'[v] = sending[v] /\ worker'[v] = worker[v]
  PROVE  \A v \in Workers \ {w} : Sober(v)
BY DEF Sober, Finished

LEMMA SoberSteps ==
  ASSUME Wired, DeliveryNext,
         \/ LoseSecret \/ DeleteEndpoint \/ SweepJobs
         \/ \E d \in Deliveries : EmitInsert(d) \/ EmitEnqueue(d)
         \/ \E w \in Workers : \/ QueueStep(w) \/ CrashDelivery(w) \/ Post(w) \/ DeliverAccepted(w)
                               \/ DeliverDone(w) \/ DatabaseError(w) \/ SettlingThrows(w)
  PROVE  \A v \in Workers : Sober(v)
<1>0. worker \in [Workers -> Worker] /\ sending \in [Workers -> Sending] /\ BeginsAtStart
  BY DEF Wired, DeliveryTypeOK, TypeOK
<1>1. UNCHANGED <<worker, sending>> => \A v \in Workers : Sober(v)
  BY DEF Sober, Finished
<1>2. CASE LoseSecret \/ DeleteEndpoint \/ SweepJobs
  BY <1>1, <1>2 DEF LoseSecret, DeleteEndpoint, SweepJobs, Sweep, RequeueStalled, GrowOld,
    hookVars, queueVars
<1>3. ASSUME NEW d \in Deliveries, EmitInsert(d) \/ EmitEnqueue(d)
      PROVE  \A v \in Workers : Sober(v)
  BY <1>1, <1>3 DEF EmitInsert, EmitEnqueue, EnqueueDelivery, Enqueue, queueVars
<1>4. ASSUME NEW w \in Workers, QueueStep(w) PROVE \A v \in Workers : Sober(v)
  <2>1. worker[w].at # "handling" /\ UNCHANGED sending
    BY <1>4, QueueStepBetween DEF hookVars
  <2>2. sending'[w].at = "start"
    BY <1>0, <2>1, StartTyped DEF BeginsAtStart
  <2>3. worker'[w].at \in {"idle", "handling"}
    <3>1. CASE Claim(w)
      BY <1>0, <3>1 DEF Claim, Free, Worker
    <3>2. CASE Take(w)
      BY <1>0, <3>2 DEF Take
    <3>3. CASE Succeed(w) \/ Reschedule(w)
      <4>1. worker' = [worker EXCEPT ![w] = [@ EXCEPT !.at = "idle", !.current = None]]
        BY <3>3 DEF Succeed, Reschedule, PutDown
      <4>2. worker'[w].at = "idle"
        BY <1>0, <4>1 DEF Worker
      <4> QED
        BY <4>2
    <3> QED
      BY <1>4, <3>1, <3>2, <3>3 DEF QueueStep
  <2>4. \A v \in Workers \ {w} : worker'[v] = worker[v]
    BY <1>0, <1>4 DEF QueueStep, Claim, Take, Succeed, Reschedule, PutDown
  <2>5. Sober(w)
    BY <2>2, <2>3 DEF Sober, Finished
  <2> QED
    BY <2>1, <2>4, <2>5, OthersSober
<1>5. ASSUME NEW w \in Workers, CrashDelivery(w) PROVE \A v \in Workers : Sober(v)
  <2>1. worker'[w].at = "idle"
    BY <1>0, <1>5 DEF CrashDelivery, Crash, Free
  <2>2. \A v \in Workers \ {w} : sending'[v] = sending[v] /\ worker'[v] = worker[v]
    BY <1>0, <1>5 DEF CrashDelivery, Crash
  <2> QED
    BY <2>1, <2>2, OthersSober DEF Sober, Finished
<1>6. ASSUME NEW w \in Workers, Post(w) PROVE \A v \in Workers : Sober(v)
  <2>1. PICK s \in {"accept", "fail"}, c \in BOOLEAN :
          sending' = [sending EXCEPT ![w].at = s, ![w].caught = c]
    BY <1>6 DEF Post
  <2>2. sending'[w].at \in {"accept", "fail"} /\ UNCHANGED worker /\ worker[w].at = "handling"
    BY <1>0, <1>6, <2>1 DEF Post, queueVars, InHandler, Sending
  <2>3. \A v \in Workers \ {w} : sending'[v] = sending[v]
    BY <1>0, <2>1
  <2> QED
    BY <2>2, <2>3, OthersSober DEF Sober, Finished
<1>7. ASSUME NEW w \in Workers, DeliverAccepted(w) \/ DeliverDone(w)
      PROVE  \A v \in Workers : Sober(v)
  <2>1. Leave(w, "done") /\ Finished(w)
    BY <1>7 DEF DeliverAccepted, DeliverDone, InHandler, Finished
  <2>2. worker'[w].current = worker[w].current
    BY <1>0, <2>1 DEF Leave, Return, Worker
  <2>3. \A v \in Workers \ {w} : sending'[v] = sending[v] /\ worker'[v] = worker[v]
    BY <1>0, <2>1 DEF Leave, Return
  <2> QED
    BY <2>1, <2>2, <2>3, OthersSober DEF Sober
<1>8. ASSUME NEW w \in Workers, DatabaseError(w) PROVE \A v \in Workers : Sober(v)
  <2>1. worker[w].at = "handling"
    BY <1>8 DEF DatabaseError
  <2>2. worker'[w].at = "failed" \/ (worker'[w].at = "handling" /\ sending'[w].at = "fail")
    BY <1>0, <1>8, <2>1 DEF DatabaseError, Worker, Sending
  <2>3. \A v \in Workers \ {w} : sending'[v] = sending[v] /\ worker'[v] = worker[v]
    BY <1>0, <1>8 DEF DatabaseError
  <2> QED
    BY <2>2, <2>3, OthersSober DEF Sober, Finished
<1>9. ASSUME NEW w \in Workers, SettlingThrows(w) PROVE \A v \in Workers : Sober(v)
  <2>1. worker'[w].at = "failed"
    BY <1>0, <1>9 DEF SettlingThrows, SucceedThrows, Worker
  <2>2. \A v \in Workers \ {w} : sending'[v] = sending[v] /\ worker'[v] = worker[v]
    BY <1>0, <1>9 DEF SettlingThrows, SucceedThrows, hookVars
  <2> QED
    BY <2>1, <2>2, OthersSober DEF Sober, Finished
<1> QED
  BY <1>2, <1>3, <1>4, <1>5, <1>6, <1>7, <1>8, <1>9

\* A new job for delivery d is open: nobody holds it yet.
LEMMA NewJobOpen ==
  ASSUME Wired, NEW d \in Deliveries, EnqueueDelivery(d)
  PROVE  \E j \in Jobs : Carries(j, d)' /\ OpenJob(j)'
<1>1. PICK j \in Jobs : Enqueue(j) /\ payload' = [payload EXCEPT ![j] = d]
  BY DEF EnqueueDelivery
<1>2. Carries(j, d)'
  BY <1>1 DEF Enqueue, Carries, Wired, DeliveryTypeOK, TypeOK, Job
<1>3. \A w \in Workers : worker[w].current # None => worker[w].current.id # j
  BY <1>1 DEF Enqueue, Wired, InHandQueued, InHand
<1> QED
  BY <1>1, <1>2, <1>3 DEF Enqueue, OpenJob

\* The handler of worker w ends a delivery, or queues the next job for it.
LEMMA HandlerOpens ==
  ASSUME Inv, Wired, PendingIsOpen, DeliveryNext, NEW w \in Workers,
         \/ DeliverRead(w) \/ DeliverDisabled(w) \/ DeliverAccept(w)
         \/ DeliverFail(w) \/ DeliverRetry(w),
         NEW d \in Deliveries, delivery'[d].status = "PENDING", d \notin emitting
  PROVE  \E j \in Jobs : Carries(j, d)' /\ OpenJob(j)'
<1>0. worker \in [Workers -> Worker] /\ sending \in [Workers -> Sending]
      /\ delivery \in [Deliveries -> DeliveryRow]
  BY DEF Wired, DeliveryTypeOK, TypeOK
<1>1. PICK k \in Jobs : /\ worker[w].at = "handling" /\ Handling(w) \in Deliveries
                         /\ k = worker[w].current.id
                         /\ worker[w].current # None /\ payload[k] = Handling(w)
  BY HandlingNamed DEF DeliverRead, DeliverDisabled, DeliverAccept, DeliverFail, DeliverRetry,
    InHandler, Handling
<1>2. \A v \in Workers \ {w} : sending'[v] = sending[v] /\ worker'[v] = worker[v]
  <2>1. Leave(w, "done") => \A v \in Workers \ {w} : sending'[v] = sending[v] /\ worker'[v] = worker[v]
    BY <1>0 DEF Leave, Return
  <2>2. ASSUME NEW s \in {"disable", "accepted", "retry", "done"}, Go(w, s), UNCHANGED worker
        PROVE  \A v \in Workers \ {w} : sending'[v] = sending[v] /\ worker'[v] = worker[v]
    BY <1>0, <2>2 DEF Go
  <2> QED
    BY <1>0, <2>1, <2>2 DEF DeliverRead, DeliverDisabled, DeliverAccept, DeliverFail, DeliverRetry,
      RetryQueued, EnqueueDelivery, Enqueue, queueVars
<1>3. \A v \in Workers \ {w} : Sober(v)
  BY <1>2, OthersSober
<1>4. worker'[w].current = worker[w].current
  <2>1. Leave(w, "done") => worker'[w].current = worker[w].current
    BY <1>0 DEF Leave, Return, Worker
  <2> QED
    BY <2>1 DEF DeliverRead, DeliverDisabled, DeliverAccept, DeliverFail, DeliverRetry,
      RetryQueued, EnqueueDelivery, Enqueue, queueVars
<1>5. CASE DeliverRetry(w) /\ d = Handling(w)
  BY <1>1, <1>5, NewJobOpen DEF DeliverRetry, RetryQueued
<1>6. CASE DeliverFail(w) /\ d = Handling(w)
  <2>1. worker[w].current \in InHand(w)
    BY <1>1 DEF InHand
  <2>2. job[k].status = "RUNNING"
    BY <1>1, <2>1 DEF Inv, Faithful
  <2>3. Carries(k, d)'
    BY <1>1, <1>6, <2>2 DEF DeliverFail, Carries, queueVars
  <2>4. Failed(sending[w].attempt).status = "PENDING"
    <3>1. delivery[d].status = "GONE" => delivery' = delivery
      BY <1>6 DEF DeliverFail, Wrote
    <3>2. delivery[d].status # "GONE" => delivery'[d] = Failed(sending[w].attempt)
      BY <1>0, <1>6 DEF DeliverFail, Wrote
    <3> QED
      BY <3>1, <3>2
  <2>5. sending'[w].at = "retry" /\ UNCHANGED worker
    BY <1>0, <1>6, <2>4 DEF DeliverFail, Go, Sending, queueVars
  <2>6. \A v \in Workers : worker[v].current # None /\ worker[v].current.id = k => v = w
    BY <1>1, <2>1 DEF Inv, Apart, InHand
  <2>7. OpenJob(k)'
    BY <1>1, <2>5, <2>6 DEF OpenJob, Finished
  <2> QED
    BY <1>1, <2>3, <2>7
<1>7. CASE ~(DeliverRetry(w) \/ DeliverFail(w)) \/ d # Handling(w)
  <2>1. delivery[d].status = "PENDING"
    <3>1. CASE d # Handling(w)
      BY <1>0, <1>1, <3>1 DEF DeliverRead, DeliverDisabled, DeliverAccept, DeliverFail, DeliverRetry, Wrote
    <3>2. CASE DeliverRead(w)
      BY <3>2 DEF DeliverRead
    <3>3. CASE DeliverDisabled(w) /\ d = Handling(w)
      BY <1>0, <3>3 DEF DeliverDisabled, Wrote, DeliveryRow
    <3>4. CASE DeliverAccept(w) /\ d = Handling(w)
      BY <1>0, <3>4 DEF DeliverAccept, Wrote
    <3> QED
      BY <1>7, <3>1, <3>2, <3>3, <3>4
  <2>2. PICK j \in Jobs : Carries(j, d) /\ OpenJob(j)
    BY <2>1 DEF PendingIsOpen
  <2>3. Carries(j, d)'
    BY <2>2, CarriesKept
  <2>4. Sober(w) \/ k # j
    <3>1. k = j => d = Handling(w)
      BY <1>1, <2>2 DEF Carries
    <3>2. CASE DeliverRead(w) /\ d = Handling(w)
      <4>1. UNCHANGED worker /\ sending'[w].at \in {"disable", "post"}
        <5>1. UNCHANGED delivery /\ ~Over(delivery[d].status)
          BY <2>1, <3>2 DEF DeliverRead, Over
        <5>2. /\ UNCHANGED worker
              /\ \/ Go(w, "disable")
                 \/ \E n : sending' = [sending EXCEPT ![w] = [Start EXCEPT !.at = "post", !.attempt = n]]
          BY <3>2, <5>1 DEF DeliverRead, queueVars
        <5>3. ASSUME NEW n, sending' = [sending EXCEPT ![w] = [Start EXCEPT !.at = "post", !.attempt = n]]
              PROVE  sending'[w].at = "post"
          <6>1. [Start EXCEPT !.at = "post", !.attempt = n].at = "post"
            BY DEF Start
          <6> QED
            BY <1>0, <5>3, <6>1
        <5>4. Go(w, "disable") => sending'[w].at = "disable"
          BY <1>0 DEF Go, Sending
        <5> QED
          BY <5>2, <5>3, <5>4
      <4> QED
        BY <1>1, <4>1 DEF Sober, Finished
    <3>3. CASE (DeliverDisabled(w) \/ DeliverAccept(w)) /\ d = Handling(w)
      <4>1. delivery'[d].status # "PENDING"
        BY <1>0, <2>1, <3>3 DEF DeliverDisabled, DeliverAccept, Wrote, DeliveryRow
      <4> QED
        BY <4>1
    <3> QED
      BY <1>7, <3>1, <3>2, <3>3
  <2>5. Sober(w) \/ (worker'[w].current # None => worker'[w].current.id # j)
    BY <1>1, <1>4, <2>4
  <2>6. OpenJob(j)'
    BY <1>3, <2>2, <2>5, SoberOpens
  <2> QED
    BY <2>3, <2>6
<1> QED
  BY <1>5, <1>6, <1>7

LEMMA PendingStep ==
  Inv /\ Wired /\ PendingIsOpen /\ [DeliveryNext]_deliveryVars => PendingIsOpen'
<1> SUFFICES ASSUME Inv, Wired, PendingIsOpen, [DeliveryNext]_deliveryVars,
                    NEW d \in Deliveries, delivery'[d].status = "PENDING", d \notin emitting'
             PROVE  \E j \in Jobs : Carries(j, d)' /\ OpenJob(j)'
  BY DEF PendingIsOpen
<1>1. ASSUME \A v \in Workers : Sober(v), delivery[d].status = "PENDING", d \notin emitting
      PROVE  \E j \in Jobs : Carries(j, d)' /\ OpenJob(j)'
  <2>1. PICK j \in Jobs : Carries(j, d) /\ OpenJob(j)
    BY <1>1 DEF PendingIsOpen
  <2> QED
    BY <1>1, <2>1, CarriesKept, SoberOpens
<1>2. CASE EmitEnqueue(d)
  BY <1>2, NewJobOpen DEF EmitEnqueue
<1>3. ASSUME NEW x \in Deliveries, EmitInsert(x) \/ (EmitEnqueue(x) /\ x # d), DeliveryNext
      PROVE  \E j \in Jobs : Carries(j, d)' /\ OpenJob(j)'
  <2>1. x # d /\ delivery[d].status = "PENDING" /\ d \notin emitting
    BY <1>3 DEF EmitInsert, EmitEnqueue, Wired, DeliveryTypeOK
  <2> QED
    BY <1>1, <1>3, <2>1, SoberSteps
<1>4. CASE DeliveryNext /\ (LoseSecret \/ DeleteEndpoint \/ SweepJobs)
  <2>1. delivery[d].status = "PENDING" /\ d \notin emitting
    BY <1>4 DEF LoseSecret, DeleteEndpoint, SweepJobs, hookVars, Wired, DeliveryTypeOK, DeliveryRow
  <2> QED
    BY <1>1, <1>4, <2>1, SoberSteps
<1>5. ASSUME NEW w \in Workers, DeliveryNext,
             \/ QueueStep(w) \/ CrashDelivery(w) \/ Post(w) \/ DeliverAccepted(w)
             \/ DeliverDone(w) \/ DatabaseError(w) \/ SettlingThrows(w)
      PROVE  \E j \in Jobs : Carries(j, d)' /\ OpenJob(j)'
  <2>1. delivery[d].status = "PENDING" /\ d \notin emitting
    BY <1>5 DEF QueueStep, CrashDelivery, Post, DeliverAccepted, DeliverDone, DatabaseError,
      SettlingThrows, hookVars
  <2> QED
    BY <1>1, <1>5, <2>1, SoberSteps
<1>6. ASSUME NEW w \in Workers, DeliveryNext,
             \/ DeliverRead(w) \/ DeliverDisabled(w) \/ DeliverAccept(w)
             \/ DeliverFail(w) \/ DeliverRetry(w)
      PROVE  \E j \in Jobs : Carries(j, d)' /\ OpenJob(j)'
  <2>1. d \notin emitting
    BY <1>6 DEF DeliverRead, DeliverDisabled, DeliverAccept, DeliverFail, DeliverRetry
  <2> QED
    BY <1>6, <2>1, HandlerOpens
<1>7. CASE UNCHANGED deliveryVars
  BY <1>7 DEF deliveryVars, queueVars, hookVars, PendingIsOpen, Carries, OpenJob, Finished
<1> QED
  BY <1>2, <1>3, <1>4, <1>5, <1>6, <1>7 DEF DeliveryNext, Deliver

\* Nothing looks for PENDING deliveries, and nothing has to: one that was emitted
\* is always named by a job that will still run or was buried in plain sight,
\* through crashes, database errors and two jobs for one delivery
\* (recordFailure's enqueue, the queue's recovery).
THEOREM PendingKeepsItsJob == ASSUME Punctual PROVE DeliverySpec => []PendingHasJob
<1>1. DeliveryInit => PendingIsOpen
  BY DEF DeliveryInit, PendingIsOpen
<1>2. DeliveryInv => Wired
  BY DEF DeliveryInv
<1>3. PendingIsOpen => PendingHasJob
  BY DEF PendingIsOpen, PendingHasJob
<1> QED
  BY <1>1, <1>2, <1>3, PendingStep, QueueInv, Delivering, PTL DEF DeliverySpec
=============================================================================
