--------------------------- MODULE JobQueueProofs ---------------------------
(***************************************************************************)
(* For any number of jobs, workers and attempts, and where no batch        *)
(* outlasts the sweep's patience: the type invariant of JobQueue, that no  *)
(* job is in two workers' hands, that attempts are bounded, and that a     *)
(* settled job stays settled.                                              *)
(***************************************************************************)
EXTENDS JobQueue, TLAPS

\* What worker w has claimed and not settled yet.
InHand(w) == worker[w].batch \cup (IF worker[w].current = None THEN {} ELSE {worker[w].current})

\* What a worker knows of its jobs is still so.
Faithful ==
  \A w \in Workers : \A c \in InHand(w) :
    job[c.id].status = "RUNNING" /\ ~job[c.id].old /\ job[c.id].attempts = c.attempts

\* Every job is in one place.
Apart ==
  /\ \A w, v \in Workers : \A c \in InHand(w), d \in InHand(v) : c.id = d.id => w = v
  /\ \A w \in Workers : \A c, d \in InHand(w) : c.id = d.id => c = d
  /\ \A w \in Workers : worker[w].current \notin worker[w].batch

Loose(j) ==
  \/ job[j].status \in {"ABSENT", "PENDING"}
  \/ job[j].status = "RUNNING" /\ \A w \in Workers : \A c \in InHand(w) : c.id # j

\* A job that may be claimed again has an attempt left, or a mishap to blame.
Spare == \A j \in Jobs : Loose(j) => job[j].attempts < MaxAttempts + mishaps

Inv == TypeOK /\ Faithful /\ Apart /\ Spare /\ AttemptsBounded

Punctual == "slow" \notin Mix

-----------------------------------------------------------------------------
LEMMA InitInv == Init => Inv
<1> SUFFICES ASSUME Init PROVE Inv
  OBVIOUS
<1> USE JobQueueAssumption DEF Init
<1>1. TypeOK
  BY DEF TypeOK, Job, Statuses, Worker, Free
<1>2. \A w \in Workers : InHand(w) = {}
  BY DEF InHand, Free
<1>3. Faithful /\ Apart
  BY <1>2 DEF Faithful, Apart, Free
<1>4. Spare /\ AttemptsBounded
  BY DEF Spare, AttemptsBounded
<1> QED
  BY <1>1, <1>3, <1>4 DEF Inv

\* What is in hand is a set of claimed rows.
LEMMA InHandType ==
  ASSUME TypeOK, NEW w \in Workers
  PROVE  InHand(w) \subseteq Claimed
  BY DEF TypeOK, InHand, Worker

LEMMA EnqueueInv ==
  ASSUME Inv, NEW j \in Jobs, Enqueue(j)
  PROVE  Inv'
<1>1. /\ job[j].status = "ABSENT"
      /\ job' = [job EXCEPT ![j].status = "PENDING"]
      /\ worker' = worker /\ mishaps' = mishaps
  BY DEF Enqueue
<1>2. TypeOK'
  BY <1>1 DEF Inv, TypeOK, Job, Statuses
<1>3. \A w \in Workers : InHand(w)' = InHand(w) /\ InHand(w) \subseteq Claimed
  BY <1>1, InHandType DEF InHand, Inv
<1>4. Faithful'
  BY <1>1, <1>3 DEF Inv, TypeOK, Job, Faithful, Claimed
<1>5. Apart'
  BY <1>1, <1>3 DEF Inv, Apart
<1>6. Spare'
  BY <1>1, <1>3 DEF Inv, TypeOK, Job, Spare, Loose
<1>7. AttemptsBounded'
  BY <1>1 DEF Inv, TypeOK, Job, AttemptsBounded
<1> QED
  BY <1>2, <1>4, <1>5, <1>6, <1>7 DEF Inv

LEMMA ClaimInv ==
  ASSUME Inv, NEW w \in Workers, Claim(w)
  PROVE  Inv'
<1> USE JobQueueAssumption
<1>1. PICK due \in SUBSET Due :
        /\ job' = [j \in Jobs |->
                     IF j \in due
                     THEN [status |-> "RUNNING", attempts |-> job[j].attempts + 1, old |-> FALSE]
                     ELSE job[j]]
        /\ worker' = [worker EXCEPT ![w].batch =
                        {[id |-> j, attempts |-> job[j].attempts + 1] : j \in due}]
  BY DEF Claim
<1>2. worker[w] = Free /\ mishaps' = mishaps
  BY DEF Claim
<1>3. due \subseteq Jobs /\ \A j \in due : job[j].status = "PENDING"
  BY DEF Due
<1> DEFINE rows == {[id |-> j, attempts |-> job[j].attempts + 1] : j \in due}
<1>4. rows \subseteq Claimed
  BY <1>3 DEF Claimed, Inv, TypeOK, Job
<1>5. TypeOK'
  <2>1. job' \in [Jobs -> Job]
    BY <1>1 DEF Inv, TypeOK, Job, Statuses
  <2>2. worker' \in [Workers -> Worker]
    BY <1>1, <1>4 DEF Inv, TypeOK, Worker
  <2> QED
    BY <1>1, <1>2, <2>1, <2>2 DEF Inv, TypeOK
<1>6. InHand(w)' = rows
  BY <1>1, <1>2 DEF InHand, Free, Inv, TypeOK
<1>7. \A v \in Workers \ {w} : InHand(v)' = InHand(v)
  BY <1>1 DEF InHand, Inv, TypeOK
<1>8. \A v \in Workers : \A c \in InHand(v) : c.id \in Jobs /\ c.id \notin due
  BY <1>3, InHandType DEF Inv, Faithful, Claimed
<1>9. \A c \in rows : c.id \in due /\ c.attempts = job[c.id].attempts + 1
  OBVIOUS
<1>10. Faithful'
  <2>1. \A v \in Workers \ {w} : \A c \in InHand(v) : job'[c.id] = job[c.id]
    BY <1>1, <1>8
  <2>2. \A c \in rows : /\ job'[c.id].status = "RUNNING" /\ ~job'[c.id].old
                        /\ job'[c.id].attempts = c.attempts
    BY <1>1, <1>3, <1>9
  <2> QED
    BY <1>6, <1>7, <2>1, <2>2 DEF Inv, Faithful
<1>11. Apart'
  <2>1. \A v, x \in Workers : \A c \in InHand(v)', d \in InHand(x)' : c.id = d.id => v = x
    BY <1>6, <1>7, <1>8, <1>9 DEF Inv, Apart
  <2>2. \A c, d \in rows : c.id = d.id => c = d
    OBVIOUS
  <2>3. \A v \in Workers : \A c, d \in InHand(v)' : c.id = d.id => c = d
    BY <1>6, <1>7, <2>2 DEF Inv, Apart
  <2>4. \A v \in Workers : worker'[v].current \notin worker'[v].batch
    BY <1>1, <1>2, <1>4 DEF Inv, Apart, TypeOK, Free
  <2> QED
    BY <2>1, <2>3, <2>4 DEF Apart
<1>12. Spare'
  <2> SUFFICES ASSUME NEW j \in Jobs, Loose(j)'
               PROVE  job'[j].attempts < MaxAttempts + mishaps
    BY <1>2 DEF Spare
  <2>1. j \notin due
    <3> SUFFICES ASSUME j \in due PROVE FALSE
      OBVIOUS
    <3>1. [id |-> j, attempts |-> job[j].attempts + 1] \in InHand(w)'
      BY <1>6
    <3>2. job'[j].status = "RUNNING"
      BY <1>1
    <3> QED
      BY <3>1, <3>2 DEF Loose
  <2>2. Loose(j) /\ job'[j] = job[j]
    BY <1>1, <1>2, <1>7, <2>1 DEF Loose, InHand, Free
  <2> QED
    BY <2>2 DEF Inv, Spare
<1>13. AttemptsBounded'
  <2>1. \A j \in due : Loose(j)
    BY <1>3 DEF Loose
  <2> QED
    BY <1>1, <1>2, <1>3, <2>1 DEF Inv, Spare, AttemptsBounded, TypeOK, Job
<1> QED
  BY <1>5, <1>10, <1>11, <1>12, <1>13 DEF Inv

\* A step that moves a row within one worker's hands, or nothing at all.
LEMMA SameHands ==
  ASSUME Inv, TypeOK', job' = job, mishaps' = mishaps,
         \A w \in Workers : InHand(w)' = InHand(w),
         \A w \in Workers : worker'[w].current \notin worker'[w].batch
  PROVE  Inv'
<1>1. Faithful'
  BY DEF Inv, Faithful
<1>2. Apart'
  BY DEF Inv, Apart
<1>3. Spare' /\ AttemptsBounded'
  BY DEF Inv, Spare, Loose, AttemptsBounded
<1> QED
  BY <1>1, <1>2, <1>3 DEF Inv

LEMMA TakeInv ==
  ASSUME Inv, NEW w \in Workers, Take(w)
  PROVE  Inv'
<1> USE JobQueueAssumption
<1>1. PICK c \in worker[w].batch :
        worker' = [worker EXCEPT ![w] = [at |-> "handling", current |-> c,
                                         batch |-> worker[w].batch \ {c}]]
  BY DEF Take
<1>2. /\ job' = job /\ mishaps' = mishaps
      /\ worker[w].at = "idle" /\ worker[w].current = None
  BY DEF Take, Inv, TypeOK
<1>3. c \in Claimed /\ c # None
  BY DEF Inv, TypeOK, Worker
<1>4. TypeOK'
  BY <1>1, <1>2, <1>3 DEF Inv, TypeOK, Worker
<1>5. \A v \in Workers : InHand(v)' = InHand(v)
  BY <1>1, <1>2, <1>3 DEF InHand, Inv, TypeOK
<1>6. \A v \in Workers : worker'[v].current \notin worker'[v].batch
  BY <1>1 DEF Inv, TypeOK, Apart
<1> QED
  BY <1>2, <1>4, <1>5, <1>6, SameHands

LEMMA ReturnInv ==
  ASSUME Inv, NEW w \in Workers, NEW outcome \in {"done", "failed"}, Return(w, outcome)
  PROVE  Inv'
<1>1. /\ worker' = [worker EXCEPT ![w].at = outcome]
      /\ job' = job /\ mishaps' = mishaps
      /\ worker[w].at = "handling"
  BY DEF Return
<1>2. TypeOK'
  BY <1>1 DEF Inv, TypeOK, Worker
<1>3. \A v \in Workers : /\ InHand(v)' = InHand(v)
                         /\ worker'[v].current \notin worker'[v].batch
  BY <1>1 DEF InHand, Inv, TypeOK, Apart
<1> QED
  BY <1>1, <1>2, <1>3, SameHands

\* The current job is settled or goes back to the queue with an attempt left.
LEMMA PutDownInv ==
  ASSUME Inv, NEW w \in Workers, worker[w].at \in {"done", "failed"}, PutDown(w),
         NEW s \in {"SUCCEEDED", "DEAD", "PENDING"},
         s = "PENDING" => worker[w].current.attempts < MaxAttempts,
         job' = [job EXCEPT ![worker[w].current.id].status = s],
         mishaps' = mishaps
  PROVE  Inv'
<1> USE JobQueueAssumption
<1> DEFINE c == worker[w].current
           k == c.id
<1>1. c \in Claimed /\ c # None /\ c \in InHand(w) /\ k \in Jobs
  BY DEF Inv, TypeOK, Worker, InHand, Claimed
<1>2. worker' = [worker EXCEPT ![w] = [@ EXCEPT !.at = "idle", !.current = None]]
  BY DEF PutDown
<1>3. TypeOK'
  <2>1. job' \in [Jobs -> Job]
    BY <1>1 DEF Inv, TypeOK, Job, Statuses
  <2> QED
    <3>1. LET f == [worker[w] EXCEPT !.at = "idle", !.current = None]
          IN  f \in Worker /\ f.at = "idle" /\ f.current = None
      BY DEF Inv, TypeOK, Worker
    <3>2. PICK f \in Worker : f.at = "idle" /\ f.current = None /\ worker' = [worker EXCEPT ![w] = f]
      BY <1>2, <3>1
    <3> QED
      BY <2>1, <3>2 DEF Inv, TypeOK
<1>4. InHand(w)' = InHand(w) \ {c}
  BY <1>1, <1>2 DEF InHand, Inv, TypeOK, Worker, Apart
<1>5. \A v \in Workers \ {w} : InHand(v)' = InHand(v)
  BY <1>2 DEF InHand, Inv, TypeOK
<1>6. \A v \in Workers : \A d \in InHand(v)' : d \in InHand(v) /\ d.id # k /\ d.id \in Jobs
  <2>1. \A v \in Workers : \A d \in InHand(v)' : d \in InHand(v)
    BY <1>4, <1>5
  <2>2. \A d \in InHand(w)' : d.id # k
    BY <1>1, <1>4 DEF Inv, Apart
  <2>3. \A v \in Workers \ {w} : \A d \in InHand(v)' : d.id # k
    BY <1>1, <1>5 DEF Inv, Apart
  <2>4. \A v \in Workers : \A d \in InHand(v) : d.id \in Jobs
    BY InHandType DEF Inv, Claimed
  <2> QED
    BY <2>1, <2>2, <2>3, <2>4
<1>7. \A j \in Jobs \ {k} : job'[j] = job[j]
  BY DEF Inv, TypeOK
<1>8. Faithful'
  BY <1>6, <1>7 DEF Inv, Faithful
<1>9. Apart'
  <2>1. \A v \in Workers : worker'[v].current \notin worker'[v].batch
    BY <1>2 DEF Inv, TypeOK, Apart, Worker
  <2> QED
    BY <1>6, <2>1 DEF Inv, Apart
<1>10. /\ job'[k].status = s /\ job'[k].attempts = job[k].attempts
       /\ job[k].attempts = c.attempts
  BY <1>1 DEF Inv, TypeOK, Job, Faithful
<1>11. Spare'
  <2> SUFFICES ASSUME NEW j \in Jobs, Loose(j)'
               PROVE  job'[j].attempts < MaxAttempts + mishaps
    BY DEF Spare
  <2>1. CASE j = k
    <3>1. c.attempts < MaxAttempts
      BY <1>10, <2>1 DEF Loose
    <3> QED
      BY <1>1, <1>10, <2>1, <3>1 DEF Inv, TypeOK, Claimed
  <2>2. CASE j # k
    <3>1. \A v \in Workers : \A d \in InHand(v) : d.id = j => d \in InHand(v)'
      BY <1>4, <1>5, <2>2
    <3>2. Loose(j)
      BY <1>7, <2>2, <3>1 DEF Loose
    <3> QED
      BY <1>7, <2>2, <3>2 DEF Inv, Spare
  <2> QED
    BY <2>1, <2>2
<1>12. AttemptsBounded'
  BY <1>7, <1>10, <1>1 DEF Inv, AttemptsBounded
<1> QED
  BY <1>3, <1>8, <1>9, <1>11, <1>12 DEF Inv

LEMMA SucceedInv ==
  ASSUME Inv, NEW w \in Workers, Succeed(w)
  PROVE  Inv'
  BY PutDownInv DEF Succeed

LEMMA RescheduleInv ==
  ASSUME Inv, NEW w \in Workers, Reschedule(w)
  PROVE  Inv'
<1> DEFINE c == worker[w].current
<1>1. c \in Claimed
  BY JobQueueAssumption DEF Reschedule, Inv, TypeOK, Worker
<1>2. CASE Exhausted(c.attempts)
  BY <1>2, PutDownInv DEF Reschedule
<1>3. CASE ~Exhausted(c.attempts)
  <2>1. c.attempts < MaxAttempts
    BY <1>1, <1>3, JobQueueAssumption DEF Exhausted, Claimed
  <2> QED
    BY <1>3, <2>1, PutDownInv DEF Reschedule
<1> QED
  BY <1>2, <1>3

\* A worker's jobs do not grow old where batches are not slow.
LEMMA GrowOldInv ==
  ASSUME Inv, Punctual, NEW j \in Jobs, GrowOld(j)
  PROVE  Inv'
<1>1. /\ job' = [job EXCEPT ![j].old = TRUE]
      /\ worker' = worker /\ mishaps' = mishaps
      /\ \A w \in Workers : ~Holds(w, j)
  BY DEF GrowOld, Punctual
<1>2. \A w \in Workers : /\ InHand(w)' = InHand(w)
                         /\ \A c \in InHand(w) : c.id # j /\ c.id \in Jobs
  BY <1>1, InHandType DEF InHand, Holds, Inv, Claimed
<1>3. TypeOK'
  BY <1>1 DEF Inv, TypeOK, Job
<1>4. Faithful'
  BY <1>1, <1>2 DEF Inv, TypeOK, Faithful
<1>5. Apart'
  BY <1>1, <1>2 DEF Inv, Apart
<1>6. Spare' /\ AttemptsBounded'
  BY <1>1, <1>2 DEF Inv, TypeOK, Job, Spare, Loose, AttemptsBounded
<1> QED
  BY <1>3, <1>4, <1>5, <1>6 DEF Inv

\* The sweep only puts back what nobody holds.
LEMMA RequeueInv ==
  ASSUME Inv, RequeueStalled
  PROVE  Inv'
<1>1. /\ job' = [j \in Jobs |-> IF Stalled(j) THEN [job[j] EXCEPT !.status = "PENDING"]
                                              ELSE job[j]]
      /\ worker' = worker /\ mishaps' = mishaps
  BY DEF RequeueStalled
<1>2. \A w \in Workers : /\ InHand(w)' = InHand(w)
                         /\ \A c \in InHand(w) : ~Stalled(c.id) /\ c.id \in Jobs
  BY <1>1, InHandType DEF InHand, Inv, Faithful, Stalled, Claimed
<1>3. TypeOK'
  BY <1>1 DEF Inv, TypeOK, Job, Statuses
<1>4. Faithful'
  BY <1>1, <1>2 DEF Inv, Faithful
<1>5. Apart'
  BY <1>1, <1>2 DEF Inv, Apart
<1>6. \A j \in Jobs : Loose(j)' => Loose(j)
  BY <1>1, <1>2 DEF Loose, Stalled
<1>7. \A j \in Jobs : job'[j].attempts = job[j].attempts
  BY <1>1 DEF Inv, TypeOK, Job
<1>8. Spare' /\ AttemptsBounded'
  BY <1>1, <1>6, <1>7 DEF Inv, Spare, AttemptsBounded
<1> QED
  BY <1>3, <1>4, <1>5, <1>8 DEF Inv

\* What a dead worker held is loose, one mishap later.
LEMMA CrashInv ==
  ASSUME Inv, NEW w \in Workers, Crash(w)
  PROVE  Inv'
<1> USE JobQueueAssumption
<1>1. /\ worker' = [worker EXCEPT ![w] = Free]
      /\ job' = job /\ mishaps' = mishaps + 1 /\ mishaps < MaxMishaps
  BY DEF Crash
<1>2. TypeOK'
  BY <1>1 DEF Inv, TypeOK, Worker, Free
<1>3. /\ InHand(w)' = {}
      /\ \A v \in Workers \ {w} : InHand(v)' = InHand(v)
  BY <1>1 DEF InHand, Free, Inv, TypeOK
<1>4. Faithful'
  BY <1>1, <1>3 DEF Inv, Faithful
<1>5. Apart'
  <2>1. \A v \in Workers : worker'[v].current \notin worker'[v].batch
    BY <1>1 DEF Inv, TypeOK, Apart, Free
  <2> QED
    BY <1>3, <2>1 DEF Inv, Apart
<1>6. Spare' /\ AttemptsBounded'
  BY <1>1 DEF Inv, TypeOK, Job, Spare, AttemptsBounded
<1> QED
  BY <1>2, <1>4, <1>5, <1>6 DEF Inv

\* A settlement that throws leaves the job in the same hands, one mishap later.
LEMMA SucceedThrowsInv ==
  ASSUME Inv, NEW w \in Workers, SucceedThrows(w)
  PROVE  Inv'
<1> USE JobQueueAssumption
<1>1. /\ worker' = [worker EXCEPT ![w].at = "failed"] /\ worker[w].at = "done"
      /\ job' = job /\ mishaps' = mishaps + 1 /\ mishaps < MaxMishaps
  BY DEF SucceedThrows
<1>2. TypeOK'
  BY <1>1 DEF Inv, TypeOK, Worker
<1>3. \A v \in Workers : /\ InHand(v)' = InHand(v)
                         /\ worker'[v].current \notin worker'[v].batch
  BY <1>1 DEF InHand, Inv, TypeOK, Apart, Worker
<1>4. Faithful' /\ Apart'
  BY <1>1, <1>3 DEF Inv, Faithful, Apart
<1>5. Spare' /\ AttemptsBounded'
  <2>1. \A j \in Jobs : Loose(j)' => Loose(j)
    BY <1>1, <1>3 DEF Loose
  <2> QED
    BY <1>1, <2>1 DEF Inv, TypeOK, Job, Spare, AttemptsBounded
<1> QED
  BY <1>2, <1>4, <1>5 DEF Inv

LEMMA NextInv == Punctual /\ Inv /\ [Next]_queueVars => Inv'
<1> SUFFICES ASSUME Punctual, Inv, [Next]_queueVars
             PROVE  Inv'
  OBVIOUS
<1>1. ASSUME NEW j \in Jobs, Enqueue(j) PROVE Inv'
  BY <1>1, EnqueueInv
<1>2. ASSUME NEW w \in Workers, Work(w) PROVE Inv'
  BY <1>2, ClaimInv, TakeInv, ReturnInv, SucceedInv, RescheduleInv DEF Work
<1>3. ASSUME NEW w \in Workers, SucceedThrows(w) \/ Crash(w) PROVE Inv'
  BY <1>3, CrashInv, SucceedThrowsInv
<1>4. CASE Sweep
  BY <1>4, RequeueInv, GrowOldInv DEF Sweep
<1>5. CASE UNCHANGED queueVars
  BY <1>5 DEF queueVars, Inv, TypeOK, Faithful, Apart, Spare, Loose, InHand, AttemptsBounded
<1> QED
  BY <1>1, <1>2, <1>3, <1>4, <1>5 DEF Next

\* A row of jobs and a worker stay what they are when one field is written.
LEMMA JobEdit ==
  ASSUME NEW v \in Job
  PROVE  /\ v.status \in Statuses /\ v.attempts \in Nat /\ v.old \in BOOLEAN
         /\ \A s \in Statuses : [v EXCEPT !.status = s] \in Job
         /\ [v EXCEPT !.old = TRUE] \in Job
BY DEF Job

LEMMA WorkerEdit ==
  ASSUME NEW v \in Worker
  PROVE  /\ v.batch \subseteq Claimed /\ v.current \in Claimed \cup {None}
         /\ \A s \in {"idle", "handling", "done", "failed"} : [v EXCEPT !.at = s] \in Worker
         /\ [v EXCEPT !.at = "idle", !.current = None] \in Worker
         /\ \A b \in SUBSET Claimed : [v EXCEPT !.batch = b] \in Worker
BY DEF Worker

LEMMA WorkTyped == ASSUME TypeOK, NEW w \in Workers, Work(w) PROVE TypeOK'
<1> USE JobQueueAssumption DEF TypeOK
<1>1. CASE Claim(w)
  <2>1. PICK due \in SUBSET Due :
          /\ job' = [j \in Jobs |->
                       IF j \in due
                       THEN [status |-> "RUNNING", attempts |-> job[j].attempts + 1, old |-> FALSE]
                       ELSE job[j]]
          /\ worker' = [worker EXCEPT ![w].batch =
                          {[id |-> j, attempts |-> job[j].attempts + 1] : j \in due}]
    BY <1>1 DEF Claim
  <2>2. {[id |-> j, attempts |-> job[j].attempts + 1] : j \in due} \subseteq Claimed
    <3>1. \A j \in due : j \in Jobs /\ job[j].attempts + 1 \in Nat
      BY DEF Due, Job
    <3> QED
      BY <3>1 DEF Claimed
  <2>3. job' \in [Jobs -> Job]
    BY <2>1 DEF Job, Statuses
  <2> HIDE DEF TypeOK
  <2>4. worker' \in [Workers -> Worker]
    BY <2>1, <2>2, WorkerEdit DEF TypeOK
  <2>5. \A v \in Workers : worker'[v].current = worker[v].current /\ worker'[v].at = worker[v].at
    BY <2>1 DEF TypeOK, Worker
  <2> QED
    BY <1>1, <2>3, <2>4, <2>5 DEF TypeOK, Claim
<1>2. CASE Take(w)
  BY <1>2 DEF Take, Worker
<1>3. CASE Return(w, "done") \/ Return(w, "failed")
  BY <1>3 DEF Return, Worker
<1>4. CASE Succeed(w) \/ Reschedule(w)
  <2>1. PICK s \in {"SUCCEEDED", "DEAD", "PENDING"} :
          job' = [job EXCEPT ![worker[w].current.id].status = s]
    BY <1>4 DEF Succeed, Reschedule
  <2>2. job' \in [Jobs -> Job]
    BY <2>1, JobEdit DEF Statuses
  <2>3. worker' = [worker EXCEPT ![w] = [@ EXCEPT !.at = "idle", !.current = None]]
        /\ mishaps' = mishaps
    BY <1>4 DEF Succeed, Reschedule, PutDown
  <2> QED
    <3>1. LET f == [worker[w] EXCEPT !.at = "idle", !.current = None]
          IN  f \in Worker /\ f.at = "idle" /\ f.current = None
      BY DEF Worker
    <3>2. PICK f \in Worker : f.at = "idle" /\ f.current = None /\ worker' = [worker EXCEPT ![w] = f]
      BY <2>3, <3>1
    <3> QED
      BY <2>2, <2>3, <3>2
<1> QED
  BY <1>1, <1>2, <1>3, <1>4 DEF Work

LEMMA NextTyped == TypeOK /\ [Next]_queueVars => TypeOK'
<1> SUFFICES ASSUME TypeOK, [Next]_queueVars PROVE TypeOK'
  OBVIOUS
<1> USE JobQueueAssumption
<1>1. ASSUME NEW j \in Jobs, Enqueue(j) PROVE TypeOK'
  BY <1>1, JobEdit DEF Enqueue, TypeOK, Statuses
<1>2. ASSUME NEW w \in Workers, SucceedThrows(w) \/ Crash(w) PROVE TypeOK'
  <2>1. CASE Crash(w)
    BY <2>1 DEF Crash, TypeOK, Free, Worker
  <2>2. CASE SucceedThrows(w)
    BY <2>2 DEF SucceedThrows, TypeOK, Worker
  <2> QED
    BY <1>2, <2>1, <2>2
<1>3. ASSUME NEW j \in Jobs, GrowOld(j) PROVE TypeOK'
  <2>1. mishaps' \in 0..MaxMishaps
    BY <1>3 DEF GrowOld, TypeOK
  <2> QED
    BY <1>3, <2>1, JobEdit DEF GrowOld, TypeOK
<1>4. CASE RequeueStalled
  BY <1>4, JobEdit DEF RequeueStalled, TypeOK, Statuses
<1>5. CASE UNCHANGED queueVars
  BY <1>5 DEF queueVars, TypeOK
<1> QED
  BY <1>1, <1>2, <1>3, <1>4, <1>5, WorkTyped DEF Next, Sweep

\* Every variable keeps its type, whatever crashes or is slow: no row is given a
\* status or an attempt count that the table could not hold, and a worker has a
\* current job exactly while it is not idle.
THEOREM TypeCorrect == Spec => []TypeOK
<1>1. Init => TypeOK
  BY InitInv DEF Inv
<1> QED
  BY <1>1, NextTyped, PTL DEF Spec

\* No job is in two workers' hands, however workers crash and jobs are put back.
THEOREM OneWorker == ASSUME Punctual PROVE Spec => []OneWorkerPerJob
<1>1. Inv => OneWorkerPerJob
  BY DEF Inv, Apart, OneWorkerPerJob, Holds, InHand
<1> QED
  BY InitInv, NextInv, <1>1, PTL DEF Spec

\* A job is tried max_attempts times, and once more for each mishap.
THEOREM Bounded == ASSUME Punctual PROVE Spec => []AttemptsBounded
<1>1. Inv => AttemptsBounded
  BY DEF Inv
<1> QED
  BY InitInv, NextInv, <1>1, PTL DEF Spec

LEMMA SettledStep ==
  Inv /\ [Next]_queueVars =>
    [\A j \in Jobs : job[j].status \in Settled => job'[j].status = job[j].status]_queueVars
<1> SUFFICES ASSUME Inv, Next, NEW j \in Jobs, job[j].status \in Settled
             PROVE  job'[j].status = job[j].status
  OBVIOUS
<1>1. ASSUME NEW w \in Workers, Succeed(w) \/ Reschedule(w)
      PROVE  job'[j].status = job[j].status
  <2>1. worker[w].current # None /\ worker[w].current \in InHand(w)
    BY <1>1 DEF Succeed, Reschedule, Inv, TypeOK, InHand
  <2>2. worker[w].current.id # j
    BY <2>1 DEF Inv, Faithful, Settled
  <2> QED
    BY <1>1, <2>2 DEF Succeed, Reschedule, Inv, TypeOK
<1>2. ASSUME NEW w \in Workers, Claim(w) PROVE job'[j].status = job[j].status
  BY <1>2 DEF Claim, Due, Settled
<1>3. CASE RequeueStalled
  BY <1>3 DEF RequeueStalled, Stalled, Settled
<1>4. ASSUME NEW k \in Jobs, GrowOld(k) \/ Enqueue(k) PROVE job'[j].status = job[j].status
  BY <1>4 DEF GrowOld, Enqueue, Settled, Inv, TypeOK, Job
<1> QED
  BY <1>1, <1>2, <1>3, <1>4 DEF Next, Work, Sweep, Take, Return, SucceedThrows, Crash

\* A job that succeeded or was buried stays that way.
THEOREM SettledForGood == ASSUME Punctual PROVE Spec => SettledStays
BY InitInv, NextInv, SettledStep, PTL DEF Spec, SettledStays
=============================================================================
