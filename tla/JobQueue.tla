------------------------------ MODULE JobQueue ------------------------------
(***************************************************************************)
(* The job table and the workers that drain it (jobs/queue.ts,             *)
(* jobs/worker.ts).  A worker claims a batch, runs its jobs one after the  *)
(* other and settles each by id.  A job whose worker is gone, or has been  *)
(* at its batch for too long, is put back by the sweep.                    *)
(***************************************************************************)
EXTENDS Naturals, FiniteSets

CONSTANTS
  Jobs,         \* jobs rows that may be inserted (bounds the model)
  Workers,      \* instances of the application
  Batch,        \* jobs claimed at once
  MaxAttempts,  \* jobs.max_attempts
  MaxMishaps,   \* bound: crashes, settlements that throw, batches that outlast the sweep
  Mix,          \* the mishaps this instance exercises
  None

VARIABLES
  job,     \* jobs
  worker,  \* what each worker holds
  mishaps  \* how many mishaps there were

queueVars == <<job, worker, mishaps>>

Statuses == {"ABSENT", "PENDING", "RUNNING", "SUCCEEDED", "DEAD"}
Settled == {"SUCCEEDED", "DEAD"}

\* old: started_at lies behind the sweep's horizon.
Job == [status : Statuses, attempts : Nat, old : BOOLEAN]

\* The row as claim() returned it.
Claimed == [id : Jobs, attempts : Nat]

ASSUME JobQueueAssumption ==
  /\ Batch \in Nat \ {0}
  /\ MaxAttempts \in Nat \ {0}
  /\ MaxMishaps \in Nat
  /\ Mix \subseteq {"crash", "slow", "throw"}
  /\ None \notin Claimed

Worker == [at : {"idle", "handling", "done", "failed"},
           batch : SUBSET Claimed,
           current : Claimed \cup {None}]

TypeOK ==
  /\ job \in [Jobs -> Job]
  /\ worker \in [Workers -> Worker]
  /\ \A w \in Workers : worker[w].current = None <=> worker[w].at = "idle"
  /\ mishaps \in 0..MaxMishaps

Free == [at |-> "idle", batch |-> {}, current |-> None]

Init ==
  /\ job = [j \in Jobs |-> [status |-> "ABSENT", attempts |-> 0, old |-> FALSE]]
  /\ worker = [w \in Workers |-> Free]
  /\ mishaps = 0

-----------------------------------------------------------------------------
Enqueue(j) ==
  /\ job[j].status = "ABSENT"
  /\ job' = [job EXCEPT ![j].status = "PENDING"]
  /\ UNCHANGED <<worker, mishaps>>

\* Mutant: a job that runs elsewhere is due as well.
DueMutant == {j \in Jobs : job[j].status \in {"PENDING", "RUNNING"}}

Due == {j \in Jobs : job[j].status = "PENDING"}

\* Some due rows, up to the limit: which ones depends on their run_at and on the
\* rows other workers have locked.
Claim(w) ==
  /\ worker[w] = Free
  /\ \E due \in SUBSET Due :
       /\ Cardinality(due) \in 1..Batch
       /\ job' = [j \in Jobs |->
                    IF j \in due
                    THEN [status |-> "RUNNING", attempts |-> job[j].attempts + 1, old |-> FALSE]
                    ELSE job[j]]
       /\ worker' = [worker EXCEPT ![w].batch =
                       {[id |-> j, attempts |-> job[j].attempts + 1] : j \in due}]
  /\ UNCHANGED mishaps

\* for (const job of jobs)
Take(w) ==
  /\ worker[w].at = "idle"
  /\ \E c \in worker[w].batch :
       worker' = [worker EXCEPT ![w] = [at |-> "handling", current |-> c,
                                        batch |-> worker[w].batch \ {c}]]
  /\ UNCHANGED <<job, mishaps>>

\* The handler returns, or throws.
Return(w, outcome) ==
  /\ worker[w].at = "handling"
  /\ worker' = [worker EXCEPT ![w].at = outcome]
  /\ UNCHANGED <<job, mishaps>>

\* On to the next job of the batch.
PutDown(w) == worker' = [worker EXCEPT ![w] = [@ EXCEPT !.at = "idle", !.current = None]]

\* succeed(job.id)
Succeed(w) ==
  /\ worker[w].at = "done"
  /\ job' = [job EXCEPT ![worker[w].current.id].status = "SUCCEEDED"]
  /\ PutDown(w)
  /\ UNCHANGED mishaps

Exhausted(attempts) == attempts >= MaxAttempts

\* reschedule(job, error): on the attempts of the row as it was claimed.
Reschedule(w) ==
  /\ worker[w].at = "failed"
  /\ LET c == worker[w].current
     IN  job' = [job EXCEPT ![c.id].status = IF Exhausted(c.attempts) THEN "DEAD" ELSE "PENDING"]
  /\ PutDown(w)
  /\ UNCHANGED mishaps

Holds(w, j) ==
  \/ \E c \in worker[w].batch : c.id = j
  \/ worker[w].current # None /\ worker[w].current.id = j

\* Ten minutes pass.  A job in a worker's hands grows old only where batches
\* may be slow.
GrowOld(j) ==
  /\ job[j].status = "RUNNING" /\ ~job[j].old
  /\ IF \E w \in Workers : Holds(w, j)
     THEN "slow" \in Mix /\ mishaps < MaxMishaps /\ mishaps' = mishaps + 1
     ELSE UNCHANGED mishaps
  /\ job' = [job EXCEPT ![j].old = TRUE]
  /\ UNCHANGED worker

\* Mutant: only jobs that were never tried are put back.
StalledMutant(j) == job[j].status = "RUNNING" /\ job[j].old /\ job[j].attempts = 0

Stalled(j) == job[j].status = "RUNNING" /\ job[j].old

RequeueStalled ==
  /\ \E j \in Jobs : Stalled(j)
  /\ job' = [j \in Jobs |-> IF Stalled(j) THEN [job[j] EXCEPT !.status = "PENDING"] ELSE job[j]]
  /\ UNCHANGED <<worker, mishaps>>

\* The process dies, or the tick throws: what the worker held stays RUNNING.
Crash(w) ==
  /\ "crash" \in Mix
  /\ mishaps < MaxMishaps
  /\ worker[w] # Free
  /\ worker' = [worker EXCEPT ![w] = Free]
  /\ mishaps' = mishaps + 1
  /\ UNCHANGED job

\* succeed() throws: it stands in the handler's try, so the job that ran is
\* rescheduled.
SucceedThrows(w) ==
  /\ "throw" \in Mix
  /\ mishaps < MaxMishaps
  /\ worker[w].at = "done"
  /\ worker' = [worker EXCEPT ![w].at = "failed"]
  /\ mishaps' = mishaps + 1
  /\ UNCHANGED job

Work(w) ==
  \/ Claim(w) \/ Take(w) \/ Return(w, "done") \/ Succeed(w) \/ Reschedule(w)
  \/ "throw" \in Mix /\ Return(w, "failed")

Sweep == RequeueStalled \/ \E j \in Jobs : GrowOld(j)

Next ==
  \/ \E j \in Jobs : Enqueue(j)
  \/ \E w \in Workers : Work(w) \/ SucceedThrows(w) \/ Crash(w)
  \/ Sweep

Spec == Init /\ [][Next]_queueVars

-----------------------------------------------------------------------------
(* Properties.                                                             *)

\* "Multiple app instances can run workers concurrently without ever handing
\* the same job to two of them" (claim).
OneWorkerPerJob ==
  \A j \in Jobs, w, v \in Workers : Holds(w, j) /\ Holds(v, j) => w = v

\* A job that succeeded or was buried is never run again (succeed, reschedule,
\* requeueStalled).
SettledStays ==
  [][\A j \in Jobs : job[j].status \in Settled => job'[j].status = job[j].status]_queueVars

\* "Reschedule ..., or bury the job once attempts are exhausted": a job is tried
\* max_attempts times, and once more for each mishap that cost it an attempt.
AttemptsBounded == \A j \in Jobs : job[j].attempts <= MaxAttempts + mishaps

\* Every job that was queued succeeds or is buried, whatever crashes (worker
\* loop and requeueStalled).
Settles(j) == job[j].status = "PENDING" ~> job[j].status \in Settled
=============================================================================
