---------------------------- MODULE Idempotency ----------------------------
(***************************************************************************)
(* One Idempotency-Key (idempotency.ts): requests that carry it, the row   *)
(* that the first of them inserts, and the operation that row stands for.  *)
(* Keys do not interact, so one is modelled.                               *)
(***************************************************************************)
EXTENDS Naturals

CONSTANTS
  Requests,  \* requests that carry the key
  Bodies,    \* request fingerprints
  Answers,   \* what the operation may answer
  MaxLost,   \* bound: answers the database fails to store
  KeyMix,       \* mishaps this instance exercises
  Nothing

ASSUME IdempotencyAssumption ==
  /\ MaxLost \in Nat
  /\ KeyMix \subseteq {"throw", "crash"}
  /\ Nothing \notin Requests \cup Bodies \cup Answers

VARIABLES
  row,      \* idempotency_keys
  request,  \* where each request stands
  effect    \* history: the operation's effects since the row was last purged

keyVars == <<row, request, effect>>

Steps == {"idle", "insert", "read", "run", "store", "release"}

\* owner: who inserted the row, standing for its id.
Row == [status : {"NONE", "IN_PROGRESS", "COMPLETED"},
        body : Bodies \cup {Nothing},
        answer : Answers \cup {Nothing},
        owner : Requests \cup {Nothing},
        expired : BOOLEAN]

Request == [at : Steps, body : Bodies \cup {Nothing}, answer : Answers \cup {Nothing}]

\* lost: how many of the effects' answers could not be stored.
Effect == [times : Nat, lost : Nat, body : Bodies \cup {Nothing}, answer : Answers \cup {Nothing}]

KeyTypeOK ==
  /\ row \in Row
  /\ request \in [Requests -> Request]
  /\ effect \in Effect

NoRow == [status |-> "NONE", body |-> Nothing, answer |-> Nothing, owner |-> Nothing, expired |-> FALSE]

NoEffect == [times |-> 0, lost |-> 0, body |-> Nothing, answer |-> Nothing]

Idle == [at |-> "idle", body |-> Nothing, answer |-> Nothing]

KeyInit ==
  /\ row = NoRow
  /\ request = [r \in Requests |-> Idle]
  /\ effect = NoEffect

-----------------------------------------------------------------------------
At(r, step) == request[r].at = step

Step(r, step) == request' = [request EXCEPT ![r].at = step]

\* Mutant: the request is answered but stays where it was.
FinishMutant(r) == request' = [request EXCEPT ![r] = [@ EXCEPT !.at = "answered"]]

Finish(r) == request' = [request EXCEPT ![r] = Idle]

Arrive(r, body) ==
  /\ At(r, "idle")
  /\ request' = [request EXCEPT ![r] = [at |-> "insert", body |-> body, answer |-> Nothing]]
  /\ UNCHANGED <<row, effect>>

\* Mutant: a key that is in progress can be taken over.
KeyFreeMutant == row.status # "COMPLETED"

\* The unique index on (tenant, endpoint, key).
KeyFree == row.status = "NONE"

Insert(r) ==
  /\ At(r, "insert")
  /\ IF KeyFree
     THEN /\ row' = [NoRow EXCEPT !.status = "IN_PROGRESS", !.body = request[r].body, !.owner = r]
          /\ Step(r, "run")
     ELSE /\ Step(r, "read")
          /\ UNCHANGED row
  /\ UNCHANGED effect

\* Mutant: the fingerprint is not compared.
ReplaysMutant(r) == row.status = "COMPLETED"

\* The stored answer is served again.
Replays(r) == row.status = "COMPLETED" /\ row.body = request[r].body

\* Replayed, or refused: the record is gone by now, its body is another one, or
\* the original is in progress.  Either way the row stays as it is.
Read(r) ==
  /\ At(r, "read")
  /\ Finish(r)
  /\ UNCHANGED <<row, effect>>

\* The operation takes effect and answers, or throws.
Run(r) ==
  /\ At(r, "run")
  /\ \/ \E a \in Answers :
          /\ effect' = [effect EXCEPT !.times = @ + 1, !.body = request[r].body, !.answer = a]
          /\ request' = [request EXCEPT ![r] = [@ EXCEPT !.at = "store", !.answer = a]]
     \/ "throw" \in KeyMix /\ Step(r, "release") /\ UNCHANGED effect
  /\ UNCHANGED row

\* Updates and deletes by id miss a row that someone else inserted.
Mine(r) == row.status # "NONE" /\ row.owner = r

Completed(r) == [row EXCEPT !.status = "COMPLETED", !.answer = request[r].answer]

Store(r) ==
  /\ At(r, "store")
  /\ row' = IF Mine(r) THEN Completed(r) ELSE row
  /\ Finish(r)
  /\ UNCHANGED effect

\* The update fails: the catch block cannot tell that the operation succeeded.
StoreFails(r) ==
  /\ effect.lost < MaxLost
  /\ At(r, "store")
  /\ Step(r, "release")
  /\ effect' = [effect EXCEPT !.lost = @ + 1]
  /\ UNCHANGED row

Release(r) ==
  /\ At(r, "release")
  /\ row' = IF Mine(r) THEN NoRow ELSE row
  /\ Finish(r)
  /\ UNCHANGED effect

KeyCrash(r) ==
  /\ "crash" \in KeyMix
  /\ ~At(r, "idle")
  /\ Finish(r)
  /\ UNCHANGED <<row, effect>>

Running(r) == request[r].at \in {"run", "store", "release"}

\* 24 hours pass.  No operation takes that long.
Expire ==
  /\ row.status # "NONE" /\ ~row.expired
  /\ \A r \in Requests : ~Running(r)
  /\ row' = [row EXCEPT !.expired = TRUE]
  /\ UNCHANGED <<request, effect>>

\* Mutant: only keys whose operation ended are purged.
PurgeableMutant == row.expired /\ row.status = "COMPLETED"

Purgeable == row.expired

\* purgeExpiredKeys.  What is promised of a key ends here.
Purge ==
  /\ Purgeable
  /\ row' = NoRow
  /\ effect' = NoEffect
  /\ UNCHANGED request

Proceed(r) ==
  Insert(r) \/ Read(r) \/ Run(r) \/ Store(r) \/ Release(r)

KeyNext ==
  \/ \E r \in Requests :
       \/ \E body \in Bodies : Arrive(r, body)
       \/ Proceed(r) \/ StoreFails(r) \/ KeyCrash(r)
  \/ Expire \/ Purge

KeySpec == KeyInit /\ [][KeyNext]_keyVars

\* Requests run on, a day passes, and maintenance.cleanup is queued every hour.
FairKeySpec ==
  KeySpec /\ (\A r \in Requests : WF_keyVars(Proceed(r))) /\ WF_keyVars(Expire) /\ WF_keyVars(Purge)

-----------------------------------------------------------------------------
(* Properties.                                                             *)

\* "Run `operation` at most once per (tenant, endpoint, key)": until the key is
\* purged, the operation takes effect once, whichever requests overlap, throw or
\* die, and again only for an answer the database failed to store
\* (withIdempotency's catch block releases the key then too).
AtMostOncePerStoredAnswer == effect.times <= 1 + effect.lost

\* A request that is served a stored answer sent the body that took effect, and
\* gets the answer of that effect (withIdempotency's replay).
ReplayIsTheEffect ==
  \A r \in Requests : At(r, "read") /\ Replays(r) =>
    /\ effect.times > effect.lost
    /\ effect.body = request[r].body
    /\ effect.answer = row.answer

\* A key never stays in progress: it is completed, released or, after a crash,
\* purged (withIdempotency, purgeExpiredKeys).
KeyIsFreed == row.status = "IN_PROGRESS" ~> row.status # "IN_PROGRESS"
=============================================================================
