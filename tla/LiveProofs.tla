----------------------------- MODULE LiveProofs -----------------------------
(***************************************************************************)
(* Theorems of the components that share the instance MCLive.              *)
(*                                                                         *)
(* Idempotency, for any number of requests, bodies and answers: the type   *)
(* invariant, that the operation runs at most once per stored answer, and  *)
(* that a replay serves the answer of the effect.                          *)
(*                                                                         *)
(* TrackerEnrollment, for any number of rows, vehicles, tries and faults:  *)
(* the type invariant, under any number of passes, and that a vehicle's    *)
(* tracker is alive, under the one pass at a time that is deployed.        *)
(***************************************************************************)
EXTENDS MCLive, TLAPS

\* The request whose operation runs holds the row, and nothing has purged it.
Owns(r) ==
  /\ row.status = "IN_PROGRESS" /\ ~row.expired
  /\ row.owner = r /\ row.body = request[r].body

Exclusive == \A r \in Requests : Running(r) => Owns(r)

\* Where nothing took effect that is not accounted for.
Clean ==
  /\ row.status = "NONE" => effect.times = effect.lost
  /\ \A r \in Requests : At(r, "run") \/ At(r, "release") => effect.times = effect.lost

\* Where one effect waits to be stored, or is.
Pending ==
  \A r \in Requests : At(r, "store") =>
    /\ effect.times = effect.lost + 1
    /\ effect.body = request[r].body /\ effect.answer = request[r].answer

Kept ==
  row.status = "COMPLETED" =>
    /\ effect.times = effect.lost + 1
    /\ effect.body = row.body /\ effect.answer = row.answer

Inv == KeyTypeOK /\ Exclusive /\ Clean /\ Pending /\ Kept /\ AtMostOncePerStoredAnswer

-----------------------------------------------------------------------------
LEMMA InitInv == KeyInit => Inv
  BY DEF KeyInit, Inv, KeyTypeOK, Row, Request, Effect, Steps, NoRow, NoEffect, Idle, Exclusive,
         Clean, Pending, Kept, AtMostOncePerStoredAnswer, Running, Owns, At

LEMMA ArriveInv ==
  ASSUME Inv, NEW r \in Requests, NEW body \in Bodies, Arrive(r, body)
  PROVE  Inv'
  BY DEF Inv, KeyTypeOK, Row, Request, Effect, Steps, Arrive, Exclusive, Clean, Pending, Kept,
         AtMostOncePerStoredAnswer, Running, Owns, At

LEMMA InsertInv ==
  ASSUME Inv, NEW r \in Requests, Insert(r)
  PROVE  Inv'
<1> USE DEF Inv, KeyTypeOK, Row, Request, Effect, Steps, At
<1>1. CASE KeyFree
  <2>1. /\ row.status = "NONE"
        /\ row' = [NoRow EXCEPT !.status = "IN_PROGRESS", !.body = request[r].body, !.owner = r]
        /\ request' = [request EXCEPT ![r].at = "run"]
        /\ effect' = effect
    BY <1>1 DEF Insert, KeyFree, Step
  <2>2. KeyTypeOK'
    <3>1. [NoRow EXCEPT !.status = "IN_PROGRESS", !.body = request[r].body, !.owner = r] \in Row
      BY DEF NoRow
    <3>2. [request[r] EXCEPT !.at = "run"] \in Request
      OBVIOUS
    <3>3. request' = [request EXCEPT ![r] = [request[r] EXCEPT !.at = "run"]]
      BY <2>1
    <3> QED
      BY <2>1, <3>1, <3>2, <3>3
  <2>3. \A x \in Requests : ~Running(x)
    BY <2>1 DEF Exclusive, Owns
  <2>4. Exclusive'
    BY <2>1, <2>3 DEF Exclusive, Owns, Running, NoRow
  <2>5. Clean' /\ Pending' /\ Kept' /\ AtMostOncePerStoredAnswer'
    BY <2>1, <2>3 DEF Clean, Pending, Kept, AtMostOncePerStoredAnswer, Running, NoRow
  <2> QED
    BY <2>2, <2>4, <2>5
<1>2. CASE ~KeyFree
  <2>1. row' = row /\ effect' = effect /\ request' = [request EXCEPT ![r].at = "read"]
    BY <1>2 DEF Insert, Step
  <2> QED
    BY <2>1 DEF Exclusive, Clean, Pending, Kept, AtMostOncePerStoredAnswer, Running, Owns
<1> QED
  BY <1>1, <1>2

\* A request that ends or crashes leaves the row and the effect alone.
LEMMA FinishInv ==
  ASSUME Inv, NEW r \in Requests, Finish(r), row' = row, effect' = effect
  PROVE  Inv'
  BY DEF Inv, KeyTypeOK, Row, Request, Effect, Steps, Finish, Idle, Exclusive, Clean, Pending,
         Kept, AtMostOncePerStoredAnswer, Running, Owns, At

LEMMA AnswerTyped ==
  ASSUME NEW q \in Request, NEW a \in Answers PROVE [q EXCEPT !.at = "store", !.answer = a] \in Request
BY DEF Request, Steps

LEMMA RunInv ==
  ASSUME Inv, NEW r \in Requests, Run(r)
  PROVE  Inv'
<1> USE DEF Inv, KeyTypeOK, Row, Request, Effect, Steps, At
<1>1. /\ Owns(r) /\ effect.times = effect.lost
      /\ \A x \in Requests \ {r} : ~Running(x)
  BY DEF Run, Exclusive, Clean, Running, Owns
<1>2. ASSUME NEW a \in Answers,
             effect' = [effect EXCEPT !.times = @ + 1, !.body = request[r].body, !.answer = a],
             request' = [request EXCEPT ![r] = [@ EXCEPT !.at = "store", !.answer = a]],
             row' = row
      PROVE  Inv'
  <2>1. KeyTypeOK'
    <3>1. effect' \in Effect
      <4>1. effect.times + 1 \in Nat /\ request[r].body \in Bodies \cup {Nothing}
        OBVIOUS
      <4> QED
        BY <1>2, <4>1
    <3>2. request' \in [Requests -> Request]
      <4>1. [request[r] EXCEPT !.at = "store", !.answer = a] \in Request
        BY AnswerTyped
      <4> QED
        BY <1>2, <4>1
    <3> QED
      BY <1>2, <3>1, <3>2
  <2>2. Exclusive'
    BY <1>1, <1>2 DEF Exclusive, Owns, Running
  <2>3. Clean' /\ Pending'
    BY <1>1, <1>2 DEF Clean, Pending, Owns, Running
  <2>4. Kept' /\ AtMostOncePerStoredAnswer'
    BY <1>1, <1>2 DEF Kept, AtMostOncePerStoredAnswer, Owns
  <2> QED
    BY <2>1, <2>2, <2>3, <2>4
<1>3. ASSUME request' = [request EXCEPT ![r].at = "release"], row' = row, effect' = effect
      PROVE  Inv'
  BY <1>1, <1>3 DEF Exclusive, Clean, Pending, Kept, AtMostOncePerStoredAnswer, Running, Owns
<1> QED
  BY <1>2, <1>3 DEF Run, Step

LEMMA StoreInv ==
  ASSUME Inv, NEW r \in Requests, Store(r)
  PROVE  Inv'
<1> USE DEF Inv, KeyTypeOK, Row, Request, Effect, Steps, At
<1>1. /\ Owns(r) /\ Mine(r)
      /\ effect.times = effect.lost + 1
      /\ effect.body = request[r].body /\ effect.answer = request[r].answer
      /\ \A x \in Requests \ {r} : ~Running(x)
  BY DEF Store, Exclusive, Pending, Running, Owns, Mine
<1>2. /\ row' = [row EXCEPT !.status = "COMPLETED", !.answer = request[r].answer]
      /\ request' = [request EXCEPT ![r] = Idle]
      /\ effect' = effect
  BY <1>1 DEF Store, Completed, Finish
<1>3. KeyTypeOK'
  BY <1>2 DEF Idle
<1>4. Exclusive' /\ Clean' /\ Pending'
  BY <1>1, <1>2 DEF Exclusive, Clean, Pending, Running, Owns, Idle
<1>5. Kept' /\ AtMostOncePerStoredAnswer'
  BY <1>1, <1>2 DEF Kept, AtMostOncePerStoredAnswer, Owns
<1> QED
  BY <1>3, <1>4, <1>5

LEMMA StoreFailsInv ==
  ASSUME Inv, NEW r \in Requests, StoreFails(r)
  PROVE  Inv'
<1> USE DEF Inv, KeyTypeOK, Row, Request, Effect, Steps, At
<1>1. /\ Owns(r) /\ effect.times = effect.lost + 1
      /\ \A x \in Requests \ {r} : ~Running(x)
  BY DEF StoreFails, Exclusive, Pending, Running, Owns
<1>2. /\ row' = row
      /\ request' = [request EXCEPT ![r].at = "release"]
      /\ effect' = [effect EXCEPT !.lost = @ + 1]
  BY DEF StoreFails, Step
<1>3. KeyTypeOK'
  BY <1>2
<1>4. Exclusive'
  BY <1>1, <1>2 DEF Exclusive, Owns, Running
<1>5. Clean' /\ Pending' /\ Kept' /\ AtMostOncePerStoredAnswer'
  BY <1>1, <1>2 DEF Clean, Pending, Kept, AtMostOncePerStoredAnswer, Running, Owns
<1> QED
  BY <1>3, <1>4, <1>5

LEMMA ReleaseInv ==
  ASSUME Inv, NEW r \in Requests, Release(r)
  PROVE  Inv'
<1> USE DEF Inv, KeyTypeOK, Row, Request, Effect, Steps, At
<1>1. /\ Mine(r) /\ effect.times = effect.lost
      /\ \A x \in Requests \ {r} : ~Running(x)
  BY DEF Release, Exclusive, Clean, Running, Owns, Mine
<1>2. row' = NoRow /\ request' = [request EXCEPT ![r] = Idle] /\ effect' = effect
  BY <1>1 DEF Release, Finish
<1>3. KeyTypeOK'
  BY <1>2 DEF Idle, NoRow
<1>4. Exclusive' /\ Clean' /\ Pending' /\ Kept' /\ AtMostOncePerStoredAnswer'
  BY <1>1, <1>2 DEF Exclusive, Clean, Pending, Kept, AtMostOncePerStoredAnswer, Running, Owns,
                    Idle, NoRow
<1> QED
  BY <1>3, <1>4

LEMMA ExpireInv ==
  ASSUME Inv, Expire
  PROVE  Inv'
  BY DEF Inv, KeyTypeOK, Row, Request, Effect, Steps, Expire, Exclusive, Clean, Pending, Kept,
         AtMostOncePerStoredAnswer, Running, Owns, At

\* A row that expired belongs to no operation that runs, so a purge takes it
\* from nobody.
LEMMA PurgeInv ==
  ASSUME Inv, Purge
  PROVE  Inv'
<1> USE DEF Inv, KeyTypeOK, Row, Request, Effect, Steps, At
<1>1. \A r \in Requests : ~Running(r)
  BY DEF Purge, Purgeable, Exclusive, Owns
<1>2. row' = NoRow /\ effect' = NoEffect /\ request' = request
  BY DEF Purge
<1>3. KeyTypeOK'
  BY <1>2 DEF NoRow, NoEffect
<1>4. Exclusive' /\ Clean' /\ Pending' /\ Kept' /\ AtMostOncePerStoredAnswer'
  BY <1>1, <1>2 DEF Exclusive, Clean, Pending, Kept, AtMostOncePerStoredAnswer, Running, NoRow,
                    NoEffect
<1> QED
  BY <1>3, <1>4

LEMMA NextInv == Inv /\ [KeyNext]_keyVars => Inv'
<1> SUFFICES ASSUME Inv, [KeyNext]_keyVars
             PROVE  Inv'
  OBVIOUS
<1>1. ASSUME NEW r \in Requests, NEW body \in Bodies, Arrive(r, body) PROVE Inv'
  BY <1>1, ArriveInv
<1>2. ASSUME NEW r \in Requests, Insert(r) PROVE Inv'
  BY <1>2, InsertInv
<1>3. ASSUME NEW r \in Requests, Read(r) PROVE Inv'
  BY <1>3, FinishInv DEF Read
<1>4. ASSUME NEW r \in Requests, Run(r) PROVE Inv'
  BY <1>4, RunInv
<1>5. ASSUME NEW r \in Requests, Store(r) PROVE Inv'
  BY <1>5, StoreInv
<1>6. ASSUME NEW r \in Requests, Release(r) PROVE Inv'
  BY <1>6, ReleaseInv
<1>7. ASSUME NEW r \in Requests, StoreFails(r) PROVE Inv'
  BY <1>7, StoreFailsInv
<1>8. ASSUME NEW r \in Requests, KeyCrash(r) PROVE Inv'
  BY <1>8, FinishInv DEF KeyCrash
<1>9. CASE Expire
  BY <1>9, ExpireInv
<1>10. CASE Purge
  BY <1>10, PurgeInv
<1>11. CASE UNCHANGED keyVars
  BY <1>11 DEF keyVars, Inv, KeyTypeOK, Exclusive, Clean, Pending, Kept, AtMostOncePerStoredAnswer,
               Running, Owns, At
<1> QED
  BY <1>1, <1>2, <1>3, <1>4, <1>5, <1>6, <1>7, <1>8, <1>9, <1>10, <1>11 DEF KeyNext, Proceed

\* Every variable keeps its type.
THEOREM KeyTypeCorrect == KeySpec => []KeyTypeOK
<1>1. Inv => KeyTypeOK
  BY DEF Inv
<1> QED
  BY InitInv, NextInv, <1>1, PTL DEF KeySpec

\* The operation takes effect at most once per answer that could be stored,
\* for any number of requests with the key.
THEOREM AtMostOnce == KeySpec => []AtMostOncePerStoredAnswer
<1>1. Inv => AtMostOncePerStoredAnswer
  BY DEF Inv
<1> QED
  BY InitInv, NextInv, <1>1, PTL DEF KeySpec

\* A replayed answer is the answer of the effect, for the same body.
THEOREM ReplayCorrect == KeySpec => []ReplayIsTheEffect
<1>1. Inv => ReplayIsTheEffect
  BY DEF Inv, KeyTypeOK, Effect, Row, Request, Kept, ReplayIsTheEffect, Replays
<1> QED
  BY InitInv, NextInv, <1>1, PTL DEF KeySpec

-----------------------------------------------------------------------------
\* tracking-worker.ts is deployed as one service that starts a pass when the one
\* before has ended.
OnePass == \A w, v \in TrackWorkers : w = v

\* A pass at work on a row names it.
TrackerTyped ==
  /\ TrackerTypeOK
  /\ \A w \in TrackWorkers : pass[w].at \in {"create", "mark", "fail", "cleaned"} => pass[w].row \in Rows

Retired(r) == ledger[r].status = "CLOSED" \/ r \in revived

\* What a pass may rely on, whatever operators did since it read.
PassKnows(w) ==
  /\ pass[w].at \in {"create", "mark", "fail"} => ledger[pass[w].row].status \in {"PENDING", "CLOSED"}
  /\ pass[w].at = "mark" => pass[w].row \in device
  /\ pass[w].at = "close" =>
       \A r \in pass[w].todo : ledger[r].status \in {"PENDING", "PROVISIONED", "CLOSED"}
  /\ pass[w].at \in {"delete", "cleaned"} => \A r \in pass[w].todo : Retired(r)
  /\ pass[w].at = "cleaned" => Retired(pass[w].row)

RowsAlive ==
  \A r \in Rows :
    /\ ledger[r].due => Retired(r)
    /\ ledger[r].status \in {"PROVISIONED", "ACTIVE"} => r \in device \cup revived

TrackersPoint ==
  \A v \in Vehicles : tracker[v] # NoEnrollment =>
    ledger[tracker[v]].status = "ACTIVE" /\ ledger[tracker[v]].vehicle = v

AliveInv ==
  /\ TrackerTyped
  /\ \A w \in TrackWorkers : PassKnows(w)
  /\ RowsAlive
  /\ TrackersPoint

-----------------------------------------------------------------------------
LEMMA AliveStart == TrackerInit => AliveInv
<1> SUFFICES ASSUME TrackerInit PROVE AliveInv
  OBVIOUS
<1> USE TrackerAssumption DEF TrackerInit
<1>1. Unminted \in LedgerRow /\ NewPass \in Pass
  BY DEF Unminted, LedgerRow, LedgerStatuses, NewPass, Pass, WorkerSteps
<1>2. TrackerTyped
  BY <1>1 DEF TrackerTyped, TrackerTypeOK, NewPass
<1>3. \A w \in TrackWorkers : PassKnows(w)
  BY DEF PassKnows, NewPass
<1>4. RowsAlive /\ TrackersPoint
  BY DEF RowsAlive, TrackersPoint, Unminted
<1> QED
  BY <1>2, <1>3, <1>4 DEF AliveInv

\* Closing rows is a matter of their status and of what is due.
LEMMA CloseAllDoes ==
  ASSUME ledger \in [Rows -> LedgerRow], NEW S
  PROVE  /\ CloseAll(S) \in [Rows -> LedgerRow]
         /\ \A r \in Rows : /\ CloseAll(S)[r].vehicle = ledger[r].vehicle
                            /\ r \notin S => CloseAll(S)[r] = ledger[r]
                            /\ r \in S => CloseAll(S)[r].status = "CLOSED"
<1>1. \A r \in Rows : Closed(ledger[r]) \in LedgerRow /\ Closed(ledger[r]).vehicle = ledger[r].vehicle
                      /\ Closed(ledger[r]).status = "CLOSED"
  BY DEF Closed, LedgerRow, LedgerStatuses
<1> QED
  BY <1>1 DEF CloseAll

\* What anybody but a failed attempt does to a row.
Gently(r) ==
  \/ /\ ledger'[r].status = ledger[r].status /\ ledger'[r].vehicle = ledger[r].vehicle
     /\ ledger'[r].due => ledger[r].due
  \/ /\ ledger[r].status # "NONE" /\ ledger'[r].status = "CLOSED"
     /\ ledger'[r].vehicle = ledger[r].vehicle
  \/ ledger[r].status = "NONE" /\ ledger'[r].status = "PENDING" /\ ~ledger'[r].due

OperatorStep ==
  \/ \E v \in Vehicles : StartEnrollment(v) \/ RemoveTracking(v) \/ ClearVehicleTracker(v)
  \/ \E r \in Rows : CancelEnrollment(r) \/ ExtendEnrollment(r) \/ CodeExpires(r)

LEMMA OperatorsAreGentle ==
  ASSUME TrackerTyped, OperatorStep
  PROVE  /\ ledger' \in [Rows -> LedgerRow] /\ tracker' \in [Vehicles -> Rows \cup {NoEnrollment}]
         /\ \A r \in Rows : Gently(r)
         /\ UNCHANGED <<device, pass, faults, revived>>
<1>0. ledger \in [Rows -> LedgerRow] /\ tracker \in [Vehicles -> Rows \cup {NoEnrollment}]
  BY DEF TrackerTyped, TrackerTypeOK
<1>1. ASSUME NEW v \in Vehicles, NEW r \in Rows, ledger[r].status = "NONE",
             ledger' = [CloseAll({o \in RowsOf(v) : InFlight(o)}) EXCEPT
                          ![r] = [Unminted EXCEPT !.status = "PENDING", !.vehicle = v]]
      PROVE  ledger' \in [Rows -> LedgerRow] /\ \A o \in Rows : Gently(o)
  <2>1. [Unminted EXCEPT !.status = "PENDING", !.vehicle = v] \in LedgerRow
    <3>1. Unminted \in LedgerRow
      BY TrackerAssumption DEF Unminted, LedgerRow, LedgerStatuses
    <3> QED
      BY <3>1 DEF LedgerRow, LedgerStatuses
  <2>2. [Unminted EXCEPT !.status = "PENDING", !.vehicle = v].status = "PENDING"
        /\ ~[Unminted EXCEPT !.status = "PENDING", !.vehicle = v].due
    BY DEF Unminted
  <2> QED
    BY <1>0, <1>1, <2>1, <2>2, CloseAllDoes DEF Gently, InFlight
<1>2. ASSUME NEW S, \A r \in S : ledger[r].status # "NONE", ledger' = CloseAll(S)
      PROVE  ledger' \in [Rows -> LedgerRow] /\ \A o \in Rows : Gently(o)
  BY <1>0, <1>2, CloseAllDoes DEF Gently
<1>3. ASSUME NEW r \in Rows, ExtendEnrollment(r) \/ CodeExpires(r)
      PROVE  ledger' \in [Rows -> LedgerRow] /\ \A o \in Rows : Gently(o)
  <2>1. CASE ExtendEnrollment(r)
    <3>1. LET f == [ledger[r] EXCEPT !.extended = TRUE, !.expired = FALSE]
          IN  f \in LedgerRow /\ f.status = ledger[r].status /\ f.vehicle = ledger[r].vehicle /\ f.due = ledger[r].due
      BY <1>0 DEF LedgerRow
    <3>2. ledger' = [ledger EXCEPT ![r] = [ledger[r] EXCEPT !.extended = TRUE, !.expired = FALSE]]
      BY <1>0, <2>1 DEF ExtendEnrollment
    <3> QED
      BY <1>0, <3>1, <3>2 DEF Gently
  <2>2. CASE CodeExpires(r)
    <3>1. LET f == [ledger[r] EXCEPT !.expired = TRUE]
          IN  f \in LedgerRow /\ f.status = ledger[r].status /\ f.vehicle = ledger[r].vehicle /\ f.due = ledger[r].due
      BY <1>0 DEF LedgerRow
    <3>2. ledger' = [ledger EXCEPT ![r] = [ledger[r] EXCEPT !.expired = TRUE]]
      BY <2>2 DEF CodeExpires
    <3> QED
      BY <1>0, <3>1, <3>2 DEF Gently
  <2> QED
    BY <1>3, <2>1, <2>2
<1>4. ASSUME NEW v \in Vehicles, StartEnrollment(v)
      PROVE  ledger' \in [Rows -> LedgerRow] /\ \A o \in Rows : Gently(o)
  BY <1>1, <1>4 DEF StartEnrollment
<1>5. ASSUME NEW v \in Vehicles, RemoveTracking(v)
      PROVE  ledger' \in [Rows -> LedgerRow] /\ \A o \in Rows : Gently(o)
  BY <1>2, <1>5 DEF RemoveTracking, InFlight
<1>6. ASSUME NEW r \in Rows, CancelEnrollment(r)
      PROVE  ledger' \in [Rows -> LedgerRow] /\ \A o \in Rows : Gently(o)
  BY <1>2, <1>6 DEF CancelEnrollment, InFlight
<1>7. ASSUME NEW v \in Vehicles, ClearVehicleTracker(v)
      PROVE  ledger' \in [Rows -> LedgerRow] /\ \A o \in Rows : Gently(o)
  BY <1>0, <1>7 DEF ClearVehicleTracker, Gently
<1>8. tracker' \in [Vehicles -> Rows \cup {NoEnrollment}] /\ UNCHANGED <<device, pass, faults, revived>>
  BY <1>0 DEF OperatorStep, StartEnrollment, RemoveTracking, ClearVehicleTracker, CancelEnrollment,
    ExtendEnrollment, CodeExpires
<1> QED
  BY <1>3, <1>4, <1>5, <1>6, <1>7, <1>8 DEF OperatorStep

\* A step of a pass writes its own record, with a row in it where one is needed.
LEMMA PassTyped ==
  ASSUME TrackerTyped, NEW w \in TrackWorkers, NEW p \in Pass, pass' = [pass EXCEPT ![w] = p],
         p.at \in {"create", "mark", "fail", "cleaned"} => p.row \in Rows,
         ledger' \in [Rows -> LedgerRow], tracker' \in [Vehicles -> Rows \cup {NoEnrollment}],
         device' \subseteq Rows, faults' \in 0 .. MaxFaults, revived' \subseteq Rows
  PROVE  TrackerTyped'
<1>1. pass' \in [TrackWorkers -> Pass]
  BY DEF TrackerTyped, TrackerTypeOK
<1>2. \A v \in TrackWorkers : pass'[v] = (IF v = w THEN p ELSE pass[v])
  BY DEF TrackerTyped, TrackerTypeOK
<1>3. TrackerTypeOK'
  BY <1>1 DEF TrackerTypeOK
<1> QED
  BY <1>2, <1>3 DEF TrackerTyped

LEMMA PassesTyped ==
  /\ NewPass \in Pass /\ NewPass.at = "claim"
  /\ \A step \in WorkerSteps : /\ [NewPass EXCEPT !.at = step] \in Pass
                               /\ [NewPass EXCEPT !.at = step].at = step
  /\ \A step \in WorkerSteps, todo \in SUBSET Rows :
       /\ [NewPass EXCEPT !.at = step, !.todo = todo] \in Pass
       /\ [NewPass EXCEPT !.at = step, !.todo = todo].at = step
       /\ [NewPass EXCEPT !.at = step, !.todo = todo].todo = todo
  /\ \A step \in WorkerSteps, r \in Rows :
       /\ [NewPass EXCEPT !.at = step, !.row = r] \in Pass
       /\ [NewPass EXCEPT !.at = step, !.row = r].at = step
       /\ [NewPass EXCEPT !.at = step, !.row = r].row = r
BY DEF NewPass, Pass, WorkerSteps

LEMMA TrackerTypedStep == TrackerTyped /\ [TrackerNext]_trackVars => TrackerTyped'
<1> SUFFICES ASSUME TrackerTyped, [TrackerNext]_trackVars PROVE TrackerTyped'
  OBVIOUS
<1>0. /\ ledger \in [Rows -> LedgerRow] /\ tracker \in [Vehicles -> Rows \cup {NoEnrollment}]
      /\ device \subseteq Rows /\ pass \in [TrackWorkers -> Pass] /\ faults \in 0 .. MaxFaults
      /\ revived \subseteq Rows
      /\ \A w \in TrackWorkers : pass[w].at \in {"create", "mark", "fail", "cleaned"} => pass[w].row \in Rows
  BY DEF TrackerTyped, TrackerTypeOK
<1>1. CASE OperatorStep
  <2>1. /\ ledger' \in [Rows -> LedgerRow] /\ tracker' \in [Vehicles -> Rows \cup {NoEnrollment}]
        /\ UNCHANGED <<device, faults, revived>>
    BY <1>1, OperatorsAreGentle
  <2>2. UNCHANGED pass
    BY <1>1, OperatorsAreGentle
  <2> QED
    BY <1>0, <2>1, <2>2 DEF TrackerTyped, TrackerTypeOK
<1>2. ASSUME NEW w \in TrackWorkers, ClaimOne(w) PROVE TrackerTyped'
  <2>1. PICK r \in Rows :
          /\ ledger' = [ledger EXCEPT ![r].tries = IF @ < MaxTrackTries THEN @ + 1 ELSE @]
          /\ pass' = [pass EXCEPT ![w] = [NewPass EXCEPT !.at = "create", !.row = r]]
    BY <1>2 DEF ClaimOne
  <2> DEFINE p == [NewPass EXCEPT !.at = "create", !.row = r]
  <2>2. p \in Pass /\ p.row = r /\ pass' = [pass EXCEPT ![w] = p]
    BY <2>1 DEF NewPass, Pass, WorkerSteps
  <2>3. ledger[r].tries \in 0 .. MaxTrackTries /\ MaxTrackTries \in Nat
    BY <1>0, TrackerAssumption DEF LedgerRow
  <2>4. (IF ledger[r].tries < MaxTrackTries THEN ledger[r].tries + 1 ELSE ledger[r].tries) \in 0 .. MaxTrackTries
    BY <2>3
  <2>5. ledger' \in [Rows -> LedgerRow]
    BY <1>0, <2>1, <2>4 DEF LedgerRow
  <2> HIDE DEF p
  <2> QED
    BY <1>0, <1>2, <2>2, <2>5, PassTyped DEF ClaimOne
<1>3. ASSUME NEW w \in TrackWorkers, NEW step \in WorkerSteps, Phase(w, step),
             step \notin {"create", "mark", "fail", "cleaned"},
             ledger' \in [Rows -> LedgerRow], revived' \subseteq Rows, faults' \in 0 .. MaxFaults,
             UNCHANGED <<tracker, device>>
      PROVE  TrackerTyped'
  BY <1>0, <1>3, PassesTyped, PassTyped DEF Phase
<1>4. ASSUME NEW w \in TrackWorkers, NEW step \in WorkerSteps, NEW rows \in SUBSET Rows, Select(w, step, rows),
             step \notin {"create", "mark", "fail", "cleaned"},
             UNCHANGED <<ledger, tracker, device, faults, revived>>
      PROVE  TrackerTyped'
  <2> DEFINE p == [NewPass EXCEPT !.at = step, !.todo = rows]
  <2>1. p \in Pass /\ p.at = step /\ pass' = [pass EXCEPT ![w] = p]
    BY <1>4 DEF Select, NewPass, Pass
  <2> HIDE DEF p
  <2> QED
    BY <1>0, <1>4, <2>1, PassTyped
<1>5. ASSUME NEW w \in TrackWorkers, NEW r \in Rows, Done(w, r), pass[w].at \in {"bind", "close"},
             ledger' \in [Rows -> LedgerRow], tracker' \in [Vehicles -> Rows \cup {NoEnrollment}],
             UNCHANGED <<device, faults, revived>>
      PROVE  TrackerTyped'
  <2> DEFINE p == [pass[w] EXCEPT !.todo = @ \ {r}]
  <2>1. p \in Pass /\ p.at = pass[w].at
    BY <1>0, <1>5 DEF Pass
  <2>2. pass' = [pass EXCEPT ![w] = p]
    BY <1>5 DEF Done
  <2> HIDE DEF p
  <2> QED
    BY <1>0, <1>5, <2>1, <2>2, PassTyped
<1>6. ASSUME NEW w \in TrackWorkers, NothingToClaim(w) \/ NextPhase(w) \/ PassCrash(w) PROVE TrackerTyped'
  <2>1. Fault => faults' \in 0 .. MaxFaults
    BY <1>0, TrackerAssumption DEF Fault
  <2>2. CASE NothingToClaim(w)
    BY <1>0, <1>3, <2>2 DEF NothingToClaim, WorkerSteps
  <2>3. CASE NextPhase(w)
    BY <1>0, <1>3, <2>3 DEF NextPhase, After, WorkerSteps
  <2>4. CASE PassCrash(w)
    BY <1>0, <1>3, <2>1, <2>4 DEF PassCrash, WorkerSteps
  <2> QED
    BY <1>6, <2>2, <2>3, <2>4
<1>7. ASSUME NEW w \in TrackWorkers, Provision(w) PROVE TrackerTyped'
  <2>1. Fault => faults' \in 0 .. MaxFaults
    BY <1>0, TrackerAssumption DEF Fault
  <2>2. PICK step \in {"mark", "fail"} : pass' = [pass EXCEPT ![w] = [pass[w] EXCEPT !.at = step]]
    BY <1>7 DEF Provision
  <2>3. pass[w].row \in Rows
    BY <1>0, <1>7 DEF Provision, WorkerAt
  <2> DEFINE p == [pass[w] EXCEPT !.at = step]
  <2>4. p \in Pass /\ p.row = pass[w].row /\ pass' = [pass EXCEPT ![w] = p]
    BY <1>0, <2>2 DEF Pass, WorkerSteps
  <2>5. device' \subseteq Rows /\ faults' \in 0 .. MaxFaults /\ UNCHANGED <<ledger, tracker, revived>>
    BY <1>0, <1>7, <2>1, <2>3 DEF Provision
  <2> HIDE DEF p
  <2> QED
    BY <1>0, <2>3, <2>4, <2>5, PassTyped
<1>8. ASSUME NEW w \in TrackWorkers, Mark(w) PROVE TrackerTyped'
  <2>1. ledger' \in [Rows -> LedgerRow]
    BY <1>0, <1>8 DEF Mark, WorkerAt, LedgerRow, LedgerStatuses
  <2> QED
    BY <1>0, <1>3, <1>8, <2>1 DEF Mark, WorkerSteps
<1>9. ASSUME NEW w \in TrackWorkers, RecordFailure(w) PROVE TrackerTyped'
  <2>1. ledger' \in [Rows -> LedgerRow] /\ revived' \subseteq Rows
    BY <1>0, <1>9 DEF RecordFailure, WorkerAt, LedgerRow, LedgerStatuses
  <2> QED
    BY <1>0, <1>3, <1>9, <2>1 DEF RecordFailure, WorkerSteps
<1>10. ASSUME NEW w \in TrackWorkers, DetectRead(w) \/ SweepRead(w) \/ CleanRead(w) PROVE TrackerTyped'
  BY <1>4, <1>10 DEF DetectRead, SweepRead, CleanRead, WorkerSteps
<1>11. ASSUME NEW w \in TrackWorkers, NoFix(w) \/ Bind(w) \/ SweepWrite(w) PROVE TrackerTyped'
  <2>1. PICK r \in pass[w].todo : Done(w, r) /\ (NoFix(w) \/ SweepWrite(w) => ledger' \in {ledger, CloseAll({r})})
          /\ (Bind(w) => \/ UNCHANGED <<ledger, tracker>>
                         \/ /\ ledger' = [CloseAll(Outgoing(r)) EXCEPT ![r].status = "ACTIVE"]
                            /\ tracker' = [tracker EXCEPT ![ledger[r].vehicle] = r])
    BY <1>11 DEF NoFix, Bind, SweepWrite, WorkerAt
  <2>2. r \in Rows /\ pass[w].at \in {"bind", "close"}
    BY <1>0, <1>11 DEF Pass, NoFix, Bind, SweepWrite, WorkerAt
  <2>3. CloseAll({r}) \in [Rows -> LedgerRow] /\ CloseAll(Outgoing(r)) \in [Rows -> LedgerRow]
    BY <1>0, CloseAllDoes
  <2>4. [CloseAll(Outgoing(r)) EXCEPT ![r].status = "ACTIVE"] \in [Rows -> LedgerRow]
    BY <2>2, <2>3 DEF LedgerRow, LedgerStatuses
  <2>5. ledger' \in [Rows -> LedgerRow] /\ tracker' \in [Vehicles -> Rows \cup {NoEnrollment}]
    <3>1. CASE NoFix(w) \/ SweepWrite(w)
      BY <1>0, <2>1, <2>3, <3>1 DEF NoFix, SweepWrite
    <3>2. CASE Bind(w)
      BY <1>0, <2>1, <2>2, <2>4, <3>2
    <3> QED
      BY <1>11, <3>1, <3>2
  <2> QED
    BY <1>5, <1>11, <2>1, <2>2, <2>5 DEF NoFix, Bind, SweepWrite
<1>12. ASSUME NEW w \in TrackWorkers, DeleteDevice(w) PROVE TrackerTyped'
  <2>1. PICK r \in pass[w].todo, ok \in BOOLEAN :
          pass' = [pass EXCEPT ![w] = [pass[w] EXCEPT !.at = "cleaned", !.row = r, !.todo = @ \ {r}, !.ok = ok]]
          /\ device' \in {device, device \ {r}} /\ (UNCHANGED faults \/ Fault)
    <3>1. PICK r \in pass[w].todo, ok \in BOOLEAN :
            /\ pass' = [pass EXCEPT ![w].at = "cleaned", ![w].row = r, ![w].todo = @ \ {r}, ![w].ok = ok]
            /\ IF ok THEN device' = device \ {r} /\ UNCHANGED faults
                     ELSE Fault /\ device' \in {device, device \ {r}}
      BY <1>12 DEF DeleteDevice
    <3>2. pass' = [pass EXCEPT ![w] = [pass[w] EXCEPT !.at = "cleaned", !.row = r, !.todo = @ \ {r}, !.ok = ok]]
      BY <1>0, <3>1 DEF Pass
    <3>3. device' \in {device, device \ {r}} /\ (UNCHANGED faults \/ Fault)
      BY <3>1
    <3> QED
      BY <3>2, <3>3
  <2> DEFINE p == [pass[w] EXCEPT !.at = "cleaned", !.row = r, !.todo = @ \ {r}, !.ok = ok]
  <2>2. pass[w] \in Pass /\ r \in Rows
    BY <1>0, <2>1 DEF Pass
  <2>3. p \in Pass /\ p.row = r /\ pass' = [pass EXCEPT ![w] = p]
    BY <2>1, <2>2 DEF Pass, WorkerSteps
  <2>4. device' \subseteq Rows /\ faults' \in 0 .. MaxFaults
    BY <1>0, <2>1, TrackerAssumption DEF Fault
  <2> HIDE DEF p
  <2> QED
    BY <1>0, <1>12, <2>2, <2>3, <2>4, PassTyped DEF DeleteDevice
<1>13. ASSUME NEW w \in TrackWorkers, CleanWrite(w) PROVE TrackerTyped'
  <2> DEFINE p == [pass[w] EXCEPT !.at = "delete", !.row = NoEnrollment, !.ok = FALSE]
  <2>1. p \in Pass /\ p.at = "delete"
    BY <1>0 DEF Pass, WorkerSteps
  <2>2. pass' = [pass EXCEPT ![w] = p]
    BY <1>13 DEF CleanWrite
  <2>3. pass[w].ok \in BOOLEAN
    BY <1>0 DEF Pass
  <2>4. ledger' \in [Rows -> LedgerRow]
    <3>1. PICK r \in Rows : r = pass[w].row
      BY <1>0, <1>13 DEF CleanWrite, WorkerAt
    <3>2. PICK c \in {"DONE", "RETRY"}, due \in BOOLEAN :
            ledger' = [ledger EXCEPT ![r].cleaned = c, ![r].due = due]
      BY <1>13, <2>3, <3>1 DEF CleanWrite
    <3>3. [ledger[r] EXCEPT !.cleaned = c, !.due = due] \in LedgerRow
      <4>1. ledger[r] \in LedgerRow
        BY <1>0
      <4>2. [ledger[r] EXCEPT !.cleaned = c] \in LedgerRow
        BY <4>1 DEF LedgerRow
      <4>3. \A e \in LedgerRow : [e EXCEPT !.due = due] \in LedgerRow
        BY DEF LedgerRow
      <4> QED
        BY <4>2, <4>3
    <3>4. ledger' = [ledger EXCEPT ![r] = [ledger[r] EXCEPT !.cleaned = c, !.due = due]]
      BY <1>0, <3>2
    <3> QED
      BY <1>0, <3>3, <3>4
  <2> HIDE DEF p
  <2> QED
    BY <1>0, <1>13, <2>1, <2>2, <2>4, PassTyped DEF CleanWrite
<1>14. CASE UNCHANGED trackVars
  BY <1>14 DEF trackVars, TrackerTyped, TrackerTypeOK
<1> QED
  BY <1>1, <1>2, <1>6, <1>7, <1>8, <1>9, <1>10, <1>11, <1>12, <1>13, <1>14
  DEF TrackerNext, WorkerStep, OperatorStep

\* Every variable of the enrolment ledger and of its passes keeps its type, for
\* any number of passes at once: no row is given a status or a count of attempts
\* that its columns could not hold (provisioning-worker.ts, enrollment.ts).
THEOREM TrackerTypeCorrect == TrackerSpec => []TrackerTypeOK
<1>1. TrackerInit => TrackerTyped
  BY AliveStart DEF AliveInv
<1>2. TrackerTyped => TrackerTypeOK
  BY DEF TrackerTyped
<1> QED
  BY <1>1, <1>2, TrackerTypedStep, PTL DEF TrackerSpec

-----------------------------------------------------------------------------
LEMMA PassKept ==
  ASSUME AliveInv, NEW w \in TrackWorkers, \A r \in Rows : Gently(r), device' = device, revived' = revived,
         pass' = pass
  PROVE  PassKnows(w)'
<1>1. \A r \in Rows : Retired(r) => Retired(r)'
  BY DEF Retired, Gently
<1>2. pass[w] \in Pass /\ (pass[w].at \in {"create", "mark", "fail", "cleaned"} => pass[w].row \in Rows)
  BY DEF AliveInv, TrackerTyped, TrackerTypeOK
<1>3. \A r \in Rows : ledger[r].status \in {"PENDING", "CLOSED"} => ledger'[r].status \in {"PENDING", "CLOSED"}
  BY DEF Gently
<1>4. \A r \in Rows : ledger[r].status \in {"PENDING", "PROVISIONED", "CLOSED"} =>
                        ledger'[r].status \in {"PENDING", "PROVISIONED", "CLOSED"}
  BY DEF Gently
<1>5. PassKnows(w) /\ pass[w].todo \subseteq Rows
  BY <1>2 DEF AliveInv, Pass
<1> HIDE DEF Gently
<1> QED
  BY <1>1, <1>2, <1>3, <1>4, <1>5 DEF PassKnows

LEMMA RowsKept ==
  ASSUME AliveInv, \A r \in Rows : Gently(r), device \subseteq device', revived' = revived
  PROVE  RowsAlive'
<1>1. \A r \in Rows : ledger'[r].due => Retired(r)'
  BY DEF AliveInv, RowsAlive, Gently, Retired
<1>2. \A r \in Rows : ledger'[r].status \in {"PROVISIONED", "ACTIVE"} => r \in device' \cup revived'
  BY DEF AliveInv, RowsAlive, Gently
<1> QED
  BY <1>1, <1>2 DEF RowsAlive

\* A tracker that is not taken off its vehicle keeps its row.
LEMMA TrackersKept ==
  ASSUME AliveInv, \A r \in Rows : Gently(r),
         \A v \in Vehicles : tracker'[v] # NoEnrollment =>
           tracker'[v] = tracker[v] /\ ledger'[tracker[v]].status = ledger[tracker[v]].status
  PROVE  TrackersPoint'
<1>1. \A v \in Vehicles : tracker[v] # NoEnrollment => tracker[v] \in Rows
  BY DEF AliveInv, TrackerTyped, TrackerTypeOK
<1> QED
  BY <1>1 DEF AliveInv, TrackersPoint, Gently

LEMMA AliveOperators == ASSUME AliveInv, OperatorStep PROVE AliveInv'
<1>0. /\ ledger \in [Rows -> LedgerRow] /\ tracker \in [Vehicles -> Rows \cup {NoEnrollment}]
      /\ TrackerTyped /\ TrackersPoint
  BY DEF AliveInv, TrackerTyped, TrackerTypeOK
<1>1. (\A r \in Rows : Gently(r)) /\ device' = device /\ revived' = revived /\ pass' = pass
  BY <1>0, OperatorsAreGentle
<1>2. TrackerTyped'
  BY <1>0, TrackerTypedStep DEF OperatorStep, TrackerNext
<1>3. ASSUME NEW v \in Vehicles, tracker'[v] # NoEnrollment
      PROVE  tracker'[v] = tracker[v] /\ ledger'[tracker[v]].status = ledger[tracker[v]].status
  <2>1. tracker'[v] = tracker[v]
    BY <1>0, <1>3 DEF OperatorStep, StartEnrollment, RemoveTracking, ClearVehicleTracker,
      CancelEnrollment, ExtendEnrollment, CodeExpires
  <2>2. PICK r \in Rows : r = tracker[v] /\ ledger[r].status = "ACTIVE" /\ ledger[r].vehicle = v
    BY <1>0, <1>3, <2>1 DEF TrackersPoint
  <2>3. \A S : r \notin S => CloseAll(S)[r] = ledger[r]
    BY <1>0, CloseAllDoes
  <2>4. ledger'[r].status = ledger[r].status
    <3>1. ASSUME NEW u \in Vehicles, StartEnrollment(u) PROVE ledger'[r].status = ledger[r].status
      <4>1. PICK o \in Rows : /\ ledger[o].status = "NONE"
                              /\ ledger' = [CloseAll({x \in RowsOf(u) : InFlight(x)}) EXCEPT
                                             ![o] = [Unminted EXCEPT !.status = "PENDING", !.vehicle = u]]
        BY <3>1 DEF StartEnrollment
      <4>2. CloseAll({x \in RowsOf(u) : InFlight(x)})[r] = ledger[r]
        BY <2>2, <2>3 DEF InFlight
      <4>3. CloseAll({x \in RowsOf(u) : InFlight(x)}) \in [Rows -> LedgerRow]
        BY <1>0, CloseAllDoes
      <4> QED
        BY <2>2, <4>1, <4>2, <4>3
    <3>2. ASSUME NEW u \in Vehicles, RemoveTracking(u) PROVE ledger'[r].status = ledger[r].status
      <4>1. u # v
        BY <1>0, <1>3, <3>2 DEF RemoveTracking
      <4> QED
        BY <2>2, <2>3, <3>2, <4>1 DEF RemoveTracking, RowsOf
    <3>3. ASSUME NEW o \in Rows, CancelEnrollment(o) PROVE ledger'[r].status = ledger[r].status
      BY <2>2, <2>3, <3>3 DEF CancelEnrollment, InFlight
    <3>4. ASSUME NEW o \in Rows, ExtendEnrollment(o) \/ CodeExpires(o)
          PROVE  ledger'[r].status = ledger[r].status
      BY <1>0, <2>2, <3>4 DEF ExtendEnrollment, CodeExpires, InFlight, LedgerRow
    <3> QED
      BY <3>1, <3>2, <3>3, <3>4 DEF OperatorStep, ClearVehicleTracker
  <2> QED
    BY <2>1, <2>2, <2>4
<1>4. TrackersPoint'
  BY <1>1, <1>3, TrackersKept
<1> QED
  BY <1>1, <1>2, <1>4, PassKept, RowsKept DEF AliveInv

\* A step of the one pass that leaves the rows' statuses alone.
LEMMA AlivePassStep ==
  ASSUME AliveInv, OnePass, NEW w \in TrackWorkers, TrackerTyped', PassKnows(w)',
         \A r \in Rows : Gently(r) /\ ledger'[r].status = ledger[r].status,
         device \subseteq device', UNCHANGED <<tracker, revived>>
  PROVE  AliveInv'
<1>1. \A v \in TrackWorkers : PassKnows(v)'
  <2> TAKE v \in TrackWorkers
  <2>1. v = w
    BY DEF OnePass
  <2> QED
    BY <2>1
<1>2. \A v \in Vehicles : tracker'[v] # NoEnrollment =>
        tracker'[v] = tracker[v] /\ ledger'[tracker[v]].status = ledger[tracker[v]].status
  BY DEF AliveInv, TrackerTyped, TrackerTypeOK
<1> QED
  BY <1>1, <1>2, RowsKept, TrackersKept DEF AliveInv

LEMMA AliveStep == ASSUME OnePass PROVE AliveInv /\ [TrackerNext]_trackVars => AliveInv'
<1> SUFFICES ASSUME AliveInv, [TrackerNext]_trackVars PROVE AliveInv'
  OBVIOUS
<1>0. /\ ledger \in [Rows -> LedgerRow] /\ tracker \in [Vehicles -> Rows \cup {NoEnrollment}]
      /\ device \subseteq Rows /\ pass \in [TrackWorkers -> Pass] /\ revived \subseteq Rows
      /\ \A w \in TrackWorkers : /\ pass[w].at \in {"create", "mark", "fail", "cleaned"} => pass[w].row \in Rows
                                 /\ pass[w].todo \subseteq Rows
      /\ \A w \in TrackWorkers : PassKnows(w)
      /\ RowsAlive /\ TrackersPoint
  BY DEF AliveInv, TrackerTyped, TrackerTypeOK, Pass
<1>t. TrackerTyped'
  BY TrackerTypedStep DEF AliveInv
<1>k. UNCHANGED ledger => \A r \in Rows : Gently(r) /\ ledger'[r].status = ledger[r].status
  BY DEF Gently
<1>a. (\A w \in TrackWorkers : PassKnows(w)') /\ RowsAlive' /\ TrackersPoint' => AliveInv'
  BY <1>t DEF AliveInv
<1>1. CASE OperatorStep
  BY <1>1, AliveOperators
<1>2. ASSUME NEW w \in TrackWorkers, ClaimOne(w) PROVE AliveInv'
  <2>1. PICK r \in Rows :
          /\ ClaimableRow(r)
          /\ ledger' = [ledger EXCEPT ![r].tries = IF @ < MaxTrackTries THEN @ + 1 ELSE @]
          /\ pass' = [pass EXCEPT ![w] = [NewPass EXCEPT !.at = "create", !.row = r]]
    BY <1>2 DEF ClaimOne
  <2>2. \A o \in Rows : ledger'[o].status = ledger[o].status /\ ledger'[o].vehicle = ledger[o].vehicle
                        /\ ledger'[o].due = ledger[o].due
    BY <1>0, <2>1 DEF LedgerRow
  <2>3. pass'[w].at = "create" /\ pass'[w].row = r
    BY <1>0, <2>1 DEF NewPass
  <2>4. PassKnows(w)'
    BY <2>1, <2>2, <2>3 DEF PassKnows, ClaimableRow
  <2> QED
    BY <1>2, <1>t, <2>2, <2>4, AlivePassStep DEF ClaimOne, Gently
<1>3. ASSUME NEW w \in TrackWorkers, pass'[w].at \in {"claim", "detect", "bind", "sweep", "clean"},
             UNCHANGED <<ledger, tracker, device, revived>>
      PROVE  AliveInv'
  <2>1. PassKnows(w)'
    BY <1>3 DEF PassKnows
  <2> QED
    BY <1>3, <1>t, <1>k, <2>1, AlivePassStep
<1>4. ASSUME NEW w \in TrackWorkers, NothingToClaim(w) \/ DetectRead(w) \/ NoFix(w) \/ NextPhase(w) \/ PassCrash(w)
      PROVE  AliveInv'
  <2>1. UNCHANGED <<ledger, tracker, device, revived>>
    BY <1>4 DEF NothingToClaim, DetectRead, NoFix, NextPhase, PassCrash
  <2>2. pass'[w].at \in {"claim", "detect", "bind", "sweep", "clean"}
    <3>1. CASE NothingToClaim(w) \/ PassCrash(w) \/ DetectRead(w)
      BY <1>0, <3>1 DEF NothingToClaim, PassCrash, DetectRead, Phase, Select, NewPass
    <3>2. CASE NextPhase(w)
      BY <1>0, <3>2 DEF NextPhase, After, Phase, NewPass
    <3>3. CASE NoFix(w)
      <4>1. PICK r \in pass[w].todo : Done(w, r)
        BY <3>3 DEF NoFix
      <4>2. pass'[w].at = pass[w].at
        BY <1>0, <4>1 DEF Done, Pass
      <4> QED
        BY <3>3, <4>2 DEF NoFix, WorkerAt
    <3> QED
      BY <1>4, <3>1, <3>2, <3>3
  <2> QED
    BY <1>3, <2>1, <2>2
<1>5. ASSUME NEW w \in TrackWorkers, SweepRead(w) \/ CleanRead(w) PROVE AliveInv'
  <2>1. UNCHANGED <<ledger, tracker, device, revived>>
    BY <1>5 DEF SweepRead, CleanRead
  <2>2. CASE SweepRead(w)
    <3>1. pass'[w].at = "close" /\ pass'[w].todo = {r \in Rows : InFlight(r) /\ ledger[r].expired}
      BY <1>0, <2>2 DEF SweepRead, Select, NewPass
    <3>2. PassKnows(w)'
      BY <2>1, <3>1 DEF PassKnows, InFlight
    <3> QED
      BY <1>t, <1>k, <2>1, <3>2, AlivePassStep
  <2>3. CASE CleanRead(w)
    <3>1. pass'[w].at = "delete" /\ pass'[w].todo = {r \in Rows : ToClean(r)}
      BY <1>0, <2>3 DEF CleanRead, Select, NewPass
    <3>2. PassKnows(w)'
      BY <1>0, <2>1, <3>1 DEF PassKnows, ToClean, RowsAlive, Retired
    <3> QED
      BY <1>t, <1>k, <2>1, <3>2, AlivePassStep
  <2> QED
    BY <1>5, <2>2, <2>3
<1>6. ASSUME NEW w \in TrackWorkers, Provision(w) PROVE AliveInv'
  <2>1. pass[w].at = "create" /\ pass[w].row \in Rows /\ ledger[pass[w].row].status \in {"PENDING", "CLOSED"}
    BY <1>0, <1>6 DEF Provision, WorkerAt, PassKnows
  <2>2. PICK step \in {"mark", "fail"} : /\ pass' = [pass EXCEPT ![w].at = step] /\ device \subseteq device'
                                         /\ step = "mark" => pass[w].row \in device'
    BY <1>6 DEF Provision
  <2>3. pass'[w].at = step /\ pass'[w].row = pass[w].row
    BY <1>0, <2>2 DEF Pass
  <2>4. UNCHANGED <<ledger, tracker, revived>>
    BY <1>6 DEF Provision
  <2>5. PassKnows(w)'
    BY <2>1, <2>2, <2>3, <2>4 DEF PassKnows
  <2> QED
    BY <1>t, <1>k, <2>2, <2>4, <2>5, AlivePassStep
<1>7. ASSUME NEW w \in TrackWorkers, CleanWrite(w) PROVE AliveInv'
  <2>1. PICK r \in Rows : r = pass[w].row /\ Retired(r)
    BY <1>0, <1>7 DEF CleanWrite, WorkerAt, PassKnows
  <2>2. /\ pass' = [pass EXCEPT ![w].at = "delete", ![w].row = NoEnrollment, ![w].ok = FALSE]
        /\ UNCHANGED <<tracker, device, revived>> /\ pass[w].at = "cleaned"
    BY <1>7 DEF CleanWrite, WorkerAt
  <2>3. pass'[w].at = "delete" /\ pass'[w].todo = pass[w].todo
    BY <1>0, <2>2 DEF Pass
  <2>4. /\ ledger' = [ledger EXCEPT ![r].cleaned = IF pass[w].ok THEN "DONE" ELSE "RETRY",
                                    ![r].due = ~pass[w].ok]
    BY <1>7, <2>1 DEF CleanWrite
  <2>5. \A o \in Rows : /\ ledger'[o].status = ledger[o].status /\ ledger'[o].vehicle = ledger[o].vehicle
                        /\ o # r => ledger'[o].due = ledger[o].due
    BY <1>0, <2>4 DEF LedgerRow
  <2>6. \A o \in Rows : Retired(o) => Retired(o)'
    BY <2>2, <2>5 DEF Retired
  <2>7. PassKnows(w)'
    BY <1>0, <2>2, <2>3, <2>6 DEF PassKnows
  <2>8. RowsAlive'
    BY <1>0, <2>1, <2>2, <2>5, <2>6 DEF RowsAlive
  <2>9. TrackersPoint'
    BY <1>0, <2>2, <2>5 DEF TrackersPoint
  <2>10. \A v \in TrackWorkers : v = w
    BY DEF OnePass
  <2> QED
    BY <1>a, <2>7, <2>8, <2>9, <2>10
<1>8. ASSUME NEW w \in TrackWorkers, Mark(w) PROVE AliveInv'
  <2>1. PICK r \in Rows : r = pass[w].row /\ r \in device
    BY <1>0, <1>8 DEF Mark, WorkerAt, PassKnows
  <2>2. pass'[w].at = "claim"
    BY <1>0, <1>8 DEF Mark, Phase, NewPass
  <2>3. /\ \A o \in Rows : o # r => ledger'[o] = ledger[o]
        /\ ledger'[r].status \in {ledger[r].status, "PROVISIONED"} /\ ledger'[r].due = ledger[r].due
        /\ ledger'[r].status # ledger[r].status => ledger[r].status = "PENDING"
        /\ ledger'[r].vehicle = ledger[r].vehicle
    BY <1>0, <1>8, <2>1 DEF Mark, LedgerRow
  <2>4. RowsAlive' /\ TrackersPoint'
    <3>1. UNCHANGED <<tracker, device, revived>>
      BY <1>8 DEF Mark
    <3>2. RowsAlive'
      BY <1>0, <2>1, <2>3, <3>1 DEF RowsAlive, Retired
    <3>3. TrackersPoint'
      BY <1>0, <2>3, <3>1 DEF TrackersPoint
    <3> QED
      BY <3>2, <3>3
  <2>5. PassKnows(w)'
    BY <2>2 DEF PassKnows
  <2>6. \A v \in TrackWorkers : v = w
    BY DEF OnePass
  <2> QED
    BY <1>a, <2>4, <2>5, <2>6
<1>9. ASSUME NEW w \in TrackWorkers, RecordFailure(w) PROVE AliveInv'
  <2>1. PICK r \in Rows : r = pass[w].row /\ ledger[r].status \in {"PENDING", "CLOSED"}
    BY <1>0, <1>9 DEF RecordFailure, WorkerAt, PassKnows
  <2>2. pass'[w].at = "claim" /\ UNCHANGED <<tracker, device>>
    BY <1>0, <1>9 DEF RecordFailure, Phase, NewPass
  <2>3. /\ \A o \in Rows : o # r => ledger'[o] = ledger[o]
        /\ ledger'[r].status \in {ledger[r].status, "PENDING", "FAILED"}
        /\ ledger'[r].due = ledger[r].due /\ ledger'[r].vehicle = ledger[r].vehicle
    BY <1>0, <1>9, <2>1 DEF RecordFailure, LedgerRow
  <2>4. /\ revived \subseteq revived'
        /\ ledger'[r].status # ledger[r].status /\ ledger[r].status = "CLOSED" => r \in revived'
    BY <1>9, <2>1 DEF RecordFailure
  <2>5. RowsAlive'
    BY <1>0, <2>1, <2>2, <2>3, <2>4 DEF RowsAlive, Retired
  <2>6. TrackersPoint'
    BY <1>0, <2>1, <2>2, <2>3 DEF TrackersPoint
  <2>7. PassKnows(w)'
    BY <2>2 DEF PassKnows
  <2>8. \A v \in TrackWorkers : v = w
    BY DEF OnePass
  <2> QED
    BY <1>a, <2>5, <2>6, <2>7, <2>8
<1>10. ASSUME NEW w \in TrackWorkers, Bind(w) PROVE AliveInv'
  <2>1. PICK r \in pass[w].todo :
          /\ r \in device /\ Done(w, r)
          /\ IF BindableRow(r)
             THEN /\ ledger' = [CloseAll(Outgoing(r)) EXCEPT ![r].status = "ACTIVE"]
                  /\ tracker' = [tracker EXCEPT ![ledger[r].vehicle] = r]
             ELSE UNCHANGED <<ledger, tracker>>
    BY <1>10 DEF Bind
  <2>2. r \in Rows /\ pass'[w].at = "bind" /\ UNCHANGED <<device, faults, revived>>
    BY <1>0, <1>10, <2>1 DEF Bind, WorkerAt, Done, Pass
  <2>3. CASE ~BindableRow(r)
    BY <1>3, <2>1, <2>2, <2>3
  <2>4. CASE BindableRow(r)
    <3>1. /\ CloseAll(Outgoing(r)) \in [Rows -> LedgerRow]
          /\ \A o \in Rows : /\ CloseAll(Outgoing(r))[o].vehicle = ledger[o].vehicle
                             /\ o \notin Outgoing(r) => CloseAll(Outgoing(r))[o] = ledger[o]
                             /\ o \in Outgoing(r) => CloseAll(Outgoing(r))[o].status = "CLOSED"
      BY <1>0, CloseAllDoes
    <3>2. r \notin Outgoing(r)
      BY DEF Outgoing
    <3>3. /\ \A o \in Rows \ {r} : ledger'[o] = CloseAll(Outgoing(r))[o]
          /\ ledger'[r].status = "ACTIVE" /\ ledger'[r].vehicle = ledger[r].vehicle
          /\ ledger'[r].due = ledger[r].due
      BY <2>1, <2>2, <2>4, <3>1, <3>2 DEF LedgerRow
    <3>4. RowsAlive'
      <4>1. ledger'[r].due => Retired(r)'
        BY <1>0, <2>2, <2>4, <3>3 DEF RowsAlive, Retired, BindableRow
      <4>2. \A o \in Rows \ {r} : ledger'[o] = ledger[o] \/ ledger'[o].status = "CLOSED"
        BY <3>1, <3>3
      <4>3. \A o \in Rows \ {r} : ledger'[o].due => Retired(o)'
        BY <1>0, <2>2, <4>2 DEF RowsAlive, Retired
      <4>4. \A o \in Rows : ledger'[o].status \in {"PROVISIONED", "ACTIVE"} => o \in device' \cup revived'
        BY <1>0, <2>1, <2>2, <4>2 DEF RowsAlive
      <4> QED
        BY <4>1, <4>3, <4>4 DEF RowsAlive
    <3>5. TrackersPoint'
      <4> SUFFICES ASSUME NEW v \in Vehicles, tracker'[v] # NoEnrollment
                   PROVE  ledger'[tracker'[v]].status = "ACTIVE" /\ ledger'[tracker'[v]].vehicle = v
        BY DEF TrackersPoint
      <4>1. CASE v = ledger[r].vehicle
        BY <1>0, <2>1, <2>4, <3>3, <4>1
      <4>2. CASE v # ledger[r].vehicle
        <5>1. PICK o \in Rows : o = tracker[v] /\ o = tracker'[v] /\ ledger[o].status = "ACTIVE" /\ ledger[o].vehicle = v
          BY <1>0, <2>1, <2>4, <4>2 DEF TrackersPoint
        <5>2. o \notin Outgoing(r) /\ o # r
          BY <4>2, <5>1 DEF Outgoing, RowsOf
        <5> QED
          BY <3>1, <3>3, <5>1, <5>2
      <4> QED
        BY <4>1, <4>2
    <3>6. PassKnows(w)'
      BY <2>2 DEF PassKnows
    <3>7. \A v \in TrackWorkers : v = w
      BY DEF OnePass
    <3> QED
      BY <1>a, <3>4, <3>5, <3>6, <3>7
  <2> QED
    BY <2>3, <2>4
<1>11. ASSUME NEW w \in TrackWorkers, SweepWrite(w) PROVE AliveInv'
  <2>1. PICK r \in pass[w].todo : Done(w, r) /\ ledger' = CloseAll({r})
    BY <1>11 DEF SweepWrite
  <2>2. r \in Rows /\ ledger[r].status \in {"PENDING", "PROVISIONED", "CLOSED"}
    BY <1>0, <1>11, <2>1 DEF SweepWrite, WorkerAt, PassKnows
  <2>3. /\ \A o \in Rows : ledger'[o].vehicle = ledger[o].vehicle /\ (o # r => ledger'[o] = ledger[o])
        /\ ledger'[r].status = "CLOSED"
    BY <1>0, <2>1, <2>2, CloseAllDoes
  <2>4. pass'[w].at = "close" /\ pass'[w].todo \subseteq pass[w].todo
    BY <1>0, <1>11, <2>1 DEF SweepWrite, WorkerAt, Done, Pass
  <2>5. UNCHANGED <<tracker, device, revived>> /\ \A o \in Rows : Gently(o)
    BY <1>11, <2>2, <2>3 DEF SweepWrite, Gently
  <2>6. RowsAlive'
    BY <2>5, RowsKept
  <2>7. TrackersPoint'
    BY <1>0, <2>2, <2>3, <2>5 DEF TrackersPoint
  <2>8. PassKnows(w)'
    BY <1>0, <1>11, <2>3, <2>4 DEF PassKnows, SweepWrite, WorkerAt
  <2>9. \A v \in TrackWorkers : v = w
    BY DEF OnePass
  <2> QED
    BY <1>a, <2>6, <2>7, <2>8, <2>9
<1>12. ASSUME NEW w \in TrackWorkers, DeleteDevice(w) PROVE AliveInv'
  <2>1. PICK r \in pass[w].todo, ok \in BOOLEAN :
          /\ pass' = [pass EXCEPT ![w].at = "cleaned", ![w].row = r, ![w].todo = @ \ {r}, ![w].ok = ok]
          /\ device' \in {device, device \ {r}}
    BY <1>12 DEF DeleteDevice
  <2>2. r \in Rows /\ Retired(r) /\ \A o \in pass[w].todo : Retired(o)
    BY <1>0, <1>12, <2>1 DEF DeleteDevice, WorkerAt, PassKnows
  <2>3. pass'[w].at = "cleaned" /\ pass'[w].row = r /\ pass'[w].todo \subseteq pass[w].todo
    BY <1>0, <2>1 DEF Pass
  <2>4. UNCHANGED <<ledger, tracker, revived>>
    BY <1>12 DEF DeleteDevice
  <2>5. PassKnows(w)'
    BY <2>2, <2>3, <2>4 DEF PassKnows, Retired
  <2>6. RowsAlive'
    BY <1>0, <2>1, <2>2, <2>4 DEF RowsAlive, Retired
  <2>7. TrackersPoint'
    BY <1>0, <2>4 DEF TrackersPoint
  <2>8. \A v \in TrackWorkers : v = w
    BY DEF OnePass
  <2> QED
    BY <1>a, <2>5, <2>6, <2>7, <2>8
<1>13. CASE UNCHANGED trackVars
  BY <1>13, <1>t DEF trackVars, AliveInv, PassKnows, Retired, RowsAlive, TrackersPoint
<1> QED
  BY <1>1, <1>2, <1>4, <1>5, <1>6, <1>7, <1>8, <1>9, <1>10, <1>11, <1>12, <1>13
  DEF TrackerNext, WorkerStep, OperatorStep

\* Under the one pass at a time that is deployed, a vehicle that shows a tracker has
\* an active row of its own and a device nobody deleted under it, for any number of
\* setups and vehicles and whatever the provider fails (bindEnrollment,
\* sweepExpired, cleanupProvider).
THEOREM TrackersAlive == ASSUME OnePass PROVE TrackerSpec => []TrackerIsAlive
<1>1. AliveInv => TrackerIsAlive
  <2> SUFFICES ASSUME AliveInv, NEW v \in Vehicles, tracker[v] # NoEnrollment
               PROVE  /\ ledger[tracker[v]].status = "ACTIVE" /\ ledger[tracker[v]].vehicle = v
                      /\ tracker[v] \in device \cup revived
    BY DEF TrackerIsAlive
  <2>1. tracker[v] \in Rows
    BY DEF AliveInv, TrackerTyped, TrackerTypeOK
  <2> QED
    BY <2>1 DEF AliveInv, RowsAlive, TrackersPoint
<1> QED
  BY <1>1, AliveStart, AliveStep, PTL DEF TrackerSpec

\* Both components together keep their types, whichever of them a behaviour is about.
THEOREM LiveTypesCorrect == LiveSpec => []LiveTypeOK
<1> DEFINE I == Inv /\ TrackerTyped
<1>1. LiveInit => I
  BY InitInv, AliveStart DEF LiveInit, AliveInv
<1>2. I /\ [LiveNext]_liveVars => I'
  <2>1. [LiveNext]_liveVars => [KeyNext]_keyVars /\ [TrackerNext]_trackVars
    BY DEF LiveNext, InKey, InTracker, liveVars
  <2> QED
    BY <2>1, NextInv, TrackerTypedStep
<1>3. I => LiveTypeOK
  BY DEF Inv, TrackerTyped, LiveTypeOK
<1> QED
  BY <1>1, <1>2, <1>3, PTL DEF LiveSpec
=============================================================================
