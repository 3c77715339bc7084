------------------------- MODULE TrackerEnrollment -------------------------
(***************************************************************************)
(* The ledger that decides who owns a tracker (tracking/enrollment.ts) and *)
(* the worker that turns its rows into devices at the tracking provider,   *)
(* notices the first fix, expires what nobody used and deletes the devices *)
(* of closed rows (tracking/provisioning-worker.ts).                       *)
(*                                                                         *)
(* The provider is a set of devices, each named by the row that minted its *)
(* reference.  A call to it may fail with or without having had its        *)
(* effect.  The claim of a row is a lease that outlasts every attempt, so  *)
(* a row is taken while some pass is at work on it, and free otherwise.    *)
(***************************************************************************)
EXTENDS Naturals

CONSTANTS
  Rows,          \* ids for rows of tracker_enrollments
  Vehicles,
  TrackWorkers,
  MaxTrackTries, \* MAX_ATTEMPTS
  MaxFaults,     \* bound: provider failures and crashes of a pass
  NoEnrollment, NoVehicle

ASSUME TrackerAssumption ==
  /\ MaxTrackTries \in Nat \ {0}
  /\ MaxFaults \in Nat
  /\ NoEnrollment \notin Rows
  /\ NoVehicle \notin Vehicles

VARIABLES
  ledger,   \* tracker_enrollments
  tracker,  \* the row each vehicle's tracker columns point at
  device,   \* rows whose device exists at the provider
  pass,     \* where each provisioning pass stands
  faults,   \* how many mishaps happened
  revived   \* history: rows a failed attempt wrote over after they were closed

trackVars == <<ledger, tracker, device, pass, faults, revived>>

LedgerStatuses == {"NONE", "PENDING", "PROVISIONED", "ACTIVE", "FAILED", "CLOSED"}

\* due: provider_delete_after is set; cleaned: cleanup_state; tries: attempts, up to the
\* last that makes a difference.
LedgerRow ==
  [status : LedgerStatuses, vehicle : Vehicles \cup {NoVehicle}, expired : BOOLEAN,
   extended : BOOLEAN, tries : 0 .. MaxTrackTries, due : BOOLEAN, cleaned : {"NULL", "RETRY", "DONE"}]

WorkerSteps == {"claim", "create", "mark", "fail", "detect", "bind", "sweep", "close", "clean",
                "delete", "cleaned"}

\* row: the one in hand; todo: what a phase selected and has not come to yet.
Pass == [at : WorkerSteps, row : Rows \cup {NoEnrollment}, todo : SUBSET Rows, ok : BOOLEAN]

TrackerTypeOK ==
  /\ ledger \in [Rows -> LedgerRow]
  /\ tracker \in [Vehicles -> Rows \cup {NoEnrollment}]
  /\ device \subseteq Rows
  /\ pass \in [TrackWorkers -> Pass]
  /\ faults \in 0 .. MaxFaults
  /\ revived \subseteq Rows

Unminted == [status |-> "NONE", vehicle |-> NoVehicle, expired |-> FALSE, extended |-> FALSE,
             tries |-> 0, due |-> FALSE, cleaned |-> "NULL"]

NewPass == [at |-> "claim", row |-> NoEnrollment, todo |-> {}, ok |-> FALSE]

TrackerInit ==
  /\ ledger = [r \in Rows |-> Unminted]
  /\ tracker = [v \in Vehicles |-> NoEnrollment]
  /\ device = {}
  /\ pass = [w \in TrackWorkers |-> NewPass]
  /\ faults = 0
  /\ revived = {}

-----------------------------------------------------------------------------
WorkerAt(w, step) == pass[w].at = step

Phase(w, step) == pass' = [pass EXCEPT ![w] = [NewPass EXCEPT !.at = step]]

\* The rows a phase selected, one after the other.
Select(w, step, rows) ==
  pass' = [pass EXCEPT ![w] = [NewPass EXCEPT !.at = step, !.todo = rows]]

InFlight(r) == ledger[r].status \in {"PENDING", "PROVISIONED"}

RowsOf(v) == {r \in Rows : ledger[r].vehicle = v}

Closed(row) == [row EXCEPT !.status = "CLOSED", !.due = TRUE]

CloseAll(rows) == [r \in Rows |-> IF r \in rows THEN Closed(ledger[r]) ELSE ledger[r]]

Fault == faults < MaxFaults /\ faults' = faults + 1

-----------------------------------------------------------------------------
(* enrollment.ts, vehicles.ts: what an operator does.                       *)

\* One transaction: what is in flight is closed, expired or superseded.
StartEnrollment(v) ==
  \E r \in Rows :
    /\ ledger[r].status = "NONE"
    /\ ledger' = [CloseAll({o \in RowsOf(v) : InFlight(o)}) EXCEPT
                    ![r] = [Unminted EXCEPT !.status = "PENDING", !.vehicle = v]]
    /\ UNCHANGED <<tracker, device, pass, faults, revived>>

CancelEnrollment(r) ==
  /\ InFlight(r)
  /\ ledger' = CloseAll({r})
  /\ UNCHANGED <<tracker, device, pass, faults, revived>>

\* Once per row.
ExtendEnrollment(r) ==
  /\ InFlight(r) /\ ~ledger[r].extended
  /\ ledger' = [ledger EXCEPT ![r].extended = TRUE, ![r].expired = FALSE]
  /\ UNCHANGED <<tracker, device, pass, faults, revived>>

RemoveTracking(v) ==
  /\ ledger' = CloseAll({r \in RowsOf(v) : InFlight(r) \/ ledger[r].status = "ACTIVE"})
  /\ tracker' = [tracker EXCEPT ![v] = NoEnrollment]
  /\ UNCHANGED <<device, pass, faults, revived>>

\* clearVehicleTracker leaves the ledger alone.
ClearVehicleTracker(v) ==
  /\ tracker[v] # NoEnrollment
  /\ tracker' = [tracker EXCEPT ![v] = NoEnrollment]
  /\ UNCHANGED <<ledger, device, pass, faults, revived>>

\* Half an hour passes.
CodeExpires(r) ==
  /\ InFlight(r) /\ ~ledger[r].expired
  /\ ledger' = [ledger EXCEPT ![r].expired = TRUE]
  /\ UNCHANGED <<tracker, device, pass, faults, revived>>

-----------------------------------------------------------------------------
(* provisioning-worker.ts: claimOne, provision, recordFailure               *)

ClaimableRow(r) ==
  /\ ledger[r].status = "PENDING" /\ ~ledger[r].expired
  /\ \A w \in TrackWorkers : pass[w].row # r

ClaimOne(w) ==
  /\ WorkerAt(w, "claim")
  /\ \E r \in Rows :
       /\ ClaimableRow(r)
       /\ ledger' = [ledger EXCEPT ![r].tries = IF @ < MaxTrackTries THEN @ + 1 ELSE @]
       /\ pass' = [pass EXCEPT ![w] = [NewPass EXCEPT !.at = "create", !.row = r]]
  /\ UNCHANGED <<tracker, device, faults, revived>>

\* Nothing to claim, or only rows that wait before their next attempt.
NothingToClaim(w) ==
  /\ WorkerAt(w, "claim")
  /\ \A r \in Rows : ClaimableRow(r) => ledger[r].tries > 0
  /\ Phase(w, "detect")
  /\ UNCHANGED <<ledger, tracker, device, faults, revived>>

\* Adopt or create the device and grant it to the tenant.
Provision(w) ==
  LET r == pass[w].row IN
  /\ WorkerAt(w, "create")
  /\ \/ /\ device' = device \cup {r}
        /\ pass' = [pass EXCEPT ![w].at = "mark"]
        /\ UNCHANGED faults
     \/ /\ Fault
        /\ device' \in {device, device \cup {r}}
        /\ pass' = [pass EXCEPT ![w].at = "fail"]
  /\ UNCHANGED <<ledger, tracker, revived>>

\* Only a row that is still PENDING.
Mark(w) ==
  LET r == pass[w].row IN
  /\ WorkerAt(w, "mark")
  /\ ledger' = IF ledger[r].status = "PENDING"
               THEN [ledger EXCEPT ![r].status = "PROVISIONED"]
               ELSE ledger
  /\ Phase(w, "claim")
  /\ UNCHANGED <<tracker, device, faults, revived>>

\* retryPlan
GivesUp(r) == ledger[r].tries >= MaxTrackTries

\* By id alone: whatever became of the row since it was claimed.  The index of one
\* row in flight per vehicle may refuse it, which ends the pass.
RecordFailure(w) ==
  LET r == pass[w].row
      refused == ~GivesUp(r) /\ \E o \in RowsOf(ledger[r].vehicle) \ {r} : InFlight(o) IN
  /\ WorkerAt(w, "fail")
  /\ Phase(w, "claim")
  /\ IF refused
     THEN UNCHANGED <<ledger, revived>>
     ELSE /\ ledger' = [ledger EXCEPT ![r].status = IF GivesUp(r) THEN "FAILED" ELSE "PENDING"]
          /\ revived' = IF ledger[r].status # "PENDING" THEN revived \cup {r} ELSE revived
  /\ UNCHANGED <<tracker, device, faults>>

-----------------------------------------------------------------------------
(* detectFirstFixes, bindEnrollment                                         *)

DetectRead(w) ==
  /\ WorkerAt(w, "detect")
  /\ Select(w, "bind", {r \in Rows : ledger[r].status = "PROVISIONED" /\ ~ledger[r].expired})
  /\ UNCHANGED <<ledger, tracker, device, faults, revived>>

Done(w, r) == pass' = [pass EXCEPT ![w].todo = @ \ {r}]

\* No fix yet, or the provider does not answer.
NoFix(w) ==
  /\ WorkerAt(w, "bind")
  /\ \E r \in pass[w].todo : Done(w, r)
  /\ UNCHANGED <<ledger, tracker, device, faults, revived>>

Outgoing(r) == {o \in RowsOf(ledger[r].vehicle) \ {r} : ledger[o].status = "ACTIVE"}

\* Mutant: the row is taken as it was read.
BindableRowMutant(r) == TRUE

BindableRow(r) == ledger[r].status = "PROVISIONED"

\* One transaction.
Bind(w) ==
  /\ WorkerAt(w, "bind")
  /\ \E r \in pass[w].todo :
       /\ r \in device
       /\ Done(w, r)
       /\ IF BindableRow(r)
          THEN /\ ledger' = [CloseAll(Outgoing(r)) EXCEPT ![r].status = "ACTIVE"]
               /\ tracker' = [tracker EXCEPT ![ledger[r].vehicle] = r]
          ELSE UNCHANGED <<ledger, tracker>>
  /\ UNCHANGED <<device, faults, revived>>

-----------------------------------------------------------------------------
(* sweepExpired, cleanupProvider                                            *)

SweepRead(w) ==
  /\ WorkerAt(w, "sweep")
  /\ Select(w, "close", {r \in Rows : InFlight(r) /\ ledger[r].expired})
  /\ UNCHANGED <<ledger, tracker, device, faults, revived>>

\* By id alone.
SweepWrite(w) ==
  /\ WorkerAt(w, "close")
  /\ \E r \in pass[w].todo : Done(w, r) /\ ledger' = CloseAll({r})
  /\ UNCHANGED <<tracker, device, faults, revived>>

\* Mutant: a failed deletion is not tried again.
ToCleanMutant(r) == ledger[r].due /\ ledger[r].cleaned = "NULL"

ToClean(r) == ledger[r].due /\ ledger[r].cleaned \in {"NULL", "RETRY"}

CleanRead(w) ==
  /\ WorkerAt(w, "clean")
  /\ Select(w, "delete", {r \in Rows : ToClean(r)})
  /\ UNCHANGED <<ledger, tracker, device, faults, revived>>

\* The device is found by its reference.
DeleteDevice(w) ==
  /\ WorkerAt(w, "delete")
  /\ \E r \in pass[w].todo, ok \in BOOLEAN :
       /\ IF ok THEN device' = device \ {r} /\ UNCHANGED faults
                ELSE Fault /\ device' \in {device, device \ {r}}
       /\ pass' = [pass EXCEPT ![w].at = "cleaned", ![w].row = r, ![w].todo = @ \ {r}, ![w].ok = ok]
  /\ UNCHANGED <<ledger, tracker, revived>>

CleanWrite(w) ==
  LET r == pass[w].row IN
  /\ WorkerAt(w, "cleaned")
  /\ ledger' = [ledger EXCEPT ![r].cleaned = IF pass[w].ok THEN "DONE" ELSE "RETRY",
                              ![r].due = ~pass[w].ok]
  /\ pass' = [pass EXCEPT ![w].at = "delete", ![w].row = NoEnrollment, ![w].ok = FALSE]
  /\ UNCHANGED <<tracker, device, faults, revived>>

\* A phase that came to its end hands over to the next.
After == [bind |-> "sweep", close |-> "clean", delete |-> "claim"]

NextPhase(w) ==
  /\ pass[w].at \in DOMAIN After
  /\ pass[w].todo = {}
  /\ Phase(w, After[pass[w].at])
  /\ UNCHANGED <<ledger, tracker, device, faults, revived>>

PassCrash(w) ==
  /\ Fault
  /\ pass[w] # NewPass
  /\ Phase(w, "claim")
  /\ UNCHANGED <<ledger, tracker, device, revived>>

-----------------------------------------------------------------------------
WorkerStep(w) ==
  \/ ClaimOne(w) \/ NothingToClaim(w) \/ Provision(w) \/ Mark(w) \/ RecordFailure(w)
  \/ DetectRead(w) \/ NoFix(w) \/ Bind(w)
  \/ SweepRead(w) \/ SweepWrite(w)
  \/ CleanRead(w) \/ DeleteDevice(w) \/ CleanWrite(w)
  \/ NextPhase(w)

TrackerNext ==
  \/ \E w \in TrackWorkers : WorkerStep(w) \/ PassCrash(w)
  \/ \E v \in Vehicles : StartEnrollment(v) \/ RemoveTracking(v) \/ ClearVehicleTracker(v)
  \/ \E r \in Rows : CancelEnrollment(r) \/ ExtendEnrollment(r) \/ CodeExpires(r)

TrackerSpec == TrackerInit /\ [][TrackerNext]_trackVars

\* Passes are started again and again.
TrackerFairness == \A w \in TrackWorkers : WF_trackVars(WorkerStep(w))

FairTrackerSpec == TrackerSpec /\ TrackerFairness

-----------------------------------------------------------------------------
(* Properties.                                                             *)

\* "So a vehicle is never briefly untracked" (bindEnrollment): a vehicle that shows
\* a tracker has an active row of its own, and a device that was not deleted under
\* it, however setups are started, cancelled, replaced, swept and cleaned up.
TrackerIsAlive ==
  \A v \in Vehicles : tracker[v] # NoEnrollment =>
    LET r == tracker[v] IN
    /\ ledger[r].status = "ACTIVE" /\ ledger[r].vehicle = v
    /\ r \in device \cup revived

\* "Deleting the device is the only thing that stops ingestion" (cleanupProvider):
\* the device of a closed row is deleted in the end and never comes back, whatever
\* calls fail and passes die (a row that a late failure wrote open again is left out).
RetiredDevicesGo ==
  \A r \in Rows : ledger[r].status = "CLOSED" ~> [](r \notin device \/ r \in revived)
=============================================================================
