------------------------------- MODULE MCLive -------------------------------
(***************************************************************************)
(* Instances of Idempotency and TrackerEnrollment for TLC.  The two share  *)
(* no state, so one run checks them, one scene each: a behaviour is a      *)
(* behaviour of the component its scene names, while the other stands      *)
(* still.                                                                  *)
(***************************************************************************)
EXTENDS Idempotency, TrackerEnrollment

CONSTANTS r1, r2, r3, x1, x2, a1, a2, n1, n2, v1, g1

VARIABLE scene

Mishaps == {"throw", "crash"}

liveVars == <<scene, keyVars, trackVars>>

LiveInit ==
  /\ scene \in {"key", "tracker"}
  /\ KeyInit /\ TrackerInit

InKey(A) == scene = "key" /\ A /\ UNCHANGED <<scene, trackVars>>
InTracker(A) == scene = "tracker" /\ A /\ UNCHANGED <<scene, keyVars>>

LiveNext == InKey(KeyNext) \/ InTracker(TrackerNext)

\* The fairness of each component.
LiveSpec ==
  /\ LiveInit /\ [][LiveNext]_liveVars
  /\ \A r \in Requests : WF_liveVars(InKey(Proceed(r)))
  /\ WF_liveVars(InKey(Expire)) /\ WF_liveVars(InKey(Purge))
  /\ \A g \in TrackWorkers : WF_liveVars(InTracker(WorkerStep(g)))

\* Each component keeps its variables in their ranges.
LiveTypeOK == KeyTypeOK /\ TrackerTypeOK
=============================================================================
