-------------------------- MODULE MCWebhookDelivery --------------------------
(* An instance of WebhookDelivery for TLC.                                 *)
EXTENDS WebhookDelivery

CONSTANTS d1, j1, j2, j3, j4, w1, w2

\* Every job that was queued succeeds or is buried, whatever crashes (worker
\* loop and requeueStalled).  Jobs differ in nothing but their names, so one job
\* stands for all.
JobSettles == Settles(j1)

CrashMix == {"crash", "throw"}
=============================================================================
