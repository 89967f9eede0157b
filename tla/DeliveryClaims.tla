--------------------------- MODULE DeliveryClaims ---------------------------
(***************************************************************************)
(* What the runbook says of a retry and the code does not do: a property   *)
(* of Delivery that a run shows violated.                                  *)
(***************************************************************************)
EXTENDS Delivery

\* "A retry creates a new jobs.task_runs" (notification-operations-runbook.md,
\* 4, rule 6): without faults a delivery that waits for its attempt has a job.
RetriedIsQueued ==
  faults = 0 => \A d \in Deliveries : status[d] = "pending" => HasJobIn(d, Live)
=============================================================================
