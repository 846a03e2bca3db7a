--------------------------- MODULE ProductionJob ---------------------------
(***************************************************************************)
(* The durable job record of packages/production-store and the writes the  *)
(* store offers on it.  Every operator here is the body of one SQLite      *)
(* transaction: it maps the record read inside the transaction to the      *)
(* record written by it, and its guard is the check that makes the store   *)
(* throw.  The orchestrator (WorkerLifecycle) decides when they run.       *)
(*                                                                         *)
(* Kept: state, lease, provider worker, closing mark, recoverable flag and *)
(* the review state of every output.  Left out: labels, prices, timestamps *)
(* and the event log, which no guard below reads.                          *)
(***************************************************************************)
EXTENDS Naturals, Sequences

CONSTANTS Lease,     \* every lease id the application may ever draw
          NoLease    \* the null of workerLeaseId and workerPodId

ASSUME LeaseAssumption == NoLease \notin Lease

JobState == {"planned", "estimated", "approved", "queued", "provisioning",
             "running", "downloading", "verifying", "awaiting-review",
             "succeeded", "failed", "cancel-requested", "cancelled",
             "terminated"}

allowedTransitions == [s \in JobState |->
  CASE s = "planned"          -> {"estimated"}
    [] s = "estimated"        -> {"approved", "cancelled"}
    [] s = "approved"         -> {"queued", "cancelled"}
    [] s = "queued"           -> {"provisioning", "cancel-requested", "failed"}
    [] s = "provisioning"     -> {"running", "cancel-requested", "failed", "terminated"}
    [] s = "running"          -> {"downloading", "cancel-requested", "failed", "terminated"}
    [] s = "downloading"      -> {"verifying", "cancel-requested", "failed"}
    [] s = "verifying"        -> {"awaiting-review", "failed"}
    [] s = "awaiting-review"  -> {"succeeded", "failed"}
    [] s = "cancel-requested" -> {"cancelled", "terminated", "failed"}
    [] OTHER                  -> {}]

Terminal == {"succeeded", "failed", "cancelled", "terminated"}

(* Review state of one generated asset.                                    *)
ReviewState == {"candidate", "held", "approved", "rejected"}

(* A provider worker is named by the lease it was created for: createPod   *)
(* tags the Pod with STUDIO_LEASE_ID and posts at most once per lease.     *)
JobRecord == [state         : JobState,
              workerLeaseId : Lease \cup {NoLease},
              workerPodId   : Lease \cup {NoLease},
              workerClosed  : BOOLEAN,
              recoverable   : BOOLEAN,
              outputs       : Seq(ReviewState)]

(* What planJob inserts.                                                   *)
PlannedJob == [state         |-> "estimated",
               workerLeaseId |-> NoLease,
               workerPodId   |-> NoLease,
               workerClosed  |-> FALSE,
               recoverable   |-> TRUE,
               outputs       |-> << >>]

-----------------------------------------------------------------------------
(* The writes.                                                             *)

(* Mutant: repeating a state is no error.                                  *)
CanMoveOrStay(r, s) == s \in allowedTransitions[r.state] \cup {r.state}

CanMove(r, s) == s \in allowedTransitions[r.state]

Moved(r, s) == [r EXCEPT !.state = s]

(* Mutant: a queued job may be queued again.                               *)
CanAssignAgain(r) == r.state \in {"approved", "queued"}

CanAssign(r) == r.state = "approved"

Assigned(r, l) == [r EXCEPT !.state = "queued", !.workerLeaseId = l,
                            !.workerClosed = FALSE]

CanAttach(r) == r.state \in {"queued", "provisioning"}

Attached(r, p) == [r EXCEPT !.state = "provisioning", !.workerPodId = p]

(* Idempotent; the orchestrator never calls it for a job without a lease.  *)
Closed(r) == IF r.workerClosed
             THEN r
             ELSE [r EXCEPT !.workerClosed = TRUE, !.recoverable = FALSE]

WithRecoverableError(r) == [r EXCEPT !.recoverable = TRUE]

CanRegister(r) == r.state \in {"downloading", "verifying"}

Registered(r) == [r EXCEPT !.outputs = Append(@, "candidate")]

(* Mutant: a decision can be replaced by another one.                      *)
CanReviewAgain(r, i, decision) == r.outputs[i] # decision

CanReview(r, i, decision) ==
  /\ r.outputs[i] \in {"candidate", "held"}
  /\ ~ (r.outputs[i] = "held" /\ decision = "held")

Reviewed(r, i, decision) == [r EXCEPT !.outputs[i] = decision]

AllApproved(r) == /\ r.outputs # << >>
                  /\ \A i \in DOMAIN r.outputs : r.outputs[i] = "approved"

(* The second transaction of reviewMedia.                                  *)
SettledByReview(r) == IF r.state = "awaiting-review" /\ AllApproved(r)
                      THEN Moved(r, "succeeded")
                      ELSE r

(* Mutant: the timer forgets failed jobs.                                  *)
RecoverableStateWithoutFailed ==
  JobState \ {"planned", "estimated", "approved", "terminated", "failed"}

(* Mutant: a job whose cancellation was requested is left to the caller.   *)
RecoverableStateWithoutCancelled ==
  JobState \ {"planned", "estimated", "approved", "terminated", "cancel-requested"}

(* The jobs the recovery timer puts on its list.                           *)
RecoverableState == JobState \ {"planned", "estimated", "approved", "terminated"}

NeedsRecovery(r) == /\ r.workerLeaseId # NoLease
                    /\ ~ r.workerClosed
                    /\ r.state \in RecoverableState
=============================================================================
