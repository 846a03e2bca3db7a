-------------------------- MODULE WorkerLifecycle --------------------------
(***************************************************************************)
(* The paid-work core: ProductionOrchestrator (queueApprovedJob,           *)
(* reconcileJob, cancelJob) and the desktop's recovery timer, over the     *)
(* durable jobs of ProductionJob, the lease-token vault, the provider and  *)
(* the worker inside each Pod.                                             *)
(*                                                                         *)
(* The application is one event loop.  A call runs without interruption    *)
(* from one await to the next, so every action below is the code between   *)
(* two awaits: it starts with the outcome of the awaited request and ends  *)
(* by naming, in pc, the request awaited next.  Any number of calls may be *)
(* suspended at once (the timer's, and those the windows issue), each with *)
(* the record it read before suspending.                                   *)
(*                                                                         *)
(* The provider and the network are environment: a request may be served,  *)
(* refused, or served with its answer lost.  Lost requests, refusals and   *)
(* crashes of the application are counted by faults and bounded by         *)
(* MaxFaults.                                                              *)
(***************************************************************************)
EXTENDS ProductionJob, FiniteSets

CONSTANTS Job, NoJob,
          Caller,            \* calls that may be in progress at once
          Timer,             \* the one made by the recovery timer
          Artifacts,         \* how many files the workflow produces
          MaxConcurrentGpus, \* the saved guardrail
          MaxFaults,         \* bound on environment faults
          Forgetful,         \* may the provider drop a terminated Pod from its answers?
          ReplyFields,       \* the fields of a job record as the worker sends it
          Decision           \* the review decisions people make

ASSUME WorkerLifecycleAssumption ==
  /\ NoJob \notin Job
  /\ Timer \in Caller
  /\ Artifacts \in Nat \ {0}
  /\ MaxConcurrentGpus \in Nat
  /\ MaxFaults \in Nat
  /\ Forgetful \in BOOLEAN
  /\ Decision \subseteq {"approved", "held", "rejected"}

VARIABLES jobs,    \* project.sqlite: survives a crash
          vault,   \* leases whose gateway token is stored: survives a crash
          call,    \* the suspended calls: lost in a crash
          pass,    \* jobs still on the timer's list: lost in a crash
          pods,    \* the provider's Pod for each lease
          worker,  \* the job record inside that Pod
          faults

vars == <<jobs, vault, call, pass, pods, worker, faults>>
environment == <<pods, worker>>

PodState    == {"absent", "requested", "running", "exited", "terminated", "gone"}
WorkerState == {"none", "working", "succeeded", "failed", "cancelled", "purged"}

(* Storing or removing a token reads the whole map, then writes it back:   *)
(* the wait for the read is followed by the wait for the write.            *)
TokenWrite == [store |-> "storing", unstore |-> "unstoring",
               closeStopped |-> "closing", forget |-> "forgetting"]

Await == {"idle", "refresh", "store", "storing", "assign", "unstore", "unstoring",
          "create", "created", "lookup", "closeStopped", "closing", "token",
          "preflight", "submit", "poll", "download", "purge", "cancelWorker",
          "terminate", "forget", "forgetting"}

Reason == {"none", "settled", "rejected", "failed", "done", "cancel"}

Call == [pc    : Await,
         job   : Job \cup {NoJob},
         lease : Lease \cup {NoLease},
         pod   : Lease \cup {NoLease},  \* workerPodId as first read
         seen  : JobState,              \* details.job.state as last read
         why   : Reason,                \* which stop sequence is running
         next  : Nat,                   \* index of the artifact being fetched
         map   : SUBSET Lease]          \* the token map as last read

NoCall == [pc |-> "idle", job |-> NoJob, lease |-> NoLease, pod |-> NoLease,
           seen |-> "planned", why |-> "none", next |-> 0, map |-> {}]

TypeOK == /\ jobs \in [Job -> JobRecord]
          /\ vault \subseteq Lease
          /\ call \in [Caller -> Call]
          /\ pass \subseteq Job
          /\ pods \in [Lease -> PodState]
          /\ worker \in [Lease -> WorkerState]
          /\ faults \in 0..MaxFaults

Init == /\ jobs = [j \in Job |-> PlannedJob]
        /\ vault = {}
        /\ call = [c \in Caller |-> NoCall]
        /\ pass = {}
        /\ pods = [l \in Lease |-> "absent"]
        /\ worker = [l \in Lease |-> "none"]
        /\ faults = 0

-----------------------------------------------------------------------------
(* Shorthands for one suspended call.                                      *)

At(c, a)     == call[c].pc = a
JobOf(c)     == jobs[call[c].job]
PodOf(c)     == pods[call[c].lease]
WorkerOf(c)  == worker[call[c].lease]
Reachable(c) == PodOf(c) = "running"
Listed(c)    == PodOf(c) \in {"running", "exited", "terminated"}

AwaitNext(c, a)     == call' = [call EXCEPT ![c].pc = a]
AwaitStop(c, a, w)  == call' = [call EXCEPT ![c].pc = a, ![c].why = w]
Return(c)           == call' = [call EXCEPT ![c] = NoCall]
Save(c, r)          == jobs' = [jobs EXCEPT ![call[c].job] = r]

Fault       == faults < MaxFaults /\ faults' = faults + 1
(* A failure that certainly happens costs no fault.                        *)
FailureIf(certain) == IF certain THEN UNCHANGED faults ELSE Fault

(* createUlid never repeats.                                               *)
FreshLeases == Lease \ UNION {vault, {jobs[j].workerLeaseId : j \in Job},
                              {call[c].lease : c \in Caller},
                              UNION {call[c].map : c \in Caller}}

RunningPods == {l \in Lease : pods[l] = "running"}

(* WorkerClient parses every job record with a strict schema.              *)
WorkerJobFields == {"jobId", "idempotencyKey", "workflowId", "workflowVersion",
                    "state", "progressPercent", "message", "comfyPromptId",
                    "artifacts", "errorCode", "createdAt", "updatedAt"}

ReplyIsReadable == ReplyFields = WorkerJobFields

-----------------------------------------------------------------------------
(* Cost approval and human review: synchronous calls on the store.         *)

ApproveJob(j) ==
  /\ jobs[j].state = "estimated"
  /\ jobs' = [jobs EXCEPT ![j] = Moved(@, "approved")]
  /\ UNCHANGED <<vault, call, pass, environment, faults>>

ReviewMedia(j, i, decision) ==
  /\ CanReview(jobs[j], i, decision)
  /\ jobs' = [jobs EXCEPT ![j] = SettledByReview(Reviewed(@, i, decision))]
  /\ UNCHANGED <<vault, call, pass, environment, faults>>

-----------------------------------------------------------------------------
(* The lease-token vault: no lock joins the read of the map to its write.  *)

ReadTokens(c) ==
  /\ call[c].pc \in DOMAIN TokenWrite
  /\ call' = [call EXCEPT ![c].pc = TokenWrite[@], ![c].map = vault]
  /\ UNCHANGED <<jobs, vault, pass, environment, faults>>

TokenStored(c)  == vault' = call[c].map \cup {call[c].lease}
TokenRemoved(c) == vault' = call[c].map \ {call[c].lease}

-----------------------------------------------------------------------------
(* queueApprovedJob.                                                       *)

QueueStart(c, j) ==
  /\ At(c, "idle")
  /\ c # Timer
  /\ jobs[j].state = "approved"
  /\ call' = [call EXCEPT ![c] = [NoCall EXCEPT !.pc = "refresh", !.job = j]]
  /\ UNCHANGED <<jobs, vault, pass, environment, faults>>

(* cloud.refresh() answered: the limit is compared with the Pods counted   *)
(* there, and a lease and its token are drawn.                             *)
QueueRefreshed(c) ==
  /\ At(c, "refresh")
  /\ IF Cardinality(RunningPods) < MaxConcurrentGpus
     THEN \E l \in FreshLeases :
            call' = [call EXCEPT ![c].pc = "store", ![c].lease = l]
     ELSE Return(c)
  /\ UNCHANGED <<jobs, vault, pass, environment, faults>>

QueueStore(c) ==
  /\ At(c, "storing")
  /\ TokenStored(c)
  /\ call' = [call EXCEPT ![c].pc = "assign", ![c].map = {}]
  /\ UNCHANGED <<jobs, pass, environment, faults>>

(* assignWorker re-reads the job; a second call for it loses here.         *)
QueueAssign(c) ==
  /\ At(c, "assign")
  /\ IF CanAssign(JobOf(c))
     THEN Save(c, Assigned(JobOf(c), call[c].lease)) /\ AwaitNext(c, "create")
     ELSE UNCHANGED jobs /\ AwaitNext(c, "unstore")
  /\ UNCHANGED <<vault, pass, environment, faults>>

QueueUnstore(c) ==
  /\ At(c, "unstoring")
  /\ TokenRemoved(c)
  /\ Return(c)
  /\ UNCHANGED <<jobs, pass, environment, faults>>

(* The lease search finds nothing and the POST is on its way.              *)
CreatePod(c) ==
  /\ At(c, "create")
  /\ pods' = [pods EXCEPT ![call[c].lease] = IF @ = "absent" THEN "requested" ELSE @]
  /\ AwaitNext(c, "created")
  /\ UNCHANGED <<jobs, vault, pass, worker, faults>>

(* The provider's answer, or the lease search that replaces a lost one,    *)
(* returns the Pod.  attachProviderPod may still refuse it.                *)
CreateAnswered(c) ==
  /\ At(c, "created")
  /\ Listed(c)
  /\ Save(c, IF CanAttach(JobOf(c)) THEN Attached(JobOf(c), call[c].lease)
                                    ELSE WithRecoverableError(JobOf(c)))
  /\ Return(c)
  /\ UNCHANGED <<vault, pass, environment, faults>>

(* The create was refused, or it timed out and the search that follows     *)
(* found nothing: the request may still be served later.                   *)
CreateUncertain(c) ==
  /\ call[c].pc \in {"create", "created"}
  /\ Fault
  /\ Save(c, WithRecoverableError(JobOf(c)))
  /\ Return(c)
  /\ UNCHANGED <<vault, pass, environment>>

-----------------------------------------------------------------------------
(* reconcileJob: find the worker.                                          *)

ReconcileStart(c, j) ==
  /\ At(c, "idle")
  /\ jobs[j].workerLeaseId # NoLease
  /\ call' = [call EXCEPT ![c] =
                [NoCall EXCEPT !.pc = "lookup", !.job = j,
                               !.lease = jobs[j].workerLeaseId,
                               !.pod = jobs[j].workerPodId,
                               !.seen = jobs[j].state]]

ReconcileByUser(c, j) ==
  /\ c # Timer
  /\ ReconcileStart(c, j)
  /\ UNCHANGED <<jobs, vault, pass, environment, faults>>

(* The 15-second timer lists the jobs of a project once, then reconciles   *)
(* them one after the other.                                               *)
TimerList ==
  /\ At(Timer, "idle")
  /\ pass = {}
  /\ pass' = {j \in Job : NeedsRecovery(jobs[j])}
  /\ UNCHANGED <<jobs, vault, call, environment, faults>>

TimerReconcile(j) ==
  /\ j \in pass
  /\ pass' = pass \ {j}
  /\ ReconcileStart(Timer, j)
  /\ UNCHANGED <<jobs, vault, environment, faults>>

Settled == {"awaiting-review", "succeeded", "failed", "cancelled", "terminated"}

(* getPod or findPodByLease returned a Pod.  Recording the elapsed cost    *)
(* re-reads the job; without it the state read at the start is used.       *)
WorkerFound(c) ==
  /\ At(c, "lookup")
  /\ Listed(c)
  /\ \/ call[c].pod # NoLease
     \/ CanAttach(JobOf(c))
  /\ LET record == IF call[c].pod = NoLease THEN Attached(JobOf(c), call[c].lease)
                                            ELSE JobOf(c)
     IN  /\ Save(c, record)
         /\ \E seen \in (IF call[c].pod = NoLease THEN {} ELSE {call[c].seen})
                          \cup {record.state} :
              call' = [call EXCEPT
                ![c].seen = seen,
                ![c].pc  = CASE PodOf(c) # "running" -> "closeStopped"
                             [] PodOf(c) = "running" /\ seen \in Settled -> "terminate"
                             [] OTHER -> "token",
                ![c].why = IF PodOf(c) = "running" /\ seen \in Settled
                           THEN "settled" ELSE "none"]
  /\ UNCHANGED <<vault, pass, environment, faults>>

(* attachProviderPod throws: the call ends and nothing is written.         *)
WorkerFoundTooLate(c) ==
  /\ At(c, "lookup")
  /\ Listed(c)
  /\ call[c].pod = NoLease
  /\ ~ CanAttach(JobOf(c))
  /\ Return(c)
  /\ UNCHANGED <<jobs, vault, pass, environment, faults>>

(* No Pod carries the lease.                                               *)
WorkerNotFound(c) ==
  /\ At(c, "lookup")
  /\ call[c].pod = NoLease
  /\ ~ Listed(c)
  /\ Save(c, WithRecoverableError(JobOf(c)))
  /\ Return(c)
  /\ UNCHANGED <<vault, pass, environment, faults>>

(* The Pod is known by id and is not running: drop the token (a failure is *)
(* swallowed), then record that the worker is closed.                      *)
CloseStopped(c) ==
  /\ At(c, "closing")
  /\ \/ TokenRemoved(c) /\ UNCHANGED faults
     \/ UNCHANGED vault /\ Fault
  /\ LET stillOpen == call[c].seen \in
                        {"queued", "provisioning", "running", "cancel-requested"}
     IN  CASE ~ stillOpen -> Save(c, Closed(JobOf(c)))
           [] stillOpen /\ CanMove(JobOf(c), "terminated") ->
                Save(c, Closed(Moved(JobOf(c), "terminated")))
           [] OTHER -> UNCHANGED jobs
  /\ Return(c)
  /\ UNCHANGED <<pass, environment>>

ReadLeaseToken(c) ==
  /\ At(c, "token")
  /\ CASE call[c].lease \in vault /\ call[c].seen = "provisioning" -> AwaitNext(c, "preflight")
       [] call[c].lease \in vault /\ call[c].seen = "running"      -> AwaitNext(c, "poll")
       [] OTHER -> Return(c)
  /\ UNCHANGED <<jobs, vault, pass, environment, faults>>

-----------------------------------------------------------------------------
(* reconcileJob: a provisioning worker.                                    *)

PreflightPasses(c) ==
  /\ At(c, "preflight")
  /\ Reachable(c)
  /\ AwaitNext(c, "submit")
  /\ UNCHANGED <<jobs, vault, pass, environment, faults>>

(* Mutant: the job is terminated without stopping the rejected worker.     *)
PreflightRejectsOnly(c) ==
  /\ At(c, "preflight")
  /\ Reachable(c)
  /\ AwaitStop(c, "forget", "rejected")
  /\ UNCHANGED <<jobs, vault, pass, environment, faults>>

(* Wrong identity, draining, or not qualified for the workflow.            *)
PreflightRejects(c) ==
  /\ At(c, "preflight")
  /\ Reachable(c)
  /\ AwaitStop(c, "terminate", "rejected")
  /\ UNCHANGED <<jobs, vault, pass, environment, faults>>

(* POST /v1/jobs is idempotent while the worker knows the job.             *)
Accepting(c) ==
  worker' = [worker EXCEPT ![call[c].lease] =
               IF @ \in {"none", "purged"} THEN "working" ELSE @]

SubmitAccepted(c) ==
  /\ At(c, "submit")
  /\ Reachable(c)
  /\ Accepting(c)
  /\ IF ReplyIsReadable /\ CanMove(JobOf(c), "running")
     THEN Save(c, Moved(JobOf(c), "running"))
     ELSE UNCHANGED jobs
  /\ Return(c)
  /\ UNCHANGED <<vault, pass, pods, faults>>

SubmitAnswerLost(c) ==
  /\ At(c, "submit")
  /\ Reachable(c)
  /\ Fault
  /\ Accepting(c)
  /\ Save(c, WithRecoverableError(JobOf(c)))
  /\ Return(c)
  /\ UNCHANGED <<vault, pass, pods>>

-----------------------------------------------------------------------------
(* reconcileJob: a running worker.                                         *)

(* A job only gets here when the worker's replies parse: see SubmitAccepted. *)
Polls(c, state) ==
  /\ At(c, "poll")
  /\ Reachable(c)
  /\ WorkerOf(c) = state
  /\ UNCHANGED <<vault, pass, environment, faults>>

PollWorking(c) ==
  /\ Polls(c, "working")
  /\ Return(c)
  /\ UNCHANGED jobs

PollFailed(c) ==
  /\ Polls(c, "failed")
  /\ IF CanMove(JobOf(c), "failed")
     THEN Save(c, Moved(JobOf(c), "failed")) /\ AwaitStop(c, "terminate", "failed")
     ELSE UNCHANGED jobs /\ Return(c)

(* Two transactions, running to cancel-requested to cancelled.  The Pod is *)
(* left for the next reconciliation.                                       *)
PollCancelled(c) ==
  /\ Polls(c, "cancelled")
  /\ IF CanMove(JobOf(c), "cancel-requested")
     THEN Save(c, Moved(JobOf(c), "cancelled"))
     ELSE UNCHANGED jobs
  /\ Return(c)

(* Mutant: the worker is purged as soon as it reports success.             *)
PollSucceededPurges(c) ==
  /\ Polls(c, "succeeded")
  /\ IF CanMove(JobOf(c), "downloading")
     THEN Save(c, Moved(JobOf(c), "downloading")) /\ AwaitNext(c, "purge")
     ELSE UNCHANGED jobs /\ Return(c)

PollSucceeded(c) ==
  /\ Polls(c, "succeeded")
  /\ IF CanMove(JobOf(c), "downloading")
     THEN Save(c, Moved(JobOf(c), "downloading")) /\ AwaitNext(c, "download")
     ELSE UNCHANGED jobs /\ Return(c)

(* One verified artifact arrived: the first moves the job to verifying,    *)
(* every one is registered as a candidate output.                          *)
Downloaded(c) ==
  /\ At(c, "download")
  /\ Reachable(c)
  /\ WorkerOf(c) = "succeeded"
  /\ LET first  == call[c].next = 0
         record == IF first THEN Moved(JobOf(c), "verifying") ELSE JobOf(c)
     IN  IF (first => CanMove(JobOf(c), "verifying")) /\ CanRegister(record)
         THEN /\ Save(c, Registered(record))
              /\ call' = [call EXCEPT
                   ![c].next = @ + 1,
                   ![c].pc = IF call[c].next + 1 = Artifacts THEN "purge" ELSE "download"]
         ELSE UNCHANGED jobs /\ Return(c)
  /\ UNCHANGED <<vault, pass, environment, faults>>

(* The downloaded file fails its last local check: the job has moved to    *)
(* verifying, and nothing is registered.                                   *)
RegistrationFails(c) ==
  /\ At(c, "download")
  /\ Reachable(c)
  /\ WorkerOf(c) = "succeeded"
  /\ Fault
  /\ call[c].next = 0
  /\ CanMove(JobOf(c), "verifying")
  /\ Save(c, Moved(JobOf(c), "verifying"))
  /\ Return(c)
  /\ UNCHANGED <<vault, pass, environment>>

(* DELETE /v1/jobs: refused while the work runs.                           *)
Purged(c) ==
  /\ At(c, "purge")
  /\ Reachable(c)
  /\ WorkerOf(c) # "working"
  /\ worker' = [worker EXCEPT ![call[c].lease] = "purged"]
  /\ IF CanMove(JobOf(c), "awaiting-review")
     THEN /\ Save(c, Moved(JobOf(c), "awaiting-review"))
          /\ AwaitStop(c, "terminate", "done")
     ELSE UNCHANGED jobs /\ Return(c)
  /\ UNCHANGED <<vault, pass, pods, faults>>

PurgeAnswerLost(c) ==
  /\ At(c, "purge")
  /\ Reachable(c)
  /\ WorkerOf(c) # "working"
  /\ Fault
  /\ worker' = [worker EXCEPT ![call[c].lease] = "purged"]
  /\ Save(c, WithRecoverableError(JobOf(c)))
  /\ Return(c)
  /\ UNCHANGED <<vault, pass, pods>>

(* WorkerClientError: the worker is away, does not know the job, or the    *)
(* request failed.  The error is recorded and the call ends.               *)
WorkerCallFails(c) ==
  /\ call[c].pc \in {"preflight", "submit", "poll", "download", "purge"}
  /\ FailureIf(\/ ~ Reachable(c)
               \/ At(c, "poll") /\ WorkerOf(c) \in {"none", "purged"}
               \/ At(c, "download") /\ WorkerOf(c) # "succeeded"
               \/ At(c, "purge") /\ WorkerOf(c) = "working")
  /\ Save(c, WithRecoverableError(JobOf(c)))
  /\ Return(c)
  /\ UNCHANGED <<vault, pass, environment>>

-----------------------------------------------------------------------------
(* cancelJob.                                                              *)

CancelStart(c, j) ==
  /\ At(c, "idle")
  /\ c # Timer
  /\ jobs[j].state \notin Terminal
  /\ LET record == IF jobs[j].state \in {"queued", "provisioning", "running", "downloading"}
                   THEN Moved(jobs[j], "cancel-requested")
                   ELSE jobs[j]
     IN  IF record.workerPodId # NoLease
         THEN /\ jobs' = [jobs EXCEPT ![j] = record]
              /\ call' = [call EXCEPT ![c] =
                            [NoCall EXCEPT !.pc = "cancelWorker", !.job = j,
                                           !.lease = record.workerLeaseId]]
         ELSE /\ CanMove(record, "cancelled")
              /\ jobs' = [jobs EXCEPT ![j] = Moved(record, "cancelled")]
              /\ UNCHANGED call
  /\ UNCHANGED <<vault, pass, environment, faults>>

(* The gateway's cancel and the status read are best effort.               *)
CancelWorker(c) ==
  /\ At(c, "cancelWorker")
  /\ \/ UNCHANGED worker
     \/ /\ Reachable(c)
        /\ call[c].lease \in vault
        /\ WorkerOf(c) = "working"
        /\ worker' = [worker EXCEPT ![call[c].lease] = "cancelled"]
  /\ AwaitStop(c, "terminate", "cancel")
  /\ UNCHANGED <<jobs, vault, pass, pods, faults>>

-----------------------------------------------------------------------------
(* Stopping a worker: DELETE the Pod, forget the token, record the close.  *)

Stopping(c) ==
  pods' = [pods EXCEPT ![call[c].lease] = "terminated"]

TerminatePod(c) ==
  /\ At(c, "terminate")
  /\ PodOf(c) # "gone"
  /\ Stopping(c)
  /\ AwaitNext(c, "forget")
  /\ UNCHANGED <<jobs, vault, pass, worker, faults>>

(* Mutant: an unconfirmed stop is treated as a stop.                       *)
StopFailsUnnoticed(c) == UNCHANGED jobs /\ AwaitNext(c, "forget")

(* What a failed stop leaves: only the end of a finished job is recorded.  *)
StopFails(c) ==
  /\ IF call[c].why = "done" THEN Save(c, WithRecoverableError(JobOf(c)))
                             ELSE UNCHANGED jobs
  /\ Return(c)

TerminateFails(c) ==
  /\ At(c, "terminate")
  /\ FailureIf(PodOf(c) = "gone")
  /\ StopFails(c)
  /\ UNCHANGED <<vault, pass, environment>>

TerminateAnswerLost(c) ==
  /\ At(c, "terminate")
  /\ PodOf(c) # "gone"
  /\ Fault
  /\ Stopping(c)
  /\ StopFails(c)
  /\ UNCHANGED <<vault, pass, worker>>

(* The record after the token is forgotten, for each stop sequence: a      *)
(* rejected worker is terminated before it is closed, a cancelled one is   *)
(* closed before it is terminated.                                         *)
Stopped(r, why) ==
  CASE why = "rejected" -> IF CanMove(r, "terminated")
                           THEN Closed(Moved(r, "terminated")) ELSE r
    [] why = "cancel"   -> IF CanMove(r, "terminated")
                           THEN Moved(Closed(r), "terminated") ELSE Closed(r)
    [] OTHER            -> Closed(r)

ForgetToken(c) ==
  /\ At(c, "forgetting")
  /\ TokenRemoved(c)
  /\ Save(c, Stopped(JobOf(c), call[c].why))
  /\ Return(c)
  /\ UNCHANGED <<pass, environment, faults>>

(* Only the settled sequence swallows a failing vault.                     *)
ForgetTokenFails(c) ==
  /\ At(c, "forgetting")
  /\ Fault
  /\ IF call[c].why = "settled"
     THEN Save(c, Closed(JobOf(c))) /\ Return(c)
     ELSE StopFails(c)
  /\ UNCHANGED <<vault, pass, environment>>

-----------------------------------------------------------------------------
(* Failures that end a call with nothing written: the cloud status, the    *)
(* vault, the stored API key, a provider read, an unreadable answer, a     *)
(* local file.                                                             *)
CallFails(c) ==
  /\ call[c].pc \in {"refresh", "storing", "unstoring", "create", "lookup", "token",
                     "preflight", "submit", "poll", "download", "cancelWorker"}
  /\ FailureIf(At(c, "lookup") /\ call[c].pod # NoLease /\ PodOf(c) = "gone")
  /\ Return(c)
  /\ UNCHANGED <<jobs, vault, pass, environment>>

(* The application dies.  Calls and the timer's list are lost.             *)
AppGone == /\ call' = [c \in Caller |-> NoCall]
           /\ pass' = {}

Crash ==
  /\ Fault
  /\ AppGone
  /\ UNCHANGED <<jobs, vault, environment>>

(* It dies between the two transactions of a handler that writes twice.    *)
CrashBetweenWrites ==
  /\ Fault
  /\ AppGone
  /\ \/ \E c \in Caller :
          \/ /\ At(c, "closing")
             /\ call[c].seen \in {"queued", "provisioning", "running", "cancel-requested"}
             /\ CanMove(JobOf(c), "terminated")
             /\ Save(c, Moved(JobOf(c), "terminated"))
             /\ TokenRemoved(c)
          \/ /\ At(c, "forgetting")
             /\ CanMove(JobOf(c), "terminated")
             /\ \/ /\ call[c].why = "rejected"
                   /\ Save(c, Moved(JobOf(c), "terminated"))
                \/ /\ call[c].why = "cancel"
                   /\ Save(c, Closed(JobOf(c)))
             /\ TokenRemoved(c)
          \/ /\ At(c, "poll") /\ Reachable(c)
             /\ WorkerOf(c) = "cancelled"
             /\ CanMove(JobOf(c), "cancel-requested")
             /\ Save(c, Moved(JobOf(c), "cancel-requested"))
             /\ UNCHANGED vault
          \/ /\ At(c, "download") /\ Reachable(c) /\ WorkerOf(c) = "succeeded"
             /\ call[c].next = 0
             /\ CanMove(JobOf(c), "verifying")
             /\ Save(c, Moved(JobOf(c), "verifying"))
             /\ UNCHANGED vault
     \/ \E j \in Job :
          /\ jobs[j].state = "queued"
          /\ jobs' = [jobs EXCEPT ![j] = Moved(@, "cancel-requested")]
          /\ UNCHANGED vault
     \/ \E j \in Job : \E i \in DOMAIN jobs[j].outputs :
          /\ CanReview(jobs[j], i, "approved")
          /\ jobs[j].state = "awaiting-review" /\ AllApproved(Reviewed(jobs[j], i, "approved"))
          /\ jobs' = [jobs EXCEPT ![j] = Reviewed(@, i, "approved")]
          /\ UNCHANGED vault
  /\ UNCHANGED environment

-----------------------------------------------------------------------------
(* The provider and the worker.                                            *)

(* A create request is served, however late.                               *)
PodStarts(l) ==
  /\ pods[l] = "requested"
  /\ pods' = [pods EXCEPT ![l] = "running"]
  /\ UNCHANGED <<jobs, vault, call, pass, worker, faults>>

(* The idle timeout, the hard deadline or the provider ends the Pod.       *)
PodExits(l) ==
  /\ pods[l] = "running"
  /\ pods' = [pods EXCEPT ![l] = "exited"]
  /\ UNCHANGED <<jobs, vault, call, pass, worker, faults>>

PodForgotten(l) ==
  /\ Forgetful
  /\ pods[l] = "terminated"
  /\ pods' = [pods EXCEPT ![l] = "gone"]
  /\ UNCHANGED <<jobs, vault, call, pass, worker, faults>>

(* execute() finishes; it does not look at a cancellation recorded         *)
(* meanwhile.                                                              *)
WorkerFinishes(l) ==
  /\ pods[l] = "running"
  /\ worker[l] \in {"working", "cancelled"}
  /\ \E result \in {"succeeded", "failed"} : worker' = [worker EXCEPT ![l] = result]
  /\ UNCHANGED <<jobs, vault, call, pass, pods, faults>>

-----------------------------------------------------------------------------
QueueStep(c) ==
  \/ QueueRefreshed(c) \/ QueueStore(c) \/ QueueAssign(c) \/ QueueUnstore(c)
  \/ CreatePod(c) \/ CreateAnswered(c) \/ CreateUncertain(c)

ReconcileStep(c) ==
  \/ WorkerFound(c) \/ WorkerFoundTooLate(c) \/ WorkerNotFound(c)
  \/ CloseStopped(c) \/ ReadLeaseToken(c)
  \/ PreflightPasses(c) \/ PreflightRejects(c) \/ SubmitAccepted(c) \/ SubmitAnswerLost(c)
  \/ PollWorking(c) \/ PollFailed(c) \/ PollCancelled(c) \/ PollSucceeded(c)
  \/ Downloaded(c) \/ RegistrationFails(c)
  \/ Purged(c) \/ PurgeAnswerLost(c) \/ WorkerCallFails(c)

StopStep(c) ==
  \/ CancelWorker(c) \/ TerminatePod(c) \/ TerminateFails(c) \/ TerminateAnswerLost(c)
  \/ ForgetToken(c) \/ ForgetTokenFails(c)

(* A suspended call resumes.                                               *)
Resume(c) == \/ ReadTokens(c) \/ QueueStep(c) \/ ReconcileStep(c) \/ StopStep(c)
             \/ CallFails(c)

UserStep ==
  \E j \in Job :
    \/ ApproveJob(j)
    \/ \E i \in DOMAIN jobs[j].outputs :
         \E decision \in Decision : ReviewMedia(j, i, decision)
    \/ \E c \in Caller : QueueStart(c, j) \/ ReconcileByUser(c, j) \/ CancelStart(c, j)

TimerStep == TimerList \/ \E j \in Job : TimerReconcile(j)

ProviderStep ==
  \E l \in Lease : PodStarts(l) \/ PodExits(l) \/ PodForgotten(l) \/ WorkerFinishes(l)

Next == \/ UserStep
        \/ TimerStep
        \/ \E c \in Caller : Resume(c)
        \/ ProviderStep
        \/ Crash
        \/ CrashBetweenWrites

Spec == Init /\ [][Next]_vars

(* Every request has a timeout, so a suspended call always resumes; the    *)
(* interval timer always fires again.  Nothing is assumed of the user, of  *)
(* the worker or of the deadline inside it.                                *)
Fairness == /\ \A c \in Caller : WF_vars(Resume(c))
            /\ WF_vars(TimerStep)

FairSpec == Spec /\ Fairness

-----------------------------------------------------------------------------
(* What must hold.                                                         *)

StoppedPod == {"exited", "terminated", "gone"}

(* A Pod is only ever requested for a lease that is already durable, and   *)
(* on one job alone; and until the Pod has stopped that job is one the     *)
(* recovery timer lists, whichever call failed, half ended or was lost.    *)
NoPodIsLost ==
  \A l \in Lease : pods[l] # "absent" =>
    \E j \in Job : /\ \A i \in Job : jobs[i].workerLeaseId = l <=> i = j
                   /\ pods[l] \in StoppedPod \/ NeedsRecovery(jobs[j])

(* workerClosedAt is proof that the Pod no longer runs, on every path that *)
(* writes it (reconcileJob's five, cancelJob's one).                       *)
ClosedMeansStopped ==
  \A j \in Job : jobs[j].workerClosed => pods[jobs[j].workerLeaseId] \in StoppedPod

(* A job is recorded as terminated only after the provider confirmed it.   *)
TerminatedMeansStopped ==
  \A j \in Job : jobs[j].state = "terminated" =>
    pods[jobs[j].workerLeaseId] \in StoppedPod

(* What is recorded of a worker's end is true, whatever failed or came     *)
(* late: closed and terminated both mean that its Pod has stopped.         *)
RecordedMeansStopped == ClosedMeansStopped /\ TerminatedMeansStopped

(* While a worker may still do work for a job, the token that reaches it   *)
(* is in the vault.                                                        *)
LiveWorkerHasToken ==
  \A j \in Job :
    /\ jobs[j].state \in {"queued", "provisioning", "running", "downloading", "verifying"}
    /\ pods[jobs[j].workerLeaseId] \in {"requested", "running"}
    => jobs[j].workerLeaseId \in vault

(* Concurrent reconciliations never register an artifact twice, a job is   *)
(* shown for review only with every artifact, and succeeds only with every *)
(* artifact approved; and the worker's copies are deleted only after all   *)
(* of them are local.                                                      *)
OutputsAreWhole ==
  \A j \in Job :
    /\ Len(jobs[j].outputs) <= Artifacts
    /\ jobs[j].state \in {"awaiting-review", "succeeded"} =>
         Len(jobs[j].outputs) = Artifacts
    /\ jobs[j].state = "succeeded" => AllApproved(jobs[j])
    /\ \A l \in Lease : jobs[j].workerLeaseId = l /\ worker[l] = "purged" =>
         Len(jobs[j].outputs) = Artifacts

(* However many calls reconcile a job, at most one is fetching its outputs.*)
OneDownloader ==
  \A c, d \in Caller :
    /\ call[c].pc \in {"download", "purge"}
    /\ call[d].pc \in {"download", "purge"}
    /\ call[c].job = call[d].job
    => c = d

(* The identity the recovery works from is never replaced: a lease, a Pod  *)
(* id and the closing mark are written once, by whichever call came first. *)
IdentityIsPermanent ==
  [][\A j \in Job :
       /\ jobs[j].workerLeaseId # NoLease => jobs'[j].workerLeaseId = jobs[j].workerLeaseId
       /\ jobs[j].workerPodId # NoLease => jobs'[j].workerPodId = jobs[j].workerPodId
       /\ jobs[j].workerClosed => jobs'[j].workerClosed]_vars

(* The promise of LeaseAudit, read off the jobs and the provider.          *)
LeasesReserved == {jobs[j].workerLeaseId : j \in Job} \ {NoLease}
LeasesBilling  == {l \in Lease : pods[l] \in {"requested", "running"}}
LeasesEnded    == {l \in Lease : pods[l] \in StoppedPod}
LeasesClosed   == {l \in LeasesReserved :
                     \E j \in Job : jobs[j].workerLeaseId = l /\ jobs[j].workerClosed}

Audit == INSTANCE LeaseAudit WITH reserved <- LeasesReserved, billing <- LeasesBilling,
                                  ended <- LeasesEnded, closed <- LeasesClosed

(* Every step of every interleaving reserves, rents, ends or closes one    *)
(* lease as LeaseAudit allows, or does none of these.                      *)
ImplementsLeaseAudit == Audit!AuditSpec

(* No late answer moves a job out of a final state or takes back a review. *)
SettledIsFinal ==
  [][\A j \in Job :
       /\ jobs[j].state \in Terminal => jobs'[j].state = jobs[j].state
       /\ \A i \in DOMAIN jobs[j].outputs :
            /\ i \in DOMAIN jobs'[j].outputs
            /\ jobs[j].outputs[i] \in {"approved", "rejected"} =>
                 jobs'[j].outputs[i] = jobs[j].outputs[i]]_vars

(* A worker whose job no longer needs it, or that stopped by itself, is    *)
(* recorded as closed (or its job as terminated) by the recovery timer.    *)
WorkerIsReleased ==
  \A j \in Job :
    /\ jobs[j].workerPodId # NoLease
    /\ \/ jobs[j].state \in {"awaiting-review", "succeeded", "failed", "cancelled"}
       \/ jobs[j].state \in {"provisioning", "running"}
          /\ pods[jobs[j].workerPodId] \in StoppedPod
    ~> jobs[j].workerClosed \/ jobs[j].state = "terminated"

(* A Pod running under a job's open lease is eventually recorded on the    *)
(* job or stopped.                                                         *)
LeasedWorkerIsFound ==
  \A j \in Job : \A l \in Lease :
    jobs[j].workerLeaseId = l /\ pods[l] = "running"
      ~> jobs[j].workerPodId = l \/ pods[l] # "running"

(* A download that stopped half way is taken up again.                     *)
InterruptedDownloadResumes ==
  \A j \in Job :
    jobs[j].state \in {"downloading", "verifying"}
      ~> jobs[j].state \notin {"downloading", "verifying"}

(* A requested cancellation ends in a final state.                         *)
CancellationCompletes ==
  \A j \in Job :
    jobs[j].state = "cancel-requested" ~> jobs[j].state \in Terminal

(* The saved limit on concurrent GPUs bounds the Pods that run.            *)
WithinGpuLimit == Cardinality(RunningPods) <= MaxConcurrentGpus

(* A job the worker accepted is not left in provisioning.                  *)
AcceptedWorkIsRecorded ==
  \A j \in Job : \A l \in Lease :
    jobs[j].workerLeaseId = l /\ worker[l] = "working" /\ jobs[j].state = "provisioning"
      ~> jobs[j].state # "provisioning" \/ pods[l] # "running"
=============================================================================
