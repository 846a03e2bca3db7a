----------------------- MODULE WorkerLifecycle_proofs -----------------------
(***************************************************************************)
(* Safety of WorkerLifecycle for every number of jobs, leases, concurrent  *)
(* calls, artifacts and faults.                                            *)
(***************************************************************************)
EXTENDS WorkerLifecycle, FiniteSetTheorems, TLAPS

(* What a suspended call holds on to while it awaits the request in pc.    *)
DrawnAwait   == {"store", "storing", "assign"}
LeasedAwait  == Await \ {"idle", "refresh", "store", "storing", "assign",
                         "unstore", "unstoring"}
FoundAwait   == LeasedAwait \ {"create", "created", "lookup"}
StoppedAwait == {"closeStopped", "closing", "forget", "forgetting"}

EarlyState == {"planned", "estimated", "approved"}

(* One job record against the provider's Pods.                             *)
JobIsSound(r) ==
  /\ r.workerPodId \in {NoLease, r.workerLeaseId}
  /\ r.state \in EarlyState => r.workerLeaseId = NoLease
  /\ r.workerPodId # NoLease => pods[r.workerPodId] # "absent"
  /\ r.workerClosed \/ r.state = "terminated" =>
       r.workerLeaseId \in Lease /\ pods[r.workerLeaseId] \in StoppedPod

JobsAreSound == \A j \in Job : JobIsSound(jobs[j])

(* A lease belongs to one job, and a Pod to a leased job.                  *)
LeasesAreOwned ==
  /\ \A i, j \in Job : jobs[i].workerLeaseId = jobs[j].workerLeaseId
                         => i = j \/ jobs[i].workerLeaseId = NoLease
  /\ \A l \in Lease : pods[l] # "absent" => \E j \in Job : jobs[j].workerLeaseId = l

(* One suspended call against the jobs and the Pods.                       *)
CallIsSound(k) ==
  /\ k.pc # "idle" => k.job \in Job
  /\ k.pc \in DrawnAwait => /\ k.lease \in Lease
                            /\ \A j \in Job : jobs[j].workerLeaseId # k.lease
  /\ k.pc \in LeasedAwait => /\ k.lease \in Lease
                             /\ jobs[k.job].workerLeaseId = k.lease
  /\ k.pc \in FoundAwait => pods[k.lease] # "absent"
  /\ k.pc \in StoppedAwait => pods[k.lease] \in StoppedPod

CallsAreSound == \A c \in Caller : CallIsSound(call[c])

(* No two calls hold the same unreserved lease.                            *)
DrawsAreDistinct ==
  \A c, d \in Caller :
    /\ call[c].pc \in DrawnAwait
    /\ call[d].pc \in DrawnAwait
    /\ call[c].lease = call[d].lease
    => c = d

IInv == /\ TypeOK
        /\ JobsAreSound
        /\ LeasesAreOwned
        /\ CallsAreSound
        /\ DrawsAreDistinct

-----------------------------------------------------------------------------
(* The writes of ProductionJob, field by field.                            *)

(* Lease, Pod id and closing mark are as they were.                        *)
KeepsIdentity(r, s) ==
  /\ s.workerLeaseId = r.workerLeaseId
  /\ s.workerPodId = r.workerPodId
  /\ s.workerClosed = r.workerClosed

(* A move changes the state and nothing else.                              *)
LEMMA MovedFields ==
  ASSUME NEW r \in JobRecord, NEW s \in JobState
  PROVE  /\ Moved(r, s) \in JobRecord
         /\ KeepsIdentity(r, Moved(r, s))
         /\ Moved(r, s).state = s
         /\ Moved(r, s).outputs = r.outputs
  BY DEF JobRecord, Moved, KeepsIdentity

(* assignWorker writes the lease, reopens the record and queues the job.   *)
LEMMA AssignedFields ==
  ASSUME NEW r \in JobRecord, NEW l \in Lease
  PROVE  /\ Assigned(r, l) \in JobRecord
         /\ Assigned(r, l).state = "queued"
         /\ Assigned(r, l).workerLeaseId = l
         /\ Assigned(r, l).workerPodId = r.workerPodId
         /\ Assigned(r, l).workerClosed = FALSE
         /\ Assigned(r, l).outputs = r.outputs
  BY DEF JobRecord, Assigned, JobState

(* attachProviderPod writes the Pod id and moves to provisioning.          *)
LEMMA AttachedFields ==
  ASSUME NEW r \in JobRecord, NEW l \in Lease
  PROVE  /\ Attached(r, l) \in JobRecord
         /\ Attached(r, l).state = "provisioning"
         /\ Attached(r, l).workerLeaseId = r.workerLeaseId
         /\ Attached(r, l).workerPodId = l
         /\ Attached(r, l).workerClosed = r.workerClosed
         /\ Attached(r, l).outputs = r.outputs
  BY DEF JobRecord, Attached, JobState

(* markWorkerClosed sets the mark and keeps state and identity.            *)
LEMMA ClosedFields ==
  ASSUME NEW r \in JobRecord
  PROVE  /\ Closed(r) \in JobRecord
         /\ Closed(r).state = r.state
         /\ Closed(r).workerLeaseId = r.workerLeaseId
         /\ Closed(r).workerPodId = r.workerPodId
         /\ Closed(r).workerClosed = TRUE
         /\ Closed(r).outputs = r.outputs
  BY DEF JobRecord, Closed

(* recordRecoverableError changes the flag alone.                          *)
LEMMA RecoverableErrorFields ==
  ASSUME NEW r \in JobRecord
  PROVE  /\ WithRecoverableError(r) \in JobRecord
         /\ KeepsIdentity(r, WithRecoverableError(r))
         /\ WithRecoverableError(r).state = r.state
         /\ WithRecoverableError(r).outputs = r.outputs
  BY DEF JobRecord, WithRecoverableError, KeepsIdentity

(* registerGeneratedMedia appends one candidate.                           *)
LEMMA RegisteredFields ==
  ASSUME NEW r \in JobRecord
  PROVE  /\ Registered(r) \in JobRecord
         /\ KeepsIdentity(r, Registered(r))
         /\ Registered(r).state = r.state
  BY DEF JobRecord, Registered, KeepsIdentity, ReviewState

(* The first write of reviewMedia replaces one review state.               *)
LEMMA ReviewedFields ==
  ASSUME NEW r \in JobRecord, NEW i \in DOMAIN r.outputs,
         NEW d \in {"approved", "held", "rejected"}
  PROVE  /\ Reviewed(r, i, d) \in JobRecord
         /\ KeepsIdentity(r, Reviewed(r, i, d))
         /\ Reviewed(r, i, d).state = r.state
  BY DEF JobRecord, Reviewed, KeepsIdentity, ReviewState

(* Its second write leaves the job or completes it.                        *)
LEMMA SettledByReviewFields ==
  ASSUME NEW r \in JobRecord
  PROVE  /\ SettledByReview(r) \in JobRecord
         /\ KeepsIdentity(r, SettledByReview(r))
         /\ SettledByReview(r).state \in {r.state, "succeeded"}
  <1>1. "succeeded" \in JobState
    BY DEF JobState
  <1>. QED
    BY <1>1, MovedFields DEF SettledByReview, KeepsIdentity

(* transitionJob moves to a known state, and never out of a final one.     *)
LEMMA MovesStayInJobState ==
  ASSUME NEW r \in JobRecord, NEW s, CanMove(r, s)
  PROVE  s \in JobState /\ r.state \notin Terminal
  BY DEF JobRecord, CanMove, allowedTransitions, JobState, Terminal

-----------------------------------------------------------------------------
(* Progress common to all steps but the two of queueApprovedJob that draw  *)
(* and reserve a lease.                                                    *)

RecordAdvances(r, s) ==
  /\ s.workerLeaseId = r.workerLeaseId
  /\ \/ s.workerPodId = r.workerPodId
     \/ /\ s.workerPodId = r.workerLeaseId
        /\ s.workerPodId # NoLease => pods'[s.workerPodId] # "absent"
  /\ s.state \in EarlyState => r.state \in EarlyState
  /\ r.workerClosed => s.workerClosed
  /\ s.workerClosed \/ s.state = "terminated" =>
       \/ r.workerClosed \/ r.state = "terminated"
       \/ r.workerLeaseId \in Lease /\ pods'[r.workerLeaseId] \in StoppedPod

JobsAdvance == /\ jobs' \in [Job -> JobRecord]
               /\ \A j \in Job : RecordAdvances(jobs[j], jobs'[j])

PodsAdvance ==
  /\ pods' \in [Lease -> PodState]
  /\ \A l \in Lease :
       /\ pods[l] # "absent" => pods'[l] # "absent"
       /\ pods[l] \in StoppedPod => pods'[l] \in StoppedPod
       /\ pods'[l] # "absent" =>
            pods[l] # "absent" \/ \E j \in Job : jobs[j].workerLeaseId = l

CallAdvances(c) ==
  \/ call'[c] = call[c]
  \/ /\ CallIsSound(call[c])'
     /\ call'[c].pc \in DrawnAwait =>
          call[c].pc \in DrawnAwait /\ call'[c].lease = call[c].lease

CallsAdvance == /\ call' \in [Caller -> Call]
                /\ \A c \in Caller : CallAdvances(c)

OthersTyped == /\ vault' \subseteq Lease
               /\ pass' \subseteq Job
               /\ worker' \in [Lease -> WorkerState]
               /\ faults' \in 0..MaxFaults

Advance == JobsAdvance /\ PodsAdvance /\ CallsAdvance /\ OthersTyped

(* Such a step keeps the invariant.                                        *)
LEMMA AdvanceKeepsInvariant ==
  ASSUME IInv, Advance
  PROVE  IInv'
  <1>. USE DEF IInv, Advance
  <1>0. TypeOK'
    BY DEF TypeOK, JobsAdvance, PodsAdvance, CallsAdvance, OthersTyped
  <1>1. JobsAreSound'
    <2>. SUFFICES ASSUME NEW j \in Job
                  PROVE  JobIsSound(jobs[j])'
      BY DEF JobsAreSound
    <2>1. /\ JobIsSound(jobs[j])
          /\ RecordAdvances(jobs[j], jobs'[j])
          /\ jobs[j] \in JobRecord
          /\ jobs'[j] \in JobRecord
      BY DEF JobsAreSound, JobsAdvance, TypeOK
    <2>. QED
      BY <2>1, LeaseAssumption DEF JobIsSound, RecordAdvances, PodsAdvance, JobRecord
  <1>2. LeasesAreOwned'
    BY DEF LeasesAreOwned, JobsAdvance, RecordAdvances, PodsAdvance
  <1>3. CallsAreSound'
    <2>. SUFFICES ASSUME NEW c \in Caller
                  PROVE  CallIsSound(call[c])'
      BY DEF CallsAreSound
    <2>1. CASE call'[c] = call[c]
      <3>1. CallIsSound(call[c])
        BY DEF CallsAreSound
      <3>2. \A j \in Job : jobs'[j].workerLeaseId = jobs[j].workerLeaseId
        BY DEF JobsAdvance, RecordAdvances
      <3>. QED
        BY <2>1, <3>1, <3>2 DEF CallIsSound, PodsAdvance, LeasedAwait, FoundAwait, StoppedAwait, Await
    <2>. QED
      BY <2>1 DEF CallsAdvance, CallAdvances
  <1>4. DrawsAreDistinct'
    BY DEF DrawsAreDistinct, CallsAdvance, CallAdvances
  <1>. QED
    BY <1>0, <1>1, <1>2, <1>3, <1>4

(* The shapes of a step: one job is written, by a call or not; none is;    *)
(* the provider is untouched; no call changes; a call returns.             *)
LEMMA WriteAdvances ==
  ASSUME TypeOK, NEW j \in Job, NEW r \in JobRecord,
         jobs' = [jobs EXCEPT ![j] = r], RecordAdvances(jobs[j], r)
  PROVE  JobsAdvance
  BY DEF TypeOK, JobsAdvance, RecordAdvances

(* A call writes the job it works on.                                      *)
LEMMA SaveAdvances ==
  ASSUME TypeOK, NEW c \in Caller, call[c].job \in Job, NEW r \in JobRecord,
         Save(c, r), RecordAdvances(JobOf(c), r)
  PROVE  JobsAdvance
  BY WriteAdvances DEF Save, JobOf

(* No job is written.                                                      *)
LEMMA SameJobsAdvance ==
  ASSUME TypeOK, jobs' = jobs
  PROVE  JobsAdvance
  BY DEF TypeOK, JobsAdvance, RecordAdvances

(* The provider does nothing.                                              *)
LEMMA SamePodsAdvance ==
  ASSUME TypeOK, pods' = pods
  PROVE  PodsAdvance
  BY DEF TypeOK, PodsAdvance

(* No call is started, resumed or ended.                                   *)
LEMMA SameCallsAdvance ==
  ASSUME TypeOK, call' = call
  PROVE  CallsAdvance
  BY DEF TypeOK, CallsAdvance, CallAdvances

(* NoCall is a call that holds nothing.                                    *)
LEMMA NoCallIsIdle ==
  /\ NoCall \in Call
  /\ NoCall.pc = "idle"
  BY DEF NoCall, Call, Await, JobState, Reason

(* An idle call is sound.                                                  *)
LEMMA IdleIsSound ==
  ASSUME NEW c \in Caller, call'[c].pc = "idle"
  PROVE  CallIsSound(call[c])' /\ call'[c].pc \notin DrawnAwait
  BY DEF CallIsSound, DrawnAwait, LeasedAwait, FoundAwait, StoppedAwait

(* The call that took the step ends.                                       *)
LEMMA ReturnAdvances ==
  ASSUME TypeOK, NEW c \in Caller, Return(c)
  PROVE  CallsAdvance
  <1>1. /\ call' \in [Caller -> Call]
        /\ call'[c] = NoCall
        /\ \A d \in Caller : d # c => call'[d] = call[d]
    BY NoCallIsIdle DEF TypeOK, Return
  <1>2. CallAdvances(c)
    BY <1>1, NoCallIsIdle, IdleIsSound DEF CallAdvances
  <1>. QED
    BY <1>1, <1>2 DEF CallsAdvance, CallAdvances

(* A save, and an attach, of the record the call works on.                 *)
LEMMA KeepingAdvances ==
  ASSUME NEW r, NEW s, KeepsIdentity(r, s),
         s.state \notin EarlyState \cup {"terminated"} \/ s.state = r.state
  PROVE  RecordAdvances(r, s)
  BY DEF KeepsIdentity, RecordAdvances

(* What holds of a call in progress.                                       *)
LEMMA CallContext ==
  ASSUME IInv, NEW c \in Caller, call[c].pc # "idle"
  PROVE  /\ TypeOK
         /\ call[c] \in Call
         /\ call[c].job \in Job
         /\ JobOf(c) \in JobRecord
         /\ JobIsSound(JobOf(c))
         /\ CallIsSound(call[c])
  BY DEF IInv, TypeOK, CallsAreSound, CallIsSound, JobsAreSound, JobOf

(* A fault keeps the count within its bound.                               *)
LEMMA FaultTyped ==
  ASSUME TypeOK, Fault \/ faults' = faults
  PROVE  faults' \in 0..MaxFaults
  BY WorkerLifecycleAssumption DEF TypeOK, Fault

(* A move to a state that is neither early nor terminated.                 *)
LEMMA MovedAdvances ==
  ASSUME NEW r \in JobRecord, NEW s \in JobState \ (EarlyState \cup {"terminated"})
  PROVE  Moved(r, s) \in JobRecord /\ RecordAdvances(r, Moved(r, s))
  BY MovedFields, KeepingAdvances

(* A recorded error.                                                       *)
LEMMA ErrorAdvances ==
  ASSUME NEW r \in JobRecord
  PROVE  /\ WithRecoverableError(r) \in JobRecord
         /\ RecordAdvances(r, WithRecoverableError(r))
  BY RecoverableErrorFields, KeepingAdvances

(* An attached Pod that the provider has started.                          *)
LEMMA AttachedAdvances ==
  ASSUME NEW r \in JobRecord, r.workerLeaseId \in Lease,
         pods'[r.workerLeaseId] # "absent"
  PROVE  /\ Attached(r, r.workerLeaseId) \in JobRecord
         /\ RecordAdvances(r, Attached(r, r.workerLeaseId))
  BY AttachedFields DEF RecordAdvances, EarlyState

(* The records written at the end of a stop sequence, its Pod stopped.     *)
LEMMA ClosedAdvances ==
  ASSUME NEW r \in JobRecord, r.workerLeaseId \in Lease,
         pods'[r.workerLeaseId] \in StoppedPod,
         NEW s \in {Closed(r), Moved(r, "terminated"), Closed(Moved(r, "terminated")),
                    Moved(Closed(r), "terminated")}
  PROVE  s \in JobRecord /\ RecordAdvances(r, s)
  <1>1. "terminated" \in JobState \ EarlyState
    BY DEF JobState, EarlyState
  <1>2. /\ Moved(r, "terminated") \in JobRecord
        /\ Closed(r) \in JobRecord
    BY <1>1, MovedFields, ClosedFields
  <1>3. /\ s \in JobRecord
        /\ s.workerLeaseId = r.workerLeaseId
        /\ s.workerPodId = r.workerPodId
        /\ s.state \in {r.state, "terminated"}
        /\ r.workerClosed => s.workerClosed
    <2>1. CASE s = Closed(r)
      BY <2>1, ClosedFields
    <2>2. CASE s = Moved(r, "terminated")
      BY <2>2, <1>1, MovedFields DEF KeepsIdentity
    <2>3. CASE s = Closed(Moved(r, "terminated"))
      BY <2>3, <1>1, <1>2, MovedFields, ClosedFields DEF KeepsIdentity
    <2>4. CASE s = Moved(Closed(r), "terminated")
      BY <2>4, <1>1, <1>2, MovedFields, ClosedFields DEF KeepsIdentity
    <2>. QED
      BY <2>1, <2>2, <2>3, <2>4
  <1>. QED
    BY <1>1, <1>3 DEF RecordAdvances

(* The call that took the step awaits another request on the same lease.   *)
LEMMA AwaitAdvances ==
  ASSUME IInv, JobsAdvance, NEW c \in Caller, call[c].pc \in LeasedAwait,
         call' \in [Caller -> Call], \A d \in Caller : d # c => call'[d] = call[d],
         call'[c].job = call[c].job, call'[c].lease = call[c].lease,
         call'[c].pc \in LeasedAwait,
         call'[c].pc \in FoundAwait => pods'[call[c].lease] # "absent",
         call'[c].pc \in StoppedAwait => pods'[call[c].lease] \in StoppedPod
  PROVE  CallsAdvance
  <1>1. CallIsSound(call[c]) /\ call[c].pc # "idle" /\ call[c].job \in Job
    BY CallContext DEF LeasedAwait
  <1>2. CallIsSound(call[c])' /\ call'[c].pc \notin DrawnAwait
    BY <1>1 DEF CallIsSound, JobsAdvance, RecordAdvances, LeasedAwait, DrawnAwait
  <1>. QED
    BY <1>2 DEF CallsAdvance, CallAdvances

-----------------------------------------------------------------------------
(* The vault.                                                              *)

(* A map written back holds leases only.                                   *)
LEMMA TokensTyped ==
  ASSUME TypeOK, NEW c \in Caller,
         \/ TokenRemoved(c)
         \/ TokenStored(c) /\ call[c].lease \in Lease
         \/ vault' = vault
  PROVE  vault' \subseteq Lease
  <1>1. call[c].map \subseteq Lease
    BY DEF TypeOK, Call
  <1>. QED
    BY <1>1 DEF TypeOK, TokenRemoved, TokenStored

(* The map is read; what the call holds on to stays with it.               *)
LEMMA ReadTokensAdvances ==
  ASSUME IInv, NEW c \in Caller, ReadTokens(c)
  PROVE  Advance
  <1>1. /\ TypeOK /\ CallIsSound(call[c]) /\ call[c] \in Call
        /\ call[c].pc \in {"store", "unstore", "closeStopped", "forget"}
    BY CallContext DEF ReadTokens, TokenWrite
  <1>2. JobsAdvance /\ PodsAdvance
    BY <1>1, SameJobsAdvance, SamePodsAdvance DEF ReadTokens, environment
  <1>3. /\ call' \in [Caller -> Call]
        /\ \A d \in Caller : d # c => call'[d] = call[d]
        /\ call'[c].job = call[c].job /\ call'[c].lease = call[c].lease
        /\ call'[c].pc = TokenWrite[call[c].pc]
    <2>1. TokenWrite[call[c].pc] \in Await
      BY <1>1 DEF TokenWrite, Await
    <2>2. /\ call[c].pc \in {"store", "unstore", "closeStopped", "forget"}
          /\ call' = [call EXCEPT ![c].pc = TokenWrite[call[c].pc], ![c].map = vault]
      BY <1>1 DEF ReadTokens
    <2>. QED
      BY <1>1, <2>1, <2>2 DEF TypeOK, Call
  <1>4. CallsAdvance
    <2>1. CASE call[c].pc = "store"
      BY <1>1, <1>3, <2>1
         DEF ReadTokens, TokenWrite, CallsAdvance, CallAdvances, CallIsSound,
             DrawnAwait, LeasedAwait, FoundAwait, StoppedAwait
    <2>2. CASE call[c].pc = "unstore"
      BY <1>1, <1>3, <2>2
         DEF TokenWrite, CallsAdvance, CallAdvances, CallIsSound,
             DrawnAwait, LeasedAwait, FoundAwait, StoppedAwait
    <2>3. CASE call[c].pc \in {"closeStopped", "forget"}
      <3>1. call'[c].pc \in {"closing", "forgetting"}
        BY <1>3, <2>3 DEF TokenWrite
      <3>2. pods'[call[c].lease] # "absent" /\ pods'[call[c].lease] \in StoppedPod
        BY <2>3, <1>1 DEF ReadTokens, environment, CallIsSound, StoppedAwait, StoppedPod
      <3>. QED
        BY <1>2, <1>3, <2>3, <3>1, <3>2, AwaitAdvances DEF LeasedAwait, Await
    <2>. QED
      BY <1>1, <2>1, <2>2, <2>3
  <1>5. OthersTyped
    BY <1>1 DEF ReadTokens, TypeOK, OthersTyped, environment
  <1>. QED
    BY <1>2, <1>4, <1>5 DEF Advance

-----------------------------------------------------------------------------
(* queueApprovedJob.                                                       *)

(* The token is stored.                                                    *)
LEMMA QueueStoreAdvances ==
  ASSUME IInv, NEW c \in Caller, QueueStore(c)
  PROVE  Advance
  <1>1. call[c].pc = "storing" /\ TypeOK /\ CallIsSound(call[c]) /\ call[c] \in Call
    BY CallContext DEF QueueStore, At
  <1>2. JobsAdvance /\ PodsAdvance
    BY <1>1, SameJobsAdvance, SamePodsAdvance DEF QueueStore, environment
  <1>3. CallsAdvance
    BY <1>1 DEF QueueStore, TypeOK, Call, Await, CallsAdvance, CallAdvances,
                CallIsSound, DrawnAwait, LeasedAwait, FoundAwait, StoppedAwait
  <1>4. OthersTyped
    BY <1>1, TokensTyped DEF QueueStore, TypeOK, OthersTyped, environment, CallIsSound, DrawnAwait
  <1>. QED
    BY <1>2, <1>3, <1>4 DEF Advance

(* The token of a lease that was never reserved is dropped.                *)
LEMMA QueueUnstoreAdvances ==
  ASSUME IInv, NEW c \in Caller, QueueUnstore(c)
  PROVE  Advance
  <1>1. TypeOK
    BY DEF IInv
  <1>2. JobsAdvance /\ PodsAdvance /\ CallsAdvance
    BY <1>1, SameJobsAdvance, SamePodsAdvance, ReturnAdvances DEF QueueUnstore, environment
  <1>3. OthersTyped
    BY <1>1, TokensTyped DEF QueueUnstore, TypeOK, OthersTyped, environment
  <1>. QED
    BY <1>2, <1>3 DEF Advance

(* A Pod is requested only under the lease its job owns.                   *)
LEMMA CreatePodAdvances ==
  ASSUME IInv, NEW c \in Caller, CreatePod(c)
  PROVE  Advance
  <1>1. /\ call[c].pc = "create" /\ TypeOK /\ CallIsSound(call[c]) /\ call[c] \in Call
        /\ call[c].job \in Job
    BY CallContext DEF CreatePod, At
  <1>2. call[c].lease \in Lease /\ jobs[call[c].job].workerLeaseId = call[c].lease
    BY <1>1 DEF CallIsSound, LeasedAwait, Await
  <1>3. JobsAdvance
    BY <1>1, SameJobsAdvance DEF CreatePod
  <1>4. PodsAdvance
    BY <1>1, <1>2 DEF CreatePod, TypeOK, PodsAdvance, PodState, StoppedPod
  <1>5. CallsAdvance
    BY <1>1, <1>2 DEF CreatePod, AwaitNext, TypeOK, Call, Await, CallsAdvance, CallAdvances,
                CallIsSound, DrawnAwait, LeasedAwait, FoundAwait, StoppedAwait
  <1>6. OthersTyped
    BY <1>1 DEF CreatePod, TypeOK, OthersTyped
  <1>. QED
    BY <1>3, <1>4, <1>5, <1>6 DEF Advance

(* The Pod is attached, or the refusal recorded.                           *)
LEMMA CreateAnsweredAdvances ==
  ASSUME IInv, NEW c \in Caller, CreateAnswered(c)
  PROVE  Advance
  <1>1. /\ call[c].pc = "created" /\ TypeOK /\ CallIsSound(call[c]) /\ call[c] \in Call
        /\ call[c].job \in Job /\ JobOf(c) \in JobRecord
    BY CallContext DEF CreateAnswered, At
  <1>2. /\ call[c].lease \in Lease
        /\ JobOf(c).workerLeaseId = call[c].lease
        /\ pods'[call[c].lease] # "absent"
    BY <1>1 DEF CallIsSound, LeasedAwait, Await, JobOf, CreateAnswered, Listed, PodOf, environment
  <1>3. JobsAdvance
    BY <1>1, <1>2, AttachedAdvances, ErrorAdvances, SaveAdvances DEF CreateAnswered
  <1>4. PodsAdvance /\ CallsAdvance
    BY <1>1, SamePodsAdvance, ReturnAdvances DEF CreateAnswered, environment
  <1>5. OthersTyped
    BY <1>1 DEF CreateAnswered, TypeOK, OthersTyped, environment
  <1>. QED
    BY <1>3, <1>4, <1>5 DEF Advance

-----------------------------------------------------------------------------
(* reconcileJob.                                                           *)

(* A call starts on a leased job.                                          *)
LEMMA ReconcileStartAdvances ==
  ASSUME IInv, NEW c \in Caller, NEW j \in Job, ReconcileStart(c, j), jobs' = jobs
  PROVE  CallsAdvance
  <1>1. TypeOK /\ jobs[j] \in JobRecord
    BY DEF IInv, TypeOK
  <1>2. /\ call' \in [Caller -> Call]
        /\ \A d \in Caller : d # c => call'[d] = call[d]
        /\ call'[c].pc = "lookup"
        /\ call'[c].job = j
        /\ call'[c].lease = jobs[j].workerLeaseId
    BY <1>1, NoCallIsIdle DEF ReconcileStart, TypeOK, Call, Await, JobRecord
  <1>3. call'[c].lease \in Lease
    BY <1>1, <1>2 DEF ReconcileStart, JobRecord
  <1>4. CallAdvances(c)
    BY <1>2, <1>3 DEF CallAdvances, CallIsSound, DrawnAwait, LeasedAwait, FoundAwait, StoppedAwait
  <1>. QED
    BY <1>2, <1>4 DEF CallsAdvance, CallAdvances

(* Either way of starting one.                                             *)
LEMMA ReconcilesAdvance ==
  ASSUME IInv, NEW j \in Job,
         TimerReconcile(j) \/ \E c \in Caller : ReconcileByUser(c, j)
  PROVE  Advance
  <1>1. TypeOK
    BY DEF IInv
  <1>2. JobsAdvance /\ PodsAdvance
    BY <1>1, SameJobsAdvance, SamePodsAdvance DEF TimerReconcile, ReconcileByUser, environment
  <1>3. CallsAdvance
    BY ReconcileStartAdvances, WorkerLifecycleAssumption DEF TimerReconcile, ReconcileByUser
  <1>4. OthersTyped
    BY <1>1 DEF TimerReconcile, ReconcileByUser, TypeOK, OthersTyped, environment
  <1>. QED
    BY <1>2, <1>3, <1>4 DEF Advance

(* The timer makes its list.                                               *)
LEMMA TimerListAdvances ==
  ASSUME IInv, TimerList
  PROVE  Advance
  <1>1. TypeOK
    BY DEF IInv
  <1>2. JobsAdvance /\ PodsAdvance /\ CallsAdvance
    BY <1>1, SameJobsAdvance, SamePodsAdvance, SameCallsAdvance DEF TimerList, environment
  <1>3. OthersTyped
    BY <1>1 DEF TimerList, TypeOK, OthersTyped, environment
  <1>. QED
    BY <1>2, <1>3 DEF Advance

(* The worker is found and, if it was unknown, attached.                   *)
LEMMA WorkerFoundAdvances ==
  ASSUME IInv, NEW c \in Caller, WorkerFound(c)
  PROVE  Advance
  <1>1. /\ call[c].pc = "lookup" /\ TypeOK /\ CallIsSound(call[c]) /\ call[c] \in Call
        /\ call[c].job \in Job /\ JobOf(c) \in JobRecord
    BY CallContext DEF WorkerFound, At
  <1>2. /\ call[c].lease \in Lease
        /\ JobOf(c).workerLeaseId = call[c].lease
        /\ pods' = pods
        /\ pods[call[c].lease] \in {"running", "exited", "terminated"}
    BY <1>1 DEF CallIsSound, LeasedAwait, Await, JobOf, WorkerFound, Listed, PodOf, environment
  <1>. DEFINE record == IF call[c].pod = NoLease THEN Attached(JobOf(c), call[c].lease)
                                                 ELSE JobOf(c)
  <1>3. record \in JobRecord /\ Save(c, record)
    BY <1>1, <1>2, AttachedFields DEF WorkerFound
  <1>4. PICK seen \in JobState :
          call' = [call EXCEPT
            ![c].seen = seen,
            ![c].pc  = CASE PodOf(c) # "running" -> "closeStopped"
                         [] PodOf(c) = "running" /\ seen \in Settled -> "terminate"
                         [] OTHER -> "token",
            ![c].why = IF PodOf(c) = "running" /\ seen \in Settled
                       THEN "settled" ELSE "none"]
    <2>1. record.state \in JobState /\ call[c].seen \in JobState
      BY <1>1, <1>3 DEF JobRecord, Call
    <2>. QED
      BY <2>1 DEF WorkerFound
  <1>5. JobsAdvance
    <2>1. RecordAdvances(JobOf(c), record)
      BY <1>1, <1>2, <1>3, AttachedAdvances, KeepingAdvances DEF KeepsIdentity
    <2>. QED
      BY <1>1, <1>3, <2>1, SaveAdvances
  <1>6. PodsAdvance
    BY <1>1, <1>2, SamePodsAdvance
  <1>4x. CallsAdvance
    <2>1. /\ call' \in [Caller -> Call]
          /\ \A d \in Caller : d # c => call'[d] = call[d]
          /\ call'[c].job = call[c].job /\ call'[c].lease = call[c].lease
          /\ call'[c].pc \in {"closeStopped", "terminate", "token"}
          /\ call'[c].pc = "closeStopped" => PodOf(c) # "running"
      BY <1>1, <1>4 DEF TypeOK, Call, Await, Reason
    <2>. QED
      BY <1>1, <1>2, <1>5, <2>1, AwaitAdvances
         DEF LeasedAwait, FoundAwait, StoppedAwait, Await, PodOf, StoppedPod
  <1>8. OthersTyped
    BY <1>1 DEF WorkerFound, TypeOK, OthersTyped, environment
  <1>. QED
    BY <1>5, <1>6, <1>4x, <1>8 DEF Advance

(* A call ends with nothing written.                                       *)
LEMMA SilentEndAdvances ==
  ASSUME IInv, NEW c \in Caller, WorkerFoundTooLate(c) \/ CallFails(c)
  PROVE  Advance
  <1>1. TypeOK
    BY DEF IInv
  <1>2. JobsAdvance /\ PodsAdvance /\ CallsAdvance
    BY <1>1, SameJobsAdvance, SamePodsAdvance, ReturnAdvances
       DEF WorkerFoundTooLate, CallFails, environment
  <1>3. OthersTyped
    BY <1>1, FaultTyped DEF WorkerFoundTooLate, CallFails, FailureIf, TypeOK, OthersTyped, environment
  <1>. QED
    BY <1>2, <1>3 DEF Advance

(* A call ends with a recorded error.                                      *)
LEMMA ErrorEndAdvances ==
  ASSUME IInv, NEW c \in Caller,
         \/ CreateUncertain(c) \/ WorkerNotFound(c) \/ SubmitAnswerLost(c)
         \/ PurgeAnswerLost(c) \/ WorkerCallFails(c)
  PROVE  Advance
  <1>. USE DEF CreateUncertain, WorkerNotFound, SubmitAnswerLost, PurgeAnswerLost, WorkerCallFails
  <1>1. TypeOK /\ call[c].job \in Job /\ JobOf(c) \in JobRecord
    BY CallContext DEF At
  <1>2. JobsAdvance
    BY <1>1, ErrorAdvances, SaveAdvances
  <1>3. PodsAdvance /\ CallsAdvance
    BY <1>1, SamePodsAdvance, ReturnAdvances DEF environment
  <1>4. OthersTyped
    <2>1. faults' \in 0..MaxFaults
      BY <1>1, FaultTyped DEF FailureIf
    <2>2. worker' \in [Lease -> WorkerState]
      BY <1>1 DEF TypeOK, Accepting, WorkerState, environment
    <2>. QED
      BY <1>1, <2>1, <2>2 DEF TypeOK, OthersTyped
  <1>. QED
    BY <1>2, <1>3, <1>4 DEF Advance

(* A stopped Pod is recorded as closed.                                    *)
LEMMA CloseStoppedAdvances ==
  ASSUME IInv, NEW c \in Caller, CloseStopped(c)
  PROVE  Advance
  <1>1. /\ call[c].pc = "closing" /\ TypeOK /\ CallIsSound(call[c])
        /\ call[c].job \in Job /\ JobOf(c) \in JobRecord
    BY CallContext DEF CloseStopped, At
  <1>2. /\ JobOf(c).workerLeaseId \in Lease
        /\ pods' = pods
        /\ pods'[JobOf(c).workerLeaseId] \in StoppedPod
    BY <1>1 DEF CallIsSound, LeasedAwait, StoppedAwait, Await, JobOf, CloseStopped, environment
  <1>3. \/ jobs' = jobs
        \/ Save(c, Closed(JobOf(c)))
        \/ Save(c, Closed(Moved(JobOf(c), "terminated")))
    BY DEF CloseStopped
  <1>4. JobsAdvance
    BY <1>1, <1>2, <1>3, ClosedAdvances, SaveAdvances, SameJobsAdvance
  <1>5. PodsAdvance /\ CallsAdvance
    BY <1>1, <1>2, SamePodsAdvance, ReturnAdvances DEF CloseStopped
  <1>6. OthersTyped
    BY <1>1, FaultTyped, TokensTyped DEF CloseStopped, TypeOK, OthersTyped, environment
  <1>. QED
    BY <1>4, <1>5, <1>6 DEF Advance

(* The token is read, and the worker's preflight answers.                  *)
LEMMA PreflightAdvances ==
  ASSUME IInv, NEW c \in Caller,
         ReadLeaseToken(c) \/ PreflightPasses(c) \/ PreflightRejects(c)
  PROVE  Advance
  <1>. USE DEF ReadLeaseToken, PreflightPasses, PreflightRejects
  <1>1. /\ call[c].pc \in {"token", "preflight"} /\ TypeOK /\ CallIsSound(call[c])
        /\ call[c] \in Call
    BY CallContext DEF At
  <1>2. JobsAdvance /\ PodsAdvance
    BY <1>1, SameJobsAdvance, SamePodsAdvance DEF environment
  <1>3. CallsAdvance
    <2>1. CASE Return(c)
      BY <1>1, <2>1, ReturnAdvances
    <2>2. CASE \E a \in {"preflight", "poll", "submit", "terminate"}, w \in Reason :
                 \/ call' = [call EXCEPT ![c].pc = a]
                 \/ call' = [call EXCEPT ![c].pc = a, ![c].why = w]
      <3>1. /\ call' \in [Caller -> Call]
            /\ \A d \in Caller : d # c => call'[d] = call[d]
            /\ call'[c].job = call[c].job /\ call'[c].lease = call[c].lease
            /\ call'[c].pc \in {"preflight", "poll", "submit", "terminate"}
        BY <1>1, <2>2 DEF TypeOK, Call, Await
      <3>. QED
        BY <1>1, <1>2, <3>1, AwaitAdvances
           DEF CallIsSound, LeasedAwait, FoundAwait, StoppedAwait, Await, environment
    <2>. QED
      BY <2>1, <2>2 DEF AwaitNext, AwaitStop, Reason
  <1>4. OthersTyped
    BY <1>1 DEF TypeOK, OthersTyped, environment
  <1>. QED
    BY <1>2, <1>3, <1>4 DEF Advance

(* A call on a found worker awaits another request on it.                  *)
LEMMA GoesOnAdvances ==
  ASSUME IInv, JobsAdvance, PodsAdvance, NEW c \in Caller, call[c].pc \in FoundAwait,
         NEW a \in FoundAwait \ StoppedAwait, NEW w \in Reason, NEW n \in Nat,
         \/ call' = [call EXCEPT ![c].pc = a]
         \/ call' = [call EXCEPT ![c].pc = a, ![c].why = w]
         \/ call' = [call EXCEPT ![c].next = n, ![c].pc = a]
  PROVE  CallsAdvance
  <1>1. TypeOK /\ CallIsSound(call[c]) /\ call[c].pc \in LeasedAwait
    BY CallContext DEF FoundAwait, LeasedAwait
  <1>2. /\ call' \in [Caller -> Call]
        /\ \A d \in Caller : d # c => call'[d] = call[d]
        /\ call'[c].job = call[c].job /\ call'[c].lease = call[c].lease
        /\ call'[c].pc = a
    BY <1>1 DEF TypeOK, Call, FoundAwait, LeasedAwait
  <1>3. pods'[call[c].lease] # "absent"
    BY <1>1 DEF CallIsSound, PodsAdvance
  <1>. QED
    BY <1>1, <1>2, <1>3, AwaitAdvances DEF FoundAwait

(* POST /v1/jobs is answered.                                              *)
LEMMA SubmitAcceptedAdvances ==
  ASSUME IInv, NEW c \in Caller, SubmitAccepted(c)
  PROVE  Advance
  <1>1. TypeOK /\ call[c].job \in Job /\ JobOf(c) \in JobRecord
    BY CallContext DEF SubmitAccepted, At
  <1>2. "running" \in JobState \ (EarlyState \cup {"terminated"})
    BY DEF JobState, EarlyState
  <1>3. JobsAdvance
    BY <1>1, <1>2, MovedAdvances, SaveAdvances, SameJobsAdvance DEF SubmitAccepted
  <1>4. PodsAdvance /\ CallsAdvance
    BY <1>1, SamePodsAdvance, ReturnAdvances DEF SubmitAccepted
  <1>5. OthersTyped
    BY <1>1 DEF SubmitAccepted, Accepting, WorkerState, TypeOK, OthersTyped
  <1>. QED
    BY <1>3, <1>4, <1>5 DEF Advance

(* GET /v1/jobs/{id} is answered.                                          *)
LEMMA PollAdvances ==
  ASSUME IInv, NEW c \in Caller,
         PollWorking(c) \/ PollFailed(c) \/ PollCancelled(c) \/ PollSucceeded(c)
  PROVE  Advance
  <1>. USE DEF PollWorking, PollFailed, PollCancelled, PollSucceeded, Polls
  <1>1. /\ TypeOK /\ call[c].job \in Job /\ JobOf(c) \in JobRecord
        /\ call[c].pc = "poll"
    BY CallContext DEF At
  <1>2. {"failed", "cancelled", "downloading"} \subseteq JobState \ (EarlyState \cup {"terminated"})
    BY DEF JobState, EarlyState
  <1>3. JobsAdvance
    BY <1>1, <1>2, MovedAdvances, SaveAdvances, SameJobsAdvance
  <1>4. PodsAdvance
    BY <1>1, SamePodsAdvance DEF environment
  <1>5. CallsAdvance
    <2>1. CASE Return(c)
      BY <1>1, <2>1, ReturnAdvances
    <2>2. CASE AwaitStop(c, "terminate", "failed") \/ AwaitNext(c, "download")
      BY <1>1, <1>3, <1>4, <2>2, GoesOnAdvances
         DEF AwaitNext, AwaitStop, Reason, FoundAwait, LeasedAwait, StoppedAwait, Await
    <2>. QED
      BY <2>1, <2>2
  <1>6. OthersTyped
    BY <1>1 DEF TypeOK, OthersTyped, environment
  <1>. QED
    BY <1>3, <1>4, <1>5, <1>6 DEF Advance

(* An artifact arrives and is registered.                                  *)
LEMMA DownloadedAdvances ==
  ASSUME IInv, NEW c \in Caller, Downloaded(c)
  PROVE  Advance
  <1>1. /\ TypeOK /\ call[c].job \in Job /\ JobOf(c) \in JobRecord
        /\ call[c].pc = "download" /\ call[c] \in Call
    BY CallContext DEF Downloaded, At
  <1>. DEFINE record == IF call[c].next = 0 THEN Moved(JobOf(c), "verifying") ELSE JobOf(c)
  <1>2. \/ jobs' = jobs /\ Return(c)
        \/ /\ Save(c, Registered(record))
           /\ call' = [call EXCEPT
                ![c].next = @ + 1,
                ![c].pc = IF call[c].next + 1 = Artifacts THEN "purge" ELSE "download"]
    BY DEF Downloaded
  <1>3. JobsAdvance
    <2>1. "verifying" \in JobState \ (EarlyState \cup {"terminated"})
      BY DEF JobState, EarlyState
    <2>2. /\ record \in JobRecord
          /\ KeepsIdentity(JobOf(c), record)
          /\ record.state \in {JobOf(c).state, "verifying"}
      BY <1>1, <2>1, MovedFields DEF KeepsIdentity
    <2>3. /\ Registered(record) \in JobRecord
          /\ KeepsIdentity(JobOf(c), Registered(record))
          /\ Registered(record).state \in {JobOf(c).state, "verifying"}
      BY <2>2, RegisteredFields DEF KeepsIdentity
    <2>4. RecordAdvances(JobOf(c), Registered(record))
      BY <2>1, <2>3, KeepingAdvances
    <2>. QED
      BY <1>1, <1>2, <2>3, <2>4, SaveAdvances, SameJobsAdvance
  <1>4. PodsAdvance
    BY <1>1, SamePodsAdvance DEF Downloaded, environment
  <1>5. CallsAdvance
    <2>1. CASE Return(c)
      BY <1>1, <2>1, ReturnAdvances
    <2>2. CASE \E a \in {"purge", "download"}, n \in Nat :
                 call' = [call EXCEPT ![c].next = n, ![c].pc = a]
      BY <1>1, <1>3, <1>4, <2>2, GoesOnAdvances
         DEF Reason, FoundAwait, LeasedAwait, StoppedAwait, Await
    <2>3. call[c].next + 1 \in Nat
      BY <1>1 DEF Call
    <2>. QED
      BY <1>2, <2>1, <2>2, <2>3
  <1>6. OthersTyped
    BY <1>1 DEF Downloaded, TypeOK, OthersTyped, environment
  <1>. QED
    BY <1>3, <1>4, <1>5, <1>6 DEF Advance

(* It fails its last check.                                                *)
LEMMA RegistrationFailsAdvances ==
  ASSUME IInv, NEW c \in Caller, RegistrationFails(c)
  PROVE  Advance
  <1>1. TypeOK /\ call[c].job \in Job /\ JobOf(c) \in JobRecord
    BY CallContext DEF RegistrationFails, At
  <1>2. "verifying" \in JobState \ (EarlyState \cup {"terminated"})
    BY DEF JobState, EarlyState
  <1>3. JobsAdvance
    BY <1>1, <1>2, MovedAdvances, SaveAdvances DEF RegistrationFails
  <1>4. PodsAdvance /\ CallsAdvance
    BY <1>1, SamePodsAdvance, ReturnAdvances DEF RegistrationFails, environment
  <1>5. OthersTyped
    BY <1>1, FaultTyped DEF RegistrationFails, TypeOK, OthersTyped, environment
  <1>. QED
    BY <1>3, <1>4, <1>5 DEF Advance

(* The worker's copies are purged.                                         *)
LEMMA PurgedAdvances ==
  ASSUME IInv, NEW c \in Caller, Purged(c)
  PROVE  Advance
  <1>1. /\ TypeOK /\ call[c].job \in Job /\ JobOf(c) \in JobRecord
        /\ call[c].pc = "purge"
    BY CallContext DEF Purged, At
  <1>2. "awaiting-review" \in JobState \ (EarlyState \cup {"terminated"})
    BY DEF JobState, EarlyState
  <1>3. JobsAdvance
    BY <1>1, <1>2, MovedAdvances, SaveAdvances, SameJobsAdvance DEF Purged
  <1>4. PodsAdvance
    BY <1>1, SamePodsAdvance DEF Purged
  <1>5. CallsAdvance
    <2>1. CASE Return(c)
      BY <1>1, <2>1, ReturnAdvances
    <2>2. CASE AwaitStop(c, "terminate", "done")
      BY <1>1, <1>3, <1>4, <2>2, GoesOnAdvances
         DEF AwaitStop, Reason, FoundAwait, LeasedAwait, StoppedAwait, Await
    <2>. QED
      BY <2>1, <2>2 DEF Purged
  <1>6. OthersTyped
    BY <1>1 DEF Purged, TypeOK, OthersTyped, WorkerState
  <1>. QED
    BY <1>3, <1>4, <1>5, <1>6 DEF Advance

-----------------------------------------------------------------------------
(* cancelJob and the stop sequences.                                       *)

(* A cancellation is requested, and completed if there is no worker.       *)
LEMMA CancelStartAdvances ==
  ASSUME IInv, NEW c \in Caller, NEW j \in Job, CancelStart(c, j)
  PROVE  Advance
  <1>. DEFINE record == IF jobs[j].state \in {"queued", "provisioning", "running", "downloading"}
                        THEN Moved(jobs[j], "cancel-requested")
                        ELSE jobs[j]
  <1>1. TypeOK /\ jobs[j] \in JobRecord /\ JobIsSound(jobs[j])
    BY DEF IInv, TypeOK, JobsAreSound
  <1>2. /\ record \in JobRecord
        /\ RecordAdvances(jobs[j], record)
        /\ KeepsIdentity(jobs[j], record)
    <2>1. "cancel-requested" \in JobState \ (EarlyState \cup {"terminated"})
      BY DEF JobState, EarlyState
    <2>. QED
      BY <1>1, <2>1, MovedFields, MovedAdvances DEF KeepsIdentity, RecordAdvances
  <1>3. CASE /\ record.workerPodId # NoLease
             /\ jobs' = [jobs EXCEPT ![j] = record]
             /\ call' = [call EXCEPT ![c] =
                           [NoCall EXCEPT !.pc = "cancelWorker", !.job = j,
                                          !.lease = record.workerLeaseId]]
    <2>1. JobsAdvance /\ PodsAdvance
      BY <1>1, <1>2, <1>3, WriteAdvances, SamePodsAdvance DEF CancelStart, environment
    <2>2. /\ record.workerLeaseId \in Lease
          /\ record.workerLeaseId = jobs[j].workerLeaseId
          /\ pods'[record.workerLeaseId] # "absent"
      BY <1>1, <1>2, <1>3 DEF KeepsIdentity, JobIsSound, JobRecord, CancelStart, environment
    <2>3. /\ call' \in [Caller -> Call]
          /\ \A d \in Caller : d # c => call'[d] = call[d]
          /\ call'[c].pc = "cancelWorker"
          /\ call'[c].job = j
          /\ call'[c].lease = record.workerLeaseId
      BY <1>1, <1>3, <2>2, NoCallIsIdle DEF TypeOK, Call, Await
    <2>4. jobs'[j].workerLeaseId = record.workerLeaseId
      BY <1>1, <1>3 DEF TypeOK
    <2>5. CallAdvances(c)
      BY <2>2, <2>3, <2>4
         DEF CallAdvances, CallIsSound, DrawnAwait, LeasedAwait, FoundAwait, StoppedAwait
    <2>6. CallsAdvance
      BY <2>3, <2>5 DEF CallsAdvance, CallAdvances
    <2>7. OthersTyped
      BY <1>1 DEF CancelStart, TypeOK, OthersTyped, environment
    <2>. QED
      BY <2>1, <2>6, <2>7 DEF Advance
  <1>4. CASE /\ jobs' = [jobs EXCEPT ![j] = Moved(record, "cancelled")]
             /\ UNCHANGED call
    <2>1. "cancelled" \in JobState \ (EarlyState \cup {"terminated"})
      BY DEF JobState, EarlyState
    <2>2. /\ Moved(record, "cancelled") \in JobRecord
          /\ RecordAdvances(jobs[j], Moved(record, "cancelled"))
      BY <1>1, <1>2, <2>1, MovedFields, KeepingAdvances DEF KeepsIdentity
    <2>3. JobsAdvance /\ PodsAdvance /\ CallsAdvance
      BY <1>1, <1>4, <2>2, WriteAdvances, SamePodsAdvance, SameCallsAdvance
         DEF CancelStart, environment
    <2>4. OthersTyped
      BY <1>1 DEF CancelStart, TypeOK, OthersTyped, environment
    <2>. QED
      BY <2>3, <2>4 DEF Advance
  <1>. QED
    BY <1>3, <1>4 DEF CancelStart

(* The worker's own cancel is tried before the Pod is stopped.             *)
LEMMA CancelWorkerAdvances ==
  ASSUME IInv, NEW c \in Caller, CancelWorker(c)
  PROVE  Advance
  <1>1. TypeOK /\ call[c].pc = "cancelWorker"
    BY CallContext DEF CancelWorker, At
  <1>2. JobsAdvance /\ PodsAdvance
    BY <1>1, SameJobsAdvance, SamePodsAdvance DEF CancelWorker
  <1>3. CallsAdvance
    BY <1>1, <1>2, GoesOnAdvances
       DEF CancelWorker, AwaitStop, Reason, FoundAwait, LeasedAwait, StoppedAwait, Await
  <1>4. OthersTyped
    BY <1>1 DEF CancelWorker, TypeOK, OthersTyped, WorkerState
  <1>. QED
    BY <1>2, <1>3, <1>4 DEF Advance

(* DELETE of the Pod is served; its answer arrives or is lost.             *)
LEMMA TerminateAdvances ==
  ASSUME IInv, NEW c \in Caller,
         TerminatePod(c) \/ TerminateFails(c) \/ TerminateAnswerLost(c)
  PROVE  Advance
  <1>. USE DEF TerminatePod, TerminateFails, TerminateAnswerLost
  <1>1. /\ TypeOK /\ call[c].pc = "terminate" /\ CallIsSound(call[c]) /\ call[c] \in Call
        /\ call[c].job \in Job /\ JobOf(c) \in JobRecord
    BY CallContext DEF At
  <1>2. call[c].lease \in Lease /\ pods[call[c].lease] # "absent" /\ call[c].pc \in LeasedAwait
    BY <1>1 DEF CallIsSound, LeasedAwait, FoundAwait, Await
  <1>3. PodsAdvance
    BY <1>1, <1>2 DEF Stopping, environment, TypeOK, PodsAdvance, PodState, StoppedPod
  <1>4. JobsAdvance
    BY <1>1, ErrorAdvances, SaveAdvances, SameJobsAdvance DEF StopFails
  <1>5. CallsAdvance
    <2>1. CASE StopFails(c)
      BY <1>1, <2>1, ReturnAdvances DEF StopFails
    <2>2. CASE TerminatePod(c)
      <3>1. /\ call' \in [Caller -> Call]
            /\ \A d \in Caller : d # c => call'[d] = call[d]
            /\ call'[c].job = call[c].job /\ call'[c].lease = call[c].lease
            /\ call'[c].pc = "forget"
        BY <1>1, <2>2 DEF AwaitNext, TypeOK, Call, Await
      <3>2. pods'[call[c].lease] = "terminated"
        BY <1>1, <1>2, <2>2 DEF Stopping, TypeOK
      <3>. QED
        BY <1>2, <1>4, <3>1, <3>2, AwaitAdvances DEF LeasedAwait, Await, StoppedPod
    <2>. QED
      BY <2>1, <2>2
  <1>6. OthersTyped
    BY <1>1, FaultTyped DEF FailureIf, TypeOK, OthersTyped, environment
  <1>. QED
    BY <1>3, <1>4, <1>5, <1>6 DEF Advance

(* The token is dropped and the end of the stop sequence recorded.         *)
LEMMA ForgetAdvances ==
  ASSUME IInv, NEW c \in Caller, ForgetToken(c) \/ ForgetTokenFails(c)
  PROVE  Advance
  <1>. USE DEF ForgetToken, ForgetTokenFails
  <1>1. /\ TypeOK /\ call[c].pc = "forgetting" /\ CallIsSound(call[c])
        /\ call[c].job \in Job /\ JobOf(c) \in JobRecord
    BY CallContext DEF At
  <1>2. /\ JobOf(c).workerLeaseId \in Lease
        /\ pods' = pods
        /\ pods'[JobOf(c).workerLeaseId] \in StoppedPod
    BY <1>1 DEF CallIsSound, LeasedAwait, StoppedAwait, Await, JobOf, environment
  <1>3. \/ jobs' = jobs
        \/ Save(c, WithRecoverableError(JobOf(c)))
        \/ Save(c, JobOf(c))
        \/ Save(c, Closed(JobOf(c)))
        \/ Save(c, Moved(Closed(JobOf(c)), "terminated"))
        \/ Save(c, Closed(Moved(JobOf(c), "terminated")))
    BY DEF Stopped, StopFails
  <1>4. RecordAdvances(JobOf(c), JobOf(c))
    BY KeepingAdvances DEF KeepsIdentity
  <1>5. JobsAdvance
    BY <1>1, <1>2, <1>3, <1>4, ClosedAdvances, ErrorAdvances, SaveAdvances, SameJobsAdvance
  <1>6. PodsAdvance /\ CallsAdvance
    BY <1>1, <1>2, SamePodsAdvance, ReturnAdvances DEF StopFails
  <1>7. OthersTyped
    BY <1>1, FaultTyped, TokensTyped DEF TypeOK, OthersTyped, environment
  <1>. QED
    BY <1>5, <1>6, <1>7 DEF Advance

-----------------------------------------------------------------------------
(* Crashes, the provider and the user.                                     *)

(* The application dies between two transactions, or anywhere else.        *)
LEMMA CrashAdvances ==
  ASSUME IInv, Crash \/ CrashBetweenWrites
  PROVE  Advance
  <1>1. TypeOK /\ pods' = pods
    BY DEF IInv, Crash, CrashBetweenWrites, environment
  <1>2. CallsAdvance
    BY <1>1, NoCallIsIdle, IdleIsSound
       DEF Crash, CrashBetweenWrites, AppGone, CallsAdvance, CallAdvances
  <1>3. JobsAdvance
    <2>1. CASE Crash
      BY <1>1, <2>1, SameJobsAdvance DEF Crash
    <2>2. CASE \E c \in Caller :
                 /\ call[c].pc \in StoppedAwait
                 /\ \/ Save(c, Moved(JobOf(c), "terminated"))
                    \/ Save(c, Closed(JobOf(c)))
      <3>1. PICK c \in Caller :
               /\ call[c].pc \in StoppedAwait
               /\ \/ Save(c, Moved(JobOf(c), "terminated"))
                  \/ Save(c, Closed(JobOf(c)))
        BY <2>2
      <3>2. /\ call[c].job \in Job /\ JobOf(c) \in JobRecord
            /\ JobOf(c).workerLeaseId \in Lease
            /\ pods'[JobOf(c).workerLeaseId] \in StoppedPod
        BY <1>1, <3>1, CallContext DEF CallIsSound, LeasedAwait, StoppedAwait, Await, JobOf
      <3>. QED
        BY <1>1, <3>1, <3>2, ClosedAdvances, SaveAdvances
    <2>3. CASE \E c \in Caller, s \in {"cancel-requested", "verifying"} :
                 call[c].pc # "idle" /\ Save(c, Moved(JobOf(c), s))
      <3>1. {"cancel-requested", "verifying"} \subseteq JobState \ (EarlyState \cup {"terminated"})
        BY DEF JobState, EarlyState
      <3>. QED
        BY <1>1, <2>3, <3>1, CallContext, MovedAdvances, SaveAdvances
    <2>4. CASE \E j \in Job : jobs' = [jobs EXCEPT ![j] = Moved(@, "cancel-requested")]
      <3>1. "cancel-requested" \in JobState \ (EarlyState \cup {"terminated"})
        BY DEF JobState, EarlyState
      <3>. QED
        BY <1>1, <2>4, <3>1, MovedAdvances, WriteAdvances DEF TypeOK
    <2>5. CASE \E j \in Job : \E i \in DOMAIN jobs[j].outputs :
                 jobs' = [jobs EXCEPT ![j] = Reviewed(@, i, "approved")]
      <3>1. PICK j \in Job : \E i \in DOMAIN jobs[j].outputs :
               jobs' = [jobs EXCEPT ![j] = Reviewed(@, i, "approved")]
        BY <2>5
      <3>2. PICK i \in DOMAIN jobs[j].outputs :
               jobs' = [jobs EXCEPT ![j] = Reviewed(jobs[j], i, "approved")]
        BY <1>1, <3>1 DEF TypeOK
      <3>3. /\ Reviewed(jobs[j], i, "approved") \in JobRecord
            /\ RecordAdvances(jobs[j], Reviewed(jobs[j], i, "approved"))
        BY <1>1, ReviewedFields, KeepingAdvances DEF TypeOK
      <3>. QED
        BY <1>1, <3>2, <3>3, WriteAdvances
    <2>. QED
      BY <2>1, <2>2, <2>3, <2>4, <2>5 DEF CrashBetweenWrites, At, StoppedAwait
  <1>4. PodsAdvance
    BY <1>1, SamePodsAdvance
  <1>5. OthersTyped
    <2>1. vault' \subseteq Lease
      BY <1>1, TokensTyped DEF Crash, CrashBetweenWrites, TypeOK
    <2>. QED
      BY <1>1, <2>1, FaultTyped
         DEF Crash, CrashBetweenWrites, AppGone, TypeOK, OthersTyped, environment
  <1>. QED
    BY <1>2, <1>3, <1>4, <1>5 DEF Advance

(* A Pod starts, exits or is forgotten; a worker finishes.                 *)
LEMMA ProviderAdvances ==
  ASSUME IInv, ProviderStep
  PROVE  Advance
  <1>1. TypeOK
    BY DEF IInv
  <1>2. PICK l \in Lease : PodStarts(l) \/ PodExits(l) \/ PodForgotten(l) \/ WorkerFinishes(l)
    BY DEF ProviderStep
  <1>. USE <1>2 DEF PodStarts, PodExits, PodForgotten, WorkerFinishes
  <1>3. JobsAdvance /\ CallsAdvance
    BY <1>1, SameJobsAdvance, SameCallsAdvance
  <1>4. PodsAdvance
    BY <1>1 DEF PodsAdvance, TypeOK, PodState, StoppedPod
  <1>5. OthersTyped
    BY <1>1 DEF OthersTyped, TypeOK, WorkerState
  <1>. QED
    BY <1>3, <1>4, <1>5 DEF Advance

(* The cost is approved.                                                   *)
LEMMA ApproveJobAdvances ==
  ASSUME IInv, NEW j \in Job, ApproveJob(j)
  PROVE  Advance
  <1>1. TypeOK /\ jobs[j] \in JobRecord
    BY DEF IInv, TypeOK
  <1>2. /\ Moved(jobs[j], "approved") \in JobRecord
        /\ RecordAdvances(jobs[j], Moved(jobs[j], "approved"))
    <2>1. "approved" \in JobState
      BY DEF JobState
    <2>. QED
      BY <1>1, <2>1, MovedFields DEF ApproveJob, KeepsIdentity, RecordAdvances, EarlyState
  <1>3. JobsAdvance /\ PodsAdvance /\ CallsAdvance
    BY <1>1, <1>2, WriteAdvances, SamePodsAdvance, SameCallsAdvance DEF ApproveJob, environment
  <1>4. OthersTyped
    BY <1>1 DEF ApproveJob, TypeOK, OthersTyped, environment
  <1>. QED
    BY <1>3, <1>4 DEF Advance

(* An output is reviewed.                                                  *)
LEMMA ReviewMediaAdvances ==
  ASSUME IInv, NEW j \in Job, NEW i \in DOMAIN jobs[j].outputs,
         NEW decision \in {"approved", "held", "rejected"}, ReviewMedia(j, i, decision)
  PROVE  Advance
  <1>. DEFINE first == Reviewed(jobs[j], i, decision)
              second == SettledByReview(first)
  <1>1. TypeOK /\ jobs[j] \in JobRecord
    BY DEF IInv, TypeOK
  <1>2. second \in JobRecord /\ RecordAdvances(jobs[j], second)
    <2>1. /\ first \in JobRecord
          /\ KeepsIdentity(jobs[j], first)
          /\ first.state = jobs[j].state
      BY <1>1, ReviewedFields
    <2>2. /\ second \in JobRecord
          /\ KeepsIdentity(first, second)
          /\ second.state \in {jobs[j].state, "succeeded"}
      BY <2>1, SettledByReviewFields
    <2>. QED
      BY <2>1, <2>2, KeepingAdvances DEF KeepsIdentity, EarlyState
  <1>3. JobsAdvance /\ PodsAdvance /\ CallsAdvance
    BY <1>1, <1>2, WriteAdvances, SamePodsAdvance, SameCallsAdvance DEF ReviewMedia, environment
  <1>4. OthersTyped
    BY <1>1 DEF ReviewMedia, TypeOK, OthersTyped, environment
  <1>. QED
    BY <1>3, <1>4 DEF Advance

(* A call to queue a job starts.                                           *)
LEMMA QueueStartAdvances ==
  ASSUME IInv, NEW c \in Caller, NEW j \in Job, QueueStart(c, j)
  PROVE  Advance
  <1>1. TypeOK
    BY DEF IInv
  <1>2. JobsAdvance /\ PodsAdvance
    BY <1>1, SameJobsAdvance, SamePodsAdvance DEF QueueStart, environment
  <1>3. CallsAdvance
    <2>1. /\ call' \in [Caller -> Call]
          /\ \A d \in Caller : d # c => call'[d] = call[d]
          /\ call'[c].pc = "refresh"
          /\ call'[c].job = j
      BY <1>1, NoCallIsIdle DEF QueueStart, TypeOK, Call, Await
    <2>2. CallAdvances(c)
      BY <2>1 DEF CallAdvances, CallIsSound, DrawnAwait, LeasedAwait, FoundAwait, StoppedAwait
    <2>. QED
      BY <2>1, <2>2 DEF CallsAdvance, CallAdvances
  <1>4. OthersTyped
    BY <1>1 DEF QueueStart, TypeOK, OthersTyped, environment
  <1>. QED
    BY <1>2, <1>3, <1>4 DEF Advance

-----------------------------------------------------------------------------
(* The two steps that draw and reserve a lease.                            *)

(* A fresh lease is drawn: no job, call or Pod has it.                     *)
LEMMA QueueRefreshedKeepsInvariant ==
  ASSUME IInv, NEW c \in Caller, QueueRefreshed(c)
  PROVE  IInv'
  <1>1. TypeOK /\ call[c].pc = "refresh" /\ call[c].job \in Job /\ call[c] \in Call
    BY CallContext DEF QueueRefreshed, At
  <1>2. jobs' = jobs /\ pods' = pods
    BY DEF QueueRefreshed, environment
  <1>3. CASE Return(c)
    <2>1. JobsAdvance /\ PodsAdvance /\ CallsAdvance
      BY <1>1, <1>2, <1>3, SameJobsAdvance, SamePodsAdvance, ReturnAdvances
    <2>2. OthersTyped
      BY <1>1 DEF QueueRefreshed, TypeOK, OthersTyped, environment
    <2>. QED
      BY <2>1, <2>2, AdvanceKeepsInvariant DEF Advance
  <1>4. CASE \E l \in FreshLeases :
               call' = [call EXCEPT ![c].pc = "store", ![c].lease = l]
    <2>1. PICK l \in FreshLeases :
            call' = [call EXCEPT ![c].pc = "store", ![c].lease = l]
      BY <1>4
    <2>2. /\ l \in Lease
          /\ \A j \in Job : jobs[j].workerLeaseId # l
          /\ \A d \in Caller : call[d].lease # l
      BY DEF FreshLeases
    <2>3. /\ call' \in [Caller -> Call]
          /\ \A d \in Caller : d # c => call'[d] = call[d]
          /\ call'[c].pc = "store"
          /\ call'[c].lease = l
          /\ call'[c].job = call[c].job
      BY <1>1, <2>1, <2>2 DEF TypeOK, Call, Await
    <2>4. TypeOK'
      BY <1>1, <2>3 DEF QueueRefreshed, TypeOK, environment
    <2>5. JobsAreSound' /\ LeasesAreOwned'
      BY <1>2 DEF IInv, JobsAreSound, JobIsSound, LeasesAreOwned
    <2>6. CallsAreSound'
      BY <1>1, <1>2, <2>2, <2>3
         DEF IInv, CallsAreSound, CallIsSound, DrawnAwait, LeasedAwait, FoundAwait, StoppedAwait
    <2>7. DrawsAreDistinct'
      BY <2>2, <2>3 DEF IInv, DrawsAreDistinct
    <2>. QED
      BY <2>4, <2>5, <2>6, <2>7 DEF IInv
  <1>. QED
    BY <1>3, <1>4 DEF QueueRefreshed

(* The job takes the drawn lease, or another call was faster.              *)
LEMMA QueueAssignKeepsInvariant ==
  ASSUME IInv, NEW c \in Caller, QueueAssign(c)
  PROVE  IInv'
  <1>1. /\ TypeOK /\ call[c].pc = "assign" /\ call[c].job \in Job /\ call[c] \in Call
        /\ JobOf(c) \in JobRecord /\ JobIsSound(JobOf(c)) /\ CallIsSound(call[c])
    BY CallContext DEF QueueAssign, At
  <1>2. pods' = pods
    BY DEF QueueAssign, environment
  <1>3. /\ call[c].lease \in Lease
        /\ \A j \in Job : jobs[j].workerLeaseId # call[c].lease
    BY <1>1 DEF CallIsSound, DrawnAwait
  <1>4. CASE jobs' = jobs /\ AwaitNext(c, "unstore")
    <2>1. JobsAdvance /\ PodsAdvance
      BY <1>1, <1>2, <1>4, SameJobsAdvance, SamePodsAdvance
    <2>2. CallsAdvance
      BY <1>1, <1>4 DEF AwaitNext, TypeOK, Call, Await, CallsAdvance, CallAdvances,
                  CallIsSound, DrawnAwait, LeasedAwait, FoundAwait, StoppedAwait
    <2>3. OthersTyped
      BY <1>1 DEF QueueAssign, TypeOK, OthersTyped, environment
    <2>. QED
      BY <2>1, <2>2, <2>3, AdvanceKeepsInvariant DEF Advance
  <1>5. CASE /\ CanAssign(JobOf(c))
             /\ Save(c, Assigned(JobOf(c), call[c].lease))
             /\ AwaitNext(c, "create")
    <2>1. /\ jobs' \in [Job -> JobRecord]
          /\ \A j \in Job : j # call[c].job => jobs'[j] = jobs[j]
          /\ jobs'[call[c].job].state = "queued"
          /\ jobs'[call[c].job].workerLeaseId = call[c].lease
          /\ jobs'[call[c].job].workerPodId = JobOf(c).workerPodId
          /\ ~ jobs'[call[c].job].workerClosed
      BY <1>1, <1>3, <1>5, AssignedFields DEF Save, TypeOK
    <2>2. /\ JobOf(c).workerLeaseId = NoLease
          /\ JobOf(c).workerPodId = NoLease
      BY <1>1, <1>5 DEF CanAssign, JobIsSound, EarlyState
    <2>3. /\ call' \in [Caller -> Call]
          /\ \A d \in Caller : d # c => call'[d] = call[d]
          /\ call'[c].pc = "create"
          /\ call'[c].lease = call[c].lease
          /\ call'[c].job = call[c].job
      BY <1>1, <1>5 DEF AwaitNext, TypeOK, Call, Await
    <2>4. TypeOK'
      BY <1>1, <2>1, <2>3 DEF QueueAssign, TypeOK, environment
    <2>5. JobsAreSound'
      <3>. SUFFICES ASSUME NEW j \in Job
                    PROVE  JobIsSound(jobs[j])'
        BY DEF JobsAreSound
      <3>1. CASE j = call[c].job
        BY <3>1, <2>1, <2>2 DEF JobIsSound, EarlyState
      <3>2. CASE j # call[c].job
        BY <3>2, <1>2, <2>1 DEF IInv, JobsAreSound, JobIsSound
      <3>. QED
        BY <3>1, <3>2
    <2>6. LeasesAreOwned'
      BY <1>1, <1>2, <1>3, <2>1, <2>2, LeaseAssumption DEF IInv, LeasesAreOwned, JobOf
    <2>7. CallsAreSound'
      <3>. SUFFICES ASSUME NEW d \in Caller
                    PROVE  CallIsSound(call[d])'
        BY DEF CallsAreSound
      <3>1. CASE d = c
        BY <3>1, <1>1, <1>3, <2>1, <2>3
           DEF CallIsSound, DrawnAwait, LeasedAwait, FoundAwait, StoppedAwait, Await
      <3>2. CASE d # c
        <4>1. CallIsSound(call[d]) /\ call'[d] = call[d]
          BY <3>2, <2>3 DEF IInv, CallsAreSound
        <4>2. call[d].pc \in DrawnAwait => call[d].lease # call[c].lease
          BY <3>2, <1>1 DEF IInv, DrawsAreDistinct, DrawnAwait
        <4>3. call[d].pc \in LeasedAwait => call[d].job # call[c].job
          BY <4>1, <2>2, LeaseAssumption DEF CallIsSound, JobOf
        <4>. QED
          BY <1>2, <2>1, <4>1, <4>2, <4>3
             DEF CallIsSound, LeasedAwait, FoundAwait, StoppedAwait, Await
      <3>. QED
        BY <3>1, <3>2
    <2>8. DrawsAreDistinct'
      BY <2>3 DEF IInv, DrawsAreDistinct, DrawnAwait
    <2>. QED
      BY <2>4, <2>5, <2>6, <2>7, <2>8 DEF IInv
  <1>. QED
    BY <1>4, <1>5 DEF QueueAssign

-----------------------------------------------------------------------------
(* The theorems.                                                           *)

(* Planned jobs, idle calls and no Pods are sound.                         *)
LEMMA InitInvariant == Init => IInv
  <1>. SUFFICES ASSUME Init
                PROVE  IInv
    OBVIOUS
  <1>1. PlannedJob \in JobRecord
    BY DEF PlannedJob, JobRecord, JobState
  <1>2. TypeOK
    BY <1>1, NoCallIsIdle, WorkerLifecycleAssumption DEF Init, TypeOK, PodState, WorkerState
  <1>3. JobsAreSound
    BY DEF Init, JobsAreSound, JobIsSound, PlannedJob
  <1>4. LeasesAreOwned
    BY DEF Init, LeasesAreOwned, PlannedJob
  <1>5. CallsAreSound
    BY NoCallIsIdle DEF Init, CallsAreSound, CallIsSound, DrawnAwait, LeasedAwait, FoundAwait, StoppedAwait
  <1>6. DrawsAreDistinct
    BY NoCallIsIdle DEF Init, DrawsAreDistinct, DrawnAwait
  <1>. QED
    BY <1>2, <1>3, <1>4, <1>5, <1>6 DEF IInv

(* Nothing happens.                                                        *)
LEMMA StutterAdvances ==
  ASSUME IInv, UNCHANGED vars
  PROVE  Advance
  <1>1. TypeOK
    BY DEF IInv
  <1>2. JobsAdvance /\ PodsAdvance /\ CallsAdvance
    BY <1>1, SameJobsAdvance, SamePodsAdvance, SameCallsAdvance DEF vars
  <1>3. OthersTyped
    BY <1>1 DEF vars, TypeOK, OthersTyped
  <1>. QED
    BY <1>2, <1>3 DEF Advance

(* Every step is an advance or one of the two steps that take a lease.     *)
LEMMA StepAdvances ==
  ASSUME IInv, [Next]_vars
  PROVE  Advance \/ \E c \in Caller : QueueRefreshed(c) \/ QueueAssign(c)
  <1>1. CASE UserStep
    <2>1. PICK j \in Job :
            \/ ApproveJob(j)
            \/ \E i \in DOMAIN jobs[j].outputs :
                 \E decision \in Decision : ReviewMedia(j, i, decision)
            \/ \E c \in Caller : QueueStart(c, j) \/ ReconcileByUser(c, j) \/ CancelStart(c, j)
      BY <1>1 DEF UserStep
    <2>. QED
      BY <2>1, WorkerLifecycleAssumption, ApproveJobAdvances, ReviewMediaAdvances, QueueStartAdvances,
         ReconcilesAdvance, CancelStartAdvances
  <1>2. CASE TimerStep
    BY <1>2, TimerListAdvances, ReconcilesAdvance DEF TimerStep
  <1>3. ASSUME NEW c \in Caller, Resume(c)
        PROVE  Advance \/ QueueRefreshed(c) \/ QueueAssign(c)
    <2>1. CASE QueueStep(c)
      BY <2>1, QueueStoreAdvances, QueueUnstoreAdvances, CreatePodAdvances,
         CreateAnsweredAdvances, ErrorEndAdvances DEF QueueStep
    <2>2. CASE ReconcileStep(c)
      BY <2>2, WorkerFoundAdvances, SilentEndAdvances, ErrorEndAdvances,
         CloseStoppedAdvances, PreflightAdvances, SubmitAcceptedAdvances, PollAdvances,
         DownloadedAdvances, RegistrationFailsAdvances, PurgedAdvances DEF ReconcileStep
    <2>3. CASE StopStep(c)
      BY <2>3, CancelWorkerAdvances, TerminateAdvances, ForgetAdvances DEF StopStep
    <2>4. CASE CallFails(c)
      BY <2>4, SilentEndAdvances
    <2>5. CASE ReadTokens(c)
      BY <2>5, ReadTokensAdvances
    <2>. QED
      BY <1>3, <2>1, <2>2, <2>3, <2>4, <2>5 DEF Resume
  <1>. QED
    BY <1>1, <1>2, <1>3, ProviderAdvances, CrashAdvances, StutterAdvances DEF Next

(* IInv is inductive.                                                      *)
LEMMA NextInvariant == IInv /\ [Next]_vars => IInv'
  BY StepAdvances, AdvanceKeepsInvariant, QueueRefreshedKeepsInvariant, QueueAssignKeepsInvariant

(* Every reachable state satisfies the inductive invariant.                *)
THEOREM Invariance == Spec => []IInv
  BY InitInvariant, NextInvariant, PTL DEF Spec

(* The jobs, the vault, the suspended calls, the timer's list, the Pods    *)
(* and the workers keep their types in every interleaving.                 *)
THEOREM TypeCorrect == Spec => []TypeOK
  <1>1. IInv => TypeOK
    BY DEF IInv
  <1>. QED
    BY <1>1, Invariance, PTL

(* A job recorded as closed has no Pod that can still run or be started,   *)
(* whichever of the concurrent calls recorded it and however late.         *)
THEOREM ClosedIsStopped == Spec => []ClosedMeansStopped
  <1>1. IInv => ClosedMeansStopped
    BY DEF IInv, JobsAreSound, JobIsSound, ClosedMeansStopped
  <1>. QED
    BY <1>1, Invariance, PTL

(* A job recorded as terminated has a Pod that the provider has stopped.   *)
THEOREM TerminatedIsStopped == Spec => []TerminatedMeansStopped
  <1>1. IInv => TerminatedMeansStopped
    BY DEF IInv, JobsAreSound, JobIsSound, TerminatedMeansStopped
  <1>. QED
    BY <1>1, Invariance, PTL

(* Both together: what is recorded of a worker's end is true.              *)
THEOREM RecordsMeanStopped == Spec => []RecordedMeansStopped
  BY ClosedIsStopped, TerminatedIsStopped, PTL DEF RecordedMeansStopped

(* Every Pod the provider was ever asked for is found on exactly one job,  *)
(* and the recovery timer lists that job until the Pod has stopped: also   *)
(* after a crash right behind the request, a download that broke off, or a *)
(* cancellation whose termination failed.                                  *)
THEOREM NoPodsAreLost == Spec => []NoPodIsLost
  <1>1. IInv => NoPodIsLost
    <2>. SUFFICES ASSUME IInv, NEW l \in Lease, pods[l] # "absent"
                  PROVE  \E j \in Job : /\ \A i \in Job : jobs[i].workerLeaseId = l <=> i = j
                                        /\ pods[l] \in StoppedPod \/ NeedsRecovery(jobs[j])
      BY DEF NoPodIsLost
    <2>1. PICK j \in Job : jobs[j].workerLeaseId = l
      BY DEF IInv, LeasesAreOwned
    <2>2. \A i \in Job : jobs[i].workerLeaseId = l <=> i = j
      BY <2>1, LeaseAssumption DEF IInv, LeasesAreOwned
    <2>3. jobs[j] \in JobRecord /\ JobIsSound(jobs[j]) /\ l # NoLease
      BY LeaseAssumption DEF IInv, TypeOK, JobsAreSound
    <2>4. pods[l] \in StoppedPod \/ NeedsRecovery(jobs[j])
      BY <2>1, <2>3 DEF JobIsSound, NeedsRecovery, RecoverableState, JobRecord, EarlyState
    <2>. QED
      BY <2>2, <2>4
  <1>. QED
    BY <1>1, Invariance, PTL

(* No step replaces the lease, the Pod id or the closing mark of a job.    *)
THEOREM IdentityKept == Spec => IdentityIsPermanent
  <1>. DEFINE Kept(j) ==
         /\ jobs[j].workerLeaseId # NoLease => jobs'[j].workerLeaseId = jobs[j].workerLeaseId
         /\ jobs[j].workerPodId # NoLease => jobs'[j].workerPodId = jobs[j].workerPodId
         /\ jobs[j].workerClosed => jobs'[j].workerClosed
  <1>1. ASSUME IInv, [Next]_vars, NEW j \in Job
        PROVE  Kept(j)
    <2>1. JobIsSound(jobs[j]) /\ jobs[j] \in JobRecord
      BY <1>1 DEF IInv, TypeOK, JobsAreSound
    <2>2. CASE Advance
      BY <2>1, <2>2 DEF Advance, JobsAdvance, RecordAdvances, JobIsSound
    <2>3. ASSUME NEW c \in Caller, QueueRefreshed(c)
          PROVE  Kept(j)
      BY <2>3 DEF QueueRefreshed
    <2>4. ASSUME NEW c \in Caller, QueueAssign(c)
          PROVE  Kept(j)
      <3>1. CASE jobs' = jobs
        BY <3>1
      <3>2. CASE CanAssign(JobOf(c)) /\ Save(c, Assigned(JobOf(c), call[c].lease))
        <4>1. CASE j = call[c].job
          <5>1. JobOf(c) = jobs[j] /\ jobs[j].workerLeaseId = NoLease
            BY <2>1, <3>2, <4>1 DEF JobOf, CanAssign, JobIsSound, EarlyState
          <5>. QED
            BY <2>1, <5>1, LeaseAssumption DEF JobIsSound
        <4>2. CASE j # call[c].job
          BY <1>1, <3>2, <4>2 DEF Save, IInv, TypeOK
        <4>. QED
          BY <4>1, <4>2
      <3>. QED
        BY <2>4, <3>1, <3>2 DEF QueueAssign
    <2>. QED
      BY <1>1, <2>2, <2>3, <2>4, StepAdvances
  <1>2. IInv /\ [Next]_vars => [\A j \in Job : Kept(j)]_vars
    BY <1>1
  <1>. QED
    BY <1>2, Invariance, PTL DEF Spec, IdentityIsPermanent

-----------------------------------------------------------------------------
(* Outputs.  One call at a time fetches the outputs of a job, and only it  *)
(* knows how many are still to come.                                       *)

PollAwait  == {"lookup", "token", "poll"}
FetchAwait == {"download", "purge"}

BeforeFetch == EarlyState \cup {"queued", "provisioning", "running"}

(* How many outputs a job has in each of its states.                       *)
OutputsFit(r) ==
  /\ Len(r.outputs) <= Artifacts
  /\ r.state \in BeforeFetch \cup {"downloading"} => Len(r.outputs) = 0
  /\ r.state \in {"awaiting-review", "succeeded"} => Len(r.outputs) = Artifacts
  /\ r.state = "succeeded" => AllApproved(r)

(* What a fetching call knows of its job.                                  *)
FetchIsSound(k) ==
  /\ k.pc \in PollAwait => k.next = 0
  /\ k.pc \in FetchAwait =>
    /\ jobs[k.job].state \notin BeforeFetch
    /\ k.pc = "download" => k.next < Artifacts /\ Len(jobs[k.job].outputs) = k.next
    /\ k.pc = "purge" => Len(jobs[k.job].outputs) = Artifacts

(* A worker that did anything was rented for a job, and was purged only    *)
(* after that job had everything.                                          *)
WorkersAreOwned ==
  \A l \in Lease :
    /\ worker[l] # "none" => \E j \in Job : jobs[j].workerLeaseId = l
    /\ worker[l] = "purged" =>
         \A j \in Job : jobs[j].workerLeaseId = l => Len(jobs[j].outputs) = Artifacts

FetchInv == /\ \A j \in Job : OutputsFit(jobs[j])
            /\ \A c \in Caller : FetchIsSound(call[c])
            /\ OneDownloader
            /\ WorkersAreOwned

(* A write that leaves the outputs alone, does not go back before them and *)
(* takes a new lease only where there was none.                            *)
KeepsOutputs(r, s) ==
  /\ s.outputs = r.outputs
  /\ s.state \in BeforeFetch => r.state \in BeforeFetch
  /\ s.state \in {"downloading", "awaiting-review", "succeeded"} => s.state = r.state
  /\ r.state \in Terminal => s.state = r.state
  /\ \/ s.workerLeaseId = r.workerLeaseId
     \/ /\ r.workerLeaseId = NoLease
        /\ \A i \in Job : jobs[i].workerLeaseId # s.workerLeaseId

(* A review decides what was not decided, and may complete the job.        *)
OnlyReviewed(r, s) ==
  /\ s.workerLeaseId = r.workerLeaseId
  /\ Len(s.outputs) = Len(r.outputs)
  /\ \A i \in DOMAIN r.outputs : r.outputs[i] \in {"approved", "rejected"} => s.outputs[i] = r.outputs[i]
  /\ \/ s.state = r.state /\ r.state # "succeeded"
     \/ r.state = "awaiting-review" /\ s.state = "succeeded" /\ AllApproved(s)

JobsKeepOutputs ==
  \A j \in Job : KeepsOutputs(jobs[j], jobs'[j]) \/ OnlyReviewed(jobs[j], jobs'[j])

(* No call starts fetching.                                                *)
NoNewFetch ==
  \A c \in Caller :
    /\ call'[c].pc \in FetchAwait => call'[c] = call[c]
    /\ call'[c].pc \in PollAwait =>
         call'[c].next = 0 \/ (call[c].pc \in PollAwait /\ call'[c].next = call[c].next)

(* A worker only starts or ends work it was rented for.                    *)
WorkersWork ==
  \A l \in Lease :
    \/ worker'[l] = worker[l]
    \/ /\ worker'[l] # "purged"
       /\ \E j \in Job : jobs[j].workerLeaseId = l

(* A step that registers nothing, starts no fetch and purges nothing keeps *)
(* what is known of the outputs.                                           *)
LEMMA QuietStepKeepsFetch ==
  ASSUME IInv, FetchInv, jobs' \in [Job -> JobRecord],
         JobsKeepOutputs, NoNewFetch, WorkersWork
  PROVE  FetchInv'
  <1>0. /\ jobs \in [Job -> JobRecord]
        /\ \A c \in Caller : call[c].pc \in FetchAwait => call[c].job \in Job
    BY DEF IInv, TypeOK, CallsAreSound, CallIsSound, FetchAwait, PollAwait
  <1>1. (\A j \in Job : OutputsFit(jobs[j]))'
    BY DEF FetchInv, OutputsFit, JobsKeepOutputs, KeepsOutputs, OnlyReviewed, AllApproved, BeforeFetch, EarlyState
  <1>2. (\A c \in Caller : FetchIsSound(call[c]))'
    BY <1>0 DEF FetchInv, FetchIsSound, JobsKeepOutputs, KeepsOutputs, OnlyReviewed, NoNewFetch,
                BeforeFetch, EarlyState
  <1>3. OneDownloader'
    BY DEF FetchInv, OneDownloader, NoNewFetch, FetchAwait, PollAwait
  <1>4. WorkersAreOwned'
    <2>. SUFFICES ASSUME NEW l \in Lease
                  PROVE  /\ worker'[l] # "none" => \E j \in Job : jobs'[j].workerLeaseId = l
                         /\ worker'[l] = "purged" =>
                              \A j \in Job : jobs'[j].workerLeaseId = l => Len(jobs'[j].outputs) = Artifacts
      BY DEF WorkersAreOwned
    <2>1. worker'[l] # "none" => \E j \in Job : jobs[j].workerLeaseId = l
      BY DEF FetchInv, WorkersAreOwned, WorkersWork
    <2>2. \A j \in Job : jobs[j].workerLeaseId = l => jobs'[j].workerLeaseId = l
      BY LeaseAssumption DEF JobsKeepOutputs, KeepsOutputs, OnlyReviewed
    <2>3. ASSUME worker'[l] = "purged", NEW j \in Job, jobs'[j].workerLeaseId = l
          PROVE  Len(jobs'[j].outputs) = Artifacts
      <3>1. jobs[j].workerLeaseId = l
        BY <2>1, <2>3 DEF JobsKeepOutputs, KeepsOutputs, OnlyReviewed
      <3>2. worker[l] = "purged"
        BY <2>3 DEF WorkersWork
      <3>. QED
        BY <3>1, <3>2 DEF FetchInv, WorkersAreOwned, JobsKeepOutputs, KeepsOutputs, OnlyReviewed
    <2>. QED
      BY <2>1, <2>2, <2>3
  <1>. QED
    BY <1>1, <1>2, <1>3, <1>4 DEF FetchInv

(* A write of one record leaves the outputs of all jobs if it leaves those *)
(* of the one.                                                             *)
LEMMA SaveKeepsOutputs ==
  ASSUME TypeOK, NEW j \in Job, NEW r, jobs' = [jobs EXCEPT ![j] = r], KeepsOutputs(jobs[j], r)
  PROVE  JobsKeepOutputs
  BY DEF TypeOK, JobsKeepOutputs, KeepsOutputs, OnlyReviewed

(* No job is written.                                                      *)
LEMMA SameKeepsOutputs ==
  ASSUME jobs' = jobs PROVE JobsKeepOutputs
  BY DEF JobsKeepOutputs, KeepsOutputs, OnlyReviewed

(* The closing mark and a recorded error.                                  *)
LEMMA MarkKeepsOutputs ==
  ASSUME NEW r \in JobRecord
  PROVE  /\ KeepsOutputs(r, r) /\ KeepsOutputs(r, Closed(r)) /\ KeepsOutputs(r, WithRecoverableError(r))
  BY ClosedFields, RecoverableErrorFields DEF KeepsOutputs, KeepsIdentity

(* A move other than those of the fetching call, with or without the mark. *)
LEMMA MoveKeepsOutputs ==
  ASSUME NEW r \in JobRecord, NEW s, CanMove(r, s), s \notin {"downloading", "awaiting-review", "succeeded"}
  PROVE  /\ KeepsOutputs(r, Moved(r, s)) /\ KeepsOutputs(r, Closed(Moved(r, s)))
         /\ KeepsOutputs(r, Moved(Closed(r), s))
  <1>1. /\ s \in JobState /\ r.state \notin Terminal
    BY MovesStayInJobState
  <1>2. s \in BeforeFetch => r.state \in BeforeFetch
    BY DEF CanMove, allowedTransitions, JobRecord, JobState, BeforeFetch, EarlyState
  <1>3. /\ Moved(r, s) \in JobRecord /\ Closed(r) \in JobRecord
        /\ KeepsIdentity(r, Moved(r, s)) /\ Moved(r, s).state = s /\ Moved(r, s).outputs = r.outputs
    BY <1>1, MovedFields, ClosedFields
  <1>4. KeepsOutputs(r, Moved(r, s))
    BY <1>1, <1>2, <1>3 DEF KeepsOutputs, KeepsIdentity
  <1>5. KeepsOutputs(r, Closed(Moved(r, s)))
    BY <1>3, <1>4, ClosedFields DEF KeepsOutputs, KeepsIdentity
  <1>6. KeepsOutputs(r, Moved(Closed(r), s))
    BY <1>1, <1>2, <1>3, ClosedFields, MovedFields DEF KeepsOutputs, KeepsIdentity
  <1>. QED
    BY <1>4, <1>5, <1>6

-----------------------------------------------------------------------------
(* Steps that fetch nothing.                                               *)

Quiet == JobsKeepOutputs /\ NoNewFetch /\ WorkersWork

(* Only the call that took the step changes, and it does not fetch.        *)
LEMMA OneCallIsQuiet ==
  ASSUME NEW c \in Caller, \A d \in Caller : d # c => call'[d] = call[d],
         call'[c].pc \notin FetchAwait,
         call'[c].pc \in PollAwait =>
           call'[c].next = 0 \/ (call[c].pc \in PollAwait /\ call'[c].next = call[c].next)
  PROVE  NoNewFetch
  <1>. SUFFICES ASSUME NEW d \in Caller
                PROVE  /\ call'[d].pc \in FetchAwait => call'[d] = call[d]
                       /\ call'[d].pc \in PollAwait =>
                            call'[d].next = 0 \/ (call[d].pc \in PollAwait /\ call'[d].next = call[d].next)
    BY DEF NoNewFetch
  <1>1. CASE d = c
    BY <1>1
  <1>2. CASE d # c
    BY <1>2
  <1>. QED
    BY <1>1, <1>2

(* The call that took the step ends.                                       *)
LEMMA ReturnIsQuiet ==
  ASSUME TypeOK, NEW c \in Caller, Return(c)
  PROVE  NoNewFetch
  BY NoCallIsIdle DEF TypeOK, NoNewFetch, Return, FetchAwait, PollAwait

(* The call waits for something else.                                      *)
LEMMA AwaitIsQuiet ==
  ASSUME TypeOK, NEW c \in Caller, NEW a, a \notin FetchAwait,
         a \in PollAwait => call[c].pc \in PollAwait,
         AwaitNext(c, a) \/ \E w \in Reason : AwaitStop(c, a, w)
  PROVE  NoNewFetch
  BY DEF TypeOK, Call, NoNewFetch, AwaitNext, AwaitStop

(* No call is started, resumed or ended.                                   *)
LEMMA SameCallsAreQuiet ==
  ASSUME call' = call PROVE NoNewFetch
  BY DEF NoNewFetch

(* A request to the worker of the lease the call holds.                    *)
LEMMA OneWorkerWorks ==
  ASSUME IInv, NEW c \in Caller, call[c].pc \in LeasedAwait, NEW s \in WorkerState \ {"purged"},
         worker' = [worker EXCEPT ![call[c].lease] = s]
  PROVE  WorkersWork
  <1>1. call[c].job \in Job /\ jobs[call[c].job].workerLeaseId = call[c].lease /\ TypeOK
    BY CallContext DEF LeasedAwait, CallIsSound
  <1>. QED
    BY <1>1 DEF TypeOK, WorkersWork

(* The worker accepts its job.                                             *)
LEMMA AcceptingWorks ==
  ASSUME IInv, NEW c \in Caller, call[c].pc \in LeasedAwait, Accepting(c)
  PROVE  WorkersWork
  <1>1. /\ call[c].job \in Job /\ jobs[call[c].job].workerLeaseId = call[c].lease
        /\ call[c].lease \in Lease /\ TypeOK
    BY CallContext DEF LeasedAwait, CallIsSound
  <1>. QED
    BY <1>1 DEF TypeOK, WorkersWork, Accepting

(* No worker is asked anything.                                            *)
LEMMA SameWorkersWork ==
  ASSUME worker' = worker PROVE WorkersWork
  BY DEF WorkersWork

(* Before the reservation is written, and the request for the Pod.         *)
LEMMA QueueIsQuiet ==
  ASSUME IInv, NEW c \in Caller,
         \/ ReadTokens(c) \/ QueueRefreshed(c) \/ QueueStore(c) \/ QueueUnstore(c) \/ CreatePod(c)
  PROVE  Quiet
  <1>1. TypeOK
    BY DEF IInv
  <1>2. JobsKeepOutputs /\ WorkersWork
    BY SameKeepsOutputs, SameWorkersWork
       DEF ReadTokens, QueueRefreshed, QueueStore, QueueUnstore, CreatePod, environment
  <1>3. NoNewFetch
    <2>1. CASE ReadTokens(c)
      BY <1>1, <2>1 DEF ReadTokens, TokenWrite, TypeOK, Call, NoNewFetch, FetchAwait, PollAwait
    <2>2. CASE QueueRefreshed(c)
      <3>1. CASE Return(c)
        BY <1>1, <3>1, ReturnIsQuiet
      <3>2. CASE \E l \in FreshLeases : call' = [call EXCEPT ![c].pc = "store", ![c].lease = l]
        BY <1>1, <3>2 DEF TypeOK, Call, NoNewFetch, FetchAwait, PollAwait
      <3>. QED
        BY <2>2, <3>1, <3>2 DEF QueueRefreshed
    <2>3. CASE QueueStore(c)
      BY <1>1, <2>3 DEF QueueStore, TypeOK, Call, NoNewFetch, FetchAwait, PollAwait
    <2>4. CASE QueueUnstore(c)
      BY <1>1, <2>4, ReturnIsQuiet DEF QueueUnstore
    <2>5. CASE CreatePod(c)
      BY <1>1, <2>5, AwaitIsQuiet DEF CreatePod, FetchAwait, PollAwait
    <2>. QED
      BY <2>1, <2>2, <2>3, <2>4, <2>5
  <1>. QED
    BY <1>2, <1>3 DEF Quiet

(* The reservation: the lease was on no job.                               *)
LEMMA QueueAssignIsQuiet ==
  ASSUME IInv, NEW c \in Caller, QueueAssign(c)
  PROVE  Quiet
  <1>1. /\ TypeOK /\ call[c].job \in Job /\ JobOf(c) \in JobRecord /\ JobIsSound(JobOf(c))
        /\ CallIsSound(call[c]) /\ call[c].pc = "assign"
    BY CallContext DEF QueueAssign, At
  <1>2. call[c].lease \in Lease /\ \A i \in Job : jobs[i].workerLeaseId # call[c].lease
    BY <1>1 DEF CallIsSound, DrawnAwait
  <1>3. JobsKeepOutputs
    <2>1. CASE CanAssign(JobOf(c)) /\ Save(c, Assigned(JobOf(c), call[c].lease))
      <3>1. KeepsOutputs(JobOf(c), Assigned(JobOf(c), call[c].lease))
        BY <1>1, <1>2, <2>1, AssignedFields
           DEF KeepsOutputs, CanAssign, BeforeFetch, EarlyState, Terminal, JobIsSound
      <3>. QED
        BY <1>1, <2>1, <3>1, SaveKeepsOutputs DEF Save, JobOf
    <2>. QED
      BY <2>1, SameKeepsOutputs DEF QueueAssign
  <1>4. NoNewFetch
    BY <1>1, AwaitIsQuiet DEF QueueAssign, FetchAwait, PollAwait
  <1>5. WorkersWork
    BY SameWorkersWork DEF QueueAssign, environment
  <1>. QED
    BY <1>3, <1>4, <1>5 DEF Quiet

(* A call starts.                                                          *)
LEMMA StartIsQuiet ==
  ASSUME IInv, NEW c \in Caller, NEW j \in Job,
         \/ QueueStart(c, j)
         \/ ReconcileStart(c, j) /\ UNCHANGED <<jobs, worker>>
  PROVE  Quiet
  <1>1. TypeOK
    BY DEF IInv
  <1>2. JobsKeepOutputs /\ WorkersWork
    BY SameKeepsOutputs, SameWorkersWork DEF QueueStart, environment
  <1>3. NoNewFetch
    <2>1. NoCall.next = 0
      BY DEF NoCall
    <2>2. /\ \A d \in Caller : d # c => call'[d] = call[d]
          /\ call'[c].pc \in {"refresh", "lookup"} /\ call'[c].next = 0
      <3>1. CASE QueueStart(c, j)
        BY <1>1, <2>1, <3>1, NoCallIsIdle DEF QueueStart, TypeOK, Call
      <3>2. CASE ReconcileStart(c, j)
        BY <1>1, <2>1, <3>2, NoCallIsIdle DEF ReconcileStart, TypeOK, Call
      <3>. QED
        BY <3>1, <3>2
    <2>. QED
      BY <2>2, OneCallIsQuiet DEF FetchAwait, PollAwait
  <1>. QED
    BY <1>2, <1>3 DEF Quiet

(* A call ends with nothing, an error or a Pod recorded.                   *)
LEMMA EndIsQuiet ==
  ASSUME IInv, NEW c \in Caller,
         \/ WorkerFoundTooLate(c) \/ CallFails(c) \/ CreateUncertain(c) \/ CreateAnswered(c)
         \/ WorkerNotFound(c) \/ SubmitAnswerLost(c) \/ WorkerCallFails(c) \/ PollWorking(c)
  PROVE  Quiet
  <1>. USE DEF WorkerFoundTooLate, CallFails, CreateUncertain, CreateAnswered, WorkerNotFound,
               SubmitAnswerLost, WorkerCallFails, PollWorking, Polls
  <1>1. /\ TypeOK /\ call[c].job \in Job /\ JobOf(c) \in JobRecord
        /\ CallIsSound(call[c]) /\ call[c].pc # "idle"
    BY CallContext DEF At
  <1>2. NoNewFetch
    BY <1>1, ReturnIsQuiet
  <1>3. JobsKeepOutputs
    <2>1. CASE Save(c, WithRecoverableError(JobOf(c)))
      BY <1>1, <2>1, MarkKeepsOutputs, SaveKeepsOutputs DEF Save, JobOf
    <2>2. CASE /\ CanAttach(JobOf(c)) /\ At(c, "created")
               /\ Save(c, Attached(JobOf(c), call[c].lease))
      <3>1. call[c].lease \in Lease
        BY <1>1, <2>2 DEF CallIsSound, LeasedAwait, Await, At
      <3>2. KeepsOutputs(JobOf(c), Attached(JobOf(c), call[c].lease))
        BY <1>1, <2>2, <3>1, AttachedFields DEF KeepsOutputs, CanAttach, BeforeFetch, Terminal
      <3>. QED
        BY <1>1, <2>2, <3>2, SaveKeepsOutputs DEF Save, JobOf
    <2>. QED
      BY <2>1, <2>2, SameKeepsOutputs
  <1>4. WorkersWork
    <2>1. CASE SubmitAnswerLost(c)
      <3>1. call[c].pc \in LeasedAwait
        BY <2>1 DEF At, LeasedAwait, Await
      <3>. QED
        BY <2>1, <3>1, AcceptingWorks
    <2>. QED
      BY <2>1, SameWorkersWork DEF environment
  <1>. QED
    BY <1>2, <1>3, <1>4 DEF Quiet

(* The worker is found.                                                    *)
LEMMA WorkerFoundIsQuiet ==
  ASSUME IInv, NEW c \in Caller, WorkerFound(c)
  PROVE  Quiet
  <1>1. /\ TypeOK /\ call[c].job \in Job /\ JobOf(c) \in JobRecord
        /\ CallIsSound(call[c]) /\ call[c].pc = "lookup"
    BY CallContext DEF WorkerFound, At
  <1>2. call[c].lease \in Lease
    BY <1>1 DEF CallIsSound, LeasedAwait, Await
  <1>3. JobsKeepOutputs
    <2>1. CASE Save(c, JobOf(c))
      BY <1>1, <2>1, MarkKeepsOutputs, SaveKeepsOutputs DEF Save, JobOf
    <2>2. CASE CanAttach(JobOf(c)) /\ Save(c, Attached(JobOf(c), call[c].lease))
      <3>2. KeepsOutputs(JobOf(c), Attached(JobOf(c), call[c].lease))
        BY <1>1, <1>2, <2>2, AttachedFields DEF KeepsOutputs, CanAttach, BeforeFetch, Terminal
      <3>. QED
        BY <1>1, <2>2, <3>2, SaveKeepsOutputs DEF Save, JobOf
    <2>. QED
      BY <2>1, <2>2 DEF WorkerFound
  <1>4. NoNewFetch
    <2>1. PICK seen :
            call' = [call EXCEPT
              ![c].seen = seen,
              ![c].pc  = CASE PodOf(c) # "running" -> "closeStopped"
                           [] PodOf(c) = "running" /\ seen \in Settled -> "terminate"
                           [] OTHER -> "token",
              ![c].why = IF PodOf(c) = "running" /\ seen \in Settled
                         THEN "settled" ELSE "none"]
      BY DEF WorkerFound
    <2>2. /\ call'[c].pc \notin FetchAwait /\ (call'[c].pc \in PollAwait => call'[c].next = call[c].next)
          /\ \A d \in Caller : d # c => call'[d] = call[d]
      BY <1>1, <2>1 DEF TypeOK, Call, FetchAwait, PollAwait
    <2>. QED
      BY <1>1, <2>2, OneCallIsQuiet DEF PollAwait
  <1>5. WorkersWork
    BY SameWorkersWork DEF WorkerFound, environment
  <1>. QED
    BY <1>3, <1>4, <1>5 DEF Quiet

(* A stopped worker is recorded as closed.                                 *)
LEMMA CloseIsQuiet ==
  ASSUME IInv, NEW c \in Caller, CloseStopped(c) \/ ForgetToken(c) \/ ForgetTokenFails(c)
  PROVE  Quiet
  <1>. USE DEF CloseStopped, ForgetToken, ForgetTokenFails
  <1>1. TypeOK /\ call[c].job \in Job /\ JobOf(c) \in JobRecord
    BY CallContext DEF At
  <1>. DEFINE r == JobOf(c)
  <1>2. \/ jobs' = jobs
        \/ \E s \in {r, Closed(r), WithRecoverableError(r)} : Save(c, s)
        \/ /\ CanMove(r, "terminated")
           /\ \E s \in {Closed(Moved(r, "terminated")), Moved(Closed(r), "terminated")} : Save(c, s)
    BY DEF Stopped, StopFails
  <1>3. JobsKeepOutputs
    BY <1>1, <1>2, MarkKeepsOutputs, MoveKeepsOutputs, SaveKeepsOutputs, SameKeepsOutputs DEF Save, JobOf
  <1>4. NoNewFetch /\ WorkersWork
    BY <1>1, ReturnIsQuiet, SameWorkersWork DEF environment, StopFails
  <1>. QED
    BY <1>3, <1>4 DEF Quiet

(* The worker is stopped.                                                  *)
LEMMA StopIsQuiet ==
  ASSUME IInv, NEW c \in Caller,
         CancelWorker(c) \/ TerminatePod(c) \/ TerminateFails(c) \/ TerminateAnswerLost(c)
  PROVE  Quiet
  <1>. USE DEF CancelWorker, TerminatePod, TerminateFails, TerminateAnswerLost
  <1>1. TypeOK /\ call[c].job \in Job /\ JobOf(c) \in JobRecord /\ call[c].pc \in LeasedAwait
    BY CallContext DEF At, LeasedAwait, Await
  <1>2. JobsKeepOutputs
    BY <1>1, MarkKeepsOutputs, SaveKeepsOutputs, SameKeepsOutputs DEF Save, JobOf, StopFails
  <1>3. NoNewFetch
    BY <1>1, ReturnIsQuiet, AwaitIsQuiet DEF StopFails, FetchAwait, PollAwait, Reason
  <1>4. WorkersWork
    <2>1. "cancelled" \in WorkerState \ {"purged"}
      BY DEF WorkerState
    <2>. QED
      BY <1>1, <2>1, OneWorkerWorks, SameWorkersWork DEF environment
  <1>. QED
    BY <1>2, <1>3, <1>4 DEF Quiet

(* A worker is prepared and given its job.                                 *)
LEMMA WorkIsQuiet ==
  ASSUME IInv, NEW c \in Caller,
         ReadLeaseToken(c) \/ PreflightPasses(c) \/ PreflightRejects(c) \/ SubmitAccepted(c)
  PROVE  Quiet
  <1>. USE DEF ReadLeaseToken, PreflightPasses, PreflightRejects, SubmitAccepted
  <1>1. /\ TypeOK /\ call[c].job \in Job /\ JobOf(c) \in JobRecord /\ CallIsSound(call[c])
        /\ call[c].pc \in LeasedAwait
    BY CallContext DEF At, LeasedAwait, Await
  <1>2. JobsKeepOutputs
    BY <1>1, MoveKeepsOutputs, SaveKeepsOutputs, SameKeepsOutputs DEF Save, JobOf
  <1>3. NoNewFetch
    <2>1. CASE ReadLeaseToken(c)
      <3>1. AwaitNext(c, "preflight") \/ AwaitNext(c, "poll") \/ Return(c)
        BY <2>1
      <3>. QED
        BY <1>1, <2>1, <3>1, ReturnIsQuiet, AwaitIsQuiet DEF FetchAwait, PollAwait, At
    <2>. QED
      BY <1>1, <2>1, ReturnIsQuiet, AwaitIsQuiet DEF FetchAwait, PollAwait, Reason
  <1>4. WorkersWork
    <2>1. CASE SubmitAccepted(c)
      BY <1>1, <2>1, AcceptingWorks
    <2>. QED
      BY <2>1, SameWorkersWork DEF environment
  <1>. QED
    BY <1>2, <1>3, <1>4 DEF Quiet

(* The worker's job failed or was cancelled.                               *)
LEMMA PollIsQuiet ==
  ASSUME IInv, NEW c \in Caller, PollFailed(c) \/ PollCancelled(c)
  PROVE  Quiet
  <1>. USE DEF PollFailed, PollCancelled, Polls
  <1>1. TypeOK /\ call[c].job \in Job /\ JobOf(c) \in JobRecord
    BY CallContext DEF At
  <1>2. ASSUME CanMove(JobOf(c), "cancel-requested")
        PROVE  KeepsOutputs(JobOf(c), Moved(JobOf(c), "cancelled"))
    <2>1. "cancelled" \in JobState /\ JobOf(c).state \notin Terminal
      BY <1>1, <1>2, MovesStayInJobState DEF JobState
    <2>. QED
      BY <1>1, <2>1, MovedFields DEF KeepsOutputs, KeepsIdentity, BeforeFetch, EarlyState
  <1>3. JobsKeepOutputs
    BY <1>1, <1>2, MoveKeepsOutputs, SaveKeepsOutputs, SameKeepsOutputs DEF Save, JobOf
  <1>4. NoNewFetch /\ WorkersWork
    BY <1>1, ReturnIsQuiet, AwaitIsQuiet, SameWorkersWork DEF environment, FetchAwait, PollAwait, Reason
  <1>. QED
    BY <1>3, <1>4 DEF Quiet

(* A file fails its last check.                                            *)
LEMMA RegistrationFailsIsQuiet ==
  ASSUME IInv, NEW c \in Caller, RegistrationFails(c)
  PROVE  Quiet
  <1>. USE DEF RegistrationFails
  <1>1. TypeOK /\ call[c].job \in Job /\ JobOf(c) \in JobRecord
    BY CallContext DEF At
  <1>2. JobsKeepOutputs
    BY <1>1, MoveKeepsOutputs, SaveKeepsOutputs DEF Save, JobOf
  <1>3. NoNewFetch /\ WorkersWork
    BY <1>1, ReturnIsQuiet, SameWorkersWork DEF environment
  <1>. QED
    BY <1>2, <1>3 DEF Quiet

(* A cancellation starts.                                                  *)
LEMMA CancelStartIsQuiet ==
  ASSUME IInv, NEW c \in Caller, NEW j \in Job, CancelStart(c, j)
  PROVE  Quiet
  <1>. DEFINE record == IF jobs[j].state \in {"queued", "provisioning", "running", "downloading"}
                        THEN Moved(jobs[j], "cancel-requested")
                        ELSE jobs[j]
  <1>1. TypeOK /\ jobs[j] \in JobRecord /\ jobs[j].state \notin Terminal
    BY DEF IInv, TypeOK, CancelStart
  <1>2. record \in JobRecord /\ KeepsOutputs(jobs[j], record) /\ KeepsOutputs(jobs[j], Moved(record, "cancelled"))
    <2>1. "cancelled" \in JobState /\ "cancel-requested" \in JobState
      BY DEF JobState
    <2>2. record \in JobRecord /\ record.outputs = jobs[j].outputs
          /\ record.workerLeaseId = jobs[j].workerLeaseId /\ record.state \in {jobs[j].state, "cancel-requested"}
      BY <1>1, <2>1, MovedFields DEF KeepsIdentity
    <2>3. /\ Moved(record, "cancelled").outputs = jobs[j].outputs
          /\ Moved(record, "cancelled").workerLeaseId = jobs[j].workerLeaseId
          /\ Moved(record, "cancelled").state = "cancelled"
      BY <2>1, <2>2, MovedFields DEF KeepsIdentity
    <2>. QED
      BY <1>1, <2>2, <2>3 DEF KeepsOutputs, BeforeFetch, EarlyState
  <1>3. JobsKeepOutputs
    BY <1>1, <1>2, SaveKeepsOutputs DEF CancelStart
  <1>4. NoNewFetch
    <2>1. \/ call' = call
          \/ call' = [call EXCEPT ![c] = [NoCall EXCEPT !.pc = "cancelWorker", !.job = j,
                                                        !.lease = record.workerLeaseId]]
      BY DEF CancelStart
    <2>2. \/ call' = call
          \/ /\ \A d \in Caller : d # c => call'[d] = call[d]
             /\ call'[c].pc = "cancelWorker"
      BY <1>1, <2>1, NoCallIsIdle DEF TypeOK, Call
    <2>. QED
      BY <2>2, SameCallsAreQuiet, OneCallIsQuiet DEF FetchAwait, PollAwait
  <1>5. WorkersWork
    BY SameWorkersWork DEF CancelStart, environment
  <1>. QED
    BY <1>3, <1>4, <1>5 DEF Quiet

(* The provider does something, or the timer makes its list, or nothing    *)
(* happens.                                                                *)
LEMMA OutsideIsQuiet ==
  ASSUME IInv, ProviderStep \/ TimerList \/ UNCHANGED vars
  PROVE  Quiet
  <1>1. TypeOK
    BY DEF IInv
  <1>2. JobsKeepOutputs /\ NoNewFetch
    BY SameKeepsOutputs, SameCallsAreQuiet
       DEF ProviderStep, PodStarts, PodExits, PodForgotten, WorkerFinishes, TimerList, vars
  <1>3. WorkersWork
    <2>1. CASE \E l \in Lease : WorkerFinishes(l)
      BY <1>1, <2>1 DEF WorkerFinishes, WorkersWork, TypeOK, IInv, LeasesAreOwned
    <2>. QED
      BY <2>1, SameWorkersWork DEF ProviderStep, PodStarts, PodExits, PodForgotten, TimerList, vars, environment
  <1>. QED
    BY <1>2, <1>3 DEF Quiet

(* The cost is approved.                                                   *)
LEMMA ApproveIsQuiet ==
  ASSUME IInv, NEW j \in Job, ApproveJob(j)
  PROVE  Quiet
  <1>1. TypeOK /\ jobs[j] \in JobRecord /\ "approved" \in JobState
    BY DEF IInv, TypeOK, JobState
  <1>2. JobsKeepOutputs
    <2>1. KeepsOutputs(jobs[j], Moved(jobs[j], "approved"))
      BY <1>1, MovedFields DEF ApproveJob, KeepsOutputs, KeepsIdentity, BeforeFetch, EarlyState, Terminal
    <2>. QED
      BY <1>1, <2>1, SaveKeepsOutputs DEF ApproveJob, TypeOK
  <1>3. NoNewFetch /\ WorkersWork
    BY SameCallsAreQuiet, SameWorkersWork DEF ApproveJob, environment
  <1>. QED
    BY <1>2, <1>3 DEF Quiet

(* The first write of a review, alone or with the second.                  *)
LEMMA ReviewIsQuiet ==
  ASSUME IInv, FetchInv, NEW j \in Job, NEW i \in DOMAIN jobs[j].outputs,
         NEW d \in {"approved", "held", "rejected"}, CanReview(jobs[j], i, d),
         NEW s \in {Reviewed(jobs[j], i, d), SettledByReview(Reviewed(jobs[j], i, d))},
         jobs' = [jobs EXCEPT ![j] = s]
  PROVE  JobsKeepOutputs
  <1>. DEFINE r == jobs[j]
              first == Reviewed(r, i, d)
  <1>1. /\ jobs \in [Job -> JobRecord] /\ r \in JobRecord /\ r.outputs \in Seq(ReviewState)
        /\ r.state = "succeeded" => AllApproved(r)
    BY DEF IInv, TypeOK, FetchInv, OutputsFit, JobRecord
  <1>2. r.state # "succeeded"
    BY <1>1 DEF AllApproved, CanReview
  <1>3. /\ first.outputs = [r.outputs EXCEPT ![i] = d]
        /\ first.state = r.state /\ first.workerLeaseId = r.workerLeaseId
    BY <1>1 DEF Reviewed, JobRecord
  <1>4. OnlyReviewed(r, first)
    <2>1. Len(first.outputs) = Len(r.outputs)
      BY <1>1, <1>3
    <2>2. \A k \in DOMAIN r.outputs : r.outputs[k] \in {"approved", "rejected"}
                                        => first.outputs[k] = r.outputs[k]
      BY <1>1, <1>3 DEF CanReview
    <2>. QED
      BY <1>2, <1>3, <2>1, <2>2 DEF OnlyReviewed
  <1>5. OnlyReviewed(r, SettledByReview(first))
    <2>1. CASE r.state = "awaiting-review" /\ AllApproved(first)
      <3>1. SettledByReview(first) = Moved(first, "succeeded") /\ first \in JobRecord
        BY <1>1, <1>3, <2>1, ReviewedFields DEF SettledByReview
      <3>2. /\ Moved(first, "succeeded").state = "succeeded"
            /\ Moved(first, "succeeded").outputs = first.outputs
            /\ Moved(first, "succeeded").workerLeaseId = r.workerLeaseId
        BY <1>3, <3>1, MovedFields DEF KeepsIdentity, JobState
      <3>3. AllApproved(Moved(first, "succeeded"))
        BY <2>1, <3>2 DEF AllApproved
      <3>. QED
        BY <1>4, <2>1, <3>1, <3>2, <3>3 DEF OnlyReviewed
    <2>2. CASE ~ (r.state = "awaiting-review" /\ AllApproved(first))
      BY <1>3, <1>4, <2>2 DEF SettledByReview
    <2>. QED
      BY <2>1, <2>2
  <1>6. KeepsOutputs(jobs[j], jobs'[j]) \/ OnlyReviewed(jobs[j], jobs'[j])
    BY <1>1, <1>4, <1>5
  <1>7. ASSUME NEW k \in Job, k # j PROVE KeepsOutputs(jobs[k], jobs'[k])
    BY <1>1, <1>7 DEF KeepsOutputs
  <1>. QED
    BY <1>6, <1>7 DEF JobsKeepOutputs

(* A person decides on an output.                                          *)
LEMMA ReviewMediaIsQuiet ==
  ASSUME IInv, FetchInv, NEW j \in Job, NEW i \in DOMAIN jobs[j].outputs,
         NEW d \in {"approved", "held", "rejected"}, ReviewMedia(j, i, d)
  PROVE  Quiet
  <1>1. jobs' = [jobs EXCEPT ![j] = SettledByReview(Reviewed(jobs[j], i, d))]
    BY DEF ReviewMedia, IInv, TypeOK
  <1>2. JobsKeepOutputs
    BY <1>1, ReviewIsQuiet DEF ReviewMedia
  <1>. QED
    BY <1>2, SameCallsAreQuiet, SameWorkersWork DEF ReviewMedia, environment, Quiet

(* The application dies.                                                   *)
LEMMA CrashIsQuiet ==
  ASSUME IInv, FetchInv, Crash \/ CrashBetweenWrites
  PROVE  Quiet
  <1>1. TypeOK
    BY DEF IInv
  <1>2. NoNewFetch /\ WorkersWork
    BY NoCallIsIdle, SameWorkersWork
       DEF Crash, CrashBetweenWrites, AppGone, NoNewFetch, FetchAwait, PollAwait, environment
  <1>3. JobsKeepOutputs
    <2>1. CASE Crash
      BY <2>1, SameKeepsOutputs DEF Crash
    <2>2. ASSUME NEW c \in Caller, call[c].pc # "idle",
                 NEW s \in {Closed(JobOf(c))} \cup
                           {Moved(JobOf(c), t) : t \in {u \in {"terminated", "cancel-requested", "verifying"} :
                                                          CanMove(JobOf(c), u)}},
                 Save(c, s)
          PROVE  JobsKeepOutputs
      <3>1. call[c].job \in Job /\ JobOf(c) \in JobRecord
        BY <2>2, CallContext
      <3>2. KeepsOutputs(JobOf(c), s)
        BY <2>2, <3>1, MarkKeepsOutputs, MoveKeepsOutputs
      <3>. QED
        BY <1>1, <2>2, <3>1, <3>2, SaveKeepsOutputs DEF Save, JobOf
    <2>3. ASSUME NEW j \in Job, jobs[j].state = "queued",
                 jobs' = [jobs EXCEPT ![j] = Moved(@, "cancel-requested")]
          PROVE  JobsKeepOutputs
      <3>1. jobs[j] \in JobRecord /\ CanMove(jobs[j], "cancel-requested")
        BY <1>1, <2>3 DEF TypeOK, CanMove, allowedTransitions, JobState
      <3>. QED
        BY <1>1, <2>3, <3>1, MoveKeepsOutputs, SaveKeepsOutputs DEF TypeOK
    <2>4. ASSUME NEW j \in Job, NEW i \in DOMAIN jobs[j].outputs, CanReview(jobs[j], i, "approved"),
                 jobs' = [jobs EXCEPT ![j] = Reviewed(@, i, "approved")]
          PROVE  JobsKeepOutputs
      BY <1>1, <2>4, ReviewIsQuiet DEF TypeOK
    <2>5. CASE CrashBetweenWrites
      BY <2>2, <2>3, <2>4, <2>5 DEF CrashBetweenWrites, At
    <2>. QED
      BY <2>1, <2>5
  <1>. QED
    BY <1>2, <1>3 DEF Quiet

-----------------------------------------------------------------------------
(* Steps of the one call that fetches.                                     *)

(* The call writes its own job, whose outputs no other call fetches.       *)
LEMMA FetchStepKeepsFetch ==
  ASSUME IInv, FetchInv, NEW c \in Caller, call[c].job \in Job,
         NEW s \in JobRecord, Save(c, s), OutputsFit(s), s.workerLeaseId = JobOf(c).workerLeaseId,
         Len(JobOf(c).outputs) = Artifacts => Len(s.outputs) = Artifacts,
         \A d \in Caller : d # c => call'[d] = call[d],
         call'[c].pc \in FetchAwait => call'[c].job = call[c].job,
         \A d \in Caller : call[d].pc \in FetchAwait /\ call[d].job = call[c].job => d = c,
         FetchIsSound(call[c])',
         \/ worker' = worker
         \/ /\ worker' = [worker EXCEPT ![call[c].lease] = "purged"]
            /\ Len(s.outputs) = Artifacts
            /\ call[c].lease = JobOf(c).workerLeaseId
  PROVE  FetchInv'
  <1>. DEFINE j == call[c].job
  <1>1. /\ TypeOK /\ jobs' = [jobs EXCEPT ![j] = s] /\ JobOf(c) = jobs[j]
        /\ jobs'[j] = s /\ \A i \in Job : i # j => jobs'[i] = jobs[i]
    BY DEF IInv, TypeOK, Save, JobOf
  <1>2. (\A i \in Job : OutputsFit(jobs[i]))'
    BY <1>1 DEF FetchInv, OutputsFit, AllApproved
  <1>3. (\A d \in Caller : FetchIsSound(call[d]))'
    <2>. SUFFICES ASSUME NEW d \in Caller, d # c PROVE FetchIsSound(call[d])'
      OBVIOUS
    <2>1. call'[d] = call[d] /\ FetchIsSound(call[d])
      BY DEF FetchInv
    <2>2. call[d].pc \in FetchAwait => call[d].job \in Job /\ call[d].job # j
      BY DEF IInv, CallsAreSound, CallIsSound, FetchAwait
    <2>. QED
      BY <1>1, <2>1, <2>2 DEF FetchIsSound
  <1>4. OneDownloader'
    <2>. SUFFICES ASSUME NEW d \in Caller, NEW e \in Caller,
                         call'[d].pc \in FetchAwait, call'[e].pc \in FetchAwait, call'[d].job = call'[e].job
                  PROVE  d = e
      BY DEF OneDownloader, FetchAwait
    <2>1. CASE d # c /\ e # c
      BY <2>1 DEF FetchInv, OneDownloader, FetchAwait
    <2>2. CASE d = c \/ e = c
      BY <2>2
    <2>. QED
      BY <2>1, <2>2
  <1>5. WorkersAreOwned'
    <2>1. \A i \in Job : jobs'[i].workerLeaseId = jobs[i].workerLeaseId
      BY <1>1
    <2>2. \A i \in Job : Len(jobs[i].outputs) = Artifacts => Len(jobs'[i].outputs) = Artifacts
      BY <1>1
    <2>3. CASE worker' = worker
      BY <2>1, <2>2, <2>3 DEF FetchInv, WorkersAreOwned
    <2>4. CASE /\ worker' = [worker EXCEPT ![call[c].lease] = "purged"]
               /\ Len(s.outputs) = Artifacts
               /\ call[c].lease = JobOf(c).workerLeaseId
      <3>. SUFFICES ASSUME NEW l \in Lease
                    PROVE  /\ worker'[l] # "none" => \E i \in Job : jobs'[i].workerLeaseId = l
                           /\ worker'[l] = "purged" =>
                                \A i \in Job : jobs'[i].workerLeaseId = l => Len(jobs'[i].outputs) = Artifacts
        BY DEF WorkersAreOwned
      <3>1. CASE l = call[c].lease
        <4>1. \A i \in Job : jobs'[i].workerLeaseId = l => i = j
          BY <1>1, <2>1, <2>4, <3>1, LeaseAssumption DEF IInv, LeasesAreOwned
        <4>. QED
          BY <1>1, <2>1, <2>4, <3>1, <4>1
      <3>2. CASE l # call[c].lease
        <4>1. worker'[l] = worker[l]
          BY <1>1, <2>4, <3>2 DEF TypeOK
        <4>. QED
          BY <2>1, <2>2, <4>1 DEF FetchInv, WorkersAreOwned
      <3>. QED
        BY <3>1, <3>2
    <2>. QED
      BY <2>3, <2>4
  <1>. QED
    BY <1>2, <1>3, <1>4, <1>5 DEF FetchInv

(* No late answer moves a job out of a final state or takes back a review. *)
DecisionsStay(r, s) ==
  /\ r.state \in Terminal => s.state = r.state
  /\ \A i \in DOMAIN r.outputs :
       /\ i \in DOMAIN s.outputs
       /\ r.outputs[i] \in {"approved", "rejected"} => s.outputs[i] = r.outputs[i]

Settles == \A j \in Job : DecisionsStay(jobs[j], jobs'[j])

(* A step that keeps or reviews outputs takes no decision back.            *)
LEMMA QuietSettles ==
  ASSUME TypeOK, jobs' \in [Job -> JobRecord], JobsKeepOutputs
  PROVE  Settles
  <1>. SUFFICES ASSUME NEW j \in Job PROVE DecisionsStay(jobs[j], jobs'[j])
    BY DEF Settles
  <1>1. jobs[j].outputs \in Seq(ReviewState) /\ jobs'[j].outputs \in Seq(ReviewState)
    BY DEF TypeOK, JobRecord
  <1>2. CASE KeepsOutputs(jobs[j], jobs'[j])
    BY <1>2 DEF KeepsOutputs, DecisionsStay
  <1>3. CASE OnlyReviewed(jobs[j], jobs'[j])
    <2>1. DOMAIN jobs'[j].outputs = DOMAIN jobs[j].outputs
      BY <1>1, <1>3 DEF OnlyReviewed
    <2>. QED
      BY <1>3, <2>1 DEF OnlyReviewed, DecisionsStay, Terminal
  <1>. QED
    BY <1>2, <1>3 DEF JobsKeepOutputs

(* A write of one record settles if that record does.                      *)
LEMMA SaveSettles ==
  ASSUME TypeOK, NEW c \in Caller, call[c].job \in Job, NEW s, Save(c, s), DecisionsStay(JobOf(c), s)
  PROVE  Settles
  BY DEF TypeOK, Save, JobOf, Settles, DecisionsStay

(* The worker's job succeeded: this call alone fetches.                    *)
LEMMA PollSucceededFetches ==
  ASSUME IInv, FetchInv, NEW c \in Caller, PollSucceeded(c)
  PROVE  FetchInv' /\ Settles
  <1>1. /\ TypeOK /\ call[c].job \in Job /\ JobOf(c) \in JobRecord /\ call[c].pc = "poll" /\ worker' = worker
        /\ call[c] \in Call
    BY CallContext DEF PollSucceeded, Polls, At, environment
  <1>2. CASE CanMove(JobOf(c), "downloading") /\ Save(c, Moved(JobOf(c), "downloading")) /\ AwaitNext(c, "download")
    <2>1. JobOf(c).state = "running" /\ JobOf(c).state \in BeforeFetch /\ JobOf(c).state \notin Terminal
      BY <1>1, <1>2 DEF CanMove, allowedTransitions, JobRecord, JobState, BeforeFetch, Terminal
    <2>2. Len(JobOf(c).outputs) = 0
      BY <1>1, <2>1 DEF FetchInv, OutputsFit, JobOf
    <2>. DEFINE s == Moved(JobOf(c), "downloading")
    <2>3. /\ s \in JobRecord /\ s.state = "downloading" /\ s.outputs = JobOf(c).outputs
          /\ s.workerLeaseId = JobOf(c).workerLeaseId
      BY <1>1, MovedFields DEF KeepsIdentity, JobState
    <2>4. OutputsFit(s)
      BY <2>2, <2>3, WorkerLifecycleAssumption DEF OutputsFit
    <2>5. \A d \in Caller : ~ (call[d].pc \in FetchAwait /\ call[d].job = call[c].job)
      BY <1>1, <2>1 DEF FetchInv, FetchIsSound, JobOf
    <2>6. /\ \A d \in Caller : d # c => call'[d] = call[d]
          /\ call'[c].pc = "download" /\ call'[c].job = call[c].job /\ call'[c].next = call[c].next
      BY <1>1, <1>2 DEF AwaitNext, TypeOK, Call
    <2>7. call[c].next = 0
      BY <1>1 DEF FetchInv, FetchIsSound, PollAwait
    <2>8. FetchIsSound(call[c])'
      <3>1. jobs'[call[c].job] = s
        BY <1>1, <1>2 DEF Save, TypeOK
      <3>. QED
        BY <2>2, <2>3, <2>6, <2>7, <3>1, WorkerLifecycleAssumption
           DEF FetchIsSound, FetchAwait, PollAwait, BeforeFetch, EarlyState
    <2>9. FetchInv'
      BY <1>1, <1>2, <2>3, <2>4, <2>5, <2>6, <2>8, FetchStepKeepsFetch
    <2>10. DecisionsStay(JobOf(c), s)
      BY <2>1, <2>3 DEF DecisionsStay
    <2>. QED
      BY <1>1, <1>2, <2>9, <2>10, SaveSettles
  <1>3. CASE jobs' = jobs /\ Return(c)
    <2>1. JobsKeepOutputs /\ NoNewFetch /\ WorkersWork /\ jobs' \in [Job -> JobRecord]
      BY <1>1, <1>3, SameKeepsOutputs, ReturnIsQuiet, SameWorkersWork DEF TypeOK
    <2>. QED
      BY <1>1, <2>1, QuietStepKeepsFetch, QuietSettles
  <1>. QED
    BY <1>2, <1>3 DEF PollSucceeded

(* An artifact is registered by the call that knows how many there are.    *)
LEMMA DownloadedFetches ==
  ASSUME IInv, FetchInv, NEW c \in Caller, Downloaded(c)
  PROVE  FetchInv' /\ Settles
  <1>1. /\ TypeOK /\ call[c].job \in Job /\ JobOf(c) \in JobRecord /\ call[c].pc = "download" /\ worker' = worker
        /\ call[c] \in Call
    BY CallContext DEF Downloaded, At, environment
  <1>. DEFINE r == JobOf(c)
              record == IF call[c].next = 0 THEN Moved(r, "verifying") ELSE r
              s == Registered(record)
  <1>2. CASE /\ call[c].next = 0 => CanMove(r, "verifying")
             /\ CanRegister(record)
             /\ Save(c, s)
             /\ call' = [call EXCEPT
                  ![c].next = @ + 1,
                  ![c].pc = IF call[c].next + 1 = Artifacts THEN "purge" ELSE "download"]
    <2>1. /\ call[c].next \in Nat /\ call[c].next < Artifacts /\ Len(r.outputs) = call[c].next
          /\ OutputsFit(r) /\ r.outputs \in Seq(ReviewState)
      BY <1>1 DEF FetchInv, FetchIsSound, FetchAwait, JobOf, Call, JobRecord
    <2>2. /\ record \in JobRecord /\ record.outputs = r.outputs
          /\ record.workerLeaseId = r.workerLeaseId /\ record.state = "verifying" /\ r.state \notin Terminal
      <3>1. CASE call[c].next = 0
        BY <1>1, <1>2, <3>1, MovedFields, MovesStayInJobState DEF KeepsIdentity
      <3>2. CASE call[c].next # 0
        BY <1>1, <1>2, <2>1, <3>2 DEF CanRegister, OutputsFit, Terminal
      <3>. QED
        BY <3>1, <3>2
    <2>3. /\ s \in JobRecord /\ s.state = "verifying" /\ s.workerLeaseId = r.workerLeaseId
          /\ s.outputs = Append(r.outputs, "candidate")
      <3>1. /\ s \in JobRecord /\ s.state = "verifying" /\ s.workerLeaseId = r.workerLeaseId
        BY <2>2, RegisteredFields DEF KeepsIdentity
      <3>2. s.outputs = Append(record.outputs, "candidate")
        BY <2>2 DEF Registered, JobRecord
      <3>. QED
        BY <2>2, <3>1, <3>2
    <2>4. Len(s.outputs) = call[c].next + 1
      BY <2>1, <2>3
    <2>5. OutputsFit(s)
      BY <2>1, <2>3, <2>4, WorkerLifecycleAssumption DEF OutputsFit, BeforeFetch, EarlyState
    <2>6. /\ \A d \in Caller : d # c => call'[d] = call[d]
          /\ call'[c].job = call[c].job /\ call'[c].next = call[c].next + 1
          /\ call'[c].pc = IF call[c].next + 1 = Artifacts THEN "purge" ELSE "download"
      BY <1>1, <1>2 DEF TypeOK, Call
    <2>7. \A d \in Caller : call[d].pc \in FetchAwait /\ call[d].job = call[c].job => d = c
      BY <1>1 DEF FetchInv, OneDownloader, FetchAwait
    <2>8. FetchIsSound(call[c])'
      <3>1. jobs'[call[c].job] = s
        BY <1>1, <1>2 DEF Save, TypeOK
      <3>2. call[c].next + 1 # Artifacts => call[c].next + 1 < Artifacts
        BY <2>1, WorkerLifecycleAssumption
      <3>. QED
        BY <2>3, <2>4, <2>6, <3>1, <3>2 DEF FetchIsSound, FetchAwait, PollAwait, BeforeFetch, EarlyState
    <2>0. Len(r.outputs) # Artifacts
      BY <2>1, WorkerLifecycleAssumption
    <2>9. FetchInv'
      BY <1>1, <1>2, <2>0, <2>3, <2>5, <2>6, <2>7, <2>8, FetchStepKeepsFetch
    <2>10. DecisionsStay(r, s)
      BY <2>1, <2>2, <2>3 DEF DecisionsStay
    <2>. QED
      BY <1>1, <1>2, <2>9, <2>10, SaveSettles
  <1>3. CASE jobs' = jobs /\ Return(c)
    <2>1. JobsKeepOutputs /\ NoNewFetch /\ WorkersWork /\ jobs' \in [Job -> JobRecord]
      BY <1>1, <1>3, SameKeepsOutputs, ReturnIsQuiet, SameWorkersWork DEF TypeOK
    <2>. QED
      BY <1>1, <2>1, QuietStepKeepsFetch, QuietSettles
  <1>. QED
    BY <1>2, <1>3 DEF Downloaded

(* The worker's copies are deleted, and the job is shown for review.       *)
LEMMA PurgedFetches ==
  ASSUME IInv, FetchInv, NEW c \in Caller, Purged(c) \/ PurgeAnswerLost(c)
  PROVE  FetchInv' /\ Settles
  <1>1. /\ TypeOK /\ call[c].job \in Job /\ JobOf(c) \in JobRecord /\ call[c].pc = "purge" /\ call[c] \in Call
        /\ call[c].lease = JobOf(c).workerLeaseId
        /\ worker' = [worker EXCEPT ![call[c].lease] = "purged"]
    BY CallContext DEF Purged, PurgeAnswerLost, At, CallIsSound, LeasedAwait, Await, JobOf
  <1>2. /\ Len(JobOf(c).outputs) = Artifacts /\ OutputsFit(JobOf(c))
        /\ \A d \in Caller : call[d].pc \in FetchAwait /\ call[d].job = call[c].job => d = c
    BY <1>1 DEF FetchInv, FetchIsSound, OneDownloader, FetchAwait, JobOf
  <1>. DEFINE r == JobOf(c)
  <1>3. \E s \in {r, WithRecoverableError(r)} \cup
                 {t \in {Moved(r, "awaiting-review")} : CanMove(r, "awaiting-review")} : Save(c, s)
    <2>1. CASE jobs' = jobs
      BY <1>1, <2>1 DEF Save, JobOf, TypeOK
    <2>. QED
      BY <2>1 DEF Purged, PurgeAnswerLost
  <1>4. PICK s \in {r, WithRecoverableError(r)} \cup
                   {t \in {Moved(r, "awaiting-review")} : CanMove(r, "awaiting-review")} : Save(c, s)
    BY <1>3
  <1>5. /\ s \in JobRecord /\ s.outputs = r.outputs /\ s.workerLeaseId = r.workerLeaseId
        /\ s.state = r.state \/ (r.state \notin Terminal /\ s.state = "awaiting-review")
    BY <1>1, <1>4, MovedFields, MovesStayInJobState, RecoverableErrorFields DEF KeepsIdentity
  <1>6. OutputsFit(s) /\ DecisionsStay(r, s)
    BY <1>2, <1>5 DEF OutputsFit, AllApproved, BeforeFetch, EarlyState, DecisionsStay
  <1>7. /\ \A d \in Caller : d # c => call'[d] = call[d]
        /\ call'[c].pc \in {"idle", "terminate"}
    <2>1. CASE Return(c)
      BY <1>1, <2>1, NoCallIsIdle DEF Return, TypeOK
    <2>2. CASE AwaitStop(c, "terminate", "done")
      BY <1>1, <2>2 DEF AwaitStop, TypeOK, Call
    <2>. QED
      BY <2>1, <2>2 DEF Purged, PurgeAnswerLost
  <1>8. FetchIsSound(call[c])'
    BY <1>7 DEF FetchIsSound, FetchAwait, PollAwait
  <1>9. FetchInv'
    BY <1>1, <1>2, <1>4, <1>5, <1>6, <1>7, <1>8, FetchStepKeepsFetch DEF FetchAwait
  <1>. QED
    BY <1>1, <1>4, <1>6, <1>9, SaveSettles

-----------------------------------------------------------------------------
(* A step keeps what is known of the outputs, and takes no decision back.  *)
LEMMA FetchInitially == Init => FetchInv
  <1>. SUFFICES ASSUME Init PROVE FetchInv
    OBVIOUS
  <1>1. /\ PlannedJob.outputs = << >> /\ PlannedJob.state = "estimated"
        /\ NoCall.pc = "idle"
    BY DEF PlannedJob, NoCall
  <1>2. \A j \in Job : OutputsFit(jobs[j])
    BY <1>1, WorkerLifecycleAssumption DEF Init, OutputsFit
  <1>3. (\A c \in Caller : FetchIsSound(call[c])) /\ OneDownloader /\ WorkersAreOwned
    BY <1>1 DEF Init, FetchIsSound, OneDownloader, WorkersAreOwned, FetchAwait, PollAwait
  <1>. QED
    BY <1>2, <1>3 DEF FetchInv

(* Every step either fetches nothing or keeps the invariant itself.        *)
LEMMA StepIsQuietOrFetches ==
  ASSUME IInv, FetchInv, [Next]_vars
  PROVE  Quiet \/ (FetchInv' /\ Settles)
  <1>1. CASE UserStep
    <2>1. PICK j \in Job :
            \/ ApproveJob(j)
            \/ \E i \in DOMAIN jobs[j].outputs :
                 \E decision \in Decision : ReviewMedia(j, i, decision)
            \/ \E c \in Caller : QueueStart(c, j) \/ ReconcileByUser(c, j) \/ CancelStart(c, j)
      BY <1>1 DEF UserStep
    <2>2. ASSUME NEW c \in Caller, ReconcileByUser(c, j) PROVE Quiet
      BY <2>2, StartIsQuiet DEF ReconcileByUser, environment
    <2>. QED
      BY <2>1, <2>2, WorkerLifecycleAssumption, ApproveIsQuiet, ReviewMediaIsQuiet, StartIsQuiet, CancelStartIsQuiet
  <1>2. ASSUME NEW j \in Job, TimerReconcile(j) PROVE Quiet
    BY <1>2, WorkerLifecycleAssumption, StartIsQuiet DEF TimerReconcile, environment
  <1>3. ASSUME NEW c \in Caller, Resume(c)
        PROVE  Quiet \/ (FetchInv' /\ Settles)
    <2>1. CASE ReadTokens(c) \/ QueueStep(c)
      BY <2>1, QueueIsQuiet, QueueAssignIsQuiet, EndIsQuiet DEF QueueStep
    <2>2. CASE ReconcileStep(c)
      BY <2>2, WorkerFoundIsQuiet, EndIsQuiet, CloseIsQuiet, WorkIsQuiet, PollIsQuiet, RegistrationFailsIsQuiet,
         PollSucceededFetches, DownloadedFetches, PurgedFetches DEF ReconcileStep
    <2>3. CASE StopStep(c) \/ CallFails(c)
      BY <2>3, StopIsQuiet, CloseIsQuiet, EndIsQuiet DEF StopStep
    <2>. QED
      BY <1>3, <2>1, <2>2, <2>3 DEF Resume
  <1>. QED
    BY <1>1, <1>2, <1>3, OutsideIsQuiet, CrashIsQuiet DEF Next, TimerStep

(* What is known of the outputs is inductive, given IInv.                  *)
LEMMA FetchStep ==
  ASSUME IInv, FetchInv, [Next]_vars
  PROVE  FetchInv' /\ Settles
  <1>1. TypeOK /\ jobs' \in [Job -> JobRecord]
    BY NextInvariant DEF IInv, TypeOK
  <1>. QED
    BY <1>1, StepIsQuietOrFetches, QuietStepKeepsFetch, QuietSettles DEF Quiet

(* Every reachable state satisfies what is known of the outputs.           *)
THEOREM FetchInvariance == Spec => [](IInv /\ FetchInv)
  BY InitInvariant, NextInvariant, FetchInitially, FetchStep, PTL DEF Spec

(* However many calls reconcile a job, one at most fetches its outputs.    *)
THEOREM DownloadsAreExclusive == Spec => []OneDownloader
  <1>1. FetchInv => OneDownloader
    BY DEF FetchInv
  <1>. QED
    BY <1>1, FetchInvariance, PTL

(* No artifact is registered twice, a job waits for review or succeeds     *)
(* only with all of them, and the worker's copies are deleted only after   *)
(* all of them are local.                                                  *)
THEOREM OutputsStayWhole == Spec => []OutputsAreWhole
  <1>1. FetchInv => OutputsAreWhole
    BY DEF FetchInv, OutputsFit, WorkersAreOwned, OutputsAreWhole
  <1>. QED
    BY <1>1, FetchInvariance, PTL

(* No late answer moves a job out of a final state, loses an output or     *)
(* takes back a decision on one.                                           *)
THEOREM DecisionsAreFinal == Spec => SettledIsFinal
  <1>1. IInv /\ FetchInv /\ [Next]_vars =>
          [\A j \in Job :
             /\ jobs[j].state \in Terminal => jobs'[j].state = jobs[j].state
             /\ \A i \in DOMAIN jobs[j].outputs :
                  /\ i \in DOMAIN jobs'[j].outputs
                  /\ jobs[j].outputs[i] \in {"approved", "rejected"} =>
                       jobs'[j].outputs[i] = jobs[j].outputs[i]]_vars
    BY FetchStep DEF Settles, DecisionsStay
  <1>. QED
    BY <1>1, FetchInvariance, PTL DEF Spec, SettledIsFinal

-----------------------------------------------------------------------------
(* WorkerLifecycle implements LeaseAudit: the inductive invariant says     *)
(* which leases may change class, and every step changes at most one job   *)
(* or one Pod.                                                             *)

(* Two jobs are never written by one step.                                 *)
OneJobWritten ==
  \A i, k \in Job : jobs'[i] # jobs[i] /\ jobs'[k] # jobs[k] => i = k

(* The steps that touch a Pod touch one, and no lease or closing mark.     *)
OnePodChanges ==
  /\ \A j \in Job : jobs'[j].workerClosed = jobs[j].workerClosed
  /\ \E l \in Lease :
       /\ \A m \in Lease : m # l => pods'[m] = pods[m]
       /\ pods[l] = "absent" => pods'[l] \in {"absent", "requested"}

(* A single update writes one job.                                         *)
LEMMA UpdateWritesOne ==
  ASSUME TypeOK, \/ jobs' = jobs
                 \/ \E j, r : jobs' = [jobs EXCEPT ![j] = r]
  PROVE  OneJobWritten
  BY DEF TypeOK, OneJobWritten

(* Every handler writes one job between two awaits.                        *)
LEMMA StepsWriteOne ==
  ASSUME TypeOK, [Next]_vars
  PROVE  OneJobWritten
  <1>1. ASSUME NEW c, NEW r, Save(c, r)
        PROVE  OneJobWritten
    BY <1>1, UpdateWritesOne DEF Save
  <1>2. CASE UserStep
    <2>1. \/ jobs' = jobs
          \/ \E j \in Job : \E r : jobs' = [jobs EXCEPT ![j] = r]
      BY <1>2 DEF UserStep, ApproveJob, ReviewMedia, QueueStart, ReconcileByUser, CancelStart
    <2>. QED
      BY <2>1, UpdateWritesOne
  <1>3. CASE TimerStep \/ ProviderStep \/ Crash \/ UNCHANGED vars
    BY <1>3, UpdateWritesOne
       DEF TimerStep, TimerList, TimerReconcile, ProviderStep, PodStarts, PodExits,
           PodForgotten, WorkerFinishes, Crash, vars
  <1>4. CASE CrashBetweenWrites
    BY <1>1, <1>4, UpdateWritesOne DEF CrashBetweenWrites
  <1>5. ASSUME NEW c \in Caller, Resume(c)
        PROVE  OneJobWritten
    <2>1. CASE QueueStep(c)
      BY <1>1, <2>1, UpdateWritesOne
         DEF QueueStep, QueueRefreshed, QueueStore, QueueAssign, QueueUnstore, CreatePod,
             CreateAnswered, CreateUncertain
    <2>2. CASE ReconcileStep(c)
      BY <1>1, <2>2, UpdateWritesOne
         DEF ReconcileStep, WorkerFound, WorkerFoundTooLate, WorkerNotFound, CloseStopped,
             ReadLeaseToken, PreflightPasses, PreflightRejects, SubmitAccepted,
             SubmitAnswerLost, PollWorking, PollFailed, PollCancelled, PollSucceeded,
             Downloaded, RegistrationFails, Purged, PurgeAnswerLost, WorkerCallFails
    <2>3. CASE StopStep(c)
      BY <1>1, <2>3, UpdateWritesOne
         DEF StopStep, CancelWorker, TerminatePod, TerminateFails, TerminateAnswerLost,
             ForgetToken, ForgetTokenFails, StopFails
    <2>4. CASE ReadTokens(c) \/ CallFails(c)
      BY <2>4, UpdateWritesOne DEF ReadTokens, CallFails
    <2>. QED
      BY <1>5, <2>1, <2>2, <2>3, <2>4 DEF Resume
  <1>. QED
    BY <1>2, <1>3, <1>4, <1>5 DEF Next

(* Only six steps touch a Pod, and each touches one.                       *)
LEMMA StepsChangeOnePod ==
  ASSUME IInv, [Next]_vars
  PROVE  pods' = pods \/ OnePodChanges
  <1>1. TypeOK
    BY DEF IInv
  <1>2. CASE UserStep \/ TimerStep \/ Crash \/ CrashBetweenWrites \/ UNCHANGED vars
    BY <1>2
       DEF UserStep, ApproveJob, ReviewMedia, QueueStart, ReconcileByUser, CancelStart,
           TimerStep, TimerList, TimerReconcile, Crash, CrashBetweenWrites, environment, vars
  <1>3. CASE ProviderStep
    <2>1. PICK l \in Lease : PodStarts(l) \/ PodExits(l) \/ PodForgotten(l) \/ WorkerFinishes(l)
      BY <1>3 DEF ProviderStep
    <2>. QED
      BY <1>1, <2>1
         DEF TypeOK, PodStarts, PodExits, PodForgotten, WorkerFinishes, OnePodChanges
  <1>4. ASSUME NEW c \in Caller, CreatePod(c) \/ TerminatePod(c) \/ TerminateAnswerLost(c)
        PROVE  OnePodChanges
    <2>. USE DEF CreatePod, TerminatePod, TerminateAnswerLost
    <2>1. /\ call[c].pc \in {"create", "terminate"} /\ CallIsSound(call[c])
          /\ call[c].job \in Job /\ JobOf(c) \in JobRecord
      BY <1>4, CallContext DEF At
    <2>2. /\ call[c].lease \in Lease
          /\ call[c].pc = "terminate" => pods[call[c].lease] # "absent"
      BY <2>1 DEF CallIsSound, LeasedAwait, FoundAwait, Await
    <2>3. jobs' = jobs \/ Save(c, WithRecoverableError(JobOf(c)))
      BY <1>4 DEF StopFails
    <2>4. \A j \in Job : jobs'[j].workerClosed = jobs[j].workerClosed
      BY <1>1, <2>1, <2>3, RecoverableErrorFields DEF TypeOK, Save, JobOf, KeepsIdentity
    <2>5. /\ \A m \in Lease : m # call[c].lease => pods'[m] = pods[m]
          /\ pods[call[c].lease] = "absent" => pods'[call[c].lease] \in {"absent", "requested"}
      BY <1>1, <1>4, <2>2 DEF At, Stopping, TypeOK
    <2>. QED
      BY <2>2, <2>4, <2>5 DEF OnePodChanges
  <1>5. ASSUME NEW c \in Caller, Resume(c)
        PROVE  pods' = pods \/ OnePodChanges
    <2>1. CASE QueueStep(c)
      BY <1>4, <2>1
         DEF QueueStep, QueueRefreshed, QueueStore, QueueAssign, QueueUnstore,
             CreateAnswered, CreateUncertain, environment
    <2>2. CASE ReconcileStep(c)
      BY <2>2
         DEF ReconcileStep, WorkerFound, WorkerFoundTooLate, WorkerNotFound, CloseStopped,
             ReadLeaseToken, PreflightPasses, PreflightRejects, SubmitAccepted,
             SubmitAnswerLost, Polls, PollWorking, PollFailed, PollCancelled, PollSucceeded,
             Downloaded, RegistrationFails, Purged, PurgeAnswerLost, WorkerCallFails, environment
    <2>3. CASE StopStep(c)
      BY <1>4, <2>3
         DEF StopStep, CancelWorker, TerminateFails, ForgetToken, ForgetTokenFails, environment
    <2>4. CASE ReadTokens(c) \/ CallFails(c)
      BY <2>4 DEF ReadTokens, CallFails, environment
    <2>. QED
      BY <1>5, <2>1, <2>2, <2>3, <2>4 DEF Resume
  <1>. QED
    BY <1>2, <1>3, <1>4, <1>5 DEF Next

-----------------------------------------------------------------------------
(* A step with no Pod touched closes the lease of at most one job.         *)
LEMMA JobStepRefines ==
  ASSUME IInv, IInv', Advance, OneJobWritten, pods' = pods
  PROVE  [Audit!AuditNext]_(Audit!audit)
  <1>1. \A j \in Job : /\ jobs'[j].workerLeaseId = jobs[j].workerLeaseId
                       /\ jobs[j].workerClosed => jobs'[j].workerClosed
    BY DEF Advance, JobsAdvance, RecordAdvances
  <1>2. /\ LeasesReserved' = LeasesReserved
        /\ LeasesBilling' = LeasesBilling
        /\ LeasesEnded' = LeasesEnded
    BY <1>1 DEF LeasesReserved, LeasesBilling, LeasesEnded
  <1>3. CASE \A j \in Job : jobs'[j].workerClosed => jobs[j].workerClosed
    <2>1. LeasesClosed' = LeasesClosed
      BY <1>1, <1>2, <1>3 DEF LeasesClosed
    <2>. QED
      BY <1>2, <2>1 DEF Audit!audit
  <1>4. ASSUME NEW j \in Job, jobs'[j].workerClosed, ~ jobs[j].workerClosed
        PROVE  Audit!AuditNext
    <2>. DEFINE l == jobs[j].workerLeaseId
    <2>1. l \in Lease /\ pods[l] \in StoppedPod
      BY <1>1, <1>4 DEF IInv, JobsAreSound, JobIsSound
    <2>2. l \in LeasesReserved /\ l \in LeasesEnded
      BY <2>1, LeaseAssumption DEF LeasesReserved, LeasesEnded
    <2>3. \A i \in Job : jobs[i].workerLeaseId = l => i = j
      BY <2>1, LeaseAssumption DEF IInv, LeasesAreOwned
    <2>4. l \notin LeasesClosed
      BY <1>4, <2>3 DEF LeasesClosed
    <2>5. \A i \in Job : i # j => jobs'[i] = jobs[i]
      BY <1>4 DEF OneJobWritten
    <2>6. LeasesClosed' = LeasesClosed \cup {l}
      BY <1>1, <1>2, <1>4, <2>2, <2>5 DEF LeasesClosed
    <2>7. Audit!Close(l)
      BY <1>2, <2>2, <2>4, <2>6 DEF Audit!Close
    <2>. QED
      BY <2>1, <2>7 DEF Audit!AuditNext
  <1>. QED
    BY <1>3, <1>4

(* A step that touches a Pod rents a worker, ends one, or neither.         *)
LEMMA PodStepRefines ==
  ASSUME IInv, Advance, OnePodChanges
  PROVE  [Audit!AuditNext]_(Audit!audit)
  <1>1. \A j \in Job : /\ jobs'[j].workerLeaseId = jobs[j].workerLeaseId
                       /\ jobs'[j].workerClosed = jobs[j].workerClosed
    BY DEF Advance, JobsAdvance, RecordAdvances, OnePodChanges
  <1>2. /\ LeasesReserved' = LeasesReserved
        /\ LeasesClosed' = LeasesClosed
    BY <1>1 DEF LeasesReserved, LeasesClosed
  <1>3. PICK l \in Lease :
          /\ \A m \in Lease : m # l => pods'[m] = pods[m]
          /\ pods[l] = "absent" => pods'[l] \in {"absent", "requested"}
    BY DEF OnePodChanges
  <1>4. /\ pods[l] \in PodState /\ pods'[l] \in PodState
        /\ pods[l] # "absent" => pods'[l] # "absent"
        /\ pods[l] \in StoppedPod => pods'[l] \in StoppedPod
        /\ pods'[l] # "absent" =>
             pods[l] # "absent" \/ \E j \in Job : jobs[j].workerLeaseId = l
    BY DEF IInv, TypeOK, Advance, PodsAdvance
  <1>5. CASE pods[l] = "absent" /\ pods'[l] = "requested"
    <2>1. /\ LeasesBilling' = LeasesBilling \cup {l}
          /\ LeasesEnded' = LeasesEnded
      BY <1>3, <1>5 DEF LeasesBilling, LeasesEnded, StoppedPod
    <2>2. l \in LeasesReserved
      BY <1>4, <1>5, LeaseAssumption DEF LeasesReserved
    <2>3. l \notin LeasesBilling /\ l \notin LeasesEnded /\ l \notin LeasesClosed
      BY <1>5 DEF LeasesBilling, LeasesEnded, LeasesClosed, StoppedPod,
                  IInv, JobsAreSound, JobIsSound
    <2>4. Audit!Rent(l)
      BY <1>2, <2>1, <2>2, <2>3 DEF Audit!Rent
    <2>. QED
      BY <2>4 DEF Audit!AuditNext
  <1>6. CASE pods[l] \in {"requested", "running"} /\ pods'[l] \in StoppedPod
    <2>1. /\ LeasesBilling' = LeasesBilling \ {l}
          /\ LeasesEnded' = LeasesEnded \cup {l}
          /\ l \in LeasesBilling
      BY <1>3, <1>6 DEF LeasesBilling, LeasesEnded, StoppedPod
    <2>2. Audit!End(l)
      BY <1>2, <2>1 DEF Audit!End
    <2>. QED
      BY <2>2 DEF Audit!AuditNext
  <1>7. CASE \/ pods'[l] = pods[l]
             \/ {pods[l], pods'[l]} \subseteq {"requested", "running"}
             \/ {pods[l], pods'[l]} \subseteq StoppedPod
    <2>1. LeasesBilling' = LeasesBilling /\ LeasesEnded' = LeasesEnded
      BY <1>3, <1>7 DEF LeasesBilling, LeasesEnded, StoppedPod
    <2>. QED
      BY <1>2, <2>1 DEF Audit!audit
  <1>. QED
    BY <1>3, <1>4, <1>5, <1>6, <1>7 DEF PodState, StoppedPod

(* Reserving a drawn lease, and losing the race to reserve one.            *)
LEMMA QueueAssignRefines ==
  ASSUME IInv, NEW c \in Caller, QueueAssign(c)
  PROVE  [Audit!AuditNext]_(Audit!audit)
  <1>1. /\ TypeOK /\ call[c].pc = "assign" /\ call[c].job \in Job
        /\ JobOf(c) \in JobRecord /\ JobIsSound(JobOf(c)) /\ CallIsSound(call[c])
    BY CallContext DEF QueueAssign, At
  <1>2. pods' = pods
    BY DEF QueueAssign, environment
  <1>3. CASE jobs' = jobs
    BY <1>2, <1>3 DEF Audit!audit, LeasesReserved, LeasesBilling, LeasesEnded, LeasesClosed
  <1>4. CASE CanAssign(JobOf(c)) /\ Save(c, Assigned(JobOf(c), call[c].lease))
    <2>. DEFINE l == call[c].lease
                k == call[c].job
    <2>1. /\ l \in Lease /\ l # NoLease
          /\ \A j \in Job : jobs[j].workerLeaseId # l
      BY <1>1, LeaseAssumption DEF CallIsSound, DrawnAwait
    <2>2. /\ jobs[k].workerLeaseId = NoLease
          /\ \A j \in Job : j # k => jobs'[j] = jobs[j]
          /\ jobs'[k].workerLeaseId = l
          /\ ~ jobs'[k].workerClosed
      BY <1>1, <1>4, <2>1, AssignedFields
         DEF CanAssign, JobIsSound, EarlyState, JobOf, Save, TypeOK
    <2>3. LeasesBilling' = LeasesBilling /\ LeasesEnded' = LeasesEnded
      BY <1>2 DEF LeasesBilling, LeasesEnded
    <2>4. LeasesReserved' = LeasesReserved \cup {l} /\ l \notin LeasesReserved
      BY <1>1, <2>1, <2>2 DEF LeasesReserved
    <2>5. LeasesClosed' = LeasesClosed
      BY <1>1, <2>1, <2>2, <2>4 DEF LeasesClosed, LeasesReserved
    <2>6. Audit!Reserve(l)
      BY <2>3, <2>4, <2>5 DEF Audit!Reserve
    <2>. QED
      BY <2>1, <2>6 DEF Audit!AuditNext
  <1>. QED
    BY <1>3, <1>4 DEF QueueAssign

-----------------------------------------------------------------------------
(* Nothing is reserved, rented, ended or closed at the start.              *)
LEMMA InitRefines == Init => Audit!AuditInit
  BY DEF Init, PlannedJob, Audit!AuditInit, LeasesReserved, LeasesBilling, LeasesEnded,
         LeasesClosed, StoppedPod

(* Every step of every interleaving is a step of LeaseAudit or none.       *)
LEMMA NextRefines == IInv /\ [Next]_vars => [Audit!AuditNext]_(Audit!audit)
  <1>. SUFFICES ASSUME IInv, [Next]_vars
                PROVE  [Audit!AuditNext]_(Audit!audit)
    OBVIOUS
  <1>1. CASE Advance
    BY <1>1, AdvanceKeepsInvariant, StepsWriteOne, StepsChangeOnePod, JobStepRefines,
       PodStepRefines DEF IInv
  <1>2. ASSUME NEW c \in Caller, QueueRefreshed(c)
        PROVE  UNCHANGED Audit!audit
    BY <1>2 DEF QueueRefreshed, environment, Audit!audit, LeasesReserved, LeasesBilling,
                LeasesEnded, LeasesClosed
  <1>. QED
    BY <1>1, <1>2, StepAdvances, QueueAssignRefines

(* The orchestrator, with its concurrent calls, crashes and lost answers,  *)
(* reserves a lease before renting for it, rents once per lease, and       *)
(* closes a lease only after its worker has ended.                         *)
THEOREM LeasesAreAudited == Spec => ImplementsLeaseAudit
  BY InitRefines, NextRefines, Invariance, PTL
     DEF Spec, ImplementsLeaseAudit, Audit!AuditSpec

-----------------------------------------------------------------------------
(* The saved limit on concurrent GPUs.  queueApprovedJob compares it with  *)
(* the Pods that run when the cloud status is read: the Pods requested but *)
(* not yet running, and those other calls are about to request, are not    *)
(* counted.  So the limit can be passed, but only by one Pod for each      *)
(* other queueing call, and by those a failure left behind.                *)

UserCall == Caller \ {Timer}

QueueAwait == {"refresh", "store", "storing", "assign", "unstore", "unstoring", "create", "created"}

(* A call that has drawn a lease and may still request its Pod.            *)
Drawing == {"store", "storing", "assign", "create"}

(* The leases whose Pod bills, or may be requested yet.                    *)
Claimed == LeasesBilling \cup {call[c].lease : c \in {d \in Caller : call[d].pc \in Drawing}}

(* Requested Pods that no call waits for: a failed create, or a crash.     *)
Adrift == {l \in Lease : pods[l] = "requested"
                         /\ ~ \E c \in Caller : At(c, "created") /\ call[c].lease = l}

LimitInv ==
  /\ call[Timer].pc \notin QueueAwait
  /\ IsFiniteSet(Claimed)
  /\ Cardinality(Claimed) <= MaxConcurrentGpus + (Cardinality(UserCall) - 1)
                               + Cardinality(UserCall) * faults
  /\ IsFiniteSet(Adrift)
  /\ Cardinality(Adrift) <= Cardinality(UserCall) * faults

(* No call takes a new lease, a Pod bills for a claimed lease only, and    *)
(* the timer queues nothing.                                               *)
ClaimsShrink ==
  /\ \A c \in Caller : call'[c].pc \in Drawing =>
       call[c].pc \in Drawing /\ call'[c].lease = call[c].lease
  /\ \A l \in Lease : pods'[l] \in {"requested", "running"} => l \in Claimed
  /\ call[Timer].pc \notin QueueAwait => call'[Timer].pc \notin QueueAwait

(* Every request keeps the call that waits for it, or a failure is counted *)
(* and sets adrift at most what the user's calls waited for.               *)
FewGoAdrift ==
  \/ \A l \in Lease : l \in Adrift' => l \in Adrift
  \/ /\ faults' = faults + 1
     /\ \A l \in Lease : l \in Adrift' => l \in Adrift \/ \E c \in UserCall : call[c].lease = l

(* A step of one call, not between a request and its answer, to an await   *)
(* that is not of queueApprovedJob.                                        *)
LEMMA LeavesQueue ==
  ASSUME TypeOK, NEW c \in Caller, call'[c].pc \notin QueueAwait,
         \A d \in Caller : d # c => call'[d] = call[d],
         \A l \in Lease : pods'[l] = pods[l] \/ pods'[l] \notin {"requested", "running"},
         ~ (At(c, "created") /\ pods'[call[c].lease] = "requested")
  PROVE  ClaimsShrink /\ FewGoAdrift
  <1>1. ClaimsShrink
    <2>1. \A d \in Caller : call'[d].pc \in Drawing => d # c
      BY DEF Drawing, QueueAwait
    <2>2. \A l \in Lease : pods'[l] \in {"requested", "running"} => l \in Claimed
      BY DEF Claimed, LeasesBilling
    <2>3. call[Timer].pc \notin QueueAwait => call'[Timer].pc \notin QueueAwait
      BY WorkerLifecycleAssumption
    <2>. QED
      BY <2>1, <2>2, <2>3 DEF ClaimsShrink
  <1>2. ASSUME NEW l \in Lease, l \in Adrift' PROVE l \in Adrift
    <2>1. pods'[l] = "requested" /\ ~ \E d \in Caller : call'[d].pc = "created" /\ call'[d].lease = l
      BY <1>2 DEF Adrift, At
    <2>2. pods[l] = "requested"
      BY <2>1
    <2>3. ASSUME NEW d \in Caller, call[d].pc = "created", call[d].lease = l PROVE FALSE
      BY <2>1, <2>3 DEF At
    <2>. QED
      BY <2>2, <2>3 DEF Adrift, At
  <1>. QED
    BY <1>1, <1>2 DEF FewGoAdrift

(* A step inside queueApprovedJob that keeps its lease.                    *)
LEMMA StaysInQueue ==
  ASSUME TypeOK, NEW c \in Caller, pods' = pods, call[c].pc # "created",
         \A d \in Caller : d # c => call'[d] = call[d],
         call'[c].pc \in Drawing => call[c].pc \in Drawing /\ call'[c].lease = call[c].lease,
         call'[c].pc \in QueueAwait => c # Timer
  PROVE  ClaimsShrink /\ FewGoAdrift
  <1>1. ClaimsShrink
    <2>1. \A d \in Caller : call'[d].pc \in Drawing => call[d].pc \in Drawing /\ call'[d].lease = call[d].lease
      OBVIOUS
    <2>2. \A l \in Lease : pods'[l] \in {"requested", "running"} => l \in Claimed
      BY DEF Claimed, LeasesBilling
    <2>3. call[Timer].pc \notin QueueAwait => call'[Timer].pc \notin QueueAwait
      BY WorkerLifecycleAssumption
    <2>. QED
      BY <2>1, <2>2, <2>3 DEF ClaimsShrink
  <1>2. ASSUME NEW l \in Lease, l \in Adrift' PROVE l \in Adrift
    <2>1. pods[l] = "requested" /\ ~ \E d \in Caller : call'[d].pc = "created" /\ call'[d].lease = l
      BY <1>2 DEF Adrift, At
    <2>. QED
      BY <2>1 DEF Adrift, At
  <1>. QED
    BY <1>1, <1>2 DEF FewGoAdrift

(* No call moves, and no Pod is requested.                                 *)
LEMMA CallsWait ==
  ASSUME call' = call,
         \A l \in Lease : /\ pods'[l] \in {"requested", "running"} => pods[l] \in {"requested", "running"}
                          /\ pods'[l] = "requested" => pods[l] = "requested"
  PROVE  ClaimsShrink /\ FewGoAdrift
  <1>1. ClaimsShrink
    BY DEF ClaimsShrink, Claimed, LeasesBilling
  <1>2. \A l \in Lease : l \in Adrift' => l \in Adrift
    BY DEF Adrift, At
  <1>. QED
    BY <1>1, <1>2 DEF FewGoAdrift

(* A call that returns, or that awaits something of another handler.       *)
LEMMA CallMoves ==
  ASSUME TypeOK, NEW c \in Caller
  PROVE  /\ Return(c) => call'[c].pc = "idle" /\ \A d \in Caller : d # c => call'[d] = call[d]
         /\ \A a, w : AwaitNext(c, a) \/ AwaitStop(c, a, w) =>
              /\ call'[c].pc = a /\ call'[c].lease = call[c].lease
              /\ \A d \in Caller : d # c => call'[d] = call[d]
  BY NoCallIsIdle DEF TypeOK, Return, AwaitNext, AwaitStop, Call

(* reconcileJob and cancelJob start, go on and end without a lease of      *)
(* their own.                                                              *)
LEMMA StartClaimsNothing ==
  ASSUME TypeOK, NEW c \in Caller, NEW j \in Job,
         QueueStart(c, j) \/ ReconcileByUser(c, j) \/ CancelStart(c, j) \/ (c = Timer /\ TimerReconcile(j))
  PROVE  ClaimsShrink /\ FewGoAdrift
  <1>1. pods' = pods
    BY DEF QueueStart, ReconcileByUser, CancelStart, TimerReconcile, environment
  <1>2. CASE QueueStart(c, j)
    <2>1. /\ call'[c].pc = "refresh" /\ c # Timer /\ call[c].pc = "idle"
          /\ \A d \in Caller : d # c => call'[d] = call[d]
      BY <1>2, NoCallIsIdle DEF QueueStart, TypeOK, Call, At
    <2>. QED
      BY <1>1, <2>1, StaysInQueue DEF Drawing
  <1>3. CASE ReconcileByUser(c, j) \/ (c = Timer /\ TimerReconcile(j))
    <2>0. ReconcileStart(c, j)
      BY <1>3 DEF ReconcileByUser, TimerReconcile
    <2>1. /\ call'[c].pc = "lookup" /\ call[c].pc = "idle"
          /\ \A d \in Caller : d # c => call'[d] = call[d]
      BY <2>0 DEF ReconcileStart, TypeOK, NoCall, At
    <2>. QED
      BY <1>1, <2>1, LeavesQueue DEF QueueAwait, At
  <1>4. CASE CancelStart(c, j)
    <2>1. CASE call' = call
      BY <1>1, <2>1, CallsWait
    <2>2. CASE call' # call
      <3>1. /\ call'[c].pc = "cancelWorker" /\ call[c].pc = "idle"
            /\ \A d \in Caller : d # c => call'[d] = call[d]
        BY <1>4, <2>2, NoCallIsIdle DEF CancelStart, TypeOK, Call, At
      <3>. QED
        BY <1>1, <3>1, LeavesQueue DEF QueueAwait, At
    <2>. QED
      BY <2>1, <2>2
  <1>. QED
    BY <1>2, <1>3, <1>4

LEMMA ReconcileClaimsNothing ==
  ASSUME TypeOK, NEW c \in Caller, ReconcileStep(c)
  PROVE  ClaimsShrink /\ FewGoAdrift
  <1>1. pods' = pods /\ call[c].pc # "created"
    BY DEF ReconcileStep, WorkerFound, WorkerFoundTooLate, WorkerNotFound, CloseStopped, ReadLeaseToken,
       PreflightPasses, PreflightRejects, SubmitAccepted, SubmitAnswerLost, Polls, PollWorking, PollFailed,
       PollCancelled, PollSucceeded, Downloaded, RegistrationFails, Purged, PurgeAnswerLost, WorkerCallFails,
       environment, At
  <1>2. call'[c].pc \notin QueueAwait /\ \A d \in Caller : d # c => call'[d] = call[d]
    <2>1. CASE WorkerFound(c)
      <3>1. PICK a \in {"closeStopped", "terminate", "token"} : \E seen, why :
              call' = [call EXCEPT ![c].seen = seen, ![c].pc = a, ![c].why = why]
        BY <2>1 DEF WorkerFound
      <3>. QED
        BY <3>1 DEF TypeOK, Call, QueueAwait
    <2>4. CASE Downloaded(c)
      <3>1. CASE Return(c)
        BY <3>1, CallMoves DEF QueueAwait
      <3>2. CASE ~ Return(c)
        <4>1. PICK a \in {"purge", "download"} : call' = [call EXCEPT ![c].next = @ + 1, ![c].pc = a]
          BY <2>4, <3>2 DEF Downloaded
        <4>. QED
          BY <4>1 DEF TypeOK, Call, QueueAwait
      <3>. QED
        BY <3>1, <3>2
    <2>2. CASE \/ WorkerFoundTooLate(c) \/ WorkerNotFound(c) \/ CloseStopped(c) \/ ReadLeaseToken(c)
               \/ PreflightPasses(c) \/ PreflightRejects(c)
      BY <2>2, CallMoves
         DEF WorkerFoundTooLate, WorkerNotFound, CloseStopped, ReadLeaseToken, PreflightPasses, PreflightRejects,
             QueueAwait
    <2>3. CASE \/ SubmitAccepted(c) \/ SubmitAnswerLost(c) \/ PollWorking(c) \/ PollFailed(c) \/ PollCancelled(c)
               \/ PollSucceeded(c) \/ RegistrationFails(c) \/ Purged(c) \/ PurgeAnswerLost(c) \/ WorkerCallFails(c)
      <3>1. \/ Return(c) \/ AwaitNext(c, "download")
            \/ AwaitStop(c, "terminate", "failed") \/ AwaitStop(c, "terminate", "done")
        BY <2>3
         DEF SubmitAccepted, SubmitAnswerLost, PollWorking, PollFailed, PollCancelled, PollSucceeded,
             RegistrationFails, Purged, PurgeAnswerLost, WorkerCallFails
      <3>2. CASE Return(c)
        BY <3>2, CallMoves DEF QueueAwait
      <3>4. CASE AwaitNext(c, "download")
        <4>1. call'[c].pc = "download" /\ \A d \in Caller : d # c => call'[d] = call[d]
          BY <3>4, CallMoves
        <4>. QED
          BY <4>1 DEF QueueAwait
      <3>3. ASSUME NEW why, AwaitStop(c, "terminate", why)
            PROVE  call'[c].pc = "terminate" /\ \A d \in Caller : d # c => call'[d] = call[d]
        BY <3>3, CallMoves
      <3>. QED
        BY <3>1, <3>2, <3>3, <3>4 DEF QueueAwait
    <2>. QED
      BY <2>1, <2>2, <2>3, <2>4 DEF ReconcileStep
  <1>. QED
    BY <1>1, <1>2, LeavesQueue DEF At

(* Stopping a worker ends the billing of its lease.                        *)
LEMMA StopClaimsNothing ==
  ASSUME TypeOK, NEW c \in Caller, StopStep(c) \/ CallFails(c)
  PROVE  ClaimsShrink /\ FewGoAdrift
  <1>1. \A l \in Lease : pods'[l] = pods[l] \/ pods'[l] \notin {"requested", "running"}
    BY DEF StopStep, CancelWorker, TerminatePod, TerminateFails, TerminateAnswerLost, ForgetToken,
       ForgetTokenFails, CallFails, Stopping, environment, TypeOK
  <1>2. call[c].pc # "created"
    BY DEF StopStep, CancelWorker, TerminatePod, TerminateFails, TerminateAnswerLost, ForgetToken,
       ForgetTokenFails, CallFails, At
  <1>3. call'[c].pc \notin QueueAwait /\ \A d \in Caller : d # c => call'[d] = call[d]
    <2>1. Return(c) \/ AwaitNext(c, "forget") \/ AwaitStop(c, "terminate", "cancel")
      BY DEF StopStep, CancelWorker, TerminatePod, TerminateFails, TerminateAnswerLost, ForgetToken,
             ForgetTokenFails, CallFails, StopFails
    <2>. QED
      BY <2>1, CallMoves DEF QueueAwait
  <1>. QED
    BY <1>1, <1>2, <1>3, LeavesQueue DEF At

(* The steps of queueApprovedJob after the lease is drawn.                 *)
LEMMA QueueClaimsNothing ==
  ASSUME IInv, NEW c \in Caller, call[Timer].pc \notin QueueAwait,
         ReadTokens(c) \/ (QueueStep(c) /\ ~ QueueRefreshed(c))
  PROVE  ClaimsShrink /\ FewGoAdrift
  <1>1. TypeOK /\ call[c] \in Call
    BY DEF IInv, TypeOK
  <1>2. CASE ReadTokens(c)
    <2>1. /\ call'[c].pc = TokenWrite[call[c].pc] /\ call'[c].lease = call[c].lease
          /\ call[c].pc \in {"store", "unstore", "closeStopped", "forget"}
          /\ \A d \in Caller : d # c => call'[d] = call[d]
      BY <1>1, <1>2 DEF ReadTokens, TokenWrite, TypeOK, Call
    <2>2. call'[c].pc = CASE call[c].pc = "store" -> "storing" [] call[c].pc = "unstore" -> "unstoring"
                          [] call[c].pc = "closeStopped" -> "closing" [] OTHER -> "forgetting"
      BY <2>1 DEF TokenWrite
    <2>3. pods' = pods
      BY <1>2 DEF ReadTokens, environment
    <2>4. CASE call[c].pc \in {"store", "unstore"}
      <3>1. /\ call'[c].pc \in {"storing", "unstoring"} /\ c # Timer
            /\ call'[c].pc = "storing" => call[c].pc = "store"
        BY <2>2, <2>4 DEF QueueAwait
      <3>. QED
        BY <1>1, <2>1, <2>3, <2>4, <3>1, StaysInQueue DEF Drawing
    <2>5. CASE call[c].pc \in {"closeStopped", "forget"}
      <3>1. call'[c].pc \in {"closing", "forgetting"}
        BY <2>2, <2>5
      <3>. QED
        BY <1>1, <2>1, <2>3, <2>5, <3>1, LeavesQueue DEF QueueAwait, At
    <2>. QED
      BY <2>1, <2>4, <2>5
  <1>3. CASE QueueStore(c)
    <2>1. /\ call'[c].pc = "assign" /\ call'[c].lease = call[c].lease /\ call[c].pc = "storing"
          /\ \A d \in Caller : d # c => call'[d] = call[d]
      BY <1>1, <1>3 DEF QueueStore, TypeOK, Call, At
    <2>. QED
      BY <1>1, <1>3, <2>1, StaysInQueue DEF QueueStore, environment, Drawing, QueueAwait
  <1>4. CASE QueueAssign(c)
    <2>1. /\ call'[c].pc \in {"create", "unstore"} /\ call'[c].lease = call[c].lease /\ call[c].pc = "assign"
          /\ \A d \in Caller : d # c => call'[d] = call[d]
      BY <1>1, <1>4, CallMoves DEF QueueAssign, At
    <2>. QED
      BY <1>1, <1>4, <2>1, StaysInQueue DEF QueueAssign, environment, Drawing, QueueAwait
  <1>5. CASE QueueUnstore(c)
    BY <1>1, <1>5, CallMoves, LeavesQueue DEF QueueUnstore, environment, QueueAwait, At
  <1>6. CASE CreatePod(c)
    <2>1. /\ call'[c].pc = "created" /\ call'[c].lease = call[c].lease /\ call[c].pc = "create"
          /\ c # Timer /\ \A d \in Caller : d # c => call'[d] = call[d]
      BY <1>1, <1>6, CallMoves DEF CreatePod, At, QueueAwait
    <2>2. \A l \in Lease : l # call[c].lease => pods'[l] = pods[l]
      BY <1>1, <1>6 DEF CreatePod, TypeOK
    <2>3. ClaimsShrink
      <3>1. call[c].lease \in Claimed
        BY <2>1 DEF Claimed, Drawing
      <3>2. \A l \in Lease : pods'[l] \in {"requested", "running"} => l \in Claimed
        BY <2>2, <3>1 DEF Claimed, LeasesBilling
      <3>. QED
        BY <2>1, <3>2, WorkerLifecycleAssumption DEF ClaimsShrink, Drawing
    <2>4. ASSUME NEW l \in Lease, l \in Adrift' PROVE l \in Adrift
      <3>1. pods'[l] = "requested" /\ ~ \E d \in Caller : call'[d].pc = "created" /\ call'[d].lease = l
        BY <2>4 DEF Adrift, At
      <3>2. l # call[c].lease
        BY <2>1, <3>1
      <3>3. \A d \in Caller : call[d].pc = "created" => call'[d] = call[d]
        BY <2>1
      <3>. QED
        BY <2>2, <3>1, <3>2, <3>3 DEF Adrift, At
    <2>. QED
      BY <2>3, <2>4 DEF FewGoAdrift
  <1>7. CASE CreateAnswered(c)
    BY <1>1, <1>7, CallMoves, LeavesQueue DEF CreateAnswered, Listed, PodOf, environment, QueueAwait, At
  <1>8. CASE CreateUncertain(c)
    <2>1. /\ call'[c].pc = "idle" /\ pods' = pods /\ faults' = faults + 1 /\ c # Timer
          /\ \A d \in Caller : d # c => call'[d] = call[d]
      BY <1>1, <1>8, CallMoves DEF CreateUncertain, Fault, environment, QueueAwait
    <2>2. ClaimsShrink
      BY <2>1, WorkerLifecycleAssumption DEF ClaimsShrink, Drawing, QueueAwait, Claimed, LeasesBilling
    <2>3. ASSUME NEW l \in Lease, l \in Adrift' PROVE l \in Adrift \/ call[c].lease = l
      <3>1. pods[l] = "requested" /\ ~ \E d \in Caller : call'[d].pc = "created" /\ call'[d].lease = l
        BY <2>1, <2>3 DEF Adrift, At
      <3>. QED
        BY <2>1, <3>1 DEF Adrift, At
    <2>. QED
      BY <2>1, <2>2, <2>3 DEF FewGoAdrift, UserCall
  <1>. QED
    BY <1>2, <1>3, <1>4, <1>5, <1>6, <1>7, <1>8 DEF QueueStep

(* The application dies: what its calls waited for goes adrift.            *)
LEMMA CrashClaimsNothing ==
  ASSUME TypeOK, call[Timer].pc \notin QueueAwait, Crash \/ CrashBetweenWrites
  PROVE  ClaimsShrink /\ FewGoAdrift
  <1>1. /\ pods' = pods /\ faults' = faults + 1
        /\ \A c \in Caller : call'[c].pc = "idle"
    BY NoCallIsIdle DEF Crash, CrashBetweenWrites, AppGone, Fault, environment
  <1>2. ClaimsShrink
    BY <1>1, WorkerLifecycleAssumption DEF ClaimsShrink, Drawing, QueueAwait, Claimed, LeasesBilling
  <1>3. ASSUME NEW l \in Lease, l \in Adrift' PROVE l \in Adrift \/ \E c \in UserCall : call[c].lease = l
    <2>1. pods[l] = "requested"
      BY <1>1, <1>3 DEF Adrift
    <2>2. ASSUME NEW c \in Caller, At(c, "created"), call[c].lease = l PROVE c \in UserCall
      BY <2>2 DEF UserCall, At, QueueAwait
    <2>. QED
      BY <2>1, <2>2 DEF Adrift
  <1>. QED
    BY <1>1, <1>2, <1>3 DEF FewGoAdrift

(* Every step but one claims nothing.                                      *)
LEMMA StepClaimsNothing ==
  ASSUME IInv, call[Timer].pc \notin QueueAwait, [Next]_vars
  PROVE  (ClaimsShrink /\ FewGoAdrift) \/ \E c \in UserCall : QueueRefreshed(c)
  <1>1. TypeOK
    BY DEF IInv
  <1>2. CASE UserStep
    <2>1. PICK j \in Job :
            \/ ApproveJob(j) \/ \E i \in DOMAIN jobs[j].outputs, decision \in Decision : ReviewMedia(j, i, decision)
            \/ \E c \in Caller : QueueStart(c, j) \/ ReconcileByUser(c, j) \/ CancelStart(c, j)
      BY <1>2 DEF UserStep
    <2>2. ASSUME call' = call, pods' = pods PROVE ClaimsShrink /\ FewGoAdrift
      BY <2>2, CallsWait
    <2>. QED
      BY <1>1, <2>1, <2>2, StartClaimsNothing DEF ApproveJob, ReviewMedia, environment
  <1>3. CASE TimerStep
    BY <1>1, <1>3, CallsWait, StartClaimsNothing, WorkerLifecycleAssumption DEF TimerStep, TimerList, environment
  <1>4. ASSUME NEW c \in Caller, Resume(c)
        PROVE  (ClaimsShrink /\ FewGoAdrift) \/ \E d \in UserCall : QueueRefreshed(d)
    <2>1. QueueRefreshed(c) => c \in UserCall
      BY DEF QueueRefreshed, At, UserCall, QueueAwait
    <2>. QED
      BY <1>1, <1>4, <2>1, ReconcileClaimsNothing, StopClaimsNothing, QueueClaimsNothing DEF Resume
  <1>5. CASE ProviderStep
    <2>1. PICK l \in Lease : PodStarts(l) \/ PodExits(l) \/ PodForgotten(l) \/ WorkerFinishes(l)
      BY <1>5 DEF ProviderStep
    <2>2. /\ call' = call
          /\ \A k \in Lease : /\ pods'[k] \in {"requested", "running"} => pods[k] \in {"requested", "running"}
                              /\ pods'[k] = "requested" => pods[k] = "requested"
      BY <1>1, <2>1 DEF PodStarts, PodExits, PodForgotten, WorkerFinishes, TypeOK
    <2>. QED
      BY <2>2, CallsWait
  <1>6. CASE Crash \/ CrashBetweenWrites
    BY <1>1, <1>6, CrashClaimsNothing
  <1>7. CASE UNCHANGED vars
    BY <1>7, CallsWait DEF vars
  <1>. QED
    BY <1>2, <1>3, <1>4, <1>5, <1>6, <1>7 DEF Next

(* A step counts at most one fault.                                        *)
LEMMA FaultsAreCounted ==
  ASSUME [Next]_vars
  PROVE  faults' \in {faults, faults + 1}
  <1>1. CASE UserStep \/ TimerStep \/ ProviderStep \/ Crash \/ CrashBetweenWrites \/ UNCHANGED vars
    BY <1>1
       DEF UserStep, ApproveJob, ReviewMedia, QueueStart, ReconcileByUser, CancelStart, TimerStep, TimerList,
           TimerReconcile, ProviderStep, PodStarts, PodExits, PodForgotten, WorkerFinishes, Crash,
           CrashBetweenWrites, Fault, vars
  <1>2. ASSUME NEW c \in Caller, Resume(c) PROVE faults' \in {faults, faults + 1}
    BY <1>2
       DEF Resume, ReadTokens, QueueStep, QueueRefreshed, QueueStore, QueueAssign, QueueUnstore, CreatePod,
           CreateAnswered, CreateUncertain, ReconcileStep, WorkerFound, WorkerFoundTooLate, WorkerNotFound,
           CloseStopped, ReadLeaseToken, PreflightPasses, PreflightRejects, SubmitAccepted, SubmitAnswerLost,
           Polls, PollWorking, PollFailed, PollCancelled, PollSucceeded, Downloaded, RegistrationFails, Purged,
           PurgeAnswerLost, WorkerCallFails, StopStep, CancelWorker, TerminatePod, TerminateFails,
           TerminateAnswerLost, ForgetToken, ForgetTokenFails, CallFails, FailureIf, Fault
  <1>. QED
    BY <1>1, <1>2 DEF Next

(* A set of leases held by n user calls has at most n members.             *)
LEMMA LeasesOfCalls ==
  ASSUME NEW S, IsFiniteSet(S)
  PROVE  /\ IsFiniteSet({call[c].lease : c \in S})
         /\ Cardinality({call[c].lease : c \in S}) <= Cardinality(S)
  <1>. DEFINE T == {call[c].lease : c \in S}
              f == [c \in S |-> call[c].lease]
  <1>1. f \in Surjection(S, T)
    BY DEF Surjection
  <1>. QED
    BY <1>1, FS_Surjection

(* Two sets together, and the smaller one of two.                          *)
LEMMA SizeOfUnion ==
  ASSUME NEW S, IsFiniteSet(S), NEW T, IsFiniteSet(T), NEW m \in Int, NEW n \in Int,
         Cardinality(S) <= m, Cardinality(T) <= n
  PROVE  IsFiniteSet(S \cup T) /\ Cardinality(S \cup T) <= m + n
  <1>1. IsFiniteSet(S \cap T)
    BY FS_Subset
  <1>2. Cardinality(S \cap T) \in Nat /\ Cardinality(S) \in Nat /\ Cardinality(T) \in Nat
    BY <1>1, FS_CardinalityType
  <1>3. IsFiniteSet(S \cup T) /\ Cardinality(S \cup T) = Cardinality(S) + Cardinality(T) - Cardinality(S \cap T)
    BY FS_Union
  <1>. QED
    BY <1>2, <1>3

LEMMA SizeOfPart ==
  ASSUME NEW S, IsFiniteSet(S), NEW T \in SUBSET S, NEW n \in Int, Cardinality(S) <= n
  PROVE  IsFiniteSet(T) /\ Cardinality(T) <= n
  <1>1. Cardinality(S) \in Nat /\ Cardinality(T) <= Cardinality(S) /\ IsFiniteSet(T)
    BY FS_Subset, FS_CardinalityType
  <1>2. Cardinality(T) \in Nat
    BY <1>1, FS_CardinalityType
  <1>. QED
    BY <1>1, <1>2

(* The one step that claims a lease sees fewer running Pods than the       *)
(* limit: whatever else is claimed is drawn or awaited by another user     *)
(* call, or adrift.                                                        *)
LEMMA DrawClaimsOne ==
  ASSUME IInv, LimitInv, IsFiniteSet(Caller), NEW c \in UserCall, QueueRefreshed(c)
  PROVE  LimitInv'
  <1>. DEFINE n == Cardinality(UserCall)
              S == RunningPods
              W == {call[d].lease : d \in UserCall \ {c}}
  <1>1. TypeOK /\ TypeOK' /\ UNCHANGED <<pods, faults>> /\ call[c].pc = "refresh" /\ c \in Caller /\ c # Timer
    BY NextInvariant DEF IInv, QueueRefreshed, environment, At, UserCall, Next, Resume, QueueStep
  <1>2. \A d \in Caller : d # c => call'[d] = call[d]
    BY <1>1, CallMoves DEF QueueRefreshed, TypeOK
  <1>3. /\ n \in Nat /\ faults \in Nat /\ MaxConcurrentGpus \in Nat /\ n * faults \in Nat
        /\ IsFiniteSet(UserCall \ {c}) /\ Cardinality(UserCall \ {c}) = n - 1
    <2>1. IsFiniteSet(UserCall)
      BY FS_Subset DEF UserCall
    <2>2. faults \in Nat /\ MaxConcurrentGpus \in Nat /\ n \in Nat
      BY <1>1, <2>1, FS_CardinalityType, WorkerLifecycleAssumption DEF TypeOK
    <2>. QED
      BY <2>1, <2>2, FS_RemoveElement
  <1>4. IsFiniteSet(W) /\ Cardinality(W) <= n - 1
    BY <1>3, LeasesOfCalls
  <1>5. Adrift' \subseteq Adrift
    <2>. SUFFICES ASSUME NEW l \in Lease, l \in Adrift' PROVE l \in Adrift
      BY DEF Adrift
    <2>1. pods[l] = "requested" /\ ~ \E d \in Caller : call'[d].pc = "created" /\ call'[d].lease = l
      BY <1>1 DEF Adrift, At
    <2>. QED
      BY <1>1, <1>2, <2>1 DEF Adrift, At
  <1>6. IsFiniteSet(Adrift') /\ Cardinality(Adrift') <= n * faults
    BY <1>3, <1>5, SizeOfPart DEF LimitInv
  <1>7. (call[Timer].pc \notin QueueAwait)'
    BY <1>1, <1>2, WorkerLifecycleAssumption DEF LimitInv
  <1>8. CASE ~ (Cardinality(S) < MaxConcurrentGpus)
    <2>1. call'[c].pc = "idle"
      BY <1>1, <1>8, CallMoves DEF QueueRefreshed
    <2>2. Claimed' \subseteq Claimed
      BY <1>1, <1>2, <2>1 DEF Claimed, LeasesBilling, Drawing
    <2>3. IsFiniteSet(Claimed') /\ Cardinality(Claimed') <= MaxConcurrentGpus + (n - 1) + n * faults
      BY <1>3, <2>2, SizeOfPart DEF LimitInv
    <2>. QED
      BY <1>1, <1>6, <1>7, <2>3 DEF LimitInv, UserCall
  <1>9. CASE Cardinality(S) < MaxConcurrentGpus
    <2>1. PICK l \in FreshLeases : call' = [call EXCEPT ![c].pc = "store", ![c].lease = l]
      BY <1>9 DEF QueueRefreshed
    <2>2. call'[c].lease = l
      BY <1>1, <2>1 DEF TypeOK, Call
    <2>3. Claimed' \subseteq ((S \cup Adrift) \cup W) \cup {l}
      <3>. SUFFICES ASSUME NEW x \in Claimed', x # l PROVE x \in (S \cup Adrift) \cup W
        OBVIOUS
      <3>1. CASE x \in LeasesBilling'
        <4>1. x \in Lease /\ pods[x] \in {"requested", "running"}
          BY <1>1, <3>1 DEF LeasesBilling
        <4>2. ASSUME NEW d \in Caller, At(d, "created"), call[d].lease = x PROVE x \in W
          BY <1>1, <4>2 DEF At, UserCall, LimitInv, QueueAwait
        <4>. QED
          BY <4>1, <4>2 DEF Adrift, RunningPods
      <3>2. ASSUME NEW d \in Caller, call'[d].pc \in Drawing, x = call'[d].lease PROVE x \in W
        BY <1>2, <1>7, <2>2, <3>2 DEF UserCall, QueueAwait, Drawing
      <3>. QED
        BY <3>1, <3>2 DEF Claimed
    <2>4. IsFiniteSet(S) /\ Cardinality(S) <= MaxConcurrentGpus - 1
      <3>1. S \subseteq Claimed
        BY DEF RunningPods, Claimed, LeasesBilling
      <3>2. IsFiniteSet(S)
        BY <3>1, FS_Subset DEF LimitInv
      <3>. QED
        BY <1>3, <1>9, <3>2, FS_CardinalityType
    <2>5. IsFiniteSet(S \cup Adrift) /\ Cardinality(S \cup Adrift) <= (MaxConcurrentGpus - 1) + n * faults
      <3>1. /\ IsFiniteSet(Adrift) /\ Cardinality(Adrift) <= n * faults
            /\ MaxConcurrentGpus - 1 \in Int /\ n * faults \in Int
        BY <1>3 DEF LimitInv
      <3>. HIDE DEF n, S
      <3>. QED
        BY <2>4, <3>1, SizeOfUnion
    <2>6. IsFiniteSet(W \cup {l}) /\ Cardinality(W \cup {l}) <= (n - 1) + 1
      <3>1. IsFiniteSet({l}) /\ Cardinality({l}) <= 1 /\ n - 1 \in Int /\ 1 \in Int
        <4>1. IsFiniteSet({l}) /\ Cardinality({l}) = 1
          BY FS_Singleton, Zenon
        <4>. QED
          BY <1>3, <4>1
      <3>. HIDE DEF n, W
      <3>. QED
        BY <1>4, <3>1, SizeOfUnion
    <2>7. /\ IsFiniteSet((S \cup Adrift) \cup (W \cup {l}))
          /\ Cardinality((S \cup Adrift) \cup (W \cup {l})) <= ((MaxConcurrentGpus - 1) + n * faults) + ((n - 1) + 1)
      <3>1. (MaxConcurrentGpus - 1) + n * faults \in Int /\ (n - 1) + 1 \in Int
        BY <1>3
      <3>. HIDE DEF n, W, S
      <3>. QED
        BY <2>5, <2>6, <3>1, SizeOfUnion
    <2>8. IsFiniteSet(Claimed') /\ Cardinality(Claimed') <= ((MaxConcurrentGpus - 1) + n * faults) + ((n - 1) + 1)
      <3>1. ((MaxConcurrentGpus - 1) + n * faults) + ((n - 1) + 1) \in Int
        BY <1>3
      <3>2. Claimed' \in SUBSET ((S \cup Adrift) \cup (W \cup {l}))
        BY <2>3
      <3>. HIDE DEF n, W, S
      <3>. QED
        BY <2>7, <3>1, <3>2, SizeOfPart
    <2>9. Cardinality(Claimed') <= MaxConcurrentGpus + (n - 1) + n * faults
      <3>1. ((MaxConcurrentGpus - 1) + n * faults) + ((n - 1) + 1) = MaxConcurrentGpus + (n - 1) + n * faults
        BY <1>3
      <3>. QED
        BY <2>8, <3>1
    <2>. QED
      BY <1>1, <1>6, <1>7, <2>8, <2>9 DEF LimitInv, UserCall
  <1>. QED
    BY <1>8, <1>9

(* Any other step claims nothing, and what a failure sets adrift was one   *)
(* lease for each user call.                                               *)
LEMMA OthersKeepLimit ==
  ASSUME IInv, LimitInv, IsFiniteSet(Caller), IInv', faults' \in {faults, faults + 1},
         ClaimsShrink, FewGoAdrift
  PROVE  LimitInv'
  <1>. DEFINE n == Cardinality(UserCall)
              W == {call[c].lease : c \in UserCall}
  <1>1. /\ IsFiniteSet(UserCall) /\ n \in Nat /\ faults \in Nat /\ MaxConcurrentGpus \in Nat
        /\ n * faults \in Nat /\ n * (faults + 1) = n * faults + n
        /\ n * faults' \in Nat /\ n * faults <= n * faults'
    <2>1. IsFiniteSet(UserCall)
      BY FS_Subset DEF UserCall
    <2>2. faults \in Nat /\ MaxConcurrentGpus \in Nat /\ n \in Nat
      BY <2>1, FS_CardinalityType, WorkerLifecycleAssumption DEF TypeOK, IInv
    <2>. HIDE DEF n
    <2>3. n * faults \in Nat /\ n * (faults + 1) = n * faults + n
      BY <2>2
    <2>4. n * faults' = n * faults \/ n * faults' = n * faults + n
      BY <2>3
    <2>5. n * faults' \in Nat /\ n * faults <= n * faults'
      <3>1. PICK p : p = n * faults
        OBVIOUS
      <3>2. PICK q : q = n * faults'
        OBVIOUS
      <3>3. p \in Nat /\ (q = p \/ q = p + n)
        BY <2>3, <2>4, <3>1, <3>2, Zenon
      <3>4. q \in Nat /\ p <= q
        BY <2>2, <3>3
      <3>. QED
        BY <3>1, <3>2, <3>4, Zenon
    <2>. QED
      BY <2>1, <2>2, <2>3, <2>5
  <1>2. Claimed' \subseteq Claimed
    BY DEF ClaimsShrink, Claimed, LeasesBilling
  <1>3. (call[Timer].pc \notin QueueAwait)'
    BY DEF ClaimsShrink, LimitInv
  <1>4. IsFiniteSet(Claimed') /\ Cardinality(Claimed') <= MaxConcurrentGpus + (n - 1) + n * faults
    <2>1. /\ IsFiniteSet(Claimed) /\ Cardinality(Claimed) <= MaxConcurrentGpus + (n - 1) + n * faults
          /\ MaxConcurrentGpus + (n - 1) + n * faults \in Int
      BY <1>1 DEF LimitInv
    <2>. HIDE DEF n
    <2>. QED
      BY <1>2, <2>1, SizeOfPart
  <1>5. Cardinality(Claimed') <= MaxConcurrentGpus + (n - 1) + n * faults'
    <2>1. Cardinality(Claimed') \in Nat
      BY <1>4, FS_CardinalityType
    <2>. HIDE DEF n
    <2>. QED
      BY <1>1, <1>4, <2>1
  <1>6. IsFiniteSet(Adrift') /\ Cardinality(Adrift') <= n * faults'
    <2>1. CASE \A l \in Lease : l \in Adrift' => l \in Adrift
      <3>1. Adrift' \in SUBSET Adrift
        BY <2>1 DEF Adrift
      <3>2. IsFiniteSet(Adrift') /\ Cardinality(Adrift') <= n * faults /\ Cardinality(Adrift') \in Nat
        <4>1. IsFiniteSet(Adrift) /\ Cardinality(Adrift) <= n * faults /\ n * faults \in Int
          BY <1>1 DEF LimitInv
        <4>. HIDE DEF n
        <4>2. IsFiniteSet(Adrift') /\ Cardinality(Adrift') <= n * faults
          BY <3>1, <4>1, SizeOfPart
        <4>. QED
          BY <4>2, FS_CardinalityType
      <3>. HIDE DEF n
      <3>. QED
        BY <1>1, <3>2
    <2>2. CASE /\ faults' = faults + 1
               /\ \A l \in Lease : l \in Adrift' => l \in Adrift \/ \E c \in UserCall : call[c].lease = l
      <3>1. IsFiniteSet(W) /\ Cardinality(W) <= n
        BY <1>1, LeasesOfCalls
      <3>2. IsFiniteSet(Adrift \cup W) /\ Cardinality(Adrift \cup W) <= n * faults + n
        <4>1. /\ IsFiniteSet(Adrift) /\ Cardinality(Adrift) <= n * faults
              /\ n * faults \in Int /\ n \in Int
          BY <1>1 DEF LimitInv
        <4>. HIDE DEF n, W
        <4>. QED
          BY <3>1, <4>1, SizeOfUnion
      <3>3. Adrift' \in SUBSET (Adrift \cup W)
        BY <2>2 DEF Adrift
      <3>4. n * faults + n \in Int
        BY <1>1
      <3>5. IsFiniteSet(Adrift') /\ Cardinality(Adrift') <= n * faults + n
        BY <3>2, <3>3, <3>4, SizeOfPart
      <3>. QED
        BY <1>1, <2>2, <3>5
    <2>. QED
      BY <2>1, <2>2 DEF FewGoAdrift
  <1>. QED
    BY <1>3, <1>4, <1>5, <1>6 DEF LimitInv, UserCall

(* The bound on claimed leases is kept by every step.                      *)
THEOREM LimitInvariance ==
  ASSUME IsFiniteSet(Caller), Caller # {Timer}
  PROVE  Spec => [](IInv /\ LimitInv)
  <1>1. IsFiniteSet(UserCall) /\ Cardinality(UserCall) \in Nat /\ Cardinality(UserCall) >= 1
    <2>1. IsFiniteSet(UserCall) /\ UserCall # {}
      BY FS_Subset, WorkerLifecycleAssumption DEF UserCall
    <2>. QED
      BY <2>1, FS_EmptySet, FS_CardinalityType
  <1>2. Init => LimitInv
    <2>. SUFFICES ASSUME Init PROVE LimitInv
      OBVIOUS
    <2>1. Claimed = {} /\ Adrift = {} /\ faults = 0 /\ call[Timer].pc = "idle"
      BY NoCallIsIdle, WorkerLifecycleAssumption DEF Init, Claimed, Adrift, LeasesBilling, Drawing
    <2>. QED
      BY <1>1, <2>1, FS_EmptySet, WorkerLifecycleAssumption DEF LimitInv, QueueAwait
  <1>3. IInv /\ LimitInv /\ [Next]_vars => IInv' /\ LimitInv'
    <2>. SUFFICES ASSUME IInv, LimitInv, [Next]_vars PROVE IInv' /\ LimitInv'
      OBVIOUS
    <2>1. IInv'
      BY NextInvariant
    <2>2. faults' \in {faults, faults + 1}
      BY FaultsAreCounted
    <2>. QED
      BY <2>1, <2>2, StepClaimsNothing, DrawClaimsOne, OthersKeepLimit DEF LimitInv
  <1>. QED
    BY InitInvariant, <1>2, <1>3, PTL DEF Spec

(* However the calls interleave and whatever fails, the Pods that bill     *)
(* exceed the saved limit by at most one for each other user call and, for *)
(* each fault, one for each user call.                                     *)
THEOREM GpuLimitIsPassedByFew ==
  ASSUME IsFiniteSet(Caller), Caller # {Timer}
  PROVE  Spec => [](Cardinality(LeasesBilling) <= MaxConcurrentGpus + (Cardinality(UserCall) - 1)
                                                    + Cardinality(UserCall) * faults)
  <1>. DEFINE n == Cardinality(UserCall)
  <1>1. n \in Nat
    <2>1. IsFiniteSet(UserCall)
      BY FS_Subset DEF UserCall
    <2>. QED
      BY <2>1, FS_CardinalityType
  <1>2. IInv /\ LimitInv => Cardinality(LeasesBilling) <= MaxConcurrentGpus + (n - 1) + n * faults
    <2>. SUFFICES ASSUME IInv, LimitInv PROVE Cardinality(LeasesBilling) <= MaxConcurrentGpus + (n - 1) + n * faults
      OBVIOUS
    <2>1. LeasesBilling \in SUBSET Claimed
      BY DEF Claimed
    <2>2. faults \in Nat /\ MaxConcurrentGpus \in Nat
      BY WorkerLifecycleAssumption DEF IInv, TypeOK
    <2>3. IsFiniteSet(Claimed) /\ Cardinality(Claimed) <= MaxConcurrentGpus + (n - 1) + n * faults
      BY DEF LimitInv
    <2>. HIDE DEF n
    <2>4. MaxConcurrentGpus + (n - 1) + n * faults \in Int
      BY <1>1, <2>2
    <2>. QED
      BY <2>1, <2>3, <2>4, SizeOfPart
  <1>. QED
    BY LimitInvariance, <1>2, PTL

(* One user call at a time and no failure: the limit holds as it is saved. *)
THEOREM SerialQueueingKeepsLimit ==
  ASSUME NEW user, user # Timer, Caller = {Timer, user}, MaxFaults = 0
  PROVE  Spec => []WithinGpuLimit
  <1>1. /\ IsFiniteSet(Caller) /\ Caller # {Timer}
        /\ IsFiniteSet(UserCall) /\ Cardinality(UserCall) = 1
    <2>1. Caller = {Timer} \cup {user} /\ UserCall = {user}
      BY DEF UserCall
    <2>2. IsFiniteSet(Caller)
      BY <2>1, FS_Singleton, FS_AddElement
    <2>. QED
      BY <2>1, <2>2, FS_Singleton
  <1>2. IInv /\ LimitInv => WithinGpuLimit
    <2>. SUFFICES ASSUME LimitInv, TypeOK PROVE WithinGpuLimit
      BY DEF IInv
    <2>1. faults = 0 /\ MaxConcurrentGpus \in Nat
      BY WorkerLifecycleAssumption DEF TypeOK
    <2>2. Cardinality(Claimed) <= MaxConcurrentGpus /\ IsFiniteSet(Claimed) /\ RunningPods \in SUBSET Claimed
      BY <1>1, <2>1 DEF LimitInv, Claimed, LeasesBilling, RunningPods
    <2>. QED
      BY <2>1, <2>2, SizeOfPart DEF WithinGpuLimit
  <1>3. Spec => [](IInv /\ LimitInv)
    BY <1>1, LimitInvariance
  <1>. QED
    BY <1>2, <1>3, PTL
=============================================================================
