------------------------ MODULE WorkerGateway_proofs ------------------------
(***************************************************************************)
(* Proofs about WorkerGateway, for any number of submissions.              *)
(***************************************************************************)
EXTENDS WorkerGateway, TLAPS

(* An execution that has an await left is not over.                        *)
Executing == {"release", "process", "stage", "prompt", "poll", "collect"}

(* The runner and its folder: a purge takes the inputs with the folder, so *)
(* that no second runner starts beside one that is left over.              *)
RunnerIsSound ==
  /\ \A s \in Submission :
       /\ pc[s] = "process" => child[s] # "none"
       /\ child[s] # "none" => runnerOutput \/ ~ inputs
  /\ jobProcesses # NoSubmission => child[jobProcesses] # "none"

GatewayInv == /\ TypeOK
              /\ RestartFindsTheAnswer
              /\ ActiveIsExecuted
              /\ SucceededIsServed
              /\ OneRunner
              /\ RunnerIsSound

-----------------------------------------------------------------------------
LEMMA InitGateway == Init => GatewayInv
  <1>. SUFFICES ASSUME Init
                PROVE  GatewayInv
    OBVIOUS
  <1>1. NewJob \in Job /\ NotStored \in Stored /\ NotStored.by = NoSubmission
    BY DEF NewJob, Job, State, NotStored, Stored
  <1>2. TypeOK
    BY <1>1 DEF Init, TypeOK, Await
  <1>3. RestartFindsTheAnswer /\ ActiveIsExecuted /\ SucceededIsServed
    BY <1>1 DEF Init, RestartFindsTheAnswer, ActiveIsExecuted, SucceededIsServed, Known
  <1>4. OneRunner /\ RunnerIsSound
    BY DEF Init, OneRunner, RunnerIsSound
  <1>. QED
    BY <1>2, <1>3, <1>4 DEF GatewayInv

(* What writing a job's state does.                                        *)
LEMMA PersistTyped ==
  ASSUME TypeOK, NEW s \in Submission, NEW state \in State, PersistState(s, state)
  PROVE  /\ job' \in [Submission -> Job] /\ job'[s].state = state
         /\ jobs' = s /\ disk'.by = s /\ disk'.state = state /\ disk' \in Stored
  BY GatewayAssumption DEF TypeOK, PersistState, Persist, Job, Stored

(* A failure leaves a job that is over.                                    *)
LEMMA FailTyped ==
  ASSUME TypeOK, NEW s \in Submission, Fail(s)
  PROVE  /\ job' \in [Submission -> Job] /\ job'[s].state \in {"failed", "cancelled"}
         /\ jobs' = s /\ disk'.by = s /\ disk'.state = job'[s].state /\ disk' \in Stored
         /\ pc' = [pc EXCEPT ![s] = "ended"]
  <1>. DEFINE state == IF job[s].state = "cancelled" THEN "cancelled" ELSE "failed"
  <1>1. state \in State /\ state \in {"failed", "cancelled"}
    BY DEF State
  <1>2. PersistState(s, state) /\ pc' = [pc EXCEPT ![s] = "ended"]
    BY DEF Fail, AwaitNext
  <1>. HIDE DEF state
  <1>. QED
    BY <1>1, <1>2, PersistTyped

(* The invariant in terms of what the last persisted object became.        *)
LEMMA WrittenKeeps ==
  ASSUME UNCHANGED engine, GatewayInv, NEW s \in Submission, NEW a \in Await,
         job' \in [Submission -> Job], jobs' = s,
         disk' \in Stored, disk'.by = s, disk'.state = job'[s].state,
         pc' = [pc EXCEPT ![s] = a],
         job'[s].state \in Active => a \in Executing,
         job'[s].state = "succeeded" => s \in artifacts' \/ collected,
         artifacts' \subseteq Submission, prompt' \in [Submission ->
           {"none", "pending", "executing", "done", "error", "deleted"}],
         cancelling' \subseteq Submission, collected' = collected, inputs' = inputs,
         a = "process" => child'[s] # "none",
         child' \in [Submission -> {"none", "running", "stopping"}],
         \A t \in Submission : child'[t] = "none" <=> child[t] = "none",
         jobProcesses' = jobProcesses, runnerOutput' \in {runnerOutput, TRUE}
  PROVE  GatewayInv'
  <1>1. \A t \in Submission : pc'[t] = IF t = s THEN a ELSE pc[t]
    BY DEF GatewayInv, TypeOK
  <1>2. TypeOK'
    BY DEF GatewayInv, TypeOK
  <1>3. RestartFindsTheAnswer' /\ ActiveIsExecuted' /\ SucceededIsServed'
    BY <1>1, GatewayAssumption
       DEF RestartFindsTheAnswer, ActiveIsExecuted, SucceededIsServed, Known, Executing
  <1>4. OneRunner'
    BY DEF GatewayInv, OneRunner
  <1>5. RunnerIsSound'
    BY <1>1 DEF GatewayInv, RunnerIsSound, TypeOK
  <1>. QED
    BY <1>2, <1>3, <1>4, <1>5 DEF GatewayInv

(* A step that writes no job.                                              *)
LEMMA UnwrittenKeeps ==
  ASSUME UNCHANGED engine, GatewayInv, NEW s \in Submission, NEW a \in Await,
         UNCHANGED <<job, jobs, disk>>,
         pc' = [pc EXCEPT ![s] = a],
         jobs = s /\ job[s].state \in Active => a \in Executing,
         artifacts \subseteq artifacts', artifacts' \subseteq Submission,
         prompt' \in [Submission -> {"none", "pending", "executing", "done", "error", "deleted"}],
         cancelling' \subseteq Submission, collected' \in {collected, TRUE}, inputs' = inputs,
         runnerOutput' \in BOOLEAN, runnerOutput => runnerOutput',
         child' \in [Submission -> {"none", "running", "stopping"}],
         jobProcesses' \in Submission \cup {NoSubmission},
         OneRunner', RunnerIsSound'
  PROVE  GatewayInv'
  <1>1. \A t \in Submission : pc'[t] = IF t = s THEN a ELSE pc[t]
    BY DEF GatewayInv, TypeOK
  <1>2. TypeOK'
    BY DEF GatewayInv, TypeOK
  <1>3. RestartFindsTheAnswer' /\ ActiveIsExecuted' /\ SucceededIsServed'
    BY <1>1, GatewayAssumption
       DEF GatewayInv, TypeOK, RestartFindsTheAnswer, ActiveIsExecuted, SucceededIsServed, Known, Executing
  <1>. QED
    BY <1>2, <1>3 DEF GatewayInv

(* What is used of the type invariant.                                     *)
LEMMA GatewayTyped ==
  ASSUME GatewayInv
  PROVE  /\ TypeOK
         /\ engine \in Engines
         /\ pc \in [Submission -> Await] /\ job \in [Submission -> Job]
         /\ jobs \in Submission \cup {NoSubmission} /\ disk \in Stored
         /\ inputs \in BOOLEAN /\ runnerOutput \in BOOLEAN /\ artifacts \subseteq Submission
         /\ child \in [Submission -> {"none", "running", "stopping"}]
         /\ jobProcesses \in Submission \cup {NoSubmission}
         /\ prompt \in [Submission -> {"none", "pending", "executing", "done", "error", "deleted"}]
         /\ cancelling \subseteq Submission /\ collected \in BOOLEAN
         /\ OneRunner /\ RunnerIsSound
  BY DEF GatewayInv, TypeOK

-----------------------------------------------------------------------------
(* Submissions.                                                            *)
LEMMA SubmitSteps ==
  ASSUME UNCHANGED engine, GatewayInv, NEW s \in Submission,
         SubmitArrives(s) \/ InputsRefused(s) \/ SubmitAccepted(s)
  PROVE  GatewayInv'
  <1>1. CASE SubmitAccepted(s)
    <2>. DEFINE a == IF engine = "worker-python" THEN "release" ELSE "stage"
    <2>1. a \in Await /\ a \in Executing /\ a # "process" /\ a # "ended"
      BY DEF Await, Executing
    <2>2. /\ job' = [job EXCEPT ![s] = [NewJob EXCEPT !.state = "running"]]
          /\ disk' = [by |-> s, state |-> "running"] /\ jobs' = s
          /\ pc' = [pc EXCEPT ![s] = a]
          /\ UNCHANGED <<inputs, runnerOutput, artifacts, child, jobProcesses, prompt,
                         cancelling, collected>>
      BY <1>1 DEF SubmitAccepted, Persist, AwaitNext, NewJob, files, runner
    <2>3. [NewJob EXCEPT !.state = "running"] \in Job
      BY DEF NewJob, Job, State
    <2>4. /\ job' \in [Submission -> Job] /\ job'[s].state = "running"
          /\ disk' \in Stored /\ disk'.by = s /\ disk'.state = "running"
      BY <2>2, <2>3, GatewayTyped DEF Stored, State, NewJob
    <2>. HIDE DEF a
    <2>. QED
      BY <2>1, <2>2, <2>4, GatewayTyped, WrittenKeeps
  <1>2. CASE SubmitArrives(s)
    <2>1. pc' = [pc EXCEPT ![s] = "inputs"] /\ jobs = NoSubmission
      BY <1>2 DEF SubmitArrives, AwaitNext
    <2>2. UNCHANGED <<job, jobs, disk, inputs, runnerOutput, artifacts, child, jobProcesses, prompt,
                      cancelling, collected>>
      BY <1>2 DEF SubmitArrives, files, runner
    <2>3. OneRunner' /\ RunnerIsSound'
      BY <2>1, <2>2, GatewayTyped DEF OneRunner, RunnerIsSound
    <2>. QED
      BY <2>1, <2>2, <2>3, GatewayTyped, UnwrittenKeeps, GatewayAssumption DEF Await
  <1>3. CASE InputsRefused(s)
    <2>1. pc' = [pc EXCEPT ![s] = "ended"] /\ pc[s] = "inputs"
      BY <1>3 DEF InputsRefused, AwaitNext
    <2>2. UNCHANGED <<job, jobs, disk, inputs, runnerOutput, artifacts, child, jobProcesses, prompt,
                      cancelling, collected>>
      BY <1>3 DEF InputsRefused, files, runner
    <2>3. ~ (jobs = s /\ job[s].state \in Active)
      BY <2>1, GatewayAssumption DEF GatewayInv, ActiveIsExecuted, Known
    <2>4. OneRunner' /\ RunnerIsSound'
      BY <2>1, <2>2, GatewayTyped DEF OneRunner, RunnerIsSound
    <2>. QED
      BY <2>1, <2>2, <2>3, <2>4, GatewayTyped, UnwrittenKeeps DEF Await
  <1>. QED
    BY <1>1, <1>2, <1>3

(* A failing execution, whatever else its step does.                       *)
LEMMA FailKeeps ==
  ASSUME UNCHANGED engine, GatewayInv, NEW s \in Submission, Fail(s),
         artifacts' = artifacts,
         prompt' \in [Submission -> {"none", "pending", "executing", "done", "error", "deleted"}],
         UNCHANGED <<cancelling, collected, inputs, jobProcesses>>,
         child' \in [Submission -> {"none", "running", "stopping"}],
         \A t \in Submission : child'[t] = "none" <=> child[t] = "none",
         runnerOutput' \in {runnerOutput, TRUE}
  PROVE  GatewayInv'
  <1>1. /\ job' \in [Submission -> Job] /\ job'[s].state \in {"failed", "cancelled"}
        /\ jobs' = s /\ disk'.by = s /\ disk'.state = job'[s].state /\ disk' \in Stored
        /\ pc' = [pc EXCEPT ![s] = "ended"]
    BY GatewayTyped, FailTyped
  <1>2. "ended" \in Await
    BY DEF Await
  <1>3. job'[s].state \notin Active /\ job'[s].state # "succeeded"
    BY <1>1 DEF Active
  <1>. QED
    BY <1>1, <1>2, <1>3, GatewayTyped, WrittenKeeps

(* Execution in a runner.                                                  *)
LEMMA RunnerSteps ==
  ASSUME UNCHANGED engine, GatewayInv, NEW s \in Submission,
         StartRunner(s) \/ RunnerExits(s) \/ RuntimeLimit(s)
  PROVE  GatewayInv'
  <1>1. CASE StartRunner(s)
    <2>1. UNCHANGED <<inputs, artifacts, prompt, cancelling, collected>> /\ runnerOutput' = TRUE
      BY <1>1 DEF StartRunner
    <2>2. CASE Fail(s) /\ UNCHANGED runner
      BY <2>1, <2>2, GatewayTyped, FailKeeps DEF runner
    <2>3. CASE /\ ~ runnerOutput /\ inputs
               /\ child' = [child EXCEPT ![s] = "running"] /\ jobProcesses' = s
               /\ AwaitNext(s, "process") /\ UNCHANGED <<job, jobs, disk>>
      <3>1. \A t \in Submission : child'[t] = IF t = s THEN "running" ELSE child[t]
        BY <2>3, GatewayTyped
      <3>2. \A t \in Submission : child[t] = "none"
        BY <2>3, GatewayTyped DEF RunnerIsSound
      <3>3. child' \in [Submission -> {"none", "running", "stopping"}]
        BY <2>3, GatewayTyped
      <3>4. OneRunner'
        BY <3>1, <3>2 DEF OneRunner
      <3>5. RunnerIsSound'
        BY <2>1, <2>3, <3>1, <3>2, GatewayTyped DEF RunnerIsSound, AwaitNext
      <3>. QED
        BY <2>1, <2>3, <3>3, <3>4, <3>5, GatewayTyped, UnwrittenKeeps DEF AwaitNext, Await, Executing
    <2>. QED
      BY <1>1, <2>2, <2>3 DEF StartRunner
  <1>2. CASE RunnerExits(s)
    <2>1. /\ child[s] # "none" /\ child' = [child EXCEPT ![s] = "none"]
          /\ jobProcesses' = NoSubmission
          /\ UNCHANGED <<inputs, runnerOutput, artifacts, prompt, cancelling, collected>>
      BY <1>2 DEF RunnerExits, files
    <2>2. \A t \in Submission : child'[t] = "none"
      BY <2>1, GatewayTyped DEF OneRunner
    <2>3. child' \in [Submission -> {"none", "running", "stopping"}]
      BY <2>1, GatewayTyped
    <2>4. OneRunner'
      BY <2>2 DEF OneRunner
    <2>5. \A t \in Submission : t # s => pc[t] # "process"
      BY <2>1, GatewayTyped DEF OneRunner, RunnerIsSound
    <2>6. ASSUME NEW a \in Await, a # "process", pc' = [pc EXCEPT ![s] = a],
                 UNCHANGED <<job, jobs, disk>>,
                 jobs = s /\ job[s].state \in Active => a \in Executing
          PROVE  GatewayInv'
      <3>1. RunnerIsSound'
        BY <2>1, <2>2, <2>5, <2>6, GatewayTyped DEF RunnerIsSound
      <3>. QED
        BY <2>1, <2>3, <2>4, <2>6, <3>1, GatewayTyped, UnwrittenKeeps
    <2>7. CASE pc[s] = "process" /\ job[s].state = "cancelled" /\ AwaitNext(s, "ended")
               /\ UNCHANGED <<job, jobs, disk>>
      BY <2>6, <2>7 DEF AwaitNext, Active, Await
    <2>8. CASE pc[s] = "process" /\ AwaitNext(s, "collect") /\ UNCHANGED <<job, jobs, disk>>
      BY <2>6, <2>8 DEF AwaitNext, Executing, Await
    <2>9. CASE pc[s] # "process" /\ UNCHANGED <<pc, job, jobs, disk>>
      <3>1. pc' = [pc EXCEPT ![s] = pc[s]] /\ pc[s] \in Await
        BY <2>9, GatewayTyped
      <3>2. jobs = s /\ job[s].state \in Active => pc[s] \in Executing
        BY <3>1, GatewayAssumption DEF GatewayInv, ActiveIsExecuted, Known, Await, Executing
      <3>. QED
        BY <2>6, <2>9, <3>1, <3>2
    <2>10. CASE Fail(s)
      <3>1. /\ job' \in [Submission -> Job] /\ job'[s].state \in {"failed", "cancelled"}
            /\ jobs' = s /\ disk'.by = s /\ disk'.state = job'[s].state /\ disk' \in Stored
            /\ pc' = [pc EXCEPT ![s] = "ended"]
        BY <2>10, GatewayTyped, FailTyped
      <3>2. TypeOK'
        BY <2>1, <2>3, <3>1, GatewayTyped DEF TypeOK, Await
      <3>3. RestartFindsTheAnswer' /\ ActiveIsExecuted' /\ SucceededIsServed'
        BY <3>1 DEF RestartFindsTheAnswer, ActiveIsExecuted, SucceededIsServed, Known, Active
      <3>4. RunnerIsSound'
        BY <2>1, <2>2, <2>5, <3>1, GatewayTyped DEF RunnerIsSound
      <3>. QED
        BY <2>4, <3>2, <3>3, <3>4 DEF GatewayInv
    <2>. QED
      BY <1>2, <2>7, <2>8, <2>9, <2>10 DEF RunnerExits
  <1>3. CASE RuntimeLimit(s)
    <2>1. /\ pc[s] = "process" /\ child' = [child EXCEPT ![s] = "stopping"] /\ Fail(s)
          /\ UNCHANGED <<inputs, runnerOutput, artifacts, jobProcesses, prompt, cancelling, collected>>
      BY <1>3 DEF RuntimeLimit, files
    <2>2. child[s] # "none"
      BY <2>1, GatewayTyped DEF RunnerIsSound
    <2>3. /\ child' \in [Submission -> {"none", "running", "stopping"}]
          /\ \A t \in Submission : child'[t] = "none" <=> child[t] = "none"
      BY <2>1, <2>2, GatewayTyped
    <2>. QED
      BY <2>1, <2>3, GatewayTyped, FailKeeps
  <1>. QED
    BY <1>1, <1>2, <1>3

(* Execution in ComfyUI, and the outputs.                                  *)
LEMMA ExecuteSteps ==
  ASSUME UNCHANGED engine, GatewayInv, NEW s \in Submission,
         \/ StageInputs(s) \/ PromptAnswered(s) \/ PollCompleted(s)
         \/ CollectEnds(s) \/ ExecuteFails(s)
  PROVE  GatewayInv'
  <1>0. /\ {"prompt", "poll", "collect"} \subseteq Executing
        /\ {"prompt", "poll", "collect", "ended"} \subseteq Await
    BY DEF Executing, Await
  <1>1. CASE StageInputs(s)
    <2>1. /\ pc' = [pc EXCEPT ![s] = "prompt"]
          /\ UNCHANGED <<job, jobs, disk, inputs, runnerOutput, artifacts, child, jobProcesses, prompt,
                         cancelling, collected>>
      BY <1>1 DEF StageInputs, AwaitNext, files, runner
    <2>2. OneRunner' /\ RunnerIsSound'
      BY <2>1, GatewayTyped DEF OneRunner, RunnerIsSound
    <2>. QED
      BY <1>0, <2>1, <2>2, GatewayTyped, UnwrittenKeeps
  <1>2. CASE PromptAnswered(s)
    <2>1. /\ prompt' = [prompt EXCEPT ![s] = "pending"]
          /\ UNCHANGED <<inputs, runnerOutput, artifacts, child, jobProcesses, cancelling, collected>>
      BY <1>2 DEF PromptAnswered, files, runner
    <2>2. prompt' \in [Submission -> {"none", "pending", "executing", "done", "error", "deleted"}]
      BY <2>1, GatewayTyped
    <2>3. CASE Fail(s)
      BY <2>1, <2>2, <2>3, GatewayTyped, FailKeeps
    <2>4. CASE /\ job' = [job EXCEPT ![s].hasPrompt = TRUE] /\ AwaitNext(s, "poll")
               /\ UNCHANGED <<jobs, disk>>
      <3>1. /\ job' \in [Submission -> Job]
            /\ \A t \in Submission : job'[t].state = job[t].state
        BY <2>4, GatewayTyped DEF Job
      <3>2. \A t \in Submission : pc'[t] = IF t = s THEN "poll" ELSE pc[t]
        BY <2>4, GatewayTyped DEF AwaitNext
      <3>3. TypeOK'
        BY <1>0, <2>1, <2>2, <2>4, <3>1, GatewayTyped DEF TypeOK, AwaitNext
      <3>4. RestartFindsTheAnswer' /\ ActiveIsExecuted' /\ SucceededIsServed'
        BY <2>1, <2>4, <3>1, <3>2, GatewayTyped
           DEF GatewayInv, RestartFindsTheAnswer, ActiveIsExecuted, SucceededIsServed, Known
      <3>5. OneRunner' /\ RunnerIsSound'
        BY <2>1, <3>2, GatewayTyped DEF OneRunner, RunnerIsSound
      <3>. QED
        BY <3>3, <3>4, <3>5 DEF GatewayInv
    <2>. QED
      BY <1>2, <2>3, <2>4 DEF PromptAnswered
  <1>3. CASE PollCompleted(s)
    <2>1. /\ PersistState(s, "verifying") /\ pc' = [pc EXCEPT ![s] = "collect"]
          /\ UNCHANGED <<inputs, runnerOutput, artifacts, child, jobProcesses, prompt, cancelling,
                         collected>>
      BY <1>3 DEF PollCompleted, AwaitNext, files, runner
    <2>2. "verifying" \in State
      BY DEF State
    <2>3. /\ job' \in [Submission -> Job] /\ job'[s].state = "verifying"
          /\ jobs' = s /\ disk'.by = s /\ disk'.state = "verifying" /\ disk' \in Stored
      BY <2>1, <2>2, GatewayTyped, PersistTyped
    <2>. QED
      BY <1>0, <2>1, <2>3, GatewayTyped, WrittenKeeps
  <1>4. CASE CollectEnds(s)
    <2>1. /\ pc' = [pc EXCEPT ![s] = "ended"] /\ artifacts' = artifacts \cup {s}
          /\ UNCHANGED <<inputs, runnerOutput, child, jobProcesses, prompt, cancelling, collected>>
      BY <1>4 DEF CollectEnds, AwaitNext, runner
    <2>2. CASE job[s].state = "cancelled" /\ UNCHANGED <<job, jobs, disk>>
      <3>1. OneRunner' /\ RunnerIsSound'
        BY <2>1, GatewayTyped DEF OneRunner, RunnerIsSound
      <3>. QED
        BY <1>0, <2>1, <2>2, <3>1, GatewayTyped, UnwrittenKeeps DEF Active
    <2>3. CASE PersistState(s, "succeeded")
      <3>1. "succeeded" \in State /\ "succeeded" \notin Active
        BY DEF State, Active
      <3>2. /\ job' \in [Submission -> Job] /\ job'[s].state = "succeeded"
            /\ jobs' = s /\ disk'.by = s /\ disk'.state = "succeeded" /\ disk' \in Stored
        BY <2>3, <3>1, GatewayTyped, PersistTyped
      <3>. QED
        BY <1>0, <2>1, <3>1, <3>2, GatewayTyped, WrittenKeeps
    <2>. QED
      BY <1>4, <2>2, <2>3 DEF CollectEnds
  <1>5. CASE ExecuteFails(s)
    BY <1>5, GatewayTyped, FailKeeps DEF ExecuteFails, files, runner
  <1>. QED
    BY <1>1, <1>2, <1>3, <1>4, <1>5

(* Cancelling.                                                             *)
LEMMA CancelSteps ==
  ASSUME UNCHANGED engine, GatewayInv, NEW s \in Submission,
         Cancel(s) \/ CancelPrompt(s) \/ CancelAnswered(s)
  PROVE  GatewayInv'
  <1>0. pc = [pc EXCEPT ![s] = pc[s]] /\ pc[s] \in Await
    BY GatewayTyped
  <1>1. ASSUME StopProcess, PersistState(s, "cancelled"),
               UNCHANGED <<pc, inputs, runnerOutput, artifacts, jobProcesses, collected>>,
               prompt' \in [Submission -> {"none", "pending", "executing", "done", "error", "deleted"}],
               cancelling' \subseteq Submission
        PROVE  GatewayInv'
    <2>1. "cancelled" \in State /\ "cancelled" \notin Active
      BY DEF State, Active
    <2>2. /\ job' \in [Submission -> Job] /\ job'[s].state = "cancelled"
          /\ jobs' = s /\ disk'.by = s /\ disk'.state = "cancelled" /\ disk' \in Stored
      BY <1>1, <2>1, GatewayTyped, PersistTyped
    <2>3. /\ child' \in [Submission -> {"none", "running", "stopping"}]
          /\ \A t \in Submission : child'[t] = "none" <=> child[t] = "none"
      BY <1>1, GatewayTyped, GatewayAssumption DEF StopProcess, RunnerIsSound
    <2>4. pc[s] = "process" => child'[s] # "none"
      BY <2>3, GatewayTyped DEF RunnerIsSound
    <2>. QED
      BY <1>0, <1>1, <2>1, <2>2, <2>3, <2>4, GatewayTyped, WrittenKeeps
  <1>2. CASE Cancel(s)
    BY <1>1, <1>2, GatewayTyped DEF Cancel, files
  <1>3. CASE CancelPrompt(s)
    <2>1. UNCHANGED <<pc, job, jobs, disk, inputs, runnerOutput, artifacts, child, jobProcesses,
                      prompt, collected>> /\ cancelling' \subseteq Submission
      BY <1>3, GatewayTyped DEF CancelPrompt, files, runner
    <2>. QED
      BY <2>1 DEF GatewayInv, TypeOK, RestartFindsTheAnswer, ActiveIsExecuted, SucceededIsServed, Known,
                  OneRunner, RunnerIsSound
  <1>4. CASE CancelAnswered(s)
    <2>1. prompt' \in [Submission -> {"none", "pending", "executing", "done", "error", "deleted"}]
      BY <1>4, GatewayTyped DEF CancelAnswered
    <2>. QED
      BY <1>1, <1>4, <2>1, GatewayTyped DEF CancelAnswered, files
  <1>. QED
    BY <1>2, <1>3, <1>4

(* ComfyUI, the application's reading and purging, and a restart.          *)
LEMMA OtherSteps ==
  ASSUME UNCHANGED engine, GatewayInv,
         \/ \E s \in Submission : ComfyStarts(s) \/ ComfyEnds(s)
         \/ Collect \/ Purge \/ Restart
  PROVE  GatewayInv'
  <1>1. ASSUME NEW s \in Submission, ComfyStarts(s) \/ ComfyEnds(s)
        PROVE  GatewayInv'
    <2>1. prompt' \in [Submission -> {"none", "pending", "executing", "done", "error", "deleted"}]
      BY <1>1, GatewayTyped DEF ComfyStarts, ComfyEnds
    <2>2. UNCHANGED <<pc, job, jobs, disk, inputs, runnerOutput, artifacts, child, jobProcesses,
                      cancelling, collected>>
      BY <1>1 DEF ComfyStarts, ComfyEnds, files, runner
    <2>. QED
      BY <2>1, <2>2 DEF GatewayInv, TypeOK, RestartFindsTheAnswer, ActiveIsExecuted, SucceededIsServed,
                        Known, OneRunner, RunnerIsSound
  <1>2. CASE Collect
    BY <1>2 DEF Collect, files, runner, GatewayInv, TypeOK, RestartFindsTheAnswer, ActiveIsExecuted,
                SucceededIsServed, Known, OneRunner, RunnerIsSound
  <1>3. CASE Purge
    <2>1. NotStored \in Stored /\ NotStored.by = NoSubmission
      BY DEF NotStored, Stored, State
    <2>2. TypeOK'
      BY <1>3, <2>1, GatewayTyped DEF Purge, TypeOK, runner
    <2>3. RestartFindsTheAnswer' /\ ActiveIsExecuted' /\ SucceededIsServed'
      BY <1>3, <2>1 DEF Purge, RestartFindsTheAnswer, ActiveIsExecuted, SucceededIsServed, Known
    <2>4. OneRunner' /\ RunnerIsSound'
      BY <1>3, GatewayTyped DEF Purge, OneRunner, RunnerIsSound, runner
    <2>. QED
      BY <2>2, <2>3, <2>4 DEF GatewayInv
  <1>4. CASE Restart
    <2>. DEFINE state == IF disk.state \in Active THEN "failed" ELSE disk.state
    <2>1. state \in State /\ state \notin Active /\ disk.by \in Submission \cup {NoSubmission}
      BY GatewayTyped DEF Stored, State, Active
    <2>2. Load(state)
      BY <1>4 DEF Restart
    <2>3. state = "succeeded" => disk.state = "succeeded"
      OBVIOUS
    <2>. HIDE DEF state
    <2>4. /\ jobs' = disk.by /\ disk' \in Stored /\ disk'.by = disk.by
          /\ disk.by # NoSubmission => disk'.state = state
      BY <2>1, <2>2, GatewayTyped DEF Load, Stored
    <2>5. /\ job' \in [Submission -> Job]
          /\ disk.by # NoSubmission => job'[disk.by].state = state
      BY <2>1, <2>2, GatewayTyped DEF Load, Job, NewJob, State
    <2>6. pc' \in [Submission -> Await] /\ \A t \in Submission : pc'[t] \in {"none", "ended"}
      BY <2>2 DEF Load, Await
    <2>7. TypeOK'
      BY <2>1, <2>2, <2>4, <2>5, <2>6, GatewayTyped DEF Load, TypeOK, files
    <2>8. RestartFindsTheAnswer' /\ ActiveIsExecuted'
      BY <2>1, <2>4, <2>5 DEF RestartFindsTheAnswer, ActiveIsExecuted, Known
    <2>9. SucceededIsServed'
      BY <2>2, <2>3, <2>4, <2>5
         DEF GatewayInv, SucceededIsServed, RestartFindsTheAnswer, Known, Load, files
    <2>10. OneRunner' /\ RunnerIsSound'
      BY <2>2, <2>6 DEF Load, OneRunner, RunnerIsSound
    <2>. QED
      BY <2>7, <2>8, <2>9, <2>10 DEF GatewayInv
  <1>. QED
    BY <1>1, <1>2, <1>3, <1>4

(* A job keeps its workflow.                                               *)
LEMMA EngineIsKept == Next => UNCHANGED engine
  BY DEF Next, ExecuteStep, SubmitArrives, InputsRefused, SubmitAccepted, StartRunner, RunnerExits,
         RuntimeLimit, StageInputs, PromptAnswered, PollCompleted, ComfyStarts, ComfyEnds,
         CollectEnds, ExecuteFails, Cancel, CancelPrompt, CancelAnswered, Collect, Purge,
         Restart, Load

LEMMA GatewayStep == GatewayInv /\ [Next]_vars => GatewayInv'
  <1>. SUFFICES ASSUME GatewayInv, [Next]_vars
                PROVE  GatewayInv'
    OBVIOUS
  <1>1. CASE UNCHANGED vars
    BY <1>1 DEF vars, files, runner, GatewayInv, TypeOK, RestartFindsTheAnswer, ActiveIsExecuted,
                SucceededIsServed, Known, OneRunner, RunnerIsSound
  <1>2. CASE Next
    BY <1>2, EngineIsKept, SubmitSteps, RunnerSteps, ExecuteSteps, CancelSteps, OtherSteps
       DEF Next, ExecuteStep
  <1>. QED
    BY <1>1, <1>2

LEMMA GatewayInvariance == Spec => []GatewayInv
  BY InitGateway, GatewayStep, PTL DEF Spec

-----------------------------------------------------------------------------
(* The gateway's records keep their types, whatever interleaves.           *)
THEOREM GatewayTypeCorrect == Spec => []TypeOK
  <1>1. GatewayInv => TypeOK
    BY DEF GatewayInv
  <1>. QED
    BY <1>1, GatewayInvariance, PTL

(* At every await the jobs map and job.json agree, however many            *)
(* submissions, cancellations and executions persist their own objects.    *)
THEOREM AnswersAreDurable == Spec => []RestartFindsTheAnswer
  <1>1. GatewayInv => RestartFindsTheAnswer
    BY DEF GatewayInv
  <1>. QED
    BY <1>1, GatewayInvariance, PTL

(* A job reported as unfinished has an execution that will end it.         *)
THEOREM ActiveJobsAreExecuted == Spec => []ActiveIsExecuted
  <1>1. GatewayInv => ActiveIsExecuted
    BY DEF GatewayInv
  <1>. QED
    BY <1>1, GatewayInvariance, PTL

(* The outputs of a succeeded job are there until they were collected.     *)
THEOREM OutputsAreServed == Spec => []SucceededIsServed
  <1>1. GatewayInv => SucceededIsServed
    BY DEF GatewayInv
  <1>. QED
    BY <1>1, GatewayInvariance, PTL

(* Both together: what the worker answers of a job is backed.              *)
THEOREM AnswersAreBacked == Spec => []AnswerIsBacked
  BY ActiveJobsAreExecuted, OutputsAreServed, PTL DEF AnswerIsBacked

(* No two runner processes exist at once, also with overlapping            *)
(* submissions and after a purge.                                          *)
THEOREM RunnersAreExclusive == Spec => []OneRunner
  <1>1. GatewayInv => OneRunner
    BY DEF GatewayInv
  <1>. QED
    BY <1>1, GatewayInvariance, PTL

-----------------------------------------------------------------------------
(* With a runner, one submission at a time: whatever is suspended belongs  *)
(* to the job that is known, and nothing is once the outputs were fetched. *)
SerialInv ==
  /\ \A s \in Submission :
       /\ ~ job[s].hasPrompt
       /\ pc[s] \notin {"stage", "prompt", "poll"}
       /\ pc[s] = "inputs" =>
            jobs = NoSubmission /\ ~ collected /\ \A t \in Submission : pc[t] = "inputs" => t = s
       /\ pc[s] \in Executing => jobs = s /\ job[s].state \in {"running", "cancelled"}
  /\ cancelling = {}
  /\ collected => jobs = NoSubmission \/ job[jobs].state = "succeeded"

(* The answer for a known job.                                             *)
LEMMA AnswerOf ==
  /\ jobs = NoSubmission => Answer = "absent"
  /\ jobs # NoSubmission /\ job[jobs].state \in Active => Answer = "working"
  /\ jobs # NoSubmission /\ job[jobs].state \in {"succeeded", "failed", "cancelled"}
       => Answer = job[jobs].state
  BY DEF Answer, Known, Active

LEMMA AnswerNext ==
  /\ jobs' = NoSubmission => Answer' = "absent"
  /\ jobs' # NoSubmission /\ job'[jobs'].state \in Active => Answer' = "working"
  /\ jobs' # NoSubmission /\ job'[jobs'].state \in {"succeeded", "failed", "cancelled"}
       => Answer' = job'[jobs'].state
  BY DEF Answer, Known, Active

(* A job that is written while it is running, or kept as it is.            *)
LEMMA WrittenReports ==
  ASSUME NEW s \in Submission, jobs = s, jobs' = s,
         \/ job[s].state = "running" /\ job'[s].state \in {"running", "succeeded", "failed", "cancelled"}
         \/ job'[s].state = job[s].state
  PROVE  Report!ReportNext \/ Answer' = Answer
  <1>1. s # NoSubmission /\ "running" \in Active
    BY GatewayAssumption DEF Active
  <1>2. CASE job'[s].state = job[s].state
    BY <1>1, <1>2 DEF Answer, Known, Active
  <1>3. CASE job[s].state = "running" /\ job'[s].state \in {"succeeded", "failed", "cancelled"}
    <2>1. Answer = "working" /\ Answer' = job'[s].state
      BY <1>1, <1>3, AnswerOf, AnswerNext
    <2>. QED
      BY <1>3, <2>1 DEF Report!ReportNext, Report!End
  <1>. QED
    BY <1>2, <1>3

LEMMA SerialInit == Init => SerialInv /\ Report!ReportInit
  <1>. SUFFICES ASSUME Init PROVE SerialInv /\ Report!ReportInit
    OBVIOUS
  <1>1. /\ \A s \in Submission : pc[s] = "none" /\ ~ job[s].hasPrompt
        /\ jobs = NoSubmission /\ cancelling = {} /\ ~ collected
    BY DEF Init, NewJob
  <1>2. SerialInv
    BY <1>1 DEF SerialInv, Executing
  <1>3. Answer = "absent"
    BY <1>1, AnswerOf
  <1>. QED
    BY <1>2, <1>3 DEF Report!ReportInit

(* A failing execution is that of the known job.                           *)
LEMMA SerialFail ==
  ASSUME UNCHANGED engine, GatewayInv, SerialInv,
         NEW s \in Submission, pc[s] \in Executing, Fail(s),
         UNCHANGED <<cancelling, collected>>
  PROVE  SerialInv' /\ (Report!ReportNext \/ Answer' = Answer)
  <1>1. /\ jobs = s /\ job[s].state \in {"running", "cancelled"}
        /\ \A t \in Submission : pc[t] # "inputs"
        /\ \A t \in Submission : t # s => pc[t] \notin Executing
        /\ s # NoSubmission /\ ~ collected
    BY GatewayAssumption DEF SerialInv
  <1>2. /\ jobs' = s /\ pc' = [pc EXCEPT ![s] = "ended"]
        /\ job' = [job EXCEPT ![s] = [job[s] EXCEPT !.state =
                      IF job[s].state = "cancelled" THEN "cancelled" ELSE "failed"]]
    BY DEF Fail, PersistState, Persist, AwaitNext
  <1>3. /\ \A t \in Submission : pc'[t] = IF t = s THEN "ended" ELSE pc[t]
        /\ \A t \in Submission : job'[t].hasPrompt = job[t].hasPrompt
        /\ job'[s].state = IF job[s].state = "cancelled" THEN "cancelled" ELSE "failed"
    BY <1>2, GatewayTyped DEF Job
  <1>4. SerialInv'
    BY <1>1, <1>2, <1>3 DEF SerialInv, Executing
  <1>. QED
    BY <1>1, <1>2, <1>3, <1>4, WrittenReports

LEMMA SerialSubmits ==
  ASSUME UNCHANGED engine, engine = "worker-python", ~ Overlap, GatewayInv, SerialInv,
         NEW s \in Submission,
         SubmitArrives(s) \/ InputsRefused(s) \/ SubmitAccepted(s)
  PROVE  SerialInv' /\ (Report!ReportNext \/ Answer' = Answer)
  <1>1. CASE SubmitArrives(s)
    <2>1. /\ \A t \in Submission : pc'[t] = IF t = s THEN "inputs" ELSE pc[t]
          /\ jobs = NoSubmission /\ ~ collected /\ \A t \in Submission : pc[t] # "inputs"
          /\ UNCHANGED <<job, jobs, cancelling, collected>>
      BY <1>1, GatewayTyped DEF SubmitArrives, AwaitNext
    <2>. QED
      BY <2>1 DEF SerialInv, Executing, Answer, Known
  <1>2. CASE InputsRefused(s)
    <2>1. /\ \A t \in Submission : pc'[t] = IF t = s THEN "ended" ELSE pc[t]
          /\ UNCHANGED <<job, jobs, cancelling, collected>>
      BY <1>2, GatewayTyped DEF InputsRefused, AwaitNext
    <2>. QED
      BY <2>1 DEF SerialInv, Executing, Answer, Known
  <1>3. CASE SubmitAccepted(s)
    <2>1. /\ \A t \in Submission : pc'[t] = IF t = s THEN "release" ELSE pc[t]
          /\ \A t \in Submission : job'[t] = IF t = s THEN [NewJob EXCEPT !.state = "running"] ELSE job[t]
          /\ pc[s] = "inputs" /\ jobs' = s /\ UNCHANGED <<cancelling, collected>>
      BY <1>3, GatewayTyped DEF SubmitAccepted, AwaitNext, Persist
    <2>2. /\ jobs = NoSubmission /\ ~ collected
          /\ \A t \in Submission : t # s => pc[t] # "inputs"
          /\ \A t \in Submission : pc[t] \notin Executing
      BY <2>1, GatewayAssumption DEF SerialInv
    <2>3. job'[s].state = "running" /\ ~ job'[s].hasPrompt
      BY <2>1 DEF NewJob
    <2>4. SerialInv'
      BY <2>1, <2>2, <2>3 DEF SerialInv, Executing
    <2>5. Answer = "absent" /\ Answer' = "working"
      BY <2>1, <2>2, <2>3, AnswerOf, AnswerNext, GatewayAssumption DEF Active
    <2>. QED
      BY <2>4, <2>5 DEF Report!ReportNext, Report!Accept
  <1>. QED
    BY <1>1, <1>2, <1>3

LEMMA SerialExecutes ==
  ASSUME UNCHANGED engine, engine = "worker-python", GatewayInv, SerialInv,
         NEW s \in Submission, ExecuteStep(s)
  PROVE  SerialInv' /\ (Report!ReportNext \/ Answer' = Answer)
  <1>1. UNCHANGED <<cancelling, collected>>
    BY DEF ExecuteStep, StartRunner, RunnerExits, RuntimeLimit, StageInputs, PromptAnswered,
           PollCompleted, CollectEnds, ExecuteFails
  <1>2. CASE pc[s] \in Executing /\ Fail(s)
    BY <1>1, <1>2, SerialFail
  <1>3. ASSUME NEW a \in {"process", "collect", "ended"}, pc[s] \in Executing,
               pc' = [pc EXCEPT ![s] = a], UNCHANGED <<job, jobs>>
        PROVE  SerialInv' /\ Answer' = Answer
    <2>1. \A t \in Submission : pc'[t] = IF t = s THEN a ELSE pc[t]
      BY <1>3, GatewayTyped
    <2>2. SerialInv'
      BY <1>1, <1>3, <2>1 DEF SerialInv, Executing
    <2>. QED
      BY <1>3, <2>2 DEF Answer, Known
  <1>4. CASE StartRunner(s)
    BY <1>2, <1>3, <1>4 DEF StartRunner, AwaitNext, Executing
  <1>5. CASE RunnerExits(s)
    <2>1. CASE pc[s] = "process"
      BY <1>2, <1>3, <1>5, <2>1 DEF RunnerExits, AwaitNext, Executing
    <2>2. CASE pc[s] # "process"
      <3>1. UNCHANGED <<pc, job, jobs>>
        BY <1>5, <2>2 DEF RunnerExits
      <3>. QED
        BY <1>1, <3>1 DEF SerialInv, Answer, Known
    <2>. QED
      BY <2>1, <2>2
  <1>6. CASE RuntimeLimit(s) \/ ExecuteFails(s)
    BY <1>2, <1>6 DEF RuntimeLimit, ExecuteFails, Executing
  <1>7. CASE CollectEnds(s)
    <2>1. pc[s] = "collect" /\ pc[s] \in Executing /\ pc' = [pc EXCEPT ![s] = "ended"]
      BY <1>7 DEF CollectEnds, AwaitNext, Executing
    <2>2. CASE UNCHANGED <<job, jobs, disk>>
      BY <1>3, <2>1, <2>2
    <2>3. CASE PersistState(s, "succeeded") /\ job[s].state # "cancelled"
      <3>1. /\ jobs = s /\ job[s].state = "running"
            /\ \A t \in Submission : pc[t] # "inputs"
            /\ \A t \in Submission : t # s => pc[t] \notin Executing
            /\ s # NoSubmission
        BY <2>1, <2>3, GatewayAssumption DEF SerialInv
      <3>2. /\ jobs' = s
            /\ job' = [job EXCEPT ![s] = [job[s] EXCEPT !.state = "succeeded"]]
        BY <2>3 DEF PersistState, Persist
      <3>3. /\ \A t \in Submission : pc'[t] = IF t = s THEN "ended" ELSE pc[t]
            /\ \A t \in Submission : job'[t].hasPrompt = job[t].hasPrompt
            /\ job'[s].state = "succeeded"
        BY <2>1, <3>2, GatewayTyped DEF Job
      <3>4. SerialInv'
        BY <1>1, <3>1, <3>2, <3>3 DEF SerialInv, Executing
      <3>. QED
        BY <3>1, <3>2, <3>3, <3>4, WrittenReports
    <2>. QED
      BY <1>7, <2>2, <2>3 DEF CollectEnds
  <1>8. ~ StageInputs(s) /\ ~ PromptAnswered(s) /\ ~ PollCompleted(s)
    BY DEF SerialInv, StageInputs, PromptAnswered, PollCompleted
  <1>. QED
    BY <1>4, <1>5, <1>6, <1>7, <1>8 DEF ExecuteStep

LEMMA SerialOthers ==
  ASSUME UNCHANGED engine, GatewayInv, SerialInv,
         \/ \E s \in Submission :
              \/ ComfyStarts(s) \/ ComfyEnds(s)
              \/ Cancel(s) \/ CancelPrompt(s) \/ CancelAnswered(s)
         \/ Collect \/ Purge \/ Restart
  PROVE  SerialInv' /\ (Report!ReportNext \/ Answer' = Answer)
  <1>1. ASSUME NEW s \in Submission, ComfyStarts(s) \/ ComfyEnds(s)
        PROVE  SerialInv' /\ Answer' = Answer
    <2>1. UNCHANGED <<pc, job, jobs, cancelling, collected>>
      BY <1>1 DEF ComfyStarts, ComfyEnds
    <2>2. SerialInv'
      BY <2>1 DEF SerialInv
    <2>3. Answer' = Answer
      BY <2>1 DEF Answer, Known
    <2>. QED
      BY <2>2, <2>3
  <1>2. ASSUME NEW s \in Submission, Cancel(s)
        PROVE  SerialInv' /\ (Report!ReportNext \/ Answer' = Answer)
    <2>1. /\ jobs = s /\ job[s].state \in {"queued", "running"} /\ jobs' = s
          /\ job' = [job EXCEPT ![s] = [job[s] EXCEPT !.state = "cancelled"]]
          /\ UNCHANGED <<pc, cancelling, collected>>
      BY <1>2 DEF Cancel, PersistState, Persist
    <2>2. /\ job'[s].state = "cancelled" /\ s # NoSubmission
          /\ \A t \in Submission : t # s => job'[t] = job[t]
          /\ \A t \in Submission : job'[t].hasPrompt = job[t].hasPrompt
      BY <2>1, GatewayTyped, GatewayAssumption DEF Job
    <2>3. ~ collected
      BY <2>1, <2>2 DEF SerialInv
    <2>4. SerialInv'
      BY <2>1, <2>2, <2>3 DEF SerialInv
    <2>5. Answer = "working" /\ Answer' = "cancelled"
      BY <2>1, <2>2, AnswerOf, AnswerNext DEF Active
    <2>. QED
      BY <2>4, <2>5 DEF Report!ReportNext, Report!End
  <1>3. ASSUME NEW s \in Submission, CancelPrompt(s) \/ CancelAnswered(s)
        PROVE  FALSE
    BY <1>3 DEF CancelPrompt, CancelAnswered, SerialInv
  <1>4. CASE Collect
    <2>1. /\ jobs # NoSubmission /\ job[jobs].state = "succeeded" /\ collected' = TRUE
          /\ UNCHANGED <<pc, job, jobs, cancelling>>
      BY <1>4 DEF Collect
    <2>2. SerialInv'
      BY <2>1 DEF SerialInv
    <2>. QED
      BY <2>1, <2>2 DEF Answer, Known
  <1>5. CASE Purge
    <2>1. /\ collected /\ jobs # NoSubmission /\ jobs' = NoSubmission
          /\ UNCHANGED <<pc, job, cancelling, collected>>
      BY <1>5 DEF Purge
    <2>2. job[jobs].state = "succeeded" /\ \A s \in Submission : pc[s] \notin Executing
      BY <2>1 DEF SerialInv
    <2>3. SerialInv'
      BY <2>1, <2>2 DEF SerialInv
    <2>4. Answer = "succeeded" /\ Answer' = "absent"
      BY <2>1, <2>2, AnswerOf, AnswerNext
    <2>. QED
      BY <2>3, <2>4 DEF Report!ReportNext, Report!Forget
  <1>6. CASE Restart
    <2>. DEFINE state == IF disk.state \in Active THEN "failed" ELSE disk.state
    <2>1. /\ disk.by = jobs /\ jobs \in Submission \cup {NoSubmission}
          /\ jobs # NoSubmission => disk.state = job[jobs].state /\ jobs \in Submission
          /\ state \in {"failed", "succeeded", "cancelled"}
      BY GatewayTyped DEF GatewayInv, RestartFindsTheAnswer, Stored, State, Active
    <2>2. /\ jobs' = jobs /\ UNCHANGED collected /\ cancelling' = {}
          /\ job' = [s \in Submission |-> IF s = jobs THEN [NewJob EXCEPT !.state = state] ELSE NewJob]
          /\ \A s \in Submission : pc'[s] \in {"none", "ended"}
      BY <1>6, <2>1 DEF Restart, Load
    <2>3. /\ \A s \in Submission : ~ job'[s].hasPrompt
          /\ jobs # NoSubmission => job'[jobs].state = state
      BY <2>1, <2>2 DEF NewJob
    <2>4. SerialInv'
      BY <2>1, <2>2, <2>3 DEF SerialInv, Executing, Active
    <2>5. CASE jobs = NoSubmission
      BY <2>2, <2>4, <2>5, AnswerOf, AnswerNext
    <2>6. CASE jobs # NoSubmission /\ job[jobs].state \in Active
      <3>1. Answer = "working" /\ Answer' = "failed"
        BY <2>1, <2>2, <2>3, <2>6, AnswerOf, AnswerNext
      <3>. QED
        BY <2>4, <3>1 DEF Report!ReportNext, Report!End
    <2>7. CASE jobs # NoSubmission /\ job[jobs].state \notin Active
      BY <2>1, <2>2, <2>3, <2>4, <2>7, AnswerOf, AnswerNext
    <2>. QED
      BY <2>5, <2>6, <2>7
  <1>. QED
    BY <1>1, <1>2, <1>3, <1>4, <1>5, <1>6

LEMMA RunnerReports ==
  ASSUME Engines = {"worker-python"}, ~ Overlap, GatewayInv, SerialInv, [Next]_vars
  PROVE  SerialInv' /\ [Report!ReportNext]_Answer
  <1>1. CASE UNCHANGED vars
    BY <1>1 DEF vars, SerialInv, Answer, Known
  <1>2. CASE Next
    <2>1. engine = "worker-python" /\ UNCHANGED engine
      BY <1>2, EngineIsKept, GatewayTyped
    <2>. QED
      BY <1>2, <2>1, SerialSubmits, SerialExecutes, SerialOthers DEF Next
  <1>. QED
    BY <1>1, <1>2

(* Worker-run workflows, submitted once at a time, keep the promise of     *)
(* WorkerReport: accepted once, ended once, forgotten only when collected. *)
THEOREM RunnerKeepsItsReport ==
  ASSUME Engines = {"worker-python"}, ~ Overlap
  PROVE  Spec => ImplementsWorkerReport
  <1>1. GatewayInv /\ SerialInv /\ [Next]_vars
          => SerialInv' /\ [Report!ReportNext]_Answer
    BY RunnerReports
  <1>. QED
    BY <1>1, SerialInit, GatewayInvariance, PTL DEF Spec, ImplementsWorkerReport, Report!ReportSpec

(* A job that a runner works on stays cancelled: what the runner still     *)
(* brings, an exit of its process or a whole set of outputs, does not take *)
(* the cancellation back.  A ComfyUI job does not stay cancelled.          *)
THEOREM RunnerStaysCancelled ==
  ASSUME Engines = {"worker-python"}, ~ Overlap
  PROVE  Spec => CancellationIsFinal
  <1>1. GatewayInv /\ GatewayInv' /\ SerialInv /\ [Next]_vars
          => SerialInv' /\ (Known({"cancelled"}) => Known({"cancelled"})')
    <2>. SUFFICES ASSUME GatewayInv, GatewayInv', SerialInv, [Next]_vars
                  PROVE  SerialInv' /\ (Known({"cancelled"}) => Known({"cancelled"})')
      OBVIOUS
    <2>1. SerialInv' /\ [Report!ReportNext]_Answer
      BY RunnerReports
    <2>2. ASSUME Known({"cancelled"}) PROVE Known({"cancelled"})'
      <3>1. Answer = "cancelled"
        BY <2>2, AnswerOf DEF Known
      <3>2. Answer' = "cancelled"
        BY <2>1, <3>1 DEF Report!ReportNext, Report!Accept, Report!End, Report!Forget
      <3>3. jobs' # NoSubmission => job'[jobs'].state \in State
        BY DEF GatewayInv, TypeOK, Job
      <3>. QED
        BY <3>2, <3>3, AnswerNext DEF Known, State, Active
    <2>. QED
      BY <2>1, <2>2
  <1>2. Init => SerialInv
    BY SerialInit
  <1>. QED
    BY <1>1, <1>2, GatewayInvariance, PTL DEF Spec, CancellationIsFinal

-----------------------------------------------------------------------------
(* One submission at a time, for either engine: whoever executes is the    *)
(* job that is known, and nothing executes once the outputs were fetched.  *)
(* A cancellation that is answered after a purge writes its job again, but *)
(* no submission is taken any more then.                                   *)
OneAtATime ==
  /\ \A s \in Submission :
       /\ pc[s] = "inputs" =>
            jobs = NoSubmission /\ ~ collected /\ \A t \in Submission : pc[t] = "inputs" => t = s
       /\ pc[s] \in Executing =>
            jobs = s /\ ~ collected /\ job[s].state \in {"running", "verifying", "cancelled"}
  /\ \A s \in cancelling : jobs = s \/ collected

(* A step of an execution that stays, goes on or ends.                     *)
LEMMA ExecutionGoesOn ==
  ASSUME GatewayInv, OneAtATime, NEW s \in Submission, pc[s] \in Executing,
         NEW a \in Await \ {"inputs"}, pc' = [pc EXCEPT ![s] = a],
         \/ UNCHANGED <<job, jobs>>
         \/ /\ jobs' = s /\ \A t \in Submission \ {s} : job'[t] = job[t]
            /\ a \in Executing => job'[s].state \in {"running", "verifying", "cancelled"},
         UNCHANGED <<cancelling, collected>>
  PROVE  OneAtATime'
  <1>1. /\ \A t \in Submission : pc'[t] = IF t = s THEN a ELSE pc[t]
        /\ jobs = s /\ ~ collected /\ job[s].state \in {"running", "verifying", "cancelled"}
        /\ s # NoSubmission
    BY GatewayTyped, GatewayAssumption DEF OneAtATime
  <1>2. /\ \A t \in Submission : pc[t] # "inputs"
        /\ \A t \in Submission : t # s => pc[t] \notin Executing
        /\ \A t \in cancelling : t = s
    BY <1>1 DEF OneAtATime
  <1>3. jobs' = s
    BY <1>1
  <1>. QED
    BY <1>1, <1>2, <1>3 DEF OneAtATime

LEMMA OneAtATimeSubmits ==
  ASSUME ~ Overlap, GatewayInv, OneAtATime, NEW s \in Submission,
         SubmitArrives(s) \/ InputsRefused(s) \/ SubmitAccepted(s)
  PROVE  OneAtATime'
  <1>1. CASE SubmitArrives(s)
    <2>1. /\ \A t \in Submission : pc'[t] = IF t = s THEN "inputs" ELSE pc[t]
          /\ jobs = NoSubmission /\ ~ collected /\ \A t \in Submission : pc[t] # "inputs"
          /\ UNCHANGED <<job, jobs, cancelling, collected>>
      BY <1>1, GatewayTyped DEF SubmitArrives, AwaitNext
    <2>. QED
      BY <2>1 DEF OneAtATime, Executing
  <1>2. CASE InputsRefused(s)
    <2>1. /\ \A t \in Submission : pc'[t] = IF t = s THEN "ended" ELSE pc[t]
          /\ UNCHANGED <<job, jobs, cancelling, collected>>
      BY <1>2, GatewayTyped DEF InputsRefused, AwaitNext
    <2>. QED
      BY <2>1 DEF OneAtATime, Executing
  <1>3. CASE SubmitAccepted(s)
    <2>1. /\ \E a \in {"release", "stage"} : \A t \in Submission : pc'[t] = IF t = s THEN a ELSE pc[t]
          /\ \A t \in Submission : job'[t] = IF t = s THEN [NewJob EXCEPT !.state = "running"] ELSE job[t]
          /\ pc[s] = "inputs" /\ jobs' = s /\ UNCHANGED <<cancelling, collected>>
      BY <1>3, GatewayTyped DEF SubmitAccepted, AwaitNext, Persist
    <2>2. /\ jobs = NoSubmission /\ ~ collected
          /\ \A t \in Submission : t # s => pc[t] # "inputs"
          /\ \A t \in Submission : pc[t] \notin Executing
          /\ cancelling \subseteq Submission
      BY <2>1, GatewayAssumption, GatewayTyped DEF OneAtATime
    <2>3. cancelling = {}
      BY <2>2, GatewayAssumption DEF OneAtATime
    <2>4. job'[s].state = "running"
      BY <2>1 DEF NewJob
    <2>. QED
      BY <2>1, <2>2, <2>3, <2>4 DEF OneAtATime, Executing
  <1>. QED
    BY <1>1, <1>2, <1>3

LEMMA OneAtATimeExecutes ==
  ASSUME GatewayInv, OneAtATime, NEW s \in Submission, ExecuteStep(s)
  PROVE  OneAtATime'
  <1>1. UNCHANGED <<cancelling, collected>>
    BY DEF ExecuteStep, StartRunner, RunnerExits, RuntimeLimit, StageInputs, PromptAnswered,
           PollCompleted, CollectEnds, ExecuteFails
  <1>2. ASSUME NEW state \in State, PersistState(s, state)
        PROVE  /\ jobs' = s /\ \A t \in Submission \ {s} : job'[t] = job[t]
               /\ job'[s].state = state
    BY <1>2, GatewayTyped DEF PersistState, Persist, Job
  <1>3. "ended" \in Await \ {"inputs"} /\ "ended" \notin Executing
    BY DEF Await, Executing
  <1>4. CASE pc[s] \in Executing /\ Fail(s)
    <2>1. PICK state \in State : PersistState(s, state)
      BY <1>4 DEF Fail, State
    <2>2. pc' = [pc EXCEPT ![s] = "ended"]
      BY <1>4 DEF Fail, AwaitNext
    <2>. QED
      BY <1>1, <1>2, <1>3, <1>4, <2>1, <2>2, ExecutionGoesOn
  <1>5. CASE \E a \in Await \ {"inputs"} : pc[s] \in Executing /\ AwaitNext(s, a) /\ UNCHANGED <<job, jobs>>
    BY <1>1, <1>5, ExecutionGoesOn DEF AwaitNext
  <1>6. CASE StartRunner(s)
    BY <1>4, <1>5, <1>6 DEF StartRunner, Executing, Await
  <1>7. CASE RunnerExits(s)
    <2>1. CASE pc[s] = "process"
      BY <1>4, <1>5, <1>7, <2>1 DEF RunnerExits, Executing, Await
    <2>2. CASE pc[s] # "process"
      <3>1. UNCHANGED <<pc, job, jobs>>
        BY <1>7, <2>2 DEF RunnerExits
      <3>. QED
        BY <1>1, <3>1 DEF OneAtATime
    <2>. QED
      BY <2>1, <2>2
  <1>8. CASE RuntimeLimit(s) \/ ExecuteFails(s)
    BY <1>4, <1>8 DEF RuntimeLimit, ExecuteFails, Executing
  <1>9. CASE StageInputs(s)
    BY <1>5, <1>9 DEF StageInputs, Executing, Await
  <1>10. CASE PromptAnswered(s)
    <2>1. CASE Fail(s)
      BY <1>4, <1>10, <2>1 DEF PromptAnswered, Executing
    <2>2. CASE job' = [job EXCEPT ![s].hasPrompt = TRUE] /\ AwaitNext(s, "poll") /\ UNCHANGED jobs
      <3>1. pc[s] \in Executing /\ "poll" \in Await \ {"inputs"} /\ pc' = [pc EXCEPT ![s] = "poll"]
        BY <1>10, <2>2 DEF PromptAnswered, Executing, Await, AwaitNext
      <3>2. jobs = s /\ job[s].state \in {"running", "verifying", "cancelled"}
        BY <3>1 DEF OneAtATime
      <3>3. jobs' = s /\ job'[s].state = job[s].state /\ \A t \in Submission \ {s} : job'[t] = job[t]
        BY <2>2, <3>2, GatewayTyped DEF Job
      <3>. QED
        BY <1>1, <3>1, <3>2, <3>3, ExecutionGoesOn
    <2>. QED
      BY <1>10, <2>1, <2>2 DEF PromptAnswered
  <1>11. CASE PollCompleted(s)
    <2>1. /\ pc[s] \in Executing /\ "collect" \in Await \ {"inputs"} /\ pc' = [pc EXCEPT ![s] = "collect"]
          /\ PersistState(s, "verifying") /\ "verifying" \in State
      BY <1>11 DEF PollCompleted, Executing, Await, AwaitNext, State
    <2>. QED
      BY <1>1, <1>2, <2>1, ExecutionGoesOn
  <1>12. CASE CollectEnds(s)
    <2>1. pc[s] \in Executing /\ AwaitNext(s, "ended") /\ "succeeded" \in State
      BY <1>12 DEF CollectEnds, Executing, State
    <2>2. CASE UNCHANGED <<job, jobs, disk>>
      BY <1>3, <1>5, <2>1, <2>2
    <2>3. CASE PersistState(s, "succeeded")
      BY <1>1, <1>2, <1>3, <2>1, <2>3, ExecutionGoesOn DEF AwaitNext
    <2>. QED
      BY <1>12, <2>2, <2>3 DEF CollectEnds
  <1>. QED
    BY <1>6, <1>7, <1>8, <1>9, <1>10, <1>11, <1>12 DEF ExecuteStep

LEMMA OneAtATimeOthers ==
  ASSUME GatewayInv, OneAtATime,
         \/ \E s \in Submission :
              \/ ComfyStarts(s) \/ ComfyEnds(s)
              \/ Cancel(s) \/ CancelPrompt(s) \/ CancelAnswered(s)
         \/ Collect \/ Purge \/ Restart
  PROVE  OneAtATime'
  <1>1. ASSUME NEW s \in Submission, ComfyStarts(s) \/ ComfyEnds(s) PROVE OneAtATime'
    <2>1. UNCHANGED <<pc, job, jobs, cancelling, collected>>
      BY <1>1 DEF ComfyStarts, ComfyEnds
    <2>. QED
      BY <2>1 DEF OneAtATime
  <1>2. ASSUME NEW s \in Submission, Cancel(s) \/ CancelAnswered(s) PROVE OneAtATime'
    <2>1. /\ jobs = s \/ collected
          /\ PersistState(s, "cancelled")
          /\ cancelling' \subseteq cancelling
          /\ UNCHANGED <<pc, collected>>
      BY <1>2 DEF Cancel, CancelAnswered, OneAtATime
    <2>2. /\ jobs' = s /\ job'[s].state = "cancelled" /\ s # NoSubmission
          /\ \A t \in Submission : t # s => job'[t] = job[t]
      BY <2>1, GatewayTyped, GatewayAssumption DEF PersistState, Persist, Job
    <2>3. \A t \in Submission : pc[t] # "inputs" /\ (pc[t] \in Executing => t = s)
      BY <2>1, <2>2 DEF OneAtATime
    <2>4. \A t \in cancelling' : t = s \/ collected
      BY <2>1, <2>2 DEF OneAtATime
    <2>. QED
      BY <2>1, <2>2, <2>3, <2>4 DEF OneAtATime
  <1>3. ASSUME NEW s \in Submission, CancelPrompt(s) PROVE OneAtATime'
    BY <1>3 DEF CancelPrompt, OneAtATime
  <1>4. CASE Collect
    <2>1. /\ jobs # NoSubmission /\ job[jobs].state = "succeeded" /\ collected' = TRUE
          /\ UNCHANGED <<pc, job, jobs, cancelling>>
      BY <1>4 DEF Collect
    <2>2. \A t \in Submission : pc[t] # "inputs" /\ pc[t] \notin Executing
      BY <2>1 DEF OneAtATime
    <2>. QED
      BY <2>1, <2>2 DEF OneAtATime
  <1>5. CASE Purge
    <2>1. collected /\ collected' /\ UNCHANGED <<pc, job, cancelling>>
      BY <1>5 DEF Purge
    <2>2. \A t \in Submission : pc[t] # "inputs" /\ pc[t] \notin Executing
      BY <2>1 DEF OneAtATime
    <2>. QED
      BY <2>1, <2>2 DEF OneAtATime
  <1>6. CASE Restart
    <2>1. /\ cancelling' = {}
          /\ \A t \in Submission : pc'[t] \in {"none", "ended"}
      BY <1>6 DEF Restart, Load
    <2>. QED
      BY <2>1 DEF OneAtATime, Executing
  <1>. QED
    BY <1>1, <1>2, <1>3, <1>4, <1>5, <1>6

(* The same identity submitted again does not start the work again, with   *)
(* either engine and whatever is cancelled, purged or restarted between,   *)
(* unless a submission comes while another waits for the input check: the  *)
(* test for a known job and the creation are separated by that await.      *)
THEOREM SerialSubmissionsAreIdempotent ==
  ASSUME ~ Overlap
  PROVE  Spec => []SubmissionIsIdempotent
  <1>1. Init => OneAtATime
    BY DEF Init, OneAtATime, Executing
  <1>2. GatewayInv /\ OneAtATime /\ [Next]_vars => OneAtATime'
    <2>. SUFFICES ASSUME GatewayInv, OneAtATime, [Next]_vars PROVE OneAtATime'
      OBVIOUS
    <2>1. CASE UNCHANGED vars
      BY <2>1 DEF vars, OneAtATime
    <2>2. CASE Next
      BY <2>2, OneAtATimeSubmits, OneAtATimeExecutes, OneAtATimeOthers DEF Next
    <2>. QED
      BY <2>1, <2>2
  <1>3. GatewayInv /\ OneAtATime => SubmissionIsIdempotent
    <2>. SUFFICES ASSUME GatewayInv, OneAtATime, NEW s \in Submission, NEW t \in Submission,
                         {pc[s], pc[t]} \cap {"none", "inputs", "ended"} = {}
                  PROVE  s = t
      BY DEF SubmissionIsIdempotent
    <2>1. pc[s] \in Executing /\ pc[t] \in Executing
      BY GatewayTyped DEF Await, Executing
    <2>. QED
      BY <2>1 DEF OneAtATime
  <1>. QED
    BY <1>1, <1>2, <1>3, GatewayInvariance, PTL DEF Spec
=============================================================================
