---------------------------- MODULE WorkerGateway ----------------------------
(***************************************************************************)
(* One job inside a Pod: the gateway's handlers for submitting, cancelling *)
(* and purging it, execute(), the runner process or the ComfyUI prompt it  *)
(* works through, and a restart of the container.                          *)
(*                                                                         *)
(* The gateway is one event loop: an action is the code between two        *)
(* awaits.  Jobs share nothing but ComfyUI's queue, so one is enough.      *)
(* Every submission that is accepted creates a job object of its own,      *)
(* which execute() keeps; the jobs map and job.json name the object that   *)
(* was persisted last.                                                     *)
(***************************************************************************)
EXTENDS Naturals

CONSTANTS Submission,    \* the job objects that may be created
          NoSubmission,
          Engines,       \* what the job's workflow may be run by
          Overlap        \* may a submission come while another is verified?

ASSUME GatewayAssumption ==
  /\ NoSubmission \notin Submission
  /\ Engines \subseteq {"worker-python", "comfyui"}
  /\ Overlap \in BOOLEAN

VARIABLES engine,       \* workflow.engine
          pc,           \* the await each submission's handler or execute() is at
          job,          \* the job object each submission created
          jobs,         \* the object the jobs map has for the job
          disk,         \* job.json
          inputs,       \* are the verified inputs on the disk?
          runnerOutput, \* does the folder runner-output exist?
          artifacts,    \* submissions whose outputs are in the folder artifacts
          child,        \* the runner process of each submission
          jobProcesses, \* the submission whose runner the map has
          prompt,       \* each submission's prompt in ComfyUI
          cancelling,   \* cancellations that await ComfyUI
          collected     \* has the application all outputs?

files == <<inputs, runnerOutput, artifacts>>
runner == <<child, jobProcesses>>
vars == <<engine, pc, job, jobs, disk, files, runner, prompt, cancelling, collected>>

Await == {"none", "inputs", "release", "process", "stage", "prompt", "poll", "collect", "ended"}
State == {"queued", "running", "verifying", "succeeded", "failed", "cancelled"}
Active == {"queued", "running", "verifying"}

(* hasPrompt: job.comfyPromptId is set.                                    *)
Job == [state : State, hasPrompt : BOOLEAN]
NewJob == [state |-> "queued", hasPrompt |-> FALSE]

(* by is the submission whose object was written.                          *)
Stored == [by : Submission \cup {NoSubmission}, state : State]
NotStored == [by |-> NoSubmission, state |-> "queued"]

TypeOK == /\ engine \in Engines
          /\ pc \in [Submission -> Await]
          /\ job \in [Submission -> Job]
          /\ jobs \in Submission \cup {NoSubmission}
          /\ disk \in Stored
          /\ inputs \in BOOLEAN
          /\ runnerOutput \in BOOLEAN
          /\ artifacts \subseteq Submission
          /\ child \in [Submission -> {"none", "running", "stopping"}]
          /\ jobProcesses \in Submission \cup {NoSubmission}
          /\ prompt \in [Submission -> {"none", "pending", "executing", "done", "error", "deleted"}]
          /\ cancelling \subseteq Submission
          /\ collected \in BOOLEAN

Init == /\ engine \in Engines
        /\ pc = [s \in Submission |-> "none"]
        /\ job = [s \in Submission |-> NewJob]
        /\ jobs = NoSubmission
        /\ disk = NotStored
        /\ inputs = TRUE
        /\ runnerOutput = FALSE
        /\ artifacts = {}
        /\ child = [s \in Submission |-> "none"]
        /\ jobProcesses = NoSubmission
        /\ prompt = [s \in Submission |-> "none"]
        /\ cancelling = {}
        /\ collected = FALSE

-----------------------------------------------------------------------------
AwaitNext(s, a) == pc' = [pc EXCEPT ![s] = a]

(* persist: job.json is replaced, then the map.                            *)
Persist(s, record) == /\ job' = [job EXCEPT ![s] = record]
                      /\ disk' = [by |-> s, state |-> record.state]
                      /\ jobs' = s

PersistState(s, state) == Persist(s, [job[s] EXCEPT !.state = state])

(* Mutant: the failure is not written.                                     *)
FailSilently(s) == AwaitNext(s, "ended") /\ UNCHANGED <<job, jobs, disk>>

(* Mutant: the failure is not persisted.                                   *)
FailInMemory(s) ==
  /\ job' = [job EXCEPT ![s].state = IF @ = "cancelled" THEN "cancelled" ELSE "failed"]
  /\ AwaitNext(s, "ended")
  /\ UNCHANGED <<jobs, disk>>

(* The catch block of execute: a cancelled job stays cancelled.            *)
Fail(s) == /\ PersistState(s, IF job[s].state = "cancelled" THEN "cancelled" ELSE "failed")
           /\ AwaitNext(s, "ended")

-----------------------------------------------------------------------------
(* POST /v1/jobs.  A submission of a known job changes nothing; the input  *)
(* check is awaited between that test and the creation of the job.         *)

SubmitArrives(s) ==
  /\ pc[s] = "none"
  /\ jobs = NoSubmission
  /\ ~ collected
  /\ Overlap \/ \A t \in Submission : pc[t] # "inputs"
  /\ AwaitNext(s, "inputs")
  /\ UNCHANGED <<engine, job, jobs, disk, files, runner, prompt, cancelling, collected>>

InputsRefused(s) ==
  /\ pc[s] = "inputs"
  /\ AwaitNext(s, "ended")
  /\ UNCHANGED <<engine, job, jobs, disk, files, runner, prompt, cancelling, collected>>

(* The job is persisted as queued and execute() runs to its first await.   *)
SubmitAccepted(s) ==
  /\ pc[s] = "inputs"
  /\ Persist(s, [NewJob EXCEPT !.state = "running"])
  /\ AwaitNext(s, IF engine = "worker-python" THEN "release" ELSE "stage")
  /\ UNCHANGED <<engine, files, runner, prompt, cancelling, collected>>

-----------------------------------------------------------------------------
(* execute: worker-python.                                                 *)

(* Mutant: the folder of an earlier run is taken over.                     *)
StartRunnerAgain(s) ==
  /\ pc[s] = "release"
  /\ runnerOutput' = TRUE
  /\ child' = [child EXCEPT ![s] = "running"]
  /\ jobProcesses' = s
  /\ AwaitNext(s, "process")
  /\ UNCHANGED <<engine, job, jobs, disk, inputs, artifacts, prompt, cancelling, collected>>

(* ComfyUI has released its models: the first half of runWorkerPython.     *)
StartRunner(s) ==
  /\ pc[s] = "release"
  /\ runnerOutput' = TRUE
  /\ \/ /\ ~ runnerOutput
        /\ inputs
        /\ child' = [child EXCEPT ![s] = "running"]
        /\ jobProcesses' = s
        /\ AwaitNext(s, "process")
        /\ UNCHANGED <<job, jobs, disk>>
     \/ Fail(s) /\ UNCHANGED runner
  /\ UNCHANGED <<engine, inputs, artifacts, prompt, cancelling, collected>>

(* The runner ends by itself or because it was told to.  One that reached  *)
(* the runtime limit ends when its job has already failed.                 *)
RunnerExits(s) ==
  /\ child[s] # "none"
  /\ child' = [child EXCEPT ![s] = "none"]
  /\ jobProcesses' = NoSubmission
  /\ \/ /\ pc[s] = "process"
        /\ job[s].state = "cancelled"
        /\ AwaitNext(s, "ended")
        /\ UNCHANGED <<job, jobs, disk>>
     \/ /\ pc[s] = "process"
        /\ job[s].state # "cancelled"
        /\ AwaitNext(s, "collect")
        /\ UNCHANGED <<job, jobs, disk>>
     \/ pc[s] = "process" /\ job[s].state # "cancelled" /\ Fail(s)
     \/ pc[s] # "process" /\ UNCHANGED <<pc, job, jobs, disk>>
  /\ UNCHANGED <<engine, files, prompt, cancelling, collected>>

RuntimeLimit(s) ==
  /\ pc[s] = "process"
  /\ child' = [child EXCEPT ![s] = "stopping"]
  /\ Fail(s)
  /\ UNCHANGED <<engine, files, jobProcesses, prompt, cancelling, collected>>

-----------------------------------------------------------------------------
(* execute: comfyui.                                                       *)

StageInputs(s) ==
  /\ pc[s] = "stage"
  /\ inputs
  /\ AwaitNext(s, "prompt")
  /\ UNCHANGED <<engine, job, jobs, disk, files, runner, prompt, cancelling, collected>>

(* The prompt's identity is kept in memory only.                           *)
PromptAnswered(s) ==
  /\ pc[s] = "prompt"
  /\ prompt' = [prompt EXCEPT ![s] = "pending"]
  /\ \/ /\ job' = [job EXCEPT ![s].hasPrompt = TRUE]
        /\ AwaitNext(s, "poll")
        /\ UNCHANGED <<jobs, disk>>
     \/ Fail(s)
  /\ UNCHANGED <<engine, files, runner, cancelling, collected>>

(* The state is not looked at: it may be cancelled.                        *)
PollCompleted(s) ==
  /\ pc[s] = "poll"
  /\ prompt[s] = "done"
  /\ PersistState(s, "verifying")
  /\ AwaitNext(s, "collect")
  /\ UNCHANGED <<engine, files, runner, prompt, cancelling, collected>>

ComfyStarts(s) ==
  /\ prompt[s] = "pending"
  /\ prompt' = [prompt EXCEPT ![s] = "executing"]
  /\ UNCHANGED <<engine, pc, job, jobs, disk, files, runner, cancelling, collected>>

ComfyEnds(s) ==
  /\ prompt[s] = "executing"
  /\ \E result \in {"done", "error"} : prompt' = [prompt EXCEPT ![s] = result]
  /\ UNCHANGED <<engine, pc, job, jobs, disk, files, runner, cancelling, collected>>

-----------------------------------------------------------------------------
(* Both engines.                                                           *)

(* Mutant: the outputs are not copied into the job's folder.               *)
CollectNothing(s) ==
  /\ pc[s] = "collect"
  /\ IF engine = "worker-python" /\ job[s].state = "cancelled"
     THEN UNCHANGED <<job, jobs, disk>>
     ELSE PersistState(s, "succeeded")
  /\ AwaitNext(s, "ended")
  /\ UNCHANGED <<engine, files, runner, prompt, cancelling, collected>>

(* Mutant: a runner's job is not looked at again after its outputs.        *)
CollectCancelled(s) ==
  /\ pc[s] = "collect"
  /\ artifacts' = artifacts \cup {s}
  /\ PersistState(s, "succeeded")
  /\ AwaitNext(s, "ended")
  /\ UNCHANGED <<engine, inputs, runnerOutput, runner, prompt, cancelling, collected>>

(* The outputs were copied.  A runner's job passes through verifying here. *)
CollectEnds(s) ==
  /\ pc[s] = "collect"
  /\ artifacts' = artifacts \cup {s}
  /\ IF engine = "worker-python" /\ job[s].state = "cancelled"
     THEN UNCHANGED <<job, jobs, disk>>
     ELSE PersistState(s, "succeeded")
  /\ AwaitNext(s, "ended")
  /\ UNCHANGED <<engine, inputs, runnerOutput, runner, prompt, cancelling, collected>>

(* A request to ComfyUI, a copy or the deadline fails.                     *)
ExecuteFails(s) ==
  /\ pc[s] \in {"release", "stage", "prompt", "poll", "collect"}
  /\ Fail(s)
  /\ UNCHANGED <<engine, files, runner, prompt, cancelling, collected>>

-----------------------------------------------------------------------------
(* POST /v1/jobs/:id/cancel.                                               *)

StopProcess ==
  child' = [s \in Submission |-> IF s = jobProcesses THEN "stopping" ELSE child[s]]

Cancel(s) ==
  /\ jobs = s
  /\ job[s].state \in {"queued", "running"}
  /\ ~ job[s].hasPrompt
  /\ StopProcess
  /\ PersistState(s, "cancelled")
  /\ UNCHANGED <<engine, pc, files, jobProcesses, prompt, cancelling, collected>>

CancelPrompt(s) ==
  /\ jobs = s
  /\ job[s].state \in {"queued", "running"}
  /\ job[s].hasPrompt
  /\ cancelling' = cancelling \cup {s}
  /\ UNCHANGED <<engine, pc, job, jobs, disk, files, runner, prompt, collected>>

(* ComfyUI drops a prompt it has not started, or the request fails; the    *)
(* job is cancelled whatever has become of it.                             *)
CancelAnswered(s) ==
  /\ s \in cancelling
  /\ cancelling' = cancelling \ {s}
  /\ \/ UNCHANGED prompt
     \/ prompt[s] = "pending" /\ prompt' = [prompt EXCEPT ![s] = "deleted"]
  /\ StopProcess
  /\ PersistState(s, "cancelled")
  /\ UNCHANGED <<engine, pc, files, jobProcesses, collected>>

-----------------------------------------------------------------------------
(* The application reads the job and downloads what it lists, then purges. *)

Collect ==
  /\ jobs # NoSubmission
  /\ job[jobs].state = "succeeded"
  /\ collected' = TRUE
  /\ UNCHANGED <<engine, pc, job, jobs, disk, files, runner, prompt, cancelling>>

(* DELETE /v1/jobs/:id: the folder of the job, then its entry.             *)
Purge ==
  /\ collected
  /\ jobs # NoSubmission
  /\ job[jobs].state \notin Active
  /\ jobs' = NoSubmission
  /\ disk' = NotStored
  /\ inputs' = FALSE
  /\ runnerOutput' = FALSE
  /\ artifacts' = {}
  /\ UNCHANGED <<engine, pc, job, runner, prompt, cancelling, collected>>

(* The container starts: job.json is loaded and everything else is lost.   *)
Load(state) ==
  /\ jobs' = disk.by
  /\ job' = [s \in Submission |-> IF s = disk.by THEN [NewJob EXCEPT !.state = state] ELSE NewJob]
  /\ disk' = IF disk.by = NoSubmission THEN disk ELSE [disk EXCEPT !.state = state]
  /\ pc' = [s \in Submission |-> IF pc[s] = "none" THEN "none" ELSE "ended"]
  /\ child' = [s \in Submission |-> "none"]
  /\ jobProcesses' = NoSubmission
  /\ prompt' = [s \in Submission |-> "none"]
  /\ cancelling' = {}
  /\ UNCHANGED <<engine, files, collected>>

(* A job found unfinished has failed.                                      *)
Restart == Load(IF disk.state \in Active THEN "failed" ELSE disk.state)

-----------------------------------------------------------------------------
ExecuteStep(s) ==
  \/ StartRunner(s) \/ RunnerExits(s) \/ RuntimeLimit(s)
  \/ StageInputs(s) \/ PromptAnswered(s) \/ PollCompleted(s)
  \/ CollectEnds(s) \/ ExecuteFails(s)

Next == \/ \E s \in Submission :
             \/ SubmitArrives(s) \/ InputsRefused(s) \/ SubmitAccepted(s)
             \/ ExecuteStep(s)
             \/ ComfyStarts(s) \/ ComfyEnds(s)
             \/ Cancel(s) \/ CancelPrompt(s) \/ CancelAnswered(s)
        \/ Collect \/ Purge \/ Restart

Spec == Init /\ [][Next]_vars

(* Every await of execute() has a timeout or a deadline.                   *)
FairSpec == Spec /\ \A s \in Submission : WF_vars(ExecuteStep(s))

-----------------------------------------------------------------------------
Known(states) == jobs # NoSubmission /\ job[jobs].state \in states

(* What GET /v1/jobs/:id answers is what a restart would find: the map and *)
(* job.json agree at every await, whoever persisted last.                  *)
RestartFindsTheAnswer == /\ disk.by = jobs
                         /\ jobs # NoSubmission => disk.state = job[jobs].state

(* A job reported as unfinished is being executed: otherwise the worker    *)
(* counts as busy for ever, and neither stops by itself nor may be purged. *)
ActiveIsExecuted == Known(Active) => pc[jobs] \notin {"none", "inputs", "ended"}

(* Outputs that are listed can be downloaded until they have been.         *)
SucceededIsServed == Known({"succeeded"}) /\ ~ collected => jobs \in artifacts

(* What the worker answers about a job it still has behind it: an          *)
(* execution that will end it, or the outputs that it lists.               *)
AnswerIsBacked == ActiveIsExecuted /\ SucceededIsServed

(* However often the job is submitted, cancelled or restarted, one runner  *)
(* at a time uses the GPU.                                                 *)
OneRunner == \A s, t \in Submission : child[s] # "none" /\ child[t] # "none" => s = t

(* A cancellation stops the job's process.                                 *)
CancelledIsStopped ==
  \A s \in Submission : job[s].state = "cancelled" => child[s] # "running"

(* A cancelled job stays cancelled.                                        *)
CancellationIsFinal == [][Known({"cancelled"}) => Known({"cancelled"})']_vars

(* The same identity submitted again does not start the work again.        *)
SubmissionIsIdempotent ==
  \A s, t \in Submission :
    {pc[s], pc[t]} \cap {"none", "inputs", "ended"} = {} => s = t

(* Refinement: the answers of one job.                                     *)
Answer == CASE jobs = NoSubmission -> "absent"
            [] Known(Active) -> "working"
            [] Known({"succeeded", "failed", "cancelled"}) -> job[jobs].state

Report == INSTANCE WorkerReport WITH report <- Answer

ImplementsWorkerReport == Report!ReportSpec

(* A job that was accepted ends, whatever ComfyUI or the runner do.        *)
ExecutionEnds == Known(Active) ~> ~ Known(Active)
=============================================================================
