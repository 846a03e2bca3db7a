# Animated Studio: a verification of the desktop studio and its paid work

TLA+ models, TLC runs and TLAPS proofs for the desktop application under `src/`:
an Electron application with which one person writes, generates, reviews, edits
and packages animated productions. It keeps them in a library of local folders,
pays writing models per request and rents GPU workers per job.

Contents: [the system](#1-the-system) · [plan](#2-plan) ·
[modules](#3-modules-and-the-code) · [runs](#4-runs) ·
[fairness](#5-fairness) · [findings](#6-where-the-code-and-its-documents-disagree) ·
[proofs](#7-proofs) · [limits](#8-what-is-left-out-and-why)

All paths below are relative to `src/`.

## 1. The system

The application is one Node.js event loop (`apps/desktop/src/main`) that owns a
catalog and, per production, a folder with SQLite databases, JSON files and
media. Windows call it over IPC; a timer calls it every 15 seconds; it calls the
writing providers, the GPU provider's API and, over HTTP, a gateway that runs
inside each rented Pod. SQLite writes are synchronous transactions. Everything
else (provider, worker, settings and secret files) is awaited, so two calls
interleave at every `await` and at no other place. A window's room holds copies:
what it shows was read earlier, and the buttons it disables while a call runs
belong to the mounted room and are enabled again when the user leaves it and
comes back.

### Components

| Component | State it keeps | Hard behaviour | Correct when |
|---|---|---|---|
| **production-orchestrator** | nothing durable; the record each suspended call read | any number of calls suspended at once on one job; each continues from what it read before the await; every await may fail or the application may die there | a Pod is created only for a durable reservation; a worker is recorded closed or terminated only when it stopped; outputs are registered once; the worker's copies are deleted only after all are local; an unneeded worker is released |
| **production-store** | jobs, media, canon, dependencies, manifests, estimates | several callers move one state; outputs are registered one by one and can be reviewed meanwhile; the last review completes the job in a second transaction; a promotion supersedes and makes dependants stale | final states stay final; one active canon version per label; what was planned was reviewed; a job succeeds only with every output approved |
| **recovery timer** | a running flag, the list taken at the start of a pass | the list ages while the pass works through it | every open lease is visited again |
| **provider-runpod** | none (Pods live at the provider) | a create that timed out may still be served; a terminated Pod disappears from answers | one Pod per lease |
| **worker-client** | none | timeouts, lost answers, strict reply schema | an accepted job is recorded |
| **worker gateway** | job records on the Pod's disk and in memory, running processes | handlers interleave with `execute` at awaits; restart with jobs in progress | a cancelled or purged job stays so; an upload is whole |
| **worker scripts** | installed models, partial downloads, a receipt | the container is killed at any point and starts again on the same volume | what is served was installed completely and matches its hash |
| **credential-vault** | encrypted secret files; the lease-token map | read-modify-write of one map across awaits | the token of a live worker is present |
| **cloud-setup** and **writing settings** | a settings file and a key file | a call loads the settings, awaits a provider and writes them back whole | a ready provider has an accepted key; a save is not undone |
| **skill-runtime** | the registry, package files | install, grant and remove interleave; a version is replaced; the reading after a write fails and the panel keeps what it shows | a skill runs only where it was granted |
| **creative-writing: drafts** | proposals, drafts under way | context previewed before, built after; the answer is saved, logged and returned, each of which can fail alone | one payment per confirmation, a report that tells what was saved |
| **project-store** | catalog, folders, backups, strays | a crash between the statements of a creation and the files of a migration, a backup, a restore; other stores write into the folder meanwhile | a half-migrated production has its backup |
| **writer lock** | the lock file | takeover of a stale lock by two processes; crashes between its file operations | one writer; no lock that stays for good |
| **upstream-adapter** | imports and their plans | validation file by file, acceptance in two writes; rounding of shares and lengths | an accepted plan is stored and tells the whole story |
| **release-store** and **local-production** | timelines, renders, details, attestations, packages, evidence | a lock commits before continuity is registered; renders take minutes and end in any order; a form outlives what it was filled from | what is released was reviewed, and its master is of its timeline; a figure cites its report |
| **window** (`App.tsx` and its rooms) | active production, page, forms, ticks, calls waited for | answers arrive after the production, the selection or the room changed | a tick is for what it was given for; texts stay in their production |

`PROJECT.json` lists every part of the repository with its status, and under
`hazards` each thing that is hard to test, at its line, with the property that
covers it or the reason why none does.

### How the parts interact

    rooms of the window
      │ IPC                                               timer
      ▼                                                     ▼
    main process ──► project-store, production-store, release-store, upstream-adapter
      │                (synchronous transactions and files in the production's folder)
      ├── await ──► cloud-setup, writing settings, skill-runtime, credential-vault  (one file each: read, await, write)
      ├── await ──► writing providers            (a paid request per draft)
      └── orchestrator
            ├── await ──► credential-vault       (lease tokens)
            ├── await ──► GPU provider           (create, find, get, terminate)
            └── await ──► worker gateway         (preflight, submit, upload, get, artifacts, purge, cancel)
                             └── runner, ComfyUI, model installation

The job record in the store is the only thing of a paid job that survives a crash
together with the token map. The lease id is drawn and written to the record
*before* the Pod is requested, and the Pod is tagged with it: that is what
recovery works from.

## 2. Plan

Done, in this order:

1. the orchestrator with its job record, abstract specification and proofs;
2. the worker side: gateway, uploads, their abstract specification and proofs;
3. settings written across awaits: cloud account, writing providers, skills;
4. project files: writer lock, library with backup, restore and migration,
   imports, model installation, writing drafts;
5. review and release: canon ledger, release desk, evidence, job approval and
   estimates, the inputs a worker is given;
6. the window: guided stages, and the shell around all rooms;
7. proofs of the approval, the writer lock, the cloud settings and the evidence;
8. proofs of what the downloads register and of uploads that do not overlap;
9. proofs of the canon ledger and the release desk;
10. thumbnails, captions and what the finishing room offers, in the release desk;
11. proofs of the studio's files (library, imports, installation, drafts), of the
    other settings and rooms (writing settings, skills, guided stages, window), and
    of the inputs a worker runs on;
12. proofs of the plans computed from imports, by induction; of properties that
    section 6 shows to fail, under the condition that keeps them; and of how far
    the GPU limit can be passed.

Left, in the order of their value:

1. a module that composes the gateway with the orchestrator's client calls in
   place of the one-step worker of `WorkerLifecycle`, and the ranged download;
2. the voice and sound cards of Creator Mode.

## 3. Modules and the code

| Module | Models |
|---|---|
| `ProductionJob` | the job record of `packages/production-store` and each transaction on it, as operators record → record with their guards |
| `WorkerLifecycle` | `packages/production-orchestrator`, the timer in `apps/desktop/src/main`, the lease map of `packages/credential-vault`; provider and worker as environment |
| `LeaseAudit` | abstract specification: what the above promises, one lease at a time |
| `UploadTransfer` | `uploadAssetFromPath` of `packages/worker-client`, `upload` and `verifyJobInputs` of `worker/gateway.mjs`: one input file's way to a worker |
| `WorkerGateway` | the job handlers, `execute` and start-up of `worker/gateway.mjs`: one job inside a Pod |
| `WorkerReport` | abstract specification: what the gateway's answers about a job promise |
| `WorkerInputs` | which media are sent for a job, in which order, and what the gateway and each runner of `worker/python_runner.py` accepts |
| `ModelInstall` | `worker/bootstrap_models.py` under kills of the container |
| `JobApproval` | the Generate room, the estimate of `packages/workflow-registry`, planning, approval and the price check at the start |
| `CanonLedger` | canon, continuity dependencies, media, reviews and planned jobs of `packages/production-store` |
| `ReleaseDesk` | timelines, renders, thumbnails, captions, details, attestations and packages of `packages/release-store` and `packages/local-production`, and what `FinishRoom.tsx` asks them for; extends `CanonLedger` |
| `ReleaseEvidence` | performance reports, snapshots and learnings of `packages/release-store` and its panel |
| `ProjectLibrary` | `packages/project-store`: folders, catalog, backup, restore, migration |
| `WriterLock` | `writer-lock.ts`, system call by system call |
| `UpstreamImport` | `packages/upstream-adapter`: import, validation, the long-form plan and its acceptance |
| `WritingRoom` | a paid draft: `CreativeRoom.tsx`, `packages/creative-writing`, the save and the diagnostics entry |
| `WritingSettings`, `CloudSettings`, `SkillRegistry` | the three settings services and the panels that call them |
| `GuidedStages` | Creator Mode, `CreatorMode.tsx` |
| `StudioShell` | `App.tsx`, the one-off tools of Creator Mode and the finishing room's two forms |
| `MCWorkerLifecycle`, `MCUploadTransfer`, `MCWorkerGateway`, `MCReleaseDesk`, `MCStudioFiles`, `MCStudioSettings` | instances for TLC |
| `WorkerLifecycle_proofs`, `UploadTransfer_proofs`, `WorkerGateway_proofs`, `ReleaseDesk_proofs`, `ReleaseEvidence_proofs` | theorems about the module they are named after |
| `PaidWork_proofs` | theorems about `JobApproval` and `WorkerInputs` |
| `StudioFiles_proofs` | theorems about `WriterLock`, `ProjectLibrary`, `UpstreamImport`, `ModelInstall` and `WritingRoom` |
| `StudioSettings_proofs` | theorems about `CloudSettings`, `WritingSettings`, `SkillRegistry`, `GuidedStages` and `StudioShell` |

`WorkerLifecycle` sees a worker as one job record that each request changes in
one step; `WorkerGateway` and `UploadTransfer` open that step up, and `CanonLedger`
sees a job from planning to review without its worker. They share no variable:
each states what the others may assume.

### State of `WorkerLifecycle`

| Variable | Code | Survives a crash |
|---|---|---|
| `jobs` | the `production_jobs` row and its outputs | yes |
| `vault` | which leases have an entry in the lease-token map | yes |
| `call` | the suspended calls of the orchestrator: the await each is at (`pc`), the values its local variables hold | no |
| `pass` | the rest of the job list of the timer's current pass | no |
| `pods` | the provider's view of the Pod created for each lease | environment |
| `worker` | the job record inside that Pod | environment |
| `faults` | how many failures have happened, for the bound | — |

### `WorkerLifecycle`: one action per stretch between two awaits

`pc` names the request that is awaited. An action whose guard is `At(c, "x")` is
the code from the answer to request *x* up to the next `await` or the return,
with every store call in between. The local variables that later code reads are
kept in `call`: `seen` is the job state read at the start (`details.job.state`),
`pod` is `workerPodId` as first read, `next` is the artifact index, `map` is the
token map as read, `why` tells which of the five places that stop a worker is
running.

| Code | Actions, in order |
|---|---|
| `queueApprovedJob` | `QueueStart` → `QueueRefreshed` → `ReadTokens`, `QueueStore` → `QueueAssign` (or `ReadTokens`, `QueueUnstore` when the assignment loses) → `CreatePod` → `CreateAnswered` / `CreateUncertain` |
| `reconcileJob`, finding the Pod | `ReconcileByUser` / `TimerReconcile` → `WorkerFound` / `WorkerFoundTooLate` / `WorkerNotFound` |
| `reconcileJob`, Pod not running | `ReadTokens`, `CloseStopped` |
| `reconcileJob`, provisioning | `ReadLeaseToken` → `PreflightPasses` / `PreflightRejects` → `SubmitAccepted` / `SubmitAnswerLost` |
| `reconcileJob`, running | `ReadLeaseToken` → `PollWorking` / `PollFailed` / `PollCancelled` / `PollSucceeded` → `Downloaded`, `RegistrationFails` → `Purged` / `PurgeAnswerLost` |
| stopping a worker | `TerminatePod` / `TerminateFails` / `TerminateAnswerLost` → `ReadTokens`, `ForgetToken` / `ForgetTokenFails` |
| `cancelJob` | `CancelStart` → `CancelWorker` → stopping |
| recovery timer | `TimerList`, `TimerReconcile` |
| any failing request | `CallFails` (nothing written) and `WorkerCallFails` (recoverable error written), as the `catch` blocks distinguish |
| crash | `Crash`; `CrashBetweenWrites` where one stretch holds two transactions |
| store calls from the windows | `ApproveJob`, `ReviewMedia` |
| provider and Pod | `PodStarts`, `PodExits` (idle timeout, hard deadline, eviction), `PodForgotten`, `WorkerFinishes` |

### `LeaseAudit`

Four sets of leases, reserved, billing, ended and closed, and four steps. A lease
is reserved once; a worker is rented only under a reserved lease that never had
one; it ends once; and it is closed only after it ended. `WorkerLifecycle`
implements it under the mapping that reads the sets off `jobs` and `pods`.

### `UploadTransfer`

| Variable | Code |
|---|---|
| `client` | the uploads under way in the application: before a chunk, waiting for a receipt, all receipts held, job accepted |
| `slot` | the gateway's suspended `upload()` calls: the await each is at, its chunk, the file it has open, and the receipt |
| `partial`, `stored` | which file has the name `<destination>.partial`, and which has `<destination>` |
| `content` | what each file holds, piece by piece |
| `metadata` | whether `<destination>.upload.json` exists |

Files and names are separate because a handler that has opened the partial file
keeps it open across the rename or the removal of its name. A piece is a chunk
as sent, a chunk of an input that changed, or part of a chunk; sizes are
compared as the code compares them, so a changed chunk passes a size check and a
torn one does not.

| Code | Actions, in order |
|---|---|
| `uploadAssetFromPath` | `StartUpload` → `SendChunk` → `ReceiveReceipt`, per chunk; `GivesUp` is a timeout or the end of the application |
| `upload`, destination exists | `UploadStored` → `UploadStoredHashed` |
| `upload`, chunk already there | `UploadArrives`, then for the last chunk `HashPartial` → `RenamePartial` |
| `upload`, next chunk | `UploadArrives` → `OpenPartial` → `WriteChunk` / `WriteBreaks` → `CheckWritten` → for the last chunk `HashPartial` → `RenamePartial` |
| its `catch` block | `Fail` (partial file and metadata removed), `Refuse` (errors with a status: kept) |
| `verifyJobInputs` | `SubmitJob` |
| restart of the gateway | `GatewayRestarts` |

### `WorkerGateway`

| Variable | Code |
|---|---|
| `engine` | `workflow.engine` of the job, which never changes |
| `pc` | the await each submission's handler, or the `execute` it started, is at |
| `job` | the job object each accepted submission created: state, and whether `comfyPromptId` is set |
| `jobs` | the object the `jobs` map holds for the job |
| `disk` | `job.json`: whose object was written, in which state |
| `inputs`, `runnerOutput`, `artifacts` | the folders of the job |
| `child`, `jobProcesses` | the runner processes and the map that finds one by job |
| `prompt` | each submission's prompt in ComfyUI |
| `cancelling` | cancellations that await ComfyUI's answer |
| `collected` | whether the application holds the outputs, after which it may purge |

| Code | Actions, in order |
|---|---|
| `POST /v1/jobs` | `SubmitArrives` → `InputsRefused` / `SubmitAccepted` (persist as queued, then `execute` to its first await) |
| `execute`, worker-python | `StartRunner` → `RunnerExits` / `RuntimeLimit` → `CollectEnds` |
| `execute`, comfyui | `StageInputs` → `PromptAnswered` → `PollCompleted` → `CollectEnds` |
| `execute`, `catch` | `Fail`, reached from each of these and from `ExecuteFails` |
| `POST …/cancel` | `Cancel`, or `CancelPrompt` → `CancelAnswered` when a prompt is known |
| `GET` and downloads by the application | `Collect` |
| `DELETE /v1/jobs/:id` | `Purge` |
| start-up | `Restart` (with `Load`) |
| ComfyUI | `ComfyStarts`, `ComfyEnds` |

`WorkerReport` has one variable, the answer to `GET /v1/jobs/:id` with the three
unfinished states taken together: a job is accepted once, ends once, keeps its
ending, and is forgotten only after it succeeded.

### The studio's side of a job

`JobApproval` has the mounted room (`desk`: the selected workflow, offer and
media, the estimate shown, the two ticks), the number of times it was opened
(`visit`), for each visit the call that it waits for with what its closure holds
(`call`), the job rows (`paidJobs`), and what changes meanwhile: `price`,
`catalogue`, `limits`, `clock`. A call outlives its room: when the room was left,
it goes on planning, approving or starting, and only shows nothing any more
(`Shows`).

| Code | Actions |
|---|---|
| controls of the room, a late cloud status, leaving it | `SelectWorkflow`, `ChooseOffer`, `ChooseInputs`, `TickCost`, `TickStart`, `LateCloudStatus`, `ReopenDesk` |
| `estimateWork` | `AskEstimate` → `EstimateArrives` |
| `plan` | `PressPlan` → `PlanPaidJob` (`planJob`) → `ApprovePaidJob` (`approveJob`) |
| `start` | `PressStart` → `QueuePaidJob` (`queueApprovedJob` up to `assignWorker`) |
| any of them refused | `CallRefused` |

`WorkerInputs` follows one job from the library's list of approved media (`shelf`)
over the dataset built from samples (`BuildDataset`, `ApproveDataset`), the
estimate, which checks what is ticked (`EstimateInputs`, `RoomAccepts`), and the
plan, which sends what is selected and ticked by then and does not check it
(`PlanInputs`), to the gateway's check (`SubmitInputs`) and the runner's
(`RunInputs`), whose scripts know a file by its suffix (`VideoFile`, `AudioFile`:
`.webm` is both). A medium stands for its file and record, a text for its length.

`CanonLedger` has `canon`, `revision`, `depends` and `stale` for the continuity,
`media`, `maker` and `jobs` for what is reviewed. Its actions are the store's
methods, each a transaction: `Promote`, `ImportMedia`, `AssembleMedia`,
`ReviewMedia` (two transactions: the process may die between them), `PlanJob`,
`ReceiveOutput` (one output of a job; others may still be on their way) and
`AwaitReview` (the state after the purge). `RegisterAssembled` is `registerAssembledMedia`, which datasets
(`AssembleMedia`), renders, thumbnails and captions have in common.

`ReleaseDesk` extends it with `timelines`, `renders`, `details`, `attested` and
`packages`: `SaveTimeline`, `LockTimeline`, `StartRender` → `FinishRender` /
`LoseRender`, `StartThumbnail` → `FinishThumbnail` / `LoseRender`,
`ExportCaptions`, `SaveDetails`, `Attest`, `LockPackage`. The finishing room asks
for less than the store allows: `SaveDraft` and `PackageRelease` are the store's
`SaveTimeline` and `LockPackage` with what the screen offers (`Offered`).
Registering continuity after a lock or a package was committed may fail.

`ReleaseEvidence` has the mounted evidence form (`form`), `snapshots`, the ticked
ones (`cited`) and `learnings`. A report is the sequence of its lines below the
header; a line is blank, a total, a video with its figures or no video, and a
line whose figures cannot be read counts as no video, because either refuses the
report (`ReportIsReadable`).

### The studio's files

| Module | State | Actions |
|---|---|---|
| `WriterLock` | `lockFile`, each window's place in `acquire` and `release` (`stage`), its `attempt`, the records moved aside (`preserved`) | one per system call: `CreateLock`, `WriteLock`, `InspectLock`, `StatLock`, `MoveAside`, `CheckToken`, `UnlinkLock`; `OpenWindow`, `BeginRelease`, `CrashWindow`, `AgeLock` |
| `ProjectLibrary` | folders (`disk`), index rows (`catalog`), `strays`, `backups`, the safety operation in progress, `unrecovered`, `up` | `CreateProject` (cut off after any of its statements), `SaveCreativeDirection`, `BeginBackup` → `CopyFiles` → `CopyDatabase` → `PublishBackup`, the three ends of a migration, `BeginRestore` → `CopyAside` → `ActivateRestore`, `Reconcile`, `CrashLibrary`; `ImportFile`, `ImportRow`, `LoseFolder`, `DamageDirection` from outside |
| `UpstreamImport` | `direction`, `imports`, `storedPlans`, running imports | `ChooseImport` → `ValidateFile` … → `RecordImport`, `AcceptImport`, `SaveDirection`, `RestartImporter`; `LongFormPlan` is the plan, computed with the code's rounding |
| `ModelInstall` | what is under each `destination` and its `partial`, the running `boot`, the `receipt` | `LookForModel` → `ClearPartial` → `FetchModel` → `ReplaceModel` → `HashModel`, per entry, `WriteReceipt`; `StartContainer`, `KillContainer` |
| `WritingRoom` | versions of the `facts` and the skill `plan`, the `panel`, `requests`, `libraryBusy`, `logBroken` | `ShowPreview`, `ShowPlan`, `Tick`, `Generate` → `BuildContext` → `CheckPlan` → `CallProvider` → `SaveDraft` → `RecordSaved` / `RecordUnsaved`; what changes meanwhile |

### The studio's settings and rooms

`CloudSettings`, `WritingSettings` and `SkillRegistry` have the same shape: the
files, the calls under way with what each loaded (`…Calls`), the call the mounted
panel waits for (`…Busy`), and history of what the user did. One action per
stretch between two awaits (`LoadCloudRecord` → `ListGpus` → `StoreCloudKey` →
`SaveCloudRecord`, …), in each of which the write may fail; `Reopen…Panel` clears
the panel's flag while its call goes on; `Restart…` drops the calls and keeps the
files. In `SkillRegistry` a panel that was opened shows nothing until its first
reading arrives, perhaps late (`skillOpening`, `ReadForSkillPanel`,
`ShowSkillPanel`), and the reading that ends each call may fail
(`ReturnSkillStatus`); `skillMissed` records that the panel was not told what is
installed.

`GuidedStages` has what is on disk (`approved`, `drafts`, `promoted`), the mounted
`screen` and the presses whose closures are running (`clicks`). A press of
*Create* goes through the candidate models one request at a time
(`CreateStage` → `SaveProposal` / `TryNextModel` → `ListProposals`), one of
*Approve* through `PromoteStage` → `AdvanceStage`. `approved` holds kinds of canon,
not stages: a stage makes one kind (`CanonKind`) and counts as finished when one of
several is there (`FlagOf`), so that what another room approved finishes it too.

`StudioShell` has the `shell` (production, page, one-off tool, retake), the calls
whose `answers` are due, the mounted finishing `room` with its two forms, the save
under way and the `texts` on disk. A one-off tool is opened when the work it starts
from is approved (`StartsFrom`, `OpenQuickTool`), which `Progress` says of each
production. Late answers are its subject: `AnswerOpen`, `AnswerUpdate`, `LoadRoom`, `AnswerSave`, `RetakePlanned`.

## 4. Runs

| Run | Instance | Distinct states | Properties |
|---|---|---|---|
| `WorkerRaces` | 1 job, 2 leases, timer and 2 user calls, no faults, all review decisions | 3.0 M | `OneDownloader`, `IdentityIsPermanent` |
| `WorkerFaults` | 1 job, 2 leases, timer and 1 user call, 2 artifacts, 3 faults | 1.5 M | `RecordedMeansStopped`, `OutputsAreWhole`, `SettledIsFinal`, `NoPodIsLost`, `ImplementsLeaseAudit` |
| `WorkerRelease` | 1 job, 1 lease, timer and 1 user call, 1 fault, fair | 65 k | `WorkerIsReleased` |
| `UploadSequential` | 2 callers one after the other, 2 handlers, 3 chunks, 5 faults, restarts | 4.8 k | `StoredIsWhole`, `UploadedIsStored` |
| `UploadOneChunk` | 2 callers one after the other, 1 chunk, 3 faults, fair | 0.5 k | `UploadCompletes` |
| `GatewayOverlap` | 3 overlapping submissions, either engine, fair | 0.45 M | `RestartFindsTheAnswer`, `AnswerIsBacked`, `OneRunner`, `ExecutionEnds` |
| `GatewayRunner` | 3 submissions one after the other, runner | 0.2 k | `ImplementsWorkerReport` |
| `StudioFiles` | one part of `MCStudioFiles` per behaviour, fair | 0.76 M | `HolderIsNamed`, `RefusedOnlyWhileFresh`, `HalfMigratedHasBackup`, `AcceptedPlanIsStored`, `PlanTellsTheStory`, `ServesWholeModels`, `SecondOnlyAfterFailure`, `ReportIsTrue`, `RequestsEnd` |
| `StudioSettings` | one part of `MCStudioSettings` per behaviour | 1.5 M | `ReadyWasEarned`, `LimitsAreTheLastSaved`, `ActiveKeyWasAccepted`, `SkillsAreGranted`, `TickIsForItsDraft`, `StaysInProduction` |
| `ReviewAndRelease` | one part of `MCReleaseDesk` per behaviour | 1.0 M | `CanonIsSound`, `ReviewedJobSucceeds`, `LockedCanonIsTracked`, `LockedIsFrozen`, `ReleaseIsReviewed`, `SpendIsApproved`, `RunsOnReviewed`, `ReportIsCited`, `LearningsAreGrounded` |

`FindOrphanPod` and `FindSwappedInputs` end with a counterexample: section 6.
Every module also states its type invariant. All of them are proved, as a theorem
of their own or as a part of the inductive invariant; the runs list none.

What the runs show:

- **`WorkerRaces`**: whatever the user's two calls and the timer interleave on a
  job (queue twice, reconcile during a reconcile, cancel in the middle), at most
  one of them downloads, and a recorded lease, Pod id or closing mark is never
  replaced.
- **`WorkerFaults`**: with up to three lost answers, refusals or crashes in any
  place and with a provider that forgets Pods, a job is closed or terminated only
  when its Pod stopped, a Pod exists only for a lease recorded on one job, and
  until it stopped the recovery timer lists that job; the worker's
  copies are purged only when every artifact is registered, no artifact is
  registered twice, a job waits for review or succeeds only whole, neither a
  final state nor a decision is taken back, and every step is one of `LeaseAudit`.
- **`WorkerRelease`**: a worker whose job is over, or that stopped by itself, is
  recorded as closed (or its job as terminated) by the timer.
- **`UploadSequential`**: while one upload at a time is under way, no sequence of
  broken bodies, changed inputs, lost answers and restarts leaves anything but
  the input under the destination's name, and a client that was told its upload
  is complete left it there. Both parts are proved; the second for overlapping
  uploads too, for which the first fails (`FindTornUpload`).
- **`UploadOneChunk`**: an input of one chunk always gets there. With three chunks
  it need not (`FindStuckUpload`).
- **`GatewayOverlap`**: several executions, cancellations and a purge that persist
  different objects of the same job leave the map and `job.json` in agreement at
  every await; a job that is reported as unfinished is being worked on and ends;
  what a succeeded job lists can be downloaded; and a job that is executed twice
  still has one runner at a time, because the second finds the output folder of
  the first.
- **`GatewayRunner`**: every step of the runner's workflow, with cancellation,
  purge and restart anywhere, is a step of `WorkerReport` or none. With ComfyUI it
  is not (`FindRevivedJob`).
- **`StudioFiles`**: with windows killed at any system call, the writer is the one
  the lock names and no start is refused for good; whatever step of a migration,
  its rollback or a restore the process dies in, a half-migrated folder has a
  backup; an accepted import has its plan on disk, and the plan, computed with
  the code's rounding, has every sequence of the story in order, also of a story
  without times, and scenes that fill each; a worker killed during installation never serves a partial or
  unmatched model; a confirmed draft is paid once unless a failure was reported
  before, its report never claims a draft that is not there, and every request ends.
- **`StudioSettings`**: with two overlapping calls per service, failed writes and
  restarts, generation is ready only with an accepted key and saved limits, the
  limits are the last saved while the user stays, an active writing key was
  accepted, skills run only where they were enabled while that package was
  installed and, until the panel is left or misses a change, only as the panel
  showed them; and in the
  rooms a confirmation is for the draft it was given for, and texts, one-off
  tools and retakes stay in their production however late calls are answered.
- **`ReviewAndRelease`**: canon has one active version per label with exact
  staleness; a job succeeds only with its outputs approved, and one that has them
  approved waits only if the last approval came before it awaited review or the
  process died in it; a locked timeline
  never changes, and its canon is tracked where its registration succeeded; what is released was
  reviewed: clips and packaged files are approved, a master is of its timeline, a
  thumbnail shows an approved picture and captions are of a locked timeline; paid
  work costs what was ticked at most, also that of a room that was left; an
  adaptation trains on the manifest and the samples that were reviewed, whatever
  is ticked after the estimate; and evidence cites its report, unless figures were
  typed over, and carries a learning only if all of it may.

The three studio runs put components side by side that share no state, and each
behaviour follows one of them (`followed`, chosen in the initial state), so the
states of the parts add up instead of multiplying. Parts that do share state are
composed: `ReleaseDesk` over `CanonLedger`.

Bounds of the studio runs:

- *Calls*: two at once. A panel's button starts one call; a second needs the
  panel reopened, and every hazard found is between a call and one that overlaps it.
- *Keys, limits*: two keys (the old and the new), one set of limits, as a call
  either carries limits or those on disk; one writing provider, because a save
  changes its own provider's entry only; two versions of one skill.
- *Creator Mode*: three presses and two candidate models let a press be abandoned
  by reopening the screen, another create, and a third approve; one reopening,
  during which the master of a finished production may be approved. A behaviour
  begins with nothing approved (`Beginnings`): later stages run through the same
  actions. The theorem is for every beginning and for whatever other rooms
  approve meanwhile.
- *Shell*: two productions, one of them far enough for every one-off tool, two
  calls under way and one save.
- *Windows*: three, so that two meet the record a third left; `Solo` is the
  single-instance lock of the application.
- *Library*: one production, one import, two backups, two versions: a backup
  during an import, a migration after it, and a restore of either.
- *Imports*: two, of a story of four episodes whose shares do not divide evenly,
  of one whose episodes have no time or less, and of one that a validator refuses;
  600 seconds.
- *Installation*: one entry of each mode of the manifest.
- *Drafts*: two requests and two confirmations; context and plan change once.
- *Canon, release*: three proposals of two labels, seven media, two jobs, one
  timeline, one package, two edits. Renders of a timeline that overlap (part
  `"renders"`, with canon) and a package of one master, one thumbnail and one
  caption file (part `"package"`, without) are followed separately, because no
  guard of a package reads a render under way; `CanonIn` names the parts with canon.
- *Approval*: two workflows that differ in memory, minutes and inputs, one offer,
  two prices, two estimates, one set of limits. Two visits to the room let a call
  outlive its room; the second keeps the workflow the room opens with
  (`InFirstVisit`), which the theorem does not assume.
- *Inputs*: an image, a mask, a `.webm` video, an audio file and a dataset, in two
  orders of arrival; two or three samples are a dataset; texts have one length.
- *Evidence*: four reports (one video; totals, a blank line and two videos around
  the limit; a video twice; totals only), two snapshots, one learning.
- *Deadlock* is not checked where the system may stop: jobs and uploads end,
  bounded presses are used up.

Bounds of the worker runs:

- *Jobs*: every guard reads one job; jobs meet only in the token map and in the
  GPU limit, and the findings about these two (`FindLostToken`, `FindGpuLimit`)
  use two.
- *Leases*: two, so that one job's two concurrent queue calls draw different
  ones and so that the loser's lease is distinct from the winner's. A lease drawn
  and dropped without a trace may be drawn again; it cannot be told from a fresh
  one.
- *Callers*: the timer runs one reconciliation at a time (its flag), so it is one
  caller; two user calls give three concurrent calls on one job.
- *Artifacts*: two, so that a failure, a cancellation or a crash can fall between
  two downloads. `WorkerRaces` has one.
- *Faults* (`MaxFaults`): each lost or refused request and each crash counts one.
  A failure that certainly happens in the state at hand (an absent Pod, a worker
  that does not know the job) is free. Three faults reach a failure of a retry of
  a failure; one is enough for the liveness run, where the interesting point is
  what the next passes do after it.
- *Handlers* (`Slot`), *files*: a request that was given up is handled to its end,
  so further handlers let a retry meet an abandoned one; one file per handler
  plus the two names.
- *Chunks*: one, two (first and last differ) and three (a middle one). Every
  comparison is with the chunk's own start, its end or the total.
- *Overlap* says whether two reconciliations may be at the upload, or the
  submission, of the same job at once. The application allows it (the timer and
  a window's call); properties that need it not to happen are checked without it,
  and the `Find` configurations show what happens with it.
- *Submissions*: one job id is enough, because jobs in a Pod share nothing but
  ComfyUI's queue, which is environment. Three submissions let one succeed,
  one be cancelled and one arrive after the purge.
- *Symmetry*: jobs, leases and user callers, and in the studio runs keys, calls,
  proposals of one label and the like, are interchangeable. It is used where only
  safety is checked.

`Forgetful` says whether the provider may stop answering for a terminated Pod.
It is on where safety is checked. In `WorkerRelease` it is off, because with it
the property fails: see `FindForgottenPod`.

`ReplyFields` is the set of fields in a worker's reply. The passing runs use the
contract's (`WorkerJobSchema`, which the fake worker of the tests sends), and
`FindUnreadableReply` what the gateway sends. With the gateway's reply no job
leaves provisioning by itself, so the passing runs describe the system as it is
when the two sides agree.

## 5. Fairness

`FairSpec` adds weak fairness of `Resume(c)` for every call and of the timer.

- Every provider and worker request is made with a timeout
  (`AbortSignal.timeout` in `provider-runpod` and `worker-client`), and file
  operations return, so a suspended call always resumes, with an answer or a
  failure. Weak fairness of the disjunction says that and no more: which outcome
  is up to the environment.
- The interval is never cleared while the application runs, and a pass that
  threw is followed by another. It visits the library that is open, and does
  nothing while RunPod is disconnected: `WorkerIsReleased` is about a library that
  stays open and a user who stays connected.
- Nothing is assumed of the user, the provider, the Pod or the work in it. In
  particular no Pod has to start or to exit.

`UploadTransfer` assumes the same of the client's calls (`CallStep`), of the
gateway's handlers, which read and write local files or a body whose connection
times out (`HandlerStep`; `server.requestTimeout`), and of the timer, which
starts the upload of a job in provisioning again and again.

`WorkerGateway` assumes weak fairness of `ExecuteStep(s)` only: every request to
ComfyUI is aborted after 30 seconds, the polling loop has a deadline, the runner
is killed at its runtime limit, and the rest are file operations. ComfyUI need
never start a prompt, and a runner need never exit by itself.

`WritingRoom` assumes weak fairness of `RequestStep(r)` for each request
(`RoomFairness`): the writing providers are called with a timeout, and the rest is
files and synchronous work. The exclusive library operation that a save waits for
is not assumed to end: a save then is refused, not delayed. No user action is fair.

## 6. Where the code and its documents disagree

Where a property below is kept under a condition, that is proved (section 7):

| Property | Holds when | Theorem |
|---|---|---|
| `StoredIsWhole` | uploads of a file do not overlap | `StoredStaysWhole` |
| `SubmissionIsIdempotent` | submissions of a job do not overlap | `SerialSubmissionsAreIdempotent` |
| `CancellationIsFinal` | a runner does the work, and submissions do not overlap | `RunnerStaysCancelled` |
| `WithinGpuLimit` | one user call at a time and no failure; otherwise the excess is bounded | `SerialQueueingKeepsLimit`, `GpuLimitIsPassedByFew` |
| `OneWriter` | windows start under the single-instance lock | `SoloWindowWritesAlone` |
| `FailureSavedNothing` | the diagnostics log can be written | `WorkingLogSavesOncePerTick` |
| `RemovedKeyStaysRemoved` | the user stays on the panel | `RemovedKeyStays` |

Two are runs that TLC ends with a counterexample; `PROJECT.json` quotes the lines.

| Run | Property | What happens |
|---|---|---|
| `FindOrphanPod` | `LeasedWorkerIsFound` | a create whose answer was lost, then a cancellation before the Pod id is known: the Pod runs under a cancelled job, is found by its lease and refused by `attachProviderPod`, and nobody stops it |
| `FindSwappedInputs` | `InputsArriveInOrder` | the inputs of a job are filtered from the library's list, which is newest first, and the gateway and its runners take them by position |

The next are configurations beside the runs. Each ends with a counterexample
when it is given to TLC with the module named here; the properties are stated in
the component's module.

| Configuration | Module | Property | What happens, and the words it contradicts |
|---|---|---|---|
| `FindLostToken` | `MCWorkerLifecycle` | `LiveWorkerHasToken` | two jobs queued at once: the second token map written drops the first token |
| `FindUnreadableReply` | `MCWorkerLifecycle` | `AcceptedWorkIsRecorded` | the gateway's reply carries `parameters` and `inputAssets`, which the client's strict schema refuses |
| `FindTornUpload` | `MCUploadTransfer` | `StoredIsWhole` | two requests for one chunk both open the partial file; one renames it, the other then appends to the renamed file |
| `FindStuckUpload` | `MCUploadTransfer` | `UploadCompletes` | the client always starts at byte 0, the gateway insists on the byte it has got to, and neither gives way. `docs/API_CONTRACTS.md:282`: "Resumable, size-limited input upload" |
| `FindForgottenPod` | `MCWorkerLifecycle` | `WorkerIsReleased` | a termination whose answer was lost and whose Pod the provider no longer lists: every later `getPod` throws, and the job is neither closed nor flagged. `docs/DOMAIN_MODEL.md:325`: "`terminated` requires provider confirmation or an explicit unresolved incident state." |
| `FindStuckDownload` | `MCWorkerLifecycle` | `InterruptedDownloadResumes` | a download that fails leaves the job in downloading or verifying, states from which `reconcileJob` does nothing. `docs/GPU_OPERATIONS.md:242`: "Resume within sync grace" |
| `FindGpuLimit` | `MCWorkerLifecycle` | `WithinGpuLimit` | two jobs queued at once both pass the limit check. `docs/PRODUCTION_IMPLEMENTATION.md:42`: "up to the saved limit of one to three GPUs" |
| `FindRevivedJob` | `MCWorkerGateway` | `CancellationIsFinal` | the polling loop writes verifying and succeeded over a cancellation. `docs/DOMAIN_MODEL.md:309`: "terminal alternatives: rejected \| cancelled \| failed \| expired" |
| `FindRunnerAfterCancel` | `MCWorkerGateway` | `CancelledIsStopped` | a cancellation while ComfyUI releases its models: the runner is started afterwards. `docs/PRODUCTION_IMPLEMENTATION.md:164`: "Cancellation stops child process groups" |
| `FindSecondExecution` | `MCWorkerGateway` | `SubmissionIsIdempotent` | two submissions overlap in the input check and both are executed. `docs/PRD.md:131`: "Jobs are durable, resumable, idempotent" |
| `FindStalePackage` | `MCReleaseDesk` | `PackageIsAsAttested` | the release details are edited after the attestation and packaged. `docs/API_CONTRACTS.md:376`: "A package request fails when the ... attestation ... inputs are stale ... or changed" |

`CancellationCompletes` fails on the instance of `FindStuckDownload` with that
property in its place: a cancellation whose termination fails leaves
cancel-requested, and only another cancellation by the user retries it
(`docs/GPU_OPERATIONS.md:244`: "Repeated provider reconciliation and high-priority
alert"). Where the property is a liveness property the specification is
`FairSpec`: the counterexamples are loops in which the timer keeps firing and
every call returns.

The studio's modules state further properties that the code does not keep. TLC
shows each when it is added to the run named here.

| Property | Run | What happens |
|---|---|---|
| `OneWriter` | `StudioFiles` with `Solo = FALSE` | two windows judge one stale lock; the second moves aside the record the first has just created. `CHANGELOG.md:415`; the single-instance lock of the window prevents it |
| `SnapshotIsWhole` | `StudioFiles` | an import that ends between the copy of the files and that of the database leaves a row without its file in the backup (`docs/SECURITY_AND_RECOVERY.md:160`) |
| `FailureSavedNothing`, `OnePaidPerTick` | `StudioFiles` | an answer was saved, the diagnostics entry could not be written, the panel reports a failure and keeps the tick (`CreativeRoom.tsx:796`) |
| `OnlyPreviewedContext` | `StudioFiles` | the context is built again when the request is sent (`CreativeRoom.tsx:474`) |
| `RefusalKeepsPlans`, `PreviewCanBeAccepted` | `StudioFiles` | a refused acceptance has stored its plan (`apps/desktop/src/main/index.ts:1625`); a plan made under an earlier direction can no longer be accepted |
| `IndexedIsWhole` | `StudioFiles` | a creation that dies between its database statements leaves a folder that the library lists and opens, with an unfinished database and no backup (`packages/project-store/src/index.ts:744`) |
| `PlanFillsTheProject` without its premise `EveryEpisodeTimed` | `StudioFiles` | three episodes of zero seconds are a plan of three seconds for a project of 600 (`packages/upstream-adapter/src/index.ts:583`) |
| `InstallCanSucceed` | `StudioFiles` | a download of a cache snapshot that was cut short is refused by every later start |
| `RemovedKeyStaysRemoved` | `StudioSettings` | a refresh that read the key before a disconnect stores it again (`docs/API_CONTRACTS.md:41`) |
| `GrantsWereAlwaysGiven`; `OneTextPerVersion` with both packages of `TwoVersions` under version 1 | `StudioSettings` | leaving the panel while an update is written, or a reading that fails after it, lets a box ticked for the old contents grant the new (`docs/SECURITY_AND_RECOVERY.md:116`); after a removal the same version may come back with other contents (`docs/ARCHITECTURE.md:155`) |
| `ApprovedWasReviewed`, `OneProposalPerClick`, `BusyEnds`, `ContextArrives`; `StageIsItsDraft` with `Beginnings = {{"series-bible"}}` | `StudioSettings` | stages are switched and reloads fail while a press is under way (`CreatorMode.tsx:599`, `docs/ARCHITECTURE.md:177`) |
| `SavesStayInProduction` | `StudioSettings` | an update answered late makes another production active under the finishing room's forms (`App.tsx:1144`, `docs/PRD.md:245`) |
| `NoReviewIsStuck` | `ReviewAndRelease` | all outputs are approved while the worker still purges its files, before the job awaits review, or the process dies between the two transactions of the last review: nothing completes the job |
| `PackageHoldsItsMaster` | `ReviewAndRelease` | the package takes a master that its timeline was not attached to |
| `NoPackageOverStaleCanon` | the instance of `FindStalePackage` | the package is made over stale continuity (`packages/release-store/src/index.ts:268`) |
| `PackageIsWhole` | `ReviewAndRelease` | the package is committed, its continuity is not registered |
| `ApprovedInputsFit`, `EstimateIsOfItsWorkflow` | `ReviewAndRelease` | workflow and media are changed between the estimate and the plan (`docs/ARCHITECTURE.md:429`) |
| `StartIsWithinLimit` | `ReviewAndRelease` with two session limits, 1 and 2, in `OneLimit` | the session limit is lowered after the approval and not compared again |
| `RefusedBeforePaying`, `DatasetCanTrain`, `EditKeepsItsParent` | `ReviewAndRelease` | the plan sends what is ticked after the estimate, and the room's, the plan's, the gateway's and the runner's limits on inputs differ, so a rented worker refuses, or takes for a mask, what it is given |
| `VoiceIsRecorded` | `ReviewAndRelease` | a `.webm` video ticked after the estimate is taken for a voice recording (`worker/python_runner.py:112`) |

## 7. Proofs

### The orchestrator

`WorkerLifecycle_proofs` holds for every number of jobs,
leases, callers, artifacts and faults, under `LeaseAssumption` (the null is no
lease) and `WorkerLifecycleAssumption` (the null is no job, the timer is a
caller, there is an artifact, bounds are naturals).

| Theorem | Statement |
|---|---|
| `Invariance` | `Spec => []IInv` |
| `TypeCorrect` | `Spec => []TypeOK` |
| `RecordsMeanStopped` | `Spec => []RecordedMeansStopped` |
| `NoPodsAreLost` | `Spec => []NoPodIsLost` |
| `IdentityKept` | `Spec => IdentityIsPermanent` |
| `LeasesAreAudited` | `Spec => ImplementsLeaseAudit`, the refinement |
| `DownloadsAreExclusive` | `Spec => []OneDownloader` |
| `OutputsStayWhole` | `Spec => []OutputsAreWhole` |
| `DecisionsAreFinal` | `Spec => SettledIsFinal` |
| `GpuLimitIsPassedByFew` | finitely many callers, then at most `MaxConcurrentGpus + (u - 1) + u * faults` Pods bill, with `u` user calls |
| `SerialQueueingKeepsLimit` | one user call and `MaxFaults = 0`, then `Spec => []WithinGpuLimit` |

**The inductive invariant.** None of these state properties is inductive: that
a closing record is truthful depends on what the suspended call that writes it
learned before its last await, and that a lease belongs to one job depends on the
leases that calls have drawn but not yet written. `IInv` is the conjunction of

- `TypeOK`;
- `JobsAreSound`: how a record's state, lease, Pod id and closing mark fit
  together, and with the Pod;
- `LeasesAreOwned`: two jobs never hold one lease, and every Pod has its job;
- `CallsAreSound`: what each await implies about the call's job and lease (a call
  about to record a close holds a lease whose Pod stopped; one about to create
  holds a reserved one, ...);
- `DrawsAreDistinct`: a lease drawn and not yet written belongs to one call and
  to no job.

TLC checked it as an invariant before it was proved.

**The argument.** All actions but two only move things forward: a record keeps
its lease, gains a Pod id or a closing mark, a Pod never goes back, and other
calls are left alone. `Advance` states this, and `AdvanceKeepsInvariant` proves
once that such a step keeps `IInv`; one lemma per action shows that it is an
advance. `QueueRefreshed`, which draws a lease, and `QueueAssign`, which writes
it on a job, are the two that are not, and each has its own lemma.

**The refinement.** A step writes one job at most (`StepsWriteOne`) or changes one
Pod at most (`StepsChangeOnePod`), never both; `JobStepRefines` and
`PodStepRefines` turn each kind into a step of `LeaseAudit` or a stutter, with
`QueueAssignRefines` for the reservation.

**The outputs.** What a job has registered is a second invariant, `FetchInv`,
proved to hold together with `IInv` (`FetchInvariance`):

- `OutputsFit`: each state of a record allows only some numbers of outputs, none
  before the first is registered, all of them from the review on;
- `FetchIsSound`: a call at `download` has the index of the next artifact, which
  is the number registered so far; one at `purge` has registered them all; one
  that polls starts at the first;
- `OneDownloader`, without which the index of a second call would not fit;
- `WorkersAreOwned`: a worker that was purged is that of a job that has them all.

Most actions leave outputs, indices and purged workers alone.
`QuietStepKeepsFetch` proves once that such a step keeps `FetchInv`, and one
lemma per action that it is quiet. The three steps of the fetching call,
`PollSucceeded`, `Downloaded` and `Purged`, have lemmas of their own. That a
final state is not left and a decision not taken back follows from the same two
invariants, transaction by transaction.

**The GPU limit.** A queueing call counts the running Pods before it draws its
lease, and its own Pod is counted only much later. `LimitInv` therefore counts
what is *claimed*: the leases whose Pods bill and those of calls that may still
request one. A draw adds one claim, and the call that draws saw every billing
Pod but those that other calls have requested and not heard of yet, and those
*adrift*: requested by a call that failed or crashed before the answer.
`DrawClaimsOne` is this count. `StepClaimsNothing` shows, action by action, that no
other step adds a claim, and that only a fault sets Pods adrift, at most one per
user call; `OthersKeepLimit` keeps the bound on both. `WithinGpuLimit` itself is
false (`FindGpuLimit`); the theorem says by how much.

### The upload

`UploadTransfer_proofs` holds for any number of callers, handlers, files, chunks
and faults, with overlap and restarts, under `UploadAssumption` (the timer is a
caller, the nulls are no handler and no file, there is a chunk).

| Theorem | Statement |
|---|---|
| `UploadTypeCorrect` | `Spec => []TypeOK` |
| `UploadedStaysStored` | `Spec => []UploadedIsStored` |
| `StoredStaysWhole` | `~ Overlap`, then `Spec => []StoredIsWhole` |

A client learns that it is done from a receipt, so `UploadedIsStored` is not
inductive. `UploadInv` adds `ReceiptsAreStored` (a receipt for the whole input
exists only once the file is stored), `ChunkIsLeft` (a client that goes on has a
chunk to send, which types the next request) and `WaitsForRequest`. The proof has
a lemma for each action; nothing ever takes the stored file's name away, which
is what carries the last step.

`StoredIsWhole` is false for overlapping uploads (section 6), so its theorem
assumes `~ Overlap`. `SerialInv` says that then one handler at a time is under
way and a client starts a request only while none is; that a handler about to
rename has a partial file which is still the one it hashed; and that no handler
is on its way to write once a file is stored.

### The gateway

`WorkerGateway_proofs` holds for any number of submissions, under
`GatewayAssumption` (the null is no submission; the engines are among the two).

| Theorem | Statement |
|---|---|
| `GatewayTypeCorrect` | `Spec => []TypeOK` |
| `AnswersAreDurable` | `Spec => []RestartFindsTheAnswer` |
| `AnswersAreBacked` | `Spec => []AnswerIsBacked`, from `ActiveJobsAreExecuted` and `OutputsAreServed` |
| `RunnersAreExclusive` | `Spec => []OneRunner` |
| `RunnerKeepsItsReport` | `Engines = {"worker-python"}` and `~ Overlap`, then `Spec => ImplementsWorkerReport` |
| `RunnerStaysCancelled` | `Engines = {"worker-python"}` and `~ Overlap`, then `Spec => CancellationIsFinal` |
| `SerialSubmissionsAreIdempotent` | `~ Overlap`, then `Spec => []SubmissionIsIdempotent` |

The invariant `GatewayInv` is the conjunction of these state properties and
`RunnerIsSound`: a runner that exists has its output folder, or its inputs are
gone after a purge; that is why no second one starts. It holds for both engines
and with overlapping submissions.

The refinement needs more, and holds for less. `SerialInv` says that, with a
runner and submissions one after the other, whatever is suspended belongs to the
known job, a job at an await of `execute` is running or cancelled, and nothing is
suspended once the outputs were collected. Each action then either leaves the
answer alone or is `Accept`, `End` or `Forget`. None of these leaves
*cancelled*, which is `RunnerStaysCancelled`.

`SerialSubmissionsAreIdempotent` is about either engine, and with ComfyUI
`SerialInv` does not hold: a cancellation that waits for ComfyUI can be answered after
the job was purged, and writes it again. `OneAtATime` keeps what is left: who
executes is the known job, and nothing has been collected while somebody does.

### The approval of a job

`PaidWork_proofs` (its first part) holds for any prices, limits, workflows, offers, jobs,
estimates and visits to the room, under `ApprovalAssumption` (prices and minutes are naturals, a
workflow's expected minutes are at most its longest).

| Theorem | Statement |
|---|---|
| `ApprovalInvariance` | `ApprovalSpec => []ApprovalInv` |
| `ApprovalTypes` | `ApprovalSpec => []ApprovalTypeOK` |
| `SpendingIsApproved` | `ApprovalSpec => []SpendIsApproved` |

`ApprovalInv` follows the estimate from the screen to the Pod: a tick is for the
estimate on screen (`DeskIsSound`); a suspended call, of the mounted room or of one
that was left, carries the tick and the
estimate of one moment, and the job it approves was planned for that estimate
(`CallsAreSound`); an approved job's limit is the maximum of its estimate, and a
queued one rents at a rate and for a time within it (`JobsAreSound`). The last
step is arithmetic: the rate and the minutes are each compared with what was
approved, and `CostIsMonotonic` relates their product. `ApprovalTypes` adds
`ApprovalRanges`: the job that *Start* acts on is a planned one, because planned
jobs stay planned (`PlannedStays`).

### The inputs of a worker

`PaidWork_proofs` (its second part) holds for any media, datasets, inputs and
orders of arrival, under `InputsAssumption` (there are finitely many media, none of
them a dataset; a dataset has a sample).

| Theorem | Statement |
|---|---|
| `InputsTypes` | `InputsSpec => []InputsTypeOK` |
| `InputsRunOnReviewed` | `InputsSpec => []RunsOnReviewed` |

The room's checks are no premise: what is planned is any selection of approved
media, for any workflow. `InputInv` has two parts. `ShelfIsSound`: a dataset that is recorded lists media
that were approved, and keeps its list. `OrderIsSound`: an order lists approved
media, and one that ran passed the runner's checks (`RunnerAccepts`). What the
runner trains on is found by position in what was sent, so the last step shows
that the samples it takes are those of the manifest it was given.

### The canon ledger and the release desk

`ReleaseDesk_proofs` holds for any number of proposals, assets, jobs, timelines,
renders and packages, under `LedgerAssumption` and `DeskAssumption` (the null is
no job, no asset and no timeline; no asset is a timeline).

| Theorem | Statement |
|---|---|
| `ReleaseInvariance` | `DeskSpec => []ReleaseInv` |
| `DeskTypes` | `DeskSpec => []DeskTypeOK`, with the ledger's types |
| `CanonStaysSound` | `DeskSpec => []CanonIsSound` |
| `SuccessIsReviewed` | `DeskSpec => []ReviewedJobSucceeds`: success only with every output approved; approved and waiting only if the last approval was overlooked (before the job awaited review, or the process died in it) |
| `ReleasesAreReviewed` | `DeskSpec => []ReleaseIsReviewed` |
| `LockedCanonStaysTracked` | `DeskSpec => []LockedCanonIsTracked`, about locks whose registration succeeded |
| `LockedStaysFrozen` | `DeskSpec => LockedIsFrozen` |

`ReleaseInv` has a part for each kind of state, and they meet in two facts about a
step: an approval and a registration are final (`ReviewsStay`), and dependencies
only grow. `CanonInv` adds that a name under which something was approved has an
active record (`NamesAreHeld`): a promotion counts its revision from that one, so
without it two revisions could be equal. `MediaInv` adds that what a job made is
on record, so that a new file is never an output of another job. `DeskInv` adds
that what a running render is of was reviewed when it was asked for (`OfReviewed`:
an approved picture, a locked timeline); reviews are final and locks stay, so it
still is when the render ends late, which is what `ReleaseIsReviewed` says of a
thumbnail and of captions (`MadeFromReviewed`). It also adds that a master is on
record, so that the file a late render brings is nobody's master yet.

### The writer lock

`StudioFiles_proofs` holds for any number of windows, killed at any system call,
under `WindowAssumption`.

| Theorem | Statement |
|---|---|
| `LockInvariance` | `LockSpec => []LockInv` |
| `TheHolderIsNamed` | `LockSpec => []HolderIsNamed` |
| `StartsAreRefusedWhileFresh` | `LockSpec => RefusedOnlyWhileFresh` |
| `SoloWindowWritesAlone` | `Solo`, then `LockSpec => []OneWriter` |

All three are about windows under Electron's single-instance lock (`Solo`);
without it the protocol does not exclude two holders (`OneWriter` in section 6).
`LockInv` says what the one live window knows about the file at each system call:
until it has created its record the file is somebody else's, from the write on it
is its own (`HolderIsOwner`); an unfinished record is of the window about to
finish it or of one that was killed (`UnfinishedIsWritten`); and the record in
the way is moved aside once, so that the second attempt finds no file
(`OneRename`).

### The project library

`StudioFiles_proofs` holds for any projects and any number of backups and versions,
under `LibraryBounds`.

| Theorem | Statement |
|---|---|
| `LibraryTypes` | `LibrarySpec => []LibraryTypeOK` |
| `LibraryHalfMigratedHasBackup` | `LibrarySpec => []HalfMigratedHasBackup`, about projects of the new format whose database records the old manifest |
| `LibraryRevisionsDistinct` | `LibrarySpec => [](RevisionsDistinct /\ IndexedAtHome)` |

A half-migrated folder can be copied, into a backup or by a restore, and a copy can
become the folder again. `LibraryInv` therefore speaks about copies everywhere:
each one is sound by itself (`SoundFolder`), and each half-migrated one in a
folder or a backup has a backup of the old format (`FoldersSound`, `Covered`).
`OperationSound` says the same of what the operation in progress holds, and that a
migration which wrote its manifest has saved that backup before. No operation
removes a backup, which carries the last step.

### Imports

`StudioFiles_proofs` holds for any stories and any number of imports, under
`ImportAssumption` (a package has its two required files and an episode; an
episode has a length, which may be zero or negative, and the lengths of its flow's
segments; only files a package has can fail).

| Theorem | Statement |
|---|---|
| `UpstreamTypes` | `UpstreamSpec => []UpstreamTypeOK` |
| `UpstreamAcceptedPlanIsStored` | `UpstreamSpec => []AcceptedPlanIsStored` |
| `UpstreamStoredPlanIsComputed` | `UpstreamSpec => []StoredPlanIsComputed` |
| `UpstreamPlanTellsTheStory` | `UpstreamSpec => []PlanTellsTheStory` |
| `UpstreamPlanFillsTheProject` | `UpstreamSpec => []PlanFillsTheProject`: the plan is not longer than the project by a second or more per episode and, if every episode has some time, not shorter either |
| `ActsTileTheStory` | the acts of n episodes: one to three of them, in order, none empty, together 1..n |

`UpstreamInv` says that an import keeps the package it was chosen with and, from the
preview on, the plan computed from it (`StoryIsFixed`), and that while no validator
has failed, the files that will fail are still to come (`FailuresAreAhead`): a
run that reaches its end without a failure had none.

What a plan is, `LongFormPlan`, sums over lists of any length, so its properties are
proved by induction. The library's induction theorems take a predicate as a
parameter, which the provers cannot instantiate; `SetInduction` says the same of a
*set* of numbers, and is proved from the well-foundedness of inclusion on finite
sets (`LeastNat`). `Recursion` gives from it the function that a recursive definition
unfolds to, `TotalUnfolds` that of `Total`. On these rest

- `SharesAddUp`: shares of an amount, each rounded and at least one
  (`ShareRounds`), add up to the amount up to less than one for each, which with
  `SecondsOfSequences` and `SecondsOfScenes` gives the lengths of sequences and
  scenes;
- `ActsHoldTheStory`: the acts one after the other are the sequences of the story
  in order, from `ActsTileTheStory` and `FirstExtends`.

### Model installation

`StudioFiles_proofs` holds for any list of models, killed at any step, under
`InstallAssumption`.

| Theorem | Statement |
|---|---|
| `InstallServesWholeModels` | `InstallSpec => []ServesWholeModels` |
| `InstallReplacedWhole` | `InstallSpec => [](InstallTypeOK /\ ReplacedWhole)` |

`InstallInv` follows the loop: what a step implies about the model at hand
(`EntryInRange`) and, outside a qualification, that every model behind it, every one
hashed so far and every one on the receipt is whole (`BehindIsWhole`).

### Writing drafts

`StudioFiles_proofs` holds for any number of requests, confirmations and changes of
the context, under `RoomAssumption`.

| Theorem | Statement |
|---|---|
| `RoomSecondOnlyAfterFailure` | `RoomSpec => []SecondOnlyAfterFailure` |
| `RoomReportIsTrue` | `RoomSpec => []ReportIsTrue` |
| `RoomPlanWasShown` | `RoomSpec => [](RoomTypeOK /\ PlanWasShown)` |
| `WorkingLogSavesOncePerTick` | `~ LogMayFail`, then `RoomSpec => [](FailureSavedNothing /\ OneSavedPerTick)` |

`RoomInv` adds `ReportFollows` (a request has a report exactly when it ended, and
what it kept was saved) and `TickIsHeld`: a request under the tick on screen is the
one the panel waits for, or was reported failed.

`OneSavedPerTick` is weaker than `OnePaidPerTick` (section 6), which fails even while
the log works: a save that is refused ends a request that was paid, and keeps the
tick.

### The cloud settings

`StudioSettings_proofs` holds for any keys, limits and calls in flight, under
`CloudAssumption` (the null is no key, no limits and no call).

| Theorem | Statement |
|---|---|
| `CloudInvariance` | `CloudSpec => []CloudInv` |
| `ReadinessIsEarned` | `CloudSpec => []ReadyWasEarned` |
| `SavedLimitsStay` | `CloudSpec => []LimitsAreTheLastSaved` |
| `RemovedKeyStays` | `CloudSpec => []KeyStaysRemovedOnPanel` |

A call writes back a record it read before its awaits, so `CloudInv` speaks about
what calls hold as well as about the files: every key on disk or in a record
was accepted (`FilesAreEarned`), and so were the one a call carries past the
account check and the one its record cites (`CallsAreEarned`). That limits are
not undone needs the panel: while the user stays there is one call, and its
record is the one on disk (`OneCallAtATime`).

`RemovedKeyStays` is what is left of a promise that fails in general
(`RemovedKeyStaysRemoved`, section 6): while the user stays, a key that was removed
is not stored again by a refresh. `RemovalHolds` is its invariant: after a removal
no call on its way holds a key.

### The writing settings

`StudioSettings_proofs` holds for any providers, keys, models and calls in flight,
under `WritingAssumption`.

| Theorem | Statement |
|---|---|
| `WritingTypes` | `WritingSpec => []WritingTypeOK` |
| `WritingActiveKeyWasAccepted` | `WritingSpec => []ActiveKeyWasAccepted` |

`WritingInv` adds what each call knows (`CallKnows`): a key passes the model list
before its call reaches the vault, and the earlier key that a failed save puts back
had passed it too.

### Skills

`StudioSettings_proofs` holds for any packages, projects and calls in flight, under
`SkillAssumption`.

| Theorem | Statement |
|---|---|
| `SkillTypes` | `SkillSpec => []SkillTypeOK` |
| `SkillsStayGranted` | `SkillSpec => []SkillsAreGranted`: entries have their packages, and grants were given for what was installed; for what the panel showed, until the panel is left or misses a change |
| `SkillsStayRemoved` | while the user stays on the panel a removed skill stays out of the registry |

`SkillInv` has a part that always holds, `SkillBase` (an entry's package file is
stored and its projects were enabled while it was installed, and the same of the
registry each call loaded), and one for while the user stays, `WhileStaying`: there
is one call, the registry it loaded is the one on disk, no entry is of a skill that
was removed, and until a reading fails or comes late the panel shows nothing but
what is installed and every project an entry runs in was granted that package by a
tick.

### Creator Mode

`StudioSettings_proofs` holds for any beginning, any number of presses, candidate
models and reopenings, and whatever other rooms approve, under `GuidedAssumption`.

| Theorem | Statement |
|---|---|
| `GuidedTypes` | `GuidedSpec => []GuidedTypeOK` |
| `GuidedTickIsForItsDraft` | `GuidedSpec => []TickIsForItsDraft` |
| `GuidedOneScreenPress` | at most one press of the mounted screen is between its click and its answer |

A press saves a draft and reads it back, and the box is ticked for what was read.
`GuidedInv` keeps the two together: a press that has asked and lost no reading has
no draft yet, and its screen shows none (`AskedAfresh`); the tick, and what a press was clicked for, is
the draft shown, or one whose press lost its reading (`ForIts`). `DraftsCounted` says
which press made a draft, and `OneAtATime` that the mounted screen has one press.

### The window

`StudioSettings_proofs` holds for any number of productions, saves and late answers,
under `ShellAssumption` (no production is the null; what a production has approved is
told by the kinds that some one-off tool starts from).

| Theorem | Statement |
|---|---|
| `ShellTypes` | `ShellSpec => []ShellTypeOK` |
| `ShellStaysInProduction` | `ShellSpec => []StaysInProduction`, until an update is answered for a production that is no longer open |

`ShellInv` is `ShellBase` (records, and an open room has a production) and, until an
update is answered for a production that is no longer the open one (`strayed`,
section 6), `InProduction`: intent, retake and everything the room has loaded are
of the production that is open.

### The evidence

`ReleaseEvidence_proofs` holds for reports of any length and content, and any
number of snapshots and learnings, under `EvidenceAssumption`.

| Theorem | Statement |
|---|---|
| `EvidenceInvariance` | `EvidenceSpec => []EvidenceInv` |
| `ReportsAreCited` | `EvidenceSpec => []ReportIsCited`: a cited row is in its report and, unless somebody typed over them, has the snapshot's figures |
| `LearningsStayGrounded` | `EvidenceSpec => []LearningsAreGrounded` |

`FormIsCited` is the invariant behind the first: the row a form cites is in the
report the form shows, with that row's figures until somebody types over them.
Behind the second are `EligibleIsGrounded`, since a snapshot is judged once, when
it is recorded, and `LearningsAreEligible`, which holds a learning to that.

### Only model-checked

Liveness under fairness is out of the prover's reach: `WorkerIsReleased`,
`UploadCompletes`, `ExecutionEnds`, `RequestsEnd`.

Every other property of a passing run is a theorem, and so is every type
invariant. No theorem uses `ENABLED`, and no module uses `RECURSIVE`: what recurses is
a function.

## 8. What is left out, and why

In the modelled part:

- *Awaits that are collapsed.* The provider status read before `TimerList`, the
  asset uploads between preflight and submission, and `cancelJob`'s reads of the
  API key, the token and the Pod change no state; their failure is the failure of
  the request they are collapsed with. A failed read of the token map is the
  failure of the write that follows it.
- *The worker, in `WorkerLifecycle`.* One record per Pod, changed in one step per
  request; the windows inside the gateway's own handlers are in `WorkerGateway`,
  and the upload before a submission in `UploadTransfer`.
- *Pod names.* `createPod` posts at most once per lease and tags the Pod with it,
  so a Pod is named by its lease.
- *The vault's capacity* of twelve and the re-encryption of an entry that was
  read with an old key.
- *Data without influence on control:* prices, elapsed cost, labels, events,
  timestamps, file names and hashes. A file that fails its hash is a failure.
- *Pause and resume of Pods*, which no caller uses.
- *The provider.* A Pod never restarts after it exited, and a terminated Pod stays
  terminated.

In `UploadTransfer`: one file; the checks on headers and sizes of a well-formed
client, which always pass; a hash is read at one instant; a purge of the job
during an upload.

In `WorkerGateway`: a job without inputs, whose verification awaits nothing; a
container that dies inside a purge; the staging folder of ComfyUI; ranged artifact
reads; and the watchdog, whose effect, that the Pod ends, is `PodExits` of
`WorkerLifecycle`.

In the studio's modules:

- *Files.* Hashing, probing and the media processing itself: a file is whole or
  it is not, and is usable or it is not. Of thumbnails and captions, what they
  are made of and when they are on record is modelled; the drawing, the wording and
  the times of the captions are not.
- *Text.* Prompt text and token counts; the parsing of a CSV cell; redaction and
  rotation of the log.
- *The idea library*, one insert per idea; *the timeline editor's arithmetic*; the
  voice and sound cards of Creator Mode; the one-time installation of local tools.
- *Keys.* Encryption and the rotation of its key. *Process ids* that the system
  gives to another program after a window was killed.
- *The window.* Presentation, and the polling of status. The writing and review
  rooms show records and make one call each.
- *The signed workflow pack*, whose verification is a pure function: whether a
  workflow is qualified is an input of `JobApproval`.

Five components are not modelled:

| Component | Why |
|---|---|
| production-readiness | a pure function from evidence files to locked or ready |
| writing providers | stateless HTTP clients; their outcomes are those of `CallProvider` and `ListModels` |
| local-media | compiles command lines and caption text; keeps no state |
| preload | forwards each call of a window to the main process |
| build and qualification scripts | one-shot tools run by a developer |

`PROJECT.json` says for each partly modelled component what is missing from it.
