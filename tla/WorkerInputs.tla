----------------------------- MODULE WorkerInputs -----------------------------
(***************************************************************************)
(* What a rented worker is given to work on: the approved media selected   *)
(* in the Generate room and its checks (renderer ProductionRooms.tsx), the *)
(* adaptation dataset built from reviewed samples (production-store), the  *)
(* upload and submission (production-orchestrator), and the checks on the  *)
(* worker before anything runs (worker/gateway.mjs, python_runner.py).     *)
(*                                                                         *)
(* A medium stands for its file, its record and its SHA-256; the text of a *)
(* job for its length.  One job is followed.                               *)
(***************************************************************************)
EXTENDS Naturals, FiniteSets, Sequences, SequencesExt

CONSTANTS Medium,          \* approved media on record
          TypeOf,          \* of a medium; "webm" is a video whose suffix audio has too
          Manifest,        \* media that datasets may become
          MinSamples, MaxSamples,   \* of a dataset: 4 and 100
          MaxInputs,       \* inputs of a job (contract and gateway): 50
          MaxTicks,        \* media ticked at a time
          TextLengths,     \* lengths of direction that are typed
          MaxText,         \* longest text parameter of the contract: 4000
          TextLimit,       \* maximumLength of a workflow's own text
          EntryLength      \* what one medium adds to a listing of the inputs

ASSUME InputsAssumption ==
  /\ IsFiniteSet(Medium) /\ Medium \cap Manifest = {}
  /\ TypeOf \in [Medium -> {"image", "mask", "reference", "video", "webm", "audio"}]
  /\ MinSamples \in Nat \ {0} /\ MaxSamples \in Nat /\ MaxInputs \in Nat /\ MaxTicks \in Nat
  /\ TextLengths \subseteq Nat /\ MaxText \in Nat /\ EntryLength \in Nat

VARIABLES shelf,      \* media_assets in the order they were recorded
          approved,   \* those a person approved
          manifests,  \* the samples each dataset lists, in order
          estimated,  \* an estimate is on screen
          work,       \* the job
          received    \* the inputs of the job on the worker

inputVars == <<shelf, approved, manifests, estimated, work, received>>

InputWorkflow ==
  {"character-board", "targeted-edit", "controlled-board", "voice-design", "line-book", "image-to-video",
   "controlled-shot", "audio-driven", "lip-repair", "creative-qc", "foley", "adaptation"}

Type(a) == IF a \in Manifest THEN "manifest" ELSE TypeOf[a]
Image(a) == Type(a) \in {"image", "mask", "reference"}
Moving(a) == Type(a) \in {"video", "webm"}
Visual(a) == Image(a) \/ Moving(a)

NoWork == [state |-> "none"]

InputsInit ==
  /\ shelf \in SetToSeqs(Medium)
  /\ approved = Medium
  /\ manifests = << >>
  /\ estimated = FALSE /\ work = NoWork
  /\ received = <<>>

-----------------------------------------------------------------------------
(* The room: samples are the media ticked in the builder, in that order.   *)
(* Captions, rights and consent are filled in.                             *)
SamplesChosen(samples) ==
  /\ Len(samples) \in MinSamples..MaxSamples
  /\ \A a \in ToSet(samples) : Visual(a)

(* createAdaptationDataset: sample n gets inputOrder n + 1.                *)
BuildDataset(m, samples) ==
  /\ m \in Manifest \ ToSet(shelf)
  /\ SamplesChosen(samples) /\ ToSet(samples) \subseteq approved
  /\ manifests' = [d \in DOMAIN manifests \cup {m} |-> IF d = m THEN samples ELSE manifests[d]]
  /\ shelf' = Append(shelf, m)
  /\ UNCHANGED <<approved, estimated, work, received>>

ApproveDataset(m) ==
  /\ m \in DOMAIN manifests \ approved
  /\ approved' = approved \cup {m}
  /\ UNCHANGED <<shelf, manifests, estimated, work, received>>

-----------------------------------------------------------------------------
(* The Generate room.                                                      *)

(* The checks of estimateWork.                                             *)
RoomAccepts(w, inputs) ==
  CASE w = "line-book" -> Len(inputs) = 1 /\ Type(inputs[1]) = "audio"
    [] w = "targeted-edit" ->
         Len(inputs) = 2 /\ Image(inputs[1]) /\ Type(inputs[1]) # "mask" /\ Type(inputs[2]) = "mask"
    [] w = "image-to-video" -> Len(inputs) = 1 /\ Image(inputs[1])
    [] w = "audio-driven" -> Len(inputs) = 2 /\ Visual(inputs[1]) /\ Type(inputs[2]) = "audio"
    [] w = "lip-repair" -> Len(inputs) = 2 /\ Moving(inputs[1]) /\ Type(inputs[2]) = "audio"
    [] w = "controlled-board" -> Len(inputs) = 1 /\ Type(inputs[1]) \in {"mask", "reference"}
    [] w = "controlled-shot" -> Len(inputs) = 1 /\ Type(inputs[1]) = "reference"
    [] w = "adaptation" ->
         /\ Len(inputs) \in (MinSamples + 1)..(MaxSamples + 1)
         /\ Type(inputs[1]) = "manifest" /\ \A n \in 2..Len(inputs) : Visual(inputs[n])
    [] OTHER -> TRUE

(* workflowParameters lists direction and inputs for these.                *)
ListsInputs == {"controlled-board", "controlled-shot", "adaptation"}

(* Only the estimate looks at what is ticked.  (Selecting a workflow takes *)
(* an estimate off the screen; one that is still being answered arrives    *)
(* nevertheless, so that it may be one for another workflow: JobApproval.) *)
EstimateInputs(w, inputs) ==
  /\ work = NoWork
  /\ RoomAccepts(w, inputs)
  /\ estimated' = TRUE
  /\ UNCHANGED <<shelf, approved, manifests, work, received>>

(* plan and planJob: planned and approved for what is selected and ticked  *)
(* by now, in that order, within the limits of the contract.               *)
PlanInputs(w, inputs, length) ==
  /\ work = NoWork /\ estimated
  /\ Len(inputs) <= MaxInputs /\ length <= MaxText
  /\ w \in ListsInputs => length + EntryLength * Len(inputs) <= MaxText
  /\ ToSet(inputs) \subseteq approved
  /\ work' = [state |-> "approved", workflow |-> w, inputs |-> inputs, length |-> length]
  /\ UNCHANGED <<shelf, approved, manifests, estimated, received>>

-----------------------------------------------------------------------------
(* The worker.                                                             *)

(* reconcileJob uploads and submits the media of the workspace, newest     *)
(* first, that are inputs of the job.                                      *)
Upload == SelectSeq(Reverse(shelf), LAMBDA a : a \in ToSet(work.inputs))

(* validateParameters                                                      *)
ParametersFit ==
  /\ work.length <= TextLimit[work.workflow]
  /\ work.workflow \in ListsInputs => work.length + EntryLength * Len(work.inputs) <= MaxText

SubmitInputs ==
  /\ work.state = "approved"
  /\ IF Len(Upload) <= MaxInputs /\ ParametersFit
     THEN received' = Upload /\ work' = [work EXCEPT !.state = "submitted"]
     ELSE received' = <<>> /\ work' = [work EXCEPT !.state = "refused"]
  /\ UNCHANGED <<shelf, approved, manifests, estimated>>

(* Mutant: only the number of samples is compared.                         *)
DatasetMatchesByCount(inputs, declared) == Len(inputs) = Len(manifests[inputs[1]]) + 1

(* parse_adaptation_manifest and ltx_project_adaptation: every sample, at  *)
(* its inputOrder, is the file uploaded and the medium declared there.     *)
DatasetMatches(inputs, declared) ==
  /\ Len(inputs) = Len(manifests[inputs[1]]) + 1
  /\ Len(declared) = Len(inputs) /\ declared[1] = inputs[1]
  /\ \A n \in DOMAIN manifests[inputs[1]] :
       inputs[n + 1] = manifests[inputs[1]][n] /\ declared[n + 1] = manifests[inputs[1]][n]

(* The scripts of python_runner.py, each with its own checks.  They know a *)
(* file by its suffix.                                                     *)
VideoFile(a) == Moving(a)
AudioFile(a) == Type(a) \in {"audio", "webm"}

LineBook(inputs) == Len(inputs) = 1 /\ AudioFile(inputs[1])
TechnicalQc(inputs) == Len(inputs) = 1
Foley(inputs) == inputs = <<>>
LipRepair(inputs) == Len(inputs) = 2 /\ VideoFile(inputs[1]) /\ AudioFile(inputs[2])

Adaptation(inputs, declared) ==
  /\ Len(inputs) > MinSamples /\ Type(inputs[1]) = "manifest"
  /\ DatasetMatches(inputs, declared)

(* The slots $INPUT:0 and $INPUT:1 of a graph must exist.                  *)
GraphInputs(w, inputs) ==
  CASE w \in {"targeted-edit", "audio-driven"} -> Len(inputs) >= 2
    [] w \in {"image-to-video", "controlled-board", "controlled-shot"} -> Len(inputs) >= 1
    [] OTHER -> TRUE

RunnerAccepts(w, inputs, declared) ==
  CASE w = "line-book" -> LineBook(inputs)
    [] w = "creative-qc" -> TechnicalQc(inputs)
    [] w = "foley" -> Foley(inputs)
    [] w = "lip-repair" -> LipRepair(inputs)
    [] w = "adaptation" -> Adaptation(inputs, declared)
    [] OTHER -> GraphInputs(w, inputs)

(* These read the direction: lines of dialogue, a cue sheet.               *)
ReadsDirection == {"line-book", "foley"}

RunInputs(readable) ==
  /\ work.state = "submitted"
  /\ work' = [work EXCEPT !.state =
       IF /\ RunnerAccepts(work.workflow, received, work.inputs)
          /\ work.workflow \in ReadsDirection => readable
       THEN "ran" ELSE "refused"]
  /\ UNCHANGED <<shelf, approved, manifests, estimated, received>>

(* What is ticked: media without repetition, of which MaxTicks are tried.  *)
Ticked(media) == UNION {SetToSeqs(some) : some \in {s \in SUBSET media : Cardinality(s) <= MaxTicks}}

InputsNext ==
  \/ \E m \in Manifest, samples \in Ticked(Medium) : BuildDataset(m, samples)
  \/ \E m \in Manifest : ApproveDataset(m)
  \/ \E w \in InputWorkflow, inputs \in Ticked(approved) :
       \/ EstimateInputs(w, inputs)
       \/ \E length \in TextLengths : PlanInputs(w, inputs, length)
  \/ SubmitInputs \/ \E readable \in BOOLEAN : RunInputs(readable)

InputsSpec == InputsInit /\ [][InputsNext]_inputVars

-----------------------------------------------------------------------------
InputsTypeOK ==
  /\ shelf \in Seq(Medium \cup Manifest) /\ approved \subseteq ToSet(shelf)
  /\ DOMAIN manifests \subseteq ToSet(shelf) \cap Manifest
  /\ estimated \in BOOLEAN
  /\ work # NoWork => work.state \in {"approved", "submitted", "ran", "refused"}

Ran(w) == work # NoWork /\ work.state = "ran" /\ work.workflow = w

(* What an adaptation was trained on is the list a person reviewed: an     *)
(* approved manifest, each of its samples, approved and in its place, and  *)
(* nothing else, as it was ordered, whatever is ticked after the estimate  *)
(* and whatever is recorded meanwhile (ARCHITECTURE.md:299).               *)
RunsOnReviewed ==
  Ran("adaptation") =>
    LET samples == manifests[received[1]]
    IN /\ {received[1]} \cup ToSet(samples) \subseteq approved
       /\ Len(received) = Len(samples) + 1
       /\ \A n \in DOMAIN samples : received[n + 1] = samples[n]
       /\ \A n \in DOMAIN work.inputs : received[n] = work.inputs[n]

(* A voice is cloned from a recording: the room asks for an audio file.    *)
VoiceIsRecorded == Ran("line-book") => Type(received[1]) = "audio"

(* "Select exactly two approved images in this order: 1) the parent image, *)
(* 2) its white-on-black region mask" (ProductionRooms.tsx:2720): the      *)
(* worker has the inputs in the order they were selected and approved.     *)
InputsArriveInOrder ==
  work # NoWork /\ work.state \in {"submitted", "ran"} => received = work.inputs

(* A graph that takes a parent image and its mask gets them in these slots *)
EditKeepsItsParent == Ran("targeted-edit") => Type(received[2]) = "mask"

(* ARCHITECTURE.md:429: a selection that does not suit the workflow is     *)
(* refused before it is paid for, and not by the rented worker.            *)
RefusedBeforePaying == work # NoWork => work.state # "refused"

(* A dataset of the size the builder offers can be planned.                *)
DatasetCanTrain ==
  \A m \in DOMAIN manifests :
    /\ Len(manifests[m]) + 1 <= MaxInputs
    /\ \E length \in TextLengths : length + EntryLength * (Len(manifests[m]) + 1) <= MaxText
=============================================================================
