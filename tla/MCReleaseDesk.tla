---------------------------- MODULE MCReleaseDesk ----------------------------
(***************************************************************************)
(* A small instance, for TLC, of what leads from a reviewed medium to paid *)
(* work and to a release.  A behaviour follows one part, chosen at first:  *)
(* planned jobs and their outputs through review, renders of a timeline    *)
(* that overlap, or a package of one master with its thumbnail and         *)
(* captions (the three share the ledger); the approval of one paid job;    *)
(* the inputs of one job up to its runner; or the evidence collected after *)
(* the release.                                                            *)
(***************************************************************************)
EXTENDS ReleaseDesk, ReleaseEvidence, JobApproval, WorkerInputs, TLC

CONSTANTS clip, take1, take2, master1, master2, thumb, subs, hero, world, p1, p2, p3, n1, n2,
          CanonIn    \* the parts in which canon is proposed

Labels == [p \in Proposal |-> IF p = p3 THEN world ELSE hero]
Roles == [a \in Asset |-> CASE a = clip -> "clip" [] a \in {take1, take2} -> "output"
                            [] a \in {master1, master2} -> "master" [] a = thumb -> "thumbnail"
                            [] a = subs -> "caption"]

(* Two workflows: "motion" needs the larger graphics card, up to twice the *)
(* minutes, and an approved frame.                                         *)
Memory  == [o \in Offer |-> IF o = "big" THEN 2 ELSE 1]
Needs   == [w \in Workflow |-> IF w = "motion" THEN 2 ELSE 1]
Minute  == [w \in Workflow |-> 1]
Minutes == [w \in Workflow |-> IF w = "motion" THEN 2 ELSE 1]
FitsDesk == [w \in Workflow |-> IF w = "motion" THEN {"frame"} ELSE Selection]
OneLimit == {[session |-> 2, minutes |-> 2]}

(* Four approved media, an image, a mask, a .webm video and an audio file, *)
(* recorded in an order or in the reverse, and the texts a workflow allows *)
Media == {"board", "mask", "take", "line"}
Types == [a \in Media |-> CASE a = "board" -> "image" [] a = "mask" -> "mask"
                            [] a = "take" -> "webm" [] OTHER -> "audio"]
ArrivalOrders == {<<"board", "mask", "take", "line">>, <<"line", "take", "mask", "board">>}
OwnLimits == [w \in InputWorkflow |-> IF w = "creative-qc" THEN 1 ELSE 2]

(* Reports: one video; a totals row, a blank line and two videos around    *)
(* the number of views that counts; the same video twice; and totals only. *)
Line(v, n, m) == [video |-> v, metrics |-> [views |-> n, more |-> m]]
FourReports ==
  {<<Line("v1", 100, TRUE)>>,
   <<Line("total", 500, TRUE), Line("blank", 0, FALSE), Line("v1", 99, TRUE), Line("v2", 100, FALSE)>>,
   <<Line("v1", 7, TRUE), Line("v1", 8, TRUE)>>, <<Line("total", 9, TRUE)>>}
TypedFigures == {[views |-> 99, more |-> TRUE]}

VARIABLE followed

studioVars == <<followed, ledgerVars, deskVars, evidenceVars, approvalVars, inputVars>>

StudioInit ==
  /\ followed \in {"jobs", "renders", "package", "approval", "inputs", "evidence"}
  /\ DeskInit /\ EvidenceInit /\ ApprovalInit /\ InputsInit
  /\ \A o \in Offer : price[o] = 1
  /\ shelf \in ArrivalOrders /\ (followed # "inputs" => shelf[1] = "board")

BesideDesk == UNCHANGED <<followed, evidenceVars, approvalVars, inputVars>>
InLedger == followed \in {"jobs", "renders", "package"} /\ UNCHANGED deskVars /\ BesideDesk
InJobs == followed = "jobs" /\ InLedger
InRelease == followed \in {"renders", "package"} /\ BesideDesk
InApproval == followed = "approval" /\ UNCHANGED <<followed, ledgerVars, deskVars, evidenceVars, inputVars>>
InInputs == followed = "inputs" /\ UNCHANGED <<followed, ledgerVars, deskVars, evidenceVars, approvalVars>>
InEvidence == followed = "evidence" /\ UNCHANGED <<followed, ledgerVars, deskVars, approvalVars, inputVars>>

(* A bound: in a later visit the room keeps the workflow it opens with.    *)
InFirstVisit == InApproval /\ visit = 1

(* The media and canon of a behaviour are those its side needs, and only   *)
(* renders of a timeline overlap.                                          *)
OnlyOne(a) == \A b \in Asset : RoleOf[b] = RoleOf[a] /\ media[b] # "none" => b = a
Proposed(p) == followed \in CanonIn /\ (p = p3 => followed = "jobs")
Concerned(a) == \/ a = clip
                \/ followed = "renders" /\ RoleOf[a] = "master"
                \/ followed = "package" /\ RoleOf[a] # "output" /\ OnlyOne(a)
MayRender == followed = "renders" \/ \A r \in Render : renders[r] = NoRender

(* The sets the guards admit, so that TLC does not try the others.         *)
ApprovedMedia == {a \in Asset : media[a] = "approved"}
RejectedTakes == {a \in Asset : media[a] = "rejected" /\ maker[a] # "none"}
NewOutputs == {a \in Asset : media[a] = "none" /\ RoleOf[a] = "output"}

StudioNext ==
  \/ \E p \in Proposal : InLedger /\ Proposed(p) /\ Promote(p)
  \/ \E a \in Asset : InLedger /\ Concerned(a) /\ ImportMedia(a)
  \/ \E a \in Asset, s \in SUBSET ApprovedMedia \ {{}} : InLedger /\ Concerned(a) /\ AssembleMedia(a, s)
  \/ \E a \in Asset, d \in Decision : InLedger /\ ReviewMedia(a, d)
  \/ \E j \in Job, i \in SUBSET ApprovedMedia, c \in SUBSET ActiveCanon, r \in SUBSET RejectedTakes :
       InJobs /\ Cardinality(r) < 2 /\ PlanJob(j, i, c, r)
  \/ \E j \in Job, a \in NewOutputs : InJobs /\ ReceiveOutput(j, a)
  \/ \E j \in Job : InJobs /\ AwaitReview(j)
  \/ \E t \in Timeline, clips \in SUBSET ApprovedMedia : InRelease /\ SaveDraft(t, clips)
  \/ \E t \in Timeline : InRelease /\ LockTimeline(t)
  \/ \E r \in Render, t \in Timeline : InRelease /\ MayRender /\ StartRender(r, t)
  \/ \E r \in Render, a \in Asset : InRelease /\ Concerned(a) /\ FinishRender(r, a)
  \/ \E r \in Render, a \in ApprovedMedia : InRelease /\ followed = "package" /\ MayRender /\ StartThumbnail(r, a)
  \/ \E r \in Render, a \in Asset : InRelease /\ FinishThumbnail(r, a)
  \/ \E t \in Timeline, a \in Asset : InRelease /\ ExportCaptions(t, a)
  \/ \E r \in Render : InRelease /\ LoseRender(r)
  \/ InRelease /\ SaveDetails
  \/ InRelease /\ Attest
  \/ \E k \in Package, t \in Timeline : InRelease /\ PackageRelease(k, t)
  \/ \E w \in Workflow : InFirstVisit /\ SelectWorkflow(w)
  \/ \E o \in Offer : InApproval /\ ChooseOffer(o)
  \/ \E s \in Selection : InFirstVisit /\ ChooseInputs(s)
  \/ InFirstVisit /\ LateCloudStatus
  \/ InApproval /\ TickCost
  \/ InApproval /\ TickStart
  \/ InApproval /\ ReopenDesk
  \/ InApproval /\ AskEstimate
  \/ \E v \in Visit : InApproval /\ EstimateArrives(v)
  \/ \E v \in Visit : InApproval /\ CallRefused(v)
  \/ InApproval /\ PressPlan
  \/ \E v \in Visit, j \in PaidJob : InApproval /\ PlanPaidJob(v, j)
  \/ \E v \in Visit : InApproval /\ ApprovePaidJob(v)
  \/ InApproval /\ PressStart
  \/ \E v \in Visit : InApproval /\ QueuePaidJob(v)
  \/ \E o \in Offer, p \in Price : InApproval /\ PriceChanges(o, p)
  \/ \E g \in SavedLimits : InApproval /\ SaveLimits(g)
  \/ InApproval /\ TimePasses
  \/ InInputs /\ \E m \in Manifest, samples \in Ticked(Medium) : BuildDataset(m, samples)
  \/ InInputs /\ \E m \in Manifest : ApproveDataset(m)
  \/ InInputs /\ \E w \in InputWorkflow, inputs \in Ticked(approved) : EstimateInputs(w, inputs)
  \/ InInputs /\ \E w \in InputWorkflow, inputs \in Ticked(approved), length \in TextLengths :
       PlanInputs(w, inputs, length)
  \/ InInputs /\ SubmitInputs
  \/ InInputs /\ \E readable \in BOOLEAN : RunInputs(readable)
  \/ \E file \in ReportFile : InEvidence /\ ChooseReport(file)
  \/ InEvidence /\ \E row \in ReportRows(form.report) : ApplyReportRow(row)
  \/ \E source \in Source : InEvidence /\ ChangeSource(source)
  \/ \E video \in Video, metrics \in TypedMetrics : InEvidence /\ TypeFigures(video, metrics)
  \/ InEvidence /\ ReopenEvidence
  \/ \E id \in SnapshotId, release \in Release \cup {"none"} : InEvidence /\ SaveSnapshot(id, release)
  \/ InEvidence /\ \E s \in Recorded : CiteSnapshot(s)
  \/ \E l \in LearningId : InEvidence /\ SaveLearning(l)
  \/ \E l \in LearningId, decision \in {"approved", "rejected"} : InEvidence /\ ReviewLearning(l, decision)

StudioSpec == StudioInit /\ [][StudioNext]_studioVars

(* Of takes and masters a behaviour only uses one kind, and of jobs,       *)
(* renders and snapshots one as well: they are exchanged together.         *)
Exchanged == (take1 :> take2) @@ (take2 :> take1) @@ (master1 :> master2) @@ (master2 :> master1)
Interchangeable == {Exchanged} \cup Permutations({p1, p2}) \cup Permutations({n1, n2})
=============================================================================
