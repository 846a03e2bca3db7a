------------------------ MODULE ReleaseEvidence_proofs ------------------------
(***************************************************************************)
(* Theorems about ReleaseEvidence, for any report files, of any length and *)
(* content, and any number of snapshots and learnings: what a snapshot     *)
(* cites is in the report it cites, and a learning rests on snapshots that *)
(* may carry it.                                                           *)
(***************************************************************************)
EXTENDS ReleaseEvidence, TLAPS

EvidenceShape ==
  /\ form = [report |-> form.report, row |-> form.row, source |-> form.source, video |-> form.video,
             metrics |-> form.metrics, edited |-> form.edited]
  /\ learnings \in [LearningId -> [status : {"none", "proposed", "approved", "rejected"},
                                   snapshots : SUBSET SnapshotId]]

(* The row the form cites is a row of the report the form shows, and its   *)
(* figures are that row's until somebody types over them.                  *)
FormIsCited ==
  form.row # 0 => \E row \in ReportRows(form.report) :
                    /\ row.number = form.row
                    /\ ~ form.edited => row.video = form.video /\ row.metrics = form.metrics

(* What carries a learning was recorded, and was judged once.              *)
EligibleIsGrounded ==
  \A s \in Recorded : snapshots[s].eligible =>
    /\ snapshots[s].source # "rehearsal"
    /\ snapshots[s].metrics.views >= EnoughViews /\ snapshots[s].metrics.more

LearningsAreEligible ==
  /\ cited \subseteq Recorded
  /\ \A l \in LearningId : \A s \in learnings[l].snapshots : s \in Recorded /\ snapshots[s].eligible

EvidenceInv ==
  EvidenceTypeOK /\ EvidenceShape /\ FormIsCited /\ ReportIsCited /\ EligibleIsGrounded /\ LearningsAreEligible

LEMMA EmptyFormFacts ==
  /\ EmptyForm.row = 0 /\ EmptyForm.source \in Source /\ EmptyForm.edited \in BOOLEAN
  /\ EmptyForm.report = NoReport
  /\ EmptyForm = [report |-> EmptyForm.report, row |-> EmptyForm.row, source |-> EmptyForm.source,
                  video |-> EmptyForm.video, metrics |-> EmptyForm.metrics, edited |-> EmptyForm.edited]
BY DEF EmptyForm, Source

(* The form after a row was applied.                                       *)
LEMMA FromRowFacts ==
  ASSUME NEW file, NEW row
  PROVE  /\ FromRow(file, row).report = file /\ FromRow(file, row).row = row.number
         /\ FromRow(file, row).source = "official-report"
         /\ FromRow(file, row).video = row.video /\ FromRow(file, row).metrics = row.metrics
         /\ ~ FromRow(file, row).edited /\ FromRow(file, row).edited \in BOOLEAN
         /\ FromRow(file, row) =
              [report |-> file, row |-> row.number, source |-> "official-report", video |-> row.video,
               metrics |-> row.metrics, edited |-> FALSE]
BY DEF FromRow

LEMMA EvidenceInitially == EvidenceInit => EvidenceInv
<1> SUFFICES ASSUME EvidenceInit PROVE EvidenceInv
  OBVIOUS
<1>1. Recorded = {}
  BY DEF EvidenceInit, Recorded
<1>2. EvidenceTypeOK
  BY <1>1, EmptyFormFacts DEF EvidenceInit, EvidenceTypeOK, Unused
<1>3. EvidenceShape
  BY EmptyFormFacts DEF EvidenceInit, EvidenceShape, Unused
<1>4. FormIsCited
  BY EmptyFormFacts DEF EvidenceInit, FormIsCited
<1>5. ReportIsCited /\ EligibleIsGrounded /\ LearningsAreEligible
  BY <1>1 DEF EvidenceInit, ReportIsCited, EligibleIsGrounded, LearningsAreEligible, Unused
<1>6. QED
  BY <1>2, <1>3, <1>4, <1>5 DEF EvidenceInv

(* A step of the form leaves the store alone.                              *)
LEMMA FormStepKeeps ==
  ASSUME EvidenceInv, UNCHANGED <<snapshots, learnings>>, cited' \in {cited, {}},
         form'.source \in Source, form'.edited \in BOOLEAN, form'.report \in ReportFile \cup {NoReport},
         form' = [report |-> form'.report, row |-> form'.row, source |-> form'.source, video |-> form'.video,
                  metrics |-> form'.metrics, edited |-> form'.edited],
         FormIsCited'
  PROVE  EvidenceInv'
<1>1. EvidenceTypeOK' /\ EvidenceShape'
  BY DEF EvidenceInv, EvidenceTypeOK, EvidenceShape, Recorded
<1>2. ReportIsCited' /\ EligibleIsGrounded' /\ LearningsAreEligible'
  BY DEF EvidenceInv, ReportIsCited, EligibleIsGrounded, LearningsAreEligible, Recorded
<1>3. QED
  BY <1>1, <1>2 DEF EvidenceInv

LEMMA ChooseKeeps ==
  ASSUME EvidenceInv, NEW file \in ReportFile, ChooseReport(file)
  PROVE  EvidenceInv'
<1>1. CASE Cardinality(ReportRows(file)) = 1
  <2> DEFINE row == CHOOSE row \in ReportRows(file) : TRUE
  <2>1. row \in ReportRows(file)
    BY DEF ChooseReport, ReportIsReadable
  <2>2. form' = FromRow(file, row)
    BY <1>1 DEF ChooseReport
  <2> HIDE DEF row
  <2>3. FormIsCited'
    BY <2>1, <2>2, FromRowFacts DEF FormIsCited
  <2>4. /\ form'.report = file /\ form'.source \in Source /\ form'.edited \in BOOLEAN
        /\ form' = [report |-> form'.report, row |-> form'.row, source |-> form'.source, video |-> form'.video,
                    metrics |-> form'.metrics, edited |-> form'.edited]
    BY <2>2, FromRowFacts DEF Source
  <2>5. UNCHANGED <<snapshots, cited, learnings>>
    BY DEF ChooseReport
  <2>6. QED
    BY <2>3, <2>4, <2>5, FormStepKeeps
<1>2. CASE Cardinality(ReportRows(file)) # 1
  <2>1. form' = [form EXCEPT !.report = file, !.row = 0]
    BY <1>2 DEF ChooseReport
  <2>2. /\ form'.row = 0 /\ form'.source = form.source /\ form'.edited = form.edited /\ form'.report = file
        /\ form' = [report |-> form'.report, row |-> form'.row, source |-> form'.source, video |-> form'.video,
                    metrics |-> form'.metrics, edited |-> form'.edited]
    BY <2>1 DEF EvidenceInv, EvidenceShape
  <2>3. FormIsCited'
    BY <2>2 DEF FormIsCited
  <2>4. QED
    BY <2>2, <2>3, FormStepKeeps DEF ChooseReport, EvidenceInv, EvidenceTypeOK
<1>3. QED
  BY <1>1, <1>2

LEMMA ApplyKeeps ==
  ASSUME EvidenceInv, NEW row \in ReportRows(form.report), ApplyReportRow(row)
  PROVE  EvidenceInv'
<1>1. form' = FromRow(form.report, row) /\ form.report \in ReportFile \cup {NoReport}
  BY DEF ApplyReportRow, EvidenceInv, EvidenceTypeOK
<1>2. FormIsCited'
  BY <1>1, FromRowFacts DEF FormIsCited
<1>3. QED
  BY <1>1, <1>2, FromRowFacts, FormStepKeeps DEF ApplyReportRow, Source

LEMMA EditKeeps ==
  ASSUME EvidenceInv,
         \/ \E source \in Source : ChangeSource(source)
         \/ \E video \in Video, metrics \in TypedMetrics : TypeFigures(video, metrics)
         \/ ReopenEvidence
  PROVE  EvidenceInv'
<1> form = [report |-> form.report, row |-> form.row, source |-> form.source, video |-> form.video,
            metrics |-> form.metrics, edited |-> form.edited]
  BY DEF EvidenceInv, EvidenceShape
<1> form.source \in Source /\ form.edited \in BOOLEAN /\ form.report \in ReportFile \cup {NoReport}
  BY DEF EvidenceInv, EvidenceTypeOK
<1>1. CASE \E source \in Source : ChangeSource(source)
  <2>1. PICK source \in Source : ChangeSource(source)
    BY <1>1
  <2>2. /\ form'.row \in {form.row, 0} /\ form'.source = source /\ form'.edited = form.edited
        /\ form'.report = form.report /\ form'.video = form.video /\ form'.metrics = form.metrics
        /\ form' = [report |-> form'.report, row |-> form'.row, source |-> form'.source, video |-> form'.video,
                    metrics |-> form'.metrics, edited |-> form'.edited]
    BY <2>1 DEF ChangeSource
  <2>3. FormIsCited'
    BY <2>2 DEF EvidenceInv, FormIsCited
  <2>4. QED
    BY <2>1, <2>2, <2>3, FormStepKeeps DEF ChangeSource
<1>2. CASE \E video \in Video, metrics \in TypedMetrics : TypeFigures(video, metrics)
  <2>1. PICK video \in Video, metrics \in TypedMetrics : TypeFigures(video, metrics)
    BY <1>2
  <2>2. /\ form'.row = form.row /\ form'.source = form.source /\ form'.edited = TRUE
        /\ form'.report = form.report
        /\ form' = [report |-> form'.report, row |-> form'.row, source |-> form'.source, video |-> form'.video,
                    metrics |-> form'.metrics, edited |-> form'.edited]
    BY <2>1 DEF TypeFigures
  <2>3. FormIsCited'
    BY <2>2 DEF EvidenceInv, FormIsCited
  <2>4. QED
    BY <2>1, <2>2, <2>3, FormStepKeeps DEF TypeFigures
<1>3. CASE ReopenEvidence
  <2>1. FormIsCited'
    BY <1>3, EmptyFormFacts DEF ReopenEvidence, FormIsCited
  <2>2. QED
    BY <1>3, <2>1, EmptyFormFacts, FormStepKeeps DEF ReopenEvidence
<1>4. QED
  BY <1>1, <1>2, <1>3

(* The new snapshot takes its citation from the form; the others stay.     *)
LEMMA SaveSnapshotKeeps ==
  ASSUME EvidenceInv, NEW id \in SnapshotId, NEW release \in Release \cup {"none"}, SaveSnapshot(id, release)
  PROVE  EvidenceInv'
<1> DEFINE new == [source |-> form.source, video |-> form.video, metrics |-> form.metrics,
                   report |-> IF form.source = "official-report" THEN form.report ELSE NoReport,
                   row |-> IF form.source = "official-report" THEN form.row ELSE 0,
                   release |-> release, edited |-> form.edited,
                   eligible |-> BaselineEligible(form.source, form.metrics)]
<1>1. snapshots' = [s \in Recorded \cup {id} |-> IF s # id THEN snapshots[s] ELSE new]
  BY DEF SaveSnapshot
<1>2. Recorded' = Recorded \cup {id}
  BY <1>1 DEF Recorded
<1>3. snapshots'[id] = new /\ \A s \in Recorded : snapshots'[s] = snapshots[s]
  BY <1>1 DEF SaveSnapshot
<1>4. EvidenceTypeOK' /\ EvidenceShape'
  BY <1>2 DEF SaveSnapshot, EvidenceInv, EvidenceTypeOK, EvidenceShape
<1>5. FormIsCited'
  BY DEF SaveSnapshot, EvidenceInv, FormIsCited
<1>6. /\ new.source = form.source /\ new.video = form.video /\ new.metrics = form.metrics
      /\ new.edited = form.edited /\ new.eligible = BaselineEligible(form.source, form.metrics)
      /\ form.source = "official-report" => new.report = form.report /\ new.row = form.row
  OBVIOUS
<1> HIDE DEF new
<1>7. ReportIsCited'
  <2> SUFFICES ASSUME NEW s \in Recorded', snapshots'[s].source = "official-report"
               PROVE  \E row \in ReportRows(snapshots'[s].report) :
                        /\ row.number = snapshots'[s].row
                        /\ ~ snapshots'[s].edited => /\ row.video = snapshots'[s].video
                                                     /\ row.metrics = snapshots'[s].metrics
    BY DEF ReportIsCited
  <2>1. CASE s = id
    <3>1. form.source = "official-report" /\ form.row # 0
      BY <2>1, <1>3, <1>6 DEF SaveSnapshot
    <3>2. QED
      BY <2>1, <3>1, <1>3, <1>6 DEF EvidenceInv, FormIsCited
  <2>2. CASE s # id
    BY <2>2, <1>2, <1>3 DEF EvidenceInv, ReportIsCited
  <2>3. QED
    BY <2>1, <2>2
<1>8. EligibleIsGrounded'
  BY <1>2, <1>3, <1>6 DEF EvidenceInv, EligibleIsGrounded, BaselineEligible
<1>9. LearningsAreEligible'
  BY <1>2, <1>3 DEF SaveSnapshot, EvidenceInv, LearningsAreEligible
<1>10. QED
  BY <1>4, <1>5, <1>7, <1>8, <1>9 DEF EvidenceInv

(* Ticking a snapshot, and what the learnings do.                          *)
LEMMA LearningKeeps ==
  ASSUME EvidenceInv,
         \/ \E s \in Recorded : CiteSnapshot(s)
         \/ \E l \in LearningId : SaveLearning(l)
         \/ \E l \in LearningId, decision \in {"approved", "rejected"} : ReviewLearning(l, decision)
  PROVE  EvidenceInv'
<1>1. UNCHANGED <<form, snapshots>>
  BY DEF CiteSnapshot, SaveLearning, ReviewLearning
<1>2. FormIsCited' /\ ReportIsCited' /\ EligibleIsGrounded' /\ Recorded' = Recorded
  BY <1>1 DEF EvidenceInv, FormIsCited, ReportIsCited, EligibleIsGrounded, Recorded
<1>3. /\ cited' \subseteq Recorded
      /\ learnings' \in [LearningId -> [status : {"none", "proposed", "approved", "rejected"},
                                        snapshots : SUBSET SnapshotId]]
      /\ \A l \in LearningId : \A s \in learnings'[l].snapshots : s \in Recorded /\ snapshots[s].eligible
  <2>1. CASE \E s \in Recorded : CiteSnapshot(s)
    BY <2>1 DEF CiteSnapshot, EvidenceInv, EvidenceShape, LearningsAreEligible
  <2>2. CASE \E l \in LearningId : SaveLearning(l)
    <3>1. PICK l \in LearningId : SaveLearning(l)
      BY <2>2
    <3>2. cited \subseteq SnapshotId
      BY DEF EvidenceInv, EvidenceTypeOK
    <3>3. [status |-> "proposed", snapshots |-> cited] \in
            [status : {"none", "proposed", "approved", "rejected"}, snapshots : SUBSET SnapshotId]
      BY <3>2
    <3>4. QED
      BY <3>1, <3>3 DEF SaveLearning, EvidenceInv, EvidenceShape, LearningsAreEligible
  <2>3. CASE \E l \in LearningId, decision \in {"approved", "rejected"} : ReviewLearning(l, decision)
    <3>1. PICK l \in LearningId, decision \in {"approved", "rejected"} : ReviewLearning(l, decision)
      BY <2>3
    <3>2. QED
      BY <3>1 DEF ReviewLearning, EvidenceInv, EvidenceShape, LearningsAreEligible
  <2>4. QED
    BY <2>1, <2>2, <2>3
<1>4. EvidenceTypeOK' /\ EvidenceShape'
  BY <1>1, <1>2, <1>3 DEF EvidenceInv, EvidenceTypeOK, EvidenceShape
<1>5. LearningsAreEligible'
  BY <1>1, <1>2, <1>3 DEF LearningsAreEligible
<1>6. QED
  BY <1>2, <1>4, <1>5 DEF EvidenceInv

(* The invariant of the evidence holds in every reachable state.           *)
THEOREM EvidenceInvariance == EvidenceSpec => []EvidenceInv
<1>1. ASSUME EvidenceInv, [EvidenceNext]_evidenceVars PROVE EvidenceInv'
  <2>1. CASE UNCHANGED evidenceVars
    BY <1>1, <2>1 DEF evidenceVars, EvidenceInv, EvidenceTypeOK, EvidenceShape, FormIsCited, ReportIsCited,
       EligibleIsGrounded, LearningsAreEligible, Recorded
  <2>2. CASE EvidenceNext
    BY <1>1, <2>2, ChooseKeeps, ApplyKeeps, EditKeeps, SaveSnapshotKeeps, LearningKeeps DEF EvidenceNext
  <2>3. QED
    BY <1>1, <2>1, <2>2
<1>2. QED
  BY <1>1, EvidenceInitially, PTL DEF EvidenceSpec

(* A snapshot from a report cites a row that is in that report and, unless *)
(* somebody typed over them, has that row's video and figures.             *)
THEOREM ReportsAreCited == EvidenceSpec => []ReportIsCited
<1>1. EvidenceInv => ReportIsCited
  BY DEF EvidenceInv
<1>2. QED
  BY <1>1, EvidenceInvariance, PTL

(* A learning rests on recorded snapshots that are not rehearsals and have *)
(* enough views and another metric, all of them.                           *)
THEOREM LearningsStayGrounded == EvidenceSpec => []LearningsAreGrounded
<1>1. EvidenceInv => LearningsAreGrounded
  BY DEF EvidenceInv, LearningsAreEligible, EligibleIsGrounded, LearningsAreGrounded
<1>2. QED
  BY <1>1, EvidenceInvariance, PTL
=============================================================================
