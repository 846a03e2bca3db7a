---------------------------- MODULE ReleaseEvidence ----------------------------
(***************************************************************************)
(* Performance evidence after a release: a YouTube Analytics CSV is parsed *)
(* (release-store/src/performance-report.ts), a row of it or figures typed *)
(* by hand become a snapshot, and snapshots support learnings that a human *)
(* decides on (release-store/src/index.ts, renderer                        *)
(* ReleasePlanningPanel.tsx, and their handlers in desktop main/index.ts). *)
(*                                                                         *)
(* A line of a report is blank, a total, not a video, or a video with its  *)
(* figures; figures are the views and whether another metric is there.     *)
(***************************************************************************)
EXTENDS Naturals, FiniteSets, Sequences

CONSTANTS ReportFile,     \* CSV files, each the sequence of lines below its header
          Video,          \* video identifiers
          TypedMetrics,   \* figures a user may type
          MaxReportRows,  \* MAX_REPORT_ROWS, 500
          EnoughViews,    \* 100
          SnapshotId, LearningId,
          Release         \* release packages on record

ASSUME EvidenceAssumption ==
  /\ MaxReportRows \in Nat /\ EnoughViews \in Nat
  /\ "none" \notin Release

VARIABLES form,       \* the evidence form of the mounted panel
          snapshots,  \* performance_snapshots, by identifier
          cited,      \* the snapshots ticked for the next learning
          learnings   \* release_learnings, by identifier

evidenceVars == <<form, snapshots, cited, learnings>>

NoMetrics == [views |-> 0, more |-> FALSE]
NoReport == <<>>
Source == {"official-report", "manual-official", "rehearsal"}

(* parseCsv drops the blank lines; row numbers count what is left, from 2. *)
FilledLines(file) == SelectSeq(file, LAMBDA line : line.video # "blank")
ReportRows(file) ==
  LET lines == FilledLines(file)
  IN {[number |-> n + 1, video |-> lines[n].video, metrics |-> lines[n].metrics] :
        n \in {k \in DOMAIN lines : lines[k].video # "total"}}

(* parseYouTubePerformanceReport: one line that is not a video, or a video *)
(* twice, refuses the whole report.                                        *)
ReportIsReadable(file) ==
  LET rows == ReportRows(file)
  IN /\ Len(FilledLines(file)) <= MaxReportRows
     /\ rows # {}
     /\ \A row \in rows : row.video \in Video
     /\ \A a, b \in rows : a.video = b.video => a = b

(* report, row: the checked preview and the row number taken from it, 0    *)
(* when none is; edited: a figure was changed by hand since.               *)
EmptyForm == [report |-> NoReport, row |-> 0, source |-> "manual-official", video |-> "none",
              metrics |-> NoMetrics, edited |-> TRUE]

Unused == [status |-> "none", snapshots |-> {}]

EvidenceInit ==
  /\ form = EmptyForm
  /\ snapshots = << >>
  /\ cited = {}
  /\ learnings = [l \in LearningId |-> Unused]

Recorded == DOMAIN snapshots
FromRow(file, row) ==
  [report |-> file, row |-> row.number, source |-> "official-report", video |-> row.video,
   metrics |-> row.metrics, edited |-> FALSE]

-----------------------------------------------------------------------------
(* The form.                                                               *)

(* Mutant: the row chosen from the earlier report stays chosen.            *)
ChooseKeepingRow(file) ==
  /\ ReportIsReadable(file)
  /\ form' = IF Cardinality(ReportRows(file)) = 1
             THEN FromRow(file, CHOOSE row \in ReportRows(file) : TRUE)
             ELSE [form EXCEPT !.report = file]
  /\ UNCHANGED <<snapshots, cited, learnings>>

(* choosePerformanceReport: the only row of a report is applied at once.   *)
ChooseReport(file) ==
  /\ ReportIsReadable(file)
  /\ form' = IF Cardinality(ReportRows(file)) = 1
             THEN FromRow(file, CHOOSE row \in ReportRows(file) : TRUE)
             ELSE [form EXCEPT !.report = file, !.row = 0]
  /\ UNCHANGED <<snapshots, cited, learnings>>

(* applyReportRow                                                          *)
ApplyReportRow(row) ==
  /\ row \in ReportRows(form.report)
  /\ form' = FromRow(form.report, row)
  /\ UNCHANGED <<snapshots, cited, learnings>>

ChangeSource(source) ==
  /\ source = "official-report" => form.report # NoReport
  /\ form' = [form EXCEPT !.source = source, !.row = IF source = "official-report" THEN @ ELSE 0]
  /\ UNCHANGED <<snapshots, cited, learnings>>

TypeFigures(video, metrics) ==
  /\ form' = [form EXCEPT !.video = video, !.metrics = metrics, !.edited = TRUE]
  /\ UNCHANGED <<snapshots, cited, learnings>>

(* Leaving the room and returning to it.                                   *)
ReopenEvidence ==
  /\ form' = EmptyForm /\ cited' = {}
  /\ UNCHANGED <<snapshots, learnings>>

-----------------------------------------------------------------------------
(* The store.                                                              *)

BaselineEligible(source, metrics) ==
  source # "rehearsal" /\ metrics.views >= EnoughViews /\ metrics.more

(* savePerformanceSnapshot, for the panel's checks and the store's.        *)
SaveSnapshot(id, release) ==
  /\ id \notin Recorded
  /\ form.video \in Video
  /\ form.source = "official-report" => form.row # 0
  /\ release \in Release \cup {"none"}
  /\ LET official == form.source = "official-report"
     IN snapshots' = [s \in Recorded \cup {id} |->
          IF s # id THEN snapshots[s]
          ELSE [source |-> form.source, video |-> form.video, metrics |-> form.metrics,
                report |-> IF official THEN form.report ELSE NoReport,
                row |-> IF official THEN form.row ELSE 0,
                release |-> release, edited |-> form.edited,
                eligible |-> BaselineEligible(form.source, form.metrics)]]
  /\ UNCHANGED <<form, cited, learnings>>

CiteSnapshot(s) ==
  /\ s \in Recorded
  /\ cited' = IF s \in cited THEN cited \ {s} ELSE cited \cup {s}
  /\ UNCHANGED <<form, snapshots, learnings>>

(* Mutant: one eligible snapshot carries the others.                       *)
SaveMixedLearning(l) ==
  /\ learnings[l] = Unused
  /\ \E s \in cited : snapshots[s].eligible
  /\ learnings' = [learnings EXCEPT ![l] = [status |-> "proposed", snapshots |-> cited]]
  /\ UNCHANGED <<form, snapshots, cited>>

SaveLearning(l) ==
  /\ learnings[l] = Unused
  /\ cited # {} /\ cited \subseteq Recorded
  /\ \A s \in cited : snapshots[s].eligible
  /\ learnings' = [learnings EXCEPT ![l] = [status |-> "proposed", snapshots |-> cited]]
  /\ UNCHANGED <<form, snapshots, cited>>

ReviewLearning(l, decision) ==
  /\ learnings[l].status = "proposed"
  /\ learnings' = [learnings EXCEPT ![l].status = decision]
  /\ UNCHANGED <<form, snapshots, cited>>

EvidenceNext ==
  \/ \E file \in ReportFile : ChooseReport(file)
  \/ \E row \in ReportRows(form.report) : ApplyReportRow(row)
  \/ \E source \in Source : ChangeSource(source)
  \/ \E video \in Video, metrics \in TypedMetrics : TypeFigures(video, metrics)
  \/ ReopenEvidence
  \/ \E id \in SnapshotId, release \in Release \cup {"none"} : SaveSnapshot(id, release)
  \/ \E s \in Recorded : CiteSnapshot(s)
  \/ \E l \in LearningId : SaveLearning(l)
  \/ \E l \in LearningId, decision \in {"approved", "rejected"} : ReviewLearning(l, decision)

EvidenceSpec == EvidenceInit /\ [][EvidenceNext]_evidenceVars

-----------------------------------------------------------------------------
EvidenceTypeOK ==
  /\ form.source \in Source /\ form.edited \in BOOLEAN
  /\ form.report \in ReportFile \cup {NoReport}
  /\ Recorded \subseteq SnapshotId /\ cited \subseteq SnapshotId
  /\ \A l \in LearningId : learnings[l].status \in {"none", "proposed", "approved", "rejected"}

(* A snapshot that cites a row of a report, and whose figures nobody has   *)
(* changed, has the video and the figures of that row of that report       *)
(* (PRODUCTION_IMPLEMENTATION.md:172), however reports, rows, sources and  *)
(* typed figures followed each other in the form.                          *)
ReportIsCited ==
  \A s \in Recorded :
    snapshots[s].source = "official-report" =>
      \E row \in ReportRows(snapshots[s].report) :
        /\ row.number = snapshots[s].row
        /\ ~ snapshots[s].edited => /\ row.video = snapshots[s].video
                                    /\ row.metrics = snapshots[s].metrics

(* A learning rests on snapshots on record that are not rehearsals, not a  *)
(* low sample and not views alone (DOMAIN_MODEL.md:268), all of them.      *)
LearningsAreGrounded ==
  \A l \in LearningId : \A s \in learnings[l].snapshots :
    /\ s \in Recorded
    /\ snapshots[s].source # "rehearsal"
    /\ snapshots[s].metrics.views >= EnoughViews /\ snapshots[s].metrics.more
=============================================================================
