---------------------------- MODULE WorkerReport ----------------------------
(***************************************************************************)
(* What a worker answers when it is asked about a job: the job is accepted *)
(* once, ends once, and keeps its ending until its owner, who has the      *)
(* outputs, has it purged.  WorkerGateway implements this specification    *)
(* for the workflows it runs itself, one submission at a time.             *)
(***************************************************************************)
VARIABLE report

Report == {"absent", "working", "succeeded", "failed", "cancelled"}

ReportInit == report = "absent"

Accept == report = "absent" /\ report' = "working"

End(ending) == report = "working" /\ report' = ending

Forget == report = "succeeded" /\ report' = "absent"

ReportNext == \/ Accept
              \/ \E ending \in {"succeeded", "failed", "cancelled"} : End(ending)
              \/ Forget

ReportSpec == ReportInit /\ [][ReportNext]_report
=============================================================================
