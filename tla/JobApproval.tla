----------------------------- MODULE JobApproval -----------------------------
(***************************************************************************)
(* From an estimate to a paid job: the Generate room (renderer             *)
(* ProductionRooms.tsx), the estimate (production-orchestrator and         *)
(* workflow-registry), the job record and its cost approval                *)
(* (production-store), and the checks before a worker is rented            *)
(* (queueApprovedJob).  Prices, limits and time change meanwhile.          *)
(*                                                                         *)
(* An offer is a GPU in a price tier; a selection is what is ticked under  *)
(* "Approved source media".                                                *)
(***************************************************************************)
EXTENDS Naturals, FiniteSets

CONSTANTS Workflow, DefaultWorkflow, Offer, Selection,
          MemoryOf,        \* graphics memory of an offer
          NeedsMemory,     \* minimumVramGb of a workflow
          ExpectedMinutes, LongestMinutes,  \* of a workflow
          Fits,            \* the selections a workflow accepts
          PaidJob,
          Price,           \* hourly rates that occur, 0 when unavailable
          SavedLimits,     \* guardrails that may be saved
          MaxVisits,       \* how often the room is opened
          MaxEstimates, MaxClock, EstimateLife

ASSUME ApprovalAssumption ==
  /\ DefaultWorkflow \in Workflow /\ "none" \in Selection
  /\ Price \subseteq Nat
  /\ LongestMinutes \in [Workflow -> Nat]
  /\ \A w \in Workflow : ExpectedMinutes[w] <= LongestMinutes[w]
  /\ \A g \in SavedLimits : g.session \in Nat /\ g.minutes \in Nat \ {0}
  /\ MaxVisits \in Nat \ {0} /\ MaxEstimates \in Nat /\ MaxClock \in Nat /\ EstimateLife \in Nat \ {0}

VARIABLES price,      \* what the provider asks now
          catalogue,  \* the prices of the last saved cloud status
          limits,     \* the saved guardrails
          clock,
          visit,      \* how often the Generate room was opened
          desk,       \* the Generate room as it is mounted now
          call,       \* per visit the call it waits for, with what its closure holds
          paidJobs,   \* production_jobs
          estimates   \* how many estimates were made

approvalVars == <<price, catalogue, limits, clock, visit, desk, call, paidJobs, estimates>>

NoEstimate == [id |-> 0, workflow |-> DefaultWorkflow, rate |-> 0, minutes |-> 0, expected |-> 0, expires |-> 0]
NoPaidJob == [state |-> "none"]

Least(a, b) == IF a < b THEN a ELSE b
Maximum(e) == e.rate * e.minutes
Visit == 1..MaxVisits
Compatible(w) == {o \in Offer : MemoryOf[o] >= NeedsMemory[w]}
FirstOffers(w) == IF Compatible(w) = {} THEN {"none"} ELSE Compatible(w)

(* costTick: the estimate on screen when the cost box was ticked, 0 when   *)
(* it is not; startTick: the planned job of the start box.                 *)
OpenDesk(o) ==
  [workflow |-> DefaultWorkflow, offer |-> o, selection |-> "none", estimate |-> NoEstimate,
   costTick |-> 0, planned |-> "none", startTick |-> "none"]

NoCall == [step |-> "idle", workflow |-> DefaultWorkflow, offer |-> "none", selection |-> "none",
           estimate |-> NoEstimate, tick |-> 0, job |-> "none"]

ApprovalInit ==
  /\ price \in [Offer -> Price \ {0}] /\ catalogue = price
  /\ limits \in SavedLimits
  /\ clock = 0 /\ estimates = 0
  /\ \E o \in FirstOffers(DefaultWorkflow) : desk = OpenDesk(o)
  /\ visit = 1 /\ call = [v \in Visit |-> NoCall]
  /\ paidJobs = [j \in PaidJob |-> NoPaidJob]

Outside == <<price, catalogue, limits, clock, estimates>>
Idle == call[visit].step = "idle"

Calls(v, c) == call' = [call EXCEPT ![v] = c]
Answered(v) == Calls(v, NoCall)

(* What a call sets is shown while the room that made it is still open.    *)
Shows(v, d) == desk' = IF v = visit THEN d ELSE desk

-----------------------------------------------------------------------------
(* The room.  Only its buttons are disabled while a call is answered.      *)

SelectWorkflow(w) ==
  /\ \E o \in FirstOffers(w) : desk' = [OpenDesk(o) EXCEPT !.workflow = w]
  /\ UNCHANGED <<visit, call, paidJobs, Outside>>

ChooseOffer(o) ==
  /\ o \in Compatible(desk.workflow) /\ catalogue[o] # 0
  /\ desk' = [desk EXCEPT !.offer = o]
  /\ UNCHANGED <<visit, call, paidJobs, Outside>>

ChooseInputs(s) ==
  /\ desk' = [desk EXCEPT !.selection = s]
  /\ UNCHANGED <<visit, call, paidJobs, Outside>>

(* A new list of GPUs runs the room's effect again: the first workflow and *)
(* its first GPU are selected, and everything else stays.                  *)
LateCloudStatus ==
  /\ \E o \in FirstOffers(DefaultWorkflow) :
       desk' = [desk EXCEPT !.workflow = DefaultWorkflow, !.offer = o]
  /\ catalogue' = price
  /\ UNCHANGED <<price, limits, clock, estimates, visit, call, paidJobs>>

TickCost ==
  /\ desk.estimate.id # 0
  /\ desk' = [desk EXCEPT !.costTick = IF @ = 0 THEN desk.estimate.id ELSE 0]
  /\ UNCHANGED <<visit, call, paidJobs, Outside>>

TickStart ==
  /\ desk.planned # "none" /\ desk.estimate.id # 0
  /\ desk' = [desk EXCEPT !.startTick = IF @ = "none" THEN desk.planned ELSE "none"]
  /\ UNCHANGED <<visit, call, paidJobs, Outside>>

(* Another room and back.  The call in flight goes on without its room.    *)
ReopenDesk ==
  /\ visit < MaxVisits /\ visit' = visit + 1
  /\ \E o \in FirstOffers(DefaultWorkflow) : desk' = OpenDesk(o)
  /\ UNCHANGED <<call, paidJobs, Outside>>

(* estimateWork: the checks of the selection, then one call.               *)
AskEstimate ==
  /\ Idle
  /\ desk.offer # "none" /\ desk.selection \in Fits[desk.workflow]
  /\ Calls(visit, [NoCall EXCEPT !.step = "estimating", !.workflow = desk.workflow, !.offer = desk.offer])
  /\ UNCHANGED <<visit, desk, paidJobs, Outside>>

(* WorkflowRegistry.estimate                                               *)
EstimateOf(w, o) ==
  [id |-> estimates + 1, workflow |-> w, rate |-> catalogue[o],
   minutes |-> Least(LongestMinutes[w], limits.minutes),
   expected |-> catalogue[o] * ExpectedMinutes[w], expires |-> clock + EstimateLife]

(* Mutant: a new estimate leaves the cost box as it was, the tick counting *)
(* for whatever is on screen.                                              *)
AfterEstimateKept(e) == [desk EXCEPT !.estimate = e, !.planned = "none"]

AfterEstimate(e) == [desk EXCEPT !.estimate = e, !.planned = "none", !.costTick = 0]

EstimateArrives(v) ==
  /\ call[v].step = "estimating" /\ estimates < MaxEstimates
  /\ call[v].offer \in Compatible(call[v].workflow) /\ catalogue[call[v].offer] # 0
  /\ Shows(v, AfterEstimate(EstimateOf(call[v].workflow, call[v].offer)))
  /\ estimates' = estimates + 1
  /\ Answered(v)
  /\ UNCHANGED <<visit, paidJobs, price, catalogue, limits, clock>>

(* The estimate, the plan, the approval or the start is refused.           *)
CallRefused(v) ==
  /\ call[v].step # "idle"
  /\ Answered(v)
  /\ UNCHANGED <<visit, desk, paidJobs, Outside>>

-----------------------------------------------------------------------------
(* plan: a job is planned, then approved, for what the room shows now.     *)
PressPlan ==
  /\ Idle
  /\ desk.estimate.id # 0 /\ desk.costTick # 0
  /\ Calls(visit, [step |-> "planning", workflow |-> desk.workflow, offer |-> desk.offer, tick |-> desk.costTick,
                   selection |-> desk.selection, estimate |-> desk.estimate, job |-> "none"])
  /\ UNCHANGED <<visit, desk, paidJobs, Outside>>

(* assertEstimateCurrent                                                   *)
EstimateCurrent(e) == e.expires > clock /\ Maximum(e) >= e.expected

Identity(record) == [workflow |-> record.workflow, offer |-> record.offer,
                     selection |-> record.selection, estimate |-> record.estimate]
Planned == {j \in PaidJob : paidJobs[j] # NoPaidJob}

(* planJob, which answers the job there is when its identity is the same.  *)
PlanPaidJob(v, j) ==
  /\ call[v].step = "planning" /\ EstimateCurrent(call[v].estimate) /\ call[v].offer # "none"
  /\ IF \E k \in Planned : Identity(paidJobs[k]) = Identity(call[v])
     THEN j \in Planned /\ Identity(paidJobs[j]) = Identity(call[v]) /\ UNCHANGED paidJobs
     ELSE /\ j \notin Planned
          /\ paidJobs' = [paidJobs EXCEPT ![j] =
               [state |-> "estimated", workflow |-> call[v].workflow, offer |-> call[v].offer,
                selection |-> call[v].selection, estimate |-> call[v].estimate, approved |-> 0,
                tick |-> call[v].tick, rate |-> 0, minutes |-> 0, limit |-> 0]]
  /\ Calls(v, [call[v] EXCEPT !.step = "approving", !.job = j])
  /\ UNCHANGED <<visit, desk, Outside>>

(* approveJob                                                              *)
ApprovePaidJob(v) ==
  /\ call[v].step = "approving"
  /\ LET j == call[v].job
         e == paidJobs[j].estimate
     IN /\ paidJobs[j].state = "estimated"
        /\ EstimateCurrent(e) /\ e.id = call[v].estimate.id
        /\ Maximum(e) <= limits.session
        /\ paidJobs' = [paidJobs EXCEPT ![j].state = "approved", ![j].approved = Maximum(call[v].estimate)]
        /\ Shows(v, [desk EXCEPT !.planned = j])
  /\ Answered(v)
  /\ UNCHANGED <<visit, Outside>>

(* start, and the window's own question answered with yes.                 *)
PressStart ==
  /\ Idle
  /\ desk.planned # "none" /\ desk.estimate.id # 0 /\ desk.startTick # "none"
  /\ Calls(visit, [NoCall EXCEPT !.step = "starting", !.job = desk.planned, !.estimate = desk.estimate])
  /\ UNCHANGED <<visit, desk, paidJobs, Outside>>

PriceStillHolds(j) == price[paidJobs[j].offer] # 0 /\ price[paidJobs[j].offer] <= paidJobs[j].estimate.rate

(* queueApprovedJob up to assignWorker: a fresh cloud status, the price    *)
(* again, and the tighter of the two deadlines.                            *)
QueuePaidJob(v) ==
  /\ call[v].step = "starting"
  /\ LET j == call[v].job
     IN /\ paidJobs[j].state = "approved" /\ paidJobs[j].estimate.id = call[v].estimate.id
        /\ PriceStillHolds(j)
        /\ paidJobs' = [paidJobs EXCEPT ![j].state = "queued", ![j].rate = price[paidJobs[j].offer],
             ![j].minutes = Least(paidJobs[j].estimate.minutes, limits.minutes), ![j].limit = limits.session]
  /\ catalogue' = price
  /\ Answered(v)
  /\ UNCHANGED <<price, limits, clock, estimates, visit, desk>>

-----------------------------------------------------------------------------
(* Meanwhile.                                                              *)
PriceChanges(o, p) ==
  /\ price' = [price EXCEPT ![o] = p]
  /\ UNCHANGED <<catalogue, limits, clock, estimates, visit, desk, call, paidJobs>>

SaveLimits(g) ==
  /\ limits' = g
  /\ UNCHANGED <<price, catalogue, clock, estimates, visit, desk, call, paidJobs>>

TimePasses ==
  /\ clock < MaxClock
  /\ clock' = clock + 1
  /\ UNCHANGED <<price, catalogue, limits, estimates, visit, desk, call, paidJobs>>

ApprovalNext ==
  \/ \E w \in Workflow : SelectWorkflow(w)
  \/ \E o \in Offer : ChooseOffer(o)
  \/ \E s \in Selection : ChooseInputs(s)
  \/ LateCloudStatus \/ TickCost \/ TickStart \/ ReopenDesk
  \/ AskEstimate \/ PressPlan \/ PressStart
  \/ \E v \in Visit : EstimateArrives(v) \/ CallRefused(v) \/ ApprovePaidJob(v) \/ QueuePaidJob(v)
  \/ \E v \in Visit, j \in PaidJob : PlanPaidJob(v, j)
  \/ \E o \in Offer, p \in Price : PriceChanges(o, p)
  \/ \E g \in SavedLimits : SaveLimits(g)
  \/ TimePasses

ApprovalSpec == ApprovalInit /\ [][ApprovalNext]_approvalVars

-----------------------------------------------------------------------------
ApprovalTypeOK ==
  /\ price \in [Offer -> Price] /\ catalogue \in [Offer -> Price]
  /\ desk.workflow \in Workflow /\ desk.offer \in Offer \cup {"none"}
  /\ desk.planned \in Planned \cup {"none"}
  /\ visit \in Visit
  /\ \A v \in Visit : call[v].step \in {"idle", "estimating", "planning", "approving", "starting"}
  /\ \A j \in Planned : paidJobs[j].state \in {"estimated", "approved", "queued"}

(* A rented worker costs at most, until its deadline, what was approved,   *)
(* and what was approved is the maximum that was on screen when the box    *)
(* "I approve this exact maximum cost" was ticked -- whatever happened to  *)
(* prices, limits, the selection and the estimate in between.              *)
SpendIsApproved ==
  \A j \in Planned :
    /\ paidJobs[j].tick = paidJobs[j].estimate.id
    /\ paidJobs[j].state # "estimated" => paidJobs[j].approved = Maximum(paidJobs[j].estimate)
    /\ paidJobs[j].state = "queued" => paidJobs[j].rate * paidJobs[j].minutes <= paidJobs[j].approved

(* ARCHITECTURE.md:429, "Control asset unsupported or mismatched: block    *)
(* before estimate/authorization".                                         *)
ApprovedInputsFit ==
  \A j \in Planned : paidJobs[j].state # "estimated" => paidJobs[j].selection \in Fits[paidJobs[j].workflow]

(* A job that was approved can hold its workflow on the GPU it rents.      *)
ApprovedGpuFits ==
  \A j \in Planned : paidJobs[j].offer \in Compatible(paidJobs[j].workflow)

(* The estimate that is approved is one for the workflow that will run.    *)
EstimateIsOfItsWorkflow ==
  \A j \in Planned : paidJobs[j].estimate.workflow = paidJobs[j].workflow

(* What is started is within the session limit saved at that time.         *)
StartIsWithinLimit ==
  \A j \in Planned : paidJobs[j].state = "queued" => paidJobs[j].approved <= paidJobs[j].limit
=============================================================================
