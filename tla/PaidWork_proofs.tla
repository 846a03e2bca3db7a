-------------------- MODULE PaidWork_proofs --------------------
(***************************************************************************)
(* Theorems about what a person approves before a worker is rented, and    *)
(* what then runs there, for any prices, limits, workflows, offers, media  *)
(* and number of jobs and estimates.  JobApproval: a rented worker never   *)
(* costs more, until its deadline, than what was approved, and that is the *)
(* maximum of the estimate that was on screen when the cost box was        *)
(* ticked.  WorkerInputs: an adaptation trains on the reviewed list.       *)
(***************************************************************************)
EXTENDS JobApproval, WorkerInputs, FiniteSetTheorems, TLAPS

-----------------------------------------------------------------------------
(* JobApproval.  Nothing costs more than was approved.                     *)

Priced(e) == e.rate \in Nat /\ e.minutes \in Nat

(* What the outside world may be.                                          *)
OutsideIsSound ==
  /\ price \in [Offer -> Nat] /\ catalogue \in [Offer -> Nat]
  /\ limits \in SavedLimits /\ visit \in Visit

(* A tick in the cost box is for the estimate on screen.                   *)
DeskIsSound ==
  /\ desk = [workflow |-> desk.workflow, offer |-> desk.offer, selection |-> desk.selection,
             estimate |-> desk.estimate, costTick |-> desk.costTick, planned |-> desk.planned,
             startTick |-> desk.startTick]
  /\ desk.workflow \in Workflow /\ desk.offer \in Offer \cup {"none"}
  /\ Priced(desk.estimate)
  /\ desk.costTick # 0 => desk.costTick = desk.estimate.id
  /\ desk.planned \in PaidJob \cup {"none"}

(* A call carries the tick and the estimate of one moment, and the job it  *)
(* approves is one for that estimate.                                      *)
CallIsSound(c) ==
  /\ c = [step |-> c.step, workflow |-> c.workflow, offer |-> c.offer, selection |-> c.selection,
          estimate |-> c.estimate, tick |-> c.tick, job |-> c.job]
  /\ c.step \in {"idle", "estimating", "planning", "approving", "starting"}
  /\ c.workflow \in Workflow /\ c.offer \in Offer \cup {"none"}
  /\ Priced(c.estimate)
  /\ c.step = "planning" => c.tick = c.estimate.id
  /\ c.step = "approving" => c.job \in Planned /\ paidJobs[c.job].estimate = c.estimate
  /\ c.step = "starting" => c.job \in PaidJob

CallsAreSound ==
  /\ call = [v \in Visit |-> call[v]]
  /\ \A v \in Visit : CallIsSound(call[v])

PaidJobIsSound(r) ==
  /\ DOMAIN r = {"state", "workflow", "offer", "selection", "estimate", "approved", "tick", "rate", "minutes",
                 "limit"}
  /\ r.state \in {"estimated", "approved", "queued"}
  /\ r.offer \in Offer /\ Priced(r.estimate)
  /\ r.tick = r.estimate.id
  /\ r.state # "estimated" => r.approved = Maximum(r.estimate)
  /\ r.state = "queued" => r.rate * r.minutes <= r.approved

JobsAreSound ==
  /\ paidJobs = [j \in PaidJob |-> paidJobs[j]]
  /\ \A j \in Planned : PaidJobIsSound(paidJobs[j])

ApprovalInv == OutsideIsSound /\ DeskIsSound /\ CallsAreSound /\ JobsAreSound

(* A price that did not rise, for a time that is not longer, costs no more. *)
LEMMA CostIsMonotonic ==
  ASSUME NEW a \in Nat, NEW b \in Nat, NEW c \in Nat, NEW d \in Nat, a <= c, b <= d
  PROVE  a * b <= c * d
<1>1. a * b <= c * b
  <2>1. PICK k \in Nat : c = a + k
    <3>1. c - a \in Nat /\ c = a + (c - a)
      OBVIOUS
    <3>2. QED
      BY <3>1
  <2>2. c * b = a * b + k * b /\ k * b \in Nat /\ a * b \in Nat
    BY <2>1
  <2>3. QED
    BY <2>2
<1>2. c * b <= c * d
  <2>1. PICK k \in Nat : d = b + k
    <3>1. d - b \in Nat /\ d = b + (d - b)
      OBVIOUS
    <3>2. QED
      BY <3>1
  <2>2. c * d = c * b + c * k /\ c * k \in Nat /\ c * b \in Nat
    BY <2>1
  <2>3. QED
    BY <2>2
<1>3. a * b \in Nat /\ c * b \in Nat /\ c * d \in Nat
  OBVIOUS
<1>4. QED
  BY <1>1, <1>2, <1>3

(* A record of a planned job is not the empty one.                         *)
LEMMA PlannedByState ==
  /\ \A r : PaidJobIsSound(r) => r # NoPaidJob
  /\ \A j \in PaidJob : paidJobs[j].state \in {"approved", "estimated"} => j \in Planned
BY DEF PaidJobIsSound, NoPaidJob, Planned

(* The desk as it is opened, with any workflow.                            *)
LEMMA OpenedDesk ==
  ASSUME NEW w \in Workflow, NEW o \in FirstOffers(w)
  PROVE  LET d == [OpenDesk(o) EXCEPT !.workflow = w]
         IN  /\ d = [workflow |-> w, offer |-> o, selection |-> "none", estimate |-> NoEstimate,
                     costTick |-> 0, planned |-> "none", startTick |-> "none"]
             /\ o \in Offer \cup {"none"}
BY DEF OpenDesk, FirstOffers, Compatible

LEMMA NothingYet ==
  /\ Priced(NoEstimate)
  /\ NoCall = [step |-> "idle", workflow |-> DefaultWorkflow, offer |-> "none", selection |-> "none",
               estimate |-> NoEstimate, tick |-> 0, job |-> "none"]
  /\ DefaultWorkflow \in Workflow
BY ApprovalAssumption DEF Priced, NoEstimate, NoCall

LEMMA NoCallIsSound == CallIsSound(NoCall)
BY NothingYet DEF CallIsSound

LEMMA ApprovalInitially == ApprovalInit => ApprovalInv
<1> SUFFICES ASSUME ApprovalInit PROVE ApprovalInv
  OBVIOUS
<1>1. OutsideIsSound
  <2>1. price \in [Offer -> Nat] /\ catalogue \in [Offer -> Nat] /\ limits \in SavedLimits
    BY ApprovalAssumption DEF ApprovalInit
  <2>2. visit \in Visit
    BY ApprovalAssumption DEF ApprovalInit, Visit
  <2>3. QED
    BY <2>1, <2>2 DEF OutsideIsSound
<1>2. DeskIsSound
  <2>1. PICK o \in FirstOffers(DefaultWorkflow) : desk = OpenDesk(o)
    BY DEF ApprovalInit
  <2>2. o \in Offer \cup {"none"}
    BY NothingYet, OpenedDesk
  <2>3. QED
    BY <2>1, <2>2, NothingYet DEF OpenDesk, DeskIsSound
<1>3. CallsAreSound
  BY NoCallIsSound DEF ApprovalInit, CallsAreSound
<1>4. JobsAreSound
  BY DEF ApprovalInit, JobsAreSound, Planned
<1>5. QED
  BY <1>1, <1>2, <1>3, <1>4 DEF ApprovalInv

(* The calls and the records are read from two variables only.             *)
LEMMA RecordsAlone ==
  /\ CallsAreSound /\ UNCHANGED <<call, paidJobs>> => CallsAreSound'
  /\ JobsAreSound /\ UNCHANGED paidJobs => JobsAreSound'
  /\ DeskIsSound /\ UNCHANGED desk => DeskIsSound'
  /\ OutsideIsSound /\ UNCHANGED <<visit, Outside>> => OutsideIsSound'
BY DEF CallsAreSound, CallIsSound, JobsAreSound, DeskIsSound, OutsideIsSound, Planned, Outside

(* A planned job keeps its estimate, for whichever room's call.            *)
RecordsStay == \A j \in Planned : j \in Planned' /\ paidJobs'[j].estimate = paidJobs[j].estimate

LEMMA SameRecordsStay ==
  ASSUME UNCHANGED paidJobs
  PROVE  RecordsStay
BY DEF RecordsStay, Planned

(* One visit's call moves on; the other visits' calls are as sound as      *)
(* before.                                                                 *)
LEMMA OneCallMoves ==
  ASSUME CallsAreSound, RecordsStay, NEW v \in Visit, NEW c, Calls(v, c), CallIsSound(call[v])'
  PROVE  CallsAreSound'
<1>1. call' = [u \in Visit |-> call'[u]] /\ \A u \in Visit \ {v} : call'[u] = call[u]
  BY DEF Calls, CallsAreSound
<1>2. ASSUME NEW u \in Visit \ {v} PROVE CallIsSound(call[u])'
  <2>1. CallIsSound(call[u]) /\ call'[u] = call[u]
    BY <1>1 DEF CallsAreSound
  <2>2. call[u].step = "approving" =>
          call[u].job \in Planned' /\ paidJobs'[call[u].job].estimate = call[u].estimate
    BY <2>1 DEF CallIsSound, RecordsStay
  <2>3. QED
    BY <2>1, <2>2 DEF CallIsSound
<1>3. QED
  BY <1>1, <1>2 DEF CallsAreSound

LEMMA OneCallEnds ==
  ASSUME CallsAreSound, RecordsStay, NEW v \in Visit, Answered(v)
  PROVE  CallsAreSound'
<1>1. call'[v] = NoCall
  BY DEF Answered, Calls, CallsAreSound
<1>2. CallIsSound(call[v])'
  BY <1>1, NothingYet DEF CallIsSound
<1>3. QED
  BY <1>2, OneCallMoves DEF Answered

(* What the user does with the room's controls.                            *)
LEMMA RoomKeeps ==
  ASSUME ApprovalInv,
         \/ \E w \in Workflow : SelectWorkflow(w)
         \/ \E o \in Offer : ChooseOffer(o)
         \/ \E s \in Selection : ChooseInputs(s)
         \/ LateCloudStatus \/ TickCost \/ TickStart \/ ReopenDesk
  PROVE  ApprovalInv'
<1> OutsideIsSound /\ DeskIsSound /\ CallsAreSound /\ JobsAreSound
  BY DEF ApprovalInv
<1>1. UNCHANGED <<call, paidJobs>> /\ OutsideIsSound'
  <2>1. visit' \in Visit
    <3>1. ReopenDesk => visit' \in Visit
      BY ApprovalAssumption DEF ReopenDesk, OutsideIsSound, Visit
    <3>2. QED
      BY <3>1 DEF SelectWorkflow, ChooseOffer, ChooseInputs, LateCloudStatus, TickCost, TickStart, OutsideIsSound
  <2>2. QED
    BY <2>1 DEF SelectWorkflow, ChooseOffer, ChooseInputs, LateCloudStatus, TickCost, TickStart, ReopenDesk,
       OutsideIsSound, Outside
<1>2. CallsAreSound' /\ JobsAreSound'
  BY <1>1, RecordsAlone
<1>3. CASE \E w \in Workflow : SelectWorkflow(w)
  <2>0. PICK w \in Workflow : SelectWorkflow(w)
    BY <1>3
  <2>1. PICK o \in FirstOffers(w) : desk' = [OpenDesk(o) EXCEPT !.workflow = w]
    BY <2>0 DEF SelectWorkflow
  <2>2. /\ desk' = [workflow |-> w, offer |-> o, selection |-> "none", estimate |-> NoEstimate,
                    costTick |-> 0, planned |-> "none", startTick |-> "none"]
        /\ o \in Offer \cup {"none"}
    BY <2>1, OpenedDesk
  <2>3. DeskIsSound'
    BY <2>2, NothingYet DEF DeskIsSound
  <2>4. QED
    BY <1>1, <1>2, <2>3 DEF ApprovalInv
<1>4. CASE ReopenDesk
  <2>1. PICK o \in FirstOffers(DefaultWorkflow) : desk' = OpenDesk(o)
    BY <1>4 DEF ReopenDesk
  <2>2. o \in Offer \cup {"none"}
    BY NothingYet, OpenedDesk
  <2>3. DeskIsSound'
    BY <2>1, <2>2, NothingYet DEF OpenDesk, DeskIsSound
  <2>4. QED
    BY <1>1, <1>2, <2>3 DEF ApprovalInv
<1>5. CASE LateCloudStatus
  <2>1. PICK o \in FirstOffers(DefaultWorkflow) :
          desk' = [desk EXCEPT !.workflow = DefaultWorkflow, !.offer = o]
    BY <1>5 DEF LateCloudStatus
  <2>2. o \in Offer \cup {"none"}
    BY NothingYet, OpenedDesk
  <2>3. DeskIsSound'
    BY <2>1, <2>2, NothingYet DEF DeskIsSound
  <2>4. QED
    BY <1>1, <1>2, <2>3 DEF ApprovalInv
<1>6. CASE \/ \E o \in Offer : ChooseOffer(o)
           \/ \E s \in Selection : ChooseInputs(s)
           \/ TickCost \/ TickStart
  <2>1. DeskIsSound'
    BY <1>6 DEF ChooseOffer, ChooseInputs, TickCost, TickStart, DeskIsSound
  <2>2. QED
    BY <1>1, <1>2, <2>1 DEF ApprovalInv
<1>7. QED
  BY <1>3, <1>4, <1>5, <1>6

(* The estimate: its figures are natural numbers, and its tick is gone.    *)
LEMMA EstimateKeeps ==
  ASSUME ApprovalInv, NEW v \in Visit, EstimateArrives(v) \/ CallRefused(v)
  PROVE  ApprovalInv'
<1> OutsideIsSound /\ DeskIsSound /\ CallsAreSound /\ JobsAreSound
  BY DEF ApprovalInv
<1>1. UNCHANGED paidJobs /\ Answered(v)
  BY DEF EstimateArrives, CallRefused
<1>2. CallsAreSound' /\ JobsAreSound'
  BY <1>1, SameRecordsStay, OneCallEnds, RecordsAlone
<1>3. CASE EstimateArrives(v)
  <2> DEFINE e == EstimateOf(call[v].workflow, call[v].offer)
  <2>1. call[v].offer \in Offer /\ call[v].workflow \in Workflow
    BY <1>3 DEF EstimateArrives, Compatible, CallsAreSound, CallIsSound
  <2>2. limits.minutes \in Nat /\ LongestMinutes[call[v].workflow] \in Nat /\ catalogue[call[v].offer] \in Nat
    BY <2>1, ApprovalAssumption DEF OutsideIsSound
  <2>3. Priced(e)
    BY <2>2 DEF EstimateOf, Priced, Least
  <2> HIDE DEF e
  <2>4. desk' \in {desk, [desk EXCEPT !.estimate = e, !.planned = "none", !.costTick = 0]}
    BY <1>3 DEF EstimateArrives, Shows, AfterEstimate, e
  <2>5. DeskIsSound'
    BY <2>3, <2>4 DEF DeskIsSound
  <2>6. OutsideIsSound'
    BY <1>3 DEF EstimateArrives, OutsideIsSound
  <2>7. QED
    BY <1>2, <2>5, <2>6 DEF ApprovalInv
<1>4. CASE CallRefused(v)
  BY <1>2, <1>4, RecordsAlone DEF CallRefused, ApprovalInv
<1>5. QED
  BY <1>3, <1>4

LEMMA PressKeeps ==
  ASSUME ApprovalInv, AskEstimate \/ PressPlan \/ PressStart
  PROVE  ApprovalInv'
<1> OutsideIsSound /\ DeskIsSound /\ CallsAreSound /\ JobsAreSound
  BY DEF ApprovalInv
<1>1. UNCHANGED <<visit, desk, paidJobs, Outside>> /\ RecordsStay /\ visit \in Visit
  BY SameRecordsStay DEF AskEstimate, PressPlan, PressStart, OutsideIsSound
<1>2. PICK c : Calls(visit, c) /\ CallIsSound(c)
  <2>1. CASE AskEstimate
    <3>1. PICK c : c = [NoCall EXCEPT !.step = "estimating", !.workflow = desk.workflow, !.offer = desk.offer]
      OBVIOUS
    <3>2. CallIsSound(c)
      BY <3>1, NothingYet DEF CallIsSound, DeskIsSound
    <3>3. QED
      BY <2>1, <3>1, <3>2 DEF AskEstimate
  <2>2. CASE PressPlan
    <3> DEFINE c == [step |-> "planning", workflow |-> desk.workflow, offer |-> desk.offer, tick |-> desk.costTick,
                     selection |-> desk.selection, estimate |-> desk.estimate, job |-> "none"]
    <3>1. Calls(visit, c) /\ desk.costTick = desk.estimate.id
      BY <2>2 DEF PressPlan, DeskIsSound
    <3>2. CallIsSound(c)
      BY <3>1 DEF CallIsSound, DeskIsSound
    <3>3. QED
      BY <3>1, <3>2
  <2>3. CASE PressStart
    <3>1. PICK c : c = [NoCall EXCEPT !.step = "starting", !.job = desk.planned, !.estimate = desk.estimate]
      OBVIOUS
    <3>2. desk.planned \in PaidJob
      BY <2>3 DEF PressStart, DeskIsSound
    <3>3. CallIsSound(c)
      BY <3>1, <3>2, NothingYet DEF CallIsSound, DeskIsSound
    <3>4. QED
      BY <2>3, <3>1, <3>3 DEF PressStart
  <2>4. QED
    BY <2>1, <2>2, <2>3
<1>3. CallIsSound(call[visit])'
  <2>1. call'[visit'] = c
    BY <1>1, <1>2 DEF Calls, CallsAreSound
  <2>2. QED
    BY <1>1, <1>2, <2>1 DEF CallIsSound, Planned
<1>4. CallsAreSound'
  <2>1. \E v \in Visit : v = visit /\ v = visit'
    BY <1>1
  <2>2. PICK v \in Visit : v = visit /\ v = visit'
    BY <2>1
  <2>3. Calls(v, c) /\ CallIsSound(call[v])'
    BY <1>2, <1>3, <2>2
  <2>4. QED
    BY <1>1, <2>3, OneCallMoves
<1>5. QED
  BY <1>1, <1>4, RecordsAlone DEF ApprovalInv

(* One job's record is replaced by a sound one.                            *)
LEMMA ReplacedJob ==
  ASSUME JobsAreSound, NEW k \in PaidJob, NEW r, PaidJobIsSound(r), paidJobs' = [paidJobs EXCEPT ![k] = r]
  PROVE  JobsAreSound' /\ Planned' = Planned \cup {k} /\ paidJobs'[k] = r
BY PlannedByState DEF JobsAreSound, Planned

LEMMA PlanKeeps ==
  ASSUME ApprovalInv, NEW v \in Visit, NEW j \in PaidJob, PlanPaidJob(v, j)
  PROVE  ApprovalInv' /\ RecordsStay
<1> OutsideIsSound /\ DeskIsSound /\ CallsAreSound /\ JobsAreSound /\ CallIsSound(call[v])
  BY DEF ApprovalInv, CallsAreSound
<1>1. Calls(v, [call[v] EXCEPT !.step = "approving", !.job = j])
  BY DEF PlanPaidJob
<1>2. /\ call'[v].step = "approving" /\ call'[v].job = j /\ call'[v].estimate = call[v].estimate
      /\ call'[v].workflow = call[v].workflow /\ call'[v].offer = call[v].offer
      /\ call'[v] = [step |-> call'[v].step, workflow |-> call'[v].workflow, offer |-> call'[v].offer,
                     selection |-> call'[v].selection, estimate |-> call'[v].estimate, tick |-> call'[v].tick,
                     job |-> call'[v].job]
  <2>1. call'[v] = [call[v] EXCEPT !.step = "approving", !.job = j]
    BY <1>1 DEF Calls, CallsAreSound
  <2>2. QED
    BY <2>1 DEF CallIsSound
<1>3. JobsAreSound' /\ RecordsStay /\ j \in Planned' /\ paidJobs'[j].estimate = call[v].estimate
  <2>1. CASE \E k \in Planned : Identity(paidJobs[k]) = Identity(call[v])
    <3>1. j \in Planned /\ Identity(paidJobs[j]) = Identity(call[v]) /\ UNCHANGED paidJobs
      BY <2>1 DEF PlanPaidJob
    <3>2. Identity(paidJobs[j]).estimate = paidJobs[j].estimate /\ Identity(call[v]).estimate = call[v].estimate
      BY DEF Identity
    <3>3. QED
      BY <3>1, <3>2, RecordsAlone, SameRecordsStay DEF Planned
  <2>2. CASE ~ \E k \in Planned : Identity(paidJobs[k]) = Identity(call[v])
    <3> DEFINE r == [state |-> "estimated", workflow |-> call[v].workflow, offer |-> call[v].offer,
                     selection |-> call[v].selection, estimate |-> call[v].estimate, approved |-> 0,
                     tick |-> call[v].tick, rate |-> 0, minutes |-> 0, limit |-> 0]
    <3>1. j \notin Planned /\ paidJobs' = [paidJobs EXCEPT ![j] = r]
      BY <2>2 DEF PlanPaidJob
    <3>2. call[v].offer \in Offer /\ call[v].tick = call[v].estimate.id /\ Priced(call[v].estimate)
      BY DEF PlanPaidJob, CallIsSound
    <3>3. PaidJobIsSound(r) /\ r.estimate = call[v].estimate
      BY <3>2 DEF PaidJobIsSound
    <3> HIDE DEF r
    <3>4. JobsAreSound' /\ Planned' = Planned \cup {j} /\ paidJobs'[j] = r
      BY <3>1, <3>3, ReplacedJob
    <3>5. RecordsStay
      BY <3>1, <3>4 DEF RecordsStay, JobsAreSound, Planned
    <3>6. QED
      BY <3>3, <3>4, <3>5
  <2>3. QED
    BY <2>1, <2>2
<1>4. CallIsSound(call[v])'
  BY <1>2, <1>3 DEF CallIsSound
<1>5. CallsAreSound'
  BY <1>1, <1>3, <1>4, OneCallMoves
<1>6. QED
  BY <1>3, <1>5, RecordsAlone DEF PlanPaidJob, ApprovalInv

(* A record with its approval, and with what it was started with.          *)
LEMMA ApprovedRecord ==
  ASSUME NEW p, PaidJobIsSound(p), NEW cost
  PROVE  LET r == [p EXCEPT !.state = "approved", !.approved = cost]
         IN  /\ DOMAIN r = DOMAIN p
             /\ r.state = "approved" /\ r.approved = cost
             /\ r.offer = p.offer /\ r.estimate = p.estimate /\ r.tick = p.tick
BY DEF PaidJobIsSound

LEMMA QueuedRecord ==
  ASSUME NEW p, PaidJobIsSound(p), NEW cost, NEW time, NEW session
  PROVE  LET r == [p EXCEPT !.state = "queued", !.rate = cost, !.minutes = time, !.limit = session]
         IN  /\ DOMAIN r = DOMAIN p
             /\ r.state = "queued" /\ r.rate = cost /\ r.minutes = time
             /\ r.offer = p.offer /\ r.estimate = p.estimate /\ r.tick = p.tick /\ r.approved = p.approved
BY DEF PaidJobIsSound

LEMMA ApproveKeeps ==
  ASSUME ApprovalInv, NEW v \in Visit, ApprovePaidJob(v)
  PROVE  ApprovalInv' /\ RecordsStay
<1> OutsideIsSound /\ DeskIsSound /\ CallsAreSound /\ JobsAreSound /\ CallIsSound(call[v])
  BY DEF ApprovalInv, CallsAreSound
<1> DEFINE j == call[v].job
           r == [paidJobs[j] EXCEPT !.state = "approved", !.approved = Maximum(call[v].estimate)]
<1>1. j \in Planned /\ j \in PaidJob /\ paidJobs[j].estimate = call[v].estimate /\ PaidJobIsSound(paidJobs[j])
  BY DEF ApprovePaidJob, CallIsSound, JobsAreSound, Planned
<1>2. paidJobs' = [paidJobs EXCEPT ![j] = r]
  BY <1>1 DEF ApprovePaidJob, JobsAreSound
<1>3. PaidJobIsSound(r) /\ r.estimate = paidJobs[j].estimate
  <2>1. /\ DOMAIN r = DOMAIN paidJobs[j]
        /\ r.state = "approved" /\ r.approved = Maximum(call[v].estimate)
        /\ r.offer = paidJobs[j].offer /\ r.estimate = paidJobs[j].estimate /\ r.tick = paidJobs[j].tick
    BY <1>1, ApprovedRecord
  <2> HIDE DEF r
  <2>2. QED
    BY <1>1, <2>1 DEF PaidJobIsSound
<1> HIDE DEF r
<1>4. JobsAreSound' /\ RecordsStay
  <2>1. JobsAreSound' /\ Planned' = Planned \cup {j} /\ paidJobs'[j] = r
    BY <1>1, <1>2, <1>3, ReplacedJob
  <2>2. QED
    BY <1>1, <1>2, <1>3, <2>1 DEF RecordsStay, JobsAreSound, Planned
<1>5. DeskIsSound'
  BY <1>1 DEF ApprovePaidJob, Shows, DeskIsSound
<1>6. CallsAreSound'
  BY <1>4, OneCallEnds DEF ApprovePaidJob
<1>7. QED
  BY <1>4, <1>5, <1>6, RecordsAlone DEF ApprovePaidJob, ApprovalInv

(* The price may have fallen and the deadline may be tighter, no more.     *)
LEMMA QueueKeeps ==
  ASSUME ApprovalInv, NEW v \in Visit, QueuePaidJob(v)
  PROVE  ApprovalInv' /\ RecordsStay
<1> OutsideIsSound /\ DeskIsSound /\ CallsAreSound /\ JobsAreSound /\ CallIsSound(call[v])
  BY DEF ApprovalInv, CallsAreSound
<1> DEFINE j == call[v].job
           e == paidJobs[j].estimate
           r == [paidJobs[j] EXCEPT !.state = "queued", !.rate = price[paidJobs[j].offer],
                   !.minutes = Least(paidJobs[j].estimate.minutes, limits.minutes), !.limit = limits.session]
<1>1. j \in Planned /\ j \in PaidJob /\ PaidJobIsSound(paidJobs[j]) /\ paidJobs[j].state = "approved"
  BY PlannedByState DEF QueuePaidJob, CallIsSound, JobsAreSound, Planned
<1>2. paidJobs' = [paidJobs EXCEPT ![j] = r]
  BY <1>1 DEF QueuePaidJob, JobsAreSound
<1>3. /\ DOMAIN r = DOMAIN paidJobs[j]
      /\ r.state = "queued" /\ r.rate = price[paidJobs[j].offer]
      /\ r.minutes = Least(e.minutes, limits.minutes)
      /\ r.offer = paidJobs[j].offer /\ r.estimate = e /\ r.tick = paidJobs[j].tick
      /\ r.approved = paidJobs[j].approved
  BY <1>1, QueuedRecord
<1>4. /\ price[paidJobs[j].offer] \in Nat /\ price[paidJobs[j].offer] <= e.rate
      /\ e.rate \in Nat /\ e.minutes \in Nat /\ limits.minutes \in Nat
      /\ paidJobs[j].approved = Maximum(e)
  BY <1>1, ApprovalAssumption DEF QueuePaidJob, PriceStillHolds, PaidJobIsSound, Priced, OutsideIsSound
<1>5. Least(e.minutes, limits.minutes) \in Nat /\ Least(e.minutes, limits.minutes) <= e.minutes
  BY <1>4 DEF Least
<1>6. price[paidJobs[j].offer] * Least(e.minutes, limits.minutes) <= e.rate * e.minutes
  BY <1>4, <1>5, CostIsMonotonic
<1>7. PaidJobIsSound(r) /\ r.estimate = e
  <2> HIDE DEF r
  <2>1. r.rate * r.minutes <= r.approved
    BY <1>3, <1>4, <1>6 DEF Maximum
  <2>2. QED
    BY <1>1, <1>3, <1>4, <2>1 DEF PaidJobIsSound
<1> HIDE DEF r
<1>8. JobsAreSound' /\ RecordsStay
  <2>1. JobsAreSound' /\ Planned' = Planned \cup {j} /\ paidJobs'[j] = r
    BY <1>1, <1>2, <1>7, ReplacedJob
  <2>2. QED
    BY <1>1, <1>2, <1>7, <2>1 DEF RecordsStay, JobsAreSound, Planned
<1>9. CallsAreSound' /\ DeskIsSound' /\ OutsideIsSound'
  BY <1>8, OneCallEnds DEF QueuePaidJob, DeskIsSound, OutsideIsSound
<1>10. QED
  BY <1>8, <1>9 DEF ApprovalInv

LEMMA MeanwhileKeeps ==
  ASSUME ApprovalInv,
         \/ \E o \in Offer, p \in Price : PriceChanges(o, p)
         \/ \E g \in SavedLimits : SaveLimits(g)
         \/ TimePasses
  PROVE  ApprovalInv'
<1>1. OutsideIsSound' /\ UNCHANGED <<visit, desk, call, paidJobs>>
  BY ApprovalAssumption DEF PriceChanges, SaveLimits, TimePasses, ApprovalInv, OutsideIsSound
<1>2. QED
  BY <1>1, RecordsAlone DEF ApprovalInv

(* The invariant of estimates, calls and records holds in every reachable  *)
(* state.                                                                  *)
THEOREM ApprovalInvariance == ApprovalSpec => []ApprovalInv
<1>1. ASSUME ApprovalInv, [ApprovalNext]_approvalVars PROVE ApprovalInv'
  <2>1. CASE UNCHANGED approvalVars
    BY <1>1, <2>1, RecordsAlone DEF approvalVars, ApprovalInv, Outside
  <2>2. CASE ApprovalNext
    BY <1>1, <2>2, RoomKeeps, EstimateKeeps, PressKeeps, PlanKeeps, ApproveKeeps, QueueKeeps, MeanwhileKeeps
       DEF ApprovalNext
  <2>3. QED
    BY <1>1, <2>1, <2>2
<1>2. QED
  BY <1>1, ApprovalInitially, PTL DEF ApprovalSpec

(* What the room may start is a planned job, and a planned job stays one.  *)
ApprovalRanges ==
  /\ price \in [Offer -> Price] /\ catalogue \in [Offer -> Price]
  /\ desk.planned \in Planned \cup {"none"}

LEMMA PlannedStays ==
  ASSUME ApprovalInv, [ApprovalNext]_approvalVars
  PROVE  Planned \subseteq Planned'
<1>1. RecordsStay \/ UNCHANGED paidJobs
  BY PlanKeeps, ApproveKeeps, QueueKeeps DEF ApprovalNext, approvalVars, SelectWorkflow, ChooseOffer, ChooseInputs,
     LateCloudStatus, TickCost, TickStart, ReopenDesk, AskEstimate, EstimateArrives, CallRefused, PressPlan, PressStart,
     PriceChanges, SaveLimits, TimePasses
<1>2. QED
  BY <1>1 DEF RecordsStay, Planned

LEMMA RangesStep ==
  ASSUME ApprovalInv, ApprovalRanges, [ApprovalNext]_approvalVars
  PROVE  ApprovalRanges'
<1>1. CallsAreSound /\ JobsAreSound /\ DeskIsSound
  BY DEF ApprovalInv
<1>2. price' \in [Offer -> Price] /\ catalogue' \in [Offer -> Price]
  BY DEF ApprovalRanges, ApprovalNext, approvalVars, SelectWorkflow, ChooseOffer, ChooseInputs, LateCloudStatus,
     TickCost, TickStart, ReopenDesk, AskEstimate, EstimateArrives, CallRefused, PressPlan, PlanPaidJob,
     ApprovePaidJob, PressStart, QueuePaidJob, PriceChanges, SaveLimits, TimePasses, Outside
<1>3. desk'.planned \in {desk.planned, "none"} \cup Planned
  <2>1. ASSUME NEW w \in Workflow, NEW o \in FirstOffers(w)
        PROVE  [OpenDesk(o) EXCEPT !.workflow = w].planned = "none"
    BY DEF OpenDesk
  <2>2. ASSUME NEW o PROVE OpenDesk(o).planned = "none"
    BY DEF OpenDesk
  <2>3. ASSUME NEW v \in Visit, EstimateArrives(v) PROVE desk'.planned \in {desk.planned, "none"}
    <3>1. ASSUME NEW e PROVE AfterEstimate(e).planned = "none"
      BY <1>1 DEF AfterEstimate, DeskIsSound
    <3>2. QED
      BY <2>3, <3>1 DEF EstimateArrives, Shows
  <2>4. ASSUME NEW v \in Visit, ApprovePaidJob(v) PROVE desk'.planned \in {desk.planned} \cup Planned
    <3>1. call[v].job \in Planned /\ desk' \in {desk, [desk EXCEPT !.planned = call[v].job]}
      BY <1>1, <2>4 DEF ApprovePaidJob, Shows, CallsAreSound, CallIsSound
    <3>2. QED
      BY <1>1, <3>1 DEF DeskIsSound
  <2>5. CASE \/ \E w \in Workflow : SelectWorkflow(w)
             \/ ReopenDesk \/ \E v \in Visit : EstimateArrives(v) \/ ApprovePaidJob(v)
    BY <2>1, <2>2, <2>3, <2>4, <2>5 DEF SelectWorkflow, ReopenDesk
  <2>6. CASE \/ LateCloudStatus \/ TickCost \/ TickStart
             \/ \E o \in Offer : ChooseOffer(o)
             \/ \E s \in Selection : ChooseInputs(s)
    BY <1>1, <2>6 DEF LateCloudStatus, TickCost, TickStart, ChooseOffer, ChooseInputs, DeskIsSound
  <2>7. CASE UNCHANGED desk
    BY <2>7
  <2>8. QED
    BY <2>5, <2>6, <2>7 DEF ApprovalNext, approvalVars, AskEstimate, CallRefused, PressPlan, PlanPaidJob, PressStart,
       QueuePaidJob, PriceChanges, SaveLimits, TimePasses
<1>4. QED
  BY <1>2, <1>3, PlannedStays DEF ApprovalRanges

(* The room, its calls and the job records keep their types; the job that  *)
(* may be started is a planned one.                                        *)
THEOREM ApprovalTypes == ApprovalSpec => []ApprovalTypeOK
<1>1. ApprovalInit => ApprovalRanges
  <2> SUFFICES ASSUME ApprovalInit PROVE ApprovalRanges
    OBVIOUS
  <2>1. desk.planned = "none"
    BY DEF ApprovalInit, OpenDesk
  <2>2. QED
    BY <2>1, ApprovalAssumption DEF ApprovalInit, ApprovalRanges
<1>2. ApprovalInv /\ ApprovalRanges => ApprovalTypeOK
  BY DEF ApprovalInv, OutsideIsSound, DeskIsSound, CallsAreSound, CallIsSound, JobsAreSound, PaidJobIsSound,
     ApprovalRanges, ApprovalTypeOK
<1>3. QED
  BY <1>1, <1>2, RangesStep, ApprovalInvariance, PTL DEF ApprovalSpec

(* Whatever happens to prices, limits and the room in between, a rented    *)
(* worker costs at most what was approved, and that is the maximum the     *)
(* user ticked.                                                            *)
THEOREM SpendingIsApproved == ApprovalSpec => []SpendIsApproved
<1>1. ApprovalInv => SpendIsApproved
  BY DEF ApprovalInv, JobsAreSound, PaidJobIsSound, SpendIsApproved
<1>2. QED
  BY <1>1, ApprovalInvariance, PTL

-----------------------------------------------------------------------------
(* WorkerInputs.  What runs is what was reviewed.                          *)

(* An order lists approved media, and what ran passed the runner's checks. *)
OrderIsSound ==
  /\ work = [state |-> work.state, workflow |-> work.workflow, inputs |-> work.inputs, length |-> work.length]
  /\ work.state \in {"approved", "submitted", "ran", "refused"}
  /\ work.inputs \in Seq(approved)
  /\ work.state = "ran" => RunnerAccepts(work.workflow, received, work.inputs)

(* A dataset on the shelf keeps the list it was built from, of media that  *)
(* were approved before.                                                   *)
ShelfIsSound ==
  /\ shelf \in Seq(Medium \cup Manifest)
  /\ IsFiniteSet(approved) /\ approved \subseteq ToSet(shelf)
  /\ DOMAIN manifests = ToSet(shelf) \cap Manifest
  /\ \A m \in DOMAIN manifests : manifests[m] \in Seq(approved)

InputInv ==
  /\ ShelfIsSound /\ estimated \in BOOLEAN
  /\ work = NoWork \/ OrderIsSound

LEMMA SeqGrows ==
  ASSUME NEW A, NEW B, A \subseteq B, NEW s \in Seq(A)
  PROVE  s \in Seq(B)
  OBVIOUS

LEMMA SeqOfItsElements ==
  ASSUME NEW A, NEW B, NEW s \in Seq(A), ToSet(s) \subseteq B
  PROVE  s \in Seq(B)
<1>1. Len(s) \in Nat /\ DOMAIN s = 1..Len(s) /\ s = [n \in 1..Len(s) |-> s[n]]
  OBVIOUS
<1>2. \A n \in 1..Len(s) : s[n] \in B
  BY <1>1 DEF ToSet
<1>3. QED
  BY <1>1, <1>2

(* What is ticked is a sequence of different media.                        *)
LEMMA TickedAreSeqs ==
  ASSUME NEW S, IsFiniteSet(S), NEW s \in Ticked(S)
  PROVE  s \in Seq(S)
<1>1. PICK some \in SUBSET S : s \in SetToSeqs(some)
  BY DEF Ticked
<1>2. Cardinality(some) \in Nat
  BY FS_Subset, FS_CardinalityType
<1>3. s \in [1..Cardinality(some) -> some]
  BY <1>1 DEF SetToSeqs
<1>4. QED
  BY <1>2, <1>3

LEMMA SetToSeqsCovers ==
  ASSUME NEW S, IsFiniteSet(S), NEW s \in SetToSeqs(S)
  PROVE  s \in Seq(S) /\ ToSet(s) = S
<1>1. PICK n \in Nat : n = Cardinality(S)
  BY FS_CardinalityType
<1>2. s \in [1..n -> S] /\ \A i, j \in 1..n : i # j => s[i] # s[j]
  BY <1>1 DEF SetToSeqs
<1>3. s \in Injection(1..n, S)
  BY <1>2 DEF Injection, IsInjective
<1>4. Cardinality(1..n) = n
  BY FS_Interval
<1>5. s \in Surjection(1..n, S)
  BY <1>1, <1>3, <1>4, FS_Injection
<1>6. QED
  BY <1>2, <1>5 DEF Surjection, ToSet

LEMMA InputsInitially == InputsInit => InputInv
<1> SUFFICES ASSUME InputsInit PROVE InputInv
  OBVIOUS
<1>1. shelf \in Seq(Medium) /\ ToSet(shelf) = Medium
  BY InputsAssumption, SetToSeqsCovers DEF InputsInit
<1>2. shelf \in Seq(Medium \cup Manifest)
  BY <1>1, SeqGrows
<1>3. DOMAIN manifests = {}
  BY DEF InputsInit
<1>4. QED
  BY <1>1, <1>2, <1>3, InputsAssumption DEF InputsInit, InputInv, ShelfIsSound

(* The order lives on while the shelf grows.                               *)
LEMMA OrderStays ==
  ASSUME ShelfIsSound, OrderIsSound, UNCHANGED <<work, received>>, approved \subseteq approved',
         \A m \in DOMAIN manifests : manifests'[m] = manifests[m]
  PROVE  OrderIsSound'
<1>1. work.inputs \in Seq(approved) /\ work.inputs \in Seq(approved')
  BY SeqGrows DEF OrderIsSound
<1>2. ASSUME work.state = "ran" PROVE RunnerAccepts(work.workflow, received, work.inputs)'
  <2>1. RunnerAccepts(work.workflow, received, work.inputs)
    BY <1>2 DEF OrderIsSound
  <2>2. CASE work.workflow # "adaptation"
    BY <2>1, <2>2 DEF RunnerAccepts, LineBook, TechnicalQc, Foley, LipRepair, GraphInputs, VideoFile, AudioFile, Moving, Type
  <2>3. CASE work.workflow = "adaptation"
    <3>1. Adaptation(received, work.inputs)
      BY <2>1, <2>3 DEF RunnerAccepts
    <3>2. received[1] \in DOMAIN manifests
      <4>1. Len(work.inputs) = Len(received) /\ work.inputs[1] = received[1] /\ Len(received) > MinSamples
            /\ Type(received[1]) = "manifest"
        BY <3>1 DEF Adaptation, DatasetMatches
      <4>2. Len(work.inputs) \in Nat /\ Len(work.inputs) >= 1
        BY <1>1, <4>1, InputsAssumption
      <4>3. received[1] \in approved
        BY <1>1, <4>1, <4>2
      <4>4. received[1] \in ToSet(shelf) /\ received[1] \in Medium \cup Manifest
        BY <4>3 DEF ShelfIsSound, ToSet
      <4>5. received[1] \in Manifest
        BY <4>1, <4>4, InputsAssumption DEF Type
      <4>6. QED
        BY <4>4, <4>5 DEF ShelfIsSound
    <3>3. manifests'[received[1]] = manifests[received[1]]
      BY <3>2
    <3>4. DatasetMatches(received, work.inputs)'
      BY <3>1, <3>3 DEF Adaptation, DatasetMatches
    <3>5. QED
      BY <2>3, <3>1, <3>4 DEF RunnerAccepts, Adaptation
  <2>4. QED
    BY <2>2, <2>3
<1>3. QED
  BY <1>1, <1>2 DEF OrderIsSound

LEMMA Builds ==
  ASSUME InputInv, NEW m \in Manifest, NEW samples \in Ticked(Medium), BuildDataset(m, samples)
  PROVE  InputInv'
<1>1. /\ ShelfIsSound /\ m \notin ToSet(shelf) /\ ToSet(samples) \subseteq approved
      /\ manifests' = [d \in DOMAIN manifests \cup {m} |-> IF d = m THEN samples ELSE manifests[d]]
      /\ shelf' = Append(shelf, m) /\ UNCHANGED <<approved, estimated, work, received>>
  BY DEF InputInv, BuildDataset
<1>2. shelf' \in Seq(Medium \cup Manifest) /\ ToSet(shelf') = ToSet(shelf) \cup {m}
  <2>1. shelf \in Seq(Medium \cup Manifest)
    BY <1>1 DEF ShelfIsSound
  <2>2. QED
    BY <1>1, <2>1 DEF ToSet
<1>3. samples \in Seq(approved)
  BY <1>1, TickedAreSeqs, SeqOfItsElements, InputsAssumption
<1>4. m \notin DOMAIN manifests
  BY <1>1 DEF ShelfIsSound
<1>5. DOMAIN manifests' = DOMAIN manifests \cup {m} /\ manifests'[m] = samples
      /\ \A d \in DOMAIN manifests : manifests'[d] = manifests[d]
  BY <1>1, <1>4
<1>6. ShelfIsSound'
  BY <1>1, <1>2, <1>3, <1>5 DEF ShelfIsSound
<1>7. OrderIsSound => OrderIsSound'
  BY <1>1, <1>5, OrderStays
<1>8. QED
  BY <1>1, <1>6, <1>7 DEF InputInv

LEMMA ApprovesDataset ==
  ASSUME InputInv, NEW m \in Manifest, ApproveDataset(m)
  PROVE  InputInv'
<1>1. /\ ShelfIsSound /\ m \in DOMAIN manifests /\ approved' = approved \cup {m}
      /\ UNCHANGED <<shelf, manifests, estimated, work, received>>
  BY DEF InputInv, ApproveDataset
<1>2. IsFiniteSet(approved')
  BY <1>1, FS_AddElement DEF ShelfIsSound
<1>3. ShelfIsSound'
  BY <1>1, <1>2, SeqGrows DEF ShelfIsSound
<1>4. OrderIsSound => OrderIsSound'
  BY <1>1, OrderStays
<1>5. QED
  BY <1>1, <1>3, <1>4 DEF InputInv

LEMMA Estimates ==
  ASSUME InputInv, NEW w \in InputWorkflow, NEW inputs, EstimateInputs(w, inputs)
  PROVE  InputInv'
  BY DEF EstimateInputs, InputInv, ShelfIsSound

LEMMA Orders ==
  ASSUME InputInv, NEW w \in InputWorkflow, NEW inputs \in Ticked(approved), NEW length,
         PlanInputs(w, inputs, length)
  PROVE  InputInv'
<1>1. inputs \in Seq(approved)
  BY TickedAreSeqs DEF InputInv, ShelfIsSound
<1>2. work' = [state |-> "approved", workflow |-> w, inputs |-> inputs, length |-> length]
      /\ UNCHANGED <<shelf, approved, manifests, estimated, received>>
  BY DEF PlanInputs
<1>3. OrderIsSound'
  BY <1>1, <1>2 DEF OrderIsSound
<1>4. QED
  BY <1>2, <1>3 DEF InputInv, ShelfIsSound

LEMMA WorkerSteps ==
  ASSUME InputInv, SubmitInputs \/ \E readable \in BOOLEAN : RunInputs(readable)
  PROVE  InputInv'
<1>1. OrderIsSound /\ ShelfIsSound /\ UNCHANGED <<shelf, approved, manifests, estimated>>
  BY DEF InputInv, SubmitInputs, RunInputs, NoWork
<1>2. ShelfIsSound'
  BY <1>1 DEF ShelfIsSound
<1>3. PICK state \in {"submitted", "ran", "refused"} :
        /\ work' = [work EXCEPT !.state = state]
        /\ state = "ran" => RunnerAccepts(work.workflow, received, work.inputs) /\ received' = received
  BY DEF SubmitInputs, RunInputs
<1>4. work' = [state |-> state, workflow |-> work.workflow, inputs |-> work.inputs, length |-> work.length]
  BY <1>1, <1>3 DEF OrderIsSound
<1>5. state = "ran" => RunnerAccepts(work.workflow, received, work.inputs)'
  BY <1>1, <1>3, <1>4 DEF RunnerAccepts, LineBook, TechnicalQc, Foley, LipRepair, GraphInputs, VideoFile, AudioFile, Moving, Type, Adaptation,
                          DatasetMatches
<1>6. OrderIsSound'
  BY <1>1, <1>4, <1>5 DEF OrderIsSound
<1>7. QED
  BY <1>1, <1>2, <1>6 DEF InputInv

LEMMA InputInvariance == InputsSpec => []InputInv
<1>1. InputInv /\ [InputsNext]_inputVars => InputInv'
  <2> SUFFICES ASSUME InputInv, [InputsNext]_inputVars PROVE InputInv'
    OBVIOUS
  <2>1. CASE UNCHANGED inputVars
    <3>1. UNCHANGED <<shelf, approved, manifests, estimated, work, received>>
      BY <2>1 DEF inputVars
    <3>2. ShelfIsSound'
      BY <3>1 DEF InputInv, ShelfIsSound
    <3>3. OrderIsSound => OrderIsSound'
      BY <3>1, OrderStays DEF InputInv
    <3>4. QED
      BY <3>1, <3>2, <3>3 DEF InputInv
  <2>2. ASSUME NEW m \in Manifest, NEW samples \in Ticked(Medium), BuildDataset(m, samples) PROVE InputInv'
    BY <2>2, Builds
  <2>3. ASSUME NEW m \in Manifest, ApproveDataset(m) PROVE InputInv'
    BY <2>3, ApprovesDataset
  <2>4. ASSUME NEW w \in InputWorkflow, NEW inputs \in Ticked(approved), NEW length \in TextLengths,
               PlanInputs(w, inputs, length)
        PROVE  InputInv'
    BY <2>4, Orders
  <2>7. ASSUME NEW w \in InputWorkflow, NEW inputs \in Ticked(approved), EstimateInputs(w, inputs) PROVE InputInv'
    BY <2>7, Estimates
  <2>5. CASE SubmitInputs \/ \E readable \in BOOLEAN : RunInputs(readable)
    BY <2>5, WorkerSteps
  <2>6. QED
    BY <2>1, <2>2, <2>3, <2>4, <2>5, <2>7 DEF InputsNext
<1>2. QED
  BY <1>1, InputsInitially, PTL DEF InputsSpec

(* The shelf, the datasets and the order keep their types.                 *)
THEOREM InputsTypes == InputsSpec => []InputsTypeOK
<1>1. InputInv => InputsTypeOK
  BY DEF InputInv, ShelfIsSound, OrderIsSound, InputsTypeOK
<1>2. QED
  BY <1>1, InputInvariance, PTL

(* Whatever is selected and ticked after the estimate, however many        *)
(* media and datasets are recorded and approved meanwhile, in whatever     *)
(* order the files reach the worker: an adaptation trains on an approved   *)
(* manifest and on its samples, approved and each in its place.            *)
THEOREM InputsRunOnReviewed == InputsSpec => []RunsOnReviewed
<1>1. InputInv => RunsOnReviewed
  <2> SUFFICES ASSUME InputInv, Ran("adaptation") PROVE RunsOnReviewed
    BY DEF RunsOnReviewed
  <2> DEFINE samples == manifests[received[1]]
  <2>1. Adaptation(received, work.inputs) /\ work.inputs \in Seq(approved)
    BY DEF InputInv, OrderIsSound, Ran, RunnerAccepts
  <2>2. Len(work.inputs) = Len(received) /\ work.inputs[1] = received[1] /\ Len(received) > MinSamples
        /\ Type(received[1]) = "manifest" /\ Len(received) = Len(samples) + 1
        /\ \A n \in DOMAIN samples : received[n + 1] = samples[n] /\ work.inputs[n + 1] = samples[n]
    BY <2>1 DEF Adaptation, DatasetMatches
  <2>3. Len(work.inputs) \in Nat /\ Len(work.inputs) >= 1
    BY <2>1, <2>2, InputsAssumption
  <2>4. received[1] \in approved
    BY <2>1, <2>2, <2>3
  <2>5. received[1] \in DOMAIN manifests
    <3>1. received[1] \in ToSet(shelf) /\ received[1] \in Medium \cup Manifest
      BY <2>4 DEF InputInv, ShelfIsSound, ToSet
    <3>2. QED
      BY <2>2, <3>1, InputsAssumption DEF Type, InputInv, ShelfIsSound
  <2>6. samples \in Seq(approved)
    BY <2>5 DEF InputInv, ShelfIsSound
  <2>7. ToSet(samples) \subseteq approved
    BY <2>6 DEF ToSet
  <2>8. ASSUME NEW n \in DOMAIN work.inputs PROVE received[n] = work.inputs[n]
    <3>1. n \in 1..(Len(samples) + 1)
      BY <2>1, <2>2
    <3>2. CASE n = 1
      BY <2>2, <3>2
    <3>3. CASE n # 1
      <4>1. n - 1 \in DOMAIN samples /\ n = (n - 1) + 1
        BY <2>6, <3>1, <3>3
      <4>2. QED
        BY <2>2, <4>1
    <3>4. QED
      BY <3>2, <3>3
  <2>9. QED
    BY <2>2, <2>4, <2>7, <2>8 DEF RunsOnReviewed
<1>2. QED
  BY <1>1, InputInvariance, PTL
=============================================================================
