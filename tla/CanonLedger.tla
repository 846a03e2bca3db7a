---------------------------- MODULE CanonLedger ----------------------------
(***************************************************************************)
(* Approved canon, reviewed media and planned jobs of one production       *)
(* (production-store/src/index.ts).  Every handler runs to its end between *)
(* two events of the main process; what can separate two of its SQLite     *)
(* transactions is only the death of the process.                          *)
(*                                                                         *)
(* A proposal, asset or job is named by its id; its text, bytes and hash   *)
(* do not change once it exists, so an id stands for them.                 *)
(***************************************************************************)
EXTENDS Naturals, FiniteSets

CONSTANTS Proposal,      \* writing proposals that may be approved into canon
          LabelOf,       \* the kind and name each is approved under
          Asset,         \* media ids
          RoleOf,        \* the kind each asset has: master, thumbnail, caption,
                         \* output (of a job), clip (everything else)
          Job            \* planned production jobs

ASSUME LedgerAssumption == "none" \notin Job

VARIABLES canon,      \* canon_records: none, active or superseded
          revision,   \* the revision each proposal was approved as
          depends,    \* continuity_dependencies: <<proposal, consumer>>
          stale,      \* those whose state is stale
          media,      \* media_assets: the state of each asset
          maker,      \* the job that generated the asset
          jobs,       \* state, inputs, canon and retaken asset of each job
          overlooked  \* history: jobs whose last approval did not complete them

ledgerVars == <<canon, revision, depends, stale, media, maker, jobs, overlooked>>

MediaState == {"none", "candidate", "held", "approved", "rejected"}
Decision == {"approved", "held", "rejected"}

NoJobYet == [state |-> "none", inputs |-> {}, canon |-> {}, retakes |-> {}]

LedgerInit ==
  /\ canon = [p \in Proposal |-> "none"]
  /\ revision = [p \in Proposal |-> 0]
  /\ depends = {} /\ stale = {}
  /\ media = [a \in Asset |-> "none"]
  /\ maker = [a \in Asset |-> "none"]
  /\ jobs = [j \in Job |-> NoJobYet]
  /\ overlooked = {}

ActiveCanon == {p \in Proposal : canon[p] = "active"}

(* The record promoteWritingDraft supersedes: same kind, same name.        *)
ActiveFor(p) == {q \in ActiveCanon : LabelOf[q] = LabelOf[p]}

NextRevision(p) == IF ActiveFor(p) = {} THEN 1
                   ELSE revision[CHOOSE q \in ActiveFor(p) : TRUE] + 1

Approved(assets) == \A a \in assets : media[a] = "approved"

(* insertContinuityDependencies: the new edges, an old edge stays as it is. *)
WithEdges(sources, consumer) == depends \cup (sources \X {consumer})

(* promoteWritingDraft: the edges of the superseded records turn stale.    *)
StaleAfter(superseded) == stale \cup {d \in depends : d[1] \in superseded}

(* Mutant: the search for the active record compares another name.         *)
PromoteBesideTheOld(p) ==
  /\ canon[p] = "none"
  /\ canon' = [canon EXCEPT ![p] = "active"]
  /\ revision' = [revision EXCEPT ![p] = 1]
  /\ UNCHANGED <<depends, stale, media, maker, jobs, overlooked>>

(* promoteWritingDraft: one transaction approves the proposal, supersedes  *)
(* the record it replaces and marks what depended on that record stale.    *)
Promote(p) ==
  /\ canon[p] = "none"                                \* not already promoted
  /\ canon' = [q \in Proposal |-> IF q = p THEN "active"
                                  ELSE IF q \in ActiveFor(p) THEN "superseded"
                                  ELSE canon[q]]
  /\ revision' = [revision EXCEPT ![p] = NextRevision(p)]
  /\ stale' = StaleAfter(ActiveFor(p))
  /\ UNCHANGED <<depends, media, maker, jobs, overlooked>>

(* importMedia and copyMedia: whatever was hashed enters as a candidate.   *)
ImportMedia(a) ==
  /\ media[a] = "none" /\ RoleOf[a] # "output"
  /\ media' = [media EXCEPT ![a] = "candidate"]
  /\ UNCHANGED <<canon, revision, depends, stale, maker, jobs, overlooked>>

(* registerAssembledMedia: a file made on this computer whose size, hash   *)
(* and type still hold is moved into the project, a new candidate.         *)
RegisterAssembled(a) ==
  /\ media[a] = "none" /\ RoleOf[a] # "output"
  /\ media' = [media EXCEPT ![a] = "candidate"]
  /\ UNCHANGED <<canon, revision, depends, stale, maker, jobs, overlooked>>

(* createAdaptationDataset: a dataset out of approved samples.             *)
AssembleMedia(a, sources) ==
  /\ RoleOf[a] = "clip" /\ Approved(sources)
  /\ RegisterAssembled(a)

(* Mutant: a decision can be replaced.                                     *)
CanDecideAgain(a, decision) == media[a] \notin {"none", decision}

CanDecide(a, decision) == /\ media[a] \in {"candidate", "held"}
                          /\ ~ (media[a] = "held" /\ decision = "held")

Outputs(j) == {a \in Asset : maker[a] = j}

(* Mutant: one approved output completes the job.                          *)
CompletesEarly(a, decision) ==
  maker[a] # "none" /\ jobs[maker[a]].state = "awaiting-review" /\ decision = "approved"

Completes(a, decision) ==
  /\ maker[a] # "none" /\ jobs[maker[a]].state = "awaiting-review"
  /\ decision = "approved" /\ Approved(Outputs(maker[a]) \ {a})

(* reviewMedia: the decision is one transaction, the completion of its job *)
(* a second one, which a process that dies in between never begins.        *)
ReviewMedia(a, decision) ==
  /\ CanDecide(a, decision)
  /\ media' = [media EXCEPT ![a] = decision]
  /\ IF Completes(a, decision)
     THEN \/ /\ jobs' = [jobs EXCEPT ![maker[a]].state = "succeeded"]
             /\ UNCHANGED overlooked
          \/ /\ overlooked' = overlooked \cup {maker[a]}
             /\ UNCHANGED jobs
     ELSE UNCHANGED <<jobs, overlooked>>
  /\ UNCHANGED <<canon, revision, depends, stale, maker>>

(* planJob: approved inputs, active canon, and a retake only of a rejected *)
(* take of an earlier job.  The edges to the canon are in its transaction. *)
PlanJob(j, inputs, sources, retakes) ==
  /\ jobs[j].state = "none"
  /\ Approved(inputs)
  /\ sources \subseteq ActiveCanon
  /\ \A a \in retakes : maker[a] # "none" /\ media[a] = "rejected"
  /\ jobs' = [jobs EXCEPT ![j] = [state |-> "planned", inputs |-> inputs,
                                  canon |-> sources, retakes |-> retakes]]
  /\ depends' = WithEdges(sources, j)
  /\ UNCHANGED <<canon, revision, stale, media, maker, overlooked>>

(* The job ran on a worker (WorkerLifecycle), whose outputs are downloaded *)
(* one by one: each is on record, and can be reviewed, before the next one *)
(* has arrived (registerGeneratedMedia).  A reception that breaks off      *)
(* leaves the job here.                                                    *)
ReceiveOutput(j, a) ==
  /\ jobs[j].state \in {"planned", "receiving"}
  /\ media[a] = "none" /\ RoleOf[a] = "output"
  /\ jobs' = [jobs EXCEPT ![j].state = "receiving"]
  /\ media' = [media EXCEPT ![a] = "candidate"]
  /\ maker' = [maker EXCEPT ![a] = j]
  /\ UNCHANGED <<canon, revision, depends, stale, overlooked>>

(* When the worker has confirmed that its files are purged, the job waits  *)
(* for review; nothing asks here whether it already happened.              *)
AwaitReview(j) ==
  /\ jobs[j].state = "receiving"
  /\ jobs' = [jobs EXCEPT ![j].state = "awaiting-review"]
  /\ overlooked' = IF Approved(Outputs(j)) THEN overlooked \cup {j} ELSE overlooked
  /\ UNCHANGED <<canon, revision, depends, stale, media, maker>>

LedgerNext ==
  \/ \E p \in Proposal : Promote(p)
  \/ \E a \in Asset : ImportMedia(a)
  \/ \E a \in Asset, s \in SUBSET Asset : s # {} /\ AssembleMedia(a, s)
  \/ \E a \in Asset, d \in Decision : ReviewMedia(a, d)
  \/ \E j \in Job, i \in SUBSET Asset, c \in SUBSET Proposal, r \in SUBSET Asset :
       Cardinality(r) < 2 /\ PlanJob(j, i, c, r)
  \/ \E j \in Job : AwaitReview(j) \/ \E a \in Asset : ReceiveOutput(j, a)

LedgerSpec == LedgerInit /\ [][LedgerNext]_ledgerVars

-----------------------------------------------------------------------------
LedgerTypeOK ==
  /\ canon \in [Proposal -> {"none", "active", "superseded"}]
  /\ revision \in [Proposal -> Nat]
  /\ stale \subseteq depends
  /\ media \in [Asset -> MediaState]
  /\ maker \in [Asset -> Job \cup {"none"}]
  /\ jobs \in [Job -> [state : {"none", "planned", "receiving", "awaiting-review", "succeeded"},
                       inputs : SUBSET Asset, canon : SUBSET Proposal, retakes : SUBSET Asset]]
  /\ overlooked \subseteq Job

(* Under every name at most one record is active, every superseded record  *)
(* has a later one, and no revision is given twice (promoteWritingDraft).  *)
CanonIsAChain ==
  \A p, q \in Proposal :
    LabelOf[p] = LabelOf[q] /\ canon[p] # "none" /\ canon[q] # "none" /\ p # q =>
      /\ revision[p] # revision[q]
      /\ canon[p] = "active" => canon[q] = "superseded" /\ revision[q] < revision[p]

(* An edge is stale exactly when its canon was superseded: nothing that    *)
(* used a replaced record counts as current, and nothing current as stale. *)
StaleIsExact == stale = {d \in depends : canon[d[1]] = "superseded"}

(* The ledger's two promises about canon together: one chain of revisions  *)
(* under each name, and every use of a replaced revision counted stale.    *)
CanonIsSound == CanonIsAChain /\ StaleIsExact

(* A job has succeeded only when a person approved every output of it, and *)
(* one with every output approved waits only if its last approval came     *)
(* before it waited for review, or the process died inside this review.    *)
ReviewedJobSucceeds ==
  \A j \in Job :
    /\ jobs[j].state = "succeeded" => Outputs(j) # {} /\ Approved(Outputs(j))
    /\ jobs[j].state = "awaiting-review" /\ Approved(Outputs(j)) => j \in overlooked

(* What a job was planned from stays as it was reviewed: its inputs stay   *)
(* approved and the takes it replaces stay rejected.                       *)
PlannedFromReviewed ==
  \A j \in Job : /\ Approved(jobs[j].inputs)
                 /\ \A a \in jobs[j].retakes : media[a] = "rejected"

(* No approved job waits for a review that already happened.  Outputs that *)
(* are all approved while the worker purges its files leave one for ever,  *)
(* and so does a process that dies between the two transactions: an        *)
(* approved asset takes no second decision.                                *)
NoReviewIsStuck ==
  \A j \in Job : jobs[j].state = "awaiting-review" => ~ Approved(Outputs(j))
=============================================================================
