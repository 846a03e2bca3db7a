------------------------- MODULE ReleaseDesk_proofs -------------------------
(***************************************************************************)
(* Theorems about the ledger and the release desk, for any number of       *)
(* proposals, assets, jobs, timelines, renders and packages: canon is one  *)
(* chain of revisions under each name and every use of a replaced one is   *)
(* stale, a job succeeds with its reviews, a lock freezes what it locked,  *)
(* and what is released was reviewed.                                      *)
(***************************************************************************)
EXTENDS ReleaseDesk, TLAPS

(* A name under which something was approved has an active record: the one *)
(* the next promotion replaces, and whose revision it counts from.         *)
NamesAreHeld == \A p \in Proposal : canon[p] # "none" => ActiveFor(p) # {}

(* Canon, revisions and dependencies.                                      *)
CanonInv ==
  /\ canon \in [Proposal -> {"none", "active", "superseded"}]
  /\ revision \in [Proposal -> Nat]
  /\ stale \subseteq depends
  /\ \A d \in depends : d[1] \in Proposal
  /\ NamesAreHeld
  /\ CanonIsSound

(* Media, and the jobs that made them: an output of a job is on record.    *)
MediaInv ==
  /\ media \in [Asset -> MediaState]
  /\ maker \in [Asset -> Job \cup {"none"}]
  /\ jobs \in [Job -> [state : {"none", "planned", "receiving", "awaiting-review", "succeeded"},
                       inputs : SUBSET Asset, canon : SUBSET Proposal, retakes : SUBSET Asset]]
  /\ overlooked \subseteq Job
  /\ \A a \in Asset : maker[a] # "none" => media[a] # "none"
  /\ ReviewedJobSucceeds

(* What happens to the media: an approval and a registration are final.    *)
ReviewsStay ==
  \A a \in Asset : /\ media[a] = "approved" => media'[a] = "approved"
                   /\ media[a] # "none" => media'[a] # "none"

(* A render knows what it is of, and that was reviewed; a master knows its *)
(* timeline.                                                               *)
DeskInv ==
  /\ timelines \in [Timeline -> [state : {"none", "draft", "locked"}, version : Nat,
                                 clips : SUBSET Asset, master : Asset \cup {"none"}]]
  /\ lockedOver \in [Timeline -> SUBSET Proposal]
  /\ renders \in [Render -> [of : Timeline \cup Asset \cup {"none"}, expected : Nat]]
  /\ \A r \in Render : OfReviewed(renders[r].of)
  /\ renderedFor \in [Asset -> Timeline \cup Asset \cup {"none"}]
  /\ details \in Nat /\ attested \subseteq Nat
  /\ packages = [k \in Package |-> packages[k]]
  /\ \A k \in Package : packages[k] = NoPackage \/ packages[k] \in
       [timeline : Timeline, master : Asset, thumbnail : Asset, captions : SUBSET Asset,
        details : Nat, attested : SUBSET Nat, whole : BOOLEAN]
  /\ \A t \in Timeline : timelines[t].master # "none" => media[timelines[t].master] # "none"
  /\ ReleaseIsReviewed
  /\ \A t \in Timeline : \A p \in lockedOver[t] : <<p, t>> \in depends

ReleaseInv == CanonInv /\ MediaInv /\ DeskInv

-----------------------------------------------------------------------------
(* The canon.                                                              *)

(* A promotion: the active record of the name is replaced by one with a    *)
(* later revision, and what used it turns stale.                           *)
LEMMA PromoteKeepsCanon ==
  ASSUME CanonInv, NEW p \in Proposal, Promote(p)
  PROVE  CanonInv'
<1>1. /\ canon' \in [Proposal -> {"none", "active", "superseded"}]
      /\ canon'[p] = "active" /\ canon[p] = "none"
      /\ \A q \in Proposal : q # p =>
           canon'[q] = IF q \in ActiveFor(p) THEN "superseded" ELSE canon[q]
  BY DEF Promote, CanonInv
<1>2. \A q \in Proposal : q \in ActiveFor(p) <=> canon[q] = "active" /\ LabelOf[q] = LabelOf[p]
  BY DEF ActiveFor, ActiveCanon
<1>3. /\ NextRevision(p) \in Nat
      /\ \A q \in Proposal : LabelOf[q] = LabelOf[p] /\ canon[q] # "none" => revision[q] < NextRevision(p)
  <2>1. CASE ActiveFor(p) = {}
    <3>1. \A q \in Proposal : LabelOf[q] = LabelOf[p] => canon[q] = "none"
      BY <2>1 DEF CanonInv, NamesAreHeld, ActiveFor, ActiveCanon
    <3>. QED
      BY <2>1, <3>1 DEF NextRevision
  <2>2. CASE ActiveFor(p) # {}
    <3>1. PICK q \in ActiveFor(p) : q = CHOOSE x \in ActiveFor(p) : TRUE
      BY <2>2
    <3>2. q \in Proposal /\ canon[q] = "active" /\ LabelOf[q] = LabelOf[p] /\ revision[q] \in Nat
      BY <1>2, <3>1 DEF CanonInv, ActiveFor, ActiveCanon
    <3>3. NextRevision(p) = revision[q] + 1
      BY <2>2, <3>1 DEF NextRevision
    <3>4. \A x \in Proposal : LabelOf[x] = LabelOf[p] /\ canon[x] # "none" =>
                                revision[x] \in Nat /\ revision[x] <= revision[q]
      BY <3>2 DEF CanonInv, CanonIsSound, CanonIsAChain
    <3>. QED
      BY <3>2, <3>3, <3>4
  <2>. QED
    BY <2>1, <2>2
<1>4. revision' \in [Proposal -> Nat] /\ revision'[p] = NextRevision(p)
      /\ \A q \in Proposal : q # p => revision'[q] = revision[q]
  BY <1>3 DEF Promote, CanonInv
<1>5. depends' = depends /\ stale' = stale \cup {d \in depends : d[1] \in ActiveFor(p)}
  BY DEF Promote, StaleAfter
<1>6. NamesAreHeld'
  <2>. SUFFICES ASSUME NEW q \in Proposal, canon'[q] # "none"
                PROVE  \E x \in Proposal : canon'[x] = "active" /\ LabelOf[x] = LabelOf[q]
    BY DEF NamesAreHeld, ActiveFor, ActiveCanon
  <2>1. CASE LabelOf[q] = LabelOf[p]
    BY <1>1, <2>1
  <2>2. CASE LabelOf[q] # LabelOf[p]
    <3>1. canon[q] # "none"
      BY <1>1, <1>2, <2>2
    <3>2. PICK x \in Proposal : canon[x] = "active" /\ LabelOf[x] = LabelOf[q]
      BY <3>1 DEF CanonInv, NamesAreHeld, ActiveFor, ActiveCanon
    <3>. QED
      BY <1>1, <1>2, <2>2, <3>2
  <2>. QED
    BY <2>1, <2>2
<1>7. CanonIsAChain'
  <2>. SUFFICES ASSUME NEW q \in Proposal, NEW x \in Proposal, LabelOf[q] = LabelOf[x],
                       canon'[q] # "none", canon'[x] # "none", q # x
                PROVE  /\ revision'[q] # revision'[x]
                       /\ canon'[q] = "active" => canon'[x] = "superseded" /\ revision'[x] < revision'[q]
    BY DEF CanonIsAChain
  <2>1. revision[q] \in Nat /\ revision[x] \in Nat
    BY DEF CanonInv
  <2>2. CASE q = p
    <3>1. canon[x] # "none" /\ revision[x] < NextRevision(p)
      BY <1>1, <1>2, <1>3, <2>2
    <3>2. canon'[x] = "superseded"
      BY <1>1, <1>2, <2>2, <3>1 DEF CanonInv
    <3>. QED
      BY <1>3, <1>4, <2>1, <2>2, <3>1, <3>2
  <2>3. CASE x = p
    <3>1. canon[q] # "none" /\ revision[q] < NextRevision(p) /\ canon'[q] # "active"
      BY <1>1, <1>2, <1>3, <2>3
    <3>. QED
      BY <1>3, <1>4, <2>1, <2>3, <3>1
  <2>4. CASE q # p /\ x # p
    <3>1. canon[q] # "none" /\ canon[x] # "none"
      BY <1>1, <1>2, <2>4
    <3>2. canon'[q] = "active" => canon[q] = "active"
      BY <1>1, <2>4
    <3>3. canon[x] = "superseded" => canon'[x] = "superseded"
      BY <1>1, <1>2, <2>4
    <3>. QED
      BY <1>4, <2>4, <3>1, <3>2, <3>3 DEF CanonInv, CanonIsSound, CanonIsAChain
  <2>. QED
    BY <2>2, <2>3, <2>4
<1>8. StaleIsExact'
  <2>1. \A q \in Proposal : canon'[q] = "superseded" <=> canon[q] = "superseded" \/ q \in ActiveFor(p)
    BY <1>1, <1>2
  <2>. QED
    BY <1>5, <2>1 DEF CanonInv, CanonIsSound, StaleIsExact
<1>. QED
  BY <1>1, <1>4, <1>5, <1>6, <1>7, <1>8 DEF CanonInv, CanonIsSound

(* New edges go to active canon only, so none of them is stale.            *)
LEMMA EdgesKeepCanon ==
  ASSUME CanonInv, NEW sources \in SUBSET ActiveCanon, NEW consumer,
         depends' = depends \/ depends' = WithEdges(sources, consumer),
         UNCHANGED <<canon, revision, stale>>
  PROVE  CanonInv' /\ depends \subseteq depends'
<1>1. \A d \in depends' : d \in depends \/ (d[1] \in Proposal /\ canon[d[1]] = "active")
  BY DEF WithEdges, ActiveCanon
<1>2. depends \subseteq depends'
  BY DEF WithEdges
<1>3. NamesAreHeld' /\ CanonIsAChain'
  BY DEF CanonInv, NamesAreHeld, ActiveFor, ActiveCanon, CanonIsSound, CanonIsAChain
<1>4. StaleIsExact'
  BY <1>1, <1>2 DEF CanonInv, CanonIsSound, StaleIsExact
<1>. QED
  BY <1>1, <1>2, <1>3, <1>4 DEF CanonInv, CanonIsSound

-----------------------------------------------------------------------------
(* The media and their jobs.                                               *)

(* A file that enters as a candidate is no output of a job.                *)
LEMMA CandidateKeepsMedia ==
  ASSUME MediaInv, NEW a \in Asset, media[a] = "none",
         media' = [media EXCEPT ![a] = "candidate"], UNCHANGED <<maker, jobs, overlooked>>
  PROVE  MediaInv' /\ ReviewsStay
<1>1. /\ media' \in [Asset -> MediaState] /\ media'[a] = "candidate"
      /\ \A b \in Asset : b # a => media'[b] = media[b]
  BY DEF MediaInv, MediaState
<1>2. \A j \in Job : Outputs(j)' = Outputs(j) /\ a \notin Outputs(j)
  <2>1. "none" \notin Job
    BY LedgerAssumption
  <2>. QED
    BY <2>1 DEF MediaInv, Outputs
<1>3. \A j \in Job : Approved(Outputs(j))' <=> Approved(Outputs(j))
  BY <1>1, <1>2 DEF Approved, Outputs
<1>4. ReviewedJobSucceeds'
  BY <1>2, <1>3 DEF MediaInv, ReviewedJobSucceeds
<1>. QED
  BY <1>1, <1>4 DEF MediaInv, ReviewsStay

(* A review: it may complete the job its asset is an output of.            *)
LEMMA ReviewKeepsMedia ==
  ASSUME MediaInv, NEW a \in Asset, NEW d \in Decision, ReviewMedia(a, d)
  PROVE  MediaInv' /\ ReviewsStay
<1>1. /\ media' \in [Asset -> MediaState] /\ media'[a] = d
      /\ media[a] \in {"candidate", "held"}
      /\ \A b \in Asset : b # a => media'[b] = media[b]
  BY DEF MediaInv, MediaState, Decision, ReviewMedia, CanDecide
<1>2. maker' = maker /\ overlooked' \subseteq Job /\ overlooked \subseteq overlooked'
  BY DEF ReviewMedia, MediaInv, Completes
<1>3. \A j \in Job : Outputs(j)' = Outputs(j)
  BY <1>2 DEF Outputs
<1>4. /\ jobs' \in [Job -> [state : {"none", "planned", "receiving", "awaiting-review", "succeeded"},
                       inputs : SUBSET Asset, canon : SUBSET Proposal, retakes : SUBSET Asset]]
      /\ \A j \in Job : \/ jobs'[j] = jobs[j]
                        \/ /\ j = maker[a] /\ Completes(a, d)
                           /\ jobs'[j].state = "succeeded"
  BY DEF ReviewMedia, MediaInv, Completes
<1>5. ReviewedJobSucceeds'
  <2>. SUFFICES ASSUME NEW j \in Job
                PROVE  /\ jobs'[j].state = "succeeded" =>
                            Outputs(j) # {} /\ \A b \in Outputs(j) : media'[b] = "approved"
                       /\ jobs'[j].state = "awaiting-review" /\ (\A b \in Outputs(j) : media'[b] = "approved")
                            => j \in overlooked'
    BY <1>3 DEF ReviewedJobSucceeds, Approved
  <2>1. CASE a \notin Outputs(j)
    <3>1. j # maker[a] /\ \A b \in Outputs(j) : media'[b] = media[b]
      BY <1>1, <2>1 DEF Outputs
    <3>. QED
      BY <1>2, <1>4, <3>1 DEF MediaInv, ReviewedJobSucceeds, Approved
  <2>2. CASE a \in Outputs(j)
    <3>1. j = maker[a] /\ Outputs(j) \subseteq Asset
      BY <2>2 DEF Outputs
    <3>2. jobs[j].state # "succeeded"
      BY <1>1, <2>2 DEF MediaInv, ReviewedJobSucceeds, Approved
    <3>3. CASE Completes(a, d)
      <4>1. \A b \in Outputs(j) : media'[b] = "approved"
        BY <1>1, <3>1, <3>3 DEF Completes, Approved
      <4>2. jobs'[j].state = "succeeded" \/ j \in overlooked'
        BY <3>1, <3>3 DEF ReviewMedia, MediaInv
      <4>. QED
        BY <2>2, <4>1, <4>2, <1>4
    <3>4. CASE ~ Completes(a, d)
      <4>1. jobs'[j] = jobs[j]
        BY <1>4, <3>4
      <4>2. jobs[j].state = "awaiting-review" => d # "approved" \/ ~ Approved(Outputs(j) \ {a})
        <5>1. j # "none"
          BY LedgerAssumption
        <5>. QED
          BY <3>1, <3>4, <5>1 DEF Completes
      <4>3. (\A b \in Outputs(j) : media'[b] = "approved") => d = "approved" /\ Approved(Outputs(j) \ {a})
        BY <1>1, <2>2, <3>1 DEF Approved
      <4>. QED
        BY <3>2, <4>1, <4>2, <4>3
    <3>. QED
      BY <3>3, <3>4
  <2>. QED
    BY <2>1, <2>2
<1>6. ReviewsStay
  BY <1>1 DEF ReviewsStay, Decision
<1>. QED
  BY <1>1, <1>2, <1>4, <1>5, <1>6 DEF MediaInv, Decision, ReviewsStay

(* A planned job has no outputs: no review is disturbed.                    *)
LEMMA PlanKeepsMedia ==
  ASSUME MediaInv, NEW j \in Job, NEW inputs \in SUBSET Asset, NEW sources \in SUBSET Proposal,
         NEW retakes \in SUBSET Asset, PlanJob(j, inputs, sources, retakes)
  PROVE  MediaInv' /\ ReviewsStay
<1>1. /\ UNCHANGED <<media, maker, overlooked>>
      /\ \A i \in Job : jobs'[i] = jobs[i] \/ jobs'[i].state = "planned"
      /\ jobs' \in [Job -> [state : {"none", "planned", "receiving", "awaiting-review", "succeeded"},
                       inputs : SUBSET Asset, canon : SUBSET Proposal, retakes : SUBSET Asset]]
  BY DEF PlanJob, MediaInv
<1>2. ReviewedJobSucceeds'
  BY <1>1 DEF MediaInv, ReviewedJobSucceeds, Outputs, Approved
<1>. QED
  BY <1>1, <1>2 DEF MediaInv, ReviewsStay

(* An output is a new file: no other job loses one, and it is not approved *)
(* yet.                                                                    *)
LEMMA OutputKeepsMedia ==
  ASSUME MediaInv, NEW j \in Job, NEW a \in Asset, ReceiveOutput(j, a)
  PROVE  MediaInv' /\ ReviewsStay
<1>1. /\ media' \in [Asset -> MediaState] /\ media[a] = "none" /\ media'[a] = "candidate"
      /\ \A b \in Asset : b # a => media'[b] = media[b]
  BY DEF ReceiveOutput, MediaInv, MediaState
<1>2. /\ maker' \in [Asset -> Job \cup {"none"}]
      /\ \A b \in Asset : maker'[b] = IF b = a THEN j ELSE maker[b]
  BY DEF ReceiveOutput, MediaInv
<1>3. /\ jobs' \in [Job -> [state : {"none", "planned", "receiving", "awaiting-review", "succeeded"},
                       inputs : SUBSET Asset, canon : SUBSET Proposal, retakes : SUBSET Asset]]
      /\ jobs'[j].state = "receiving" /\ \A i \in Job : i # j => jobs'[i] = jobs[i]
      /\ overlooked' = overlooked
  BY DEF ReceiveOutput, MediaInv
<1>4. ReviewedJobSucceeds'
  <2>. SUFFICES ASSUME NEW i \in Job
                PROVE  /\ jobs'[i].state = "succeeded" => Outputs(i)' # {} /\ Approved(Outputs(i))'
                       /\ jobs'[i].state = "awaiting-review" /\ Approved(Outputs(i))' => i \in overlooked'
    BY DEF ReviewedJobSucceeds
  <2>1. CASE i = j
    BY <1>3, <2>1
  <2>2. CASE i # j
    <3>1. Outputs(i)' = Outputs(i) /\ \A b \in Outputs(i) : b # a /\ b \in Asset
      <4>1. i # "none"
        BY LedgerAssumption
      <4>. QED
        BY <1>1, <1>2, <2>2, <4>1 DEF MediaInv, Outputs
    <3>2. Approved(Outputs(i))' <=> Approved(Outputs(i))
      BY <1>1, <3>1 DEF Approved
    <3>. QED
      BY <1>3, <2>2, <3>1, <3>2 DEF MediaInv, ReviewedJobSucceeds
  <2>. QED
    BY <2>1, <2>2
<1>. QED
  BY <1>1, <1>2, <1>3, <1>4 DEF MediaInv, ReviewsStay

(* The job waits for review: if that already happened, this is on record.  *)
LEMMA WaitKeepsMedia ==
  ASSUME MediaInv, NEW j \in Job, AwaitReview(j)
  PROVE  MediaInv' /\ ReviewsStay
<1>1. /\ UNCHANGED <<media, maker>>
      /\ jobs' \in [Job -> [state : {"none", "planned", "receiving", "awaiting-review", "succeeded"},
                       inputs : SUBSET Asset, canon : SUBSET Proposal, retakes : SUBSET Asset]]
      /\ jobs'[j].state = "awaiting-review" /\ \A i \in Job : i # j => jobs'[i] = jobs[i]
      /\ overlooked \subseteq overlooked' /\ overlooked' \subseteq Job
      /\ Approved(Outputs(j)) => j \in overlooked'
  BY DEF AwaitReview, MediaInv
<1>2. \A i \in Job : Outputs(i)' = Outputs(i) /\ (Approved(Outputs(i))' <=> Approved(Outputs(i)))
  BY <1>1 DEF Outputs, Approved
<1>3. ReviewedJobSucceeds'
  BY <1>1, <1>2 DEF MediaInv, ReviewedJobSucceeds
<1>. QED
  BY <1>1, <1>3 DEF MediaInv, ReviewsStay

-----------------------------------------------------------------------------
(* The desk.                                                               *)

(* Neither an approval nor a lock is taken back, so what was made from     *)
(* reviewed things stays so.                                               *)
LEMMA ReviewedStays ==
  ASSUME \A a \in Asset : media[a] = "approved" => media'[a] = "approved",
         \A t \in Timeline : timelines[t].state = "locked" => timelines'[t].state = "locked",
         NEW x, OfReviewed(x)
  PROVE  OfReviewed(x)'
BY DEF OfReviewed, Approved

(* No render is of nothing.                                                *)
LEMMA NothingIsReviewed == OfReviewed("none") /\ OfReviewed(NoRender.of) /\ OfReviewed("none")'
                           /\ OfReviewed(NoRender.of)'
BY DeskAssumption DEF OfReviewed, NoRender

(* Steps that leave the timelines, masters and packages alone: approvals   *)
(* stay, and so does what rests on them.                                   *)
LEMMA ReviewsKeepDesk ==
  ASSUME DeskInv, ReviewsStay, UNCHANGED deskVars, depends \subseteq depends'
  PROVE  DeskInv'
<1>1. MasterIsOfItsTimeline'
  BY DEF DeskInv, ReviewsStay, deskVars, ReleaseIsReviewed, MasterIsOfItsTimeline, Approved
<1>2. PackageWasApproved'
  <2>. SUFFICES ASSUME NEW k \in Package, packages[k] # NoPackage
                PROVE  /\ timelines[packages[k].timeline].state = "locked"
                       /\ \A a \in {packages[k].master, packages[k].thumbnail} \cup packages[k].captions :
                            media'[a] = "approved"
    BY DEF PackageWasApproved, deskVars, Approved
  <2>1. packages[k].master \in Asset /\ packages[k].thumbnail \in Asset /\ packages[k].captions \subseteq Asset
    BY DEF DeskInv
  <2>. QED
    BY <2>1 DEF DeskInv, ReviewsStay, ReleaseIsReviewed, PackageWasApproved, Approved
<1>3. \A t \in Timeline : timelines'[t].master # "none" => media'[timelines'[t].master] # "none"
  BY DEF DeskInv, ReviewsStay, deskVars
<1>4. UNCHANGED <<timelines, renders, renderedFor>>
  BY DEF deskVars
<1>5. MadeFromReviewed' /\ \A r \in Render : OfReviewed(renders[r].of)'
  <2>1. \A x : OfReviewed(x) => OfReviewed(x)'
    BY <1>4, ReviewedStays DEF ReviewsStay
  <2>. QED
    BY <1>4, <2>1 DEF DeskInv, ReleaseIsReviewed, MadeFromReviewed
<1>. QED
  BY <1>1, <1>2, <1>3, <1>5 DEF DeskInv, deskVars, ReleaseIsReviewed

(* The record of a timeline, touched or replaced.                          *)
TimelineRecord ==
  [state : {"none", "draft", "locked"}, version : Nat,
   clips : SUBSET Asset, master : Asset \cup {"none"}]

(* A new version of a timeline has the old contents.                       *)
LEMMA TouchedFacts ==
  ASSUME DeskInv, NEW t \in Timeline
  PROVE  /\ Touched(t) \in TimelineRecord
         /\ Touched(t).state = timelines[t].state /\ Touched(t).clips = timelines[t].clips
         /\ Touched(t).master = timelines[t].master
BY DEF DeskInv, Touched, TimelineRecord

(* One timeline is written.                                                *)
LEMMA WrittenTimeline ==
  ASSUME DeskInv, NEW t \in Timeline, NEW new \in TimelineRecord,
         timelines' = [timelines EXCEPT ![t] = new]
  PROVE  /\ timelines' \in [Timeline -> TimelineRecord] /\ timelines'[t] = new
         /\ \A u \in Timeline : u # t => timelines'[u] = timelines[u]
BY DEF DeskInv, TimelineRecord

(* A timeline is saved or locked.                                          *)
LEMMA TimelineKeepsDesk ==
  ASSUME DeskInv, NEW t \in Timeline,
         (\E clips \in SUBSET Asset : SaveTimeline(t, clips)) \/ LockTimeline(t)
  PROVE  DeskInv'
<1>1. /\ timelines' \in [Timeline -> [state : {"none", "draft", "locked"}, version : Nat,
                                      clips : SUBSET Asset, master : Asset \cup {"none"}]]
      /\ timelines'[t].master = timelines[t].master
      /\ timelines[t].state # "locked"
      /\ Approved(timelines'[t].clips)
      /\ \A u \in Timeline : u # t => timelines'[u] = timelines[u]
  <2>1. ASSUME NEW clips \in SUBSET Asset, SaveTimeline(t, clips)
        PROVE  /\ timelines' \in [Timeline -> TimelineRecord]
               /\ timelines'[t].master = timelines[t].master
               /\ timelines[t].state # "locked"
               /\ Approved(timelines'[t].clips)
               /\ \A u \in Timeline : u # t => timelines'[u] = timelines[u]
    <3>. DEFINE new == [Touched(t) EXCEPT !.state = "draft", !.clips = clips]
    <3>1. new \in TimelineRecord /\ new.master = timelines[t].master /\ new.clips = clips
      BY TouchedFacts DEF TimelineRecord
    <3>2. timelines' = [timelines EXCEPT ![t] = new] /\ Approved(clips) /\ timelines[t].state # "locked"
      BY <2>1 DEF SaveTimeline, ValidTimeline
    <3>. HIDE DEF new
    <3>. QED
      BY <3>1, <3>2, WrittenTimeline
  <2>2. CASE LockTimeline(t)
    <3>. DEFINE new == [Touched(t) EXCEPT !.state = "locked"]
    <3>1. new \in TimelineRecord /\ new.master = timelines[t].master /\ new.clips = timelines[t].clips
      BY TouchedFacts DEF TimelineRecord
    <3>2. timelines' = [timelines EXCEPT ![t] = new] /\ Approved(timelines[t].clips)
          /\ timelines[t].state # "locked"
      BY <2>2 DEF LockTimeline
    <3>. HIDE DEF new
    <3>. QED
      BY <3>1, <3>2, WrittenTimeline DEF TimelineRecord
  <2>. QED
    BY <2>1, <2>2 DEF TimelineRecord
<1>2. UNCHANGED <<renders, renderedFor, details, attested, packages, media>>
  BY DEF SaveTimeline, LockTimeline, ledgerVars
<1>3. MasterIsOfItsTimeline'
  BY <1>1, <1>2 DEF DeskInv, ReleaseIsReviewed, MasterIsOfItsTimeline, Approved
<1>4. PackageWasApproved'
  <2>1. \A k \in Package : packages[k] # NoPackage => packages[k].timeline \in Timeline
    BY DEF DeskInv
  <2>. QED
    BY <1>1, <1>2, <2>1 DEF DeskInv, ReleaseIsReviewed, PackageWasApproved, Approved
<1>5. /\ lockedOver' \in [Timeline -> SUBSET Proposal]
      /\ \A u \in Timeline : \A p \in lockedOver'[u] : <<p, u>> \in depends'
  <2>1. CASE LockTimeline(t)
    <3>1. ActiveCanon \subseteq Proposal
      BY DEF ActiveCanon
    <3>2. PICK done \in BOOLEAN : /\ depends' = IF done THEN WithEdges(ActiveCanon, t) ELSE depends
                                  /\ lockedOver' = [lockedOver EXCEPT ![t] = IF done THEN ActiveCanon ELSE {}]
      BY <2>1 DEF LockTimeline, Register
    <3>. QED
      BY <3>1, <3>2 DEF DeskInv, WithEdges
  <2>2. CASE \E clips \in SUBSET Asset : SaveTimeline(t, clips)
    BY <2>2 DEF SaveTimeline, DeskInv, ledgerVars
  <2>. QED
    BY <2>1, <2>2
<1>6. MadeFromReviewed' /\ \A r \in Render : OfReviewed(renders[r].of)'
  <2>1. \A u \in Timeline : timelines[u].state = "locked" => timelines'[u].state = "locked"
    BY <1>1
  <2>2. \A x : OfReviewed(x) => OfReviewed(x)'
    BY <1>2, <2>1, ReviewedStays
  <2>. QED
    BY <1>2, <2>2 DEF DeskInv, ReleaseIsReviewed, MadeFromReviewed
<1>. QED
  BY <1>1, <1>2, <1>3, <1>4, <1>5, <1>6 DEF DeskInv, ReleaseIsReviewed

(* The end of a render: the new file is a master of the timeline that was  *)
(* rendered, wherever it is attached.                                      *)
LEMMA FinishKeepsDesk ==
  ASSUME DeskInv, MediaInv, NEW r \in Render, NEW a \in Asset, FinishRender(r, a)
  PROVE  DeskInv'
<1>. DEFINE t == renders[r].of
<1>1. t \in Timeline /\ t # "none" /\ media[a] = "none" /\ a # "none"
  BY DeskAssumption DEF FinishRender, RegisterAssembled
<1>2. /\ timelines' \in [Timeline -> [state : {"none", "draft", "locked"}, version : Nat,
                                      clips : SUBSET Asset, master : Asset \cup {"none"}]]
      /\ \A u \in Timeline : /\ timelines'[u].state = timelines[u].state
                             /\ timelines'[u].clips = timelines[u].clips
                             /\ timelines'[u].master = timelines[u].master
                                  \/ (u = t /\ timelines'[u].master = a)
  <2>1. CASE timelines' = timelines
    BY <2>1 DEF DeskInv
  <2>2. CASE timelines' = [timelines EXCEPT ![t] = [Touched(t) EXCEPT !.master = a]]
    <3>. DEFINE new == [Touched(t) EXCEPT !.master = a]
    <3>1. /\ new \in TimelineRecord /\ new.state = timelines[t].state
          /\ new.clips = timelines[t].clips /\ new.master = a
      BY <1>1, TouchedFacts DEF TimelineRecord
    <3>. HIDE DEF new
    <3>2. /\ timelines' \in [Timeline -> TimelineRecord] /\ timelines'[t] = new
          /\ \A u \in Timeline : u # t => timelines'[u] = timelines[u]
      BY <1>1, <2>2, <3>1, WrittenTimeline DEF new
    <3>. QED
      BY <3>1, <3>2 DEF TimelineRecord
  <2>. QED
    BY <2>1, <2>2 DEF FinishRender
<1>3. /\ media'[a] = "candidate" /\ \A b \in Asset : b # a => media'[b] = media[b]
      /\ \A b \in Asset : media[b] = "approved" => b # a
  BY <1>1 DEF FinishRender, RegisterAssembled, MediaInv
<1>4. /\ renderedFor' \in [Asset -> Timeline \cup Asset \cup {"none"}] /\ renderedFor'[a] = t
      /\ \A b \in Asset : b # a => renderedFor'[b] = renderedFor[b]
  BY <1>1 DEF FinishRender, DeskInv
<1>5. \A u \in Timeline : /\ timelines[u].master # "none" => timelines[u].master # a /\ timelines[u].master \in Asset
                         /\ \A b \in timelines[u].clips : b \in Asset
  BY <1>1 DEF DeskInv
<1>6. MasterIsOfItsTimeline'
  <2>. SUFFICES ASSUME NEW u \in Timeline
                PROVE  /\ timelines'[u].master # "none" => renderedFor'[timelines'[u].master] = u
                       /\ \A b \in timelines'[u].clips : media'[b] = "approved"
    BY DEF MasterIsOfItsTimeline, Approved
  <2>1. /\ timelines[u].master # "none" => renderedFor[timelines[u].master] = u
        /\ \A b \in timelines[u].clips : media[b] = "approved"
    BY DEF DeskInv, ReleaseIsReviewed, MasterIsOfItsTimeline, Approved
  <2>2. timelines'[u].clips = timelines[u].clips
    BY <1>2
  <2>3. \A b \in timelines[u].clips : media'[b] = "approved"
    BY <1>3, <1>5, <2>1
  <2>4. timelines'[u].master # "none" => renderedFor'[timelines'[u].master] = u
    BY <1>1, <1>2, <1>4, <1>5, <2>1
  <2>. QED
    BY <2>2, <2>3, <2>4
<1>7. PackageWasApproved'
  <2>1. \A k \in Package : packages[k] # NoPackage =>
          /\ packages[k].timeline \in Timeline
          /\ {packages[k].master, packages[k].thumbnail} \cup packages[k].captions \subseteq Asset
    BY DEF DeskInv
  <2>. QED
    BY <1>2, <1>3, <2>1 DEF FinishRender, DeskInv, ReleaseIsReviewed, PackageWasApproved, Approved
<1>8. \A u \in Timeline : timelines'[u].master # "none" => media'[timelines'[u].master] # "none"
  BY <1>2, <1>3, <1>5 DEF DeskInv
<1>9. /\ renders' \in [Render -> [of : Timeline \cup Asset \cup {"none"}, expected : Nat]]
      /\ \A q \in Render : renders'[q] = renders[q] \/ renders'[q] = NoRender
  <2>1. NoRender \in [of : Timeline \cup Asset \cup {"none"}, expected : Nat]
    BY DEF NoRender
  <2>. QED
    BY <2>1 DEF FinishRender, DeskInv
<1>10. MadeFromReviewed' /\ \A q \in Render : OfReviewed(renders[q].of)'
  <2>1. \A x : OfReviewed(x) => OfReviewed(x)'
    BY <1>2, <1>3, ReviewedStays
  <2>2. \A b \in Asset : OfReviewed(renderedFor'[b])
    BY <1>4 DEF DeskInv, ReleaseIsReviewed, MadeFromReviewed
  <2>. QED
    BY <1>9, <2>1, <2>2, NothingIsReviewed DEF DeskInv, MadeFromReviewed
<1>11. UNCHANGED <<lockedOver, details, attested, packages, depends>>
  BY DEF FinishRender, RegisterAssembled
<1>. QED
  BY <1>2, <1>4, <1>6, <1>7, <1>8, <1>9, <1>10, <1>11 DEF DeskInv, ReleaseIsReviewed

(* A thumbnail or captions enter: they are no master yet attached, and     *)
(* what they were made from was reviewed.                                  *)
LEMMA AssembledKeepsDesk ==
  ASSUME DeskInv, MediaInv, NEW a \in Asset, NEW x \in Timeline \cup Asset, OfReviewed(x),
         RegisterAssembled(a), renderedFor' = [renderedFor EXCEPT ![a] = x],
         \A q \in Render : renders'[q] = renders[q] \/ renders'[q] = NoRender,
         renders' \in [Render -> [of : Timeline \cup Asset \cup {"none"}, expected : Nat]],
         UNCHANGED <<timelines, lockedOver, details, attested, packages>>
  PROVE  DeskInv'
<1>1. /\ media'[a] = "candidate" /\ \A b \in Asset : b # a => media'[b] = media[b]
      /\ media[a] = "none" /\ ReviewsStay /\ UNCHANGED depends
  BY CandidateKeepsMedia DEF RegisterAssembled, MediaInv
<1>2. /\ renderedFor' \in [Asset -> Timeline \cup Asset \cup {"none"}] /\ renderedFor'[a] = x
      /\ \A b \in Asset : b # a => renderedFor'[b] = renderedFor[b]
  BY DEF DeskInv
<1>3. \A t \in Timeline : timelines[t].master # "none" => timelines[t].master # a /\ timelines[t].master \in Asset
  BY <1>1 DEF DeskInv
<1>4. MasterIsOfItsTimeline'
  <2>. SUFFICES ASSUME NEW t \in Timeline
                PROVE  /\ timelines[t].master # "none" => renderedFor'[timelines[t].master] = t
                       /\ \A b \in timelines[t].clips : media'[b] = "approved"
    BY DEF MasterIsOfItsTimeline, Approved
  <2>1. timelines[t].clips \subseteq Asset
    BY DEF DeskInv
  <2>. QED
    BY <1>1, <1>2, <1>3, <2>1 DEF DeskInv, ReleaseIsReviewed, MasterIsOfItsTimeline, Approved, ReviewsStay
<1>5. PackageWasApproved'
  <2>1. \A k \in Package : packages[k] # NoPackage =>
          {packages[k].master, packages[k].thumbnail} \cup packages[k].captions \subseteq Asset
    BY DEF DeskInv
  <2>. QED
    BY <1>1, <2>1 DEF DeskInv, ReleaseIsReviewed, PackageWasApproved, Approved, ReviewsStay
<1>6. \A t \in Timeline : timelines'[t].master # "none" => media'[timelines'[t].master] # "none"
  BY <1>1, <1>3 DEF DeskInv
<1>7. MadeFromReviewed' /\ \A q \in Render : OfReviewed(renders[q].of)'
  <2>1. \A y : OfReviewed(y) => OfReviewed(y)'
    BY <1>1, ReviewedStays DEF ReviewsStay
  <2>2. \A b \in Asset : OfReviewed(renderedFor'[b])
    BY <1>2 DEF DeskInv, ReleaseIsReviewed, MadeFromReviewed
  <2>. QED
    BY <2>1, <2>2, NothingIsReviewed DEF DeskInv, MadeFromReviewed
<1>. QED
  BY <1>1, <1>2, <1>4, <1>5, <1>6, <1>7 DEF DeskInv, ReleaseIsReviewed

(* Renders that start or are lost, details and attestations.               *)
LEMMA OthersKeepDesk ==
  ASSUME DeskInv, \/ \E r \in Render : LoseRender(r) \/ \E t \in Timeline : StartRender(r, t)
                  \/ \E r \in Render, frame \in Asset : StartThumbnail(r, frame)
                  \/ SaveDetails \/ Attest
  PROVE  DeskInv' /\ UNCHANGED ledgerVars
<1>1. UNCHANGED <<timelines, lockedOver, renderedFor, packages, ledgerVars>>
  BY DEF LoseRender, StartRender, StartThumbnail, SaveDetails, Attest
<1>2. UNCHANGED <<media, depends>>
  BY <1>1 DEF ledgerVars
<1>3. \A x : OfReviewed(x) => OfReviewed(x)'
  BY <1>1, <1>2, ReviewedStays
<1>4. ReleaseIsReviewed'
  <2>1. MasterIsOfItsTimeline' /\ PackageWasApproved'
    BY <1>1, <1>2 DEF DeskInv, ReleaseIsReviewed, MasterIsOfItsTimeline, PackageWasApproved, Approved
  <2>2. MadeFromReviewed'
    BY <1>1, <1>3 DEF DeskInv, ReleaseIsReviewed, MadeFromReviewed
  <2>. QED
    BY <2>1, <2>2 DEF ReleaseIsReviewed
<1>5. /\ renders' \in [Render -> [of : Timeline \cup Asset \cup {"none"}, expected : Nat]]
      /\ \A q \in Render : OfReviewed(renders[q].of)'
  <2>. DEFINE RenderRecord == [of : Timeline \cup Asset \cup {"none"}, expected : Nat]
  <2>1. ASSUME NEW r \in Render, NEW new \in RenderRecord, OfReviewed(new.of),
               renders' = [renders EXCEPT ![r] = new]
        PROVE  /\ renders' \in [Render -> RenderRecord]
               /\ \A q \in Render : OfReviewed(renders[q].of)'
    <3>1. renders' \in [Render -> RenderRecord] /\ \A q \in Render : renders'[q] = renders[q] \/ renders'[q] = new
      BY <2>1 DEF DeskInv
    <3>2. \A q \in Render : OfReviewed(renders'[q].of)
      BY <2>1, <3>1 DEF DeskInv
    <3>. QED
      BY <1>3, <3>1, <3>2
  <2>2. CASE \E r \in Render : LoseRender(r)
    <3>1. NoRender \in RenderRecord
      BY DEF NoRender
    <3>. QED
      BY <2>1, <2>2, <3>1, NothingIsReviewed DEF LoseRender
  <2>3. ASSUME NEW r \in Render, NEW t \in Timeline, StartRender(r, t)
        PROVE  /\ renders' \in [Render -> RenderRecord]
               /\ \A q \in Render : OfReviewed(renders[q].of)'
    <3>. DEFINE new == [of |-> t, expected |-> timelines[t].version]
    <3>1. new \in RenderRecord /\ OfReviewed(new.of)
      BY <2>3, DeskAssumption DEF StartRender, DeskInv, OfReviewed
    <3>. QED
      BY <2>1, <2>3, <3>1 DEF StartRender
  <2>4. ASSUME NEW r \in Render, NEW frame \in Asset, StartThumbnail(r, frame)
        PROVE  /\ renders' \in [Render -> RenderRecord]
               /\ \A q \in Render : OfReviewed(renders[q].of)'
    <3>. DEFINE new == [of |-> frame, expected |-> 0]
    <3>1. new \in RenderRecord /\ OfReviewed(new.of)
      BY <2>4, DeskAssumption DEF StartThumbnail, OfReviewed
    <3>. QED
      BY <2>1, <2>4, <3>1 DEF StartThumbnail
  <2>5. CASE SaveDetails \/ Attest
    BY <1>3, <2>5 DEF SaveDetails, Attest, DeskInv
  <2>. QED
    BY <2>2, <2>3, <2>4, <2>5
<1>6. details' \in Nat /\ attested' \subseteq Nat
  <2>1. CASE SaveDetails \/ Attest
    BY <2>1 DEF SaveDetails, Attest, DeskInv
  <2>2. CASE UNCHANGED <<details, attested>>
    BY <2>2 DEF DeskInv
  <2>. QED
    BY <2>1, <2>2 DEF LoseRender, StartRender, StartThumbnail
<1>. QED
  BY <1>1, <1>2, <1>4, <1>5, <1>6 DEF DeskInv

(* A package takes a locked timeline and approved files.                   *)
LEMMA PackageKeepsDesk ==
  ASSUME DeskInv, NEW k \in Package, NEW t \in Timeline, NEW m \in Asset, NEW h \in Asset,
         NEW subs \in SUBSET Asset, LockPackage(k, t, m, h, subs), depends \subseteq depends'
  PROVE  DeskInv'
<1>0. PICK done \in BOOLEAN : packages' = [packages EXCEPT ![k] =
        [timeline |-> t, master |-> m, thumbnail |-> h, captions |-> subs, details |-> details,
         attested |-> attested, whole |-> done]]
  BY DEF LockPackage
<1>. DEFINE new == [timeline |-> t, master |-> m, thumbnail |-> h, captions |-> subs, details |-> details,
                    attested |-> attested, whole |-> done]
<1>1. /\ UNCHANGED <<timelines, lockedOver, renders, renderedFor, details, attested, media>>
      /\ packages' = [packages EXCEPT ![k] = new]
  BY <1>0 DEF LockPackage
<1>2. new \in [timeline : Timeline, master : Asset, thumbnail : Asset, captions : SUBSET Asset,
               details : Nat, attested : SUBSET Nat, whole : BOOLEAN]
  BY DEF DeskInv
<1>3. /\ packages'[k] = new /\ \A i \in Package : i # k => packages'[i] = packages[i]
      /\ packages' = [i \in Package |-> packages'[i]]
  BY <1>1, Zenon DEF DeskInv
<1>4. MasterIsOfItsTimeline' /\ PackageWasApproved'
  BY <1>1, <1>3 DEF LockPackage, DeskInv, ReleaseIsReviewed, MasterIsOfItsTimeline, PackageWasApproved,
                    Approved
<1>5. MadeFromReviewed' /\ \A r \in Render : OfReviewed(renders[r].of)'
  BY <1>1 DEF DeskInv, ReleaseIsReviewed, MadeFromReviewed, OfReviewed, Approved
<1>. QED
  BY <1>1, <1>2, <1>3, <1>4, <1>5 DEF DeskInv, ReleaseIsReviewed

-----------------------------------------------------------------------------
(* Every step of the ledger keeps the ledger, and what was approved.       *)
LEMMA LedgerStepKeeps ==
  ASSUME CanonInv, MediaInv, LedgerNext
  PROVE  CanonInv' /\ MediaInv' /\ ReviewsStay /\ depends \subseteq depends'
<1>1. ASSUME NEW p \in Proposal, Promote(p)
      PROVE  CanonInv' /\ MediaInv' /\ ReviewsStay /\ depends \subseteq depends'
  <2>1. UNCHANGED <<depends, media, maker, jobs, overlooked>>
    BY <1>1 DEF Promote
  <2>. QED
    BY <1>1, <2>1, PromoteKeepsCanon DEF MediaInv, ReviewedJobSucceeds, Outputs, Approved, ReviewsStay
<1>2. ASSUME UNCHANGED <<canon, revision, depends, stale>>
      PROVE  CanonInv' /\ depends \subseteq depends'
  BY <1>2 DEF CanonInv, NamesAreHeld, ActiveFor, ActiveCanon, CanonIsSound, CanonIsAChain, StaleIsExact
<1>3. CASE \E a \in Asset : ImportMedia(a) \/ \E s \in SUBSET Asset : AssembleMedia(a, s)
  BY <1>2, <1>3, CandidateKeepsMedia DEF ImportMedia, AssembleMedia, RegisterAssembled
<1>4. CASE \E a \in Asset, d \in Decision : ReviewMedia(a, d)
  <2>1. UNCHANGED <<canon, revision, depends, stale>>
    BY <1>4 DEF ReviewMedia
  <2>. QED
    BY <1>2, <1>4, <2>1, ReviewKeepsMedia
<1>5. ASSUME NEW j \in Job, NEW i \in SUBSET Asset, NEW c \in SUBSET Proposal, NEW r \in SUBSET Asset,
             PlanJob(j, i, c, r)
      PROVE  CanonInv' /\ MediaInv' /\ ReviewsStay /\ depends \subseteq depends'
  <2>1. c \in SUBSET ActiveCanon /\ depends' = WithEdges(c, j) /\ UNCHANGED <<canon, revision, stale>>
    BY <1>5 DEF PlanJob
  <2>. QED
    BY <1>5, <2>1, EdgesKeepCanon, PlanKeepsMedia
<1>6. CASE \E j \in Job : AwaitReview(j) \/ \E a \in Asset : ReceiveOutput(j, a)
  <2>1. UNCHANGED <<canon, revision, depends, stale>>
    BY <1>6 DEF AwaitReview, ReceiveOutput
  <2>. QED
    BY <1>2, <1>6, <2>1, OutputKeepsMedia, WaitKeepsMedia
<1>. QED
  BY <1>1, <1>3, <1>4, <1>5, <1>6 DEF LedgerNext
-----------------------------------------------------------------------------
(* An empty ledger and an empty desk.                                      *)
LEMMA ReleaseInitially == DeskInit => ReleaseInv
<1>. SUFFICES ASSUME DeskInit PROVE ReleaseInv
  OBVIOUS
<1>1. CanonInv
  BY DEF DeskInit, LedgerInit, CanonInv, NamesAreHeld, CanonIsSound, CanonIsAChain, StaleIsExact
<1>2. MediaInv
  BY DEF DeskInit, LedgerInit, MediaInv, MediaState, NoJobYet, ReviewedJobSucceeds
<1>3. DeskInv
  BY DeskAssumption DEF DeskInit, DeskInv, NoTimeline, NoRender, ReleaseIsReviewed, MasterIsOfItsTimeline,
         PackageWasApproved, MadeFromReviewed, OfReviewed, Approved
<1>. QED
  BY <1>1, <1>2, <1>3 DEF ReleaseInv

(* Every step of the ledger or the desk keeps the invariant.               *)
LEMMA ReleaseStep == ReleaseInv /\ [DeskNext]_<<ledgerVars, deskVars>> => ReleaseInv'
<1>. SUFFICES ASSUME CanonInv, MediaInv, DeskInv, [DeskNext]_<<ledgerVars, deskVars>>
              PROVE  CanonInv' /\ MediaInv' /\ DeskInv'
  BY DEF ReleaseInv
<1>1. UNCHANGED ledgerVars => CanonInv' /\ MediaInv'
  BY DEF ledgerVars, CanonInv, MediaInv, NamesAreHeld, ActiveFor, ActiveCanon, CanonIsSound, CanonIsAChain,
         StaleIsExact, ReviewedJobSucceeds, Outputs, Approved
<1>2. UNCHANGED <<media, maker, jobs, overlooked>> => MediaInv'
  BY DEF MediaInv, ReviewedJobSucceeds, Outputs, Approved
<1>3. ASSUME NEW consumer, NEW done \in BOOLEAN, Register(consumer, done), UNCHANGED <<canon, revision, stale>>
      PROVE  CanonInv' /\ depends \subseteq depends'
  BY <1>3, EdgesKeepCanon DEF Register
<1>4. CASE LedgerStep
  BY <1>4, LedgerStepKeeps, ReviewsKeepDesk DEF LedgerStep
<1>5. ASSUME NEW t \in Timeline, NEW clips \in SUBSET Asset, SaveTimeline(t, clips)
      PROVE  CanonInv' /\ MediaInv' /\ DeskInv'
  <2>1. UNCHANGED ledgerVars
    BY <1>5 DEF SaveTimeline
  <2>. QED
    BY <1>1, <1>5, <2>1, TimelineKeepsDesk
<1>6. ASSUME NEW t \in Timeline, LockTimeline(t)
      PROVE  CanonInv' /\ MediaInv' /\ DeskInv'
  <2>1. (\E done \in BOOLEAN : Register(t, done)) /\ UNCHANGED <<canon, revision, stale>> /\ UNCHANGED <<media, maker, jobs, overlooked>>
    BY <1>6 DEF LockTimeline
  <2>. QED
    BY <1>2, <1>3, <1>6, <2>1, TimelineKeepsDesk
<1>7. ASSUME NEW k \in Package, NEW t \in Timeline, NEW m \in Asset, NEW h \in Asset, NEW subs \in SUBSET Asset,
             LockPackage(k, t, m, h, subs)
      PROVE  CanonInv' /\ MediaInv' /\ DeskInv'
  <2>1. (\E done \in BOOLEAN : Register(k, done)) /\ UNCHANGED <<canon, revision, stale>> /\ UNCHANGED <<media, maker, jobs, overlooked>>
    BY <1>7 DEF LockPackage
  <2>. QED
    BY <1>2, <1>3, <1>7, <2>1, PackageKeepsDesk
<1>8. ASSUME NEW r \in Render, NEW a \in Asset, FinishRender(r, a)
      PROVE  CanonInv' /\ MediaInv' /\ DeskInv'
  <2>1. UNCHANGED <<canon, revision, depends, stale>>
    BY <1>8 DEF FinishRender, RegisterAssembled
  <2>2. MediaInv'
    BY <1>8, CandidateKeepsMedia DEF FinishRender, RegisterAssembled
  <2>3. CanonInv'
    BY <2>1 DEF CanonInv, NamesAreHeld, ActiveFor, ActiveCanon, CanonIsSound, CanonIsAChain, StaleIsExact
  <2>. QED
    BY <1>8, <2>2, <2>3, FinishKeepsDesk
<1>9. CASE \/ \E r \in Render : LoseRender(r) \/ \E t \in Timeline : StartRender(r, t)
           \/ \E r \in Render, frame \in Asset : StartThumbnail(r, frame)
           \/ SaveDetails \/ Attest
  BY <1>1, <1>9, OthersKeepDesk
<1>10. CASE UNCHANGED <<ledgerVars, deskVars>>
  <2>1. ReviewsStay /\ depends \subseteq depends'
    BY <1>10 DEF ReviewsStay, ledgerVars
  <2>. QED
    BY <1>1, <1>10, <2>1, ReviewsKeepDesk
<1>11. ASSUME NEW a \in Asset, RegisterAssembled(a)
       PROVE  CanonInv' /\ MediaInv'
  <2>1. UNCHANGED <<canon, revision, depends, stale>>
    BY <1>11 DEF RegisterAssembled
  <2>2. CanonInv'
    BY <2>1 DEF CanonInv, NamesAreHeld, ActiveFor, ActiveCanon, CanonIsSound, CanonIsAChain, StaleIsExact
  <2>. QED
    BY <1>11, <2>2, CandidateKeepsMedia DEF RegisterAssembled
<1>12. ASSUME NEW r \in Render, NEW a \in Asset, FinishThumbnail(r, a)
       PROVE  CanonInv' /\ MediaInv' /\ DeskInv'
  <2>1. /\ RegisterAssembled(a) /\ renders[r].of \in Timeline \cup Asset /\ OfReviewed(renders[r].of)
        /\ renderedFor' = [renderedFor EXCEPT ![a] = renders[r].of]
        /\ UNCHANGED <<timelines, lockedOver, details, attested, packages>>
    BY <1>12 DEF FinishThumbnail, DeskInv
  <2>2. /\ renders' \in [Render -> [of : Timeline \cup Asset \cup {"none"}, expected : Nat]]
        /\ \A q \in Render : renders'[q] = renders[q] \/ renders'[q] = NoRender
    <3>1. NoRender \in [of : Timeline \cup Asset \cup {"none"}, expected : Nat]
      BY DEF NoRender
    <3>. QED
      BY <1>12, <3>1 DEF FinishThumbnail, DeskInv
  <2>. QED
    BY <1>11, <2>1, <2>2, AssembledKeepsDesk
<1>13. ASSUME NEW t \in Timeline, NEW a \in Asset, ExportCaptions(t, a)
       PROVE  CanonInv' /\ MediaInv' /\ DeskInv'
  <2>1. RegisterAssembled(a) /\ OfReviewed(t)
    BY <1>13, DeskAssumption DEF ExportCaptions, OfReviewed
  <2>2. /\ renderedFor' = [renderedFor EXCEPT ![a] = t] /\ renders' = renders
        /\ UNCHANGED <<timelines, lockedOver, details, attested, packages>>
    BY <1>13 DEF ExportCaptions
  <2>3. renders' \in [Render -> [of : Timeline \cup Asset \cup {"none"}, expected : Nat]]
    BY <2>2 DEF DeskInv
  <2>. QED
    BY <1>11, <2>1, <2>2, <2>3, AssembledKeepsDesk
<1>. QED
  BY <1>4, <1>5, <1>6, <1>7, <1>8, <1>9, <1>10, <1>12, <1>13 DEF DeskNext, SaveDraft, PackageRelease, Offered

(* Ledger and desk stay sound together, through renders that overlap and   *)
(* end late and a process that dies between a review's two transactions.   *)
THEOREM ReleaseInvariance == DeskSpec => []ReleaseInv
  BY ReleaseInitially, ReleaseStep, PTL DEF DeskSpec

(* Ledger and desk keep their types.                                       *)
THEOREM DeskTypes == DeskSpec => []DeskTypeOK
<1>1. ReleaseInv => DeskTypeOK
  BY DEF ReleaseInv, CanonInv, MediaInv, DeskInv, DeskTypeOK, LedgerTypeOK
<1>. QED
  BY <1>1, ReleaseInvariance, PTL

(* Promotions under a name form one chain of revisions with one active     *)
(* record, and an edge is stale exactly when its canon was superseded.     *)
THEOREM CanonStaysSound == DeskSpec => []CanonIsSound
<1>1. ReleaseInv => CanonIsSound
  BY DEF ReleaseInv, CanonInv
<1>. QED
  BY <1>1, ReleaseInvariance, PTL

(* reviewMedia completes a job with its last approved output, and not      *)
(* before; an approved job is left waiting only when its last approval     *)
(* came while the worker still purged its files, or the process died       *)
(* between the two transactions of this approval.                          *)
THEOREM SuccessIsReviewed == DeskSpec => []ReviewedJobSucceeds
<1>1. ReleaseInv => ReviewedJobSucceeds
  BY DEF ReleaseInv, MediaInv
<1>. QED
  BY <1>1, ReleaseInvariance, PTL

(* The master, the clips and the packaged files are ones a person          *)
(* approved, and no later decision of reviewMedia takes that back.         *)
THEOREM ReleasesAreReviewed == DeskSpec => []ReleaseIsReviewed
<1>1. ReleaseInv => ReleaseIsReviewed
  BY DEF ReleaseInv, DeskInv
<1>. QED
  BY <1>1, ReleaseInvariance, PTL

(* A timeline whose registration after lockTimeline succeeded counts as    *)
(* stale as soon as any canon it was locked over is replaced.              *)
THEOREM LockedCanonStaysTracked == DeskSpec => []LockedCanonIsTracked
<1>1. ReleaseInv => LockedCanonIsTracked
  <2>. SUFFICES ASSUME ReleaseInv, NEW t \in Timeline, NEW p \in lockedOver[t]
                PROVE  <<p, t>> \in depends /\ (canon[p] = "superseded" => <<p, t>> \in stale)
    BY DEF LockedCanonIsTracked
  <2>1. <<p, t>> \in depends
    BY DEF ReleaseInv, DeskInv
  <2>. QED
    BY <2>1 DEF ReleaseInv, CanonInv, CanonIsSound, StaleIsExact
<1>. QED
  BY <1>1, ReleaseInvariance, PTL

(* No edit, and no render that ends late, changes what lockTimeline fixed. *)
THEOREM LockedStaysFrozen == DeskSpec => LockedIsFrozen
<1>. DEFINE Frozen ==
       \A t \in Timeline : timelines[t].state = "locked" =>
         /\ timelines'[t].state = "locked"
         /\ timelines'[t].clips = timelines[t].clips
         /\ timelines[t].master # "none" => timelines'[t].master = timelines[t].master
<1>1. ReleaseInv /\ [DeskNext]_<<ledgerVars, deskVars>> => [Frozen]_<<ledgerVars, deskVars>>
  <2>. SUFFICES ASSUME DeskInv, DeskNext PROVE Frozen
    BY DEF ReleaseInv
  <2>1. ASSUME timelines' = timelines PROVE Frozen
    BY <2>1
  <2>2. ASSUME NEW u \in Timeline, NEW new, timelines[u].state # "locked",
               timelines' = [timelines EXCEPT ![u] = new]
        PROVE  Frozen
    BY <2>2 DEF DeskInv
  <2>3. ASSUME NEW r \in Render, NEW a \in Asset, FinishRender(r, a) PROVE Frozen
    <3>1. CASE Attaches(r)
      <4>. DEFINE u == renders[r].of
                  new == [Touched(u) EXCEPT !.master = a]
      <4>1. u \in Timeline
        BY <2>3 DEF FinishRender, DeskInv
      <4>2. /\ new.state = timelines[u].state /\ new.clips = timelines[u].clips
            /\ timelines[u].master = "none"
        BY <3>1, <4>1, TouchedFacts DEF Attaches, TimelineRecord
      <4>3. timelines' = [timelines EXCEPT ![u] = new]
        BY <2>3, <3>1 DEF FinishRender
      <4>. HIDE DEF new
      <4>. QED
        BY <4>1, <4>2, <4>3 DEF DeskInv
    <3>2. CASE ~ Attaches(r)
      BY <2>1, <2>3, <3>2 DEF FinishRender
    <3>. QED
      BY <3>1, <3>2
  <2>4. ASSUME NEW t \in Timeline, (\E clips \in SUBSET Asset : SaveTimeline(t, clips)) \/ LockTimeline(t)
        PROVE  Frozen
    BY <2>2, <2>4 DEF SaveTimeline, LockTimeline
  <2>5. CASE LedgerStep
    BY <2>1, <2>5 DEF LedgerStep, deskVars
  <2>6. CASE \/ \E r \in Render : LoseRender(r) \/ \E t \in Timeline : StartRender(r, t)
             \/ \E r \in Render, a \in Asset : StartThumbnail(r, a) \/ FinishThumbnail(r, a)
             \/ \E t \in Timeline, a \in Asset : ExportCaptions(t, a)
             \/ SaveDetails \/ Attest
             \/ \E t \in Timeline : \E k \in Package, m, h \in Asset, subs \in SUBSET Asset :
                  LockPackage(k, t, m, h, subs)
    BY <2>1, <2>6 DEF LoseRender, StartRender, StartThumbnail, FinishThumbnail, ExportCaptions, SaveDetails,
                      Attest, LockPackage
  <2>. HIDE DEF Frozen
  <2>. QED
    BY <2>3, <2>4, <2>5, <2>6 DEF DeskNext, SaveDraft, PackageRelease, Offered
<1>. QED
  BY <1>1, ReleaseInvariance, PTL DEF DeskSpec, LockedIsFrozen
=============================================================================
