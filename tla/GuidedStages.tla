----------------------------- MODULE GuidedStages -----------------------------
(***************************************************************************)
(* Creator Mode (renderer CreatorMode.tsx): the screen that proposes the   *)
(* next unfinished stage of a production, sends one paid request through   *)
(* the connected writing models until one answers, and makes the reviewed  *)
(* draft canon.  Calls of the main process are answered later; the creator *)
(* may choose another stage, or leave and reopen the screen, meanwhile.    *)
(***************************************************************************)
EXTENDS Naturals, FiniteSets

CONSTANTS Presses,         \* presses of "Create" and "Approve" that are followed
          Beginnings,      \* what may be approved when the screen first opens
          Elsewhere,       \* what the other rooms may approve meanwhile
          Candidates,      \* connected models, tried in this order
          ReadMayFail,     \* TRUE: reading the two workspaces may fail
          MaxReopens       \* times the screen is left and opened again

Stage == {"plan", "characters", "world", "script", "storyboard", "look", "voice", "release"}

(* actions: the kind of canon each stage's approved draft becomes.         *)
CanonKind == [stage \in Stage |->
  CASE stage = "plan"       -> "series-bible"
    [] stage = "characters" -> "character"
    [] stage = "look"       -> "visual-style"
    [] stage = "release"    -> "release-strategy"
    [] OTHER                -> stage]

(* Canon of these kinds, and an approved master video, count as progress.  *)
Made == {CanonKind[stage] : stage \in Stage} \cup {"episode-outline", "location", "master"}

ASSUME GuidedAssumption ==
  /\ Beginnings \subseteq SUBSET Made /\ Beginnings # {} /\ Elsewhere \subseteq Made
  /\ Candidates \in Nat \ {0} /\ MaxReopens \in Nat /\ ReadMayFail \in BOOLEAN
  /\ Presses \in Nat

VARIABLES approved,  \* on disk: the kinds that have an active canon record, and
                     \* "master" when a master video is approved
          drafts,    \* the writing proposals on disk
          promoted,  \* each canon record made here: <<its draft, its stage>>
          screen,    \* the mounted Creator Mode
          clicks,    \* each press and what its closure holds
          reopens    \* history: how often the screen was reopened

guidedVars == <<approved, drafts, promoted, screen, clicks, reopens>>

Click == 1..Presses
Draft == [stage : Stage, click : Click, turn : 1..Candidates]
NoDraft == [stage |-> "plan", click |-> 0, turn |-> 0]

(* flags: what counts as done.  A production may have been outlined or     *)
(* given its locations in another room.                                    *)
FlagOf(stage) == CASE stage = "plan"  -> {"series-bible", "episode-outline"}
                   [] stage = "world" -> {"world", "location"}
                   [] OTHER           -> {CanonKind[stage]}

Finished(made) == {stage \in Stage : FlagOf(stage) \cap made # {}}
Mastered(made) == "master" \in made

(* nextTextAction: the first text stage that has no canon; "voice" stands  *)
(* for none.                                                               *)
Suggested(made) ==
  LET done == Finished(made) IN
  CASE "plan" \notin done -> "plan"
    [] "plan" \in done /\ "characters" \notin done -> "characters"
    [] {"plan", "characters"} \subseteq done /\ "world" \notin done -> "world"
    [] {"plan", "characters", "world"} \subseteq done /\ "script" \notin done -> "script"
    [] {"plan", "characters", "world", "script"} \subseteq done /\ "storyboard" \notin done -> "storyboard"
    [] Stage \ {"look", "voice", "release"} \subseteq done /\ "look" \notin done -> "look"
    [] Stage \ {"release"} \subseteq done /\ Mastered(made) /\ "release" \notin done -> "release"
    [] OTHER -> "voice"

(* canOpenAction: the stages offered under "Choose a different step".      *)
Opens(stage, made) ==
  LET done == Finished(made) IN
  CASE stage = "plan" -> TRUE
    [] stage \in {"characters", "world"} -> "plan" \in done
    [] stage = "script" -> {"characters", "world"} \subseteq done
    [] stage = "storyboard" -> "script" \in done
    [] stage \in {"look", "voice"} -> "storyboard" \in done
    [] stage = "release" -> Mastered(made)

ProductionPending(made) == {"storyboard", "look", "voice"} \subseteq Finished(made) /\ ~ Mastered(made)
ProductionComplete(made) == Mastered(made) /\ "release" \in Finished(made)
CardShown(s) == ~ ProductionPending(s.known) /\ ~ ProductionComplete(s.known)

(* known, prints: the workspace last read (approved work and fingerprints  *)
(* of drafts); context: the stage whose context and skill plan are shown;  *)
(* ticked: the draft on screen when the box was ticked, NoDraft without.   *)
Fresh == [loaded |-> FALSE, known |-> {}, prints |-> {}, action |-> "plan",
          context |-> "none", fetching |-> TRUE, draft |-> NoDraft, ticked |-> NoDraft,
          busy |-> FALSE]

Unpressed == [step |-> "unpressed", stage |-> "plan", plan |-> "none", turn |-> 0,
              draft |-> NoDraft, seen |-> NoDraft, mine |-> TRUE, lost |-> FALSE]

(* Of a press that is over only a lost reading is remembered.              *)
Over(c) == [Unpressed EXCEPT !.step = "ended", !.lost = clicks[c].lost]

(* Not pressed yet, or over.                                               *)
Answered(c) == clicks[c].step \in {"unpressed", "ended"}

GuidedInit ==
  /\ approved \in Beginnings
  /\ drafts = {} /\ promoted = {}
  /\ screen = Fresh
  /\ clicks = [c \in Click |-> Unpressed]
  /\ reopens = 0

(* The preview effect runs again, and forgets the earlier request, when    *)
(* what it depends on changes.                                             *)
AfterEffect(s) ==
  IF <<s.action, ProductionPending(s.known), ProductionComplete(s.known)>>
       = <<screen.action, ProductionPending(screen.known), ProductionComplete(screen.known)>>
  THEN s ELSE [s EXCEPT !.fetching = CardShown(s)]

(* A state setter of a screen that is no longer mounted does nothing.      *)
Shows(c, s) == screen' = IF clicks[c].mine THEN AfterEffect(s) ELSE screen

(* Presses are numbered in their order.                                    *)
NextPress(c) == clicks[c] = Unpressed /\ \A d \in Click : d < c => clicks[d] # Unpressed

GuidedUnchanged == UNCHANGED <<approved, drafts, promoted, reopens>>

-----------------------------------------------------------------------------
(* The screen.                                                             *)

(* The mount effect reads both workspaces.                                 *)
LoadStages ==
  /\ ~ screen.loaded
  /\ screen' = AfterEffect([screen EXCEPT !.loaded = TRUE, !.known = approved, !.prints = drafts,
                                          !.action = Suggested(approved)])
  /\ UNCHANGED clicks /\ GuidedUnchanged

ShowStageContext ==
  /\ screen.fetching
  /\ screen' = [screen EXCEPT !.fetching = FALSE, !.context = screen.action]
  /\ UNCHANGED clicks /\ GuidedUnchanged

LoseStageContext ==
  /\ screen.fetching
  /\ screen' = [screen EXCEPT !.fetching = FALSE]
  /\ UNCHANGED clicks /\ GuidedUnchanged

(* selectAction: the tabs stay enabled while a press is answered.          *)
SelectStage(stage) ==
  /\ CardShown(screen) /\ Opens(stage, screen.known)
  /\ screen' = AfterEffect([screen EXCEPT !.context = "none", !.action = stage,
                                          !.draft = NoDraft, !.ticked = NoDraft])
  /\ UNCHANGED clicks /\ GuidedUnchanged

ConfirmDraft ==
  /\ screen.draft # NoDraft /\ screen.ticked = NoDraft
  /\ screen' = [screen EXCEPT !.ticked = screen.draft]
  /\ UNCHANGED clicks /\ GuidedUnchanged

(* prepareQuestionRevision: the answers become a change request.           *)
AnswerQuestions ==
  /\ screen.draft # NoDraft
  /\ screen' = [screen EXCEPT !.ticked = NoDraft]
  /\ UNCHANGED clicks /\ GuidedUnchanged

(* Another page and back; an approval there may have added canon, or the   *)
(* master of a production that waited for one.                             *)
ReopenStages ==
  /\ reopens < MaxReopens
  /\ reopens' = reopens + 1
  /\ screen' = Fresh
  /\ clicks' = [c \in Click |-> IF Answered(c) THEN clicks[c] ELSE [clicks[c] EXCEPT !.mine = FALSE]]
  /\ \/ UNCHANGED approved
     \/ \E kind \in Elsewhere : /\ kind = "master" => ProductionPending(approved)
                               /\ approved' = approved \cup {kind}
  /\ UNCHANGED <<drafts, promoted>>

-----------------------------------------------------------------------------
(* generate: one press, several paid requests.                             *)
CreateStageClearing(c, ticked) ==
  /\ NextPress(c)
  /\ CardShown(screen) /\ ~ screen.busy /\ screen.context # "none"
  /\ clicks' = [clicks EXCEPT ![c] = [Unpressed EXCEPT !.step = "asked", !.stage = screen.action,
                                                       !.plan = screen.context, !.turn = 1]]
  /\ screen' = [screen EXCEPT !.busy = TRUE, !.draft = NoDraft, !.ticked = ticked]
  /\ GuidedUnchanged

(* Mutant: the tick of the earlier draft is kept.                          *)
CreateKeepingTick(c) == CreateStageClearing(c, screen.ticked)

CreateStage(c) == CreateStageClearing(c, NoDraft)

(* The next candidate, or the end of the press with a message.             *)
NextCandidate(c) ==
  IF clicks[c].turn < Candidates
  THEN /\ clicks' = [clicks EXCEPT ![c].step = "asked", ![c].turn = @ + 1]
       /\ UNCHANGED screen
  ELSE /\ clicks' = [clicks EXCEPT ![c] = Over(c)]
       /\ Shows(c, [screen EXCEPT !.busy = FALSE])

(* generateDraft refuses a plan that is not the one of this task.          *)
SaveProposal(c) ==
  /\ clicks[c].step = "asked" /\ clicks[c].plan = clicks[c].stage
  /\ LET made == [stage |-> clicks[c].stage, click |-> c, turn |-> clicks[c].turn]
     IN /\ drafts' = drafts \cup {made}
        /\ Shows(c, [screen EXCEPT !.draft = made])
  /\ clicks' = [clicks EXCEPT ![c].step = "listing"]
  /\ UNCHANGED <<approved, promoted, reopens>>

(* Unavailable, timed out, rate limited, unsupported, or the call itself   *)
(* rejected.                                                               *)
TryNextModel(c) ==
  /\ clicks[c].step = "asked"
  /\ NextCandidate(c)
  /\ GuidedUnchanged

(* Every other error ends the press.                                       *)
RefuseRequest(c) ==
  /\ clicks[c].step = "asked"
  /\ clicks' = [clicks EXCEPT ![c] = Over(c)]
  /\ Shows(c, [screen EXCEPT !.busy = FALSE])
  /\ GuidedUnchanged

(* reload(true) after a proposal or before an approval without fingerprint *)
ListProposals(c) ==
  /\ clicks[c].step \in {"listing", "refreshing"}
  /\ Shows(c, [screen EXCEPT !.loaded = TRUE, !.known = approved, !.prints = drafts,
                             !.busy = IF clicks[c].step = "listing" THEN FALSE ELSE @])
  /\ clicks' = [clicks EXCEPT ![c] = Over(c)]
  /\ GuidedUnchanged

(* ... is inside the loop's try: its failure counts as the candidate's.    *)
LoseProposals(c) ==
  /\ ReadMayFail /\ clicks[c].step = "listing"
  /\ IF clicks[c].turn < Candidates
     THEN /\ clicks' = [clicks EXCEPT ![c].step = "asked", ![c].turn = @ + 1, ![c].lost = TRUE]
          /\ UNCHANGED screen
     ELSE /\ clicks' = [clicks EXCEPT ![c] = [Over(c) EXCEPT !.lost = TRUE]]
          /\ Shows(c, [screen EXCEPT !.busy = FALSE])
  /\ GuidedUnchanged

-----------------------------------------------------------------------------
(* approve.                                                                *)
PressApprove(c) ==
  /\ NextPress(c)
  /\ screen.draft # NoDraft /\ screen.ticked # NoDraft /\ screen.loaded /\ ~ screen.busy
  /\ clicks' = [clicks EXCEPT ![c] = [Unpressed EXCEPT !.stage = screen.action, !.draft = screen.draft,
        !.seen = screen.ticked,
        !.step = IF screen.draft \in screen.prints THEN "promoting" ELSE "refreshing"]]
  /\ screen' = [screen EXCEPT !.busy = screen.draft \in screen.prints]
  /\ GuidedUnchanged

(* promoteWritingDraft: a draft becomes canon once, under the kind of the  *)
(* stage on screen.                                                        *)
PromoteStage(c) ==
  /\ clicks[c].step = "promoting"
  /\ \A record \in promoted : record[1] # clicks[c].draft
  /\ promoted' = promoted \cup {<<clicks[c].draft, clicks[c].stage>>}
  /\ approved' = approved \cup {CanonKind[clicks[c].stage]}
  /\ clicks' = [clicks EXCEPT ![c].step = "advancing"]
  /\ Shows(c, [screen EXCEPT !.draft = NoDraft, !.ticked = NoDraft])
  /\ UNCHANGED <<drafts, reopens>>

RefuseApproval(c) ==
  /\ clicks[c].step = "promoting"
  /\ clicks' = [clicks EXCEPT ![c] = Over(c)]
  /\ Shows(c, [screen EXCEPT !.busy = FALSE])
  /\ GuidedUnchanged

(* reload(false): the next unfinished stage.                               *)
AdvanceStage(c) ==
  /\ clicks[c].step = "advancing"
  /\ clicks' = [clicks EXCEPT ![c] = Over(c)]
  /\ Shows(c, [screen EXCEPT !.known = approved, !.prints = drafts, !.context = "none",
                             !.action = Suggested(approved), !.busy = FALSE])
  /\ GuidedUnchanged

(* ... is outside any try: the screen stays busy when it fails.            *)
LoseAdvance(c) ==
  /\ ReadMayFail /\ clicks[c].step \in {"advancing", "refreshing"}
  /\ clicks' = [clicks EXCEPT ![c] = [Over(c) EXCEPT !.lost = TRUE]]
  /\ UNCHANGED screen
  /\ GuidedUnchanged

GuidedNext ==
  \/ LoadStages \/ ShowStageContext \/ LoseStageContext
  \/ \E stage \in Stage : SelectStage(stage)
  \/ ConfirmDraft \/ AnswerQuestions \/ ReopenStages
  \/ \E c \in Click :
       \/ CreateStage(c) \/ SaveProposal(c) \/ TryNextModel(c) \/ RefuseRequest(c)
       \/ ListProposals(c) \/ LoseProposals(c)
       \/ PressApprove(c) \/ PromoteStage(c) \/ RefuseApproval(c) \/ AdvanceStage(c) \/ LoseAdvance(c)

GuidedSpec == GuidedInit /\ [][GuidedNext]_guidedVars

-----------------------------------------------------------------------------
GuidedTypeOK ==
  /\ approved \subseteq Made /\ drafts \subseteq Draft
  /\ promoted \subseteq Draft \X Stage
  /\ screen.known \subseteq approved /\ screen.prints \subseteq drafts
  /\ screen.draft \in drafts \cup {NoDraft} /\ screen.ticked \in drafts \cup {NoDraft}
  /\ \A c \in Click : clicks[c].turn \in 0..Candidates

(* One press of Create leaves one proposal, and what is approved is the    *)
(* draft that was on screen when the box was ticked -- as long as no       *)
(* reading of the workspace failed after a proposal was saved.             *)
TickIsForItsDraft ==
  \A c \in Click :
    /\ clicks[c].draft = clicks[c].seen \/ clicks[clicks[c].draft.click].lost
    /\ \A d, e \in drafts : d.click = c /\ e.click = c /\ d # e => clicks[c].lost

(* "The creator reviewed this exact guided-stage proposal and approved it" *)
(* (CreatorMode.tsx:599).                                                  *)
ApprovedWasReviewed == \A c \in Click : clicks[c].step = "advancing" => clicks[c].draft = clicks[c].seen

(* ARCHITECTURE.md:177, only a model that did not answer passes the turn   *)
(* to the next one.                                                        *)
OneProposalPerClick == \A d, e \in drafts : d.click = e.click => d = e

(* A canon record has the kind its draft was written for.                  *)
StageIsItsDraft == \A record \in promoted : record[1].stage = record[2]

(* A screen is busy only while one of its own presses is answered.         *)
BusyEnds ==
  screen.busy => \E c \in Click : clicks[c].mine /\ ~ Answered(c)

(* While a stage is proposed, its context is shown or on its way.          *)
ContextArrives == CardShown(screen) => screen.context # "none" \/ screen.fetching
=============================================================================
