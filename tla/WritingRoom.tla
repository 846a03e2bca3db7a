---------------------------- MODULE WritingRoom ----------------------------
(***************************************************************************)
(* One paid writing request, from the Creative room's panel to the saved   *)
(* proposal: the preview and the tick in the renderer (CreativeRoom.tsx),  *)
(* generateDraft (creative-writing/src/index.ts), the save in the project  *)
(* library (project-store/src/index.ts), and the diagnostics entry the     *)
(* main process awaits before it answers (desktop main/index.ts,           *)
(* support-diagnostics/src/index.ts).                                      *)
(*                                                                         *)
(* The text of a context is its selection and the version of the project's *)
(* facts (brief, direction and approved canon) it was built from.          *)
(***************************************************************************)
EXTENDS Naturals, FiniteSets

CONSTANTS Request,      \* requests followed, each sent once
          Selection,    \* what the user can select as context
          MaxFacts,     \* changes of the project's facts that are followed
          MaxPlans,     \* changes of the attached-skill plan
          MaxTicks,     \* times the user ticks the approval box
          LogMayFail    \* TRUE: appending to the diagnostics file may fail

ASSUME RoomAssumption ==
  /\ MaxFacts \in Nat /\ MaxPlans \in Nat /\ MaxTicks \in Nat
  /\ LogMayFail \in BOOLEAN
  /\ "none" \notin Request \cup Selection

VARIABLES facts,        \* version of the brief, direction and canon on disk
          plan,         \* version of the skill plan
          panel,        \* the mounted Creative room
          requests,     \* each request and what it has read so far
          libraryBusy,  \* an exclusive library operation is running
          logBroken,    \* the diagnostics write queue has rejected once
          ticks         \* history: how often the box was ticked

roomVars == <<facts, plan, panel, requests, libraryBusy, logBroken, ticks>>

NoContext == [selection |-> "none", facts |-> 0]
Context == [selection : Selection \cup {"none"}, facts : 0..MaxFacts]

(* shown: the preview on screen; shownPlan: the plan on screen, {} before  *)
(* it has loaded; tick: 0 when the box is not ticked; waits: the request   *)
(* this panel is disabled for.                                             *)
Panel == [selection : Selection, shown : Context, shownPlan : SUBSET (0..MaxPlans),
          tick : 0..MaxTicks, waits : Request \cup {"none"}]

RequestStage == {"unsent", "sent", "planned", "called", "answered", "saved", "ended"}

Unsent == [stage |-> "unsent", shown |-> NoContext, shownPlan |-> 0, tick |-> 0,
           context |-> NoContext, plan |-> 0, paid |-> FALSE, kept |-> FALSE,
           report |-> "none"]

OpenPanel(s) == [selection |-> s, shown |-> NoContext, shownPlan |-> {}, tick |-> 0,
                 waits |-> "none"]

RoomInit ==
  /\ facts = 0 /\ plan = 0 /\ ticks = 0
  /\ \E s \in Selection : panel = OpenPanel(s)
  /\ requests = [r \in Request |-> Unsent]
  /\ libraryBusy = FALSE /\ logBroken = FALSE

-----------------------------------------------------------------------------
(* The panel.                                                              *)
Select(s) ==
  /\ panel' = [panel EXCEPT !.selection = s]
  /\ UNCHANGED <<facts, plan, ticks, requests, libraryBusy, logBroken>>

(* The effect's answer: only the last selection's preview is shown, and    *)
(* until it arrives the earlier one stays on screen.                       *)
ShowPreview ==
  /\ panel' = [panel EXCEPT !.shown = [selection |-> panel.selection, facts |-> facts]]
  /\ UNCHANGED <<facts, plan, ticks, requests, libraryBusy, logBroken>>

ShowPlan ==
  /\ panel' = [panel EXCEPT !.shownPlan = {plan}]
  /\ UNCHANGED <<facts, plan, ticks, requests, libraryBusy, logBroken>>

Tick ==
  /\ panel.tick = 0 /\ ticks < MaxTicks
  /\ ticks' = ticks + 1
  /\ panel' = [panel EXCEPT !.tick = ticks + 1]
  /\ UNCHANGED <<facts, plan, requests, libraryBusy, logBroken>>

(* generate: the validation, then one IPC call.                            *)
Generate(r) ==
  /\ requests[r] = Unsent
  /\ panel.waits = "none"
  /\ panel.shown # NoContext /\ panel.shownPlan # {} /\ panel.tick # 0
  /\ \E p \in panel.shownPlan :
       requests' = [requests EXCEPT ![r] =
         [Unsent EXCEPT !.stage = "sent", !.shown = panel.shown, !.shownPlan = p,
                        !.tick = panel.tick, !.context.selection = panel.selection]]
  /\ panel' = [panel EXCEPT !.waits = r]
  /\ UNCHANGED <<facts, plan, ticks, libraryBusy, logBroken>>

(* Another room and back: a new panel, nothing ticked, nothing awaited.    *)
ReopenRoom(s) ==
  /\ panel' = OpenPanel(s)
  /\ UNCHANGED <<facts, plan, ticks, requests, libraryBusy, logBroken>>

(* A proposal is approved in this room, or the project is edited in        *)
(* another one; a Settings call changes the attached skills.               *)
ChangeFacts ==
  /\ facts < MaxFacts
  /\ facts' = facts + 1
  /\ UNCHANGED <<plan, ticks, panel, requests, libraryBusy, logBroken>>

ChangePlan ==
  /\ plan < MaxPlans
  /\ plan' = plan + 1
  /\ UNCHANGED <<facts, ticks, panel, requests, libraryBusy, logBroken>>

-----------------------------------------------------------------------------
(* The main process.                                                       *)

(* Mutant: a success leaves the box ticked.                                *)
AnswerKeepsTick(r, report) ==
  IF panel.waits = r THEN [panel EXCEPT !.waits = "none"] ELSE panel

(* What the waiting panel does with the answer: only a success clears the  *)
(* tick.                                                                   *)
PanelAfter(r, report) ==
  IF panel.waits # r THEN panel
  ELSE [panel EXCEPT !.waits = "none", !.tick = IF report = "saved" THEN 0 ELSE @]

End(r, report) ==
  /\ requests' = [requests EXCEPT ![r].stage = "ended", ![r].report = report]
  /\ panel' = PanelAfter(r, report)

(* generateDraft up to its first await.                                    *)
BuildContext(r) ==
  /\ requests[r].stage = "sent"
  /\ requests' = [requests EXCEPT ![r].context.facts = facts, ![r].stage = "planned"]
  /\ UNCHANGED <<facts, plan, ticks, panel, libraryBusy, logBroken>>

SamePlan(r) == plan = requests[r].shownPlan

(* getPlan, the comparison with the plan of the preview, and the key; a    *)
(* plan that is not ready or a key that is gone ends the request too.      *)
CheckPlan(r) ==
  /\ requests[r].stage = "planned"
  /\ \/ /\ SamePlan(r)
        /\ requests' = [requests EXCEPT ![r].plan = plan, ![r].stage = "called"]
        /\ UNCHANGED panel
     \/ End(r, "failed")
  /\ UNCHANGED <<facts, plan, ticks, libraryBusy, logBroken>>

(* The provider answers, or refuses, or the 30..300 s timeout fires.       *)
CallProvider(r) ==
  /\ requests[r].stage = "called"
  /\ \/ /\ requests' = [requests EXCEPT ![r].paid = TRUE, ![r].stage = "answered"]
        /\ UNCHANGED panel
     \/ End(r, "failed")
  /\ UNCHANGED <<facts, plan, ticks, libraryBusy, logBroken>>

(* Mutant: the save waits for the exclusive operation.                     *)
SaveWhenFree(r) ==
  /\ requests[r].stage = "answered" /\ ~ libraryBusy
  /\ requests' = [requests EXCEPT ![r].kept = TRUE, ![r].stage = "saved"]
  /\ UNCHANGED <<facts, plan, ticks, panel, libraryBusy, logBroken>>

(* The required skills' output is checked, then saveWritingDraft: refused  *)
(* while a backup, restore or migration runs, or the write fails.          *)
SaveDraft(r) ==
  /\ requests[r].stage = "answered"
  /\ \/ /\ ~ libraryBusy
        /\ requests' = [requests EXCEPT ![r].kept = TRUE, ![r].stage = "saved"]
        /\ UNCHANGED panel
     \/ End(r, "failed")
  /\ UNCHANGED <<facts, plan, ticks, libraryBusy, logBroken>>

(* Mutant: a reported success without the saved proposal.                  *)
RecordUnsaved(r) ==
  /\ requests[r].stage \in {"answered", "saved"}
  /\ End(r, "saved")
  /\ UNCHANGED <<facts, plan, ticks, libraryBusy, logBroken>>

(* requireDiagnostics().record is awaited before the answer; one append    *)
(* that fails makes every later one fail, for the queue is a chain of      *)
(* promises.                                                               *)
RecordSaved(r) ==
  /\ requests[r].stage = "saved"
  /\ \/ ~ logBroken /\ End(r, "saved") /\ UNCHANGED logBroken
     \/ /\ logBroken \/ LogMayFail
        /\ End(r, "failed")
        /\ logBroken' = TRUE
  /\ UNCHANGED <<facts, plan, ticks, libraryBusy>>

(* Any other entry of the log fails to be appended.                        *)
LogFails ==
  /\ LogMayFail /\ ~ logBroken
  /\ logBroken' = TRUE
  /\ UNCHANGED <<facts, plan, ticks, panel, requests, libraryBusy>>

(* A backup, restore or migration begins or ends.                          *)
SwitchLibrary ==
  /\ libraryBusy' = ~ libraryBusy
  /\ UNCHANGED <<facts, plan, ticks, panel, requests, logBroken>>

RequestStep(r) ==
  BuildContext(r) \/ CheckPlan(r) \/ CallProvider(r) \/ SaveDraft(r) \/ RecordSaved(r)

RoomNext ==
  \/ \E s \in Selection : Select(s) \/ ReopenRoom(s)
  \/ ShowPreview \/ ShowPlan \/ Tick \/ ChangeFacts \/ ChangePlan
  \/ \E r \in Request : Generate(r) \/ RequestStep(r)
  \/ LogFails \/ SwitchLibrary

(* Every await of a request returns: providers have timeouts and the rest  *)
(* are file operations of the main process.                                *)
RoomFairness == \A r \in Request : WF_roomVars(RequestStep(r))

RoomSpec == RoomInit /\ [][RoomNext]_roomVars /\ RoomFairness

-----------------------------------------------------------------------------
RoomTypeOK ==
  /\ facts \in 0..MaxFacts /\ plan \in 0..MaxPlans /\ ticks \in 0..MaxTicks
  /\ panel \in Panel
  /\ requests \in [Request ->
       [stage : RequestStage, shown : Context, shownPlan : 0..MaxPlans, tick : 0..MaxTicks,
        context : Context, plan : 0..MaxPlans, paid : BOOLEAN, kept : BOOLEAN,
        report : {"none", "saved", "failed"}]]
  /\ libraryBusy \in BOOLEAN /\ logBroken \in BOOLEAN

(* The provider is only ever called with the skill plan that was on screen *)
(* when the user clicked, whatever Settings calls end in between.          *)
PlanWasShown ==
  \A r \in Request : requests[r].stage \in {"called", "answered", "saved"} \/ requests[r].kept
                      => requests[r].plan = requests[r].shownPlan

(* A second request is sent under one tick only after an earlier one was   *)
(* reported failed: "one paid text request" (CreativeRoom.tsx:796).        *)
SecondOnlyAfterFailure ==
  \A q, r \in Request :
    q # r /\ requests[q].tick = requests[r].tick /\ requests[q].tick # 0 =>
      "failed" \in {requests[q].report, requests[r].report}

(* A reported success is a saved proposal, and (while the log works) a     *)
(* reported failure saved nothing.                                         *)
ReportIsTrue ==
  \A r \in Request :
    /\ requests[r].report = "saved" => requests[r].kept
    /\ requests[r].report = "failed" /\ requests[r].kept => logBroken

(* "A writing request failed before a local proposal was saved."           *)
(* (desktop main/index.ts:907; CreativeRoom.tsx:499 "No proposal was       *)
(* saved.")                                                                *)
FailureSavedNothing ==
  \A r \in Request : requests[r].report = "failed" => ~ requests[r].kept

(* "I approve one paid text request" (CreativeRoom.tsx:796): under one     *)
(* tick at most one request is answered, and paid.                         *)
OnePaidPerTick ==
  \A q, r \in Request :
    requests[q].paid /\ requests[r].paid /\ requests[q].tick = requests[r].tick => q = r

(* "Sending only the previewed context" (CreativeRoom.tsx:474).            *)
OnlyPreviewedContext ==
  \A r \in Request : requests[r].kept => requests[r].context = requests[r].shown

(* Every request the user sends is answered, with success or an error.     *)
RequestsEnd ==
  \A r \in Request : requests[r].stage = "sent" ~> requests[r].stage = "ended"
=============================================================================
