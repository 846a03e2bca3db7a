-------------------------- MODULE MCStudioSettings --------------------------
(***************************************************************************)
(* A small instance, for TLC, of the three settings services, the guided   *)
(* screen and the window around the rooms.  They share no file and no call *)
(* so a behaviour follows one of them, chosen at first.                    *)
(***************************************************************************)
EXTENDS CloudSettings, WritingSettings, SkillRegistry, GuidedStages, StudioShell, TLC

CONSTANTS r1, r2    \* the texts two packages may have under one version

VARIABLE followed

Text(v, t, s) == [skill |-> "k", version |-> v, text |-> t, required |-> TRUE, state |-> s]
TwoVersions == {Text(1, r1, "ready"), Text(2, r2, "incompatible")}

NothingApproved == {{}}

(* One production is far enough for every one-off tool, the other for one. *)
TwoProductions == [p \in Production |->
  IF p = "lanterns" THEN UNION {StartsFrom(tool) : tool \in Tool} ELSE {"storyboard", "look"}]

settingsVars == <<followed, cloudVars, writingVars, skillVars, guidedVars, shellVars>>

SettingsInit ==
  /\ followed \in {"cloud", "writing", "skills", "guided", "shell"}
  /\ CloudInit /\ WritingInit /\ SkillInit /\ GuidedInit
  /\ ShellInit /\ (followed # "shell" => \A p \in Production : texts[p].details = NoText)

InCloud   == followed = "cloud"   /\ UNCHANGED <<followed, writingVars, skillVars, guidedVars, shellVars>>
InWriting == followed = "writing" /\ UNCHANGED <<followed, cloudVars, skillVars, guidedVars, shellVars>>
InSkills  == followed = "skills"  /\ UNCHANGED <<followed, cloudVars, writingVars, guidedVars, shellVars>>
InGuided  == followed = "guided"  /\ UNCHANGED <<followed, cloudVars, writingVars, skillVars, shellVars>>
InShell   == followed = "shell"   /\ UNCHANGED <<followed, cloudVars, writingVars, skillVars, guidedVars>>

SettingsNext ==
  \/ \E c \in CloudCall :
       \/ \E k \in CloudKey : InCloud /\ ClickConnect(c, k)
       \/ \E g \in Limits : InCloud /\ ClickSaveLimits(c, g)
       \/ InCloud /\ ClickRefresh(c)
       \/ InCloud /\ ClickDisconnect(c)
       \/ InCloud /\ FindCloudKey(c)
       \/ InCloud /\ ReadCloudKey(c)
       \/ InCloud /\ ValidateAccount(c)
       \/ InCloud /\ LoadCloudRecord(c)
       \/ InCloud /\ ListGpus(c)
       \/ InCloud /\ StoreCloudKey(c)
       \/ InCloud /\ RemoveCloudKey(c)
       \/ InCloud /\ SaveCloudRecord(c)
  \/ InCloud /\ ReopenCloudPanel
  \/ InCloud /\ RestartCloud
  \/ \E c \in WritingCall :
       \/ \E p \in Provider, k \in WritingKey : InWriting /\ ConnectProvider(c, p, k)
       \/ \E p \in Provider : InWriting /\ RefreshProvider(c, p)
       \/ \E p \in Provider : InWriting /\ DisconnectProvider(c, p)
       \/ \E p \in Provider, on \in BOOLEAN : InWriting /\ SetProviderEnabled(c, p, on)
       \/ \E p \in Provider, m \in Model : InWriting /\ SaveDefaultProfile(c, p, m)
       \/ InWriting /\ FindProviderKey(c)
       \/ InWriting /\ ReadProviderKey(c)
       \/ InWriting /\ ListModels(c)
       \/ InWriting /\ LoadWritingRecord(c)
       \/ InWriting /\ ReadPreviousKey(c)
       \/ InWriting /\ StoreProviderKey(c)
       \/ InWriting /\ RemoveProviderKey(c)
       \/ InWriting /\ CheckProfile(c)
       \/ InWriting /\ SaveWritingRecord(c)
       \/ InWriting /\ RestorePreviousKey(c)
  \/ InWriting /\ ReopenWritingPanel
  \/ InWriting /\ RestartWriting
  \/ \E c \in SkillCall :
       \/ \E p \in SkillPackage : InSkills /\ InstallSkill(c, p)
       \/ \E e \in Shown, j \in SkillProject, on \in BOOLEAN :
            InSkills /\ SetSkillEnabled(c, e, j, on)
       \/ \E e \in Shown : InSkills /\ RemoveSkill(c, e)
       \/ InSkills /\ LoadForInstall(c)
       \/ InSkills /\ LoadForEnable(c)
       \/ InSkills /\ LoadForRemove(c)
       \/ InSkills /\ CopyPackage(c)
       \/ InSkills /\ WriteRegistry(c)
       \/ InSkills /\ ReturnSkillStatus(c)
  \/ InSkills /\ ReopenSkillPanel
  \/ InSkills /\ ReadForSkillPanel
  \/ InSkills /\ ShowSkillPanel
  \/ InSkills /\ RestartSkills
  \/ InGuided /\ LoadStages
  \/ InGuided /\ ShowStageContext
  \/ InGuided /\ LoseStageContext
  \/ InGuided /\ \E stage \in Stage : SelectStage(stage)
  \/ InGuided /\ ConfirmDraft
  \/ InGuided /\ AnswerQuestions
  \/ InGuided /\ ReopenStages
  \/ \E c \in Click :
       \/ InGuided /\ CreateStage(c)
       \/ InGuided /\ SaveProposal(c)
       \/ InGuided /\ TryNextModel(c)
       \/ InGuided /\ RefuseRequest(c)
       \/ InGuided /\ ListProposals(c)
       \/ InGuided /\ LoseProposals(c)
       \/ InGuided /\ PressApprove(c)
       \/ InGuided /\ PromoteStage(c)
       \/ InGuided /\ RefuseApproval(c)
       \/ InGuided /\ AdvanceStage(c)
       \/ InGuided /\ LoseAdvance(c)
  \/ \E p \in Production :
       \/ InShell /\ PressOpen(p)
       \/ InShell /\ PressRestore(p)
       \/ InShell /\ AnswerOpen(p)
       \/ InShell /\ AnswerUpdate(p)
  \/ InShell /\ PressUpdate
  \/ InShell /\ GoToLibrary
  \/ InShell /\ PlanRetake
  \/ InShell /\ RetakePlanned
  \/ InShell /\ \E a \in answers : LoseAnswer(a)
  \/ \E page \in Page :
       \/ InShell /\ Navigate(page)
       \/ InShell /\ FollowLink(page)
  \/ \E tool \in Tool : InShell /\ OpenQuickTool(tool)
  \/ InShell /\ LoadRoom
  \/ InShell /\ LoseRoom
  \/ InShell /\ TypeDetails
  \/ InShell /\ TypeProfile
  \/ InShell /\ PressSaveDetails
  \/ InShell /\ PressSaveProfile
  \/ InShell /\ AnswerSave
  \/ InShell /\ RefuseSave

SettingsSpec == SettingsInit /\ [][SettingsNext]_settingsVars

(* Every variable of the five parts keeps its type.                        *)
SettingsTypeOK == CloudTypeOK /\ WritingTypeOK /\ SkillTypeOK /\ GuidedTypeOK /\ ShellTypeOK

(* The calls of the three services have the same names.                    *)
Interchangeable == Permutations(CloudCall)
=============================================================================
