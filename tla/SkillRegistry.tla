---------------------------- MODULE SkillRegistry ----------------------------
(***************************************************************************)
(* The creative-skill registry (skill-runtime/src/index.ts, the panel      *)
(* SkillSetup.tsx).  A package is declarative text; installing one stores  *)
(* it and enters it, with no project granted, in a registry file that each *)
(* call loads, changes and writes back across awaits.                      *)
(***************************************************************************)
EXTENDS Naturals, FiniteSets

CONSTANTS SkillPackage,       \* records [skill, version, text, required, state]
          SkillProject,  \* projects that may be granted a skill
          SkillCall      \* service calls that may be in flight at once

ASSUME SkillAssumption ==
  /\ "none" \notin SkillCall
  /\ \A p \in SkillPackage : p.state \in {"ready", "incompatible", "permission-blocked"}

VARIABLES skillLeft,    \* history: the user left the panel during a call
          skillMissed,  \* history: the panel was not told what is installed
          registry,     \* registry.json: at most one entry per skill
          packageFiles, \* packages/<skill>/<version>/<sha256>.json
          skillCalls,   \* where each call is, and what it has loaded
          skillBusy,    \* the call the mounted panel waits for
          skillPanel,   \* the entries the panel shows
          skillOpening, \* the registry a panel being opened has read, if any
          grants,       \* history: <<package shown, project>> of the ticks
          enabled,      \* history: <<package installed, project>> of the ticks
          removals      \* history: skills removed and not installed since

skillVars == <<skillLeft, skillMissed, registry, packageFiles, skillCalls, skillBusy, skillPanel,
               skillOpening, grants, enabled, removals>>

Entry == [package : SkillPackage, projects : SUBSET SkillProject]
Registries == {r \in SUBSET Entry :
                 \A e, f \in r : e.package.skill = f.package.skill => e = f}
Skill == {p.skill : p \in SkillPackage}

SkillStage == {"unused", "load", "copy", "write", "status"}
UnusedSkillCall == [kind |-> "none", stage |-> "unused", subject |-> {}, project |-> {},
                    on |-> FALSE, loaded |-> {}]

SkillInit ==
  /\ skillLeft = FALSE /\ skillMissed = FALSE
  /\ registry = {}
  /\ packageFiles = {}
  /\ skillCalls = [c \in SkillCall |-> UnusedSkillCall]
  /\ skillBusy = "none"
  /\ skillPanel = {} /\ skillOpening = {}
  /\ grants = {} /\ enabled = {}
  /\ removals = {}

EntriesOf(r, s) == {e \in r : e.package.skill = s}
SkillOf(c) == (CHOOSE p \in skillCalls[c].subject : TRUE).skill

CallIs(c, kind, s) == skillCalls[c].kind = kind /\ skillCalls[c].stage = s
SkillTo(c, s) == [skillCalls[c] EXCEPT !.stage = s]

BeginSkillCall(c, call) ==
  /\ skillCalls[c] = UnusedSkillCall
  /\ skillBusy = "none"
  /\ skillCalls' = [skillCalls EXCEPT ![c] = call]
  /\ skillBusy' = c
  /\ UNCHANGED <<skillLeft, skillMissed, skillPanel, skillOpening>>

StepSkillCall(c, call) ==
  /\ skillCalls' = [skillCalls EXCEPT ![c] = call]
  /\ UNCHANGED <<skillBusy, skillLeft, skillMissed, skillPanel, skillOpening>>

EndSkillCall(c) ==
  /\ skillCalls' = [skillCalls EXCEPT ![c] = UnusedSkillCall]
  /\ skillBusy' = IF skillBusy = c THEN "none" ELSE skillBusy
  /\ UNCHANGED <<skillLeft, skillOpening>>

(* ok: false, or an exception: the panel keeps the entries it has.         *)
FailSkillCall(c) == EndSkillCall(c) /\ UNCHANGED <<skillMissed, skillPanel>>

-----------------------------------------------------------------------------
(* The three buttons.  A checkbox belongs to an entry the panel shows; a   *)
(* panel that still waits for its first reading shows none.                *)
Shown == IF skillOpening = {} THEN skillPanel ELSE {}

InstallSkill(c, p) ==
  /\ BeginSkillCall(c, [UnusedSkillCall EXCEPT !.kind = "install", !.stage = "load", !.subject = {p}])
  /\ removals' = removals \ {p.skill}
  /\ UNCHANGED <<registry, packageFiles, grants, enabled>>

SetSkillEnabled(c, e, project, on) ==
  /\ e \in Shown
  /\ BeginSkillCall(c, [UnusedSkillCall EXCEPT !.kind = "enable", !.stage = "load",
                          !.subject = {e.package}, !.project = {project}, !.on = on])
  /\ grants' = IF on THEN grants \cup {<<e.package, project>>} ELSE grants
  /\ UNCHANGED <<registry, packageFiles, enabled, removals>>

RemoveSkill(c, e) ==
  /\ e \in Shown
  /\ BeginSkillCall(c, [UnusedSkillCall EXCEPT !.kind = "remove", !.stage = "load",
                          !.subject = {e.package}])
  /\ UNCHANGED <<registry, packageFiles, grants, enabled, removals>>

-----------------------------------------------------------------------------
(* load() of each call, which may throw, and what the call decides from    *)
(* it.  A checkbox sends the name of the skill: what is enabled is the     *)
(* version that is installed.                                              *)
Refuses(entries, p) ==                    \* version-conflict
  \E e \in entries : e.package.version = p.version /\ e.package.text # p.text
AlreadyInstalled(entries, p) == \E e \in entries : e.package = p

LoadForInstall(c) ==
  /\ CallIs(c, "install", "load")
  /\ LET p == CHOOSE q \in skillCalls[c].subject : TRUE
         entries == EntriesOf(registry, p.skill)
     IN \/ FailSkillCall(c)
        \/ /\ ~ Refuses(entries, p)
           /\ StepSkillCall(c, [SkillTo(c, IF AlreadyInstalled(entries, p) THEN "status" ELSE "copy")
                                  EXCEPT !.loaded = registry])
  /\ UNCHANGED <<registry, packageFiles, grants, enabled, removals>>

LoadForEnable(c) ==
  /\ CallIs(c, "enable", "load")
  /\ LET call == skillCalls[c]
         entries == EntriesOf(registry, SkillOf(c))
     IN \/ FailSkillCall(c) /\ UNCHANGED enabled
        \/ /\ entries # {}
           /\ call.on => \A e \in entries : e.package.state # "incompatible"
           /\ StepSkillCall(c, [SkillTo(c, "write") EXCEPT !.loaded = registry])
           /\ enabled' = IF call.on
                         THEN enabled \cup {<<e.package, project>> : e \in entries, project \in call.project}
                         ELSE enabled
  /\ UNCHANGED <<registry, packageFiles, grants, removals>>

LoadForRemove(c) ==
  /\ CallIs(c, "remove", "load")
  /\ \/ FailSkillCall(c)
     \/ /\ EntriesOf(registry, SkillOf(c)) # {}
        /\ StepSkillCall(c, [SkillTo(c, "write") EXCEPT !.loaded = registry])
  /\ UNCHANGED <<registry, packageFiles, grants, enabled, removals>>

(* The package goes to its place before the registry names it.             *)
CopyPackage(c) ==
  /\ CallIs(c, "install", "copy")
  /\ \/ packageFiles' = packageFiles \cup skillCalls[c].subject /\ StepSkillCall(c, SkillTo(c, "write"))
     \/ UNCHANGED packageFiles /\ FailSkillCall(c)
  /\ UNCHANGED <<registry, grants, enabled, removals>>

(* What the call writes over the file: the registry it loaded, changed.    *)
Granted(call, e) ==
  [e EXCEPT !.projects = IF call.on THEN @ \cup call.project ELSE @ \ call.project]

(* Mutant: an update keeps the grants of the version it replaces.          *)
RegistryWriteKeepingGrants(c) ==
  LET call == skillCalls[c]
      own == EntriesOf(call.loaded, SkillOf(c))
      others == call.loaded \ own
  IN CASE call.kind = "install" ->
            others \cup {[package |-> p, projects |-> UNION {e.projects : e \in own}] : p \in call.subject}
       [] call.kind = "enable"  -> others \cup {Granted(call, e) : e \in own}
       [] call.kind = "remove"  -> others

RegistryWrite(c) ==
  LET call == skillCalls[c]
      own == EntriesOf(call.loaded, SkillOf(c))
      others == call.loaded \ own
  IN CASE call.kind = "install" -> others \cup {[package |-> p, projects |-> {}] : p \in call.subject}
       [] call.kind = "enable"  -> others \cup {Granted(call, e) : e \in own}
       [] call.kind = "remove"  -> others

WriteRegistry(c) ==
  /\ skillCalls[c].stage = "write"
  /\ \/ /\ registry' = RegistryWrite(c)
        /\ removals' = IF skillCalls[c].kind = "remove" THEN removals \cup {SkillOf(c)} ELSE removals
        /\ StepSkillCall(c, SkillTo(c, "status"))
     \/ UNCHANGED <<registry, removals>> /\ FailSkillCall(c)
  /\ UNCHANGED <<packageFiles, grants, enabled>>

(* getStatus, which every call returns, reads the registry again.  The     *)
(* panel shows it if it still waits for this call; a reading that fails    *)
(* leaves the panel as it was before the write.                            *)
ReturnSkillStatus(c) ==
  /\ skillCalls[c].stage = "status"
  /\ EndSkillCall(c)
  /\ \/ /\ skillPanel' = IF skillBusy = c THEN registry ELSE skillPanel
        /\ UNCHANGED skillMissed
     \/ UNCHANGED skillPanel /\ skillMissed' = TRUE
  /\ UNCHANGED <<registry, packageFiles, grants, enabled, removals>>

(* A new panel asks for the registry; its flag is clear.                   *)
NewSkillPanel == skillBusy' = "none" /\ skillPanel' = {} /\ skillOpening' = {registry}

ReopenSkillPanel ==
  /\ NewSkillPanel
  /\ skillLeft' = (skillLeft \/ skillBusy # "none")
  /\ UNCHANGED <<skillMissed, registry, packageFiles, skillCalls, grants, enabled, removals>>

(* The first reading may be of a later moment, and arrive late or fail;    *)
(* an installation does not wait for it.                                   *)
ReadForSkillPanel ==
  /\ skillOpening # {}
  /\ skillOpening' = {registry}
  /\ UNCHANGED <<skillLeft, skillMissed, registry, packageFiles, skillCalls, skillBusy, skillPanel,
                 grants, enabled, removals>>

ShowSkillPanel ==
  /\ skillOpening # {}
  /\ skillOpening' = {}
  /\ \/ \E read \in skillOpening : /\ skillPanel' = read
                                  /\ skillMissed' = (skillMissed \/ read # registry)
     \/ UNCHANGED <<skillPanel, skillMissed>>
  /\ UNCHANGED <<skillLeft, registry, packageFiles, skillCalls, skillBusy, grants, enabled, removals>>

RestartSkills ==
  /\ \E c \in SkillCall : skillCalls[c] # UnusedSkillCall
  /\ NewSkillPanel
  /\ skillCalls' = [c \in SkillCall |-> UnusedSkillCall]
  /\ UNCHANGED <<skillLeft, skillMissed, registry, packageFiles, grants, enabled, removals>>

SkillNext ==
  \/ \E c \in SkillCall :
       \/ \E p \in SkillPackage : InstallSkill(c, p)
       \/ \E e \in Shown, project \in SkillProject, on \in BOOLEAN : SetSkillEnabled(c, e, project, on)
       \/ \E e \in Shown : RemoveSkill(c, e)
       \/ LoadForInstall(c) \/ LoadForEnable(c) \/ LoadForRemove(c)
       \/ CopyPackage(c) \/ WriteRegistry(c) \/ ReturnSkillStatus(c)
  \/ ReopenSkillPanel \/ ReadForSkillPanel \/ ShowSkillPanel \/ RestartSkills

SkillSpec == SkillInit /\ [][SkillNext]_skillVars

-----------------------------------------------------------------------------
(* getPlan: the packages granted to the project, which a request of the    *)
(* Creative room attaches.                                                 *)
PlanOf(project) == {e.package : e \in {f \in registry : project \in f.projects}}

-----------------------------------------------------------------------------
SkillTypeOK ==
  /\ skillLeft \in BOOLEAN /\ skillMissed \in BOOLEAN
  /\ registry \in Registries
  /\ packageFiles \subseteq SkillPackage
  /\ skillCalls \in [SkillCall ->
       [kind : {"none", "install", "enable", "remove"}, stage : SkillStage,
        subject : SUBSET SkillPackage, project : SUBSET SkillProject, on : BOOLEAN,
        loaded : Registries]]
  /\ skillBusy \in SkillCall \cup {"none"}
  /\ skillPanel \in Registries /\ skillOpening \subseteq Registries
  /\ grants \subseteq SkillPackage \X SkillProject /\ enabled \subseteq SkillPackage \X SkillProject
  /\ removals \subseteq Skill

(* Whatever fails or dies, and also when calls overlap, an entry of the    *)
(* registry has its stored package: the evidence receipts refer to.        *)
EntryHasPackage == \A e \in registry : e.package \in packageFiles

(* "An update invalidates the old grant" (SECURITY_AND_RECOVERY.md:116):   *)
(* whatever fails or overlaps, a project that is granted a package was     *)
(* enabled by the user for its skill while this package was installed.     *)
GrantsAreRenewed == \A j \in SkillProject : \A p \in PlanOf(j) : <<p, j>> \in enabled

(* While the user stays on the panel, and until the panel misses a change  *)
(* (an answer whose reading failed, a first reading that came late), it is *)
(* granted the very contents the panel showed when its box was ticked.     *)
GrantsWereGiven ==
  ~skillLeft /\ ~skillMissed => \A j \in SkillProject : \A p \in PlanOf(j) : <<p, j>> \in grants

(* What a request of the Creative room attaches is stored, and the user    *)
(* granted exactly this: the promises above together.                      *)
SkillsAreGranted == EntryHasPackage /\ GrantsAreRenewed /\ GrantsWereGiven

(* A removed skill stays removed until the user installs it again.         *)
RemovedStaysRemoved ==
  ~skillLeft => \A e \in registry : e.package.skill \notin removals

(* GrantsWereGiven without its premise: a panel that was left while an     *)
(* update was written, or whose reading after it failed, shows the old     *)
(* contents with live boxes, and a box ticked there grants the new.        *)
GrantsWereAlwaysGiven == \A j \in SkillProject : \A p \in PlanOf(j) : <<p, j>> \in grants

(* Installation "refuses changed contents under the same version"          *)
(* (docs/ARCHITECTURE.md:155).  It compares with the installed version     *)
(* only: after an update or a removal the old version's contents may       *)
(* change.                                                                 *)
OneTextPerVersion ==
  \A p, q \in packageFiles : p.skill = q.skill /\ p.version = q.version => p.text = q.text
=============================================================================
