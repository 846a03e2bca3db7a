---------------------------- MODULE UpstreamImport ----------------------------
(***************************************************************************)
(* A story package of the upstream tool on its way into a production: the  *)
(* copied files, the pinned validators, the normalized long-form plan and  *)
(* its acceptance (upstream-adapter/src/index.ts; the panel in             *)
(* ProductionRooms.tsx).  The validators run one after the other across    *)
(* awaits; acceptance writes two files one after the other.                *)
(***************************************************************************)
EXTENDS Integers, Sequences, FiniteSets

CONSTANTS ImportId,        \* imports that are followed
          Story,           \* packages the user may choose
          ProjectSeconds,  \* the target duration of the project
          MaxDirections    \* bound: versions of the creative direction

RoleOrder == <<"outline", "characters", "art", "script", "storyboard">>
FileRole == {RoleOrder[n] : n \in DOMAIN RoleOrder}

(* Durations are whole seconds; those of the package are what a JSON       *)
(* number may be, negative ones included, flows are counted.               *)
ASSUME ImportAssumption ==
  /\ ProjectSeconds \in Nat \ {0} /\ MaxDirections \in Nat
  /\ \A s \in Story : /\ {"outline", "script"} \subseteq s.files    \* discover
                      /\ s.files \subseteq FileRole
                      /\ s.failing \subseteq s.files
                      /\ s.episodes \in Seq([seconds : Int, flows : Seq(Nat)])
                      /\ s.episodes # <<>>

VARIABLES direction,    \* the current creative-direction version, 0: none saved
          imports,      \* source/shuohao/<import>/ of each import
          storedPlans,  \* imports whose plan file is in productions/plans
          importCalls,  \* the files each running import still has to validate
          refused       \* history: accepting was answered with a refusal

importVars == <<direction, imports, storedPlans, importCalls, refused>>

NoPlan == <<>>
NoImport == [state |-> "none", story |-> {}, direction |-> 0, plan |-> NoPlan]
NoImportCall == [runs |-> FALSE, left |-> {}, failed |-> FALSE]

UpstreamInit ==
  /\ direction = 0
  /\ imports = [i \in ImportId |-> NoImport]
  /\ storedPlans = {}
  /\ importCalls = [i \in ImportId |-> NoImportCall]
  /\ refused = {}

-----------------------------------------------------------------------------
(* normalize: the time of the project is dealt to the episodes as the      *)
(* source had it, the time of an episode to its scenes by the length of    *)
(* their flow, every piece rounded and at least one second.  The source's  *)
(* whole length counts at least a second per episode; the length that is   *)
(* scaled is the episode's own, zero or negative as it may be.             *)
AtLeastOne(n) == IF n < 1 THEN 1 ELSE n
RoundedShare(part, all, amount) == AtLeastOne((2 * part * amount + all) \div (2 * all))

Total(s) == LET sum[n \in 0..Len(s)] == IF n = 0 THEN 0 ELSE sum[n - 1] + s[n] IN sum[Len(s)]

SourceSeconds(story) == [e \in DOMAIN story.episodes |-> AtLeastOne(story.episodes[e].seconds)]
FlowWeights(episode) == [n \in DOMAIN episode.flows |-> AtLeastOne(episode.flows[n])]

SceneSeconds(episode, seconds) ==
  [n \in DOMAIN episode.flows |->
     RoundedShare(FlowWeights(episode)[n], Total(FlowWeights(episode)), seconds)]

Sequence(story, e) ==
  LET seconds == RoundedShare(story.episodes[e].seconds, Total(SourceSeconds(story)), ProjectSeconds)
  IN [episode |-> e, seconds |-> seconds,
      scenes |-> SceneSeconds(story.episodes[e], seconds)]

(* Mutant: the acts are cut at rounded-up places.                          *)
ActBoundsRoundedUp(n, acts, a) ==
  <<((a - 1) * n + acts - 1) \div acts + 1, (a * n) \div acts>>

(* At most three acts, cut at rounded-down multiples: the first and last   *)
(* sequence of act a.                                                      *)
ActBounds(n, acts, a) == <<((a - 1) * n) \div acts + 1, (a * n) \div acts>>

ActCount(n) == IF n < 3 THEN n ELSE 3

LongFormPlan(story) ==
  LET n == Len(story.episodes)
  IN [a \in 1..ActCount(n) |->
        LET bounds == ActBounds(n, ActCount(n), a)
        IN [k \in 1..(bounds[2] - bounds[1] + 1) |-> Sequence(story, bounds[1] + k - 1)]]

-----------------------------------------------------------------------------
(* The files are validated in the order of their roles.                    *)
Place(role) == CHOOSE n \in DOMAIN RoleOrder : RoleOrder[n] = role
NextFile(files) == CHOOSE role \in files : \A other \in files : Place(role) <= Place(other)

(* importFromFolder up to the first validator: the folder is made and the  *)
(* files are copied; an error there leaves the folder without a record.    *)
ChooseImport(i, story) ==
  /\ imports[i] = NoImport
  /\ direction # 0
  /\ imports' = [imports EXCEPT ![i] = [NoImport EXCEPT !.state = "copied", !.story = {story},
                                                        !.direction = direction]]
  /\ \E runs \in BOOLEAN :
       importCalls' = [importCalls EXCEPT ![i] =
         IF runs THEN [NoImportCall EXCEPT !.runs = TRUE, !.left = story.files]
         ELSE NoImportCall]
  /\ UNCHANGED <<direction, storedPlans, refused>>

StoryOf(i) == CHOOSE s \in imports[i].story : TRUE

FailedSoFar(i) == importCalls[i].failed \/ NextFile(importCalls[i].left) \in StoryOf(i).failing

(* runCommand: an exit code; or the timeout, which ends the import.        *)
ValidateFile(i) ==
  /\ importCalls[i].runs /\ importCalls[i].left # {}
  /\ \/ importCalls' = [importCalls EXCEPT ![i].left = @ \ {NextFile(@)}, ![i].failed = FailedSoFar(i)]
     \/ importCalls' = [importCalls EXCEPT ![i] = NoImportCall]
  /\ UNCHANGED <<direction, imports, storedPlans, refused>>

(* The rest of importFromFolder: normalize and write import.json, or throw *)
(* before it is there.                                                     *)
RecordImport(i) ==
  /\ importCalls[i].runs /\ importCalls[i].left = {}
  /\ importCalls' = [importCalls EXCEPT ![i] = NoImportCall]
  /\ \/ imports' = IF importCalls[i].failed
                   THEN [imports EXCEPT ![i].state = "validation-failed"]
                   ELSE [imports EXCEPT ![i].state = "preview", ![i].plan = LongFormPlan(StoryOf(i))]
     \/ UNCHANGED imports
  /\ UNCHANGED <<direction, storedPlans, refused>>

(* Mutant: the record is written before the plan.                          *)
AcceptRecordFirst(i) ==
  /\ imports[i].state = "preview" /\ i \notin storedPlans
  /\ imports' = [imports EXCEPT ![i].state = "accepted"]
  /\ storedPlans' \in {storedPlans, storedPlans \cup {i}}
  /\ UNCHANGED <<direction, importCalls, refused>>

(* acceptImport: the plan file, then the record; either write may fail and *)
(* the application may die between them.                                   *)
AcceptImport(i) ==
  /\ imports[i].state = "preview"
  /\ \/ /\ i \notin storedPlans
        /\ storedPlans' = storedPlans \cup {i}
        /\ \/ imports' = [imports EXCEPT ![i].state = "accepted"] /\ UNCHANGED refused
           \/ UNCHANGED imports /\ refused' = refused \cup {i}
     \/ refused' = refused \cup {i} /\ UNCHANGED <<imports, storedPlans>>
  /\ UNCHANGED <<direction, importCalls>>

SaveDirection ==
  /\ direction < MaxDirections
  /\ direction' = direction + 1
  /\ UNCHANGED <<imports, storedPlans, importCalls, refused>>

(* The application dies: running imports are gone, their folders stay.     *)
RestartImporter ==
  /\ \E i \in ImportId : importCalls[i].runs
  /\ importCalls' = [i \in ImportId |-> NoImportCall]
  /\ UNCHANGED <<direction, imports, storedPlans, refused>>

UpstreamNext ==
  \/ \E i \in ImportId : \/ \E s \in Story : ChooseImport(i, s)
                         \/ ValidateFile(i) \/ RecordImport(i) \/ AcceptImport(i)
  \/ SaveDirection \/ RestartImporter

UpstreamSpec == UpstreamInit /\ [][UpstreamNext]_importVars

-----------------------------------------------------------------------------
UpstreamTypeOK ==
  /\ direction \in 0..MaxDirections
  /\ \A i \in ImportId :
       /\ imports[i].state \in {"none", "copied", "validation-failed", "preview", "accepted"}
       /\ imports[i].story \subseteq Story
       /\ imports[i].direction \in 0..MaxDirections
       /\ importCalls[i].runs \in BOOLEAN /\ importCalls[i].failed \in BOOLEAN
  /\ storedPlans \subseteq ImportId /\ refused \subseteq ImportId

(* Whatever write fails or the application dies at, an import recorded as  *)
(* accepted has its plan among the production's plans, and a stored plan   *)
(* came from a package that every validator passed.                        *)
AcceptedPlanIsStored ==
  /\ \A i \in ImportId : imports[i].state = "accepted" => i \in storedPlans
  /\ \A i \in storedPlans : StoryOf(i).failing = {}

(* The acts of a plan hold every episode once, in order, none is empty,    *)
(* and the rounding moves the time of the scenes of an episode by less     *)
(* than one second per scene (normalize).                                  *)
Concatenated(plan) ==
  LET cat[a \in 0..Len(plan)] == IF a = 0 THEN <<>> ELSE cat[a - 1] \o plan[a] IN cat[Len(plan)]

Distance(a, b) == IF a < b THEN b - a ELSE a - b

PlanTellsTheStory ==
  \A i \in ImportId : imports[i].plan # NoPlan =>
    LET plan == imports[i].plan
    IN /\ \A a \in DOMAIN plan : plan[a] # <<>>
       /\ [e \in DOMAIN Concatenated(plan) |-> Concatenated(plan)[e].episode]
            = [e \in 1..Len(StoryOf(i).episodes) |-> e]
       /\ \A a \in DOMAIN plan : \A k \in DOMAIN plan[a] :
            LET s == plan[a][k]
            IN s.scenes # <<>> => Distance(Total(s.scenes), s.seconds) < Len(s.scenes)

(* No plan is longer than the project by a second or more per episode, and *)
(* one whose package gives every episode some time is not shorter either.  *)
(* Without that time it is: three episodes of zero seconds are a plan of   *)
(* three seconds, whatever the target duration (normalize).                *)
EveryEpisodeTimed(story) == \A e \in DOMAIN story.episodes : story.episodes[e].seconds >= 1

PlanFillsTheProject ==
  \A i \in ImportId : imports[i].plan # NoPlan =>
    LET all == Concatenated(imports[i].plan)
        planned == Total([e \in DOMAIN all |-> all[e].seconds])
    IN /\ planned < ProjectSeconds + Len(all)
       /\ EveryEpisodeTimed(StoryOf(i)) => planned > ProjectSeconds - Len(all)

(* "An upstream normalization acceptance was refused without changing the  *)
(* active plan." (desktop main/index.ts:1625)  The plan is written before  *)
(* the record: a failure between them leaves it stored.                    *)
RefusalKeepsPlans == \A i \in refused : imports[i].state # "accepted" => i \notin storedPlans

(* A preview can be accepted: its plan is not yet stored.                  *)
PreviewCanBeAccepted == \A i \in ImportId : imports[i].state = "preview" => i \notin storedPlans
=============================================================================
