------------------------------ MODULE StudioShell ------------------------------
(***************************************************************************)
(* The window around the rooms (renderer App.tsx) and what it does to the  *)
(* release texts of several productions: which production is active, which *)
(* page is shown, what a one-off tool hands to the next room, and the      *)
(* forms of the finishing room (FinishRoom.tsx, ReleasePlanningPanel.tsx)  *)
(* with their store (release-store).  Calls are answered later, whatever   *)
(* page is shown by then.                                                  *)
(*                                                                         *)
(* A text is known by the production it was written for.                   *)
(***************************************************************************)
EXTENDS Naturals, FiniteSets

CONSTANTS Production,  \* projects of the library
          Progress,    \* the approved work of each, as Creator Mode reads it
          MaxSaves,    \* saved texts
          MaxCalls     \* calls of the window that are not answered yet

(* quickAvailability: the approved work each one-off tool starts from; a   *)
(* "board" shows the cast, the look or a place, and "media" is any asset.  *)
StartsFrom(tool) ==
  CASE tool = "image"       -> {"characters", "world", "look"}
    [] tool = "composition" -> {"storyboard", "look"}
    [] tool = "audio"       -> {"voice"}
    [] tool = "video"       -> {"storyboard", "look", "voice", "board"}
    [] tool = "stitch"      -> {"media"}

Tool == {"image", "composition", "audio", "video", "stitch"}

ASSUME ShellAssumption ==
  /\ MaxSaves \in Nat /\ MaxCalls \in Nat /\ "none" \notin Production
  /\ Progress \in [Production -> SUBSET UNION {StartsFrom(tool) : tool \in Tool}]

VARIABLES shell,     \* the active production, the page, and the productions the
                     \* quick-create intent and the retake were chosen in
          answers,   \* calls that open, restore or update a project
          room,      \* the mounted finishing room
          saving,    \* the save the room waits for
          texts,     \* per production: its release details and its profile
          saves,
          strayed    \* history: an update was answered for another production

shellVars == <<shell, answers, room, saving, texts, saves, strayed>>

(* The three writing rooms (story, world, storyboard) only lead home: they *)
(* are left out.                                                           *)
Page == {"home", "creator", "generate", "review", "edit", "settings"}
NoProject == "none"

NoText == [text |-> "none", edition |-> 0]
NoData == [project |-> "none", details |-> NoText, profile |-> "none"]
NoSave == [kind |-> "none", project |-> "none", cites |-> NoData, text |-> "none", mine |-> FALSE]

(* load: the production whose workspace is being read; data: the workspace *)
(* last read; details, profile: whose texts are in the two forms.          *)
NoRoom == [open |-> FALSE, load |-> "none", data |-> NoData, details |-> "none", profile |-> "none"]

(* A production from its start, with no retake.                            *)
OpenedAs(p, page, intent) == [project |-> p, page |-> page, intent |-> intent, retake |-> "none"]

ShellInit ==
  /\ shell = OpenedAs(NoProject, "home", "none")
  /\ answers = {} /\ room = NoRoom /\ saving = NoSave
  /\ texts \in [Production -> {[details |-> NoText, profile |-> "none"]}
                              \cup {[details |-> [text |-> p, edition |-> 1], profile |-> p] : p \in Production}]
  /\ \A p \in Production : texts[p].profile \in {"none", p}
  /\ saves = 0 /\ strayed = FALSE

(* The finishing room is mounted while its page is shown, and stays when   *)
(* only the production under it changes: its effect then reads again.      *)
RoomUnder(s) ==
  IF s.page # "edit" \/ s.project = NoProject THEN NoRoom
  ELSE IF ~ room.open THEN [NoRoom EXCEPT !.open = TRUE, !.load = s.project]
  ELSE IF s.project = shell.project THEN room
  ELSE [room EXCEPT !.load = s.project]

Show(s) ==
  /\ shell' = s
  /\ room' = RoomUnder(s)
  /\ saving' = [saving EXCEPT !.mine = @ /\ RoomUnder(s).open]
  /\ UNCHANGED <<texts, saves>>

-----------------------------------------------------------------------------
(* The window.                                                             *)

Call(kind, p) ==
  /\ Cardinality(answers) < MaxCalls
  /\ answers' = answers \cup {[kind |-> kind, project |-> p]}
  /\ UNCHANGED <<shell, room, saving, texts, saves, strayed>>

(* openProject from the library, restore from the settings, and the        *)
(* updates of the overview: a migration or a saved creative direction.     *)
PressOpen(p) ==
  /\ shell.project = NoProject /\ shell.page # "settings"
  /\ Call("open", p)

PressRestore(p) == shell.page = "settings" /\ Call("restore", p)

PressUpdate ==
  /\ shell.project # NoProject /\ shell.page = "home"
  /\ Call("update", shell.project)

LoseAnswer(a) ==
  /\ a \in answers
  /\ answers' = answers \ {a}
  /\ UNCHANGED <<shell, room, saving, texts, saves, strayed>>

(* Mutant: the one-off tool of the earlier production is kept.             *)
OpenedKeepingIntent(p) == OpenedAs(p, "creator", shell.intent)

(* openProject, projectRestored: the next production, from its start.      *)
Opened(p) == OpenedAs(p, "creator", "none")

AnswerOpen(p) ==
  /\ \E kind \in {"open", "restore"} :
       /\ [kind |-> kind, project |-> p] \in answers
       /\ answers' = answers \ {[kind |-> kind, project |-> p]}
  /\ Show(Opened(p))
  /\ UNCHANGED strayed

(* projectUpdated: only the production, on whatever page is shown.         *)
AnswerUpdate(p) ==
  /\ [kind |-> "update", project |-> p] \in answers
  /\ answers' = answers \ {[kind |-> "update", project |-> p]}
  /\ Show([shell EXCEPT !.project = p])
  /\ strayed' = (strayed \/ shell.project # p)

GoToLibrary ==
  /\ Show(OpenedAs(NoProject, "home", "none"))
  /\ UNCHANGED <<answers, strayed>>

(* The navigation, and the way home, forget the one-off tool but keep a    *)
(* retake ...                                                              *)
Navigate(page) ==
  /\ shell.project # NoProject \/ page \in {"home", "settings"}
  /\ Show([shell EXCEPT !.page = page, !.intent = "none"])
  /\ UNCHANGED <<answers, strayed>>

(* ... and the other links inside the rooms keep both.                     *)
FollowLink(page) ==
  /\ shell.project # NoProject
  /\ \/ shell.page = "home" /\ page \in {"creator", "review", "edit"}
     \/ shell.page = "review" /\ page = "home"
     \/ shell.page = "generate" /\ page = "settings"
     \/ shell.page = "edit" /\ page = "review"
  /\ Show([shell EXCEPT !.page = page])
  /\ UNCHANGED <<answers, strayed>>

(* onQuickCreate of Creator Mode, onRetake of the review room: one of the  *)
(* two, never both.                                                        *)
QuickCreate(page) ==
  /\ shell.page = "creator"
  /\ Show(OpenedAs(shell.project, page, shell.project))
  /\ UNCHANGED <<answers, strayed>>

(* openQuickTool: only what the production is ready for is handed over.    *)
OpenQuickTool(tool) ==
  /\ shell.project # NoProject /\ StartsFrom(tool) \subseteq Progress[shell.project]
  /\ QuickCreate(IF tool = "stitch" THEN "edit" ELSE "generate")

PlanRetake ==
  /\ shell.page = "review" /\ shell.project # NoProject
  /\ Show([shell EXCEPT !.page = "generate", !.intent = "none", !.retake = shell.project])
  /\ UNCHANGED <<answers, strayed>>

(* onRetakePlanned: a job was planned with the retake; the answer comes    *)
(* back to whatever page is shown.                                         *)
RetakePlanned ==
  /\ shell.retake # "none"
  /\ Show([shell EXCEPT !.retake = "none"])
  /\ UNCHANGED <<answers, strayed>>

-----------------------------------------------------------------------------
(* The finishing room.                                                     *)

(* Saved details fill their form; the profile form is filled once, when    *)
(* the planning panel first appears.                                       *)
LoadRoom ==
  /\ room.load # "none"
  /\ LET p == room.load
     IN room' = [room EXCEPT !.load = "none",
          !.data = [project |-> p, details |-> texts[p].details, profile |-> texts[p].profile],
          !.details = IF texts[p].details = NoText THEN @ ELSE texts[p].details.text,
          !.profile = IF room.data # NoData THEN @ ELSE IF texts[p].profile = "none" THEN p ELSE texts[p].profile]
  /\ UNCHANGED <<shell, answers, saving, texts, saves, strayed>>

LoseRoom ==
  /\ room.load # "none"
  /\ room' = [room EXCEPT !.load = "none"]
  /\ UNCHANGED <<shell, answers, saving, texts, saves, strayed>>

TypeDetails ==
  /\ room.open
  /\ room' = [room EXCEPT !.details = shell.project]
  /\ UNCHANGED <<shell, answers, saving, texts, saves, strayed>>

TypeProfile ==
  /\ room.data # NoData
  /\ room' = [room EXCEPT !.profile = shell.project]
  /\ UNCHANGED <<shell, answers, saving, texts, saves, strayed>>

PressSaveDetails ==
  /\ room.open /\ saving = NoSave /\ saves < MaxSaves
  /\ room.details # "none"
  /\ saving' = [kind |-> "details", project |-> shell.project, cites |-> room.data,
                text |-> room.details, mine |-> TRUE]
  /\ UNCHANGED <<shell, answers, room, texts, saves, strayed>>

PressSaveProfile ==
  /\ room.open /\ saving = NoSave /\ saves < MaxSaves
  /\ room.data # NoData
  /\ saving' = [kind |-> "profile", project |-> shell.project, cites |-> room.data,
                text |-> room.profile, mine |-> TRUE]
  /\ UNCHANGED <<shell, answers, room, texts, saves, strayed>>

(* saveReleaseDetails: the record that is cited must be in this project's  *)
(* database and unchanged; without one a new record is made.               *)
DetailsAccepted(s) ==
  \/ s.cites.details = NoText
  \/ s.cites.project = s.project /\ s.cites.details = texts[s.project].details

(* saveProjectReleaseProfile: earlier versions may be cited ...            *)
ProfileAccepted(s) == s.cites.profile = "none" \/ s.cites.project = s.project

(* ... and are kept: a save is a new version.                              *)
SavedProfile(s) == [texts[s.project] EXCEPT !.profile = s.text]

AnswerSave ==
  /\ \/ saving.kind = "details" /\ DetailsAccepted(saving)
     \/ saving.kind = "profile" /\ ProfileAccepted(saving)
  /\ LET p == saving.project
         saved == IF saving.kind = "profile" THEN SavedProfile(saving)
                  ELSE [texts[p] EXCEPT !.details = [text |-> saving.text, edition |-> saves + 2]]
     IN /\ texts' = [texts EXCEPT ![p] = saved]
        /\ room' = IF saving.mine
                   THEN [room EXCEPT !.data = [project |-> p, details |-> saved.details, profile |-> saved.profile]]
                   ELSE room
  /\ saves' = saves + 1
  /\ saving' = NoSave
  /\ UNCHANGED <<shell, answers, strayed>>

RefuseSave ==
  /\ saving # NoSave
  /\ saving' = NoSave
  /\ UNCHANGED <<shell, answers, room, texts, saves, strayed>>

ShellNext ==
  \/ \E p \in Production : PressOpen(p) \/ PressRestore(p) \/ AnswerOpen(p) \/ AnswerUpdate(p)
  \/ PressUpdate \/ GoToLibrary \/ PlanRetake \/ RetakePlanned
  \/ \E a \in answers : LoseAnswer(a)
  \/ \E page \in Page : Navigate(page) \/ FollowLink(page)
  \/ \E tool \in Tool : OpenQuickTool(tool)
  \/ LoadRoom \/ LoseRoom \/ TypeDetails \/ TypeProfile
  \/ PressSaveDetails \/ PressSaveProfile \/ AnswerSave \/ RefuseSave

ShellSpec == ShellInit /\ [][ShellNext]_shellVars

-----------------------------------------------------------------------------
Owner == Production \cup {"none"}

ShellTypeOK ==
  /\ shell.project \in Owner /\ shell.page \in Page /\ {shell.intent, shell.retake} \subseteq Owner
  /\ room.load \in Owner /\ room.details \in Owner /\ room.profile \in Owner
  /\ \A p \in Production : texts[p].details.text \in Owner /\ texts[p].profile \in Owner

OwnTexts == \A p \in Production : texts[p].details.text \in {"none", p} /\ texts[p].profile \in {"none", p}

(* "A second series or a one-off film cannot inherit the wrong release     *)
(* profile, thumbnail, metadata" (PRD.md:245): texts written for one       *)
(* production are never saved in another, and a one-off tool or a retake   *)
(* stays in the production it was chosen in -- however late openings,      *)
(* restores and saves are answered, as long as no update of another        *)
(* production is.                                                          *)
StaysInProduction ==
  ~ strayed => /\ OwnTexts
               /\ {shell.intent, shell.retake} \subseteq {"none", shell.project}

(* ... and even then.                                                      *)
SavesStayInProduction == OwnTexts
=============================================================================
