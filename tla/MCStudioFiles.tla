---------------------------- MODULE MCStudioFiles ----------------------------
(***************************************************************************)
(* A small instance, for TLC, of the parts that live by the order in which *)
(* files are written: the writer lock, the project library, story imports, *)
(* the model volume of a worker, and a paid writing request.  Each has of  *)
(* the others what it needs (SwitchLibrary is any operation of the         *)
(* library), so a behaviour follows one of them, chosen at first.          *)
(***************************************************************************)
EXTENDS WriterLock, ProjectLibrary, UpstreamImport, ModelInstall, WritingRoom

VARIABLE followed

(* Packages: a valid one of four episodes, one whose episodes have no time *)
(* of their own, and one that fails a validator.                           *)
ThreeStories ==
  {[files |-> {"outline", "script", "storyboard"}, failing |-> {},
    episodes |-> <<[seconds |-> 100, flows |-> <<3, 0, 5>>], [seconds |-> 35, flows |-> <<1>>],
                   [seconds |-> 1, flows |-> <<1, 1, 1>>], [seconds |-> 90, flows |-> <<2, 7>>]>>],
   [files |-> {"outline", "script"}, failing |-> {},
    episodes |-> <<[seconds |-> 0, flows |-> <<2, 2>>], [seconds |-> -30, flows |-> <<>>],
                   [seconds |-> 0, flows |-> <<1>>]>>],
   [files |-> {"outline", "script"}, failing |-> {"outline"},
    episodes |-> <<[seconds |-> 60, flows |-> <<1>>]>>]}

ThreeModels == <<"ltx", "gemma", "qwen">>
EachMode == [m \in Installed |-> CASE m = "ltx" -> "file" [] m = "gemma" -> "snapshot"
                                   [] m = "qwen" -> "cache-snapshot"]

filesVars == <<followed, lockVars, libraryVars, importVars, installVars, roomVars>>

FilesInit ==
  /\ followed \in {"window", "library", "import", "install", "room"}
  /\ LockInit /\ LibraryInit /\ UpstreamInit /\ InstallInit /\ RoomInit

InWindow  == followed = "window"  /\ UNCHANGED <<followed, libraryVars, importVars, installVars, roomVars>>
InLibrary == followed = "library" /\ UNCHANGED <<followed, lockVars, importVars, installVars, roomVars>>
InImport  == followed = "import"  /\ UNCHANGED <<followed, lockVars, libraryVars, installVars, roomVars>>
InInstall == followed = "install" /\ UNCHANGED <<followed, lockVars, libraryVars, importVars, roomVars>>
InRoom    == followed = "room"    /\ UNCHANGED <<followed, lockVars, libraryVars, importVars, installVars>>

FilesNext ==
  \/ \E w \in Window :
       \/ InWindow /\ OpenWindow(w)
       \/ InWindow /\ CreateLock(w)
       \/ InWindow /\ WriteLock(w)
       \/ InWindow /\ InspectLock(w)
       \/ InWindow /\ StatLock(w)
       \/ InWindow /\ MoveAside(w)
       \/ InWindow /\ BeginRelease(w)
       \/ InWindow /\ CheckToken(w)
       \/ InWindow /\ UnlinkLock(w)
       \/ InWindow /\ CrashWindow(w)
  \/ InWindow /\ AgeLock
  \/ \E p \in Project :
       \/ InLibrary /\ CreateProject(p)
       \/ InLibrary /\ LoseFolder(p)
       \/ \E seen \in 0..MaxVersions : InLibrary /\ SaveCreativeDirection(p, seen)
       \/ \E kind \in {"backup", "migrate"} : InLibrary /\ BeginBackup(p, kind)
       \/ \E a \in Import : InLibrary /\ ImportFile(p, a)
       \/ \E a \in Import : InLibrary /\ ImportRow(p, a)
       \/ \E i \in 1..MaxVersions : InLibrary /\ DamageDirection(p, i)
  \/ \E b \in backups : InLibrary /\ BeginRestore(b)
  \/ InLibrary /\ Reconcile
  \/ InLibrary /\ CopyFiles
  \/ InLibrary /\ CopyDatabase
  \/ InLibrary /\ PublishBackup
  \/ InLibrary /\ FailOperation
  \/ InLibrary /\ MigrationSucceeds
  \/ InLibrary /\ MigrationCrashes
  \/ InLibrary /\ MigrationRollsBack
  \/ InLibrary /\ CopyAside
  \/ InLibrary /\ ActivateRestore
  \/ InLibrary /\ CrashLibrary
  \/ InLibrary /\ OpenLibrary
  \/ \E i \in ImportId :
       \/ \E s \in Story : InImport /\ ChooseImport(i, s)
       \/ InImport /\ ValidateFile(i)
       \/ InImport /\ RecordImport(i)
       \/ InImport /\ AcceptImport(i)
  \/ InImport /\ SaveDirection
  \/ InImport /\ RestartImporter
  \/ InInstall /\ StartContainer
  \/ InInstall /\ LookForModel
  \/ InInstall /\ ClearPartial
  \/ InInstall /\ FetchModel
  \/ InInstall /\ ReplaceModel
  \/ InInstall /\ HashModel
  \/ InInstall /\ WriteReceipt
  \/ InInstall /\ KillContainer
  \/ \E s \in Selection : InRoom /\ Select(s)
  \/ \E s \in Selection : InRoom /\ ReopenRoom(s)
  \/ InRoom /\ ShowPreview
  \/ InRoom /\ ShowPlan
  \/ InRoom /\ Tick
  \/ InRoom /\ ChangeFacts
  \/ InRoom /\ ChangePlan
  \/ \E r \in Request :
       \/ InRoom /\ Generate(r)
       \/ InRoom /\ BuildContext(r)
       \/ InRoom /\ CheckPlan(r)
       \/ InRoom /\ CallProvider(r)
       \/ InRoom /\ SaveDraft(r)
       \/ InRoom /\ RecordSaved(r)
  \/ InRoom /\ LogFails
  \/ InRoom /\ SwitchLibrary

FilesSpec ==
  FilesInit /\ [][FilesNext]_filesVars
    /\ \A r \in Request : WF_filesVars(RequestStep(r) /\ InRoom)

(* Every variable of the five parts keeps its type.                        *)
FilesTypeOK == LockTypeOK /\ LibraryTypeOK /\ UpstreamTypeOK /\ InstallTypeOK /\ RoomTypeOK
=============================================================================
