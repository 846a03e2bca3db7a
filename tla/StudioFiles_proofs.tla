-------------------- MODULE StudioFiles_proofs --------------------
(***************************************************************************)
(* Theorems about the parts of MCStudioFiles, each for any number of       *)
(* windows, projects, imports, models and requests: the writer lock, the   *)
(* project library, story imports, the model volume of a worker and paid   *)
(* writing requests.  Each part has a section of its own: the inductive    *)
(* invariant, the lemmas about single writes, one step of proof for every  *)
(* action, and the theorems.  The parts share no variable.                 *)
(***************************************************************************)
EXTENDS WriterLock, ProjectLibrary, UpstreamImport, ModelInstall, WritingRoom, SequenceTheorems,
        FiniteSetTheorems, WellFoundedInduction, TLAPS

-----------------------------------------------------------------------------
(* WriterLock.  The window that writes is the one the record names.        *)

(* A window that has not created the record yet: it is somebody else's.    *)
Arriving == {"idle", "create", "inspect", "stat", "rename"}

AttemptsAreFew ==
  \A w \in Window :
    /\ stage[w] = "idle" => attempt[w] = 0
    /\ stage[w] \in Arriving => attempt[w] <= 2

OneIsAlive == \A v, w \in Window : Alive(v) /\ Alive(w) => v = w

HolderIsOwner ==
  \A w \in Window :
    /\ stage[w] \in {"write", "writing", "check", "unlink"} => lockFile.owner = w
    /\ stage[w] \in {"writing", "check", "unlink"} => lockFile.complete
    /\ stage[w] \in Arriving => lockFile.owner # w

(* An unfinished record is of the window about to finish it, or of one     *)
(* that was killed.                                                        *)
UnfinishedIsWritten ==
  Present /\ ~lockFile.complete => stage[lockFile.owner] \in {"write", "dead"}

(* The record that stood in the way is moved aside once.                   *)
OneRename ==
  \A w \in Window :
    /\ stage[w] \in {"inspect", "stat", "rename"} => attempt[w] = 0
    /\ stage[w] = "create" => attempt[w] = 0 \/ ~Present
    /\ stage[w] = "stat" => ~lockFile.complete

SoloInv == OneIsAlive /\ HolderIsOwner /\ UnfinishedIsWritten /\ OneRename

LockInv == LockTypeOK /\ AttemptsAreFew /\ (Solo => SoloInv)

(* No record is the record of nobody.                                      *)
LEMMA NoFileFacts ==
  /\ NoFile \in LockFile /\ NoFile.owner = "none" /\ ~NoFile.complete /\ "none" \notin Window
  /\ \A f \in LockFile : f # NoFile => f.owner \in Window
BY WindowAssumption DEF NoFile, LockFile

LEMMA LockInitially == LockInit => LockInv
<1> SUFFICES ASSUME LockInit PROVE LockInv
  OBVIOUS
<1> USE NoFileFacts
<1>1. LockTypeOK
  BY DEF LockInit, LockTypeOK, Stage
<1>2. AttemptsAreFew
  BY DEF LockInit, AttemptsAreFew
<1>3. SoloInv
  BY DEF LockInit, SoloInv, OneIsAlive, Alive, HolderIsOwner, Arriving, UnfinishedIsWritten, Present, OneRename
<1>4. QED
  BY <1>1, <1>2, <1>3 DEF LockInv

(* Every step keeps the types and the count of attempts.                   *)
LEMMA LockTypesKept ==
  ASSUME LockTypeOK, AttemptsAreFew, [LockNext]_lockVars
  PROVE  LockTypeOK' /\ AttemptsAreFew'
<1> USE NoFileFacts
<1>1. ASSUME NEW w \in Window, OpenWindow(w) PROVE LockTypeOK' /\ AttemptsAreFew'
  BY <1>1 DEF OpenWindow, GoTo, LockTypeOK, AttemptsAreFew, Stage, Arriving
<1>2. ASSUME NEW w \in Window, CreateLock(w) PROVE LockTypeOK' /\ AttemptsAreFew'
  <2>1. [owner |-> w, complete |-> FALSE, aged |-> FALSE] \in LockFile
    BY DEF LockFile
  <2>2. lockFile' \in {lockFile, [owner |-> w, complete |-> FALSE, aged |-> FALSE]}
    BY <1>2 DEF CreateLock
  <2>3. lockFile' \in LockFile
    BY <2>1, <2>2 DEF LockTypeOK
  <2>4. QED
    BY <1>2, <2>3 DEF CreateLock, GoTo, LockTypeOK, AttemptsAreFew, Stage, Arriving
<1>3. ASSUME NEW w \in Window, WriteLock(w) PROVE LockTypeOK' /\ AttemptsAreFew'
  <2>1. lockFile' \in LockFile
    BY <1>3 DEF WriteLock, LockTypeOK, LockFile, NoFile
  <2>2. QED
    BY <1>3, <2>1 DEF WriteLock, GoTo, LockTypeOK, AttemptsAreFew, Stage, Arriving
<1>4. ASSUME NEW w \in Window, InspectLock(w) PROVE LockTypeOK' /\ AttemptsAreFew'
  BY <1>4 DEF InspectLock, GoTo, LockTypeOK, AttemptsAreFew, Stage, Arriving
<1>5. ASSUME NEW w \in Window, StatLock(w) PROVE LockTypeOK' /\ AttemptsAreFew'
  BY <1>5 DEF StatLock, GoTo, LockTypeOK, AttemptsAreFew, Stage, Arriving
<1>6. ASSUME NEW w \in Window, MoveAside(w) PROVE LockTypeOK' /\ AttemptsAreFew'
  <2>1. attempt[w] \in 0..2
    BY <1>6 DEF MoveAside, LockTypeOK, AttemptsAreFew, Arriving
  <2>2. preserved' \subseteq Window
    BY <1>6 DEF MoveAside, LockTypeOK, Present
  <2>3. QED
    BY <1>6, <2>1, <2>2 DEF MoveAside, GoTo, LockTypeOK, AttemptsAreFew, Stage, Arriving
<1>7. ASSUME NEW w \in Window, BeginRelease(w) \/ CheckToken(w) \/ UnlinkLock(w) \/ CrashWindow(w)
      PROVE LockTypeOK' /\ AttemptsAreFew'
  BY <1>7 DEF BeginRelease, CheckToken, UnlinkLock, CrashWindow, GoTo, LockTypeOK, AttemptsAreFew, Stage, Arriving
<1>8. ASSUME AgeLock PROVE LockTypeOK' /\ AttemptsAreFew'
  <2>1. lockFile' \in LockFile
    BY <1>8 DEF AgeLock, LockTypeOK, LockFile, Present
  <2>2. QED
    BY <1>8, <2>1 DEF AgeLock, LockTypeOK, AttemptsAreFew
<1>9. CASE UNCHANGED lockVars
  BY <1>9 DEF lockVars, LockTypeOK, AttemptsAreFew
<1>10. QED
  BY <1>1, <1>2, <1>3, <1>4, <1>5, <1>6, <1>7, <1>8, <1>9 DEF LockNext, LockStep

(* A window that steps is the one that is alive, so no other one is.       *)
LEMMA OthersAreGone ==
  ASSUME OneIsAlive, NEW w \in Window, Alive(w), NEW v \in Window, v # w
  PROVE  ~Alive(v)
BY DEF OneIsAlive

(* Solo: every step of a window keeps what the live window knows.          *)
LEMMA SoloKept ==
  ASSUME LockInv, Solo, [LockNext]_lockVars
  PROVE  SoloInv'
<1> USE NoFileFacts
<1> LockTypeOK /\ AttemptsAreFew /\ SoloInv
  BY DEF LockInv
<1>1. ASSUME NEW w \in Window, OpenWindow(w) PROVE SoloInv'
  BY <1>1 DEF OpenWindow, GoTo, LockTypeOK, AttemptsAreFew, SoloInv, OneIsAlive, Alive, HolderIsOwner, Arriving,
     UnfinishedIsWritten, Present, OneRename, Stage
<1>2. ASSUME NEW w \in Window, LockStep(w) \/ BeginRelease(w) \/ CrashWindow(w) PROVE SoloInv'
  <2>1. Alive(w)
    BY <1>2 DEF LockStep, CreateLock, WriteLock, InspectLock, StatLock, MoveAside, CheckToken, UnlinkLock,
       BeginRelease, CrashWindow, Alive
  <2>2. \A v \in Window : v # w => ~Alive(v)
    BY <2>1, OthersAreGone DEF SoloInv
  <2>3. \A v \in Window : v # w => stage'[v] = stage[v]
    BY <1>2 DEF LockStep, CreateLock, WriteLock, InspectLock, StatLock, MoveAside, CheckToken, UnlinkLock,
       BeginRelease, CrashWindow, GoTo, LockTypeOK
  <2>4. OneIsAlive'
    BY <2>2, <2>3 DEF OneIsAlive, Alive
  <2>5. CASE CreateLock(w)
    <3>1. stage'[w] = IF Present THEN "inspect" ELSE "write"
      BY <2>5 DEF CreateLock, GoTo, LockTypeOK
    <3>2. QED
      BY <2>2, <2>3, <2>4, <2>5, <3>1 DEF CreateLock, LockTypeOK, SoloInv, Alive, HolderIsOwner, Arriving,
         UnfinishedIsWritten, Present, OneRename, Stage
  <2>6. CASE WriteLock(w)
    <3>1. stage'[w] = "writing" /\ lockFile' = [lockFile EXCEPT !.complete = TRUE] /\ lockFile.owner = w
      BY <2>6 DEF WriteLock, GoTo, LockTypeOK, SoloInv, HolderIsOwner
    <3>2. lockFile'.owner = w /\ lockFile'.complete
      BY <3>1 DEF LockTypeOK, LockFile, NoFile
    <3>3. QED
      BY <2>2, <2>3, <2>4, <3>1, <3>2 DEF LockTypeOK, SoloInv, Alive, HolderIsOwner, Arriving,
         UnfinishedIsWritten, OneRename, Stage
  <2>7. CASE InspectLock(w)
    <3>1. lockFile.complete => ~Alive(lockFile.owner)
      BY <2>2, <2>7 DEF InspectLock, SoloInv, HolderIsOwner, Arriving, LockTypeOK
    <3>2. stage'[w] = IF lockFile.complete THEN "rename" ELSE "stat"
      BY <2>7, <3>1 DEF InspectLock, GoTo, LockTypeOK
    <3>3. QED
      BY <2>2, <2>3, <2>4, <2>7, <3>2 DEF InspectLock, LockTypeOK, SoloInv, Alive, HolderIsOwner, Arriving,
         UnfinishedIsWritten, Present, OneRename, Stage
  <2>8. CASE StatLock(w)
    <3>1. stage'[w] \in {"refused", "rename"}
      BY <2>8 DEF StatLock, GoTo, LockTypeOK
    <3>2. QED
      BY <2>2, <2>3, <2>4, <2>8, <3>1 DEF StatLock, LockTypeOK, SoloInv, Alive, HolderIsOwner, Arriving,
         UnfinishedIsWritten, Present, OneRename, Stage
  <2>9. CASE MoveAside(w)
    <3>1. stage'[w] = "create" /\ lockFile' = NoFile
      BY <2>9 DEF MoveAside, GoTo, LockTypeOK, SoloInv, OneRename
    <3>2. QED
      BY <2>2, <2>3, <2>4, <3>1 DEF SoloInv, Alive, HolderIsOwner, Arriving, UnfinishedIsWritten, Present, OneRename,
         LockTypeOK, Stage
  <2>10. CASE BeginRelease(w) \/ CheckToken(w) \/ CrashWindow(w)
    <3>1. stage'[w] \in {"check", "unlink", "closed", "dead"} /\ UNCHANGED lockFile
      BY <2>10 DEF BeginRelease, CheckToken, CrashWindow, GoTo, LockTypeOK
    <3>2. stage'[w] \in {"check", "unlink"} => lockFile.owner = w /\ lockFile.complete
      BY <2>10 DEF BeginRelease, CheckToken, CrashWindow, GoTo, LockTypeOK, SoloInv, HolderIsOwner
    <3>3. ~lockFile.complete /\ Present /\ lockFile.owner = w => stage'[w] = "dead"
      BY <2>10 DEF BeginRelease, CheckToken, CrashWindow, GoTo, LockTypeOK, SoloInv, HolderIsOwner, UnfinishedIsWritten
    <3>4. QED
      BY <2>2, <2>3, <2>4, <3>1, <3>2, <3>3 DEF SoloInv, Alive, HolderIsOwner, Arriving, UnfinishedIsWritten, Present,
         OneRename, LockTypeOK, Stage
  <2>11. CASE UnlinkLock(w)
    <3>1. stage'[w] = "closed" /\ lockFile' = NoFile
      BY <2>11 DEF UnlinkLock, GoTo, LockTypeOK
    <3>2. QED
      BY <2>2, <2>3, <2>4, <3>1 DEF SoloInv, Alive, HolderIsOwner, Arriving, UnfinishedIsWritten, Present, OneRename,
         LockTypeOK, Stage
  <2>12. QED
    BY <1>2, <2>5, <2>6, <2>7, <2>8, <2>9, <2>10, <2>11 DEF LockStep
<1>3. ASSUME AgeLock PROVE SoloInv'
  <2>1. lockFile'.owner = lockFile.owner /\ lockFile'.complete = lockFile.complete /\ Present /\ UNCHANGED <<stage, attempt>>
    BY <1>3 DEF AgeLock, LockTypeOK, LockFile, NoFile
  <2>2. QED
    BY <2>1 DEF SoloInv, OneIsAlive, Alive, HolderIsOwner, Arriving, UnfinishedIsWritten, OneRename
<1>4. CASE UNCHANGED lockVars
  BY <1>4 DEF lockVars, SoloInv, OneIsAlive, Alive, HolderIsOwner, Arriving, UnfinishedIsWritten, Present, OneRename
<1>5. QED
  BY <1>1, <1>2, <1>3, <1>4 DEF LockNext

(* The lock's invariant holds in every reachable state.                    *)
THEOREM LockInvariance == LockSpec => []LockInv
<1>1. LockInv /\ [LockNext]_lockVars => LockInv'
  BY LockTypesKept, SoloKept DEF LockInv
<1>2. QED
  BY LockInitially, <1>1, PTL DEF LockSpec

(* However many windows there are and wherever they are killed, the window *)
(* that writes is the one the complete record names.                       *)
THEOREM TheHolderIsNamed == LockSpec => []HolderIsNamed
<1>1. LockInv => HolderIsNamed
  BY DEF LockInv, SoloInv, HolderIsOwner, HolderIsNamed
<1>2. QED
  BY LockInvariance, <1>1, PTL

(* While the single-instance lock admits one window at a time, two windows *)
(* never write.  The lock file alone does not ensure it: OneWriter fails    *)
(* when two windows judge the same stale record.                           *)
THEOREM SoloWindowWritesAlone == ASSUME Solo PROVE LockSpec => []OneWriter
<1>1. LockInv => OneWriter
  BY DEF LockInv, SoloInv, OneIsAlive, Alive, OneWriter
<1>2. QED
  BY LockInvariance, <1>1, PTL

(* A start is refused only for a fresh unfinished record of a killed       *)
(* window.                                                                 *)
THEOREM StartsAreRefusedWhileFresh == LockSpec => RefusedOnlyWhileFresh
<1>1. ASSUME LockInv, [LockNext]_lockVars, Solo, NEW w \in Window, stage[w] # "refused", stage'[w] = "refused"
      PROVE  Present /\ ~lockFile.complete /\ ~lockFile.aged /\ stage[lockFile.owner] = "dead"
  <2> USE NoFileFacts
  <2> LockTypeOK /\ SoloInv
    BY <1>1 DEF LockInv
  <2>1. PICK v \in Window : \/ InspectLock(v) /\ lockFile.complete /\ Alive(lockFile.owner)
                            \/ StatLock(v) /\ Present /\ ~lockFile.aged
                            \/ MoveAside(v) /\ attempt[v] = 2
    BY <1>1 DEF LockNext, LockStep, OpenWindow, CreateLock, WriteLock, InspectLock, StatLock, MoveAside, CheckToken,
       UnlinkLock, BeginRelease, CrashWindow, AgeLock, GoTo, lockVars, LockTypeOK
  <2>2. CASE InspectLock(v) /\ lockFile.complete /\ Alive(lockFile.owner)
    BY <2>2 DEF InspectLock, SoloInv, OneIsAlive, HolderIsOwner, Arriving, Alive, LockTypeOK
  <2>3. CASE StatLock(v) /\ Present /\ ~lockFile.aged
    <3>1. lockFile.owner \in Window /\ lockFile.owner # v /\ ~lockFile.complete
      BY <2>3 DEF StatLock, SoloInv, HolderIsOwner, Arriving, OneRename, LockTypeOK, Present
    <3>2. stage[lockFile.owner] # "write"
      BY <2>3, <3>1 DEF StatLock, SoloInv, OneIsAlive, Alive
    <3>3. QED
      BY <2>3, <3>1, <3>2 DEF SoloInv, UnfinishedIsWritten
  <2>4. CASE MoveAside(v) /\ attempt[v] = 2
    BY <2>4 DEF MoveAside, SoloInv, OneRename
  <2>5. QED
    BY <2>1, <2>2, <2>3, <2>4
<1>2. LockInv /\ [LockNext]_lockVars =>
        [\A w \in Window : Solo /\ stage[w] # "refused" /\ stage'[w] = "refused" =>
           /\ Present /\ ~lockFile.complete /\ ~lockFile.aged
           /\ stage[lockFile.owner] = "dead"]_lockVars
  BY <1>1
<1>3. QED
  BY LockInvariance, <1>2, PTL DEF LockSpec, RefusedOnlyWhileFresh

-----------------------------------------------------------------------------
(* ProjectLibrary.  A folder half way to the new format has a backup.      *)

(* The version file of a folder that was written i-th has number i.        *)
Numbered(f) == \A i \in DOMAIN f.directions : f.directions[i].revision = i

(* A folder of format 1 has a database of format 1 that records it.        *)
Agrees(f) == f.manifest = 1 => f.schema = 1 /\ f.hash = 1

SoundFolder(f) == f \in Folder /\ Numbered(f) /\ Agrees(f)

(* A verified backup of the project as it was before its format update.    *)
HasOldBackup(p) == \E b \in backups : /\ b.project = p
                                      /\ b.copy.manifest = 1 /\ b.copy.schema = 1 /\ b.copy.hash = 1
Covered(p, f) == f.manifest = 2 /\ f.hash = 1 => HasOldBackup(p)

FoldersSound ==
  /\ \A p \in Project : SoundFolder(disk[p]) /\ Covered(p, disk[p])
  /\ \A b \in backups : SoundFolder(b.copy) /\ Covered(b.project, b.copy)
  /\ \A s \in strays : SoundFolder(s.copy)

OperationSound ==
  operation # NoOperation =>
    /\ SoundFolder(operation.copy) /\ Covered(operation.project, operation.copy)
    /\ operation.stage = "saved" => operation.kind = "migrate" /\ HasOldBackup(operation.project)
    /\ operation.kind = "migrate" => disk[operation.project].manifest = 1
    /\ operation.kind = "migrate" /\ operation.stage = "copied" => operation.copy.manifest = 1

LibraryInv == LibraryTypeOK /\ IndexedAtHome /\ FoldersSound /\ OperationSound

(* What a folder is when it is absent, of the older release or being built.*)
LEMMA FirstFolders ==
  /\ SoundFolder(Absent) /\ SoundFolder(OldProject)
  /\ \A k \in 0..6 : SoundFolder(Built(k)) /\ Built(k).manifest \in {0, 2} /\ Built(k).hash \in {0, 2}
  /\ Absent.manifest = 0 /\ OldProject.schema = 1 /\ OldProject.manifest = 1 /\ OldProject.hash = 1
<1> DEFINE Version == [revision : 1..MaxVersions, readable : BOOLEAN]
           Directions == UNION {[1..n -> Version] : n \in 0..MaxVersions}
<1>1. <<>> \in Directions /\ FirstDirection \in Directions
  <2>1. <<>> \in [1..0 -> Version] /\ 0 \in 0..MaxVersions
    BY LibraryBounds
  <2>2. FirstDirection \in [1..1 -> Version] /\ 1 \in 0..MaxVersions
    <3>1. [revision |-> 1, readable |-> TRUE] \in Version /\ 1 \in 0..MaxVersions
      BY LibraryBounds
    <3>2. FirstDirection \in Seq(Version) /\ Len(FirstDirection) = 1
      BY <3>1 DEF FirstDirection
    <3>3. QED
      BY <3>1, <3>2, LenProperties
  <2>3. QED
    BY <2>1, <2>2
<1>2. \A m, s, h \in 0..2 : \A d \in {<<>>, FirstDirection} : \A b \in BOOLEAN :
        [manifest |-> m, schema |-> s, hash |-> h, directions |-> d, files |-> {}, rows |-> {}, folder |-> b] \in Folder
  BY <1>1 DEF Folder
<1>3. \A d \in {<<>>, FirstDirection} : \A i \in DOMAIN d : d[i].revision = i
  BY DEF FirstDirection
<1>4. SoundFolder(Absent) /\ SoundFolder(OldProject) /\ Absent.manifest = 0
      /\ OldProject.schema = 1 /\ OldProject.manifest = 1 /\ OldProject.hash = 1
  <2>1. OldProject = [manifest |-> 1, schema |-> 1, hash |-> 1, directions |-> <<>>,
                      files |-> {}, rows |-> {}, folder |-> TRUE]
    <3>1. PICK v \in {1}, t \in {TRUE} :
            OldProject = [Absent EXCEPT !.manifest = v, !.schema = v, !.hash = v, !.folder = t]
      BY DEF OldProject
    <3>2. OldProject = [manifest |-> v, schema |-> v, hash |-> v, directions |-> <<>>,
                        files |-> {}, rows |-> {}, folder |-> t]
      BY <3>1 DEF Absent
    <3>3. QED
      BY <3>2
  <2> 0 \in 0..2 /\ 1 \in 0..2
    OBVIOUS
  <2>2. OldProject \in Folder
    BY <1>2, <2>1, Zenon
  <2>3. Absent \in Folder
    BY <1>2, Zenon DEF Absent
  <2>4. OldProject.directions = <<>> /\ Absent.directions = <<>> /\ Absent.manifest = 0
        /\ OldProject.schema = 1 /\ OldProject.manifest = 1 /\ OldProject.hash = 1
    BY <2>1 DEF Absent
  <2>5. QED
    BY <1>3, <2>2, <2>3, <2>4 DEF SoundFolder, Numbered, Agrees
<1>5. ASSUME NEW k \in 0..6
      PROVE  SoundFolder(Built(k)) /\ Built(k).manifest \in {0, 2} /\ Built(k).hash \in {0, 2}
  <2>1. PICK m \in {0, 2}, s \in 0..2, h \in {0, 2}, d \in {<<>>, FirstDirection} :
          Built(k) = [Absent EXCEPT !.folder = TRUE, !.manifest = m, !.directions = d,
                                    !.schema = s, !.hash = h]
    <3>1. PICK m \in {0, 2}, s \in 0..2, h \in {0, 2}, d \in {<<>>, FirstDirection} :
            /\ m = IF k >= 1 THEN 2 ELSE 0
            /\ s = CASE k >= 4 -> 2 [] k = 3 -> 1 [] OTHER -> 0
            /\ h = IF k >= 5 THEN 2 ELSE 0
            /\ d = IF k >= 2 THEN FirstDirection ELSE <<>>
      OBVIOUS
    <3>2. QED
      BY <3>1, Zenon DEF Built
  <2>2. Built(k) = [manifest |-> m, schema |-> s, hash |-> h, directions |-> d,
                      files |-> {}, rows |-> {}, folder |-> TRUE]
    BY <2>1 DEF Absent
  <2> m \in 0..2 /\ h \in 0..2
    OBVIOUS
  <2>3. Built(k) \in Folder
    BY <1>2, <2>2, Zenon
  <2>4. Built(k).directions = d /\ Built(k).manifest = m /\ Built(k).hash = h
    BY <2>2
  <2>5. QED
    BY <1>3, <2>3, <2>4 DEF SoundFolder, Numbered, Agrees
<1>6. QED
  BY <1>4, <1>5

(* A folder keeps its soundness when its format, files or rows change.     *)
WithFormat(f, m, s, h) == [f EXCEPT !.manifest = m, !.schema = s, !.hash = h]
WithFiles(f, x) == [f EXCEPT !.files = x]
WithRows(f, x) == [f EXCEPT !.rows = x]

LEMMA FormatWritten ==
  ASSUME NEW f \in Folder, Numbered(f), NEW m \in 0..2, NEW s \in 0..2, NEW h \in 0..2
  PROVE  /\ WithFormat(f, m, s, h) \in Folder /\ Numbered(WithFormat(f, m, s, h))
         /\ WithFormat(f, m, s, h).manifest = m /\ WithFormat(f, m, s, h).schema = s
         /\ WithFormat(f, m, s, h).hash = h
BY DEF Folder, Numbered, WithFormat

LEMMA ContentWritten ==
  ASSUME NEW f \in Folder, Numbered(f), NEW x \in SUBSET Import
  PROVE  /\ WithFiles(f, x) \in Folder /\ Numbered(WithFiles(f, x))
         /\ WithFiles(f, x).manifest = f.manifest /\ WithFiles(f, x).schema = f.schema
         /\ WithFiles(f, x).hash = f.hash
         /\ WithRows(f, x) \in Folder /\ Numbered(WithRows(f, x))
         /\ WithRows(f, x).manifest = f.manifest /\ WithRows(f, x).schema = f.schema
         /\ WithRows(f, x).hash = f.hash
BY DEF Folder, Numbered, WithFiles, WithRows

LEMMA VersionAdded ==
  ASSUME NEW f \in Folder, Numbered(f), NextRevision(f) <= MaxVersions
  PROVE  LET g == [f EXCEPT !.directions = Append(@, [revision |-> NextRevision(f), readable |-> TRUE])]
         IN g \in Folder /\ Numbered(g) /\ g.manifest = f.manifest /\ g.schema = f.schema /\ g.hash = f.hash
<1> DEFINE Version == [revision : 1..MaxVersions, readable : BOOLEAN]
           d == f.directions
           e == Append(d, [revision |-> NextRevision(f), readable |-> TRUE])
<1>1. PICK n \in 0..MaxVersions : d \in [1..n -> Version]
  BY DEF Folder
<1>2. Revisions(f) = 1..n
  BY <1>1 DEF Revisions, Numbered
<1>3. NextRevision(f) = n + 1
  <2>1. CASE n = 0
    BY <1>1, <1>2, <2>1 DEF NextRevision
  <2>2. CASE n # 0
    <3>1. n \in Revisions(f) /\ (\A q \in Revisions(f) : q <= n) /\ Revisions(f) # {}
      <4>1. n \in Nat /\ n >= 1
        BY <2>2, LibraryBounds
      <4>2. n \in 1..n /\ \A q \in 1..n : q <= n
        BY <4>1
      <4>3. QED
        BY <1>2, <4>2
    <3>2. \A r \in Revisions(f) : (\A q \in Revisions(f) : q <= r) => r = n
      BY <1>1, <1>2, <3>1
    <3>3. (CHOOSE r \in Revisions(f) : \A q \in Revisions(f) : q <= r) = n
      BY <3>1, <3>2
    <3>4. NextRevision(f) = 1 + n
      BY <3>1, <3>3 DEF NextRevision
    <3>5. QED
      BY <3>4, LibraryBounds
  <2>3. QED
    BY <2>1, <2>2
<1>4. d \in Seq(Version) /\ Len(d) = n
  <2>1. n \in Nat
    BY LibraryBounds
  <2>2. d \in Seq(Version)
    <3>1. Seq(Version) = UNION {[1..m -> Version] : m \in Nat}
      BY SeqDef, Zenon
    <3>2. QED
      BY <1>1, <2>1, <3>1, Zenon
  <2>3. QED
    BY <1>1, <2>1, <2>2, LenProperties
<1>5. [revision |-> n + 1, readable |-> TRUE] \in Version /\ n + 1 \in 0..MaxVersions
  BY <1>3, LibraryBounds
<1>6. /\ e \in [1..(n + 1) -> Version]
      /\ \A i \in 1..n : e[i] = d[i]
      /\ e[n + 1] = [revision |-> n + 1, readable |-> TRUE]
  <2>1. n \in Nat /\ e = Append(d, [revision |-> n + 1, readable |-> TRUE])
    BY <1>3, LibraryBounds
  <2>2. e \in Seq(Version) /\ Len(e) = n + 1
    BY <1>4, <1>5, <2>1
  <2>3. /\ \A i \in 1..n : e[i] = d[i]
        /\ e[n + 1] = [revision |-> n + 1, readable |-> TRUE]
    BY <1>4, <2>1
  <2>4. e \in [1..(n + 1) -> Version]
    BY <2>2, LenProperties
  <2>5. QED
    BY <2>3, <2>4
<1>7. e \in UNION {[1..m -> Version] : m \in 0..MaxVersions}
  BY <1>5, <1>6
<1>8. \A i \in DOMAIN e : e[i].revision = i
  BY <1>1, <1>6 DEF Numbered
<1> HIDE DEF e
<1>9. [f EXCEPT !.directions = e] \in Folder
  BY <1>7 DEF Folder
<1>10. [f EXCEPT !.directions = e].directions = e /\ [f EXCEPT !.directions = e].manifest = f.manifest
       /\ [f EXCEPT !.directions = e].schema = f.schema /\ [f EXCEPT !.directions = e].hash = f.hash
  BY DEF Folder
<1>11. Numbered([f EXCEPT !.directions = e])
  BY <1>8, <1>10 DEF Numbered
<1>12. QED
  BY <1>9, <1>10, <1>11 DEF e

LEMMA VersionDamaged ==
  ASSUME NEW f \in Folder, Numbered(f), NEW i \in DOMAIN f.directions
  PROVE  LET g == [f EXCEPT !.directions[i].readable = FALSE]
         IN g \in Folder /\ Numbered(g) /\ g.manifest = f.manifest /\ g.schema = f.schema /\ g.hash = f.hash
<1> DEFINE Version == [revision : 1..MaxVersions, readable : BOOLEAN]
           d == f.directions
           e == [d EXCEPT ![i].readable = FALSE]
<1>1. PICK n \in 0..MaxVersions : d \in [1..n -> Version]
  BY DEF Folder
<1>2. e \in [1..n -> Version] /\ (\A j \in DOMAIN e : e[j].revision = d[j].revision)
  BY <1>1
<1>3. e \in UNION {[1..m -> Version] : m \in 0..MaxVersions}
  BY <1>2
<1>4. \A j \in DOMAIN e : e[j].revision = j
  BY <1>1, <1>2 DEF Numbered
<1>5. [f EXCEPT !.directions[i].readable = FALSE] = [f EXCEPT !.directions = e]
  OBVIOUS
<1> HIDE DEF e
<1>6. [f EXCEPT !.directions = e] \in Folder
  BY <1>3 DEF Folder
<1>7. [f EXCEPT !.directions = e].directions = e /\ [f EXCEPT !.directions = e].manifest = f.manifest
       /\ [f EXCEPT !.directions = e].schema = f.schema /\ [f EXCEPT !.directions = e].hash = f.hash
  BY DEF Folder
<1>8. Numbered([f EXCEPT !.directions = e])
  BY <1>4, <1>7 DEF Numbered
<1>9. QED
  BY <1>5, <1>6, <1>7, <1>8

(* Backups are only ever added: what covers a project goes on covering it. *)
LEMMA CoverKept ==
  ASSUME backups \subseteq backups'
  PROVE  /\ \A p : HasOldBackup(p) => HasOldBackup(p)'
         /\ \A p, f : Covered(p, f) => Covered(p, f)'
BY DEF HasOldBackup, Covered

(* A step that rewrites the folder of one project by a sound and covered   *)
(* one and starts no operation.                                            *)
LEMMA OneFolderWritten ==
  ASSUME LibraryInv, NEW p \in Project, NEW g,
         disk' = [disk EXCEPT ![p] = g], SoundFolder(g), Covered(p, g),
         UNCHANGED <<strays, backups>>,
         operation' = NoOperation \/ (UNCHANGED operation /\ g.manifest = disk[p].manifest)
  PROVE  FoldersSound' /\ OperationSound' /\ disk' \in [Project -> Folder]
<1> USE CoverKept
<1>1. disk' \in [Project -> Folder] /\ \A q \in Project : disk'[q] = IF q = p THEN g ELSE disk[q]
  BY DEF LibraryInv, LibraryTypeOK, SoundFolder
<1>2. FoldersSound'
  BY <1>1 DEF LibraryInv, FoldersSound
<1>3. CASE operation' = NoOperation
  BY <1>1, <1>2, <1>3 DEF OperationSound
<1>4. CASE UNCHANGED operation /\ g.manifest = disk[p].manifest
  <2>1. operation # NoOperation => operation.project \in Project
    BY DEF LibraryInv, LibraryTypeOK
  <2>2. OperationSound'
    BY <1>1, <1>4, <2>1 DEF LibraryInv, OperationSound
  <2>3. QED
    BY <1>1, <1>2, <2>2
<1>5. QED
  BY <1>3, <1>4

LEMMA CatalogKept ==
  ASSUME LibraryInv
  PROVE  /\ Reconciled(catalog) \in [Project -> Row]
         /\ \A p \in Project : Reconciled(catalog)[p].place # "stray"
         /\ \A p \in Project, v \in 0..2 :
              /\ Indexed(catalog, p, v) \in [Project -> Row]
              /\ \A q \in Project : Indexed(catalog, p, v)[q].place # "stray"
<1>1. \A p \in Project : disk[p].manifest \in 0..2 /\ catalog[p] \in Row /\ catalog[p].place # "stray"
  BY DEF LibraryInv, LibraryTypeOK, Folder, IndexedAtHome
<1>2. \A v \in 0..2 : [manifest |-> v, place |-> "home"] \in Row
  BY DEF Row
<1>3. \A p \in Project : Reconciled(catalog)[p] = IF disk[p].manifest # 0
                                                 THEN [manifest |-> disk[p].manifest, place |-> "home"]
                                                 ELSE catalog[p]
  BY DEF Reconciled, NameMatches
<1>4. Reconciled(catalog) = [p \in Project |-> Reconciled(catalog)[p]]
  BY DEF Reconciled
<1>5. Reconciled(catalog) \in [Project -> Row]
  BY <1>1, <1>2, <1>3, <1>4
<1>6. \A p \in Project, v \in 0..2 :
        /\ Indexed(catalog, p, v) \in [Project -> Row]
        /\ \A q \in Project : Indexed(catalog, p, v)[q].place # "stray"
  BY <1>1, <1>2 DEF LibraryInv, LibraryTypeOK, Indexed
<1>7. QED
  BY <1>1, <1>3, <1>5, <1>6

LEMMA LibraryInitially == LibraryInit => LibraryInv
<1> SUFFICES ASSUME LibraryInit PROVE LibraryInv
  OBVIOUS
<1>1. \A p \in Project : SoundFolder(disk[p]) /\ Covered(p, disk[p]) /\ catalog[p] \in Row /\ catalog[p].place # "stray"
  BY FirstFolders DEF LibraryInit, Covered, Row, NotIndexed
<1>2. disk \in [Project -> Folder] /\ catalog \in [Project -> Row]
  BY <1>1, FirstFolders DEF LibraryInit, SoundFolder
<1>3. QED
  BY <1>1, <1>2 DEF LibraryInit, LibraryInv, LibraryTypeOK, IndexedAtHome, FoldersSound, OperationSound

LEMMA LibraryStep ==
  ASSUME LibraryInv, [LibraryNext]_libraryVars
  PROVE  LibraryInv'
<1> USE CatalogKept, CoverKept
<1> LibraryTypeOK /\ IndexedAtHome /\ FoldersSound /\ OperationSound
  BY DEF LibraryInv
<1>t. \A p \in Project : disk[p] \in Folder /\ SoundFolder(disk[p]) /\ Covered(p, disk[p])
                         /\ disk[p].manifest \in 0..2 /\ disk[p].hash \in 0..2
                         /\ disk[p].files \subseteq Import /\ disk[p].rows \subseteq Import
  BY DEF LibraryTypeOK, FoldersSound, Folder
<1>1. ASSUME NEW p \in Project, CreateProject(p) PROVE LibraryInv'
  <2>1. PICK k \in 0..6 :
          /\ disk' = [disk EXCEPT ![p] = Built(k)]
          /\ catalog' = IF k = 6 THEN Indexed(catalog, p, 2) ELSE catalog
          /\ up' \in IF k = 6 THEN {TRUE} ELSE BOOLEAN
    BY <1>1 DEF CreateProject
  <2>2. SoundFolder(Built(k)) /\ Covered(p, Built(k))
    BY FirstFolders DEF Covered
  <2>3. UNCHANGED <<strays, backups, operation, unrecovered>> /\ operation = NoOperation
    BY <1>1 DEF CreateProject, Idle
  <2>4. FoldersSound' /\ OperationSound' /\ disk' \in [Project -> Folder]
    BY <2>1, <2>2, <2>3, OneFolderWritten
  <2>5. catalog' \in [Project -> Row] /\ IndexedAtHome'
    BY <2>1 DEF IndexedAtHome, LibraryTypeOK
  <2>6. up' \in BOOLEAN
    BY <2>1
  <2>7. QED
    BY <2>3, <2>4, <2>5, <2>6 DEF LibraryInv, LibraryTypeOK
<1>2. ASSUME NEW p \in Project, LoseFolder(p) PROVE LibraryInv'
  <2>1. FoldersSound' /\ OperationSound' /\ disk' \in [Project -> Folder]
    <3>1. SoundFolder(Absent) /\ Covered(p, Absent)
      BY FirstFolders DEF Covered
    <3>2. QED
      BY <1>2, <3>1, OneFolderWritten DEF LoseFolder
  <2>2. QED
    BY <1>2, <2>1 DEF LoseFolder, LibraryInv, LibraryTypeOK, IndexedAtHome
<1>3. ASSUME NEW p \in Project, NEW seen \in 0..MaxVersions, SaveCreativeDirection(p, seen) PROVE LibraryInv'
  <2> DEFINE g == [disk[p] EXCEPT !.directions = Append(@, [revision |-> NextRevision(disk[p]), readable |-> TRUE])]
  <2>1. disk' = [disk EXCEPT ![p] = g]
    BY <1>3 DEF SaveCreativeDirection
  <2>2. g \in Folder /\ Numbered(g) /\ g.manifest = disk[p].manifest /\ g.schema = disk[p].schema
        /\ g.hash = disk[p].hash
    BY <1>3, <1>t, VersionAdded DEF SaveCreativeDirection, SoundFolder
  <2> HIDE DEF g
  <2>3. SoundFolder(g) /\ Covered(p, g)
    BY <1>t, <2>2 DEF SoundFolder, Agrees, Covered
  <2>4. UNCHANGED <<strays, backups, operation, unrecovered, up>> /\ catalog' = Reconciled(catalog)
    BY <1>3 DEF SaveCreativeDirection
  <2>5. FoldersSound' /\ OperationSound' /\ disk' \in [Project -> Folder]
    BY <2>1, <2>2, <2>3, <2>4, OneFolderWritten
  <2>6. QED
    BY <2>4, <2>5 DEF LibraryInv, LibraryTypeOK, IndexedAtHome
<1>4. ASSUME NEW p \in Project, NEW kind \in {"backup", "migrate"}, BeginBackup(p, kind) PROVE LibraryInv'
  <2>1. operation' = [kind |-> kind, project |-> p, stage |-> "listed", listed |-> disk[p].files, copy |-> Absent]
        /\ (kind = "migrate" => disk[p].manifest = 1)
        /\ catalog' = Reconciled(catalog) /\ UNCHANGED <<disk, strays, backups, unrecovered, up>>
    BY <1>4 DEF BeginBackup
  <2>2. operation' \in [kind : {"backup", "migrate", "restore"}, project : Project,
                        stage : {"listed", "files", "copied", "saved", "checked", "aside"},
                        listed : SUBSET Import, copy : Folder]
    BY <1>t, <2>1, FirstFolders DEF SoundFolder
  <2>3. OperationSound'
    BY <2>1, FirstFolders DEF OperationSound, Covered
  <2>4. QED
    BY <2>1, <2>2, <2>3 DEF LibraryInv, LibraryTypeOK, IndexedAtHome, FoldersSound
<1>o. operation.kind # "none" =>
        /\ operation # NoOperation
        /\ operation \in [kind : {"backup", "migrate", "restore"}, project : Project,
                          stage : {"listed", "files", "copied", "saved", "checked", "aside"},
                          listed : SUBSET Import, copy : Folder]
  BY DEF NoOperation, LibraryTypeOK
<1>5. ASSUME CopyFiles PROVE LibraryInv'
  <2>g. PICK g : g = WithFiles(operation.copy, operation.listed)
    OBVIOUS
  <2>1. operation' = [operation EXCEPT !.stage = "files", !.copy = g]
    BY <1>5, <2>g DEF CopyFiles, WithFiles
  <2>2. g \in Folder /\ Numbered(g) /\ g.manifest = operation.copy.manifest /\ g.schema = operation.copy.schema
        /\ g.hash = operation.copy.hash
    <3>1. operation.copy \in Folder /\ Numbered(operation.copy) /\ operation.listed \in SUBSET Import
      BY <1>5, <1>o DEF CopyFiles, OperationSound, SoundFolder
    <3>2. QED
      BY <2>g, <3>1, ContentWritten
  <2>3. /\ operation' \in [kind : {"backup", "migrate", "restore"}, project : Project,
                        stage : {"listed", "files", "copied", "saved", "checked", "aside"},
                        listed : SUBSET Import, copy : Folder]
        /\ operation'.kind = operation.kind /\ operation'.project = operation.project
        /\ operation'.copy = g /\ operation'.stage = "files"
    BY <1>5, <1>o, <2>1, <2>2 DEF CopyFiles
  <2>4. SoundFolder(g) /\ Covered(operation.project, g)
    BY <1>5, <1>o, <2>2 DEF CopyFiles, OperationSound, SoundFolder, Agrees, Covered
  <2>5. OperationSound'
    BY <1>5, <1>o, <2>3, <2>4 DEF CopyFiles, OperationSound
  <2>6. QED
    BY <1>5, <2>3, <2>5 DEF CopyFiles, LibraryInv, LibraryTypeOK, IndexedAtHome, FoldersSound
<1>6. ASSUME CopyDatabase PROVE LibraryInv'
  <2>g. PICK g : g = WithFiles(disk[operation.project], operation.copy.files)
    OBVIOUS
  <2>o. operation.project \in Project /\ operation.copy.files \subseteq Import
    BY <1>6, <1>o DEF CopyDatabase, Folder
  <2>1. operation' = [operation EXCEPT !.stage = "copied", !.copy = g]
    BY <1>6, <2>g DEF CopyDatabase, WithFiles
  <2>2. g \in Folder /\ Numbered(g) /\ g.manifest = disk[operation.project].manifest
        /\ g.schema = disk[operation.project].schema /\ g.hash = disk[operation.project].hash
    <3>1. disk[operation.project] \in Folder /\ Numbered(disk[operation.project])
          /\ operation.copy.files \in SUBSET Import
      BY <1>t, <2>o DEF SoundFolder
    <3>2. QED
      BY <2>g, <3>1, ContentWritten
  <2>3. /\ operation' \in [kind : {"backup", "migrate", "restore"}, project : Project,
                        stage : {"listed", "files", "copied", "saved", "checked", "aside"},
                        listed : SUBSET Import, copy : Folder]
        /\ operation'.kind = operation.kind /\ operation'.project = operation.project
        /\ operation'.copy = g /\ operation'.stage = "copied"
    BY <1>6, <1>o, <2>1, <2>2 DEF CopyDatabase
  <2>4. SoundFolder(g) /\ Covered(operation.project, g)
    BY <1>t, <2>o, <2>2 DEF SoundFolder, Agrees, Covered
  <2>5. OperationSound'
    BY <1>6, <1>o, <2>2, <2>3, <2>4 DEF CopyDatabase, OperationSound
  <2>6. QED
    BY <1>6, <2>3, <2>5 DEF CopyDatabase, LibraryInv, LibraryTypeOK, IndexedAtHome, FoldersSound
<1>7. ASSUME PublishBackup PROVE LibraryInv'
  <2>b. PICK b : b = [project |-> operation.project, copy |-> operation.copy]
    OBVIOUS
  <2>o. operation.project \in Project /\ operation.copy \in Folder /\ operation # NoOperation
    BY <1>7, <1>o DEF PublishBackup
  <2>1. backups' = backups \cup {b} /\ b \in [project : Project, copy : Folder]
        /\ b.project = operation.project /\ b.copy = operation.copy
    BY <1>7, <2>b, <2>o DEF PublishBackup
  <2>2. SoundFolder(b.copy) /\ Covered(b.project, b.copy) /\ Covered(b.project, b.copy)'
    <3>1. SoundFolder(b.copy) /\ Covered(b.project, b.copy)
      BY <2>o, <2>1 DEF OperationSound
    <3>2. backups \subseteq backups'
      BY <2>1
    <3>3. QED
      BY <3>1, <3>2
  <2>3. FoldersSound'
    BY <1>7, <2>1, <2>2 DEF PublishBackup, FoldersSound
  <2>4. CASE operation.kind = "backup"
    BY <1>7, <2>1, <2>3, <2>4 DEF PublishBackup, LibraryInv, LibraryTypeOK, IndexedAtHome, OperationSound
  <2>5. CASE operation.kind = "migrate"
    <3>1. b.copy.manifest = 1 /\ b.copy.schema = 1 /\ b.copy.hash = 1
      BY <1>7, <2>o, <2>1, <2>2, <2>5 DEF PublishBackup, OperationSound, SoundFolder, Agrees
    <3>3. operation' = [operation EXCEPT !.stage = "saved"] /\ UNCHANGED disk
      BY <1>7, <2>5 DEF PublishBackup
    <3>4. /\ operation' \in [kind : {"backup", "migrate", "restore"}, project : Project,
                        stage : {"listed", "files", "copied", "saved", "checked", "aside"},
                        listed : SUBSET Import, copy : Folder]
          /\ operation'.kind = operation.kind /\ operation'.project = operation.project
          /\ operation'.copy = operation.copy /\ operation'.stage = "saved"
      BY <1>o, <2>5, <3>3
    <3>2. HasOldBackup(operation.project)'
      <4>1. b \in backups' /\ b.project = operation'.project
        BY <2>1, <3>4
      <4>2. QED
        BY <3>1, <4>1, Zenon DEF HasOldBackup
    <3>5. OperationSound'
      BY <2>o, <2>1, <2>5, <3>2, <3>3, <3>4 DEF OperationSound
    <3>6. QED
      BY <1>7, <2>1, <2>3, <3>4, <3>5 DEF PublishBackup, LibraryInv, LibraryTypeOK, IndexedAtHome
  <2>6. QED
    BY <1>7, <2>4, <2>5 DEF PublishBackup
<1>8. ASSUME FailOperation PROVE LibraryInv'
  BY <1>8 DEF FailOperation, LibraryInv, LibraryTypeOK, IndexedAtHome, FoldersSound, OperationSound
<1>9. ASSUME MigrationSucceeds \/ MigrationCrashes \/ MigrationRollsBack PROVE LibraryInv'
  <2> DEFINE p == operation.project
             f == disk[p]
  <2>o. operation.stage = "saved" /\ up /\ operation # NoOperation
    <3>1. operation.stage = "saved" /\ up
      BY <1>9 DEF MigrationSucceeds, MigrationCrashes, MigrationRollsBack
    <3>2. QED
      BY <3>1 DEF NoOperation
  <2>1. p \in Project /\ f \in Folder /\ f.manifest = 1 /\ f.schema = 1 /\ f.hash = 1 /\ Numbered(f) /\ HasOldBackup(p)
    BY <1>t, <2>o DEF OperationSound, SoundFolder, Agrees, LibraryTypeOK
  <2> HIDE DEF f
  <2>2. \A m, s, h \in 0..2 : (m = 2 \/ (m = 1 /\ s = 1 /\ h = 1)) =>
          SoundFolder(WithFormat(f, m, s, h)) /\ Covered(p, WithFormat(f, m, s, h))
    BY <2>1, FormatWritten DEF SoundFolder, Agrees, Covered
  <2>3. ASSUME NEW g, SoundFolder(g), Covered(p, g),
               NEW rows, rows \in {catalog, Indexed(catalog, p, 2), Indexed(catalog, p, 1)},
               NEW broken \in SUBSET Project, NEW alive \in BOOLEAN,
               EndMigration(g, rows, broken, alive)
        PROVE  LibraryInv'
    <3>1. FoldersSound' /\ OperationSound' /\ disk' \in [Project -> Folder]
      BY <2>1, <2>3, OneFolderWritten DEF EndMigration
    <3>2. catalog' \in [Project -> Row] /\ IndexedAtHome'
      BY <2>1, <2>3 DEF EndMigration, LibraryTypeOK, IndexedAtHome
    <3>3. QED
      BY <2>3, <3>1, <3>2 DEF EndMigration, LibraryInv, LibraryTypeOK
  <2>4. \A k \in 0..2 : SoundFolder(Migrated(f, k)) /\ Covered(p, Migrated(f, k))
    <3> SUFFICES ASSUME NEW k \in 0..2 PROVE SoundFolder(Migrated(f, k)) /\ Covered(p, Migrated(f, k))
      OBVIOUS
    <3>1. PICK m, s, h \in 0..2 :
            /\ m = IF k >= 1 THEN 2 ELSE f.manifest
            /\ s = IF k >= 2 THEN 2 ELSE f.schema
            /\ h = IF k >= 2 THEN 2 ELSE f.hash
      BY <2>1 DEF Folder
    <3>2. Migrated(f, k) = WithFormat(f, m, s, h)
      BY <3>1 DEF Migrated, WithFormat
    <3>3. QED
      BY <2>1, <2>2, <3>1, <3>2
  <2>5. \A k, u \in 0..2 : SoundFolder(RolledBack(f, k, u)) /\ Covered(p, RolledBack(f, k, u))
    <3> SUFFICES ASSUME NEW k \in 0..2, NEW u \in 0..2
                 PROVE SoundFolder(RolledBack(f, k, u)) /\ Covered(p, RolledBack(f, k, u))
      OBVIOUS
    <3>1. PICK m, s, h \in 0..2 :
            /\ m = IF k >= 1 /\ u < 2 THEN 2 ELSE f.manifest
            /\ s = IF k >= 2 /\ u < 1 THEN 2 ELSE f.schema
            /\ h = IF k >= 2 /\ u < 1 THEN 2 ELSE f.hash
      BY <2>1 DEF Folder
    <3>2. RolledBack(f, k, u) = WithFormat(f, m, s, h)
      BY <3>1 DEF RolledBack, WithFormat
    <3>3. QED
      BY <2>1, <2>2, <3>1, <3>2
  <2>6. SoundFolder(f) /\ Covered(p, f) /\ unrecovered \subseteq Project /\ unrecovered \cup {p} \subseteq Project
    BY <1>t, <2>1 DEF LibraryTypeOK, f
  <2>7. CASE MigrationSucceeds
    <3>1. EndMigration(Migrated(f, 2), Indexed(catalog, p, 2), unrecovered, TRUE)
      BY <2>7 DEF MigrationSucceeds, f
    <3>2. SoundFolder(Migrated(f, 2)) /\ Covered(p, Migrated(f, 2))
      BY <2>4
    <3>3. QED
      BY <2>3, <2>6, <3>1, <3>2
  <2>8. CASE MigrationCrashes
    <3>1. PICK k \in 0..2 : EndMigration(Migrated(f, k), catalog, unrecovered, FALSE)
      BY <2>8 DEF MigrationCrashes, f
    <3>2. QED
      BY <2>3, <2>4, <2>6, <3>1
  <2>9. CASE MigrationRollsBack
    BY <2>1, <2>3, <2>5, <2>6, <2>9 DEF MigrationRollsBack, f
  <2>10. QED
    BY <1>9, <2>7, <2>8, <2>9
<1>10. ASSUME NEW b \in backups, BeginRestore(b) PROVE LibraryInv'
  <2>1. b \in [project : Project, copy : Folder] /\ SoundFolder(b.copy) /\ Covered(b.project, b.copy)
    BY DEF LibraryTypeOK, FoldersSound
  <2>2. operation' = [kind |-> "restore", project |-> b.project, stage |-> "checked", listed |-> {}, copy |-> b.copy]
        /\ UNCHANGED <<disk, catalog, strays, backups, unrecovered, up>>
    BY <1>10 DEF BeginRestore
  <2>3. operation' \in [kind : {"backup", "migrate", "restore"}, project : Project,
                        stage : {"listed", "files", "copied", "saved", "checked", "aside"},
                        listed : SUBSET Import, copy : Folder]
    BY <2>1, <2>2
  <2>4. OperationSound'
    BY <2>1, <2>2 DEF OperationSound
  <2>5. QED
    BY <2>2, <2>3, <2>4 DEF LibraryInv, LibraryTypeOK, IndexedAtHome, FoldersSound
<1>11. ASSUME CopyAside PROVE LibraryInv'
  <2>1. operation' = [operation EXCEPT !.stage = "aside"] /\ operation.kind = "restore"
        /\ UNCHANGED <<disk, catalog, strays, backups, unrecovered, up>>
    BY <1>11 DEF CopyAside
  <2>2. /\ operation' \in [kind : {"backup", "migrate", "restore"}, project : Project,
                        stage : {"listed", "files", "copied", "saved", "checked", "aside"},
                        listed : SUBSET Import, copy : Folder]
        /\ operation'.kind = "restore" /\ operation'.project = operation.project
        /\ operation'.copy = operation.copy /\ operation'.stage = "aside"
    BY <1>o, <2>1
  <2>3. OperationSound'
    BY <1>o, <2>1, <2>2 DEF OperationSound
  <2>4. QED
    BY <2>1, <2>2, <2>3 DEF LibraryInv, LibraryTypeOK, IndexedAtHome, FoldersSound
<1>12. ASSUME ActivateRestore PROVE LibraryInv'
  <2>1. operation.kind = "restore" /\ operation.project \in Project /\ operation.copy \in Folder
        /\ SoundFolder(operation.copy) /\ Covered(operation.project, operation.copy)
        /\ operation.copy.manifest \in 0..2
    BY <1>12, <1>o DEF ActivateRestore, OperationSound, Folder
  <2>2. FoldersSound' /\ OperationSound' /\ disk' \in [Project -> Folder]
    BY <1>12, <2>1, OneFolderWritten DEF ActivateRestore
  <2>3. catalog' \in [Project -> Row] /\ IndexedAtHome'
    BY <1>12, <2>1 DEF ActivateRestore, IndexedAtHome
  <2>4. QED
    BY <1>12, <2>2, <2>3 DEF ActivateRestore, LibraryInv, LibraryTypeOK
<1>13. ASSUME NEW p \in Project, NEW a \in Import, ImportFile(p, a) PROVE LibraryInv'
  <2>g. PICK g : g = WithFiles(disk[p], disk[p].files \cup {a})
    OBVIOUS
  <2>1. disk' = [disk EXCEPT ![p] = g] /\ UNCHANGED <<catalog, strays, backups, operation, unrecovered, up>>
    BY <1>13, <2>g DEF ImportFile, WithFiles
  <2>2. g \in Folder /\ Numbered(g) /\ g.manifest = disk[p].manifest /\ g.schema = disk[p].schema
        /\ g.hash = disk[p].hash
    <3>1. disk[p].files \cup {a} \in SUBSET Import /\ disk[p] \in Folder /\ Numbered(disk[p])
      BY <1>t DEF SoundFolder
    <3>2. QED
      BY <2>g, <3>1, ContentWritten
  <2>3. SoundFolder(g) /\ Covered(p, g)
    BY <1>t, <2>2 DEF SoundFolder, Agrees, Covered
  <2>4. FoldersSound' /\ OperationSound' /\ disk' \in [Project -> Folder]
    BY <2>1, <2>2, <2>3, OneFolderWritten
  <2>5. QED
    BY <2>1, <2>4 DEF LibraryInv, LibraryTypeOK, IndexedAtHome
<1>14. ASSUME NEW p \in Project, NEW a \in Import, ImportRow(p, a) PROVE LibraryInv'
  <2>g. PICK g : g = WithRows(disk[p], disk[p].rows \cup {a})
    OBVIOUS
  <2>1. disk' = [disk EXCEPT ![p] = g] /\ UNCHANGED <<catalog, strays, backups, operation, unrecovered, up>>
    BY <1>14, <2>g DEF ImportRow, WithRows
  <2>2. g \in Folder /\ Numbered(g) /\ g.manifest = disk[p].manifest /\ g.schema = disk[p].schema
        /\ g.hash = disk[p].hash
    <3>1. disk[p].rows \cup {a} \in SUBSET Import /\ disk[p] \in Folder /\ Numbered(disk[p])
      BY <1>t DEF SoundFolder
    <3>2. QED
      BY <2>g, <3>1, ContentWritten
  <2>3. SoundFolder(g) /\ Covered(p, g)
    BY <1>t, <2>2 DEF SoundFolder, Agrees, Covered
  <2>4. FoldersSound' /\ OperationSound' /\ disk' \in [Project -> Folder]
    BY <2>1, <2>2, <2>3, OneFolderWritten
  <2>5. QED
    BY <2>1, <2>4 DEF LibraryInv, LibraryTypeOK, IndexedAtHome
<1>15. ASSUME NEW p \in Project, NEW i \in 1..MaxVersions, DamageDirection(p, i) PROVE LibraryInv'
  <2> DEFINE g == [disk[p] EXCEPT !.directions[i].readable = FALSE]
  <2>1. disk' = [disk EXCEPT ![p] = g] /\ UNCHANGED <<catalog, strays, backups, operation, unrecovered, up>>
    BY <1>15 DEF DamageDirection
  <2>2. g \in Folder /\ Numbered(g) /\ g.manifest = disk[p].manifest /\ g.schema = disk[p].schema
        /\ g.hash = disk[p].hash
    BY <1>15, <1>t, VersionDamaged DEF SoundFolder, DamageDirection
  <2> HIDE DEF g
  <2>3. SoundFolder(g) /\ Covered(p, g)
    BY <1>t, <2>2 DEF SoundFolder, Agrees, Covered
  <2>4. FoldersSound' /\ OperationSound' /\ disk' \in [Project -> Folder]
    BY <2>1, <2>2, <2>3, OneFolderWritten
  <2>5. QED
    BY <2>1, <2>4 DEF LibraryInv, LibraryTypeOK, IndexedAtHome
<1>16. ASSUME CrashLibrary PROVE LibraryInv'
  <2>1. UNCHANGED <<disk, catalog, backups, unrecovered>> /\ operation' = NoOperation /\ up' = FALSE
    BY <1>16 DEF CrashLibrary
  <2>2. \A s \in strays' : s \in [project : Project, copy : Folder] /\ SoundFolder(s.copy)
    <3>1. CASE operation.stage = "aside"
      <4>1. operation # NoOperation /\ operation.project \in Project /\ operation.copy \in Folder
        BY <3>1 DEF NoOperation, LibraryTypeOK
      <4>2. QED
        BY <1>16, <3>1, <4>1 DEF CrashLibrary, LibraryTypeOK, FoldersSound, OperationSound
    <3>2. CASE operation.stage # "aside"
      BY <1>16, <3>2 DEF CrashLibrary, LibraryTypeOK, FoldersSound
    <3>3. QED
      BY <3>1, <3>2
  <2>3. FoldersSound' /\ OperationSound'
    BY <2>1, <2>2 DEF FoldersSound, OperationSound
  <2>4. QED
    BY <2>1, <2>2, <2>3 DEF LibraryInv, LibraryTypeOK, IndexedAtHome
<1>17. ASSUME Reconcile \/ OpenLibrary PROVE LibraryInv'
  BY <1>17 DEF Reconcile, OpenLibrary, LibraryInv, LibraryTypeOK, IndexedAtHome, FoldersSound, OperationSound
<1>18. CASE UNCHANGED libraryVars
  BY <1>18 DEF libraryVars, LibraryInv, LibraryTypeOK, IndexedAtHome, FoldersSound, OperationSound
<1>19. QED
  BY <1>1, <1>2, <1>3, <1>4, <1>5, <1>6, <1>7, <1>8, <1>9, <1>10, <1>11, <1>12, <1>13, <1>14, <1>15, <1>16,
     <1>17, <1>18 DEF LibraryNext

(* The variables of the library keep their types.                          *)
THEOREM LibraryTypes == LibrarySpec => []LibraryTypeOK
<1>1. LibraryInv => LibraryTypeOK
  BY DEF LibraryInv
<1>2. QED
  BY LibraryInitially, LibraryStep, <1>1, PTL DEF LibrarySpec

(* Wherever a format update dies, fails or rolls back halfway, a project   *)
(* whose manifest is of the new format and whose database is not has a     *)
(* verified backup in which both are of the old one.                       *)
THEOREM LibraryHalfMigratedHasBackup == LibrarySpec => []HalfMigratedHasBackup
<1>1. LibraryInv => HalfMigratedHasBackup
  BY DEF LibraryInv, FoldersSound, Covered, HasOldBackup, HalfMigratedHasBackup
<1>2. QED
  BY LibraryInitially, LibraryStep, <1>1, PTL DEF LibrarySpec

(* The versions of a creative direction keep distinct numbers whatever is  *)
(* damaged, restored or lost, and the catalog never points into the        *)
(* temporary folder of an interrupted restore.                             *)
THEOREM LibraryRevisionsDistinct == LibrarySpec => [](RevisionsDistinct /\ IndexedAtHome)
<1>1. LibraryInv => RevisionsDistinct /\ IndexedAtHome
  BY DEF LibraryInv, FoldersSound, SoundFolder, Numbered, RevisionsDistinct
<1>2. QED
  BY LibraryInitially, LibraryStep, <1>1, PTL DEF LibrarySpec

-----------------------------------------------------------------------------
(* UpstreamImport.  An accepted plan is stored, and is its story's.        *)

ImportRecord ==
  [state : {"none", "copied", "validation-failed", "preview", "accepted"}, story : SUBSET Story,
   direction : 0..MaxDirections, plan : {NoPlan} \cup {LongFormPlan(s) : s \in Story}]
ImportCall == [runs : BOOLEAN, left : SUBSET FileRole, failed : BOOLEAN]

(* The package of an import is the one it was chosen with, and the plan is *)
(* that package's.                                                         *)
StoryIsFixed ==
  \A i \in ImportId :
    /\ imports[i].state # "none" => \E s \in Story : imports[i].story = {s}
    /\ imports[i].state = "none" => imports[i] = NoImport
    /\ IF imports[i].state \in {"preview", "accepted"}
       THEN imports[i].plan = LongFormPlan(StoryOf(i)) /\ StoryOf(i).failing = {}
       ELSE imports[i].plan = NoPlan /\ i \notin storedPlans
    /\ imports[i].state = "accepted" => i \in storedPlans

(* While no validator has failed, the failing files are all still to come. *)
FailuresAreAhead ==
  \A i \in ImportId : importCalls[i].runs =>
    /\ imports[i].state = "copied"
    /\ ~ importCalls[i].failed => StoryOf(i).failing \subseteq importCalls[i].left

UpstreamRecords ==
  /\ direction \in 0..MaxDirections
  /\ imports \in [ImportId -> ImportRecord]
  /\ importCalls \in [ImportId -> ImportCall]
  /\ storedPlans \subseteq ImportId /\ refused \subseteq ImportId

UpstreamInv == UpstreamRecords /\ StoryIsFixed /\ FailuresAreAhead

LEMMA NoImportFacts ==
  /\ NoImport \in ImportRecord /\ NoImport.state = "none" /\ NoImport.plan = NoPlan
  /\ NoImportCall \in ImportCall /\ ~NoImportCall.runs
BY ImportAssumption DEF NoImport, ImportRecord, NoImportCall, ImportCall

LEMMA UpstreamInitially == UpstreamInit => UpstreamInv
<1> SUFFICES ASSUME UpstreamInit PROVE UpstreamInv
  OBVIOUS
<1>1. UpstreamRecords
  BY NoImportFacts, ImportAssumption DEF UpstreamInit, UpstreamRecords
<1>2. StoryIsFixed /\ FailuresAreAhead
  BY NoImportFacts DEF UpstreamInit, StoryIsFixed, FailuresAreAhead
<1>3. QED
  BY <1>1, <1>2 DEF UpstreamInv

(* The package of an import does not depend on anything else of it.        *)
LEMMA StoryKept ==
  ASSUME NEW i, imports'[i].story = imports[i].story
  PROVE  StoryOf(i)' = StoryOf(i)
BY DEF StoryOf

LEMMA UpstreamStep ==
  ASSUME UpstreamInv, [UpstreamNext]_importVars
  PROVE  UpstreamInv'
<1> UpstreamRecords /\ StoryIsFixed /\ FailuresAreAhead
  BY DEF UpstreamInv
<1>1. ASSUME NEW i \in ImportId, NEW s \in Story, ChooseImport(i, s) PROVE UpstreamInv'
  <2>1. PICK r, c : /\ r = [NoImport EXCEPT !.state = "copied", !.story = {s}, !.direction = direction]
                    /\ imports' = [imports EXCEPT ![i] = r]
                    /\ importCalls' = [importCalls EXCEPT ![i] = c]
                    /\ c \in {NoImportCall, [NoImportCall EXCEPT !.runs = TRUE, !.left = s.files]}
    BY <1>1 DEF ChooseImport
  <2>2. s.files \in SUBSET FileRole /\ s.failing \subseteq s.files
    BY ImportAssumption
  <2>3. /\ r \in ImportRecord /\ r.state = "copied" /\ r.story = {s} /\ r.plan = NoPlan
    BY <2>1 DEF NoImport, ImportRecord, UpstreamRecords
  <2>4. c \in ImportCall /\ (c.runs => c.left = s.files)
    <3>1. \A call \in ImportCall : [call EXCEPT !.runs = TRUE, !.left = s.files] \in ImportCall
                                   /\ [call EXCEPT !.runs = TRUE, !.left = s.files].left = s.files
      BY <2>2 DEF ImportCall
    <3>2. QED
      BY <2>1, <3>1, NoImportFacts
  <2>5. imports[i] = NoImport /\ UNCHANGED <<direction, storedPlans, refused>>
    BY <1>1 DEF ChooseImport
  <2>6. UpstreamRecords'
    BY <2>1, <2>3, <2>4, <2>5 DEF UpstreamRecords
  <2>7. /\ imports'[i] = r /\ importCalls'[i] = c
        /\ \A j \in ImportId : j # i => imports'[j] = imports[j] /\ importCalls'[j] = importCalls[j]
    BY <2>1 DEF UpstreamRecords
  <2>8. i \notin storedPlans
    BY <2>5, NoImportFacts DEF StoryIsFixed
  <2>9. StoryIsFixed'
    <3>1. ASSUME NEW j \in ImportId, j # i PROVE StoryOf(j)' = StoryOf(j)
      BY <2>7, <3>1, StoryKept
    <3>2. QED
      BY <2>3, <2>5, <2>7, <2>8, <3>1 DEF StoryIsFixed
  <2>10. FailuresAreAhead'
    <3>1. ASSUME NEW j \in ImportId, j # i PROVE StoryOf(j)' = StoryOf(j)
      BY <2>7, <3>1, StoryKept
    <3>2. StoryOf(i)' = s
      BY <2>3, <2>7 DEF StoryOf
    <3>3. QED
      BY <2>2, <2>3, <2>4, <2>7, <3>1, <3>2 DEF FailuresAreAhead
  <2>11. QED
    BY <2>6, <2>9, <2>10 DEF UpstreamInv
<1>2. ASSUME NEW i \in ImportId, ValidateFile(i) PROVE UpstreamInv'
  <2>1. PICK c : /\ importCalls' = [importCalls EXCEPT ![i] = c]
                 /\ c \in {NoImportCall, [importCalls[i] EXCEPT !.left = @ \ {NextFile(@)}, !.failed = FailedSoFar(i)]}
    BY <1>2 DEF ValidateFile, UpstreamRecords
  <2>2. FailedSoFar(i) \in BOOLEAN /\ importCalls[i] \in ImportCall
    BY DEF FailedSoFar, UpstreamRecords, ImportCall
  <2>3. c \in ImportCall /\ (c.runs => /\ c.left = importCalls[i].left \ {NextFile(importCalls[i].left)}
                                       /\ c.failed = FailedSoFar(i))
    BY <2>1, <2>2, NoImportFacts DEF ImportCall
  <2>4. UNCHANGED <<direction, imports, storedPlans, refused>> /\ importCalls[i].runs
    BY <1>2 DEF ValidateFile
  <2>5. /\ importCalls'[i] = c
        /\ \A j \in ImportId : j # i => importCalls'[j] = importCalls[j]
    BY <2>1 DEF UpstreamRecords
  <2>6. \A j : StoryOf(j)' = StoryOf(j)
    BY <2>4 DEF StoryOf
  <2>7. UpstreamRecords'
    BY <2>1, <2>3, <2>4 DEF UpstreamRecords
  <2>8. StoryIsFixed'
    BY <2>4, <2>6 DEF StoryIsFixed
  <2>9. c.runs /\ ~c.failed => StoryOf(i).failing \subseteq c.left
    BY <2>3, <2>4 DEF FailedSoFar, FailuresAreAhead
  <2>10. FailuresAreAhead'
    BY <2>4, <2>5, <2>6, <2>9 DEF FailuresAreAhead
  <2>11. QED
    BY <2>7, <2>8, <2>10 DEF UpstreamInv
<1>3. ASSUME NEW i \in ImportId, RecordImport(i) PROVE UpstreamInv'
  <2>1. /\ importCalls' = [importCalls EXCEPT ![i] = NoImportCall] /\ UNCHANGED <<direction, storedPlans, refused>>
        /\ importCalls[i].runs /\ importCalls[i].left = {}
    BY <1>3 DEF RecordImport
  <2>2. /\ imports[i].state = "copied" /\ i \notin storedPlans /\ imports[i] \in ImportRecord
        /\ ~importCalls[i].failed => StoryOf(i).failing = {}
    BY <2>1 DEF FailuresAreAhead, StoryIsFixed, UpstreamRecords
  <2>s. StoryOf(i) \in Story
    BY <2>2 DEF StoryIsFixed, StoryOf
  <2>3. PICK r : /\ imports' = [imports EXCEPT ![i] = r] /\ r \in ImportRecord /\ r.story = imports[i].story
                 /\ \/ r = imports[i]
                    \/ r.state = "validation-failed" /\ r.plan = imports[i].plan
                    \/ /\ r.state = "preview" /\ r.plan = LongFormPlan(StoryOf(i))
                       /\ StoryOf(i).failing = {}
    <3>1. CASE UNCHANGED imports
      <4>1. imports' = [imports EXCEPT ![i] = imports[i]]
        BY <3>1 DEF UpstreamRecords
      <4>2. QED
        BY <2>2, <4>1
    <3>2. CASE importCalls[i].failed /\ imports' = [imports EXCEPT ![i].state = "validation-failed"]
      <4>1. PICK r : r = [imports[i] EXCEPT !.state = "validation-failed"]
        OBVIOUS
      <4>2. r \in ImportRecord /\ r.story = imports[i].story /\ r.state = "validation-failed"
            /\ r.plan = imports[i].plan
        BY <2>2, <4>1 DEF ImportRecord
      <4>3. QED
        BY <3>2, <4>1, <4>2
    <3>3. CASE /\ ~importCalls[i].failed
               /\ imports' = [imports EXCEPT ![i].state = "preview", ![i].plan = LongFormPlan(StoryOf(i))]
      <4>1. PICK r : r = [imports[i] EXCEPT !.state = "preview", !.plan = LongFormPlan(StoryOf(i))]
        OBVIOUS
      <4>2. r \in ImportRecord /\ r.story = imports[i].story /\ r.state = "preview"
            /\ r.plan = LongFormPlan(StoryOf(i))
        BY <2>s, <2>2, <4>1 DEF ImportRecord
      <4>3. imports' = [imports EXCEPT ![i] = r]
        BY <3>3, <4>1 DEF UpstreamRecords
      <4>4. QED
        BY <2>2, <3>3, <4>2, <4>3
    <3>4. QED
      BY <1>3, <3>1, <3>2, <3>3 DEF RecordImport
  <2>4. /\ imports'[i] = r /\ importCalls'[i] = NoImportCall
        /\ \A j \in ImportId : j # i => imports'[j] = imports[j] /\ importCalls'[j] = importCalls[j]
    BY <2>1, <2>3 DEF UpstreamRecords
  <2>5. \A j \in ImportId : StoryOf(j)' = StoryOf(j)
    BY <2>3, <2>4 DEF StoryOf
  <2>6. UpstreamRecords'
    BY <2>1, <2>3, NoImportFacts DEF UpstreamRecords
  <2>7. StoryIsFixed'
    BY <2>1, <2>2, <2>3, <2>4, <2>5 DEF StoryIsFixed
  <2>8. FailuresAreAhead'
    BY <2>1, <2>4, <2>5, NoImportFacts DEF FailuresAreAhead
  <2>9. QED
    BY <2>6, <2>7, <2>8 DEF UpstreamInv
<1>4. ASSUME NEW i \in ImportId, AcceptImport(i) PROVE UpstreamInv'
  <2>1. imports[i].state = "preview" /\ UNCHANGED <<direction, importCalls>> /\ imports[i] \in ImportRecord
    BY <1>4 DEF AcceptImport, UpstreamRecords
  <2>2. storedPlans' \in {storedPlans, storedPlans \cup {i}} /\ refused' \in {refused, refused \cup {i}}
    BY <1>4 DEF AcceptImport
  <2>3. PICK r : /\ imports' = [imports EXCEPT ![i] = r] /\ r \in ImportRecord
                 /\ r.story = imports[i].story /\ r.plan = imports[i].plan
                 /\ r.state = "preview" \/ (r.state = "accepted" /\ i \in storedPlans')
    <3>1. CASE UNCHANGED imports
      <4>1. imports' = [imports EXCEPT ![i] = imports[i]]
        BY <3>1 DEF UpstreamRecords
      <4>2. QED
        BY <2>1, <4>1
    <3>2. CASE storedPlans' = storedPlans \cup {i} /\ imports' = [imports EXCEPT ![i].state = "accepted"]
      <4>1. PICK r : r = [imports[i] EXCEPT !.state = "accepted"]
        OBVIOUS
      <4>2. r \in ImportRecord /\ r.story = imports[i].story /\ r.state = "accepted"
            /\ r.plan = imports[i].plan
        BY <2>1, <4>1 DEF ImportRecord
      <4>3. QED
        BY <3>2, <4>1, <4>2
    <3>3. QED
      BY <1>4, <3>1, <3>2 DEF AcceptImport
  <2>4. imports'[i] = r /\ \A j \in ImportId : j # i => imports'[j] = imports[j]
    BY <2>3 DEF UpstreamRecords
  <2>5. \A j \in ImportId : StoryOf(j)' = StoryOf(j)
    BY <2>3, <2>4 DEF StoryOf
  <2>6. UpstreamRecords'
    BY <2>1, <2>2, <2>3 DEF UpstreamRecords
  <2>7. StoryIsFixed'
    BY <2>1, <2>2, <2>3, <2>4, <2>5 DEF StoryIsFixed
  <2>8. FailuresAreAhead'
    BY <2>1, <2>4, <2>5 DEF FailuresAreAhead
  <2>9. QED
    BY <2>6, <2>7, <2>8 DEF UpstreamInv
<1>5. ASSUME SaveDirection \/ RestartImporter \/ UNCHANGED importVars PROVE UpstreamInv'
  <2>1. /\ direction' \in 0..MaxDirections /\ UNCHANGED <<imports, storedPlans, refused>>
        /\ importCalls' = importCalls \/ importCalls' = [i \in ImportId |-> NoImportCall]
    BY <1>5, ImportAssumption DEF SaveDirection, RestartImporter, importVars, UpstreamRecords
  <2>2. \A j : StoryOf(j)' = StoryOf(j)
    BY <2>1 DEF StoryOf
  <2>3. UpstreamRecords'
    BY <2>1, NoImportFacts DEF UpstreamRecords
  <2>4. StoryIsFixed' /\ FailuresAreAhead'
    BY <2>1, <2>2, NoImportFacts DEF StoryIsFixed, FailuresAreAhead
  <2>5. QED
    BY <2>3, <2>4 DEF UpstreamInv
<1>6. QED
  BY <1>1, <1>2, <1>3, <1>4, <1>5 DEF UpstreamNext

(* The records of an import keep their types.                              *)
THEOREM UpstreamTypes == UpstreamSpec => []UpstreamTypeOK
<1>1. UpstreamInv => UpstreamTypeOK
  BY DEF UpstreamInv, UpstreamRecords, ImportRecord, ImportCall, UpstreamTypeOK
<1>2. QED
  BY UpstreamInitially, UpstreamStep, <1>1, PTL DEF UpstreamSpec

(* Whichever write of an acceptance fails, an import recorded as accepted  *)
(* has its plan stored, and a stored plan came from a package no validator *)
(* failed.                                                                 *)
THEOREM UpstreamAcceptedPlanIsStored == UpstreamSpec => []AcceptedPlanIsStored
<1>1. UpstreamInv => AcceptedPlanIsStored
  BY DEF UpstreamInv, UpstreamRecords, StoryIsFixed, AcceptedPlanIsStored
<1>2. QED
  BY UpstreamInitially, UpstreamStep, <1>1, PTL DEF UpstreamSpec

(* A stored plan is the plan computed from the package itself.             *)
StoredPlanIsComputed == \A i \in storedPlans : imports[i].plan = LongFormPlan(StoryOf(i))

(* A stored plan is the plan computed from the import's own package.       *)
THEOREM UpstreamStoredPlanIsComputed == UpstreamSpec => []StoredPlanIsComputed
<1>1. UpstreamInv => StoredPlanIsComputed
  BY DEF UpstreamInv, UpstreamRecords, StoryIsFixed, StoredPlanIsComputed
<1>2. QED
  BY UpstreamInitially, UpstreamStep, <1>1, PTL DEF UpstreamSpec

(* The acts of the plan of n episodes: the first begins with episode 1,    *)
(* the last ends with episode n, each begins where the one before it ended *)
(* and none is empty.                                                      *)
THEOREM ActsTileTheStory ==
  ASSUME NEW n \in Nat \ {0}
  PROVE  /\ ActCount(n) \in 1..3
         /\ ActBounds(n, ActCount(n), 1)[1] = 1
         /\ ActBounds(n, ActCount(n), ActCount(n))[2] = n
         /\ \A a \in 1..ActCount(n) :
              ActBounds(n, ActCount(n), a)[1] <= ActBounds(n, ActCount(n), a)[2]
         /\ \A a \in 1..(ActCount(n) - 1) :
              ActBounds(n, ActCount(n), a + 1)[1] = ActBounds(n, ActCount(n), a)[2] + 1
<1>1. CASE n = 1
  <2>1. ActCount(n) = 1
    BY <1>1 DEF ActCount
  <2>2. QED
    BY <1>1, <2>1 DEF ActBounds
<1>2. CASE n = 2
  <2>1. ActCount(n) = 2
    BY <1>2 DEF ActCount
  <2>2. QED
    BY <1>2, <2>1 DEF ActBounds
<1>3. CASE n >= 3
  <2>1. ActCount(n) = 3
    BY <1>3 DEF ActCount
  <2>2. \A a \in 1..3 : a = 1 \/ a = 2 \/ a = 3
    OBVIOUS
  <2>3. /\ ActBounds(n, 3, 1) = <<1, n \div 3>>
        /\ ActBounds(n, 3, 2) = <<n \div 3 + 1, (2 * n) \div 3>>
        /\ ActBounds(n, 3, 3) = <<(2 * n) \div 3 + 1, n>>
    BY <1>3 DEF ActBounds
  <2>4. 1 <= n \div 3 /\ n \div 3 + 1 <= (2 * n) \div 3 /\ (2 * n) \div 3 + 1 <= n
    BY <1>3
  <2>5. QED
    BY <2>1, <2>2, <2>3, <2>4
<1>4. QED
  BY <1>1, <1>2, <1>3

-----------------------------------------------------------------------------
(* Induction over data, in terms of sets: the library's induction theorems *)
(* take a predicate, these take the set of those that satisfy it.          *)

(* A set of natural numbers that is not empty has a least element: the     *)
(* intervals up to its elements are well-founded under inclusion.          *)
LEMMA LeastNat ==
  ASSUME NEW S \in SUBSET Nat, S # {}
  PROVE  \E x \in S : \A y \in S : x <= y
<1> DEFINE T == {1..n : n \in S}
<1>1. T \subseteq FiniteSubsetsOf(Nat) /\ T # {}
  <2>1. ASSUME NEW n \in S PROVE 1..n \in SUBSET Nat /\ IsFiniteSet(1..n)
    BY FS_Interval
  <2>2. ASSUME NEW n \in S PROVE 1..n \in FiniteSubsetsOf(Nat)
    BY <2>1 DEF FiniteSubsetsOf
  <2>3. QED
    BY <2>2
<1>2. IsWellFoundedOn(StrictSubsetOrdering(Nat), FiniteSubsetsOf(Nat))
  BY FS_StrictSubsetOrderingWellFounded
<1>. HIDE DEF T
<1>3. \E x \in T : \A y \in T : ~ (<<y, x>> \in StrictSubsetOrdering(Nat))
  BY <1>1, <1>2, WFMin
<1>. USE DEF T
<1>4. PICK m \in S : \A n \in S : ~ (<<1..n, 1..m>> \in StrictSubsetOrdering(Nat))
  BY <1>3
<1>5. ASSUME NEW n \in S, n < m PROVE FALSE
  <2>1. m \in 1..m /\ m \notin 1..n /\ 1..n \subseteq 1..m /\ 1..m \subseteq Nat
    BY <1>5
  <2>2. 1..n # 1..m /\ 1..n \in SUBSET Nat /\ 1..m \in SUBSET Nat
    BY <2>1
  <2>. DEFINE p == <<1..n, 1..m>>
  <2>3. p \in (SUBSET Nat) \X (SUBSET Nat) /\ p[1] \subseteq p[2] /\ p[1] # p[2]
    BY <2>1, <2>2
  <2>4. p \in StrictSubsetOrdering(Nat)
    BY <2>3 DEF StrictSubsetOrdering
  <2>5. QED
    BY <2>4, <1>4
<1>6. QED
  BY <1>4, <1>5

(* A set that holds 0, and with a number the next one, holds every number. *)
LEMMA SetInduction ==
  ASSUME NEW S, 0 \in S, \A n \in Nat : n \in S => n + 1 \in S
  PROVE  Nat \subseteq S
<1> SUFFICES ASSUME Nat \ S # {} PROVE FALSE
  OBVIOUS
<1>1. PICK x \in Nat \ S : \A y \in Nat \ S : x <= y
  BY LeastNat
<1>2. x # 0 /\ x - 1 \in Nat
  BY <1>1
<1>3. x - 1 \in S
  BY <1>1, <1>2
<1>4. QED
  BY <1>1, <1>2, <1>3

(* f starts at first and goes on by step, for n steps. *)
Unfolds(f, first, step, n) == f[0] = first /\ \A k \in 1..n : f[k] = step[k][f[k - 1]]

(* There is a function that starts so and goes on so.                      *)
LEMMA Recursion ==
  ASSUME NEW V, NEW first \in V, NEW N \in Nat, NEW step \in [1..N -> [V -> V]]
  PROVE  \E f \in [0..N -> V] : Unfolds(f, first, step, N)
<1> DEFINE S == {m \in Nat : m <= N => \E f \in [0..m -> V] : Unfolds(f, first, step, m)}
<1>1. 0 \in S
  <2>1. [k \in 0..0 |-> first] \in [0..0 -> V] /\ Unfolds([k \in 0..0 |-> first], first, step, 0)
    BY DEF Unfolds
  <2>2. QED
    BY <2>1
<1>2. ASSUME NEW m \in Nat, m \in S PROVE m + 1 \in S
  <2>1. CASE ~(m + 1 <= N)
    BY <2>1
  <2>2. CASE m + 1 <= N
    <3>1. PICK f \in [0..m -> V] : Unfolds(f, first, step, m)
      BY <1>2, <2>2
    <3> DEFINE g == [k \in 0..(m + 1) |-> IF k = m + 1 THEN step[k][f[m]] ELSE f[k]]
    <3>2. step[m + 1][f[m]] \in V
      <4>1. f[m] \in V /\ m + 1 \in 1..N
        BY <2>2
      <4>2. step[m + 1] \in [V -> V]
        BY <4>1
      <4>3. QED
        BY <4>2
    <3>3. g \in [0..(m + 1) -> V]
      <4>1. ASSUME NEW k \in 0..(m + 1) PROVE (IF k = m + 1 THEN step[k][f[m]] ELSE f[k]) \in V
        <5>1. CASE k = m + 1
          BY <5>1, <3>2
        <5>2. CASE k # m + 1
          <6>1. k \in 0..m
            BY <5>2
          <6>2. QED
            BY <5>2, <6>1
        <5>3. QED
          BY <5>1, <5>2
      <4>2. QED
        BY <4>1
    <3>4. g[0] = first
      BY <3>1 DEF Unfolds
    <3>5. ASSUME NEW k \in 1..(m + 1) PROVE g[k] = step[k][g[k - 1]]
      <4>1. CASE k = m + 1
        <5>1. g[k] = step[k][f[m]] /\ k - 1 = m /\ g[k - 1] = f[m]
          BY <4>1
        <5>2. QED
          BY <5>1
      <4>2. CASE k # m + 1
        <5>1. k \in 1..m /\ g[k] = f[k] /\ g[k - 1] = f[k - 1]
          BY <4>2
        <5>2. QED
          BY <5>1, <3>1 DEF Unfolds
      <4>3. QED
        BY <4>1, <4>2
    <3>. HIDE DEF g
    <3>6. Unfolds(g, first, step, m + 1)
      BY <3>4, <3>5 DEF Unfolds
    <3>7. QED
      BY <3>3, <3>6
  <2>3. QED
    BY <2>1, <2>2
<1>. HIDE DEF S
<1>3. N \in S
  BY <1>1, <1>2, SetInduction
<1>4. QED
  BY <1>3 DEF S

(* Total is the last of the running totals of a sequence.                  *)
LEMMA TotalUnfolds ==
  ASSUME NEW s \in Seq(Nat)
  PROVE  \E f \in [0..Len(s) -> Nat] : /\ f[0] = 0
                                       /\ \A k \in 1..Len(s) : f[k] = f[k - 1] + s[k]
                                       /\ Total(s) = f[Len(s)]
<1> DEFINE N == Len(s)
           step == [k \in 1..N |-> [total \in Nat |-> total + s[k]]]
           sum[n \in 0..Len(s)] == IF n = 0 THEN 0 ELSE sum[n - 1] + s[n]
<1>1. N \in Nat /\ \A k \in 1..N : s[k] \in Nat
  OBVIOUS
<1>2. step \in [1..N -> [Nat -> Nat]]
  BY <1>1
<1>3. PICK f \in [0..N -> Nat] : Unfolds(f, 0, step, N)
  BY <1>1, <1>2, Recursion
<1>4. ASSUME NEW k \in 1..N PROVE f[k] = f[k - 1] + s[k]
  <2>1. f[k] = step[k][f[k - 1]]
    BY <1>3 DEF Unfolds
  <2>2. f[k - 1] \in Nat
    BY <1>1
  <2>3. QED
    BY <2>1, <2>2
<1>5. f = [n \in 0..Len(s) |-> IF n = 0 THEN 0 ELSE f[n - 1] + s[n]]
  BY <1>1, <1>3, <1>4 DEF Unfolds
<1>6. sum = [n \in 0..Len(s) |-> IF n = 0 THEN 0 ELSE sum[n - 1] + s[n]]
  BY <1>5
<1>. HIDE DEF sum
<1>7. \A n \in 0..N : n \in Nat => sum[n] = f[n]
  <2> DEFINE S == {n \in Nat : n <= N => sum[n] = f[n]}
  <2>1. 0 \in S
    BY <1>1, <1>3, <1>6 DEF Unfolds
  <2>2. ASSUME NEW n \in Nat, n \in S PROVE n + 1 \in S
    <3>1. ASSUME n + 1 <= N PROVE sum[n + 1] = f[n + 1]
      <4>1. sum[n] = f[n] /\ n + 1 \in 0..N /\ n + 1 # 0 /\ (n + 1) - 1 = n
        BY <3>1, <1>1, <2>2
      <4>2. sum[n + 1] = sum[n] + s[n + 1]
        BY <4>1, <1>6
      <4>3. QED
        BY <4>1, <4>2, <1>4, <3>1, <1>1
    <3>2. QED
      BY <3>1
  <2>3. Nat \subseteq S
    <3>. HIDE DEF S
    <3>1. QED
      BY <2>1, <2>2, SetInduction
  <2>4. QED
    BY <2>3
<1>8. Total(s) = sum[Len(s)]
  BY DEF Total, sum
<1>9. QED
  BY <1>1, <1>3, <1>4, <1>7, <1>8 DEF Unfolds

(* Totals grow with the elements.                                          *)
LEMMA TotalGrows ==
  ASSUME NEW s \in Seq(Nat), NEW t \in Seq(Nat), Len(s) = Len(t),
         \A k \in 1..Len(s) : s[k] <= t[k]
  PROVE  Total(s) \in Nat /\ Total(t) \in Nat /\ Total(s) <= Total(t)
<1> DEFINE N == Len(s)
<1>1. N \in Nat /\ \A k \in 1..N : s[k] \in Nat /\ t[k] \in Nat
  OBVIOUS
<1>2. PICK f \in [0..N -> Nat] : /\ f[0] = 0 /\ \A k \in 1..N : f[k] = f[k - 1] + s[k]
                                 /\ Total(s) = f[N]
  BY TotalUnfolds
<1>3. PICK g \in [0..N -> Nat] : /\ g[0] = 0 /\ \A k \in 1..N : g[k] = g[k - 1] + t[k]
                                 /\ Total(t) = g[N]
  BY TotalUnfolds
<1>. HIDE DEF N
<1> DEFINE S == {k \in Nat : k <= N => f[k] <= g[k]}
<1>4. 0 \in S
  BY <1>2, <1>3
<1>5. ASSUME NEW k \in Nat, k \in S PROVE k + 1 \in S
  <2> SUFFICES ASSUME k + 1 <= N PROVE f[k + 1] <= g[k + 1]
    OBVIOUS
  <2>1. k + 1 \in 1..N /\ (k + 1) - 1 = k /\ k \in 0..N
    BY <1>1
  <2>2. f[k] <= g[k] /\ f[k] \in Nat /\ g[k] \in Nat /\ f[k + 1] = f[k] + s[k + 1] /\ g[k + 1] = g[k] + t[k + 1]
    BY <2>1, <1>1, <1>2, <1>3, <1>5
  <2>3. s[k + 1] <= t[k + 1] /\ s[k + 1] \in Nat /\ t[k + 1] \in Nat
    BY <2>1, <1>1 DEF N
  <2>4. QED
    BY <2>2, <2>3
<1>. HIDE DEF S
<1>6. N \in S
  BY <1>1, <1>4, <1>5, SetInduction
<1>7. QED
  BY <1>1, <1>2, <1>3, <1>6 DEF S

-----------------------------------------------------------------------------
(* UpstreamImport, continued: a plan tells the story and keeps its time.   *)

(* A quotient times its divisor is the dividend, but for less than one     *)
(* divisor.                                                                *)
LEMMA QuotientBounds ==
  ASSUME NEW x \in Nat, NEW d \in Nat \ {0}
  PROVE  /\ x \div d \in Nat
         /\ d * (x \div d) <= x /\ x < d * (x \div d) + d
<1>1. x \div d \in Int
  OBVIOUS
<1>2. d * (x \div d) <= x
  OBVIOUS
<1>3. x < d * (x \div d) + d
  OBVIOUS
<1>4. x \div d \in Nat
  OBVIOUS
<1>5. QED
  BY <1>1, <1>2, <1>3, <1>4

(* A rounded share is at most a half too small and less than one too       *)
(* large: one second is the least a piece gets.                            *)
LEMMA ShareRounds ==
  ASSUME NEW part \in Nat \ {0}, NEW all \in Nat \ {0}, NEW amount \in Nat \ {0}
  PROVE  LET share == RoundedShare(part, all, amount)
         IN /\ share \in Nat \ {0}
            /\ - all <= 2 * (all * share) - 2 * (part * amount)
            /\ 2 * (all * share) - 2 * (part * amount) < 2 * all
<1> DEFINE x == 2 * part * amount + all
           q == x \div (2 * all)
           y == part * amount
<1>1. y \in Nat /\ 2 * part * amount = 2 * y /\ y >= 1
  OBVIOUS
<1>2. x \in Nat /\ 2 * all \in Nat \ {0} /\ x = 2 * y + all
  BY <1>1
<1>. HIDE DEF x, y
<1>3. q \in Nat /\ (2 * all) * q <= x /\ x < (2 * all) * q + 2 * all
  BY <1>2, QuotientBounds
<1>. HIDE DEF q
<1>4. (2 * all) * q = 2 * (all * q) /\ all * q \in Nat
  BY <1>3
<1>5. RoundedShare(part, all, amount) = AtLeastOne(q)
  BY DEF RoundedShare, q, x
<1>6. CASE q < 1
  <2>1. q = 0 /\ AtLeastOne(q) = 1
    BY <1>6, <1>3 DEF AtLeastOne
  <2>2. all * q = 0 /\ all * 1 = all
    BY <2>1
  <2>3. QED
    BY <1>1, <1>2, <1>3, <1>4, <1>5, <2>1, <2>2 DEF y
<1>7. CASE q >= 1
  <2>1. AtLeastOne(q) = q
    BY <1>7, <1>3 DEF AtLeastOne
  <2>2. QED
    BY <1>1, <1>2, <1>3, <1>4, <1>5, <1>7, <2>1 DEF y
<1>8. QED
  BY <1>3, <1>6, <1>7

(* Of a smaller part the share is not larger, and at least one.            *)
LEMMA ShareGrows ==
  ASSUME NEW small \in Int, NEW part \in Int, small <= part,
         NEW all \in Nat \ {0}, NEW amount \in Nat \ {0}
  PROVE  /\ RoundedShare(small, all, amount) \in Nat \ {0}
         /\ RoundedShare(small, all, amount) <= RoundedShare(part, all, amount)
<1> DEFINE x == 2 * small * amount + all
           y == 2 * part * amount + all
           q == x \div (2 * all)
           r == y \div (2 * all)
<1>1. x \in Int /\ y \in Int /\ x <= y /\ 2 * all \in Nat \ {0}
  <2>1. small * amount <= part * amount /\ small * amount \in Int /\ part * amount \in Int
    OBVIOUS
  <2>2. 2 * small * amount = 2 * (small * amount) /\ 2 * part * amount = 2 * (part * amount)
    OBVIOUS
  <2>3. QED
    BY <2>1, <2>2
<1>. HIDE DEF x, y
<1>2. q \in Int /\ r \in Int /\ q <= r
  BY <1>1
<1>3. RoundedShare(small, all, amount) = AtLeastOne(q) /\ RoundedShare(part, all, amount) = AtLeastOne(r)
  BY DEF RoundedShare, x, y
<1>. HIDE DEF q, r
<1>4. QED
  BY <1>2, <1>3 DEF AtLeastOne

LEMMA FunctionsAreSequences ==
  ASSUME NEW S, NEW n \in Nat, NEW f \in [1..n -> S]
  PROVE  f \in Seq(S) /\ Len(f) = n /\ DOMAIN f = 1..n
  OBVIOUS

LEMMA ProductIsNat ==
  ASSUME NEW x \in Nat, NEW y \in Nat
  PROVE  x * y \in Nat
  OBVIOUS

LEMMA ProductOfSum ==
  ASSUME NEW x \in Int, NEW y \in Int, NEW z \in Int
  PROVE  x * (y + z) = x * y + x * z /\ (y + z) * x = y * x + z * x
  OBVIOUS

(* Shares of one amount by weights add up to it, but for less than one     *)
(* each: the running totals of the errors are.                             *)
LEMMA SharesAddUp ==
  ASSUME NEW w \in Seq(Nat \ {0}), w # <<>>, NEW amount \in Nat \ {0}
  PROVE  LET shares == [n \in DOMAIN w |-> RoundedShare(w[n], Total(w), amount)]
         IN shares \in Seq(Nat \ {0}) /\ Distance(Total(shares), amount) < Len(w)
<1> DEFINE N == Len(w)
           all == Total(w)
           shares == [n \in DOMAIN w |-> RoundedShare(w[n], Total(w), amount)]
<1>1. N \in Nat \ {0} /\ DOMAIN w = 1..N /\ w \in Seq(Nat) /\ \A n \in 1..N : w[n] \in Nat \ {0}
  OBVIOUS
<1>2. PICK p \in [0..N -> Nat] : /\ p[0] = 0 /\ \A k \in 1..N : p[k] = p[k - 1] + w[k]
                                 /\ all = p[N]
  BY <1>1, TotalUnfolds
<1>3. all \in Nat \ {0}
  <2>1. all = p[N - 1] + w[N] /\ p[N - 1] \in Nat /\ w[N] \in Nat \ {0}
    BY <1>1, <1>2
  <2>2. QED
    BY <2>1
<1>4. ASSUME NEW n \in 1..N
      PROVE  /\ shares[n] = RoundedShare(w[n], all, amount) /\ shares[n] \in Nat \ {0}
             /\ - all <= 2 * (all * shares[n]) - 2 * (w[n] * amount)
             /\ 2 * (all * shares[n]) - 2 * (w[n] * amount) < 2 * all
  <2>1. shares[n] = RoundedShare(w[n], all, amount)
    BY <1>1
  <2>2. w[n] \in Nat \ {0}
    BY <1>1
  <2>. HIDE DEF all, shares
  <2>3. QED
    BY <2>1, <2>2, <1>3, ShareRounds
<1>5. shares \in Seq(Nat \ {0}) /\ Len(shares) = N /\ shares \in Seq(Nat)
  <2>1. DOMAIN shares = 1..N /\ \A n \in 1..N : shares[n] \in Nat \ {0}
    BY <1>1, <1>4
  <2>2. shares = [n \in 1..N |-> shares[n]]
    BY <1>1
  <2>. HIDE DEF shares
  <2>3. shares \in [1..N -> Nat \ {0}] /\ shares \in [1..N -> Nat] /\ N \in Nat
    BY <2>1, <2>2, <1>1
  <2>. HIDE DEF N
  <2>4. QED
    BY <2>3, FunctionsAreSequences
<1>. HIDE DEF all, shares, N
<1>6. PICK r \in [0..N -> Nat] : /\ r[0] = 0 /\ \A k \in 1..N : r[k] = r[k - 1] + shares[k]
                                 /\ Total(shares) = r[N]
  BY <1>5, TotalUnfolds
<1> DEFINE Close(k) == /\ - (all * k) <= 2 * (all * r[k]) - 2 * (p[k] * amount)
                       /\ 2 * (all * r[k]) - 2 * (p[k] * amount) <= 2 * (all * k)
                       /\ k > 0 => 2 * (all * r[k]) - 2 * (p[k] * amount) < 2 * (all * k)
<1>7. Close(N)
  <2> DEFINE S == {k \in Nat : k <= N => Close(k)}
  <2>1. 0 \in S
    BY <1>2, <1>3, <1>6
  <2>2. ASSUME NEW k \in Nat, k \in S PROVE k + 1 \in S
    <3> SUFFICES ASSUME k + 1 <= N PROVE Close(k + 1)
      OBVIOUS
    <3> DEFINE aK == all * k
               aR == all * r[k]
               aS == all * shares[k + 1]
               pA == p[k] * amount
               wA == w[k + 1] * amount
    <3>1. Close(k)
      BY <2>2, <1>1
    <3>2. /\ k \in 0..N /\ k + 1 \in 1..N /\ (k + 1) - 1 = k
          /\ r[k] \in Nat /\ p[k] \in Nat
      BY <1>1
    <3>3. r[k + 1] = r[k] + shares[k + 1] /\ p[k + 1] = p[k] + w[k + 1]
      BY <3>2, <1>2, <1>6
    <3>4. shares[k + 1] \in Nat /\ w[k + 1] \in Nat
      BY <3>2, <1>1, <1>4
    <3>5. /\ all * r[k + 1] = aR + aS
          /\ p[k + 1] * amount = pA + wA
          /\ all * (k + 1) = aK + all
      BY <3>2, <3>3, <3>4, <1>3, ProductOfSum
    <3>6. aK \in Nat /\ aR \in Nat /\ aS \in Nat /\ pA \in Nat /\ wA \in Nat
      BY <3>2, <3>4, <1>3, ProductIsNat
    <3>7. - all <= 2 * aS - 2 * wA /\ 2 * aS - 2 * wA < 2 * all
      BY <3>2, <1>4
    <3>8. - aK <= 2 * aR - 2 * pA /\ 2 * aR - 2 * pA <= 2 * aK
      BY <3>1
    <3>. HIDE DEF aK, aR, aS, pA, wA
    <3>9. /\ - (aK + all) <= 2 * (aR + aS) - 2 * (pA + wA)
          /\ 2 * (aR + aS) - 2 * (pA + wA) < 2 * (aK + all)
          /\ 2 * (aR + aS) - 2 * (pA + wA) <= 2 * (aK + all)
      BY <3>6, <3>7, <3>8, <1>3
    <3>10. QED
      BY <3>5, <3>9
  <2>. HIDE DEF S
  <2>3. N \in S
    BY <2>1, <2>2, <1>1, SetInduction
  <2>4. QED
    BY <2>3 DEF S
<1>8. r[N] \in Nat /\ p[N] = all /\ N \in Nat
  BY <1>1, <1>2
<1> DEFINE m == r[N] - amount
<1>9. /\ - (all * N) <= 2 * (all * m)
      /\ 2 * (all * m) < 2 * (all * N)
  <2> DEFINE aN == all * N
             aR == all * r[N]
             aA == all * amount
  <2>1. all * m = aR - aA
    BY <1>3, <1>8
  <2>2. aN \in Nat /\ aR \in Nat /\ aA \in Nat
    BY <1>3, <1>8, ProductIsNat
  <2>3. - aN <= 2 * aR - 2 * aA /\ 2 * aR - 2 * aA < 2 * aN
    BY <1>7, <1>8, <1>1
  <2>. HIDE DEF aN, aR, aA
  <2>4. - aN <= 2 * (aR - aA) /\ 2 * (aR - aA) < 2 * aN
    BY <2>2, <2>3
  <2>. HIDE DEF m
  <2>5. QED
    BY <2>1, <2>4 DEF aN
<1>10. m \in Int
  BY <1>8
<1>. HIDE DEF m
<1>11. m < N
  <2> SUFFICES ASSUME m >= N PROVE FALSE
    BY <1>8, <1>10
  <2>1. all * m >= all * N
    BY <1>3, <1>8, <1>10
  <2>2. QED
    BY <2>1, <1>9, <1>3, <1>8, <1>10
<1>12. - N < m
  <2> SUFFICES ASSUME m <= - N PROVE FALSE
    BY <1>8, <1>10
  <2>1. all * m <= all * (- N) /\ all * (- N) = - (all * N) /\ all * N > 0
    BY <1>3, <1>8, <1>10, <1>1
  <2>2. QED
    BY <2>1, <1>9, <1>3, <1>8, <1>10
<1>13. Distance(Total(shares), amount) < N
  BY <1>6, <1>8, <1>11, <1>12 DEF Distance, m
<1>14. QED
  BY <1>5, <1>13 DEF shares, N

(* The sequences of the first n episodes.                                  *)
First(story, n) == [e \in 1..n |-> Sequence(story, e)]

(* The first m and those from m + 1 to n are the first n.                  *)
LEMMA FirstExtends ==
  ASSUME NEW story, NEW m \in Nat, NEW n \in Nat, m <= n
  PROVE  First(story, m) \o [k \in 1..(n - (m + 1) + 1) |-> Sequence(story, (m + 1) + k - 1)] = First(story, n)
<1> DEFINE s == First(story, m)
           t == [k \in 1..(n - (m + 1) + 1) |-> Sequence(story, (m + 1) + k - 1)]
           X == {Sequence(story, e) : e \in 1..n}
<1>1. n - (m + 1) + 1 = n - m /\ n - m \in Nat
  OBVIOUS
<1>2. s \in Seq(X) /\ Len(s) = m /\ \A e \in 1..m : s[e] = Sequence(story, e)
  <2>1. \A e \in 1..m : Sequence(story, e) \in X
    OBVIOUS
  <2>2. QED
    BY <2>1 DEF First
<1>3. t \in Seq(X) /\ Len(t) = n - m /\ \A k \in 1..(n - m) : t[k] = Sequence(story, m + k)
  <2>1. \A k \in 1..(n - m) : m + k \in 1..n /\ (m + 1) + k - 1 = m + k
    OBVIOUS
  <2>2. t = [k \in 1..(n - m) |-> Sequence(story, m + k)]
    BY <1>1, <2>1
  <2>3. \A k \in 1..(n - m) : Sequence(story, m + k) \in X
    BY <2>1
  <2>. HIDE DEF t, X
  <2>4. QED
    BY <2>2, <2>3, <1>1
<1>. HIDE DEF s, t, X
<1>4. s \o t \in Seq(X) /\ Len(s \o t) = n
  BY <1>2, <1>3
<1>5. ASSUME NEW e \in 1..n PROVE (s \o t)[e] = Sequence(story, e)
  <2>1. CASE e <= m
    <3>1. e \in 1..m
      BY <2>1
    <3>2. (s \o t)[e] = s[e]
      BY <3>1, <1>2, <1>3
    <3>3. QED
      BY <3>1, <3>2, <1>2
  <2>2. CASE ~(e <= m)
    <3>1. (s \o t)[e] = t[e - m] /\ e - m \in 1..(n - m)
      BY <2>2, <1>2, <1>3
    <3>2. m + (e - m) = e
      OBVIOUS
    <3>3. QED
      BY <3>1, <3>2, <1>3
  <2>3. QED
    BY <2>1, <2>2
<1>6. s \o t = [e \in 1..n |-> Sequence(story, e)]
  <2>1. s \o t \in [1..n -> X]
    BY <1>4, LenProperties
  <2>2. QED
    BY <2>1, <1>5
<1>7. QED
  BY <1>6 DEF s, t, First

(* The acts of a plan, one after the other, are the sequences of all       *)
(* episodes, and no act is empty.                                          *)
LEMMA ActsHoldTheStory ==
  ASSUME NEW story, Len(story.episodes) \in Nat \ {0}
  PROVE  /\ Concatenated(LongFormPlan(story)) = First(story, Len(story.episodes))
         /\ \A a \in DOMAIN LongFormPlan(story) :
              /\ LongFormPlan(story)[a] # <<>>
              /\ \A k \in DOMAIN LongFormPlan(story)[a] :
                   \E e \in 1..Len(story.episodes) : LongFormPlan(story)[a][k] = Sequence(story, e)
<1> DEFINE n == Len(story.episodes)
           acts == ActCount(n)
           built == LongFormPlan(story)
           last(a) == (a * n) \div acts
           size(a) == last(a) - (last(a - 1) + 1) + 1
<1>. HIDE DEF n
<1>1. n \in Nat \ {0}
  BY DEF n
<1>2. acts \in 1..3 /\ acts \in Nat \ {0}
  BY <1>1, ActsTileTheStory
<1>. HIDE DEF acts
<1>3. ASSUME NEW a \in 1..acts
      PROVE  /\ ActBounds(n, acts, a) = <<last(a - 1) + 1, last(a)>>
             /\ last(a - 1) + 1 <= last(a) /\ last(a - 1) \in Nat /\ last(a) \in Nat
  <2>1. ActBounds(n, acts, a) = <<last(a - 1) + 1, last(a)>>
    BY DEF ActBounds
  <2>2. ActBounds(n, acts, a)[1] <= ActBounds(n, acts, a)[2]
    BY <1>1, ActsTileTheStory DEF acts
  <2>3. (a - 1) * n \in Nat /\ a * n \in Nat
    BY <1>1, <1>2
  <2>4. last(a - 1) \in Nat /\ last(a) \in Nat
    BY <2>3, <1>2, QuotientBounds
  <2>. HIDE DEF last
  <2>5. QED
    BY <2>1, <2>2, <2>4
<1>4. built = [a \in 1..acts |-> [k \in 1..size(a) |-> Sequence(story, last(a - 1) + 1 + k - 1)]]
  <2> DEFINE bounds(a) == ActBounds(n, acts, a)
             act(a) == [k \in 1..(bounds(a)[2] - bounds(a)[1] + 1) |-> Sequence(story, bounds(a)[1] + k - 1)]
  <2>1. built = [a \in 1..acts |-> act(a)]
    BY DEF LongFormPlan, n, acts
  <2>2. ASSUME NEW a \in 1..acts
        PROVE  act(a) = [k \in 1..size(a) |-> Sequence(story, last(a - 1) + 1 + k - 1)]
    <3>1. bounds(a)[1] = last(a - 1) + 1 /\ bounds(a)[2] = last(a)
      BY <1>3
    <3>. HIDE DEF bounds, last
    <3>2. QED
      BY <3>1
  <2>. HIDE DEF act, built, size
  <2>3. QED
    BY <2>1, <2>2
<1>5. last(0) = 0 /\ last(acts) = n
  <2>1. 0 * n = 0 /\ 0 \div acts = 0
    BY <1>1, <1>2
  <2>2. ActBounds(n, acts, acts)[2] = n
    BY <1>1, ActsTileTheStory DEF acts
  <2>3. QED
    BY <2>1, <2>2, <1>2, <1>3
<1>. HIDE DEF built, last
<1>6. Len(built) = acts /\ DOMAIN built = 1..acts
  BY <1>4, <1>2
<1>7. ASSUME NEW a \in 1..acts
      PROVE  First(story, last(a - 1)) \o built[a] = First(story, last(a))
  <2>1. last(a - 1) \in Nat /\ last(a) \in Nat /\ last(a - 1) <= last(a)
    BY <1>3
  <2>2. built[a] = [k \in 1..(last(a) - (last(a - 1) + 1) + 1) |-> Sequence(story, (last(a - 1) + 1) + k - 1)]
    BY <1>4
  <2>3. QED
    BY <2>1, <2>2, FirstExtends
<1>8. First(story, 0) = <<>>
  BY DEF First
<1> DEFINE cat[a \in 0..Len(built)] == IF a = 0 THEN <<>> ELSE cat[a - 1] \o built[a]
           g == [a \in 0..Len(built) |-> First(story, last(a))]
<1>9. g = [a \in 0..Len(built) |-> IF a = 0 THEN <<>> ELSE g[a - 1] \o built[a]]
  <2>1. ASSUME NEW a \in 0..Len(built)
        PROVE  g[a] = IF a = 0 THEN <<>> ELSE g[a - 1] \o built[a]
    <3>1. CASE a = 0
      BY <3>1, <1>5, <1>8
    <3>2. CASE a # 0
      <4>1. a \in 1..acts /\ a - 1 \in 0..Len(built)
        BY <3>2, <1>2, <1>6
      <4>2. g[a] = First(story, last(a)) /\ g[a - 1] = First(story, last(a - 1))
        BY <4>1
      <4>3. QED
        BY <3>2, <4>1, <4>2, <1>7
    <3>3. QED
      BY <3>1, <3>2
  <2>2. QED
    BY <2>1
<1>10. cat = [a \in 0..Len(built) |-> IF a = 0 THEN <<>> ELSE cat[a - 1] \o built[a]]
  <2>. HIDE DEF g
  <2>1. QED
    BY <1>9
<1>11. Concatenated(built) = cat[Len(built)]
  BY DEF Concatenated
<1>. HIDE DEF cat
<1>12. ASSUME NEW a \in 1..acts, cat[a - 1] = First(story, last(a - 1))
       PROVE  cat[a] = First(story, last(a))
  <2>1. a \in 0..Len(built) /\ a # 0
    BY <1>2, <1>6
  <2>2. cat[a] = cat[a - 1] \o built[a]
    BY <2>1, <1>10
  <2>3. QED
    BY <2>2, <1>7, <1>12
<1>13. cat[acts] = First(story, last(acts))
  <2>1. cat[0] = First(story, last(0))
    BY <1>2, <1>5, <1>6, <1>8, <1>10
  <2>2. cat[1] = First(story, last(1))
    BY <2>1, <1>2, <1>12
  <2>3. acts >= 2 => cat[2] = First(story, last(2))
    BY <2>2, <1>2, <1>12
  <2>4. acts >= 3 => cat[3] = First(story, last(3))
    BY <2>3, <1>2, <1>12
  <2>5. QED
    BY <2>2, <2>3, <2>4, <1>2
<1>14. ASSUME NEW a \in 1..acts
       PROVE  /\ built[a] # <<>>
              /\ \A k \in DOMAIN built[a] : \E e \in 1..n : built[a][k] = Sequence(story, e)
  <2>1. /\ last(a - 1) \in Nat /\ last(a) \in Nat /\ last(a - 1) + 1 <= last(a)
        /\ size(a) \in Nat \ {0} /\ size(a) = last(a) - last(a - 1)
    BY <1>3
  <2>2. last(a) <= n
    <3>1. a * n <= acts * n /\ a * n \in Nat /\ acts * n \in Nat
      BY <1>1, <1>2
    <3>2. (a * n) \div acts <= (acts * n) \div acts
      BY <3>1, <1>2
    <3>3. QED
      BY <3>2, <1>5 DEF last
  <2>3. built[a] = [k \in 1..size(a) |-> Sequence(story, last(a - 1) + 1 + k - 1)]
    BY <1>4
  <2>4. DOMAIN built[a] = 1..size(a) /\ 1 \in DOMAIN built[a]
    BY <2>1, <2>3
  <2>5. ASSUME NEW k \in DOMAIN built[a]
        PROVE  \E e \in 1..n : built[a][k] = Sequence(story, e)
    <3>1. last(a - 1) + 1 + k - 1 \in 1..n
      <4>1. k \in Nat /\ 1 <= k /\ k <= size(a)
        BY <2>1, <2>4
      <4>. HIDE DEF size
      <4>2. QED
        BY <4>1, <2>1, <2>2, <1>1
    <3>2. built[a][k] = Sequence(story, last(a - 1) + 1 + k - 1)
      BY <2>3, <2>4
    <3>3. QED
      BY <3>1, <3>2
  <2>6. built[a] # <<>>
    <3>1. DOMAIN <<>> = {}
      OBVIOUS
    <3>2. QED
      BY <2>4, <3>1
  <2>7. QED
    BY <2>5, <2>6
<1>15. QED
  BY <1>5, <1>6, <1>11, <1>13, <1>14 DEF built, n

(* The seconds of the episodes: each at least one, together not more than  *)
(* the project's but for less than one each, and not less when every       *)
(* episode has some time in the package.                                   *)
LEMMA SecondsOfSequences ==
  ASSUME NEW story \in Story
  PROVE  LET n == Len(story.episodes)
             seconds == [e \in DOMAIN story.episodes |-> Sequence(story, e).seconds]
         IN /\ n \in Nat \ {0} /\ DOMAIN story.episodes = 1..n
            /\ \A e \in DOMAIN story.episodes : Sequence(story, e).seconds \in Nat \ {0}
            /\ Total(seconds) < ProjectSeconds + n
            /\ EveryEpisodeTimed(story) => Total(seconds) > ProjectSeconds - n
<1> DEFINE n == Len(story.episodes)
           raw(e) == story.episodes[e].seconds
           source == SourceSeconds(story)
           all == Total(source)
           shares == [e \in DOMAIN source |-> RoundedShare(source[e], Total(source), ProjectSeconds)]
           seconds == [e \in DOMAIN story.episodes |-> Sequence(story, e).seconds]
<1>1. story.episodes \in Seq([seconds : Int, flows : Seq(Nat)]) /\ story.episodes # <<>>
  BY ImportAssumption
<1>2. n \in Nat \ {0} /\ DOMAIN story.episodes = 1..n
  BY <1>1
<1>3. \A e \in 1..n : raw(e) \in Int
  <2>1. \A e \in 1..n : story.episodes[e] \in [seconds : Int, flows : Seq(Nat)]
    BY <1>1, ElementOfSeq
  <2>2. QED
    BY <2>1
<1>4. source = [e \in 1..n |-> AtLeastOne(raw(e))]
  <2>1. source = [e \in DOMAIN story.episodes |-> AtLeastOne(raw(e))]
    BY DEF SourceSeconds
  <2>2. QED
    BY <2>1, <1>2
<1>5. seconds = [e \in 1..n |-> RoundedShare(raw(e), all, ProjectSeconds)]
  <2>1. seconds = [e \in DOMAIN story.episodes |-> RoundedShare(raw(e), all, ProjectSeconds)]
    BY DEF Sequence
  <2>2. QED
    BY <2>1, <1>2
<1>6. EveryEpisodeTimed(story) => \A e \in 1..n : AtLeastOne(raw(e)) = raw(e)
  BY <1>2, <1>3 DEF EveryEpisodeTimed, AtLeastOne
<1>7. \A e \in 1..n : Sequence(story, e).seconds = RoundedShare(raw(e), all, ProjectSeconds)
  BY DEF Sequence
<1>8. ProjectSeconds \in Nat \ {0}
  BY ImportAssumption
<1>. HIDE DEF n, source, raw, seconds
<1>9. \A e \in 1..n : AtLeastOne(raw(e)) \in Nat \ {0} /\ raw(e) <= AtLeastOne(raw(e))
  BY <1>3 DEF AtLeastOne
<1>10. source \in Seq(Nat \ {0}) /\ Len(source) = n /\ DOMAIN source = 1..n /\ source # <<>>
  <2>1. source \in [1..n -> Nat \ {0}]
    BY <1>4, <1>9
  <2>2. QED
    BY <2>1, <1>2, FunctionsAreSequences
<1>11. shares \in Seq(Nat \ {0}) /\ Distance(Total(shares), ProjectSeconds) < n
  BY <1>8, <1>10, SharesAddUp
<1>12. shares = [e \in 1..n |-> RoundedShare(AtLeastOne(raw(e)), all, ProjectSeconds)]
  BY <1>4, <1>10
<1>13. all \in Nat \ {0}
  <2>1. PICK f \in [0..n -> Nat] : /\ f[0] = 0 /\ \A k \in 1..n : f[k] = f[k - 1] + source[k]
                                   /\ all = f[n]
    <3>1. source \in Seq(Nat)
      BY <1>10
    <3>2. QED
      BY <3>1, <1>10, TotalUnfolds
  <2>2. n \in 1..n /\ n - 1 \in 0..n /\ source[n] \in Nat \ {0}
    BY <1>2, <1>4, <1>9
  <2>3. f[n] = f[n - 1] + source[n] /\ f[n - 1] \in Nat
    BY <2>1, <2>2
  <2>. HIDE DEF all
  <2>4. QED
    BY <2>1, <2>2, <2>3
<1>. HIDE DEF all, shares
<1>14. \A e \in 1..n : /\ seconds[e] \in Nat \ {0} /\ seconds[e] <= shares[e]
                        /\ Sequence(story, e).seconds \in Nat \ {0}
  <2> SUFFICES ASSUME NEW e \in 1..n
               PROVE  /\ seconds[e] \in Nat \ {0} /\ seconds[e] <= shares[e]
                      /\ Sequence(story, e).seconds \in Nat \ {0}
    OBVIOUS
  <2>1. seconds[e] = RoundedShare(raw(e), all, ProjectSeconds)
        /\ shares[e] = RoundedShare(AtLeastOne(raw(e)), all, ProjectSeconds)
        /\ Sequence(story, e).seconds = RoundedShare(raw(e), all, ProjectSeconds)
    BY <1>5, <1>7, <1>12
  <2>2. raw(e) \in Int /\ AtLeastOne(raw(e)) \in Int /\ raw(e) <= AtLeastOne(raw(e))
    BY <1>3, <1>9
  <2>3. QED
    BY <2>1, <2>2, <1>8, <1>13, ShareGrows
<1>15. seconds \in Seq(Nat) /\ Len(seconds) = n /\ shares \in Seq(Nat) /\ Len(shares) = n
  <2>1. seconds \in [1..n -> Nat]
    BY <1>5, <1>14
  <2>2. DOMAIN shares = 1..n /\ shares \in Seq(Nat)
    BY <1>11, <1>12
  <2>3. QED
    BY <2>1, <2>2, <1>2, FunctionsAreSequences, LenProperties
<1>16. Total(seconds) \in Nat /\ Total(shares) \in Nat /\ Total(seconds) <= Total(shares)
  BY <1>14, <1>15, TotalGrows
<1>17. Total(seconds) < ProjectSeconds + n /\ Total(shares) > ProjectSeconds - n
  BY <1>2, <1>8, <1>11, <1>16 DEF Distance
<1>18. EveryEpisodeTimed(story) => seconds = shares
  BY <1>5, <1>6, <1>12
<1>19. QED
  BY <1>2, <1>14, <1>17, <1>18 DEF n, seconds

(* The seconds of the scenes of an episode are shares of the episode's.    *)
LEMMA SecondsOfScenes ==
  ASSUME NEW story \in Story, NEW e \in DOMAIN story.episodes
  PROVE  LET s == Sequence(story, e)
         IN s.scenes # <<>> => Distance(Total(s.scenes), s.seconds) < Len(s.scenes)
<1> DEFINE s == Sequence(story, e)
           flows == story.episodes[e].flows
           weights == FlowWeights(story.episodes[e])
<1>1. flows \in Seq(Nat)
  <2>1. story.episodes \in Seq([seconds : Int, flows : Seq(Nat)])
    BY ImportAssumption
  <2>2. story.episodes[e] \in [seconds : Int, flows : Seq(Nat)]
    BY <2>1, ElementOfSeq, LenProperties
  <2>3. QED
    BY <2>2
<1>2. \A m \in Nat : AtLeastOne(m) \in Nat \ {0}
  BY DEF AtLeastOne
<1>3. weights = [n \in DOMAIN flows |-> AtLeastOne(flows[n])]
  BY DEF FlowWeights
<1>4. s.seconds \in Nat \ {0}
  BY SecondsOfSequences
<1>5. s.scenes = [n \in DOMAIN flows |-> RoundedShare(weights[n], Total(weights), s.seconds)]
  BY DEF Sequence, SceneSeconds
<1>. HIDE DEF s, flows, weights
<1>6. weights \in Seq(Nat \ {0}) /\ Len(weights) = Len(flows) /\ DOMAIN weights = DOMAIN flows
  <2>1. Len(flows) \in Nat /\ DOMAIN flows = 1..Len(flows) /\ \A n \in 1..Len(flows) : flows[n] \in Nat
    BY <1>1
  <2>2. weights \in [1..Len(flows) -> Nat \ {0}]
    BY <2>1, <1>2, <1>3
  <2>3. QED
    BY <2>1, <2>2, FunctionsAreSequences
<1>7. Len(s.scenes) = Len(flows) /\ (s.scenes # <<>> => weights # <<>>)
  BY <1>1, <1>5, <1>6
<1>8. weights # <<>> => Distance(Total(s.scenes), s.seconds) < Len(weights)
  BY <1>4, <1>5, <1>6, SharesAddUp
<1>9. QED
  BY <1>6, <1>7, <1>8 DEF s

(* What PlanTellsTheStory says of one import.                              *)
PlanTells(built, story) ==
  /\ \A a \in DOMAIN built : built[a] # <<>>
  /\ [e \in DOMAIN Concatenated(built) |-> Concatenated(built)[e].episode]
       = [e \in 1..Len(story.episodes) |-> e]
  /\ \A a \in DOMAIN built : \A k \in DOMAIN built[a] :
       LET s == built[a][k]
       IN s.scenes # <<>> => Distance(Total(s.scenes), s.seconds) < Len(s.scenes)

LEMMA LongFormPlanTells ==
  ASSUME NEW story \in Story
  PROVE  PlanTells(LongFormPlan(story), story)
<1> DEFINE built == LongFormPlan(story)
           n == Len(story.episodes)
<1>1. n \in Nat \ {0} /\ DOMAIN story.episodes = 1..n
  BY SecondsOfSequences
<1>2. /\ Concatenated(built) = First(story, n)
      /\ \A a \in DOMAIN built :
           /\ built[a] # <<>>
           /\ \A k \in DOMAIN built[a] : \E e \in 1..n : built[a][k] = Sequence(story, e)
  BY <1>1, ActsHoldTheStory
<1>. HIDE DEF built, n
<1>3. [e \in DOMAIN Concatenated(built) |-> Concatenated(built)[e].episode] = [e \in 1..n |-> e]
  <2>1. DOMAIN First(story, n) = 1..n /\ \A e \in 1..n : First(story, n)[e].episode = e
    BY DEF First, Sequence
  <2>2. QED
    BY <1>2, <2>1
<1>4. ASSUME NEW a \in DOMAIN built, NEW k \in DOMAIN built[a]
      PROVE  built[a][k].scenes # <<>> =>
               Distance(Total(built[a][k].scenes), built[a][k].seconds) < Len(built[a][k].scenes)
  <2>1. PICK e \in 1..n : built[a][k] = Sequence(story, e)
    BY <1>2
  <2>2. QED
    BY <2>1, <1>1, SecondsOfScenes
<1>5. QED
  BY <1>2, <1>3, <1>4 DEF PlanTells, built, n

(* The acts of every plan hold every episode once and in order, none is    *)
(* empty, and the scenes of an episode take its time up to less than one   *)
(* second each, however many episodes and scenes of whatever length the    *)
(* package has (normalize).                                                *)
THEOREM UpstreamPlanTellsTheStory == UpstreamSpec => []PlanTellsTheStory
<1>1. UpstreamInv => PlanTellsTheStory
  <2> SUFFICES ASSUME UpstreamInv, NEW i \in ImportId, imports[i].plan # NoPlan
               PROVE  PlanTells(imports[i].plan, StoryOf(i))
    BY DEF PlanTellsTheStory, PlanTells
  <2>1. imports[i].plan = LongFormPlan(StoryOf(i)) /\ StoryOf(i) \in Story
    BY DEF UpstreamInv, StoryIsFixed, StoryOf, NoImport
  <2>2. QED
    BY <2>1, LongFormPlanTells
<1>2. QED
  BY UpstreamInitially, UpstreamStep, <1>1, PTL DEF UpstreamSpec

(* A plan is never longer than the project by a second or more per         *)
(* episode, and not shorter either when its package gives every episode    *)
(* some time (normalize scales and rounds each of them).                   *)
THEOREM UpstreamPlanFillsTheProject == UpstreamSpec => []PlanFillsTheProject
<1>1. UpstreamInv => PlanFillsTheProject
  <2> SUFFICES ASSUME UpstreamInv, NEW i \in ImportId, imports[i].plan # NoPlan,
                      NEW all, all = Concatenated(imports[i].plan),
                      NEW planned, planned = Total([e \in DOMAIN all |-> all[e].seconds])
               PROVE  /\ planned < ProjectSeconds + Len(all)
                      /\ EveryEpisodeTimed(StoryOf(i)) => planned > ProjectSeconds - Len(all)
    BY DEF PlanFillsTheProject
  <2> DEFINE story == StoryOf(i)
             n == Len(story.episodes)
  <2>1. imports[i].plan = LongFormPlan(story) /\ story \in Story
    BY DEF UpstreamInv, StoryIsFixed, StoryOf, NoImport
  <2>. HIDE DEF story
  <2>2. n \in Nat \ {0} /\ DOMAIN story.episodes = 1..n
    BY <2>1, SecondsOfSequences
  <2>3. all = First(story, n)
    BY <2>1, <2>2, ActsHoldTheStory
  <2>4. DOMAIN all = 1..n /\ Len(all) = n /\ \A e \in 1..n : all[e] = Sequence(story, e)
    BY <2>2, <2>3 DEF First
  <2>5. [e \in DOMAIN all |-> all[e].seconds] = [e \in DOMAIN story.episodes |-> Sequence(story, e).seconds]
    BY <2>2, <2>4
  <2>6. QED
    BY <2>1, <2>4, <2>5, SecondsOfSequences DEF story
<1>2. QED
  BY UpstreamInitially, UpstreamStep, <1>1, PTL DEF UpstreamSpec

-----------------------------------------------------------------------------
(* ModelInstall.  A worker serves models that are whole.                   *)

(* An entry the installation is fetching has nothing whole in its place,   *)
(* and every entry behind it is whole; so nothing whole is overwritten.    *)
BootRecord == boot \in [step : BootStep, entry : 1..(Len(ModelOrder) + 1), hashed : SUBSET (Installed \X Content)]

EntryInRange ==
  /\ boot.step \in {"prepare", "fetch", "replace", "hash"} => boot.entry <= Len(ModelOrder)
  /\ boot.step = "serving" => boot.entry = Len(ModelOrder) + 1
  /\ boot.step \in {"prepare", "fetch", "replace"} => destination[Current] # "whole"
  /\ boot.step \in {"prepare", "replace"} => InstallMode[Current] # "cache-snapshot"
  /\ boot.step = "replace" => partial[Current] = "whole"

BehindIsWhole ==
  /\ \A n \in 1..(boot.entry - 1) : destination[ModelOrder[n]] = "whole"
  /\ \A entry \in boot.hashed : destination[entry[1]] = "whole"
  /\ \A entry \in receipt : destination[entry[1]] = "whole"

InstallInv == InstallTypeOK /\ BootRecord /\ EntryInRange /\ ReplacedWhole /\ (~Qualification => BehindIsWhole)

LEMMA ModelFacts ==
  /\ Len(ModelOrder) \in Nat
  /\ \A n \in 1..Len(ModelOrder) : ModelOrder[n] \in Installed
  /\ \A m \in Installed : \E n \in 1..Len(ModelOrder) : m = ModelOrder[n]
<1>1. ModelOrder \in Seq(Installed)
  BY InstallAssumption DEF Installed
<1>2. Len(ModelOrder) \in Nat /\ DOMAIN ModelOrder = 1..Len(ModelOrder)
  BY <1>1, LenProperties
<1>3. QED
  BY <1>2 DEF Installed

LEMMA InstallInitially == InstallInit => InstallInv
<1> SUFFICES ASSUME InstallInit PROVE InstallInv
  OBVIOUS
<1>1. BootRecord
  BY ModelFacts DEF InstallInit, BootRecord, BootStep
<1>2. InstallTypeOK
  BY ModelFacts DEF InstallInit, InstallTypeOK, BootStep, Content
<1>3. EntryInRange /\ ReplacedWhole
  BY DEF InstallInit, EntryInRange, ReplacedWhole
<1>4. BehindIsWhole
  BY DEF InstallInit, BehindIsWhole
<1>5. QED
  BY <1>1, <1>2, <1>3, <1>4 DEF InstallInv

(* A step that only moves the installation to another step.                *)
LEMMA BootMoved ==
  ASSUME InstallInv, NEW s \in BootStep, Proceed(s)
  PROVE  boot'.step = s /\ boot'.entry = boot.entry /\ boot'.hashed = boot.hashed /\ BootRecord'
BY DEF InstallInv, BootRecord, Proceed

LEMMA InstallStep ==
  ASSUME InstallInv, [InstallNext]_installVars
  PROVE  InstallInv'
<1> USE ModelFacts
<1> InstallTypeOK /\ BootRecord /\ EntryInRange /\ ReplacedWhole
  BY DEF InstallInv
<1> /\ boot.step \in BootStep /\ boot.entry \in 1..(Len(ModelOrder) + 1)
    /\ boot.hashed \in SUBSET (Installed \X Content)
    /\ destination \in [Installed -> Content] /\ partial \in [Installed -> Content]
    /\ receipt \subseteq Installed \X Content
  BY DEF InstallTypeOK, BootRecord
<1>c. boot.entry <= Len(ModelOrder) => Current \in Installed
  BY DEF Current
<1>1. CASE StartContainer
  <2>1. boot'.step = "look" /\ boot'.entry = 1 /\ boot'.hashed = {} /\ BootRecord'
    BY <1>1 DEF StartContainer, BootRecord, BootStep
  <2>2. QED
    BY <1>1, <2>1 DEF StartContainer, InstallInv, InstallTypeOK, EntryInRange, ReplacedWhole, BehindIsWhole, BootStep
<1>2. CASE LookForModel
  <2>1. PICK s \in {"hash", "fetch", "prepare"} :
          /\ Proceed(s)
          /\ s = IF destination[Current] # "absent" THEN "hash"
                 ELSE IF InstallMode[Current] = "cache-snapshot" THEN "fetch" ELSE "prepare"
    BY <1>2 DEF LookForModel
  <2>2. boot'.step = s /\ boot'.entry = boot.entry /\ boot'.hashed = boot.hashed /\ BootRecord' /\ s \in BootStep
    BY <2>1, BootMoved DEF BootStep
  <2>3. Current' = Current /\ UNCHANGED <<destination, partial, receipt>> /\ boot.entry <= Len(ModelOrder)
    BY <1>2, <2>2 DEF LookForModel, Current
  <2>4. QED
    BY <2>1, <2>2, <2>3 DEF InstallInv, InstallTypeOK, EntryInRange, ReplacedWhole, BehindIsWhole
<1>3. CASE ClearPartial
  <2>1. boot'.step = "fetch" /\ boot'.entry = boot.entry /\ boot'.hashed = boot.hashed /\ BootRecord'
    BY <1>3, BootMoved DEF ClearPartial, BootStep
  <2>2. Current' = Current /\ UNCHANGED <<destination, receipt>> /\ partial' \in [Installed -> Content]
        /\ boot.step = "prepare"
    BY <1>3, <2>1 DEF ClearPartial, Current, Content
  <2>3. QED
    BY <2>1, <2>2 DEF InstallInv, InstallTypeOK, EntryInRange, ReplacedWhole, BehindIsWhole, BootStep
<1>4. CASE FetchModel
  <2>0. boot.step = "fetch" /\ UNCHANGED receipt /\ Current \in Installed /\ destination[Current] # "whole"
        /\ boot.entry <= Len(ModelOrder)
    BY <1>4, <1>c DEF FetchModel, EntryInRange
  <2>1. CASE UNCHANGED <<destination, partial>> /\ Proceed("failed")
    <3>1. boot'.step = "failed" /\ boot'.entry = boot.entry /\ boot'.hashed = boot.hashed /\ BootRecord'
      BY <2>1, BootMoved DEF BootStep
    <3>2. QED
      BY <2>0, <2>1, <3>1 DEF InstallInv, InstallTypeOK, EntryInRange, ReplacedWhole, BehindIsWhole, BootStep
  <2>2. ASSUME NEW content \in {"incomplete", "whole"},
               IF InstallMode[Current] = "cache-snapshot"
               THEN destination' = [destination EXCEPT ![Current] = content] /\ UNCHANGED partial
               ELSE partial' = [partial EXCEPT ![Current] = content] /\ UNCHANGED destination,
               \/ content = "incomplete" /\ boot' = boot
               \/ content = "whole"
                  /\ Proceed(IF InstallMode[Current] = "cache-snapshot" THEN "hash" ELSE "replace")
        PROVE  InstallInv'
    <3>1. PICK s \in {"fetch", "hash", "replace"} :
            /\ boot'.step = s /\ boot'.entry = boot.entry /\ boot'.hashed = boot.hashed /\ BootRecord'
            /\ s = IF content = "incomplete" THEN "fetch"
                   ELSE IF InstallMode[Current] = "cache-snapshot" THEN "hash" ELSE "replace"
      <4>1. CASE boot' = boot /\ content = "incomplete"
        BY <2>0, <4>1 DEF BootRecord
      <4>2. CASE content = "whole" /\ Proceed(IF InstallMode[Current] = "cache-snapshot" THEN "hash" ELSE "replace")
        BY <4>2, BootMoved DEF BootStep
      <4>3. QED
        BY <2>2, <4>1, <4>2
    <3>2. /\ destination' \in [Installed -> Content] /\ partial' \in [Installed -> Content]
          /\ \A m \in Installed : m # Current => destination'[m] = destination[m]
          /\ InstallMode[Current] # "cache-snapshot" => UNCHANGED destination /\ partial'[Current] = content
      BY <2>0, <2>2 DEF Content
    <3>3. Current' = Current
      BY <3>1 DEF Current
    <3>4. InstallTypeOK'
      BY <2>0, <3>1, <3>2 DEF InstallTypeOK, BootStep
    <3>5. EntryInRange'
      BY <2>0, <2>2, <3>1, <3>2, <3>3 DEF EntryInRange
    <3>6. ReplacedWhole'
      BY <3>2 DEF ReplacedWhole
    <3>7. BehindIsWhole => BehindIsWhole'
      BY <2>0, <3>1, <3>2 DEF BehindIsWhole
    <3>8. QED
      BY <3>1, <3>4, <3>5, <3>6, <3>7 DEF InstallInv
  <2>3. QED
    BY <1>4, <2>1, <2>2 DEF FetchModel
<1>5. CASE ReplaceModel
  <2>1. boot'.step = "hash" /\ boot'.entry = boot.entry /\ boot'.hashed = boot.hashed /\ BootRecord'
    BY <1>5, BootMoved DEF ReplaceModel, BootStep
  <2>2. boot.step = "replace" /\ UNCHANGED receipt /\ Current \in Installed /\ Current' = Current
        /\ boot.entry <= Len(ModelOrder) /\ destination[Current] # "whole" /\ partial[Current] = "whole"
    BY <1>5, <1>c, <2>1 DEF ReplaceModel, EntryInRange, Current
  <2>3. /\ destination' \in [Installed -> Content] /\ partial' \in [Installed -> Content]
        /\ \A m \in Installed : m # Current => destination'[m] = destination[m]
        /\ destination'[Current] = "whole"
    BY <1>5, <2>2 DEF ReplaceModel, Content
  <2>4. InstallTypeOK' /\ EntryInRange' /\ ReplacedWhole'
    BY <2>1, <2>2, <2>3 DEF InstallTypeOK, EntryInRange, ReplacedWhole, BootStep
  <2>5. BehindIsWhole => BehindIsWhole'
    BY <2>1, <2>2, <2>3 DEF BehindIsWhole
  <2>6. QED
    BY <2>1, <2>4, <2>5 DEF InstallInv
<1>6. CASE HashModel
  <2>0. boot.step = "hash" /\ UNCHANGED <<destination, partial, receipt>> /\ Current \in Installed
        /\ boot.entry \in 1..Len(ModelOrder)
    BY <1>6, <1>c DEF HashModel, EntryInRange
  <2>1. CASE HashAccepts(destination[Current])
    <3>1. boot' = [boot EXCEPT !.step = "look", !.entry = boot.entry + 1,
                               !.hashed = boot.hashed \cup {<<Current, destination[Current]>>}]
      BY <1>6, <2>1 DEF HashModel
    <3>2. <<Current, destination[Current]>> \in Installed \X Content
      BY <2>0
    <3>3. /\ boot'.step = "look" /\ boot'.entry = boot.entry + 1
          /\ boot'.hashed = boot.hashed \cup {<<Current, destination[Current]>>} /\ BootRecord'
      <4>1. PICK h, n : h = boot.hashed \cup {<<Current, destination[Current]>>} /\ n = boot.entry + 1
        OBVIOUS
      <4>2. h \in SUBSET (Installed \X Content) /\ n \in 1..(Len(ModelOrder) + 1) /\ "look" \in BootStep
        BY <2>0, <3>2, <4>1 DEF BootStep
      <4>3. boot' = [boot EXCEPT !.step = "look", !.entry = n, !.hashed = h]
        BY <3>1, <4>1
      <4>4. QED
        BY <4>1, <4>2, <4>3 DEF BootRecord
    <3>4. InstallTypeOK' /\ EntryInRange' /\ ReplacedWhole'
      BY <2>0, <3>2, <3>3 DEF InstallTypeOK, EntryInRange, ReplacedWhole, BootStep
    <3>5. ~Qualification /\ BehindIsWhole => BehindIsWhole'
      <4>1. ~Qualification => destination[Current] = "whole"
        BY <2>1 DEF HashAccepts
      <4>2. \A n \in 1..(boot'.entry - 1) : n \in 1..(boot.entry - 1) \/ n = boot.entry
        BY <2>0, <3>3
      <4>3. QED
        BY <2>0, <3>3, <4>1, <4>2 DEF BehindIsWhole, Current
    <3>6. QED
      BY <3>3, <3>4, <3>5 DEF InstallInv
  <2>2. CASE ~HashAccepts(destination[Current])
    <3>1. boot'.step = "failed" /\ boot'.entry = boot.entry /\ boot'.hashed = boot.hashed /\ BootRecord'
      BY <1>6, <2>2, BootMoved DEF HashModel, BootStep
    <3>2. QED
      BY <2>0, <3>1 DEF InstallInv, InstallTypeOK, EntryInRange, ReplacedWhole, BehindIsWhole, BootStep
  <2>3. QED
    BY <2>1, <2>2
<1>7. CASE WriteReceipt
  <2>1. boot'.step = "serving" /\ boot'.entry = boot.entry /\ boot'.hashed = boot.hashed /\ BootRecord'
    BY <1>7, BootMoved DEF WriteReceipt, BootStep
  <2>2. boot.entry = Len(ModelOrder) + 1 /\ receipt' = boot.hashed /\ UNCHANGED <<destination, partial>>
    BY <1>7 DEF WriteReceipt
  <2>3. QED
    BY <2>1, <2>2 DEF InstallInv, InstallTypeOK, EntryInRange, ReplacedWhole, BehindIsWhole, BootStep
<1>8. CASE KillContainer
  <2>1. boot'.step = "down" /\ boot'.entry = boot.entry /\ boot'.hashed = boot.hashed /\ BootRecord'
    BY <1>8, BootMoved DEF KillContainer, BootStep
  <2>2. QED
    BY <1>8, <2>1 DEF KillContainer, InstallInv, InstallTypeOK, EntryInRange, ReplacedWhole, BehindIsWhole, BootStep
<1>9. CASE UNCHANGED installVars
  BY <1>9 DEF installVars, InstallInv, InstallTypeOK, BootRecord, EntryInRange, ReplacedWhole, BehindIsWhole, Current
<1>10. QED
  BY <1>1, <1>2, <1>3, <1>4, <1>5, <1>6, <1>7, <1>8, <1>9 DEF InstallNext

(* However often the installation was killed before, a worker serves only  *)
(* when every selected model is whole on the volume, and its receipt names *)
(* whole models.                                                           *)
THEOREM InstallServesWholeModels == InstallSpec => []ServesWholeModels
<1>1. InstallInv => ServesWholeModels
  <2> SUFFICES ASSUME InstallInv, ~Qualification
               PROVE  /\ boot.step = "serving" => \A m \in Installed : destination[m] = "whole"
                      /\ \A entry \in receipt : destination[entry[1]] = "whole"
    BY DEF ServesWholeModels
  <2>1. ASSUME boot.step = "serving", NEW m \in Installed PROVE destination[m] = "whole"
    <3>1. PICK n \in 1..Len(ModelOrder) : m = ModelOrder[n]
      BY ModelFacts
    <3>2. n \in 1..(boot.entry - 1)
      BY <2>1, ModelFacts DEF InstallInv, EntryInRange
    <3>3. QED
      BY <3>1, <3>2 DEF InstallInv, BehindIsWhole
  <2>2. QED
    BY <2>1 DEF InstallInv, BehindIsWhole
<1>2. QED
  BY InstallInitially, InstallStep, <1>1, PTL DEF InstallSpec

(* A model that is moved into place is whole; only a cache snapshot can be *)
(* under its destination unfinished.                                       *)
THEOREM InstallReplacedWhole == InstallSpec => [](InstallTypeOK /\ ReplacedWhole)
<1>1. InstallInv => InstallTypeOK /\ ReplacedWhole
  BY DEF InstallInv
<1>2. QED
  BY InstallInitially, InstallStep, <1>1, PTL DEF InstallSpec

-----------------------------------------------------------------------------
(* WritingRoom.  What one tick of the approval box allows.                 *)

RequestRecord == [stage : RequestStage, shown : Context, shownPlan : 0..MaxPlans, tick : 0..MaxTicks,
                  context : Context, plan : 0..MaxPlans, paid : BOOLEAN, kept : BOOLEAN,
                  report : {"none", "saved", "failed"}]

(* A request is reported when it ends, and kept by the save just before.   *)
ReportFollows ==
  \A r \in Request :
    /\ requests[r].stage = "ended" <=> requests[r].report # "none"
    /\ requests[r].kept => requests[r].stage \in {"saved", "ended"}
    /\ requests[r].stage = "saved" => requests[r].kept

(* The tick on the panel is newer than, or still held by, every request:   *)
(* the one the panel waits for, or one that was reported failed.           *)
TickIsHeld ==
  /\ panel.tick <= ticks
  /\ \A r \in Request :
       /\ requests[r].tick <= ticks
       /\ panel.waits = r => requests[r].tick = panel.tick /\ panel.tick # 0
                              /\ requests[r].stage \notin {"unsent", "ended"}
       /\ requests[r].tick = panel.tick /\ panel.tick # 0 =>
            panel.waits = r \/ requests[r].report = "failed"

RoomInv == RoomTypeOK /\ ReportFollows /\ ReportIsTrue /\ TickIsHeld /\ SecondOnlyAfterFailure /\ PlanWasShown

LEMMA RoomRecords ==
  ASSUME RoomTypeOK
  PROVE  /\ panel \in Panel
         /\ \A r \in Request : requests[r] \in RequestRecord
         /\ facts \in 0..MaxFacts /\ plan \in 0..MaxPlans /\ ticks \in 0..MaxTicks
         /\ \A r \in Request : \A rec \in RequestRecord :
              [requests EXCEPT ![r] = rec] \in [Request -> RequestRecord]
BY DEF RoomTypeOK, RequestRecord

LEMMA UnsentFacts ==
  /\ Unsent \in RequestRecord /\ NoContext \in Context
  /\ Unsent.stage = "unsent" /\ Unsent.report = "none" /\ ~Unsent.kept /\ Unsent.tick = 0 /\ ~Unsent.paid
BY RoomAssumption DEF Unsent, RequestRecord, RequestStage, NoContext, Context

LEMMA RoomInitially == RoomInit => RoomInv
<1> SUFFICES ASSUME RoomInit PROVE RoomInv
  OBVIOUS
<1> USE RoomAssumption
<1>1. PICK s \in Selection : panel = OpenPanel(s)
  BY DEF RoomInit
<1>2. panel \in Panel /\ panel.tick = 0 /\ panel.waits = "none"
  BY <1>1, UnsentFacts DEF OpenPanel, Panel
<1>3. \A r \in Request : requests[r] = Unsent
  BY DEF RoomInit
<1>4. RoomTypeOK
  <2>1. requests \in [Request -> RequestRecord]
    BY UnsentFacts DEF RoomInit
  <2>2. facts \in 0..MaxFacts /\ plan \in 0..MaxPlans /\ ticks \in 0..MaxTicks
        /\ libraryBusy \in BOOLEAN /\ logBroken \in BOOLEAN
    <3>1. facts = 0 /\ plan = 0 /\ ticks = 0 /\ libraryBusy = FALSE /\ logBroken = FALSE
      BY Zenon DEF RoomInit
    <3>2. 0 \in 0..MaxFacts /\ 0 \in 0..MaxPlans /\ 0 \in 0..MaxTicks
      OBVIOUS
    <3>3. QED
      BY <3>1, <3>2, Zenon
  <2>3. QED
    BY <1>2, <2>1, <2>2, Zenon DEF RoomTypeOK, RequestRecord
<1>5. ReportFollows /\ ReportIsTrue /\ SecondOnlyAfterFailure /\ PlanWasShown
  BY <1>3, UnsentFacts DEF ReportFollows, ReportIsTrue, SecondOnlyAfterFailure, PlanWasShown
<1>6. TickIsHeld
  BY <1>2, <1>3, UnsentFacts DEF RoomInit, TickIsHeld
<1>7. QED
  BY <1>4, <1>5, <1>6 DEF RoomInv

(* A step that rewrites one request, not yet ended, by a record that has   *)
(* the same tick and is not reported, and leaves the panel alone.          *)
LEMMA RequestMoves ==
  ASSUME RoomInv, NEW r \in Request, NEW rec \in RequestRecord,
         requests' = [requests EXCEPT ![r] = rec],
         UNCHANGED <<facts, plan, ticks, panel, libraryBusy, logBroken>>,
         rec.tick = requests[r].tick, requests[r].stage \notin {"unsent", "ended"},
         rec.stage \notin {"unsent", "ended"}, rec.report = "none",
         rec.kept <=> rec.stage = "saved",
         rec.stage \in {"called", "answered", "saved"} => rec.plan = rec.shownPlan
  PROVE  RoomInv'
<1>1. \A q \in Request : requests'[q] = IF q = r THEN rec ELSE requests[q]
  BY RoomRecords DEF RoomInv, RoomTypeOK
<1>2. requests[r].report = "none"
  BY DEF RoomInv, ReportFollows
<1>3. RoomTypeOK'
  BY RoomRecords DEF RoomInv, RoomTypeOK, RequestRecord
<1>4. ReportFollows' /\ ReportIsTrue' /\ PlanWasShown'
  BY <1>1 DEF RoomInv, ReportFollows, ReportIsTrue, PlanWasShown
<1>5. TickIsHeld'
  BY <1>1, <1>2 DEF RoomInv, TickIsHeld
<1>6. SecondOnlyAfterFailure'
  BY <1>1, <1>2 DEF RoomInv, SecondOnlyAfterFailure
<1>7. QED
  BY <1>3, <1>4, <1>5, <1>6 DEF RoomInv

(* A request ends: the panel that waits for it keeps its tick only when    *)
(* the request failed.                                                     *)
LEMMA RequestEnds ==
  ASSUME RoomInv, NEW r \in Request, NEW report \in {"saved", "failed"}, End(r, report),
         requests[r].stage \notin {"unsent", "ended"},
         UNCHANGED <<facts, plan, ticks, libraryBusy>>, logBroken' \in BOOLEAN,
         logBroken => logBroken',
         report = "saved" => requests[r].kept,
         report = "failed" /\ requests[r].kept => logBroken'
  PROVE  RoomInv'
<1> DEFINE rec == [requests[r] EXCEPT !.stage = "ended", !.report = report]
<1>1. requests[r] \in RequestRecord /\ panel \in Panel /\ requests' = [requests EXCEPT ![r] = rec]
  BY RoomRecords DEF RoomInv, End
<1>2. /\ rec \in RequestRecord /\ rec.stage = "ended" /\ rec.report = report
      /\ rec.tick = requests[r].tick /\ rec.kept = requests[r].kept
      /\ rec.plan = requests[r].plan /\ rec.shownPlan = requests[r].shownPlan
  BY <1>1 DEF RequestRecord, RequestStage
<1> HIDE DEF rec
<1>3. \A q \in Request : requests'[q] = IF q = r THEN rec ELSE requests[q]
  BY <1>1, RoomRecords DEF RoomInv, RoomTypeOK
<1>4. requests[r].report = "none"
  BY DEF RoomInv, ReportFollows
<1>5. /\ panel' \in Panel
      /\ panel.waits # r => panel' = panel
      /\ panel.waits = r => panel'.waits = "none" /\ panel'.tick = IF report = "saved" THEN 0 ELSE panel.tick
  <2>1. CASE panel.waits # r
    BY <1>1, <2>1 DEF End, PanelAfter
  <2>2. CASE panel.waits = r
    <3>1. PICK t \in 0..MaxTicks : t = IF report = "saved" THEN 0 ELSE panel.tick
      BY <1>1, RoomAssumption DEF Panel
    <3>2. panel' = [panel EXCEPT !.waits = "none", !.tick = t]
      BY <2>2, <3>1 DEF End, PanelAfter
    <3>3. QED
      BY <1>1, <2>2, <3>1, <3>2 DEF Panel
  <2>3. QED
    BY <2>1, <2>2
<1>6. RoomTypeOK'
  BY <1>1, <1>2, <1>5, RoomRecords DEF RoomInv, RoomTypeOK, RequestRecord
<1>7. ReportFollows'
  BY <1>2, <1>3 DEF RoomInv, ReportFollows
<1>8. ReportIsTrue'
  BY <1>2, <1>3 DEF RoomInv, ReportIsTrue
<1>9. PlanWasShown'
  BY <1>2, <1>3 DEF RoomInv, PlanWasShown
<1>10. SecondOnlyAfterFailure'
  BY <1>2, <1>3, <1>4 DEF RoomInv, SecondOnlyAfterFailure
<1>11. TickIsHeld'
  <2>1. CASE panel.waits # r
    <3>1. panel' = panel
      BY <1>5, <2>1
    <3>2. ~(requests[r].tick = panel.tick /\ panel.tick # 0)
      BY <1>4, <2>1 DEF RoomInv, TickIsHeld
    <3>3. QED
      BY <1>2, <1>3, <2>1, <3>1, <3>2 DEF RoomInv, TickIsHeld
  <2>2. CASE panel.waits = r
    <3>1. panel'.waits = "none" /\ panel'.tick = IF report = "saved" THEN 0 ELSE panel.tick
      BY <1>5, <2>2
    <3>2. panel.tick \in Nat /\ ticks \in Nat /\ "none" \notin Request
      BY <1>1, RoomAssumption DEF Panel, RoomInv, RoomTypeOK
    <3>3. QED
      BY <1>2, <1>3, <2>2, <3>1, <3>2 DEF RoomInv, TickIsHeld
  <2>3. QED
    BY <2>1, <2>2
<1>12. QED
  BY <1>6, <1>7, <1>8, <1>9, <1>10, <1>11 DEF RoomInv

(* A step of the panel that sends nothing.                                 *)
LEMMA PanelMoves ==
  ASSUME RoomInv, panel' \in Panel, UNCHANGED requests, logBroken => logBroken',
         facts' \in 0..MaxFacts, plan' \in 0..MaxPlans, ticks' \in 0..MaxTicks, ticks' >= ticks,
         libraryBusy' \in BOOLEAN, logBroken' \in BOOLEAN,
         \/ panel'.tick = panel.tick /\ panel'.waits = panel.waits
         \/ panel'.tick = 0 /\ panel'.waits = "none"
         \/ panel'.tick = ticks' /\ ticks' = ticks + 1 /\ panel.tick = 0 /\ panel'.waits = panel.waits
  PROVE  RoomInv'
<1>1. RoomTypeOK'
  BY DEF RoomInv, RoomTypeOK
<1>2. ReportFollows' /\ ReportIsTrue' /\ PlanWasShown' /\ SecondOnlyAfterFailure'
  BY DEF RoomInv, ReportFollows, ReportIsTrue, PlanWasShown, SecondOnlyAfterFailure
<1>3. /\ panel.tick \in Nat /\ ticks \in Nat /\ ticks' \in Nat
      /\ \A r \in Request : requests[r].tick \in Nat /\ r # "none"
  BY RoomRecords, RoomAssumption DEF RoomInv, RoomTypeOK, Panel, RequestRecord
<1>4. TickIsHeld'
  <2>1. CASE panel'.tick = panel.tick /\ panel'.waits = panel.waits
    BY <1>3, <2>1 DEF RoomInv, TickIsHeld
  <2>2. CASE panel'.tick = 0 /\ panel'.waits = "none"
    BY <1>3, <2>2 DEF RoomInv, TickIsHeld
  <2>3. CASE panel'.tick = ticks' /\ ticks' = ticks + 1 /\ panel.tick = 0 /\ panel'.waits = panel.waits
    BY <1>3, <2>3 DEF RoomInv, TickIsHeld
  <2>4. QED
    BY <2>1, <2>2, <2>3
<1>5. QED
  BY <1>1, <1>2, <1>4 DEF RoomInv

LEMMA RoomStep ==
  ASSUME RoomInv, [RoomNext]_roomVars
  PROVE  RoomInv'
<1> USE RoomAssumption
<1>t. /\ panel \in Panel /\ facts \in 0..MaxFacts /\ plan \in 0..MaxPlans /\ ticks \in 0..MaxTicks
      /\ \A r \in Request : requests[r] \in RequestRecord
      /\ libraryBusy \in BOOLEAN /\ logBroken \in BOOLEAN
  BY RoomRecords DEF RoomInv, RoomTypeOK
<1>1. ASSUME NEW s \in Selection, Select(s) PROVE RoomInv'
  <2>1. panel' \in Panel /\ panel'.tick = panel.tick /\ panel'.waits = panel.waits
    BY <1>1, <1>t DEF Select, Panel
  <2>2. QED
    BY <1>1, <1>t, <2>1, PanelMoves DEF Select
<1>2. ASSUME NEW s \in Selection, ReopenRoom(s) PROVE RoomInv'
  <2>1. panel' \in Panel /\ panel'.tick = 0 /\ panel'.waits = "none"
    BY <1>2, UnsentFacts DEF ReopenRoom, OpenPanel, Panel
  <2>2. QED
    BY <1>2, <1>t, <2>1, PanelMoves DEF ReopenRoom
<1>3. ASSUME ShowPreview PROVE RoomInv'
  <2>1. [selection |-> panel.selection, facts |-> facts] \in Context
    BY <1>t DEF Context, Panel
  <2>2. panel' \in Panel /\ panel'.tick = panel.tick /\ panel'.waits = panel.waits
    BY <1>3, <1>t, <2>1 DEF ShowPreview, Panel
  <2>3. QED
    BY <1>3, <1>t, <2>2, PanelMoves DEF ShowPreview
<1>4. ASSUME ShowPlan PROVE RoomInv'
  <2>1. panel' \in Panel /\ panel'.tick = panel.tick /\ panel'.waits = panel.waits
    BY <1>4, <1>t DEF ShowPlan, Panel
  <2>2. QED
    BY <1>4, <1>t, <2>1, PanelMoves DEF ShowPlan
<1>5. ASSUME Tick PROVE RoomInv'
  <2>1. ticks + 1 \in 0..MaxTicks /\ ticks' = ticks + 1 /\ panel.tick = 0
    BY <1>5, <1>t DEF Tick
  <2>2. panel' \in Panel /\ panel'.tick = ticks + 1 /\ panel'.waits = panel.waits
    BY <1>5, <1>t, <2>1 DEF Tick, Panel
  <2>3. UNCHANGED <<facts, plan, requests, libraryBusy, logBroken>> /\ ticks' >= ticks
    BY <1>5, <1>t, <2>1 DEF Tick
  <2>4. QED
    BY <1>t, <2>1, <2>2, <2>3, PanelMoves
<1>6. ASSUME ChangeFacts \/ ChangePlan \/ LogFails \/ SwitchLibrary PROVE RoomInv'
  <2>1. /\ UNCHANGED <<panel, requests, ticks>> /\ ticks' >= ticks /\ (logBroken => logBroken')
        /\ facts' \in 0..MaxFacts /\ plan' \in 0..MaxPlans
        /\ libraryBusy' \in BOOLEAN /\ logBroken' \in BOOLEAN
    <3>1. CASE ChangeFacts
      BY <1>t, <3>1 DEF ChangeFacts
    <3>2. CASE ChangePlan
      BY <1>t, <3>2 DEF ChangePlan
    <3>3. CASE LogFails
      BY <1>t, <3>3 DEF LogFails
    <3>4. CASE SwitchLibrary
      BY <1>t, <3>4 DEF SwitchLibrary
    <3>5. QED
      BY <1>6, <3>1, <3>2, <3>3, <3>4
  <2>2. QED
    BY <1>t, <2>1, PanelMoves
<1>7. ASSUME NEW r \in Request, Generate(r) PROVE RoomInv'
  <2>1. PICK p \in panel.shownPlan :
          requests' = [requests EXCEPT ![r] =
            [Unsent EXCEPT !.stage = "sent", !.shown = panel.shown, !.shownPlan = p,
                           !.tick = panel.tick, !.context.selection = panel.selection]]
    BY <1>7 DEF Generate
  <2>2. PICK c : c = [selection |-> panel.selection, facts |-> 0]
    OBVIOUS
  <2>3. c \in Context
    BY <1>t, <2>2 DEF Context, Panel
  <2>4. PICK rec : rec = [Unsent EXCEPT !.stage = "sent", !.shown = panel.shown, !.shownPlan = p,
                           !.tick = panel.tick, !.context = c]
    OBVIOUS
  <2>5. requests' = [requests EXCEPT ![r] = rec]
    <3>1. Unsent.context = NoContext /\ c = [NoContext EXCEPT !.selection = panel.selection]
      BY <2>2 DEF Unsent, NoContext
    <3>2. QED
      BY <2>1, <2>4, <3>1, UnsentFacts DEF RequestRecord
  <2>6. /\ rec \in RequestRecord /\ rec.stage = "sent" /\ rec.tick = panel.tick /\ rec.report = "none"
        /\ ~rec.kept
    BY <1>t, <2>3, <2>4, UnsentFacts DEF RequestRecord, RequestStage, Panel
  <2>7. /\ panel' = [panel EXCEPT !.waits = r] /\ panel.waits = "none" /\ panel.tick # 0
        /\ requests[r] = Unsent /\ UNCHANGED <<facts, plan, ticks, libraryBusy, logBroken>>
    BY <1>7 DEF Generate
  <2>8. panel' \in Panel /\ panel'.tick = panel.tick /\ panel'.waits = r
    BY <1>t, <2>7 DEF Panel
  <2>9. \A q \in Request : requests'[q] = IF q = r THEN rec ELSE requests[q]
    BY <2>5, RoomRecords DEF RoomInv, RoomTypeOK
  <2>10. RoomTypeOK'
    BY <2>5, <2>6, <2>7, <2>8, RoomRecords DEF RoomInv, RoomTypeOK, RequestRecord
  <2>11. ReportFollows' /\ ReportIsTrue' /\ PlanWasShown'
    BY <2>6, <2>7, <2>9 DEF RoomInv, ReportFollows, ReportIsTrue, PlanWasShown
  <2>12. \A q \in Request : q # r /\ requests[q].tick = panel.tick => requests[q].report = "failed"
    BY <2>7 DEF RoomInv, TickIsHeld
  <2>13. SecondOnlyAfterFailure'
    BY <2>6, <2>9, <2>12 DEF RoomInv, SecondOnlyAfterFailure
  <2>14. TickIsHeld'
    BY <2>6, <2>7, <2>8, <2>9, <2>12 DEF RoomInv, TickIsHeld
  <2>15. QED
    BY <2>10, <2>11, <2>13, <2>14 DEF RoomInv
<1>8. ASSUME NEW r \in Request, RequestStep(r) PROVE RoomInv'
  <2>r. requests[r] \in RequestRecord
    BY <1>t
  <2>k. requests[r].kept <=> requests[r].stage \in {"saved", "ended"} /\ requests[r].kept
    BY DEF RoomInv, ReportFollows
  <2>1. CASE BuildContext(r)
    <3>0. requests[r].stage = "sent" /\ ~requests[r].kept /\ requests[r].report = "none"
      BY <2>1, <2>k, <2>r DEF BuildContext, RoomInv, ReportFollows
    <3>1. PICK c : c = [requests[r].context EXCEPT !.facts = facts]
      OBVIOUS
    <3>2. c \in Context
      BY <1>t, <2>r, <3>1 DEF Context, RequestRecord
    <3>3. PICK rec : rec = [requests[r] EXCEPT !.context = c, !.stage = "planned"]
      OBVIOUS
    <3>4. requests' = [requests EXCEPT ![r] = rec]
      BY <2>1, <3>1, <3>3, RoomRecords DEF BuildContext, RoomInv, RoomTypeOK
    <3>5. /\ rec \in RequestRecord /\ rec.stage = "planned" /\ rec.tick = requests[r].tick
          /\ rec.report = "none" /\ ~rec.kept
      BY <2>r, <3>0, <3>2, <3>3 DEF RequestRecord, RequestStage
    <3>6. QED
      BY <2>1, <3>0, <3>4, <3>5, RequestMoves DEF BuildContext
  <2>2. CASE CheckPlan(r)
    <3>0. requests[r].stage = "planned" /\ ~requests[r].kept /\ requests[r].report = "none"
      BY <2>2, <2>k, <2>r DEF CheckPlan, RoomInv, ReportFollows
    <3>1. CASE /\ SamePlan(r)
               /\ requests' = [requests EXCEPT ![r].plan = plan, ![r].stage = "called"]
               /\ UNCHANGED panel
      <4>1. PICK rec : rec = [requests[r] EXCEPT !.plan = plan, !.stage = "called"]
        OBVIOUS
      <4>2. requests' = [requests EXCEPT ![r] = rec]
        BY <3>1, <4>1, RoomRecords DEF RoomInv, RoomTypeOK
      <4>3. /\ rec \in RequestRecord /\ rec.stage = "called" /\ rec.tick = requests[r].tick
            /\ rec.report = "none" /\ ~rec.kept /\ rec.plan = rec.shownPlan
        BY <1>t, <2>r, <3>0, <3>1, <4>1 DEF RequestRecord, RequestStage, SamePlan
      <4>4. QED
        BY <2>2, <3>0, <3>1, <4>2, <4>3, RequestMoves DEF CheckPlan
    <3>2. CASE End(r, "failed")
      BY <1>t, <2>2, <3>0, <3>2, RequestEnds DEF CheckPlan
    <3>3. QED
      BY <2>2, <3>1, <3>2 DEF CheckPlan
  <2>3. CASE CallProvider(r)
    <3>0. requests[r].stage = "called" /\ ~requests[r].kept /\ requests[r].report = "none"
          /\ requests[r].plan = requests[r].shownPlan
      BY <2>3, <2>k, <2>r DEF CallProvider, RoomInv, ReportFollows, PlanWasShown
    <3>1. CASE /\ requests' = [requests EXCEPT ![r].paid = TRUE, ![r].stage = "answered"]
               /\ UNCHANGED panel
      <4>1. PICK rec : rec = [requests[r] EXCEPT !.paid = TRUE, !.stage = "answered"]
        OBVIOUS
      <4>2. requests' = [requests EXCEPT ![r] = rec]
        BY <3>1, <4>1, RoomRecords DEF RoomInv, RoomTypeOK
      <4>3. /\ rec \in RequestRecord /\ rec.stage = "answered" /\ rec.tick = requests[r].tick
            /\ rec.report = "none" /\ ~rec.kept /\ rec.plan = rec.shownPlan
        BY <2>r, <3>0, <4>1 DEF RequestRecord, RequestStage
      <4>4. QED
        BY <2>3, <3>0, <3>1, <4>2, <4>3, RequestMoves DEF CallProvider
    <3>2. CASE End(r, "failed")
      BY <1>t, <2>3, <3>0, <3>2, RequestEnds DEF CallProvider
    <3>3. QED
      BY <2>3, <3>1, <3>2 DEF CallProvider
  <2>4. CASE SaveDraft(r)
    <3>0. requests[r].stage = "answered" /\ ~requests[r].kept /\ requests[r].report = "none"
          /\ requests[r].plan = requests[r].shownPlan
      BY <2>4, <2>k, <2>r DEF SaveDraft, RoomInv, ReportFollows, PlanWasShown
    <3>1. CASE /\ requests' = [requests EXCEPT ![r].kept = TRUE, ![r].stage = "saved"]
               /\ UNCHANGED panel
      <4>1. PICK rec : rec = [requests[r] EXCEPT !.kept = TRUE, !.stage = "saved"]
        OBVIOUS
      <4>2. requests' = [requests EXCEPT ![r] = rec]
        BY <3>1, <4>1, RoomRecords DEF RoomInv, RoomTypeOK
      <4>3. /\ rec \in RequestRecord /\ rec.stage = "saved" /\ rec.tick = requests[r].tick
            /\ rec.report = "none" /\ rec.kept /\ rec.plan = rec.shownPlan
        BY <2>r, <3>0, <4>1 DEF RequestRecord, RequestStage
      <4>4. QED
        BY <2>4, <3>0, <3>1, <4>2, <4>3, RequestMoves DEF SaveDraft
    <3>2. CASE End(r, "failed")
      BY <1>t, <2>4, <3>0, <3>2, RequestEnds DEF SaveDraft
    <3>3. QED
      BY <2>4, <3>1, <3>2 DEF SaveDraft
  <2>5. CASE RecordSaved(r)
    <3>0. requests[r].stage = "saved" /\ requests[r].kept
      BY <2>5 DEF RecordSaved, RoomInv, ReportFollows
    <3>1. CASE ~ logBroken /\ End(r, "saved") /\ UNCHANGED logBroken
      BY <1>t, <2>5, <3>0, <3>1, RequestEnds DEF RecordSaved
    <3>2. CASE End(r, "failed") /\ logBroken' = TRUE
      BY <1>t, <2>5, <3>0, <3>2, RequestEnds DEF RecordSaved
    <3>3. QED
      BY <2>5, <3>1, <3>2 DEF RecordSaved
  <2>6. QED
    BY <1>8, <2>1, <2>2, <2>3, <2>4, <2>5 DEF RequestStep
<1>9. CASE UNCHANGED roomVars
  BY <1>t, <1>9, PanelMoves DEF roomVars
<1>10. QED
  BY <1>1, <1>2, <1>3, <1>4, <1>5, <1>6, <1>7, <1>8, <1>9 DEF RoomNext

(* Two requests go out under one tick of the approval box only when one of *)
(* them was reported failed, however the panel is reopened and whatever    *)
(* the answers overtake.                                                   *)
THEOREM RoomSecondOnlyAfterFailure == RoomSpec => []SecondOnlyAfterFailure
<1>1. RoomInv => SecondOnlyAfterFailure
  BY DEF RoomInv
<1>2. QED
  BY RoomInitially, RoomStep, <1>1, PTL DEF RoomSpec

(* A success is reported of a saved proposal only, and a failure of a      *)
(* saved one only once the diagnostics log is broken.                      *)
THEOREM RoomReportIsTrue == RoomSpec => []ReportIsTrue
<1>1. RoomInv => ReportIsTrue
  BY DEF RoomInv
<1>2. QED
  BY RoomInitially, RoomStep, <1>1, PTL DEF RoomSpec

(* The provider is called with the skill plan that was on screen.          *)
THEOREM RoomPlanWasShown == RoomSpec => [](RoomTypeOK /\ PlanWasShown)
<1>1. RoomInv => RoomTypeOK /\ PlanWasShown
  BY DEF RoomInv
<1>2. QED
  BY RoomInitially, RoomStep, <1>1, PTL DEF RoomSpec

(* Two proposals that were saved are of requests the user ticked the box   *)
(* for once each.                                                          *)
OneSavedPerTick ==
  \A q, r \in Request :
    requests[q].kept /\ requests[r].kept /\ requests[q].tick = requests[r].tick => q = r

(* Every request was sent under a tick, and a log that cannot fail never   *)
(* breaks.                                                                 *)
SentIsTicked ==
  /\ panel.tick # 0 => panel.tick <= ticks
  /\ \A r \in Request : requests[r].stage # "unsent" => requests[r].tick # 0
  /\ logBroken => LogMayFail

LEMMA TicksKept ==
  ASSUME RoomInv, SentIsTicked, [RoomNext]_roomVars, RoomInv'
  PROVE  SentIsTicked'
<1>t. /\ panel \in Panel /\ requests \in [Request -> RequestRecord]
  BY DEF RoomInv, RoomTypeOK, RequestRecord
<1>1. \A r \in Request : requests'[r].stage # "unsent" => requests'[r].tick # 0
  <2>. TAKE r \in Request
  <2>1. ASSUME NEW q \in Request, Generate(q) PROVE requests'[r].stage # "unsent" => requests'[r].tick # 0
    <3>1. CASE q # r
      <4>1. requests'[r] = requests[r]
        BY <1>t, <2>1, <3>1 DEF Generate
      <4>. QED
        BY <4>1 DEF SentIsTicked
    <3>2. CASE q = r
      <4>1. requests'[r].tick = panel.tick /\ panel.tick # 0
        BY <1>t, <2>1, <3>2 DEF Generate, Unsent
      <4>. QED
        BY <4>1
    <3>. QED
      BY <3>1, <3>2
  <2>2. ASSUME NEW q \in Request, RequestStep(q) PROVE requests'[r].stage # "unsent" => requests'[r].tick # 0
    <3>1. requests[q].stage # "unsent" /\ requests'[r].tick = requests[r].tick
          /\ (r # q => requests'[r].stage = requests[r].stage)
      BY <1>t, <2>2 DEF RequestStep, BuildContext, CheckPlan, CallProvider, SaveDraft, RecordSaved, End, RequestRecord
    <3>. QED
      BY <3>1 DEF SentIsTicked
  <2>3. CASE UNCHANGED requests
    BY <2>3 DEF SentIsTicked
  <2>. QED
    BY <2>1, <2>2, <2>3 DEF RoomNext, Select, ReopenRoom, ShowPreview, ShowPlan, Tick, ChangeFacts, ChangePlan,
                            LogFails, SwitchLibrary, roomVars
<1>2. logBroken' => LogMayFail
  BY DEF SentIsTicked, RoomNext, Select, ReopenRoom, ShowPreview, ShowPlan, Tick, ChangeFacts, ChangePlan, LogFails,
         SwitchLibrary, Generate, RequestStep, BuildContext, CheckPlan, CallProvider, SaveDraft, RecordSaved, roomVars
<1>. QED
  BY <1>1, <1>2 DEF SentIsTicked, RoomInv, TickIsHeld

(* While the diagnostics log can be written, a failure that is reported    *)
(* saved nothing, and one tick of the approval box saves at most one       *)
(* proposal, even when a second request goes out under it: the first one   *)
(* failed.                                                                 *)
THEOREM WorkingLogSavesOncePerTick ==
  ASSUME ~LogMayFail PROVE RoomSpec => [](FailureSavedNothing /\ OneSavedPerTick)
<1>1. RoomInit => SentIsTicked
  <2>. SUFFICES ASSUME RoomInit PROVE SentIsTicked
    OBVIOUS
  <2>1. PICK s \in Selection : panel = OpenPanel(s)
    BY DEF RoomInit
  <2>. QED
    BY <2>1 DEF RoomInit, SentIsTicked, OpenPanel, Unsent
<1>2. RoomInv /\ SentIsTicked => FailureSavedNothing
  BY DEF RoomInv, ReportIsTrue, SentIsTicked, FailureSavedNothing
<1>3. RoomInv /\ SentIsTicked => OneSavedPerTick
  <2>. SUFFICES ASSUME RoomInv, SentIsTicked, NEW q \in Request, NEW r \in Request, q # r,
                       requests[q].kept, requests[r].kept, requests[q].tick = requests[r].tick
                PROVE  FALSE
    BY DEF OneSavedPerTick
  <2>1. requests[q].tick # 0
    BY DEF RoomInv, ReportFollows, SentIsTicked
  <2>2. "failed" \in {requests[q].report, requests[r].report}
    BY <2>1 DEF RoomInv, SecondOnlyAfterFailure
  <2>. QED
    BY <1>2, <2>2 DEF FailureSavedNothing
<1>4. RoomInv /\ SentIsTicked /\ [RoomNext]_roomVars => RoomInv' /\ SentIsTicked'
  BY RoomStep, TicksKept
<1>5. QED
  BY RoomInitially, <1>1, <1>2, <1>3, <1>4, PTL DEF RoomSpec
=============================================================================
