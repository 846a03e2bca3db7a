----------------------------- MODULE WriterLock -----------------------------
(***************************************************************************)
(* The lock file .studio/writer.lock that one studio window holds while it *)
(* may write the project library (project-store/src/writer-lock.ts).       *)
(* Every system call on the file is a step of its own: windows are         *)
(* separate processes and nothing else orders their calls.                 *)
(***************************************************************************)
EXTENDS Naturals, FiniteSets

CONSTANTS Window,   \* processes that open the library, each with its own pid
          Solo      \* TRUE: Electron's single-instance lock admits one at a time

ASSUME WindowAssumption == Solo \in BOOLEAN /\ "none" \notin Window

VARIABLES lockFile,   \* the file under the lock's name, or NoFile
          stage,      \* where each window is in acquire and release
          attempt,    \* the loop counter of acquire
          preserved   \* windows whose record was renamed to a stale-... name

lockVars == <<lockFile, stage, attempt, preserved>>

NoFile == [owner |-> "none", complete |-> FALSE, aged |-> FALSE]

LockFile == {NoFile} \cup [owner : Window, complete : BOOLEAN, aged : BOOLEAN]

Stage == {"idle", "create", "write", "inspect", "stat", "rename",
          "writing", "check", "unlink", "closed", "refused", "dead"}

(* A pid that answers kill(pid, 0).  Pids are not reused here.             *)
Alive(w) == stage[w] \notin {"idle", "closed", "refused", "dead"}

Present == lockFile # NoFile

LockInit ==
  /\ lockFile = NoFile
  /\ stage = [w \in Window |-> "idle"]
  /\ attempt = [w \in Window |-> 0]
  /\ preserved = {}

GoTo(w, s) == stage' = [stage EXCEPT ![w] = s]

(* A window starts; the single-instance lock lets it reach the store.      *)
OpenWindow(w) ==
  /\ stage[w] = "idle"
  /\ Solo => \A v \in Window : ~Alive(v)
  /\ GoTo(w, "create")
  /\ UNCHANGED <<lockFile, attempt, preserved>>

(* Mutant: the record of a window that is gone is used as one's own.       *)
CreateOrTakeOver(w) ==
  /\ stage[w] = "create"
  /\ IF Present
     THEN GoTo(w, IF Alive(lockFile.owner) THEN "inspect" ELSE "writing") /\ UNCHANGED lockFile
     ELSE /\ GoTo(w, "write")
          /\ lockFile' = [owner |-> w, complete |-> FALSE, aged |-> FALSE]
  /\ UNCHANGED <<attempt, preserved>>

(* openSync(path, 'wx'): creates the empty file or answers EEXIST.         *)
CreateLock(w) ==
  /\ stage[w] = "create"
  /\ IF Present
     THEN GoTo(w, "inspect") /\ UNCHANGED lockFile
     ELSE /\ GoTo(w, "write")
          /\ lockFile' = [owner |-> w, complete |-> FALSE, aged |-> FALSE]
  /\ UNCHANGED <<attempt, preserved>>

(* The record reaches the inode that was created, wherever it is by now.   *)
WriteLock(w) ==
  /\ stage[w] = "write"
  /\ lockFile' = IF lockFile.owner = w THEN [lockFile EXCEPT !.complete = TRUE] ELSE lockFile
  /\ GoTo(w, "writing")
  /\ UNCHANGED <<attempt, preserved>>

(* readLock: a live owner refuses, a dead one is stale, no record is null. *)
InspectLock(w) ==
  /\ stage[w] = "inspect"
  /\ GoTo(w, IF ~lockFile.complete THEN "stat"
             ELSE IF Alive(lockFile.owner) THEN "refused" ELSE "rename")
  /\ UNCHANGED <<lockFile, attempt, preserved>>

(* Mutant: the age of an unreadable record is not looked at.               *)
StatLockForever(w) ==
  /\ stage[w] = "stat"
  /\ GoTo(w, IF Present THEN "refused" ELSE "rename")
  /\ UNCHANGED <<lockFile, attempt, preserved>>

(* The age of an unreadable record; a file that is gone falls through.     *)
StatLock(w) ==
  /\ stage[w] = "stat"
  /\ GoTo(w, IF Present /\ ~lockFile.aged THEN "refused" ELSE "rename")
  /\ UNCHANGED <<lockFile, attempt, preserved>>

(* renameSync to the stale name: whatever file has the name now.           *)
MoveAside(w) ==
  /\ stage[w] = "rename"
  /\ lockFile' = NoFile
  /\ preserved' = IF Present THEN preserved \cup {lockFile.owner} ELSE preserved
  /\ attempt' = [attempt EXCEPT ![w] = @ + 1]
  /\ GoTo(w, IF attempt[w] = 2 THEN "refused" ELSE "create")

(* release: the existence and token check, then the unlink.                *)
BeginRelease(w) ==
  /\ stage[w] = "writing"
  /\ GoTo(w, "check")
  /\ UNCHANGED <<lockFile, attempt, preserved>>

CheckToken(w) ==
  /\ stage[w] = "check"
  /\ GoTo(w, IF lockFile.owner = w /\ lockFile.complete THEN "unlink" ELSE "closed")
  /\ UNCHANGED <<lockFile, attempt, preserved>>

UnlinkLock(w) ==
  /\ stage[w] = "unlink"
  /\ lockFile' = NoFile
  /\ GoTo(w, "closed")
  /\ UNCHANGED <<attempt, preserved>>

(* The process is killed, or the machine loses power.                      *)
CrashWindow(w) ==
  /\ Alive(w)
  /\ GoTo(w, "dead")
  /\ UNCHANGED <<lockFile, attempt, preserved>>

(* Thirty seconds pass over an unfinished record.                          *)
AgeLock ==
  /\ Present /\ ~lockFile.complete /\ ~lockFile.aged
  /\ lockFile' = [lockFile EXCEPT !.aged = TRUE]
  /\ UNCHANGED <<stage, attempt, preserved>>

LockStep(w) ==
  \/ CreateLock(w) \/ WriteLock(w) \/ InspectLock(w) \/ StatLock(w)
  \/ MoveAside(w) \/ CheckToken(w) \/ UnlinkLock(w)

LockNext ==
  \/ \E w \in Window : OpenWindow(w) \/ LockStep(w) \/ BeginRelease(w) \/ CrashWindow(w)
  \/ AgeLock

LockSpec == LockInit /\ [][LockNext]_lockVars

-----------------------------------------------------------------------------
LockTypeOK ==
  /\ lockFile \in LockFile
  /\ stage \in [Window -> Stage]
  /\ attempt \in [Window -> 0..3]
  /\ preserved \subseteq Window

(* "blocks a live second writer" (CHANGELOG.md:415).  Two windows that     *)
(* judge the same record can both end up writing: the second renames away  *)
(* the record the first has just created.                                  *)
OneWriter ==
  \A v, w \in Window : stage[v] = "writing" /\ stage[w] = "writing" => v = w

(* Under the single-instance lock, the window that writes is the one the   *)
(* complete record on disk names, so release and the next start judge it   *)
(* rightly, however many earlier windows crashed and wherever they did.    *)
HolderIsNamed ==
  Solo => \A w \in Window :
    stage[w] \in {"writing", "unlink"} => lockFile.owner = w /\ lockFile.complete

(* Under the single-instance lock a start is refused only while the record *)
(* of a window killed between creating and writing it is younger than the  *)
(* grace period: a crash never locks the library for good.                 *)
RefusedOnlyWhileFresh ==
  [][\A w \in Window : Solo /\ stage[w] # "refused" /\ stage'[w] = "refused" =>
       /\ Present /\ ~lockFile.complete /\ ~lockFile.aged
       /\ stage[lockFile.owner] = "dead"]_lockVars

=============================================================================
