--------------------------- MODULE ProjectLibrary ---------------------------
(***************************************************************************)
(* The local project library: folders on disk, the catalog that indexes    *)
(* them, and the safety operations (backup, restore, format update) that   *)
(* run one at a time across awaits while the other stores of the same      *)
(* process keep writing into the folders.  project-store/src/index.ts and  *)
(* backup.ts.  A synchronous handler is one step; where the process may    *)
(* die or a write may throw inside it, the step has one outcome for every  *)
(* prefix of its writes.                                                   *)
(***************************************************************************)
EXTENDS Naturals, Sequences, FiniteSets

CONSTANTS Project,      \* project identities (ULIDs, one folder name each)
          Import,       \* media another store adds: a file, then its row
          MaxBackups,   \* bound: backup generations
          MaxVersions   \* bound: creative-direction versions per project

ASSUME LibraryBounds == MaxBackups \in Nat /\ MaxVersions \in Nat \ {0}

VARIABLES disk,       \* the folder of each project
          catalog,    \* the index row of each project
          strays,     \* .restore-... folders a crash left, each a whole copy
          backups,    \* generations that pass verification
          operation,  \* the safety operation in progress
          unrecovered,\* projects whose rollback failed: "needs recovery"
          up          \* the application runs

libraryVars == <<disk, catalog, strays, backups, operation, unrecovered, up>>

(* manifest and schema are format versions, 0 when not there yet; hash is  *)
(* the manifest the database records; directions are the version files in  *)
(* the order written; rows of the database refer to files of the folder.   *)
Absent == [manifest |-> 0, schema |-> 0, hash |-> 0, directions |-> <<>>,
           files |-> {}, rows |-> {}, folder |-> FALSE]
Folder == [manifest : 0..2, schema : 0..2, hash : 0..2,
           directions : UNION {[1..n -> [revision : 1..MaxVersions, readable : BOOLEAN]] : n \in 0..MaxVersions},
           files : SUBSET Import, rows : SUBSET Import, folder : BOOLEAN]

NotIndexed == [manifest |-> 0, place |-> "none"]
Row == [manifest : 0..2, place : {"none", "home", "stray"}]

NoOperation == [kind |-> "none", stage |-> "none", listed |-> {}, copy |-> Absent]

(* A healthy project of an older release: format 1, no direction yet.      *)
OldProject == [Absent EXCEPT !.manifest = 1, !.schema = 1, !.hash = 1, !.folder = TRUE]

LibraryInit ==
  /\ disk \in [Project -> {Absent, OldProject}]
  /\ catalog = [p \in Project |->
                 IF disk[p].folder THEN [manifest |-> 1, place |-> "home"] ELSE NotIndexed]
  /\ strays = {}
  /\ backups = {}
  /\ operation = NoOperation
  /\ unrecovered = {}
  /\ up = TRUE

Idle == up /\ operation = NoOperation           \* assertAvailableForWrite

Fresh(p) == /\ ~disk[p].folder /\ catalog[p] = NotIndexed
            /\ \A b \in backups : b.project # p

Indexed(rows, p, version) == [rows EXCEPT ![p] = [manifest |-> version, place |-> "home"]]

(* reconcile: every folder with a valid manifest is indexed where it lies; *)
(* a folder whose name is not the manifest's is passed over.               *)
NameMatches(place) == place = "home"
Reconciled(rows) ==
  [p \in Project |->
     IF \E s \in strays : s.project = p /\ NameMatches("stray")
     THEN [manifest |-> (CHOOSE s \in strays : s.project = p).copy.manifest, place |-> "stray"]
     ELSE IF disk[p].manifest # 0 THEN [manifest |-> disk[p].manifest, place |-> "home"]
     ELSE rows[p]]

Reconcile ==                                    \* listProjects, openProject
  /\ up
  /\ catalog' = Reconciled(catalog)
  /\ UNCHANGED <<disk, strays, backups, operation, unrecovered, up>>

-----------------------------------------------------------------------------
(* createProject writes folder, manifest, direction 1, the database in     *)
(* statements that commit one by one (the rows of schema 1 and schema 2,   *)
(* the hash of the manifest), index.                                       *)
FirstDirection == <<[revision |-> 1, readable |-> TRUE]>>
Built(k) == [Absent EXCEPT !.folder = TRUE,
               !.manifest = IF k >= 1 THEN 2 ELSE 0,
               !.directions = IF k >= 2 THEN FirstDirection ELSE <<>>,
               !.schema = CASE k >= 4 -> 2 [] k = 3 -> 1 [] OTHER -> 0,
               !.hash = IF k >= 5 THEN 2 ELSE 0]

CreateProject(p) ==
  /\ Idle /\ Fresh(p)
  /\ \E k \in 0..6 :
       /\ disk' = [disk EXCEPT ![p] = Built(k)]
       /\ catalog' = IF k = 6 THEN Indexed(catalog, p, 2) ELSE catalog
       /\ up' \in IF k = 6 THEN {TRUE} ELSE BOOLEAN    \* an exception, or a crash
  /\ UNCHANGED <<strays, backups, operation, unrecovered>>

(* Version numbers count the names on disk, damaged files included; the    *)
(* current direction is the newest readable one.                           *)
Revisions(f) == {f.directions[i].revision : i \in DOMAIN f.directions}
NextRevision(f) == 1 + (IF Revisions(f) = {} THEN 0
                        ELSE CHOOSE r \in Revisions(f) : \A q \in Revisions(f) : q <= r)

CurrentDirection(f) ==
  LET readable == {i \in DOMAIN f.directions : f.directions[i].readable}
  IN IF readable = {} THEN 0
     ELSE CHOOSE i \in readable : \A j \in readable : f.directions[j].revision <= f.directions[i].revision

(* expectedProfileId: a screen opened on an older direction is refused, so *)
(* only the screen that shows the current one writes.                      *)
SaveCreativeDirection(p, seen) ==
  /\ Idle /\ disk[p].manifest # 0
  /\ seen = CurrentDirection(disk[p])
  /\ NextRevision(disk[p]) <= MaxVersions
  /\ disk' = [disk EXCEPT ![p].directions =
                Append(@, [revision |-> NextRevision(disk[p]), readable |-> TRUE])]
  /\ catalog' = Reconciled(catalog)
  /\ UNCHANGED <<strays, backups, operation, unrecovered, up>>

-----------------------------------------------------------------------------
(* Backup, alone or as the first half of a format update.  The inventory   *)
(* is listed once; assets are copied before project.json and the database. *)
Openable(p) == disk[p].manifest # 0

BeginBackup(p, kind) ==
  /\ Idle /\ Openable(p)
  /\ kind = "migrate" => disk[p].manifest = 1
  /\ Cardinality(backups) < MaxBackups
  /\ catalog' = Reconciled(catalog)
  /\ operation' = [kind |-> kind, project |-> p, stage |-> "listed",
                   listed |-> disk[p].files, copy |-> Absent]
  /\ UNCHANGED <<disk, strays, backups, unrecovered, up>>

CopyFiles ==
  /\ up /\ operation.kind \in {"backup", "migrate"} /\ operation.stage = "listed"
  /\ operation' = [operation EXCEPT !.stage = "files", !.copy.files = operation.listed]
  /\ UNCHANGED <<disk, catalog, strays, backups, unrecovered, up>>

CopyDatabase ==
  /\ up /\ operation.kind \in {"backup", "migrate"} /\ operation.stage = "files"
  /\ LET f == disk[operation.project]
     IN operation' = [operation EXCEPT !.stage = "copied",
                        !.copy = [f EXCEPT !.files = operation.copy.files]]
  /\ UNCHANGED <<disk, catalog, strays, backups, unrecovered, up>>

(* Mutant: a format update goes on before its backup is in place.          *)
PublishLater ==
  /\ up /\ operation.kind \in {"backup", "migrate"} /\ operation.stage = "copied"
  /\ IF operation.kind = "backup"
     THEN /\ backups' = backups \cup {[project |-> operation.project, copy |-> operation.copy]}
          /\ operation' = NoOperation
     ELSE operation' = [operation EXCEPT !.stage = "saved"] /\ UNCHANGED backups
  /\ UNCHANGED <<disk, catalog, strays, unrecovered, up>>

(* The rename that makes the generation visible, then its verification.    *)
PublishBackup ==
  /\ up /\ operation.kind \in {"backup", "migrate"} /\ operation.stage = "copied"
  /\ backups' = backups \cup {[project |-> operation.project, copy |-> operation.copy]}
  /\ operation' = IF operation.kind = "backup" THEN NoOperation
                  ELSE [operation EXCEPT !.stage = "saved"]
  /\ UNCHANGED <<disk, catalog, strays, unrecovered, up>>

(* A copy that does not verify, a full disk: the temporary folder goes.    *)
FailOperation ==
  /\ up /\ operation.kind # "none" /\ operation.stage # "saved"
  /\ operation' = NoOperation
  /\ UNCHANGED <<disk, catalog, strays, backups, unrecovered, up>>

-----------------------------------------------------------------------------
(* The format update proper: manifest, database, index, in this order.     *)
Migrated(f, k) == [f EXCEPT !.manifest = IF k >= 1 THEN 2 ELSE @,
                            !.schema = IF k >= 2 THEN 2 ELSE @,
                            !.hash = IF k >= 2 THEN 2 ELSE @]

(* The rollback undoes the database, then the manifest; it may throw       *)
(* before either.                                                          *)
RolledBack(f, k, undone) ==
  [f EXCEPT !.manifest = IF k >= 1 /\ undone < 2 THEN 2 ELSE @,
            !.schema = IF k >= 2 /\ undone < 1 THEN 2 ELSE @,
            !.hash = IF k >= 2 /\ undone < 1 THEN 2 ELSE @]

EndMigration(f, rows, broken, alive) ==
  /\ disk' = [disk EXCEPT ![operation.project] = f]
  /\ catalog' = rows
  /\ unrecovered' = broken
  /\ up' = alive
  /\ operation' = NoOperation
  /\ UNCHANGED <<strays, backups>>

MigrationSucceeds ==
  /\ up /\ operation.stage = "saved"
  /\ LET p == operation.project  f == disk[p]
     IN EndMigration(Migrated(f, 2), Indexed(catalog, p, 2), unrecovered, TRUE)

MigrationCrashes ==
  /\ up /\ operation.stage = "saved"
  /\ LET f == disk[operation.project]
     IN \E k \in 0..2 : EndMigration(Migrated(f, k), catalog, unrecovered, FALSE)

MigrationRollsBack ==
  /\ up /\ operation.stage = "saved"
  /\ LET p == operation.project  f == disk[p]
     IN \E k \in 0..2 :
          \/ EndMigration(f, Indexed(catalog, p, f.manifest), unrecovered, TRUE)
          \/ \E undone \in 0..2 :
               EndMigration(RolledBack(f, k, undone), catalog, unrecovered \cup {p}, TRUE)

-----------------------------------------------------------------------------
(* Restore: verify and check, copy aside, then one rename.                 *)
BeginRestore(b) ==
  /\ Idle /\ ~disk[b.project].folder
  /\ operation' = [kind |-> "restore", project |-> b.project, stage |-> "checked",
                   listed |-> {}, copy |-> b.copy]
  /\ UNCHANGED <<disk, catalog, strays, backups, unrecovered, up>>

CopyAside ==
  /\ up /\ operation.kind = "restore" /\ operation.stage = "checked"
  /\ operation' = [operation EXCEPT !.stage = "aside"]
  /\ UNCHANGED <<disk, catalog, strays, backups, unrecovered, up>>

ActivateRestore ==
  /\ up /\ operation.kind = "restore" /\ operation.stage = "aside"
  /\ disk' = [disk EXCEPT ![operation.project] = operation.copy]
  /\ catalog' = Indexed(catalog, operation.project, operation.copy.manifest)
  /\ operation' = NoOperation
  /\ UNCHANGED <<strays, backups, unrecovered, up>>

-----------------------------------------------------------------------------
(* Production and release stores write during a safety operation: they do  *)
(* not ask the project store.  The file is in place before its row.        *)
ImportFile(p, a) ==
  /\ up /\ Openable(p) /\ a \notin disk[p].files
  /\ disk' = [disk EXCEPT ![p].files = @ \cup {a}]
  /\ UNCHANGED <<catalog, strays, backups, operation, unrecovered, up>>

ImportRow(p, a) ==
  /\ up /\ disk[p].schema # 0 /\ a \in disk[p].files \ disk[p].rows
  /\ disk' = [disk EXCEPT ![p].rows = @ \cup {a}]
  /\ UNCHANGED <<catalog, strays, backups, operation, unrecovered, up>>

(* The user loses a folder, or a version file is damaged.                  *)
LoseFolder(p) ==
  /\ disk[p].folder /\ operation = NoOperation
  /\ disk' = [disk EXCEPT ![p] = Absent]
  /\ unrecovered' = unrecovered \ {p}
  /\ UNCHANGED <<catalog, strays, backups, operation, up>>

DamageDirection(p, i) ==
  /\ i \in DOMAIN disk[p].directions /\ operation = NoOperation
  /\ disk' = [disk EXCEPT ![p].directions[i].readable = FALSE]
  /\ UNCHANGED <<catalog, strays, backups, operation, unrecovered, up>>

CrashLibrary ==
  /\ up
  /\ up' = FALSE
  /\ operation' = NoOperation
  /\ strays' = IF operation.stage = "aside"
               THEN strays \cup {[project |-> operation.project, copy |-> operation.copy]}
               ELSE strays
  /\ UNCHANGED <<disk, catalog, backups, unrecovered>>

OpenLibrary ==
  /\ ~up
  /\ up' = TRUE
  /\ catalog' = Reconciled(catalog)
  /\ UNCHANGED <<disk, strays, backups, operation, unrecovered>>

LibraryNext ==
  \/ \E p \in Project :
       \/ CreateProject(p) \/ LoseFolder(p)
       \/ \E seen \in 0..MaxVersions : SaveCreativeDirection(p, seen)
       \/ \E kind \in {"backup", "migrate"} : BeginBackup(p, kind)
       \/ \E a \in Import : ImportFile(p, a) \/ ImportRow(p, a)
       \/ \E i \in 1..MaxVersions : DamageDirection(p, i)
  \/ \E b \in backups : BeginRestore(b)
  \/ Reconcile \/ CopyFiles \/ CopyDatabase \/ PublishBackup \/ FailOperation
  \/ MigrationSucceeds \/ MigrationCrashes \/ MigrationRollsBack
  \/ CopyAside \/ ActivateRestore \/ CrashLibrary \/ OpenLibrary

LibrarySpec == LibraryInit /\ [][LibraryNext]_libraryVars

-----------------------------------------------------------------------------
LibraryTypeOK ==
  /\ disk \in [Project -> Folder]
  /\ catalog \in [Project -> Row]
  /\ strays \subseteq [project : Project, copy : Folder]
  /\ backups \subseteq [project : Project, copy : Folder]
  /\ operation = NoOperation \/ operation \in
       [kind : {"backup", "migrate", "restore"}, project : Project,
        stage : {"listed", "files", "copied", "saved", "checked", "aside"},
        listed : SUBSET Import, copy : Folder]
  /\ unrecovered \subseteq Project
  /\ up \in BOOLEAN

(* Wherever a format update dies or fails to roll back, a project of the   *)
(* new format whose database still records the old manifest has a verified *)
(* backup in which the two agree: "Create and verify a complete recovery   *)
(* backup before activation".                                              *)
HalfMigratedHasBackup ==
  \A p \in Project : disk[p].manifest = 2 /\ disk[p].hash = 1 =>
    \E b \in backups : /\ b.project = p
                       /\ b.copy.manifest = 1 /\ b.copy.schema = 1 /\ b.copy.hash = 1

(* What createProject does not keep: a creation that dies inside the       *)
(* database leaves a folder with a valid manifest, which reconcile indexes *)
(* and openProject opens, while its database is unfinished, and no backup. *)
IndexedIsWhole ==
  \A p \in Project : catalog[p].place = "home" /\ disk[p].manifest = 2 =>
    disk[p].schema = 2 \/ \E b \in backups : b.project = p

(* The catalog never points a project at the temporary folder of a restore *)
(* that was interrupted, although that folder holds a valid manifest.      *)
IndexedAtHome == \A p \in Project : catalog[p].place # "stray"

(* Version numbers of the creative direction stay distinct, also after     *)
(* damaged versions are no longer readable.                                *)
RevisionsDistinct ==
  \A p \in Project : \A i, j \in DOMAIN disk[p].directions :
    disk[p].directions[i].revision = disk[p].directions[j].revision => i = j

(* "new completed artifacts wait for the next snapshot"                    *)
(* (docs/SECURITY_AND_RECOVERY.md:160).  They do not: media added while    *)
(* files are being copied has its row in the copied database, not its file.*)
SnapshotIsWhole == \A b \in backups : b.copy.rows \subseteq b.copy.files
=============================================================================
