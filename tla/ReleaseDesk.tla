---------------------------- MODULE ReleaseDesk ----------------------------
(***************************************************************************)
(* The Finish room: timelines, local renders, captions, release details,   *)
(* attestations and the manual-upload package (release-store/src/index.ts, *)
(* local-production/src/index.ts, FinishRoom.tsx), over the canon, media   *)
(* and dependencies of CanonLedger.  Store handlers are synchronous; a     *)
(* render spends minutes between its checks and its result.                *)
(***************************************************************************)
EXTENDS CanonLedger

CONSTANTS Timeline, Render, Package,   \* ids the studio may draw
          MaxEdits,                    \* edits of one draft that are followed
          MaxDetails                   \* edits of the release details followed

ASSUME DeskAssumption ==
  /\ MaxEdits \in Nat /\ MaxDetails \in Nat
  /\ "none" \notin Asset \cup Timeline /\ Asset \cap Timeline = {}

VARIABLES timelines,   \* production_timelines
          lockedOver,  \* history: the active canon a lock has registered
          renders,     \* renders in progress: what they are of, as it was
          renderedFor, \* history: the timeline or frame each asset was rendered from
          details,     \* version of the release details; 0: none saved
          attested,    \* the details at the last attestation; {}: none made
          packages     \* release_packages

deskVars == <<timelines, lockedOver, renders, renderedFor, details, attested, packages>>

NoTimeline == [state |-> "none", version |-> 0, clips |-> {}, master |-> "none"]
NoRender == [of |-> "none", expected |-> 0]
NoPackage == [timeline |-> "none", master |-> "none", thumbnail |-> "none", captions |-> {},
              details |-> 0, attested |-> {}, whole |-> FALSE]

DeskInit ==
  /\ LedgerInit
  /\ timelines = [t \in Timeline |-> NoTimeline]
  /\ lockedOver = [t \in Timeline |-> {}]
  /\ renders = [r \in Render |-> NoRender]
  /\ renderedFor = [a \in Asset |-> "none"]
  /\ details = 0 /\ attested = {}
  /\ packages = [k \in Package |-> NoPackage]

Touched(t) == [timelines[t] EXCEPT !.version = @ + 1]

(* validateTimeline: ordered clips and sounds, each of them approved.      *)
ValidTimeline(clips) == clips # {} /\ Approved(clips)

(* saveTimeline: a new draft, or an edit of a draft.                       *)
SaveTimeline(t, clips) ==
  /\ timelines[t].state \in {"none", "draft"}
  /\ timelines[t].version < MaxEdits
  /\ ValidTimeline(clips)
  /\ timelines' = [timelines EXCEPT ![t] =
                     [Touched(t) EXCEPT !.state = "draft", !.clips = clips]]
  /\ UNCHANGED <<lockedOver, renders, renderedFor, details, attested, packages>>
  /\ UNCHANGED ledgerVars

(* Mutant: the registration is forgotten.                                  *)
RegisterNothing(consumer, done) == UNCHANGED depends

(* The registration of a locked consumer's dependencies: a transaction of  *)
(* its own, which may fail, after the one that locked it.                  *)
Register(consumer, done) ==
  depends' = IF done THEN WithEdges(ActiveCanon, consumer) ELSE depends

(* lockTimeline.  The lock stays when the registration fails.              *)
LockTimeline(t) ==
  /\ timelines[t].state = "draft"
  /\ Approved(timelines[t].clips)
  /\ stale = {}                                   \* staleDependencyCount
  /\ timelines' = [timelines EXCEPT ![t] = [Touched(t) EXCEPT !.state = "locked"]]
  /\ \E done \in BOOLEAN : /\ Register(t, done)
                           /\ lockedOver' = [lockedOver EXCEPT ![t] = IF done THEN ActiveCanon ELSE {}]
  /\ UNCHANGED <<renders, renderedFor, details, attested, packages>>
  /\ UNCHANGED <<canon, revision, stale, media, maker, jobs, overlooked>>

(* renderTimeline up to the encoder.                                       *)
StartRender(r, t) ==
  /\ renders[r] = NoRender
  /\ timelines[t].state = "locked"
  /\ Approved(timelines[t].clips)
  /\ renders' = [renders EXCEPT ![r] = [of |-> t, expected |-> timelines[t].version]]
  /\ UNCHANGED <<timelines, lockedOver, renderedFor, details, attested, packages>>
  /\ UNCHANGED ledgerVars

(* renderThumbnail up to the encoder: a frame of an approved picture.      *)
StartThumbnail(r, frame) ==
  /\ renders[r] = NoRender
  /\ Approved({frame}) /\ RoleOf[frame] # "caption"
  /\ renders' = [renders EXCEPT ![r] = [of |-> frame, expected |-> 0]]
  /\ UNCHANGED <<timelines, lockedOver, renderedFor, details, attested, packages>>
  /\ UNCHANGED ledgerVars

(* Mutant: only the lock is checked.                                       *)
AttachesToLocked(r) == timelines[renders[r].of].state = "locked"

(* attachMasterAsset: the version the render was given, and no master yet. *)
Attaches(r) ==
  LET t == timelines[renders[r].of] IN
  /\ t.state = "locked" /\ t.version = renders[r].expected /\ t.master = "none"

(* registerAssembledMedia and attachMasterAsset, in one go.                *)
FinishRender(r, a) ==
  /\ renders[r].of \in Timeline
  /\ RoleOf[a] = "master" /\ RegisterAssembled(a)
  /\ renderedFor' = [renderedFor EXCEPT ![a] = renders[r].of]
  /\ timelines' = IF Attaches(r)
                  THEN [timelines EXCEPT ![renders[r].of] =
                          [Touched(renders[r].of) EXCEPT !.master = a]]
                  ELSE timelines
  /\ renders' = [renders EXCEPT ![r] = NoRender]
  /\ UNCHANGED <<lockedOver, details, attested, packages>>

(* The rest of renderThumbnail: nothing is asked of the frame again.       *)
FinishThumbnail(r, a) ==
  /\ renders[r].of \in Asset
  /\ RoleOf[a] = "thumbnail" /\ RegisterAssembled(a)
  /\ renderedFor' = [renderedFor EXCEPT ![a] = renders[r].of]
  /\ renders' = [renders EXCEPT ![r] = NoRender]
  /\ UNCHANGED <<timelines, lockedOver, details, attested, packages>>

(* exportCaptions: the cues of a locked timeline, written at once.         *)
ExportCaptions(t, a) ==
  /\ timelines[t].state = "locked"
  /\ RoleOf[a] = "caption" /\ RegisterAssembled(a)
  /\ renderedFor' = [renderedFor EXCEPT ![a] = t]
  /\ UNCHANGED <<timelines, lockedOver, renders, details, attested, packages>>

(* The encoder or the probe fails, or the application ends.                *)
LoseRender(r) ==
  /\ renders[r] # NoRender
  /\ renders' = [renders EXCEPT ![r] = NoRender]
  /\ UNCHANGED <<timelines, lockedOver, renderedFor, details, attested, packages>>
  /\ UNCHANGED ledgerVars

(* saveReleaseDetails edits the one record of the screen.                  *)
SaveDetails ==
  /\ details < MaxDetails
  /\ details' = details + 1
  /\ UNCHANGED <<timelines, lockedOver, renders, renderedFor, attested, packages>>
  /\ UNCHANGED ledgerVars

(* saveAttestations: a new record that names neither details nor master.   *)
Attest ==
  /\ attested' = {details}
  /\ UNCHANGED <<timelines, lockedOver, renders, renderedFor, details, packages>>
  /\ UNCHANGED ledgerVars

(* createReleasePackage: the folder is written, the row inserted, then the *)
(* dependencies are registered; a failure there deletes the folder only.   *)
LockPackage(k, t, m, h, subs) ==
  /\ packages[k] = NoPackage
  /\ timelines[t].state = "locked"
  /\ details > 0 /\ attested # {}
  /\ Approved({m, h} \cup subs)
  /\ RoleOf[m] = "master" /\ RoleOf[h] = "thumbnail" /\ \A c \in subs : RoleOf[c] = "caption"
  /\ \E done \in BOOLEAN :
       /\ Register(k, done)
       /\ packages' = [packages EXCEPT ![k] =
            [timeline |-> t, master |-> m, thumbnail |-> h, captions |-> subs, details |-> details,
             attested |-> attested, whole |-> done]]
  /\ UNCHANGED <<timelines, lockedOver, renders, renderedFor, details, attested>>
  /\ UNCHANGED <<canon, revision, stale, media, maker, jobs, overlooked>>

-----------------------------------------------------------------------------
(* FinishRoom.tsx: what the screen asks the store for.  It waits for every *)
(* answer, but the room can be left, and opened again, during a render.    *)

(* approvedByKind: the approved media the screen offers for a use.         *)
Offered(kinds) == {a \in Asset : media[a] = "approved" /\ RoleOf[a] \in kinds}

(* The draft form: the open draft is edited, and another timeline begun    *)
(* only when there is none.                                                *)
SaveDraft(t, clips) ==
  /\ timelines[t].state = "none" => \A u \in Timeline : timelines[u].state # "draft"
  /\ clips \subseteq Offered({"clip", "output", "master"})
  /\ SaveTimeline(t, clips)

(* The package form: the locked timeline, the last details and attestation.*)
PackageRelease(k, t) ==
  \E m \in Offered({"master"}), h \in Offered({"thumbnail"}), subs \in SUBSET Offered({"caption"}) :
    LockPackage(k, t, m, h, subs)

LedgerStep == LedgerNext /\ UNCHANGED deskVars

DeskNext ==
  \/ LedgerStep
  \/ \E t \in Timeline :
       \/ \E clips \in SUBSET Asset : SaveDraft(t, clips)
       \/ LockTimeline(t)
       \/ \E r \in Render : StartRender(r, t)
       \/ \E a \in Asset : ExportCaptions(t, a)
       \/ \E k \in Package : PackageRelease(k, t)
  \/ \E r \in Render : LoseRender(r)
  \/ \E r \in Render, a \in Asset : FinishRender(r, a) \/ StartThumbnail(r, a) \/ FinishThumbnail(r, a)
  \/ SaveDetails \/ Attest

DeskSpec == DeskInit /\ [][DeskNext]_<<ledgerVars, deskVars>>

-----------------------------------------------------------------------------
DeskTypeOK ==
  /\ LedgerTypeOK
  /\ timelines \in [Timeline -> [state : {"none", "draft", "locked"}, version : Nat,
                                 clips : SUBSET Asset, master : Asset \cup {"none"}]]
  /\ lockedOver \in [Timeline -> SUBSET Proposal]
  /\ renders \in [Render -> [of : Timeline \cup Asset \cup {"none"}, expected : Nat]]
  /\ renderedFor \in [Asset -> Timeline \cup Asset \cup {"none"}]
  /\ details \in Nat /\ attested \subseteq Nat
  /\ \A k \in Package : packages[k] = NoPackage \/ packages[k] \in
       [timeline : Timeline, master : Asset, thumbnail : Asset, captions : SUBSET Asset,
        details : Nat, attested : SUBSET Nat, whole : BOOLEAN]

(* What a lock fixed stays: the clips, the lock itself, and the first      *)
(* master, through renders that overlap, fail or end late.                 *)
LockedIsFrozen ==
  [][\A t \in Timeline :
       timelines[t].state = "locked" =>
         /\ timelines'[t].state = "locked"
         /\ timelines'[t].clips = timelines[t].clips
         /\ timelines[t].master # "none" => timelines'[t].master = timelines[t].master
    ]_<<ledgerVars, deskVars>>

(* A master was rendered from the timeline it is attached to, and every    *)
(* clip in a locked timeline is still approved.                            *)
MasterIsOfItsTimeline ==
  \A t \in Timeline :
    /\ timelines[t].master # "none" => renderedFor[timelines[t].master] = t
    /\ Approved(timelines[t].clips)

(* A timeline whose registration after the lock succeeded depends on all   *)
(* the canon that was active then, and counts as stale once any of it was  *)
(* replaced, whatever other registrations failed.                          *)
LockedCanonIsTracked ==
  \A t \in Timeline : \A p \in lockedOver[t] :
    <<p, t>> \in depends /\ (canon[p] = "superseded" => <<p, t>> \in stale)

(* A package was made of a locked timeline and of files a person approved, *)
(* and no later decision takes that back.                                  *)
PackageWasApproved ==
  \A k \in Package : packages[k] # NoPackage =>
    /\ timelines[packages[k].timeline].state = "locked"
    /\ Approved({packages[k].master, packages[k].thumbnail} \cup packages[k].captions)

(* A thumbnail drawn here shows an approved picture, and captions exported *)
(* here are the cues of a locked timeline.                                 *)
OfReviewed(x) == /\ x \in Asset => Approved({x})
                 /\ x \in Timeline => timelines[x].state = "locked"

MadeFromReviewed == \A a \in Asset : OfReviewed(renderedFor[a])

(* What a release is made of was reviewed: the timeline, its master, and   *)
(* the files of every package, with what those were made from.             *)
ReleaseIsReviewed == MasterIsOfItsTimeline /\ PackageWasApproved /\ MadeFromReviewed

(* "Resolve stale continuity dependencies before release lock." is a       *)
(* blocker the workspace shows (release-store/src/index.ts:268).           *)
NoPackageOverStaleCanon ==
  [][\A k \in Package : packages'[k] # packages[k] => stale = {}]_<<ledgerVars, deskVars>>

(* "A package request fails when the ... attestation ... inputs are stale  *)
(* ... or changed" (API_CONTRACTS.md:376).                                 *)
PackageIsAsAttested ==
  \A k \in Package : packages[k] # NoPackage => packages[k].attested = {packages[k].details}

(* A package holds the master of the timeline it names.                    *)
PackageHoldsItsMaster ==
  \A k \in Package : packages[k] # NoPackage =>
    packages[k].master = timelines[packages[k].timeline].master

(* A package on record has its folder, and its canon is tracked.  When the *)
(* registration fails, neither is so.                                      *)
PackageIsWhole == \A k \in Package : packages[k] # NoPackage => packages[k].whole
=============================================================================
