----------------------------- MODULE ModelInstall -----------------------------
(***************************************************************************)
(* The model installation a worker runs every time it starts               *)
(* (worker/bootstrap_models.py, called by worker/entrypoint.sh), on the    *)
(* volume that outlives the container.  A container may be killed and      *)
(* started again at any point.                                             *)
(***************************************************************************)
EXTENDS Naturals, FiniteSets, Sequences

CONSTANTS ModelOrder,     \* the selected manifest entries, in order
          InstallMode,    \* file, snapshot or cache-snapshot, for each
          Qualification   \* TRUE: --qualification, entries have no hash to match

ASSUME InstallAssumption ==
  /\ ModelOrder \in Seq({ModelOrder[n] : n \in DOMAIN ModelOrder})
  /\ \A n \in DOMAIN ModelOrder : InstallMode[ModelOrder[n]] \in {"file", "snapshot", "cache-snapshot"}
  /\ Qualification \in BOOLEAN

VARIABLES destination,  \* what is under each model's destination
          partial,      \* what is under <destination>.partial
          boot,         \* the running installation: its step and entry
          receipt       \* studio-model-qualification.json, {} when absent

installVars == <<destination, partial, boot, receipt>>

Content == {"absent", "incomplete", "whole"}
Installed == {ModelOrder[n] : n \in DOMAIN ModelOrder}
BootStep == {"down", "look", "prepare", "fetch", "replace", "hash", "serving", "failed"}

InstallInit ==
  /\ destination = [m \in Installed |-> "absent"]
  /\ partial = [m \in Installed |-> "absent"]
  /\ boot = [step |-> "down", entry |-> 1, hashed |-> {}]
  /\ receipt = {}

Current == ModelOrder[boot.entry]
Proceed(step) == boot' = [boot EXCEPT !.step = step]

StartContainer ==
  /\ boot.step \in {"down", "failed"}
  /\ boot' = [step |-> "look", entry |-> 1, hashed |-> {}]
  /\ UNCHANGED <<destination, partial, receipt>>

(* Mutant: an installed destination needs no hash.                         *)
TrustExisting ==
  /\ boot.step = "look" /\ boot.entry <= Len(ModelOrder)
  /\ IF destination[Current] = "absent" THEN Proceed("prepare")
     ELSE boot' = [boot EXCEPT !.step = "look", !.entry = @ + 1,
                               !.hashed = @ \cup {<<Current, destination[Current]>>}]
  /\ UNCHANGED <<destination, partial, receipt>>

(* destination.exists() decides whether anything is installed.             *)
LookForModel ==
  /\ boot.step = "look" /\ boot.entry <= Len(ModelOrder)
  /\ Proceed(IF destination[Current] # "absent" THEN "hash"
             ELSE IF InstallMode[Current] = "cache-snapshot" THEN "fetch" ELSE "prepare")
  /\ UNCHANGED <<destination, partial, receipt>>

(* The partial file or folder of an earlier attempt is removed.            *)
ClearPartial ==
  /\ boot.step = "prepare"
  /\ partial' = [partial EXCEPT ![Current] = "absent"]
  /\ Proceed("fetch")
  /\ UNCHANGED <<destination, receipt>>

(* The download and copy: it grows, then it is whole; a network error ends *)
(* the installation.  A cache snapshot grows under its own destination.    *)
FetchModel ==
  /\ boot.step = "fetch"
  /\ LET grow(content) ==
           IF InstallMode[Current] = "cache-snapshot"
           THEN destination' = [destination EXCEPT ![Current] = content] /\ UNCHANGED partial
           ELSE partial' = [partial EXCEPT ![Current] = content] /\ UNCHANGED destination
     IN \/ grow("incomplete") /\ boot' = boot
        \/ grow("whole") /\ Proceed(IF InstallMode[Current] = "cache-snapshot" THEN "hash" ELSE "replace")
        \/ UNCHANGED <<destination, partial>> /\ Proceed("failed")
  /\ UNCHANGED receipt

ReplaceModel ==
  /\ boot.step = "replace"
  /\ destination' = [destination EXCEPT ![Current] = partial[Current]]
  /\ partial' = [partial EXCEPT ![Current] = "absent"]
  /\ Proceed("hash")
  /\ UNCHANGED receipt

(* path_hash against the manifest, where it has a hash.                    *)
HashAccepts(content) == Qualification \/ content = "whole"

HashModel ==
  /\ boot.step = "hash"
  /\ IF HashAccepts(destination[Current])
     THEN boot' = [boot EXCEPT !.step = "look", !.entry = @ + 1,
                               !.hashed = @ \cup {<<Current, destination[Current]>>}]
     ELSE Proceed("failed")
  /\ UNCHANGED <<destination, partial, receipt>>

(* The receipt, then ComfyUI and the gateway.                              *)
WriteReceipt ==
  /\ boot.step = "look" /\ boot.entry > Len(ModelOrder)
  /\ receipt' = boot.hashed
  /\ Proceed("serving")
  /\ UNCHANGED <<destination, partial>>

KillContainer ==
  /\ boot.step \notin {"down", "failed"}
  /\ Proceed("down")
  /\ UNCHANGED <<destination, partial, receipt>>

InstallNext ==
  \/ StartContainer \/ LookForModel \/ ClearPartial \/ FetchModel \/ ReplaceModel
  \/ HashModel \/ WriteReceipt \/ KillContainer

InstallSpec == InstallInit /\ [][InstallNext]_installVars

-----------------------------------------------------------------------------
InstallTypeOK ==
  /\ destination \in [Installed -> Content] /\ partial \in [Installed -> Content]
  /\ boot.step \in BootStep /\ boot.entry \in 1..(Len(ModelOrder) + 1)
  /\ boot.hashed \subseteq Installed \X Content
  /\ receipt \subseteq Installed \X Content

(* A worker serves, and its receipt names a model, only when that model is *)
(* whole on the volume, however often the installation was killed before.  *)
ServesWholeModels ==
  ~ Qualification =>
    /\ boot.step = "serving" => \A m \in Installed : destination[m] = "whole"
    /\ \A entry \in receipt : destination[entry[1]] = "whole"

(* A file or a snapshot is under its destination only when it is whole.    *)
ReplacedWhole ==
  \A m \in Installed : InstallMode[m] # "cache-snapshot" => destination[m] # "incomplete"

(* An installation that starts can still succeed: nothing that is under a  *)
(* destination is refused for ever.  A cache snapshot cut short is.        *)
InstallCanSucceed == \A m \in Installed : boot.step = "down" => destination[m] # "incomplete"
=============================================================================
