---------------------------- MODULE CloudSettings ----------------------------
(***************************************************************************)
(* The cloud account panel and its service (cloud-setup/src/index.ts, the  *)
(* single-key vault of credential-vault, renderer CloudSetup.tsx).  The    *)
(* key file and the settings file are written by separate awaits, and a    *)
(* call writes back the whole settings record it loaded earlier.  The      *)
(* panel disables its buttons while a call runs, but the flag belongs to   *)
(* the mounted panel: leaving the screen and coming back loses it.         *)
(***************************************************************************)
EXTENDS Naturals, FiniteSets

CONSTANTS CloudKey,     \* RunPod API keys the user may enter
          Limits,       \* spending and shutdown limits the user may save
          CloudCall     \* service calls that may be in flight at once

ASSUME CloudAssumption ==
  "none" \notin CloudKey \cup Limits \cup CloudCall

VARIABLES cloudLeft,     \* history: the user left the panel during a call
          cloudVault,    \* the key file
          cloudRecord,   \* the settings file
          cloudCalls,    \* where each call is, and what it has read
          cloudBusy,     \* the call the mounted panel waits for
          checkedKeys,   \* history: keys validateAccount accepted
          savedLimits,   \* history: limits of the last completed save
          keyRemoved     \* history: removed, and no key entered since

cloudVars == <<cloudLeft, cloudVault, cloudRecord, cloudCalls, cloudBusy,
               checkedKeys, savedLimits, keyRemoved>>

CloudRecord == [limits : Limits \cup {"none"},      \* "none": the defaults, unsaved
                account : CloudKey \cup {"none"},   \* the key its snapshot was read with
                gpus : BOOLEAN]                     \* a price catalogue is there
DefaultCloudRecord == [limits |-> "none", account |-> "none", gpus |-> FALSE]

CloudStage == {"unused", "has", "read", "validate", "load", "list", "store",
               "remove", "save"}
UnusedCloudCall == [kind |-> "none", stage |-> "unused", key |-> "none",
                    limits |-> "none", record |-> DefaultCloudRecord, gpus |-> FALSE]

CloudInit ==
  /\ cloudLeft = FALSE
  /\ cloudVault = "none"
  /\ cloudRecord = DefaultCloudRecord
  /\ cloudCalls = [c \in CloudCall |-> UnusedCloudCall]
  /\ cloudBusy = "none"
  /\ checkedKeys = {}
  /\ savedLimits = "none"
  /\ keyRemoved = FALSE

(* statusFrom: what the studio reports from the two files.                 *)
CloudConnected == cloudVault # "none" /\ cloudRecord.account # "none"
GenerationReady == CloudConnected /\ cloudRecord.limits # "none"

At(c, kinds, s) == cloudCalls[c].kind \in kinds /\ cloudCalls[c].stage = s

BeginCloudCall(c, call) ==
  /\ cloudCalls[c] = UnusedCloudCall
  /\ cloudBusy = "none"                             \* the buttons are enabled
  /\ cloudCalls' = [cloudCalls EXCEPT ![c] = call]
  /\ cloudBusy' = c
  /\ UNCHANGED cloudLeft

StepCloudCall(c, call) == cloudCalls' = [cloudCalls EXCEPT ![c] = call] /\ UNCHANGED <<cloudBusy, cloudLeft>>

EndCloudCall(c) ==
  /\ cloudCalls' = [cloudCalls EXCEPT ![c] = UnusedCloudCall]
  /\ cloudBusy' = IF cloudBusy = c THEN "none" ELSE cloudBusy
  /\ UNCHANGED cloudLeft

ToStage(c, s) == [cloudCalls[c] EXCEPT !.stage = s]

-----------------------------------------------------------------------------
(* Mutant: the account check is skipped.                                   *)
ClickConnectUnchecked(c, k) ==
  /\ BeginCloudCall(c, [UnusedCloudCall EXCEPT !.kind = "connect", !.stage = "load", !.key = k])
  /\ keyRemoved' = FALSE
  /\ UNCHANGED <<cloudVault, cloudRecord, checkedKeys, savedLimits>>

(* The four buttons.                                                       *)
ClickConnect(c, k) ==
  /\ BeginCloudCall(c, [UnusedCloudCall EXCEPT !.kind = "connect", !.stage = "validate", !.key = k])
  /\ keyRemoved' = FALSE
  /\ UNCHANGED <<cloudVault, cloudRecord, checkedKeys, savedLimits>>

ClickRefresh(c) ==
  /\ BeginCloudCall(c, [UnusedCloudCall EXCEPT !.kind = "connect", !.stage = "has"])
  /\ UNCHANGED <<cloudVault, cloudRecord, checkedKeys, savedLimits, keyRemoved>>

ClickDisconnect(c) ==
  /\ BeginCloudCall(c, [UnusedCloudCall EXCEPT !.kind = "disconnect", !.stage = "remove"])
  /\ UNCHANGED <<cloudVault, cloudRecord, checkedKeys, savedLimits, keyRemoved>>

ClickSaveLimits(c, g) ==
  /\ BeginCloudCall(c, [UnusedCloudCall EXCEPT !.kind = "limits", !.stage = "load", !.limits = g])
  /\ UNCHANGED <<cloudVault, cloudRecord, checkedKeys, savedLimits, keyRemoved>>

(* refresh: hasSecret, then readSecret, then connect with what it read.    *)
FindCloudKey(c) ==
  /\ At(c, {"connect"}, "has")
  /\ IF cloudVault = "none" THEN EndCloudCall(c) ELSE StepCloudCall(c, ToStage(c, "read"))
  /\ UNCHANGED <<cloudVault, cloudRecord, checkedKeys, savedLimits, keyRemoved>>

ReadCloudKey(c) ==
  /\ At(c, {"connect"}, "read")
  /\ IF cloudVault = "none" THEN EndCloudCall(c)
     ELSE StepCloudCall(c, [ToStage(c, "validate") EXCEPT !.key = cloudVault])
  /\ UNCHANGED <<cloudVault, cloudRecord, checkedKeys, savedLimits, keyRemoved>>

(* provider.validateAccount: accepted, rejected, or no answer.             *)
ValidateAccount(c) ==
  /\ At(c, {"connect"}, "validate")
  /\ \/ /\ StepCloudCall(c, ToStage(c, "load"))
        /\ checkedKeys' = checkedKeys \cup {cloudCalls[c].key}
     \/ /\ EndCloudCall(c)
        /\ UNCHANGED checkedKeys
  /\ UNCHANGED <<cloudVault, cloudRecord, savedLimits, keyRemoved>>

LoadCloudRecord(c) ==
  /\ At(c, {"connect", "disconnect", "limits"}, "load")
  /\ StepCloudCall(c, [ToStage(c, IF cloudCalls[c].kind = "connect" THEN "list" ELSE "save")
                         EXCEPT !.record = cloudRecord])
  /\ UNCHANGED <<cloudVault, cloudRecord, checkedKeys, savedLimits, keyRemoved>>

(* A failed price check only leaves the catalogue empty.                   *)
ListGpus(c) ==
  /\ At(c, {"connect"}, "list")
  /\ \E found \in BOOLEAN : StepCloudCall(c, [ToStage(c, "store") EXCEPT !.gpus = found])
  /\ UNCHANGED <<cloudVault, cloudRecord, checkedKeys, savedLimits, keyRemoved>>

StoreCloudKey(c) ==
  /\ At(c, {"connect"}, "store")
  /\ \/ cloudVault' = cloudCalls[c].key /\ StepCloudCall(c, ToStage(c, "save"))
     \/ cloudVault' = cloudVault /\ EndCloudCall(c)
  /\ UNCHANGED <<cloudRecord, checkedKeys, savedLimits, keyRemoved>>

RemoveCloudKey(c) ==
  /\ At(c, {"disconnect"}, "remove")
  /\ \/ /\ cloudVault' = "none" /\ keyRemoved' = TRUE
        /\ StepCloudCall(c, ToStage(c, "load"))
     \/ /\ UNCHANGED <<cloudVault, keyRemoved>>
        /\ EndCloudCall(c)
  /\ UNCHANGED <<cloudRecord, checkedKeys, savedLimits>>

(* Mutant: connecting writes a fresh record.                               *)
CloudWriteFresh(call) ==
  CASE call.kind = "connect" -> [DefaultCloudRecord EXCEPT !.account = call.key, !.gpus = call.gpus]
    [] call.kind = "disconnect" -> [call.record EXCEPT !.account = "none", !.gpus = FALSE]
    [] call.kind = "limits" -> [call.record EXCEPT !.limits = call.limits]

(* The record each call writes back, over whatever the file holds now.     *)
CloudWrite(call) ==
  CASE call.kind = "connect"    -> [call.record EXCEPT !.account = call.key, !.gpus = call.gpus]
    [] call.kind = "disconnect" -> [call.record EXCEPT !.account = "none", !.gpus = FALSE]
    [] call.kind = "limits"     -> [call.record EXCEPT !.limits = call.limits]

SaveCloudRecord(c) ==
  /\ At(c, {"connect", "disconnect", "limits"}, "save")
  /\ \/ /\ cloudRecord' = CloudWrite(cloudCalls[c])
        /\ savedLimits' = IF cloudCalls[c].kind = "limits" THEN cloudCalls[c].limits ELSE savedLimits
        /\ EndCloudCall(c)
     \/ /\ UNCHANGED <<cloudRecord, savedLimits>>
        /\ EndCloudCall(c)
  /\ UNCHANGED <<cloudVault, checkedKeys, keyRemoved>>

(* Another screen and back: a new panel, its flag clear.                   *)
ReopenCloudPanel ==
  /\ cloudBusy # "none"
  /\ cloudBusy' = "none"
  /\ cloudLeft' = TRUE
  /\ UNCHANGED <<cloudVault, cloudRecord, cloudCalls, checkedKeys, savedLimits, keyRemoved>>

(* The application dies and starts again: calls are gone, files stay.      *)
RestartCloud ==
  /\ \E c \in CloudCall : cloudCalls[c] # UnusedCloudCall
  /\ cloudBusy' = "none"
  /\ cloudCalls' = [c \in CloudCall |-> UnusedCloudCall]
  /\ UNCHANGED <<cloudLeft, cloudVault, cloudRecord, checkedKeys, savedLimits, keyRemoved>>

CloudNext ==
  \/ \E c \in CloudCall :
       \/ \E k \in CloudKey : ClickConnect(c, k)
       \/ \E g \in Limits : ClickSaveLimits(c, g)
       \/ ClickRefresh(c) \/ ClickDisconnect(c)
       \/ FindCloudKey(c) \/ ReadCloudKey(c) \/ ValidateAccount(c) \/ LoadCloudRecord(c)
       \/ ListGpus(c) \/ StoreCloudKey(c) \/ RemoveCloudKey(c) \/ SaveCloudRecord(c)
  \/ ReopenCloudPanel \/ RestartCloud

CloudSpec == CloudInit /\ [][CloudNext]_cloudVars

-----------------------------------------------------------------------------
CloudTypeOK ==
  /\ cloudLeft \in BOOLEAN
  /\ cloudVault \in CloudKey \cup {"none"}
  /\ cloudRecord \in CloudRecord
  /\ cloudCalls \in [CloudCall ->
       [kind : {"none", "connect", "disconnect", "limits"}, stage : CloudStage,
        key : CloudKey \cup {"none"}, limits : Limits \cup {"none"},
        record : CloudRecord, gpus : BOOLEAN]]
  /\ cloudBusy \in CloudCall \cup {"none"}
  /\ checkedKeys \subseteq CloudKey
  /\ savedLimits \in Limits \cup {"none"}
  /\ keyRemoved \in BOOLEAN

(* Paid generation is unlocked only with a key that passed the no-cost     *)
(* account check and with limits the user saved, in every interleaving,    *)
(* after failed writes and restarts (statusFrom, connect).                 *)
ReadyWasEarned ==
  GenerationReady => cloudVault \in checkedKeys /\ cloudRecord.account \in checkedKeys
                     /\ savedLimits # "none"

(* While the user stays on the panel, no account check, failure or restart *)
(* takes back the limits the last completed save stored.                   *)
LimitsAreTheLastSaved == ~cloudLeft => cloudRecord.limits = savedLimits

(* disconnect "Remove only the protected local key" (API_CONTRACTS.md:41): *)
(* a removed key stays removed until the user enters one.  A refresh that  *)
(* read the key before stores it again.                                    *)
RemovedKeyStaysRemoved == keyRemoved => cloudVault = "none"

KeyStaysRemovedOnPanel == ~cloudLeft => RemovedKeyStaysRemoved
=============================================================================
