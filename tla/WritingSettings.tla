--------------------------- MODULE WritingSettings ---------------------------
(***************************************************************************)
(* Writing providers: one key file per provider, one settings file for all *)
(* (WritingSetupService of creative-writing/src/index.ts, the panel        *)
(* WritingSetup.tsx).  Every call reads and writes across awaits and saves *)
(* the whole record it loaded, with its own provider changed.              *)
(***************************************************************************)
EXTENDS Naturals, FiniteSets

CONSTANTS Provider,       \* openai, anthropic, gemini
          WritingKey,     \* API keys
          Model,          \* approved models of the release catalogue
          WritingCall     \* service calls that may be in flight at once

ASSUME WritingAssumption ==
  "none" \notin Provider \cup WritingKey \cup Model \cup WritingCall

VARIABLES writingLeft,    \* history: the user left the panel during a call
          writingVault,   \* the key file of each provider
          writingRecord,  \* the settings file
          writingCalls,   \* where each call is, and what it has read
          writingBusy,    \* the call the mounted panel waits for
          acceptedKeys    \* history: <<provider, key>> whose model list was read

writingVars == <<writingLeft, writingVault, writingRecord, writingCalls, writingBusy, acceptedKeys>>

NoDefault == [provider |-> "none", model |-> "none"]
DefaultProvider == [enabled |-> TRUE, models |-> {}]
ProviderEntry == [enabled : BOOLEAN, models : SUBSET Model]
WritingRecord == [providers : [Provider -> ProviderEntry],
                  profile : {NoDefault} \cup [provider : Provider, model : Model]]
DefaultWritingRecord == [providers |-> [p \in Provider |-> DefaultProvider], profile |-> NoDefault]

WritingStage == {"unused", "has", "read", "models", "load", "previous", "store", "remove",
                 "status", "save", "undo"}
UnusedWritingCall == [kind |-> "none", stage |-> "unused", provider |-> "none", key |-> "none",
                      previous |-> "none", models |-> {}, enabled |-> FALSE, model |-> "none",
                      record |-> DefaultWritingRecord]

WritingInit ==
  /\ writingLeft = FALSE
  /\ writingVault = [p \in Provider |-> "none"]
  /\ writingRecord = DefaultWritingRecord
  /\ writingCalls = [c \in WritingCall |-> UnusedWritingCall]
  /\ writingBusy = "none"
  /\ acceptedKeys = {}

(* statusForProvider: connected, disabled, attention or not configured.    *)
ProviderConnected(p) == writingVault[p] # "none" /\ writingRecord.providers[p].models # {}
ProviderReady(p, m) == /\ ProviderConnected(p) /\ writingRecord.providers[p].enabled
                       /\ m \in writingRecord.providers[p].models

In(c, kinds, s) == writingCalls[c].kind \in kinds /\ writingCalls[c].stage = s
OnTo(c, s) == [writingCalls[c] EXCEPT !.stage = s]

BeginWritingCall(c, call) ==
  /\ writingCalls[c] = UnusedWritingCall
  /\ writingBusy = "none"
  /\ writingCalls' = [writingCalls EXCEPT ![c] = call]
  /\ writingBusy' = c
  /\ UNCHANGED writingLeft
  /\ UNCHANGED <<writingVault, writingRecord, acceptedKeys>>

StepWritingCall(c, call) ==
  writingCalls' = [writingCalls EXCEPT ![c] = call] /\ UNCHANGED <<writingBusy, writingLeft>>

EndWritingCall(c) ==
  /\ writingCalls' = [writingCalls EXCEPT ![c] = UnusedWritingCall]
  /\ writingBusy' = IF writingBusy = c THEN "none" ELSE writingBusy
  /\ UNCHANGED writingLeft

-----------------------------------------------------------------------------
(* Mutant: the model list is not read before the key is stored.            *)
ConnectUnchecked(c, p, k) ==
  BeginWritingCall(c, [UnusedWritingCall EXCEPT !.kind = "connect", !.stage = "load",
                         !.provider = p, !.key = k])

ConnectProvider(c, p, k) ==
  BeginWritingCall(c, [UnusedWritingCall EXCEPT !.kind = "connect", !.stage = "models",
                         !.provider = p, !.key = k])

RefreshProvider(c, p) ==
  BeginWritingCall(c, [UnusedWritingCall EXCEPT !.kind = "connect", !.stage = "has", !.provider = p])

DisconnectProvider(c, p) ==
  BeginWritingCall(c, [UnusedWritingCall EXCEPT !.kind = "disconnect", !.stage = "remove",
                         !.provider = p])

SetProviderEnabled(c, p, on) ==
  BeginWritingCall(c, [UnusedWritingCall EXCEPT !.kind = "enable", !.stage = "has",
                         !.provider = p, !.enabled = on])

SaveDefaultProfile(c, p, m) ==
  BeginWritingCall(c, [UnusedWritingCall EXCEPT !.kind = "profile", !.stage = "status",
                         !.provider = p, !.model = m])

(* hasSecret before refresh and setEnabled; refresh then reads the key.    *)
FindProviderKey(c) ==
  /\ In(c, {"connect", "enable"}, "has")
  /\ IF writingVault[writingCalls[c].provider] = "none" THEN EndWritingCall(c)
     ELSE StepWritingCall(c, OnTo(c, IF writingCalls[c].kind = "enable" THEN "load" ELSE "read"))
  /\ UNCHANGED <<writingVault, writingRecord, acceptedKeys>>

ReadProviderKey(c) ==
  /\ In(c, {"connect"}, "read")
  /\ LET k == writingVault[writingCalls[c].provider]
     IN IF k = "none" THEN EndWritingCall(c)
        ELSE StepWritingCall(c, [OnTo(c, "models") EXCEPT !.key = k])
  /\ UNCHANGED <<writingVault, writingRecord, acceptedKeys>>

(* listModels intersected with the catalogue; none left is a failure.      *)
ListModels(c) ==
  /\ In(c, {"connect"}, "models")
  /\ \/ \E found \in SUBSET Model \ {{}} :
          /\ StepWritingCall(c, [OnTo(c, "load") EXCEPT !.models = found])
          /\ acceptedKeys' = acceptedKeys \cup {<<writingCalls[c].provider, writingCalls[c].key>>}
     \/ EndWritingCall(c) /\ UNCHANGED acceptedKeys
  /\ UNCHANGED <<writingVault, writingRecord>>

LoadWritingRecord(c) ==
  /\ In(c, {"connect", "disconnect", "enable", "profile"}, "load")
  /\ StepWritingCall(c, [OnTo(c, IF writingCalls[c].kind = "connect" THEN "previous" ELSE "save")
                           EXCEPT !.record = writingRecord])
  /\ UNCHANGED <<writingVault, writingRecord, acceptedKeys>>

(* The key to put back if the settings cannot be saved.                    *)
ReadPreviousKey(c) ==
  /\ In(c, {"connect"}, "previous")
  /\ StepWritingCall(c, [OnTo(c, "store") EXCEPT !.previous = writingVault[writingCalls[c].provider]])
  /\ UNCHANGED <<writingVault, writingRecord, acceptedKeys>>

StoreProviderKey(c) ==
  /\ In(c, {"connect"}, "store")
  /\ \/ /\ writingVault' = [writingVault EXCEPT ![writingCalls[c].provider] = writingCalls[c].key]
        /\ StepWritingCall(c, OnTo(c, "save"))
     \/ UNCHANGED writingVault /\ EndWritingCall(c)
  /\ UNCHANGED <<writingRecord, acceptedKeys>>

RemoveProviderKey(c) ==
  /\ In(c, {"disconnect"}, "remove")
  /\ \/ /\ writingVault' = [writingVault EXCEPT ![writingCalls[c].provider] = "none"]
        /\ StepWritingCall(c, OnTo(c, "load"))
     \/ UNCHANGED writingVault /\ EndWritingCall(c)
  /\ UNCHANGED <<writingRecord, acceptedKeys>>

(* saveDefaultProfile checks the status first and loads afterwards.        *)
CheckProfile(c) ==
  /\ In(c, {"profile"}, "status")
  /\ LET call == writingCalls[c]
     IN IF ProviderReady(call.provider, call.model)
        THEN StepWritingCall(c, OnTo(c, "load")) ELSE EndWritingCall(c)
  /\ UNCHANGED <<writingVault, writingRecord, acceptedKeys>>

(* A profile of the provider is dropped when the model is no longer listed,*)
(* the provider is disabled, or its key removed.                           *)
KeptProfile(call, usable) ==
  IF call.record.profile.provider = call.provider /\ ~usable
  THEN NoDefault ELSE call.record.profile

WritingWrite(call) ==
  LET with(entry, profile) ==
        [call.record EXCEPT !.providers[call.provider] = entry, !.profile = profile]
  IN CASE call.kind = "connect" ->
            with([enabled |-> TRUE, models |-> call.models],
                 KeptProfile(call, call.record.profile.model \in call.models))
       [] call.kind = "disconnect" -> with(DefaultProvider, KeptProfile(call, FALSE))
       [] call.kind = "enable" ->
            with([call.record.providers[call.provider] EXCEPT !.enabled = call.enabled],
                 KeptProfile(call, call.enabled))
       [] call.kind = "profile" ->
            [call.record EXCEPT !.profile = [provider |-> call.provider, model |-> call.model]]

SaveWritingRecord(c) ==
  /\ In(c, {"connect", "disconnect", "enable", "profile"}, "save")
  /\ \/ writingRecord' = WritingWrite(writingCalls[c]) /\ EndWritingCall(c)
     \/ /\ UNCHANGED writingRecord
        /\ IF writingCalls[c].kind = "connect"
           THEN StepWritingCall(c, OnTo(c, "undo")) ELSE EndWritingCall(c)
  /\ UNCHANGED <<writingVault, acceptedKeys>>

(* connect's catch: the previous key goes back; this too may throw.        *)
RestorePreviousKey(c) ==
  /\ In(c, {"connect"}, "undo")
  /\ LET call == writingCalls[c]
     IN writingVault' \in {writingVault, [writingVault EXCEPT ![call.provider] = call.previous]}
  /\ EndWritingCall(c)
  /\ UNCHANGED <<writingRecord, acceptedKeys>>

ReopenWritingPanel ==
  /\ writingBusy # "none"
  /\ writingBusy' = "none"
  /\ writingLeft' = TRUE
  /\ UNCHANGED <<writingVault, writingRecord, writingCalls, acceptedKeys>>

RestartWriting ==
  /\ \E c \in WritingCall : writingCalls[c] # UnusedWritingCall
  /\ writingBusy' = "none"
  /\ writingCalls' = [c \in WritingCall |-> UnusedWritingCall]
  /\ UNCHANGED <<writingLeft, writingVault, writingRecord, acceptedKeys>>

WritingNext ==
  \/ \E c \in WritingCall :
       \/ \E p \in Provider :
            \/ \E k \in WritingKey : ConnectProvider(c, p, k)
            \/ RefreshProvider(c, p) \/ DisconnectProvider(c, p)
            \/ \E on \in BOOLEAN : SetProviderEnabled(c, p, on)
            \/ \E m \in Model : SaveDefaultProfile(c, p, m)
       \/ FindProviderKey(c) \/ ReadProviderKey(c) \/ ListModels(c) \/ LoadWritingRecord(c)
       \/ ReadPreviousKey(c) \/ StoreProviderKey(c) \/ RemoveProviderKey(c)
       \/ CheckProfile(c) \/ SaveWritingRecord(c) \/ RestorePreviousKey(c)
  \/ ReopenWritingPanel \/ RestartWriting

WritingSpec == WritingInit /\ [][WritingNext]_writingVars

-----------------------------------------------------------------------------
WritingTypeOK ==
  /\ writingLeft \in BOOLEAN
  /\ writingVault \in [Provider -> WritingKey \cup {"none"}]
  /\ writingRecord \in WritingRecord
  /\ writingCalls \in [WritingCall ->
       [kind : {"none", "connect", "disconnect", "enable", "profile"}, stage : WritingStage,
        provider : Provider \cup {"none"}, key : WritingKey \cup {"none"},
        previous : WritingKey \cup {"none"}, models : SUBSET Model, enabled : BOOLEAN,
        model : Model \cup {"none"}, record : WritingRecord]]
  /\ writingBusy \in WritingCall \cup {"none"}
  /\ acceptedKeys \subseteq Provider \X WritingKey

(* "A replacement key must pass that provider's model-list check before    *)
(* becoming active" (docs/SECURITY_AND_RECOVERY.md:22), also when calls    *)
(* overlap, saves fail and the previous key is put back.                   *)
ActiveKeyWasAccepted ==
  \A p \in Provider : writingVault[p] # "none" => <<p, writingVault[p]>> \in acceptedKeys

(* The default profile names an enabled provider and a model it lists:     *)
(* connecting, disabling, disconnecting and choosing keep this together.   *)
DefaultIsUsable ==
  ~writingLeft /\ writingRecord.profile # NoDefault =>
    LET entry == writingRecord.providers[writingRecord.profile.provider]
    IN entry.enabled /\ writingRecord.profile.model \in entry.models
=============================================================================
