-------------------- MODULE StudioSettings_proofs --------------------
(***************************************************************************)
(* Theorems about the parts of MCStudioSettings, each for any number of    *)
(* calls, keys, packages, projects, presses and productions: the cloud     *)
(* settings, the writing settings, the skill registry, Creator Mode and    *)
(* the window around the rooms.  Each part has a section of its own: the   *)
(* inductive invariant, the lemmas about single writes, one step of proof  *)
(* for every action, and the theorems.  The parts share no variable.       *)
(***************************************************************************)
EXTENDS CloudSettings, WritingSettings, SkillRegistry, GuidedStages, StudioShell, TLAPS

-----------------------------------------------------------------------------
(* CloudSettings.  The panel's state was earned, the limits are the last.  *)

Accepted == checkedKeys \cup {"none"}

(* Every key on disk, or cited by a record on disk, was accepted.          *)
FilesAreEarned ==
  /\ cloudVault \in Accepted
  /\ cloudRecord.account \in Accepted
  /\ cloudRecord.limits # "none" => savedLimits # "none"

(* A call holds a record that was on disk, and after the account check an  *)
(* accepted key; a call that saves limits holds limits.                    *)
CallsAreEarned ==
  \A c \in CloudCall :
    /\ cloudCalls[c].record.account \in Accepted
    /\ cloudCalls[c].record.limits # "none" => savedLimits # "none"
    /\ At(c, {"connect"}, "validate") => cloudCalls[c].key \in CloudKey
    /\ cloudCalls[c].kind = "connect" /\ cloudCalls[c].stage \in {"load", "list", "store", "save"}
         => cloudCalls[c].key \in checkedKeys
    /\ cloudCalls[c].kind = "limits" => cloudCalls[c].limits \in Limits

(* While nobody left the panel, it waits for the one call there is, and    *)
(* the record that call holds is the one on disk.                          *)
OneCallAtATime ==
  ~cloudLeft => \A c \in CloudCall :
    /\ cloudCalls[c] # UnusedCloudCall => cloudBusy = c
    /\ cloudCalls[c].stage \in {"list", "store", "save"} => cloudCalls[c].record = cloudRecord

CloudInv == CloudTypeOK /\ FilesAreEarned /\ CallsAreEarned /\ OneCallAtATime /\ LimitsAreTheLastSaved

CallRecord ==
  [kind : {"none", "connect", "disconnect", "limits"}, stage : CloudStage,
   key : CloudKey \cup {"none"}, limits : Limits \cup {"none"}, record : CloudRecord, gpus : BOOLEAN]

LEMMA UnusedFacts ==
  /\ DefaultCloudRecord \in CloudRecord /\ DefaultCloudRecord.account = "none"
  /\ DefaultCloudRecord.limits = "none"
  /\ UnusedCloudCall \in CallRecord /\ UnusedCloudCall.kind = "none" /\ UnusedCloudCall.stage = "unused"
  /\ UnusedCloudCall.record = DefaultCloudRecord /\ UnusedCloudCall.key = "none"
  /\ UnusedCloudCall.limits = "none"
<1>1. DefaultCloudRecord \in CloudRecord
  BY DEF DefaultCloudRecord, CloudRecord
<1>2. UnusedCloudCall \in CallRecord
  BY <1>1 DEF UnusedCloudCall, CallRecord, CloudStage
<1>3. QED
  BY <1>1, <1>2 DEF DefaultCloudRecord, UnusedCloudCall

LEMMA CloudInitially == CloudInit => CloudInv
<1> SUFFICES ASSUME CloudInit PROVE CloudInv
  OBVIOUS
<1>1. CloudTypeOK
  BY UnusedFacts DEF CloudInit, CloudTypeOK, CallRecord
<1>2. FilesAreEarned /\ CallsAreEarned
  BY UnusedFacts DEF CloudInit, FilesAreEarned, CallsAreEarned, Accepted, At
<1>3. OneCallAtATime /\ LimitsAreTheLastSaved
  BY UnusedFacts DEF CloudInit, OneCallAtATime, LimitsAreTheLastSaved
<1>4. QED
  BY <1>1, <1>2, <1>3 DEF CloudInv

(* What a step may do to the call it is of: it is over, or goes on with    *)
(* what the invariant asks of it.                                          *)
MayBecome(c, r) ==
  /\ r \in CallRecord
  /\ r.record.account \in Accepted'
  /\ r.record.limits # "none" => savedLimits' # "none"
  /\ r.kind = "connect" /\ r.stage = "validate" => r.key \in CloudKey
  /\ r.kind = "connect" /\ r.stage \in {"load", "list", "store", "save"} => r.key \in checkedKeys'
  /\ r.kind = "limits" => r.limits \in Limits
  /\ ~cloudLeft' /\ r # UnusedCloudCall => cloudBusy' = c
  /\ ~cloudLeft' /\ r.stage \in {"list", "store", "save"} => r.record = cloudRecord'

LEMMA UnusedMayBe ==
  ASSUME NEW c \in CloudCall, checkedKeys' \subseteq CloudKey
  PROVE  MayBecome(c, UnusedCloudCall)
BY UnusedFacts DEF MayBecome, Accepted

(* A step of one call, which changes the files only as it may.             *)
LEMMA OneCallSteps ==
  ASSUME CloudInv, NEW c \in CloudCall, NEW r, MayBecome(c, r),
         cloudCalls' = [cloudCalls EXCEPT ![c] = r],
         cloudLeft' = cloudLeft, cloudBusy' \in CloudCall \cup {"none"},
         checkedKeys \subseteq checkedKeys', checkedKeys' \subseteq CloudKey,
         savedLimits # "none" => savedLimits' # "none",
         savedLimits' \in Limits \cup {"none"}, keyRemoved' \in BOOLEAN,
         cloudVault' \in CloudKey \cup {"none"}, cloudRecord' \in CloudRecord,
         FilesAreEarned', LimitsAreTheLastSaved',
         ~cloudLeft => \A v \in CloudCall : v # c => cloudCalls[v] = UnusedCloudCall
  PROVE  CloudInv'
<1>1. cloudCalls \in [CloudCall -> CallRecord] /\ cloudCalls'[c] = r
      /\ \A v \in CloudCall : v # c => cloudCalls'[v] = cloudCalls[v]
  BY DEF CloudInv, CloudTypeOK, CallRecord
<1>2. CloudTypeOK'
  BY <1>1 DEF CloudInv, CloudTypeOK, MayBecome, CallRecord
<1>3. CallsAreEarned'
  <2> SUFFICES ASSUME NEW v \in CloudCall
               PROVE  /\ cloudCalls'[v].record.account \in Accepted'
                      /\ cloudCalls'[v].record.limits # "none" => savedLimits' # "none"
                      /\ cloudCalls'[v].kind = "connect" /\ cloudCalls'[v].stage = "validate"
                           => cloudCalls'[v].key \in CloudKey
                      /\ cloudCalls'[v].kind = "connect" /\ cloudCalls'[v].stage \in {"load", "list", "store", "save"}
                           => cloudCalls'[v].key \in checkedKeys'
                      /\ cloudCalls'[v].kind = "limits" => cloudCalls'[v].limits \in Limits
    BY DEF CallsAreEarned, At
  <2>1. CASE v = c
    BY <2>1, <1>1 DEF MayBecome
  <2>2. CASE v # c
    BY <2>2, <1>1 DEF CloudInv, CallsAreEarned, Accepted, At
  <2>3. QED
    BY <2>1, <2>2
<1>4. OneCallAtATime'
  BY <1>1, UnusedFacts DEF OneCallAtATime, MayBecome
<1>5. QED
  BY <1>2, <1>3, <1>4 DEF CloudInv

(* Of the calls of a panel nobody left, the one that steps is the only one. *)
LEMMA OnlyOneCall ==
  ASSUME CloudInv, NEW c \in CloudCall, cloudBusy = "none" \/ cloudCalls[c] # UnusedCloudCall, ~cloudLeft,
         NEW v \in CloudCall, v # c
  PROVE  cloudCalls[v] = UnusedCloudCall
BY CloudAssumption DEF CloudInv, OneCallAtATime

LEMMA StageIsUsed ==
  ASSUME NEW c \in CloudCall, NEW kinds, NEW s, At(c, kinds, s), s # "unused"
  PROVE  cloudCalls[c] # UnusedCloudCall
BY UnusedFacts DEF At

(* The four buttons.                                                       *)
LEMMA ClicksKeep ==
  ASSUME CloudInv, NEW c \in CloudCall,
         \/ \E k \in CloudKey : ClickConnect(c, k)
         \/ \E g \in Limits : ClickSaveLimits(c, g)
         \/ ClickRefresh(c) \/ ClickDisconnect(c)
  PROVE  CloudInv'
<1>1. PICK r : /\ BeginCloudCall(c, r)
               /\ r \in CallRecord /\ r.record = DefaultCloudRecord
               /\ r.kind = "connect" => r.stage \in {"validate", "has"}
               /\ r.kind = "connect" /\ r.stage = "validate" => r.key \in CloudKey
               /\ r.kind = "limits" => r.limits \in Limits
               /\ r.stage \notin {"list", "store", "save"}
  <2>1. CASE \E k \in CloudKey : ClickConnect(c, k)
    <3>1. PICK k \in CloudKey : ClickConnect(c, k)
      BY <2>1
    <3> DEFINE r == [UnusedCloudCall EXCEPT !.kind = "connect", !.stage = "validate", !.key = k]
    <3>2. r \in CallRecord /\ r.record = DefaultCloudRecord /\ r.kind = "connect" /\ r.stage = "validate" /\ r.key = k
      BY UnusedFacts DEF CallRecord, CloudStage
    <3>3. BeginCloudCall(c, r)
      BY <3>1 DEF ClickConnect
    <3> HIDE DEF r
    <3>4. QED
      BY <3>2, <3>3
  <2>2. CASE \E g \in Limits : ClickSaveLimits(c, g)
    <3>1. PICK g \in Limits : ClickSaveLimits(c, g)
      BY <2>2
    <3> DEFINE r == [UnusedCloudCall EXCEPT !.kind = "limits", !.stage = "load", !.limits = g]
    <3>2. r \in CallRecord /\ r.record = DefaultCloudRecord /\ r.kind = "limits" /\ r.stage = "load" /\ r.limits = g
      BY UnusedFacts DEF CallRecord, CloudStage
    <3>3. BeginCloudCall(c, r)
      BY <3>1 DEF ClickSaveLimits
    <3> HIDE DEF r
    <3>4. QED
      BY <3>2, <3>3
  <2>3. CASE ClickRefresh(c)
    <3> DEFINE r == [UnusedCloudCall EXCEPT !.kind = "connect", !.stage = "has"]
    <3>2. r \in CallRecord /\ r.record = DefaultCloudRecord /\ r.kind = "connect" /\ r.stage = "has"
      BY UnusedFacts DEF CallRecord, CloudStage
    <3>3. BeginCloudCall(c, r)
      BY <2>3 DEF ClickRefresh
    <3> HIDE DEF r
    <3>4. QED
      BY <3>2, <3>3
  <2>4. CASE ClickDisconnect(c)
    <3> DEFINE r == [UnusedCloudCall EXCEPT !.kind = "disconnect", !.stage = "remove"]
    <3>2. r \in CallRecord /\ r.record = DefaultCloudRecord /\ r.kind = "disconnect" /\ r.stage = "remove"
      BY UnusedFacts DEF CallRecord, CloudStage
    <3>3. BeginCloudCall(c, r)
      BY <2>4 DEF ClickDisconnect
    <3> HIDE DEF r
    <3>4. QED
      BY <3>2, <3>3
  <2>5. QED
    BY <2>1, <2>2, <2>3, <2>4
<1>2. UNCHANGED <<cloudVault, cloudRecord, checkedKeys, savedLimits, cloudLeft>> /\ keyRemoved' \in BOOLEAN
  BY DEF ClickConnect, ClickSaveLimits, ClickRefresh, ClickDisconnect, BeginCloudCall, CloudInv, CloudTypeOK
<1>3. MayBecome(c, r)
  BY <1>1, <1>2, UnusedFacts DEF MayBecome, Accepted, BeginCloudCall
<1>4. FilesAreEarned' /\ LimitsAreTheLastSaved'
  BY <1>2 DEF CloudInv, FilesAreEarned, LimitsAreTheLastSaved, Accepted
<1>5. ~cloudLeft => \A v \in CloudCall : v # c => cloudCalls[v] = UnusedCloudCall
  BY <1>1, OnlyOneCall DEF BeginCloudCall
<1>6. QED
  BY <1>1, <1>2, <1>3, <1>4, <1>5, OneCallSteps DEF BeginCloudCall, CloudInv, CloudTypeOK

(* A call that is over, with the files as they may have become.            *)
LEMMA EndKeeps ==
  ASSUME CloudInv, NEW c \in CloudCall, cloudCalls[c] # UnusedCloudCall, EndCloudCall(c),
         checkedKeys' = checkedKeys, savedLimits # "none" => savedLimits' # "none",
         savedLimits' \in Limits \cup {"none"}, keyRemoved' \in BOOLEAN,
         cloudVault' \in CloudKey \cup {"none"}, cloudRecord' \in CloudRecord,
         FilesAreEarned', LimitsAreTheLastSaved'
  PROVE  CloudInv'
<1>1. checkedKeys' \subseteq CloudKey /\ cloudBusy' \in CloudCall \cup {"none"} /\ cloudLeft' = cloudLeft
  BY DEF EndCloudCall, CloudInv, CloudTypeOK
<1>2. MayBecome(c, UnusedCloudCall)
  BY <1>1, UnusedMayBe
<1>3. ~cloudLeft => \A v \in CloudCall : v # c => cloudCalls[v] = UnusedCloudCall
  BY OnlyOneCall
<1>4. cloudCalls' = [cloudCalls EXCEPT ![c] = UnusedCloudCall]
  BY DEF EndCloudCall
<1>5. QED
  BY <1>1, <1>2, <1>3, <1>4, OneCallSteps

(* A call that goes on, with the record file as it was.                    *)
LEMMA StepKeeps ==
  ASSUME CloudInv, NEW c \in CloudCall, cloudCalls[c] # UnusedCloudCall, NEW r, StepCloudCall(c, r),
         r \in CallRecord, r.kind = cloudCalls[c].kind, r.limits = cloudCalls[c].limits,
         r.record \in {cloudCalls[c].record, cloudRecord},
         r.kind = "connect" /\ r.stage = "validate" => r.key \in CloudKey,
         r.kind = "connect" /\ r.stage \in {"load", "list", "store", "save"} => r.key \in checkedKeys',
         r.stage \in {"list", "store", "save"} =>
           \/ r.record = cloudRecord
           \/ cloudCalls[c].stage \in {"list", "store", "save"} /\ r.record = cloudCalls[c].record,
         checkedKeys \subseteq checkedKeys', checkedKeys' \subseteq CloudKey,
         UNCHANGED <<cloudRecord, savedLimits>>, keyRemoved' \in BOOLEAN,
         cloudVault' \in CloudKey \cup {"none"}, cloudVault' \in Accepted'
  PROVE  CloudInv'
<1>1. cloudBusy' \in CloudCall \cup {"none"} /\ cloudLeft' = cloudLeft /\ cloudBusy' = cloudBusy
      /\ savedLimits' \in Limits \cup {"none"} /\ cloudRecord' \in CloudRecord
  BY DEF StepCloudCall, CloudInv, CloudTypeOK
<1>2. FilesAreEarned' /\ LimitsAreTheLastSaved'
  BY <1>1 DEF CloudInv, FilesAreEarned, LimitsAreTheLastSaved, Accepted
<1>3. MayBecome(c, r)
  <2>1. r.record.account \in Accepted' /\ (r.record.limits # "none" => savedLimits' # "none")
    BY DEF CloudInv, CallsAreEarned, FilesAreEarned, Accepted
  <2>2. r.kind = "limits" => r.limits \in Limits
    BY DEF CloudInv, CallsAreEarned
  <2>3. ~cloudLeft => cloudBusy = c
    BY DEF CloudInv, OneCallAtATime
  <2>4. ~cloudLeft /\ r.stage \in {"list", "store", "save"} => r.record = cloudRecord
    BY DEF CloudInv, OneCallAtATime
  <2>5. QED
    BY <1>1, <2>1, <2>2, <2>3, <2>4 DEF MayBecome
<1>4. ~cloudLeft => \A v \in CloudCall : v # c => cloudCalls[v] = UnusedCloudCall
  BY OnlyOneCall
<1>5. cloudCalls' = [cloudCalls EXCEPT ![c] = r]
  BY DEF StepCloudCall
<1>6. QED
  BY <1>1, <1>2, <1>3, <1>4, <1>5, OneCallSteps

(* The call at an await, and what going to another stage leaves alone.     *)
LEMMA StagedFacts ==
  ASSUME CloudInv, NEW c \in CloudCall, NEW s \in CloudStage
  PROVE  /\ ToStage(c, s) \in CallRecord /\ ToStage(c, s).stage = s
         /\ ToStage(c, s).kind = cloudCalls[c].kind /\ ToStage(c, s).key = cloudCalls[c].key
         /\ ToStage(c, s).limits = cloudCalls[c].limits /\ ToStage(c, s).record = cloudCalls[c].record
         /\ cloudCalls[c] \in CallRecord
BY DEF CloudInv, CloudTypeOK, CallRecord, ToStage

(* The awaits of a refresh and of the account check.                       *)
LEMMA KeyAwaitsKeep ==
  ASSUME CloudInv, NEW c \in CloudCall, FindCloudKey(c) \/ ReadCloudKey(c) \/ ValidateAccount(c)
  PROVE  CloudInv'
<1>1. /\ cloudCalls[c] # UnusedCloudCall /\ cloudCalls[c].kind = "connect"
      /\ UNCHANGED <<cloudVault, cloudRecord, savedLimits, keyRemoved>>
  BY StageIsUsed DEF FindCloudKey, ReadCloudKey, ValidateAccount, At
<1>2. /\ savedLimits' \in Limits \cup {"none"} /\ keyRemoved' \in BOOLEAN
      /\ cloudVault' \in CloudKey \cup {"none"} /\ cloudRecord' \in CloudRecord
  BY <1>1 DEF CloudInv, CloudTypeOK
<1>3. CASE EndCloudCall(c) /\ UNCHANGED checkedKeys
  <2>1. FilesAreEarned' /\ LimitsAreTheLastSaved'
    BY <1>1, <1>3 DEF EndCloudCall, CloudInv, FilesAreEarned, LimitsAreTheLastSaved, Accepted
  <2>2. QED
    BY <1>1, <1>2, <1>3, <2>1, EndKeeps
<1>4. CASE FindCloudKey(c) /\ StepCloudCall(c, ToStage(c, "read"))
  <2>1. "read" \in CloudStage
    BY DEF CloudStage
  <2> DEFINE r == ToStage(c, "read")
  <2>2. /\ r \in CallRecord /\ r.stage = "read" /\ r.kind = cloudCalls[c].kind /\ r.limits = cloudCalls[c].limits
        /\ r.record = cloudCalls[c].record /\ StepCloudCall(c, r)
    BY <1>4, <2>1, StagedFacts
  <2>3. checkedKeys' = checkedKeys /\ checkedKeys' \subseteq CloudKey /\ cloudVault' \in Accepted'
    BY <1>1, <1>4 DEF FindCloudKey, CloudInv, CloudTypeOK, FilesAreEarned, Accepted
  <2> HIDE DEF r
  <2>4. QED
    BY <1>1, <1>2, <2>2, <2>3, StepKeeps
<1>5. CASE ReadCloudKey(c) /\ cloudVault # "none"
  <2>1. "validate" \in CloudStage
    BY DEF CloudStage
  <2> DEFINE p == ToStage(c, "validate")
             r == [p EXCEPT !.key = cloudVault]
  <2>2. /\ p \in CallRecord /\ p.stage = "validate" /\ p.kind = cloudCalls[c].kind
        /\ p.limits = cloudCalls[c].limits /\ p.record = cloudCalls[c].record
    BY <2>1, StagedFacts
  <2>3. StepCloudCall(c, r)
    BY <1>5 DEF ReadCloudKey
  <2> HIDE DEF p
  <2>4. /\ r \in CallRecord /\ r.stage = "validate" /\ r.kind = cloudCalls[c].kind /\ r.key \in CloudKey
        /\ r.limits = cloudCalls[c].limits /\ r.record = cloudCalls[c].record
    BY <1>5, <2>2 DEF CallRecord, CloudInv, CloudTypeOK
  <2>5. checkedKeys' = checkedKeys /\ checkedKeys' \subseteq CloudKey /\ cloudVault' \in Accepted'
    BY <1>1, <1>5 DEF ReadCloudKey, CloudInv, CloudTypeOK, FilesAreEarned, Accepted
  <2> HIDE DEF r
  <2>6. QED
    BY <1>1, <1>2, <2>3, <2>4, <2>5, StepKeeps
<1>6. CASE ValidateAccount(c) /\ StepCloudCall(c, ToStage(c, "load"))
           /\ checkedKeys' = checkedKeys \cup {cloudCalls[c].key}
  <2>1. "load" \in CloudStage
    BY DEF CloudStage
  <2> DEFINE r == ToStage(c, "load")
  <2>2. /\ r \in CallRecord /\ r.stage = "load" /\ r.kind = cloudCalls[c].kind /\ r.limits = cloudCalls[c].limits
        /\ r.record = cloudCalls[c].record /\ r.key = cloudCalls[c].key /\ StepCloudCall(c, r)
    BY <1>6, <2>1, StagedFacts
  <2>3. cloudCalls[c].key \in CloudKey
    BY <1>6 DEF ValidateAccount, CloudInv, CallsAreEarned
  <2>4. checkedKeys \subseteq checkedKeys' /\ checkedKeys' \subseteq CloudKey /\ cloudVault' \in Accepted'
    BY <1>1, <1>6, <2>3 DEF CloudInv, CloudTypeOK, FilesAreEarned, Accepted
  <2> HIDE DEF r
  <2>5. QED
    BY <1>1, <1>2, <1>6, <2>2, <2>4, StepKeeps
<1>7. QED
  BY <1>3, <1>4, <1>5, <1>6 DEF FindCloudKey, ReadCloudKey, ValidateAccount

(* The awaits between the account check and the write of the record.       *)
LEMMA RecordAwaitsKeep ==
  ASSUME CloudInv, NEW c \in CloudCall,
         LoadCloudRecord(c) \/ ListGpus(c) \/ StoreCloudKey(c) \/ RemoveCloudKey(c)
  PROVE  CloudInv'
<1>1. /\ cloudCalls[c] # UnusedCloudCall /\ checkedKeys' = checkedKeys
      /\ UNCHANGED <<cloudRecord, savedLimits>> /\ keyRemoved' \in BOOLEAN
  BY StageIsUsed DEF LoadCloudRecord, ListGpus, StoreCloudKey, RemoveCloudKey, At, CloudInv, CloudTypeOK
<1>2. cloudVault' \in CloudKey \cup {"none"} /\ cloudVault' \in Accepted'
  BY <1>1 DEF LoadCloudRecord, ListGpus, StoreCloudKey, RemoveCloudKey, At, CloudInv, CloudTypeOK, FilesAreEarned,
     CallsAreEarned, Accepted
<1>3. /\ savedLimits' \in Limits \cup {"none"} /\ cloudRecord' \in CloudRecord
      /\ checkedKeys' \subseteq CloudKey
  BY <1>1 DEF CloudInv, CloudTypeOK
<1>4. CASE EndCloudCall(c)
  <2>1. FilesAreEarned' /\ LimitsAreTheLastSaved'
    BY <1>1, <1>2, <1>4 DEF EndCloudCall, CloudInv, FilesAreEarned, LimitsAreTheLastSaved, Accepted
  <2>2. QED
    BY <1>1, <1>2, <1>3, <1>4, <2>1, EndKeeps
<1>5. PICK s : s = IF cloudCalls[c].kind = "connect" THEN "list" ELSE "save"
  OBVIOUS
<1>6. CASE LoadCloudRecord(c)
  <2>1. s \in CloudStage /\ s \in {"list", "save"}
    BY <1>5 DEF CloudStage
  <2> DEFINE p == ToStage(c, s)
             r == [p EXCEPT !.record = cloudRecord]
  <2>2. /\ p \in CallRecord /\ p.stage = s /\ p.kind = cloudCalls[c].kind /\ p.key = cloudCalls[c].key
        /\ p.limits = cloudCalls[c].limits
    BY <2>1, StagedFacts
  <2>3. StepCloudCall(c, r)
    BY <1>5, <1>6 DEF LoadCloudRecord
  <2> HIDE DEF p
  <2>4. /\ r \in CallRecord /\ r.stage = s /\ r.kind = cloudCalls[c].kind /\ r.key = cloudCalls[c].key
        /\ r.limits = cloudCalls[c].limits /\ r.record = cloudRecord
    BY <2>2 DEF CallRecord, CloudInv, CloudTypeOK
  <2>5. r.kind = "connect" => r.key \in checkedKeys
    BY <1>6, <2>4 DEF LoadCloudRecord, At, CloudInv, CallsAreEarned
  <2> HIDE DEF r
  <2>6. QED
    BY <1>1, <1>2, <1>3, <2>1, <2>3, <2>4, <2>5, StepKeeps
<1>7. CASE ListGpus(c)
  <2>1. PICK found \in BOOLEAN : StepCloudCall(c, [ToStage(c, "store") EXCEPT !.gpus = found])
    BY <1>7 DEF ListGpus
  <2> DEFINE p == ToStage(c, "store")
             r == [p EXCEPT !.gpus = found]
  <2>2. /\ p \in CallRecord /\ p.stage = "store" /\ p.kind = cloudCalls[c].kind /\ p.key = cloudCalls[c].key
        /\ p.limits = cloudCalls[c].limits /\ p.record = cloudCalls[c].record
    BY StagedFacts DEF CloudStage
  <2>3. StepCloudCall(c, r)
    BY <2>1
  <2> HIDE DEF p
  <2>4. /\ r \in CallRecord /\ r.stage = "store" /\ r.kind = cloudCalls[c].kind /\ r.key = cloudCalls[c].key
        /\ r.limits = cloudCalls[c].limits /\ r.record = cloudCalls[c].record
    BY <2>2 DEF CallRecord
  <2>5. r.key \in checkedKeys /\ cloudCalls[c].stage = "list"
    BY <1>7, <2>4 DEF ListGpus, At, CloudInv, CallsAreEarned
  <2> HIDE DEF r
  <2>6. QED
    BY <1>1, <1>2, <1>3, <2>3, <2>4, <2>5, StepKeeps
<1>8. CASE StoreCloudKey(c) /\ StepCloudCall(c, ToStage(c, "save"))
  <2> DEFINE r == ToStage(c, "save")
  <2>1. /\ r \in CallRecord /\ r.stage = "save" /\ r.kind = cloudCalls[c].kind /\ r.key = cloudCalls[c].key
        /\ r.limits = cloudCalls[c].limits /\ r.record = cloudCalls[c].record /\ StepCloudCall(c, r)
    BY <1>8, StagedFacts DEF CloudStage
  <2>2. r.key \in checkedKeys /\ cloudCalls[c].stage = "store"
    BY <1>8, <2>1 DEF StoreCloudKey, At, CloudInv, CallsAreEarned
  <2> HIDE DEF r
  <2>3. QED
    BY <1>1, <1>2, <1>3, <2>1, <2>2, StepKeeps
<1>9. CASE RemoveCloudKey(c) /\ StepCloudCall(c, ToStage(c, "load"))
  <2> DEFINE r == ToStage(c, "load")
  <2>1. /\ r \in CallRecord /\ r.stage = "load" /\ r.kind = cloudCalls[c].kind
        /\ r.limits = cloudCalls[c].limits /\ r.record = cloudCalls[c].record /\ StepCloudCall(c, r)
    BY <1>9, StagedFacts DEF CloudStage
  <2>2. r.kind = "disconnect"
    BY <1>9, <2>1 DEF RemoveCloudKey, At
  <2> HIDE DEF r
  <2>3. QED
    BY <1>1, <1>2, <1>3, <2>1, <2>2, StepKeeps
<1>10. QED
  BY <1>4, <1>6, <1>7, <1>8, <1>9 DEF StoreCloudKey, RemoveCloudKey

(* The record that is written back carries limits that were saved; without *)
(* leaving the panel they are the ones on disk, or the new ones.           *)
LEMMA SaveKeeps ==
  ASSUME CloudInv, NEW c \in CloudCall, SaveCloudRecord(c)
  PROVE  CloudInv'
<1> DEFINE call == cloudCalls[c]
<1>1. /\ call # UnusedCloudCall /\ EndCloudCall(c) /\ call.stage = "save"
      /\ call.kind \in {"connect", "disconnect", "limits"}
      /\ UNCHANGED <<cloudVault, checkedKeys, keyRemoved>> /\ cloudLeft' = cloudLeft
  BY StageIsUsed DEF SaveCloudRecord, At, EndCloudCall
<1>2. /\ call.record \in CloudRecord /\ call.record.account \in Accepted
      /\ call.record.limits # "none" => savedLimits # "none"
      /\ call.kind = "connect" => call.key \in checkedKeys
      /\ call.kind = "limits" => call.limits \in Limits
      /\ ~cloudLeft => call.record = cloudRecord
      /\ call.gpus \in BOOLEAN /\ checkedKeys \subseteq CloudKey
      /\ savedLimits \in Limits \cup {"none"}
  BY <1>1 DEF CloudInv, CloudTypeOK, CallsAreEarned, OneCallAtATime
<1>3. CASE UNCHANGED <<cloudRecord, savedLimits>>
  <2>1. FilesAreEarned' /\ LimitsAreTheLastSaved'
    BY <1>1, <1>3 DEF CloudInv, FilesAreEarned, LimitsAreTheLastSaved, Accepted
  <2>2. QED
    BY <1>1, <1>3, <2>1, EndKeeps DEF CloudInv, CloudTypeOK
<1>4. CASE /\ cloudRecord' = CloudWrite(call)
           /\ savedLimits' = IF call.kind = "limits" THEN call.limits ELSE savedLimits
  <2>1. \A g \in BOOLEAN, k \in CloudKey \cup {"none"} :
          LET r == [call.record EXCEPT !.account = k, !.gpus = g]
          IN  r \in CloudRecord /\ r.account = k /\ r.limits = call.record.limits
    BY <1>2 DEF CloudRecord
  <2>2. \A g \in Limits :
          LET r == [call.record EXCEPT !.limits = g]
          IN  r \in CloudRecord /\ r.account = call.record.account /\ r.limits = g
    BY <1>2 DEF CloudRecord
  <2>3. CASE call.kind = "connect"
    <3>1. cloudRecord' = [call.record EXCEPT !.account = call.key, !.gpus = call.gpus] /\ savedLimits' = savedLimits
      BY <1>4, <2>3 DEF CloudWrite
    <3>2. cloudRecord' \in CloudRecord /\ cloudRecord'.account \in Accepted /\ cloudRecord'.limits = call.record.limits
      BY <1>2, <2>1, <2>3, <3>1 DEF Accepted
    <3>3. FilesAreEarned' /\ LimitsAreTheLastSaved'
      BY <1>1, <1>2, <3>1, <3>2 DEF CloudInv, FilesAreEarned, LimitsAreTheLastSaved, Accepted
    <3>4. QED
      BY <1>1, <1>2, <3>1, <3>2, <3>3, EndKeeps DEF CloudInv, CloudTypeOK
  <2>4. CASE call.kind = "disconnect"
    <3>1. cloudRecord' = [call.record EXCEPT !.account = "none", !.gpus = FALSE] /\ savedLimits' = savedLimits
      BY <1>4, <2>4 DEF CloudWrite
    <3>2. cloudRecord' \in CloudRecord /\ cloudRecord'.account \in Accepted /\ cloudRecord'.limits = call.record.limits
      BY <1>2, <2>1, <3>1 DEF Accepted
    <3>3. FilesAreEarned' /\ LimitsAreTheLastSaved'
      BY <1>1, <1>2, <3>1, <3>2 DEF CloudInv, FilesAreEarned, LimitsAreTheLastSaved, Accepted
    <3>4. QED
      BY <1>1, <1>2, <3>1, <3>2, <3>3, EndKeeps DEF CloudInv, CloudTypeOK
  <2>5. CASE call.kind = "limits"
    <3>1. cloudRecord' = [call.record EXCEPT !.limits = call.limits] /\ savedLimits' = call.limits
      BY <1>4, <2>5 DEF CloudWrite
    <3>2. /\ cloudRecord' \in CloudRecord /\ cloudRecord'.account \in Accepted /\ cloudRecord'.limits = call.limits
          /\ savedLimits' \in Limits /\ savedLimits' # "none"
      BY <1>2, <2>2, <2>5, <3>1, CloudAssumption
    <3>3. FilesAreEarned' /\ LimitsAreTheLastSaved'
      BY <1>1, <1>2, <3>1, <3>2 DEF CloudInv, FilesAreEarned, LimitsAreTheLastSaved, Accepted
    <3>4. QED
      BY <1>1, <1>2, <3>1, <3>2, <3>3, EndKeeps DEF CloudInv, CloudTypeOK
  <2>6. QED
    BY <1>1, <2>3, <2>4, <2>5
<1>5. QED
  BY <1>3, <1>4 DEF SaveCloudRecord

(* Leaving the panel, and a restart.                                       *)
LEMMA ReopenKeeps ==
  ASSUME CloudInv, ReopenCloudPanel \/ RestartCloud
  PROVE  CloudInv'
<1>1. CASE ReopenCloudPanel
  BY <1>1 DEF ReopenCloudPanel, CloudInv, CloudTypeOK, FilesAreEarned, CallsAreEarned, OneCallAtATime,
     LimitsAreTheLastSaved, Accepted, At
<1>2. CASE RestartCloud
  <2>1. CloudTypeOK'
    BY <1>2, UnusedFacts DEF RestartCloud, CloudInv, CloudTypeOK, CallRecord
  <2>2. CallsAreEarned' /\ OneCallAtATime'
    BY <1>2, UnusedFacts DEF RestartCloud, CallsAreEarned, OneCallAtATime, Accepted, At
  <2>3. FilesAreEarned' /\ LimitsAreTheLastSaved'
    BY <1>2 DEF RestartCloud, CloudInv, FilesAreEarned, LimitsAreTheLastSaved, Accepted
  <2>4. QED
    BY <2>1, <2>2, <2>3 DEF CloudInv
<1>3. QED
  BY <1>1, <1>2

(* The invariant of files and calls holds in every reachable state.        *)
THEOREM CloudInvariance == CloudSpec => []CloudInv
<1>1. ASSUME CloudInv, [CloudNext]_cloudVars PROVE CloudInv'
  <2>1. CASE UNCHANGED cloudVars
    BY <1>1, <2>1 DEF cloudVars, CloudInv, CloudTypeOK, FilesAreEarned, CallsAreEarned, OneCallAtATime,
       LimitsAreTheLastSaved, Accepted, At
  <2>2. CASE CloudNext
    BY <1>1, <2>2, ClicksKeep, KeyAwaitsKeep, RecordAwaitsKeep, SaveKeeps, ReopenKeeps DEF CloudNext
  <2>3. QED
    BY <1>1, <2>1, <2>2
<1>2. QED
  BY <1>1, CloudInitially, PTL DEF CloudSpec

(* Whatever is interleaved, refused, restarted or left: paid generation is *)
(* unlocked only by an accepted key and limits the user saved.             *)
THEOREM ReadinessIsEarned == CloudSpec => []ReadyWasEarned
<1>1. CloudInv => ReadyWasEarned
  BY DEF CloudInv, FilesAreEarned, Accepted, ReadyWasEarned, GenerationReady, CloudConnected
<1>2. QED
  BY <1>1, CloudInvariance, PTL

(* While the user stays on the panel the limits on disk are the ones last  *)
(* saved.                                                                  *)
THEOREM SavedLimitsStay == CloudSpec => []LimitsAreTheLastSaved
<1>1. CloudInv => LimitsAreTheLastSaved
  BY DEF CloudInv
<1>2. QED
  BY <1>1, CloudInvariance, PTL

(* Once the key was removed and no other entered, the vault is empty and   *)
(* no call on its way holds a key: a refresh has read none.                *)
RemovalHolds ==
  ~ cloudLeft /\ keyRemoved =>
    /\ cloudVault = "none"
    /\ \A c \in CloudCall : cloudCalls[c].kind = "connect" => cloudCalls[c].stage = "has"

LEMMA RemovalStep ==
  ASSUME CloudInv, RemovalHolds, [CloudNext]_cloudVars
  PROVE  RemovalHolds'
<1> SUFFICES ASSUME ~ cloudLeft', keyRemoved'
             PROVE  /\ cloudVault' = "none"
                    /\ \A c \in CloudCall : cloudCalls'[c].kind = "connect" => cloudCalls'[c].stage = "has"
  BY DEF RemovalHolds
<1> DEFINE Fine(call) == call.kind = "connect" => call.stage = "has"
<1>1. /\ cloudCalls \in [CloudCall -> CallRecord]
      /\ UnusedCloudCall \in CallRecord /\ UnusedCloudCall.kind = "none"
  BY UnusedFacts DEF CloudInv, CloudTypeOK, CallRecord
<1>2. ~ cloudLeft
  BY DEF CloudNext, cloudVars, ClickConnect, ClickSaveLimits, ClickRefresh, ClickDisconnect, FindCloudKey,
     ReadCloudKey, ValidateAccount, LoadCloudRecord, ListGpus, StoreCloudKey, RemoveCloudKey, SaveCloudRecord,
     ReopenCloudPanel, RestartCloud, BeginCloudCall, StepCloudCall, EndCloudCall
<1>3. ASSUME NEW c \in CloudCall, NEW call \in CallRecord, cloudCalls' = [cloudCalls EXCEPT ![c] = call], Fine(call),
             \A b \in CloudCall : b # c => Fine(cloudCalls[b])
      PROVE  \A b \in CloudCall : Fine(cloudCalls'[b])
  BY <1>1, <1>3
<1>4. ASSUME keyRemoved, UNCHANGED cloudVault, NEW c \in CloudCall, NEW call \in CallRecord,
             cloudCalls' = [cloudCalls EXCEPT ![c] = call], Fine(call)
      PROVE  cloudVault' = "none" /\ \A b \in CloudCall : Fine(cloudCalls'[b])
  BY <1>2, <1>3, <1>4 DEF RemovalHolds
<1>5. ASSUME keyRemoved, UNCHANGED cloudVault, NEW c \in CloudCall, EndCloudCall(c)
      PROVE  cloudVault' = "none" /\ \A b \in CloudCall : Fine(cloudCalls'[b])
  BY <1>1, <1>4, <1>5 DEF EndCloudCall
<1>6. ASSUME NEW c \in CloudCall, NEW k \in CloudKey, ClickConnect(c, k) PROVE FALSE
  BY <1>6 DEF ClickConnect
<1>7. ASSUME NEW c \in CloudCall, NEW g \in Limits, ClickSaveLimits(c, g)
      PROVE  cloudVault' = "none" /\ \A b \in CloudCall : Fine(cloudCalls'[b])
  <2> DEFINE call == [UnusedCloudCall EXCEPT !.kind = "limits", !.stage = "load", !.limits = g]
  <2>1. call \in CallRecord /\ call.kind = "limits"
    BY <1>1 DEF CallRecord, CloudStage
  <2>2. keyRemoved /\ UNCHANGED cloudVault /\ cloudCalls' = [cloudCalls EXCEPT ![c] = call]
    BY <1>7 DEF ClickSaveLimits, BeginCloudCall
  <2> HIDE DEF call
  <2>3. QED
    BY <1>4, <2>1, <2>2
<1>8. ASSUME NEW c \in CloudCall, ClickRefresh(c)
      PROVE  cloudVault' = "none" /\ \A b \in CloudCall : Fine(cloudCalls'[b])
  <2> DEFINE call == [UnusedCloudCall EXCEPT !.kind = "connect", !.stage = "has"]
  <2>1. call \in CallRecord /\ call.stage = "has"
    BY <1>1 DEF CallRecord, CloudStage
  <2>2. keyRemoved /\ UNCHANGED cloudVault /\ cloudCalls' = [cloudCalls EXCEPT ![c] = call]
    BY <1>8 DEF ClickRefresh, BeginCloudCall
  <2> HIDE DEF call
  <2>3. QED
    BY <1>4, <2>1, <2>2
<1>9. ASSUME NEW c \in CloudCall, ClickDisconnect(c)
      PROVE  cloudVault' = "none" /\ \A b \in CloudCall : Fine(cloudCalls'[b])
  <2> DEFINE call == [UnusedCloudCall EXCEPT !.kind = "disconnect", !.stage = "remove"]
  <2>1. call \in CallRecord /\ call.kind = "disconnect"
    BY <1>1 DEF CallRecord, CloudStage
  <2>2. keyRemoved /\ UNCHANGED cloudVault /\ cloudCalls' = [cloudCalls EXCEPT ![c] = call]
    BY <1>9 DEF ClickDisconnect, BeginCloudCall
  <2> HIDE DEF call
  <2>3. QED
    BY <1>4, <2>1, <2>2
<1>10. ASSUME NEW c \in CloudCall,
              \/ FindCloudKey(c) \/ ReadCloudKey(c) \/ ValidateAccount(c) \/ ListGpus(c) \/ StoreCloudKey(c)
       PROVE  cloudVault' = "none" /\ \A b \in CloudCall : Fine(cloudCalls'[b])
  <2>1. keyRemoved /\ cloudCalls[c].kind = "connect"
    BY <1>10 DEF FindCloudKey, ReadCloudKey, ValidateAccount, ListGpus, StoreCloudKey, At
  <2>2. cloudVault = "none" /\ cloudCalls[c].stage = "has"
    BY <1>2, <2>1 DEF RemovalHolds
  <2>3. FindCloudKey(c)
    BY <1>10, <2>2 DEF ReadCloudKey, ValidateAccount, ListGpus, StoreCloudKey, At
  <2>4. EndCloudCall(c) /\ UNCHANGED cloudVault
    BY <2>2, <2>3 DEF FindCloudKey
  <2>5. QED
    BY <1>5, <2>1, <2>4
<1>11. ASSUME NEW c \in CloudCall, LoadCloudRecord(c)
       PROVE  cloudVault' = "none" /\ \A b \in CloudCall : Fine(cloudCalls'[b])
  <2> DEFINE call == [ToStage(c, "save") EXCEPT !.record = cloudRecord]
  <2>1. keyRemoved /\ UNCHANGED cloudVault /\ cloudCalls[c].stage = "load" /\ cloudCalls[c] \in CallRecord
        /\ cloudRecord \in CloudRecord
    BY <1>1, <1>11 DEF LoadCloudRecord, At, CloudInv, CloudTypeOK
  <2>2. cloudCalls[c].kind # "connect"
    BY <1>2, <2>1 DEF RemovalHolds
  <2>3. call \in CallRecord /\ call.kind # "connect"
    BY <2>1, <2>2 DEF ToStage, CallRecord, CloudStage
  <2>4. cloudCalls' = [cloudCalls EXCEPT ![c] = call]
    BY <1>11, <2>2 DEF LoadCloudRecord, StepCloudCall
  <2> HIDE DEF call
  <2>5. QED
    BY <1>4, <2>1, <2>3, <2>4
<1>12. ASSUME NEW c \in CloudCall, RemoveCloudKey(c)
       PROVE  cloudVault' = "none" /\ \A b \in CloudCall : Fine(cloudCalls'[b])
  <2>1. CASE EndCloudCall(c) /\ UNCHANGED <<cloudVault, keyRemoved>>
    BY <1>5, <2>1
  <2>2. CASE cloudVault' = "none" /\ StepCloudCall(c, ToStage(c, "load"))
    <3> DEFINE call == ToStage(c, "load")
    <3>1. cloudCalls[c] \in CallRecord /\ cloudCalls[c].kind = "disconnect" /\ cloudCalls[c].stage = "remove"
      BY <1>1, <1>12 DEF RemoveCloudKey, At
    <3>2. call \in CallRecord /\ call.kind # "connect"
      BY <3>1 DEF ToStage, CallRecord, CloudStage
    <3>3. cloudCalls' = [cloudCalls EXCEPT ![c] = call]
      BY <2>2 DEF StepCloudCall
    <3>4. cloudCalls[c] # UnusedCloudCall
      BY <1>1, <3>1
    <3>5. \A b \in CloudCall : b # c => cloudCalls[b] = UnusedCloudCall
      BY <1>2, <3>4 DEF CloudInv, OneCallAtATime
    <3> HIDE DEF call
    <3>6. QED
      BY <1>1, <1>3, <2>2, <3>2, <3>3, <3>5
  <2>3. QED
    BY <1>12, <2>1, <2>2 DEF RemoveCloudKey
<1>13. ASSUME NEW c \in CloudCall, SaveCloudRecord(c)
       PROVE  cloudVault' = "none" /\ \A b \in CloudCall : Fine(cloudCalls'[b])
  BY <1>5, <1>13 DEF SaveCloudRecord
<1>14. CASE RestartCloud
  BY <1>1, <1>2, <1>14 DEF RestartCloud, RemovalHolds
<1>15. CASE UNCHANGED cloudVars
  BY <1>2, <1>15 DEF cloudVars, RemovalHolds
<1>16. CASE ReopenCloudPanel
  BY <1>16 DEF ReopenCloudPanel
<1>17. QED
  BY <1>6, <1>7, <1>8, <1>9, <1>10, <1>11, <1>12, <1>13, <1>14, <1>15, <1>16 DEF CloudNext

(* While the user stays on the panel, a key that disconnect removed stays  *)
(* removed until the user enters one: no refresh brings it back.           *)
THEOREM RemovedKeyStays == CloudSpec => []KeyStaysRemovedOnPanel
<1>1. CloudInit => RemovalHolds
  BY DEF CloudInit, RemovalHolds
<1>2. RemovalHolds => KeyStaysRemovedOnPanel
  BY DEF RemovalHolds, KeyStaysRemovedOnPanel, RemovedKeyStaysRemoved
<1>3. QED
  BY <1>1, <1>2, RemovalStep, CloudInvariance, PTL DEF CloudSpec

-----------------------------------------------------------------------------
(* WritingSettings.  The key in the vault was accepted by its provider.    *)

WritingCallRecord ==
  [kind : {"none", "connect", "disconnect", "enable", "profile"}, stage : WritingStage,
   provider : Provider \cup {"none"}, key : WritingKey \cup {"none"},
   previous : WritingKey \cup {"none"}, models : SUBSET Model, enabled : BOOLEAN,
   model : Model \cup {"none"}, record : WritingRecord]

(* A key passes the model list before its call reaches the vault, and the  *)
(* key it would put back had passed it before.                             *)
KeyPassed(call) == <<call.provider, call.key>> \in acceptedKeys

CallKnows(call) ==
  /\ call.stage # "unused" => call.provider \in Provider
  /\ call.kind = "profile" => call.model \in Model
  /\ call.kind = "connect" /\ call.stage = "models" => call.key \in WritingKey
  /\ call.kind = "connect" /\ call.stage \in {"load", "previous", "store", "save", "undo"} => KeyPassed(call)
  /\ call.kind = "connect" /\ call.stage \in {"store", "save", "undo"} /\ call.previous # "none" =>
       <<call.provider, call.previous>> \in acceptedKeys

WritingInv ==
  /\ WritingTypeOK /\ ActiveKeyWasAccepted
  /\ \A c \in WritingCall : CallKnows(writingCalls[c])

LEMMA UnusedWritingFacts ==
  /\ DefaultWritingRecord \in WritingRecord
  /\ UnusedWritingCall \in WritingCallRecord
  /\ UnusedWritingCall.stage = "unused" /\ UnusedWritingCall.kind = "none"
<1>1. DefaultProvider \in ProviderEntry
  BY DEF DefaultProvider, ProviderEntry
<1>2. DefaultWritingRecord \in WritingRecord
  BY <1>1 DEF DefaultWritingRecord, WritingRecord
<1>3. UnusedWritingCall \in WritingCallRecord
  BY <1>2 DEF UnusedWritingCall, WritingCallRecord, WritingStage
<1>4. QED
  BY <1>2, <1>3 DEF UnusedWritingCall

LEMMA WritingInitially == WritingInit => WritingInv
<1> SUFFICES ASSUME WritingInit PROVE WritingInv
  OBVIOUS
<1>1. WritingTypeOK
  <2>1. writingCalls \in [WritingCall -> WritingCallRecord]
    BY UnusedWritingFacts DEF WritingInit
  <2>2. writingLeft \in BOOLEAN
    BY Zenon DEF WritingInit
  <2>3. QED
    BY <2>1, <2>2, UnusedWritingFacts DEF WritingInit, WritingTypeOK, WritingCallRecord
<1>2. \A c \in WritingCall : CallKnows(writingCalls[c])
  BY UnusedWritingFacts DEF WritingInit, CallKnows
<1>3. QED
  BY <1>1, <1>2 DEF WritingInit, WritingInv, ActiveKeyWasAccepted

(* A step that leaves vault and settings alone and moves one call to a     *)
(* record that knows what its stage promises.                              *)
LEMMA CallMoves ==
  ASSUME WritingInv, NEW c \in WritingCall, NEW call \in WritingCallRecord,
         writingCalls' = [writingCalls EXCEPT ![c] = call], CallKnows(call)',
         writingBusy' \in WritingCall \cup {"none"}, writingLeft' \in BOOLEAN,
         writingRecord' \in WritingRecord,
         writingVault' \in [Provider -> WritingKey \cup {"none"}], ActiveKeyWasAccepted',
         acceptedKeys \subseteq acceptedKeys', acceptedKeys' \subseteq Provider \X WritingKey
  PROVE  WritingInv'
<1>1. writingCalls \in [WritingCall -> WritingCallRecord]
  BY DEF WritingInv, WritingTypeOK, WritingCallRecord
<1>2. \A d \in WritingCall : writingCalls'[d] = IF d = c THEN call ELSE writingCalls[d]
  BY <1>1
<1>3. writingCalls' \in [WritingCall -> WritingCallRecord]
  BY <1>1
<1>4. WritingTypeOK'
  BY <1>3 DEF WritingTypeOK, WritingCallRecord
<1>5. \A d \in WritingCall : CallKnows(writingCalls[d])'
  BY <1>2 DEF WritingInv, CallKnows, KeyPassed
<1>6. QED
  BY <1>4, <1>5 DEF WritingInv

LEMMA CallEnds ==
  ASSUME WritingInv, NEW c \in WritingCall, EndWritingCall(c),
         writingRecord' \in WritingRecord,
         writingVault' \in [Provider -> WritingKey \cup {"none"}], ActiveKeyWasAccepted',
         UNCHANGED acceptedKeys
  PROVE  WritingInv'
<1>1. CallKnows(UnusedWritingCall)'
  BY UnusedWritingFacts DEF CallKnows
<1>2. writingBusy' \in WritingCall \cup {"none"} /\ writingLeft' \in BOOLEAN
      /\ acceptedKeys' \subseteq Provider \X WritingKey
  BY DEF EndWritingCall, WritingInv, WritingTypeOK
<1>3. QED
  BY <1>1, <1>2, UnusedWritingFacts, CallMoves DEF EndWritingCall

LEMMA WritingWritten ==
  ASSUME NEW call \in WritingCallRecord, CallKnows(call), call.stage = "save",
         call.kind \in {"connect", "disconnect", "enable", "profile"}
  PROVE  WritingWrite(call) \in WritingRecord
<1>1. call.provider \in Provider /\ call.record \in WritingRecord /\ call.models \in SUBSET Model
      /\ call.enabled \in BOOLEAN
  BY DEF CallKnows, WritingCallRecord
<1>2. \A entry \in ProviderEntry : \A profile \in {NoDefault} \cup [provider : Provider, model : Model] :
        [call.record EXCEPT !.providers[call.provider] = entry, !.profile = profile] \in WritingRecord
  <2> SUFFICES ASSUME NEW entry \in ProviderEntry,
                      NEW profile \in {NoDefault} \cup [provider : Provider, model : Model]
               PROVE  [call.record EXCEPT !.providers[call.provider] = entry, !.profile = profile] \in WritingRecord
    OBVIOUS
  <2>1. PICK all : all = [call.record.providers EXCEPT ![call.provider] = entry]
    OBVIOUS
  <2>2. all \in [Provider -> ProviderEntry]
    BY <1>1, <2>1 DEF WritingRecord
  <2>3. [call.record EXCEPT !.providers = all, !.profile = profile] \in WritingRecord
    BY <1>1, <2>2 DEF WritingRecord
  <2>4. QED
    BY <1>1, <2>1, <2>3 DEF WritingRecord
<1>3. \A usable \in BOOLEAN : KeptProfile(call, usable) \in {NoDefault} \cup [provider : Provider, model : Model]
  BY <1>1 DEF KeptProfile, WritingRecord
<1>4. CASE call.kind = "connect"
  <2>1. [enabled |-> TRUE, models |-> call.models] \in ProviderEntry
    BY <1>1 DEF ProviderEntry
  <2>2. (call.record.profile.model \in call.models) \in BOOLEAN
    OBVIOUS
  <2>3. QED
    BY <1>2, <1>3, <1>4, <2>1, <2>2 DEF WritingWrite
<1>5. CASE call.kind = "disconnect"
  <2>1. DefaultProvider \in ProviderEntry /\ FALSE \in BOOLEAN
    BY DEF DefaultProvider, ProviderEntry
  <2>2. QED
    BY <1>2, <1>3, <1>5, <2>1 DEF WritingWrite
<1>6. CASE call.kind = "enable"
  <2>1. [call.record.providers[call.provider] EXCEPT !.enabled = call.enabled] \in ProviderEntry
    BY <1>1 DEF ProviderEntry, WritingRecord
  <2>2. QED
    BY <1>1, <1>2, <1>3, <1>6, <2>1 DEF WritingWrite
<1>7. CASE call.kind = "profile"
  <2>1. [provider |-> call.provider, model |-> call.model] \in [provider : Provider, model : Model]
    BY <1>1, <1>7 DEF CallKnows
  <2>2. PICK profile : profile = [provider |-> call.provider, model |-> call.model]
    OBVIOUS
  <2>3. WritingWrite(call) = [call.record EXCEPT !.profile = profile]
    BY <1>7, <2>2 DEF WritingWrite
  <2>4. QED
    BY <1>1, <2>1, <2>2, <2>3 DEF WritingRecord
<1>8. QED
  BY <1>4, <1>5, <1>6, <1>7

LEMMA WritingStep ==
  ASSUME WritingInv, [WritingNext]_writingVars
  PROVE  WritingInv'
<1>t. /\ WritingTypeOK /\ ActiveKeyWasAccepted
      /\ writingCalls \in [WritingCall -> WritingCallRecord]
      /\ writingVault \in [Provider -> WritingKey \cup {"none"}]
      /\ writingRecord \in WritingRecord /\ writingLeft \in BOOLEAN
      /\ writingBusy \in WritingCall \cup {"none"}
      /\ acceptedKeys \subseteq Provider \X WritingKey
      /\ \A c \in WritingCall : writingCalls[c] \in WritingCallRecord /\ CallKnows(writingCalls[c])
  BY DEF WritingInv, WritingTypeOK, WritingCallRecord
<1>u. UNCHANGED <<writingVault, writingRecord, acceptedKeys>> =>
        /\ writingVault' \in [Provider -> WritingKey \cup {"none"}] /\ writingRecord' \in WritingRecord
        /\ acceptedKeys \subseteq acceptedKeys' /\ acceptedKeys' \subseteq Provider \X WritingKey
        /\ ActiveKeyWasAccepted'
  BY <1>t DEF ActiveKeyWasAccepted
<1>b. ASSUME NEW c \in WritingCall, NEW call \in WritingCallRecord, BeginWritingCall(c, call), CallKnows(call)'
      PROVE  WritingInv'
  BY <1>b, <1>t, <1>u, CallMoves DEF BeginWritingCall
<1>s. ASSUME NEW c \in WritingCall, NEW call \in WritingCallRecord, StepWritingCall(c, call), CallKnows(call)',
             UNCHANGED <<writingVault, writingRecord, acceptedKeys>>
      PROVE  WritingInv'
  BY <1>s, <1>t, <1>u, CallMoves DEF StepWritingCall
<1>e. ASSUME NEW c \in WritingCall, EndWritingCall(c), UNCHANGED <<writingVault, writingRecord, acceptedKeys>>
      PROVE  WritingInv'
  BY <1>e, <1>t, <1>u, CallEnds
<1>1. ASSUME NEW c \in WritingCall, NEW p \in Provider, NEW k \in WritingKey, ConnectProvider(c, p, k)
      PROVE  WritingInv'
  <2>1. PICK call : call = [UnusedWritingCall EXCEPT !.kind = "connect", !.stage = "models", !.provider = p, !.key = k]
    OBVIOUS
  <2>2. call \in WritingCallRecord /\ call.kind = "connect" /\ call.stage = "models" /\ call.provider = p /\ call.key = k
    BY <2>1, UnusedWritingFacts DEF WritingCallRecord, WritingStage
  <2>3. CallKnows(call)'
    BY <2>2 DEF CallKnows
  <2>4. QED
    BY <1>1, <1>b, <2>1, <2>2, <2>3 DEF ConnectProvider
<1>2. ASSUME NEW c \in WritingCall, NEW p \in Provider, RefreshProvider(c, p) PROVE WritingInv'
  <2>1. PICK call : call = [UnusedWritingCall EXCEPT !.kind = "connect", !.stage = "has", !.provider = p]
    OBVIOUS
  <2>2. call \in WritingCallRecord /\ call.kind = "connect" /\ call.stage = "has" /\ call.provider = p
    BY <2>1, UnusedWritingFacts DEF WritingCallRecord, WritingStage
  <2>3. CallKnows(call)'
    BY <2>2 DEF CallKnows
  <2>4. QED
    BY <1>2, <1>b, <2>1, <2>2, <2>3 DEF RefreshProvider
<1>3. ASSUME NEW c \in WritingCall, NEW p \in Provider, DisconnectProvider(c, p) PROVE WritingInv'
  <2>1. PICK call : call = [UnusedWritingCall EXCEPT !.kind = "disconnect", !.stage = "remove", !.provider = p]
    OBVIOUS
  <2>2. call \in WritingCallRecord /\ call.kind = "disconnect" /\ call.stage = "remove" /\ call.provider = p
    BY <2>1, UnusedWritingFacts DEF WritingCallRecord, WritingStage
  <2>3. CallKnows(call)'
    BY <2>2 DEF CallKnows
  <2>4. QED
    BY <1>3, <1>b, <2>1, <2>2, <2>3 DEF DisconnectProvider
<1>4. ASSUME NEW c \in WritingCall, NEW p \in Provider, NEW on \in BOOLEAN, SetProviderEnabled(c, p, on)
      PROVE  WritingInv'
  <2>1. PICK call : call = [UnusedWritingCall EXCEPT !.kind = "enable", !.stage = "has", !.provider = p, !.enabled = on]
    OBVIOUS
  <2>2. call \in WritingCallRecord /\ call.kind = "enable" /\ call.stage = "has" /\ call.provider = p
    BY <2>1, UnusedWritingFacts DEF WritingCallRecord, WritingStage
  <2>3. CallKnows(call)'
    BY <2>2 DEF CallKnows
  <2>4. QED
    BY <1>4, <1>b, <2>1, <2>2, <2>3 DEF SetProviderEnabled
<1>5. ASSUME NEW c \in WritingCall, NEW p \in Provider, NEW m \in Model, SaveDefaultProfile(c, p, m)
      PROVE  WritingInv'
  <2>1. PICK call : call = [UnusedWritingCall EXCEPT !.kind = "profile", !.stage = "status", !.provider = p, !.model = m]
    OBVIOUS
  <2>2. call \in WritingCallRecord /\ call.kind = "profile" /\ call.stage = "status" /\ call.provider = p /\ call.model = m
    BY <2>1, UnusedWritingFacts DEF WritingCallRecord, WritingStage
  <2>3. CallKnows(call)'
    BY <2>2 DEF CallKnows
  <2>4. QED
    BY <1>5, <1>b, <2>1, <2>2, <2>3 DEF SaveDefaultProfile
<1>o. \A c \in WritingCall : \A s \in WritingStage :
        /\ OnTo(c, s) \in WritingCallRecord
        /\ OnTo(c, s).stage = s /\ OnTo(c, s).kind = writingCalls[c].kind
        /\ OnTo(c, s).provider = writingCalls[c].provider /\ OnTo(c, s).key = writingCalls[c].key
        /\ OnTo(c, s).previous = writingCalls[c].previous /\ OnTo(c, s).model = writingCalls[c].model
  BY <1>t DEF OnTo, WritingCallRecord
(* A call that only moves to another stage, and knows enough for it.       *)
<1>m. ASSUME NEW c \in WritingCall, NEW s \in WritingStage, StepWritingCall(c, OnTo(c, s)),
             UNCHANGED <<writingVault, writingRecord, acceptedKeys>>,
             writingCalls[c].stage # "unused",
             writingCalls[c].kind = "connect" =>
               /\ s = "models" => writingCalls[c].key \in WritingKey
               /\ s \in {"load", "previous", "store", "save", "undo"} => KeyPassed(writingCalls[c])
               /\ s \in {"store", "save", "undo"} /\ writingCalls[c].previous # "none" =>
                    <<writingCalls[c].provider, writingCalls[c].previous>> \in acceptedKeys
      PROVE  WritingInv'
  <2>1. PICK call : call = OnTo(c, s)
    OBVIOUS
  <2>2. call \in WritingCallRecord /\ StepWritingCall(c, call)
    BY <1>m, <1>o, <2>1
  <2>3. CallKnows(call)'
    BY <1>m, <1>o, <1>t, <2>1 DEF CallKnows, KeyPassed
  <2>4. QED
    BY <1>m, <1>s, <2>2, <2>3
<1>6. ASSUME NEW c \in WritingCall, FindProviderKey(c) PROVE WritingInv'
  <2>1. /\ writingCalls[c].kind \in {"connect", "enable"} /\ writingCalls[c].stage = "has"
        /\ UNCHANGED <<writingVault, writingRecord, acceptedKeys>>
    BY <1>6 DEF FindProviderKey, In
  <2>2. CASE EndWritingCall(c)
    BY <1>e, <2>1, <2>2
  <2>3. CASE writingCalls[c].kind = "enable" /\ StepWritingCall(c, OnTo(c, "load"))
    BY <1>m, <2>1, <2>3 DEF WritingStage
  <2>4. CASE writingCalls[c].kind # "enable" /\ StepWritingCall(c, OnTo(c, "read"))
    BY <1>m, <2>1, <2>4 DEF WritingStage
  <2>5. QED
    BY <1>6, <2>2, <2>3, <2>4 DEF FindProviderKey
<1>7. ASSUME NEW c \in WritingCall, ReadProviderKey(c) PROVE WritingInv'
  <2>1. /\ writingCalls[c].kind = "connect" /\ writingCalls[c].stage = "read"
        /\ UNCHANGED <<writingVault, writingRecord, acceptedKeys>>
        /\ writingCalls[c].provider \in Provider
    BY <1>7, <1>t DEF ReadProviderKey, In, CallKnows
  <2>2. PICK k : k = writingVault[writingCalls[c].provider]
    OBVIOUS
  <2>3. CASE k = "none"
    BY <1>7, <1>e, <2>1, <2>2, <2>3 DEF ReadProviderKey
  <2>4. CASE k # "none"
    <3>1. k \in WritingKey
      BY <1>t, <2>1, <2>2, <2>4
    <3>2. PICK call : call = [OnTo(c, "models") EXCEPT !.key = k]
      OBVIOUS
    <3>3. StepWritingCall(c, call)
      BY <1>7, <2>2, <2>4, <3>2 DEF ReadProviderKey
    <3>4. "models" \in WritingStage
      BY DEF WritingStage
    <3>5. PICK before : before = OnTo(c, "models")
      OBVIOUS
    <3>6. before \in WritingCallRecord /\ before.stage = "models" /\ before.kind = "connect"
          /\ before.provider = writingCalls[c].provider
      BY <1>o, <2>1, <3>4, <3>5
    <3>7. call \in WritingCallRecord /\ call.stage = "models" /\ call.kind = "connect" /\ call.key = k
          /\ call.provider = writingCalls[c].provider
      BY <3>1, <3>2, <3>5, <3>6 DEF WritingCallRecord
    <3>8. CallKnows(call)'
      BY <2>1, <3>1, <3>7 DEF CallKnows
    <3>9. QED
      BY <1>s, <2>1, <3>3, <3>7, <3>8
  <2>5. QED
    BY <2>3, <2>4
<1>8. ASSUME NEW c \in WritingCall, ListModels(c) PROVE WritingInv'
  <2>1. /\ writingCalls[c].kind = "connect" /\ writingCalls[c].stage = "models"
        /\ UNCHANGED <<writingVault, writingRecord>>
        /\ writingCalls[c].provider \in Provider /\ writingCalls[c].key \in WritingKey
    BY <1>8, <1>t DEF ListModels, In, CallKnows
  <2>2. CASE EndWritingCall(c) /\ UNCHANGED acceptedKeys
    BY <1>e, <2>1, <2>2
  <2>3. ASSUME NEW found \in SUBSET Model,
               StepWritingCall(c, [OnTo(c, "load") EXCEPT !.models = found]),
               acceptedKeys' = acceptedKeys \cup {<<writingCalls[c].provider, writingCalls[c].key>>}
        PROVE  WritingInv'
    <3>1. PICK before : before = OnTo(c, "load")
      OBVIOUS
    <3>2. before \in WritingCallRecord /\ before.stage = "load" /\ before.kind = "connect"
          /\ before.provider = writingCalls[c].provider /\ before.key = writingCalls[c].key
      BY <1>o, <2>1, <3>1 DEF WritingStage
    <3>3. PICK call : call = [before EXCEPT !.models = found]
      OBVIOUS
    <3>4. call \in WritingCallRecord /\ call.stage = "load" /\ call.kind = "connect"
          /\ call.provider = writingCalls[c].provider /\ call.key = writingCalls[c].key
      BY <3>2, <3>3 DEF WritingCallRecord
    <3>5. CallKnows(call)'
      BY <2>1, <2>3, <3>4 DEF CallKnows, KeyPassed
    <3>6. ActiveKeyWasAccepted'
      BY <1>t, <2>1, <2>3 DEF ActiveKeyWasAccepted
    <3>7. writingCalls' = [writingCalls EXCEPT ![c] = call] /\ UNCHANGED <<writingBusy, writingLeft>>
      BY <2>3, <3>1, <3>3 DEF StepWritingCall
    <3>8. acceptedKeys \subseteq acceptedKeys' /\ acceptedKeys' \subseteq Provider \X WritingKey
      BY <1>t, <2>1, <2>3
    <3>9. QED
      BY <1>t, <2>1, <3>4, <3>5, <3>6, <3>7, <3>8, CallMoves
  <2>4. QED
    BY <1>8, <2>2, <2>3 DEF ListModels
<1>9. ASSUME NEW c \in WritingCall, LoadWritingRecord(c) PROVE WritingInv'
  <2>1. /\ writingCalls[c].stage = "load"
        /\ UNCHANGED <<writingVault, writingRecord, acceptedKeys>>
    BY <1>9 DEF LoadWritingRecord, In
  <2>2. PICK s \in {"previous", "save"} : s = IF writingCalls[c].kind = "connect" THEN "previous" ELSE "save"
    OBVIOUS
  <2>3. PICK before : before = OnTo(c, s)
    OBVIOUS
  <2>4. before \in WritingCallRecord /\ before.stage = s /\ before.kind = writingCalls[c].kind
        /\ before.provider = writingCalls[c].provider /\ before.key = writingCalls[c].key
        /\ before.model = writingCalls[c].model
    BY <1>o, <2>3 DEF WritingStage
  <2>5. PICK call : call = [before EXCEPT !.record = writingRecord]
    OBVIOUS
  <2>6. call \in WritingCallRecord /\ call.stage = s /\ call.kind = writingCalls[c].kind
        /\ call.provider = writingCalls[c].provider /\ call.key = writingCalls[c].key
        /\ call.model = writingCalls[c].model
    BY <1>t, <2>4, <2>5 DEF WritingCallRecord
  <2>7. CallKnows(call)'
    BY <1>t, <2>1, <2>2, <2>6 DEF CallKnows, KeyPassed
  <2>8. StepWritingCall(c, call)
    BY <1>9, <2>2, <2>3, <2>5 DEF LoadWritingRecord
  <2>9. QED
    BY <1>s, <2>1, <2>6, <2>7, <2>8
<1>10. ASSUME NEW c \in WritingCall, ReadPreviousKey(c) PROVE WritingInv'
  <2>1. /\ writingCalls[c].kind = "connect" /\ writingCalls[c].stage = "previous"
        /\ UNCHANGED <<writingVault, writingRecord, acceptedKeys>>
        /\ writingCalls[c].provider \in Provider /\ KeyPassed(writingCalls[c])
    BY <1>10, <1>t DEF ReadPreviousKey, In, CallKnows
  <2>2. PICK k : k = writingVault[writingCalls[c].provider]
    OBVIOUS
  <2>3. k \in WritingKey \cup {"none"} /\ (k # "none" => <<writingCalls[c].provider, k>> \in acceptedKeys)
    BY <1>t, <2>1, <2>2 DEF ActiveKeyWasAccepted
  <2>4. PICK before : before = OnTo(c, "store")
    OBVIOUS
  <2>5. before \in WritingCallRecord /\ before.stage = "store" /\ before.kind = "connect"
        /\ before.provider = writingCalls[c].provider /\ before.key = writingCalls[c].key
    BY <1>o, <2>1, <2>4 DEF WritingStage
  <2>6. PICK call : call = [before EXCEPT !.previous = k]
    OBVIOUS
  <2>7. call \in WritingCallRecord /\ call.stage = "store" /\ call.kind = "connect" /\ call.previous = k
        /\ call.provider = writingCalls[c].provider /\ call.key = writingCalls[c].key
    BY <2>3, <2>5, <2>6 DEF WritingCallRecord
  <2>8. CallKnows(call)'
    BY <2>1, <2>3, <2>7 DEF CallKnows, KeyPassed
  <2>9. StepWritingCall(c, call)
    BY <1>10, <2>2, <2>4, <2>6 DEF ReadPreviousKey
  <2>10. QED
    BY <1>s, <2>1, <2>7, <2>8, <2>9
(* What the vault holds after one of its entries was written.              *)
<1>v. ASSUME NEW p \in Provider, NEW k \in WritingKey \cup {"none"}, UNCHANGED acceptedKeys,
             k # "none" => <<p, k>> \in acceptedKeys,
             writingVault' = [writingVault EXCEPT ![p] = k]
      PROVE  ActiveKeyWasAccepted' /\ writingVault' \in [Provider -> WritingKey \cup {"none"}]
  BY <1>t, <1>v DEF ActiveKeyWasAccepted
<1>11. ASSUME NEW c \in WritingCall, StoreProviderKey(c) PROVE WritingInv'
  <2>1. /\ writingCalls[c].kind = "connect" /\ writingCalls[c].stage = "store"
        /\ UNCHANGED <<writingRecord, acceptedKeys>>
        /\ writingCalls[c].provider \in Provider /\ KeyPassed(writingCalls[c])
    BY <1>11, <1>t DEF StoreProviderKey, In, CallKnows
  <2>2. CASE UNCHANGED writingVault /\ EndWritingCall(c)
    BY <1>e, <2>1, <2>2
  <2>3. CASE /\ writingVault' = [writingVault EXCEPT ![writingCalls[c].provider] = writingCalls[c].key]
             /\ StepWritingCall(c, OnTo(c, "save"))
    <3>1. writingCalls[c].key \in WritingKey \cup {"none"}
      BY <1>t DEF WritingCallRecord
    <3>2. ActiveKeyWasAccepted' /\ writingVault' \in [Provider -> WritingKey \cup {"none"}]
      BY <1>v, <2>1, <2>3, <3>1 DEF KeyPassed
    <3>3. PICK call : call = OnTo(c, "save")
      OBVIOUS
    <3>4. call \in WritingCallRecord /\ call.stage = "save" /\ call.kind = "connect"
          /\ call.provider = writingCalls[c].provider /\ call.key = writingCalls[c].key
          /\ call.previous = writingCalls[c].previous
      BY <1>o, <2>1, <3>3 DEF WritingStage
    <3>5. CallKnows(call)'
      BY <1>t, <2>1, <3>4 DEF CallKnows, KeyPassed
    <3>6. writingCalls' = [writingCalls EXCEPT ![c] = call] /\ UNCHANGED <<writingBusy, writingLeft>>
      BY <2>3, <3>3 DEF StepWritingCall
    <3>7. QED
      BY <1>t, <2>1, <3>2, <3>4, <3>5, <3>6, CallMoves
  <2>4. QED
    BY <1>11, <2>2, <2>3 DEF StoreProviderKey
<1>12. ASSUME NEW c \in WritingCall, RemoveProviderKey(c) PROVE WritingInv'
  <2>1. /\ writingCalls[c].kind = "disconnect" /\ writingCalls[c].stage = "remove"
        /\ UNCHANGED <<writingRecord, acceptedKeys>> /\ writingCalls[c].provider \in Provider
    BY <1>12, <1>t DEF RemoveProviderKey, In, CallKnows
  <2>2. CASE UNCHANGED writingVault /\ EndWritingCall(c)
    BY <1>e, <2>1, <2>2
  <2>3. CASE /\ writingVault' = [writingVault EXCEPT ![writingCalls[c].provider] = "none"]
             /\ StepWritingCall(c, OnTo(c, "load"))
    <3>1. ActiveKeyWasAccepted' /\ writingVault' \in [Provider -> WritingKey \cup {"none"}]
      BY <1>v, <2>1, <2>3
    <3>2. PICK call : call = OnTo(c, "load")
      OBVIOUS
    <3>3. call \in WritingCallRecord /\ call.stage = "load" /\ call.kind = "disconnect"
          /\ call.provider = writingCalls[c].provider
      BY <1>o, <2>1, <3>2 DEF WritingStage
    <3>4. CallKnows(call)'
      BY <2>1, <3>3 DEF CallKnows
    <3>5. writingCalls' = [writingCalls EXCEPT ![c] = call] /\ UNCHANGED <<writingBusy, writingLeft>>
      BY <2>3, <3>2 DEF StepWritingCall
    <3>6. QED
      BY <1>t, <2>1, <3>1, <3>3, <3>4, <3>5, CallMoves
  <2>4. QED
    BY <1>12, <2>2, <2>3 DEF RemoveProviderKey
<1>13. ASSUME NEW c \in WritingCall, CheckProfile(c) PROVE WritingInv'
  <2>1. /\ writingCalls[c].kind = "profile" /\ writingCalls[c].stage = "status"
        /\ UNCHANGED <<writingVault, writingRecord, acceptedKeys>>
        /\ EndWritingCall(c) \/ StepWritingCall(c, OnTo(c, "load"))
    BY <1>13 DEF CheckProfile, In
  <2>2. CASE EndWritingCall(c)
    BY <1>e, <2>1, <2>2
  <2>3. CASE StepWritingCall(c, OnTo(c, "load"))
    BY <1>m, <2>1, <2>3 DEF WritingStage
  <2>4. QED
    BY <2>1, <2>2, <2>3
<1>14. ASSUME NEW c \in WritingCall, SaveWritingRecord(c) PROVE WritingInv'
  <2>1. /\ writingCalls[c].kind \in {"connect", "disconnect", "enable", "profile"}
        /\ writingCalls[c].stage = "save" /\ UNCHANGED <<writingVault, acceptedKeys>>
    BY <1>14 DEF SaveWritingRecord, In
  <2>2. CASE writingRecord' = WritingWrite(writingCalls[c]) /\ EndWritingCall(c)
    <3>1. writingRecord' \in WritingRecord
      BY <1>t, <2>1, <2>2, WritingWritten
    <3>2. ActiveKeyWasAccepted'
      BY <1>t, <2>1 DEF ActiveKeyWasAccepted
    <3>3. QED
      BY <1>t, <2>1, <2>2, <3>1, <3>2, CallEnds
  <2>3. CASE UNCHANGED writingRecord /\ EndWritingCall(c)
    BY <1>e, <2>1, <2>3
  <2>4. CASE UNCHANGED writingRecord /\ writingCalls[c].kind = "connect" /\ StepWritingCall(c, OnTo(c, "undo"))
    BY <1>m, <1>t, <2>1, <2>4 DEF WritingStage, CallKnows
  <2>5. QED
    BY <1>14, <2>2, <2>3, <2>4 DEF SaveWritingRecord
<1>15. ASSUME NEW c \in WritingCall, RestorePreviousKey(c) PROVE WritingInv'
  <2>1. /\ writingCalls[c].kind = "connect" /\ writingCalls[c].stage = "undo"
        /\ UNCHANGED <<writingRecord, acceptedKeys>> /\ EndWritingCall(c)
        /\ writingCalls[c].provider \in Provider
    BY <1>15, <1>t DEF RestorePreviousKey, In, CallKnows
  <2>2. CASE UNCHANGED writingVault
    BY <1>e, <2>1, <2>2
  <2>3. CASE writingVault' = [writingVault EXCEPT ![writingCalls[c].provider] = writingCalls[c].previous]
    <3>1. /\ writingCalls[c].previous \in WritingKey \cup {"none"}
          /\ writingCalls[c].previous # "none" =>
               <<writingCalls[c].provider, writingCalls[c].previous>> \in acceptedKeys
      BY <1>t, <2>1 DEF WritingCallRecord, CallKnows
    <3>2. ActiveKeyWasAccepted' /\ writingVault' \in [Provider -> WritingKey \cup {"none"}]
      BY <1>v, <2>1, <2>3, <3>1
    <3>3. QED
      BY <1>t, <2>1, <3>2, CallEnds
  <2>4. QED
    BY <1>15, <2>2, <2>3 DEF RestorePreviousKey
<1>16. ASSUME ReopenWritingPanel PROVE WritingInv'
  <2>1. UNCHANGED <<writingVault, writingRecord, writingCalls, acceptedKeys>>
        /\ writingBusy' = "none" /\ writingLeft' \in BOOLEAN
    BY <1>16, Zenon DEF ReopenWritingPanel
  <2>2. WritingTypeOK' /\ ActiveKeyWasAccepted'
    BY <1>t, <2>1 DEF WritingTypeOK, ActiveKeyWasAccepted
  <2>3. \A c \in WritingCall : CallKnows(writingCalls[c])'
    BY <1>t, <2>1 DEF CallKnows, KeyPassed
  <2>4. QED
    BY <2>2, <2>3 DEF WritingInv
<1>17. ASSUME RestartWriting PROVE WritingInv'
  <2>1. UNCHANGED <<writingLeft, writingVault, writingRecord, acceptedKeys>>
        /\ writingBusy' = "none" /\ writingCalls' = [c \in WritingCall |-> UnusedWritingCall]
    BY <1>17 DEF RestartWriting
  <2>2. writingCalls' \in [WritingCall -> WritingCallRecord]
    BY <2>1, UnusedWritingFacts
  <2>3. WritingTypeOK' /\ ActiveKeyWasAccepted'
    BY <1>t, <2>1, <2>2 DEF WritingTypeOK, ActiveKeyWasAccepted, WritingCallRecord
  <2>4. \A c \in WritingCall : CallKnows(writingCalls[c])'
    BY <2>1, UnusedWritingFacts DEF CallKnows
  <2>5. QED
    BY <2>3, <2>4 DEF WritingInv
<1>18. CASE UNCHANGED writingVars
  <2>1. WritingTypeOK' /\ ActiveKeyWasAccepted'
    BY <1>18, <1>t DEF WritingTypeOK, ActiveKeyWasAccepted, writingVars
  <2>2. \A c \in WritingCall : CallKnows(writingCalls[c])'
    BY <1>18, <1>t DEF CallKnows, KeyPassed, writingVars
  <2>3. QED
    BY <2>1, <2>2 DEF WritingInv
<1>19. QED
  BY <1>1, <1>2, <1>3, <1>4, <1>5, <1>6, <1>7, <1>8, <1>9, <1>10, <1>11, <1>12, <1>13, <1>14, <1>15, <1>16,
     <1>17, <1>18 DEF WritingNext

(* However calls overlap and whatever they leave behind, the key in the    *)
(* vault of a provider is one that the provider's model list accepted.     *)
THEOREM WritingActiveKeyWasAccepted == WritingSpec => []ActiveKeyWasAccepted
<1>1. WritingInv => ActiveKeyWasAccepted
  BY DEF WritingInv
<1>2. QED
  BY WritingInitially, WritingStep, <1>1, PTL DEF WritingSpec

(* The writing settings keep their types.                                  *)
THEOREM WritingTypes == WritingSpec => []WritingTypeOK
<1>1. WritingInv => WritingTypeOK
  BY DEF WritingInv
<1>2. QED
  BY WritingInitially, WritingStep, <1>1, PTL DEF WritingSpec

-----------------------------------------------------------------------------
(* SkillRegistry.  A project is granted what its user saw.                 *)

SkillCallRecord ==
  [kind : {"none", "install", "enable", "remove"}, stage : SkillStage,
   subject : SUBSET SkillPackage, project : SUBSET SkillProject, on : BOOLEAN,
   loaded : Registries]

(* Whoever else is at work: what a call has loaded and what it is about to *)
(* enter is stored, and was enabled while it was installed.                *)
SkillCallKnows(call) ==
  /\ call.stage = "unused" => call.kind = "none"
  /\ call.stage # "unused" => call.kind # "none" /\ \E p \in SkillPackage : call.subject = {p}
  /\ \A e \in call.loaded : e.package \in packageFiles
  /\ call.kind = "install" /\ call.stage = "write" => call.subject \subseteq packageFiles
  /\ \A e \in call.loaded : \A j \in e.projects : <<e.package, j>> \in enabled
  /\ call.kind = "enable" /\ call.stage = "write" /\ call.on =>
       \A e \in call.loaded : \A p \in call.subject : \A j \in call.project :
         e.package.skill = p.skill => <<e.package, j>> \in enabled

(* While the user stays: the call writes over the registry it loaded, and, *)
(* unless the panel missed a change, a box is ticked for the package the   *)
(* registry still holds.                                                   *)
CallAlone(call) ==
  /\ call.stage \in {"copy", "write"} => call.loaded = registry
  /\ call.kind = "install" => \A p \in call.subject : p.skill \notin removals
  /\ ~ skillMissed /\ call.kind = "enable" /\ call.stage \in {"load", "write"} =>
       /\ \A e \in registry : \A p \in call.subject : e.package.skill = p.skill => e.package = p
       /\ call.on => \A p \in call.subject : \A j \in call.project : <<p, j>> \in grants

EntryGranted == \A e \in registry : \A j \in e.projects : <<e.package, j>> \in grants
EntryWanted == \A e \in registry : e.package.skill \notin removals
EntryEnabled == \A e \in registry : \A j \in e.projects : <<e.package, j>> \in enabled

SkillBase ==
  /\ SkillTypeOK /\ EntryHasPackage /\ EntryEnabled
  /\ \A c \in SkillCall : SkillCallKnows(skillCalls[c])

WhileStaying ==
  /\ \A c \in SkillCall : skillCalls[c].stage # "unused" => skillBusy = c
  /\ \A c \in SkillCall : CallAlone(skillCalls[c])
  /\ \/ skillMissed \/ skillPanel \subseteq registry
     \/ \E c \in SkillCall : skillCalls[c].stage = "status"
  /\ ~ skillMissed => EntryGranted
  /\ EntryWanted

SkillInv == SkillBase /\ (~skillLeft => WhileStaying)

LEMMA TheOnlyElement == \A p : (CHOOSE q \in {p} : TRUE) = p
  OBVIOUS

LEMMA UnusedSkillFacts ==
  /\ {} \in Registries
  /\ UnusedSkillCall \in SkillCallRecord
  /\ UnusedSkillCall.stage = "unused" /\ UnusedSkillCall.kind = "none" /\ UnusedSkillCall.loaded = {}
<1>1. {} \in Registries
  BY DEF Registries
<1>2. UnusedSkillCall \in SkillCallRecord
  BY <1>1 DEF UnusedSkillCall, SkillCallRecord, SkillStage
<1>3. QED
  BY <1>1, <1>2 DEF UnusedSkillCall

LEMMA SkillInitially == SkillInit => SkillInv
<1> SUFFICES ASSUME SkillInit PROVE SkillInv
  OBVIOUS
<1>1. skillLeft \in BOOLEAN /\ skillMissed \in BOOLEAN
  BY Zenon DEF SkillInit
<1>2. skillCalls \in [SkillCall -> SkillCallRecord]
  BY UnusedSkillFacts DEF SkillInit
<1>3. SkillTypeOK
  BY <1>1, <1>2, UnusedSkillFacts DEF SkillInit, SkillTypeOK, SkillCallRecord
<1>4. SkillBase
  BY <1>3, UnusedSkillFacts DEF SkillInit, SkillBase, EntryHasPackage, EntryEnabled, SkillCallKnows
<1>5. WhileStaying
  BY UnusedSkillFacts DEF SkillInit, WhileStaying, CallAlone, EntryGranted, EntryWanted
<1>6. QED
  BY <1>4, <1>5 DEF SkillInv

(* One call moves on.                                                      *)
LEMMA BaseMoves ==
  ASSUME SkillBase, NEW c \in SkillCall, NEW call \in SkillCallRecord,
         skillCalls' = [skillCalls EXCEPT ![c] = call], SkillCallKnows(call)',
         skillBusy' \in SkillCall \cup {"none"}, skillLeft' \in BOOLEAN, skillMissed' \in BOOLEAN,
         registry' \in Registries, skillPanel' \in Registries, skillOpening' \subseteq Registries,
         packageFiles \subseteq packageFiles', packageFiles' \subseteq SkillPackage,
         grants' \subseteq SkillPackage \X SkillProject, removals' \subseteq Skill,
         enabled \subseteq enabled', enabled' \subseteq SkillPackage \X SkillProject,
         EntryHasPackage', EntryEnabled'
  PROVE  SkillBase'
<1>1. skillCalls \in [SkillCall -> SkillCallRecord]
  BY DEF SkillBase, SkillTypeOK, SkillCallRecord
<1>2. \A d \in SkillCall : skillCalls'[d] = IF d = c THEN call ELSE skillCalls[d]
  BY <1>1
<1>3. skillCalls' \in [SkillCall -> SkillCallRecord]
  BY <1>1
<1>4. SkillTypeOK'
  BY <1>3 DEF SkillTypeOK, SkillCallRecord
<1>5. \A d \in SkillCall : SkillCallKnows(skillCalls[d])'
  <2> TAKE d \in SkillCall
  <2>1. CASE d = c
    BY <1>2, <2>1
  <2>2. CASE d # c
    <3>1. SkillCallKnows(skillCalls[d]) /\ skillCalls'[d] = skillCalls[d]
      BY <1>2, <2>2 DEF SkillBase
    <3>2. QED
      BY <3>1 DEF SkillCallKnows
  <2>3. QED
    BY <2>1, <2>2
<1>6. QED
  BY <1>4, <1>5 DEF SkillBase

LEMMA AloneMoves ==
  ASSUME SkillBase, NEW c \in SkillCall, NEW call \in SkillCallRecord,
         skillCalls' = [skillCalls EXCEPT ![c] = call],
         \A d \in SkillCall : d # c => skillCalls[d].stage = "unused",
         call.stage # "unused" => skillBusy' = c, CallAlone(call)',
         \/ skillMissed' \/ skillPanel' \subseteq registry'
         \/ call.stage = "status",
         ~ skillMissed' => EntryGranted', EntryWanted'
  PROVE  WhileStaying'
<1>1. skillCalls \in [SkillCall -> SkillCallRecord]
  BY DEF SkillBase, SkillTypeOK, SkillCallRecord
<1>2. \A d \in SkillCall : skillCalls'[d] = IF d = c THEN call ELSE skillCalls[d]
  BY <1>1
<1>3. \A d \in SkillCall : CallAlone(skillCalls[d])'
  <2> TAKE d \in SkillCall
  <2>1. CASE d = c
    BY <1>2, <2>1
  <2>2. CASE d # c
    <3>1. skillCalls'[d].stage = "unused" /\ skillCalls'[d].kind = "none"
      BY <1>2, <2>2 DEF SkillBase, SkillCallKnows
    <3>2. QED
      BY <3>1 DEF CallAlone
  <2>3. QED
    BY <2>1, <2>2
<1>4. QED
  BY <1>2, <1>3 DEF WhileStaying

(* While the user stays, the call that is at work is the only one.         *)
LEMMA OnlyCall ==
  ASSUME WhileStaying, NEW c \in SkillCall, skillCalls[c].stage # "unused"
  PROVE  /\ skillBusy = c
         /\ \A d \in SkillCall : d # c => skillCalls[d].stage = "unused"
         /\ CallAlone(skillCalls[c])
  BY DEF WhileStaying

LEMMA SkillCallIs ==
  ASSUME SkillBase, NEW c \in SkillCall
  PROVE  /\ skillCalls[c] \in SkillCallRecord /\ SkillCallKnows(skillCalls[c])
         /\ \A s \in SkillStage : /\ SkillTo(c, s) \in SkillCallRecord
                                  /\ SkillTo(c, s).stage = s
                                  /\ SkillTo(c, s).kind = skillCalls[c].kind
                                  /\ SkillTo(c, s).subject = skillCalls[c].subject
                                  /\ SkillTo(c, s).project = skillCalls[c].project
                                  /\ SkillTo(c, s).on = skillCalls[c].on
                                  /\ SkillTo(c, s).loaded = skillCalls[c].loaded
<1>1. skillCalls[c] \in SkillCallRecord /\ SkillCallKnows(skillCalls[c])
  BY DEF SkillBase, SkillTypeOK, SkillCallRecord
<1>2. QED
  BY <1>1 DEF SkillTo, SkillCallRecord

(* A call ends: what it wrote before has to stand by itself.               *)
LEMMA SkillCallEnds ==
  ASSUME SkillInv, NEW c \in SkillCall, skillCalls[c].stage # "unused", EndSkillCall(c),
         UNCHANGED <<registry, grants, enabled, removals>>,
         packageFiles \subseteq packageFiles', packageFiles' \subseteq SkillPackage,
         \/ UNCHANGED <<skillPanel, skillMissed>> /\ skillCalls[c].stage # "status"
         \/ skillPanel' = (IF skillBusy = c THEN registry ELSE skillPanel) /\ UNCHANGED skillMissed
         \/ UNCHANGED skillPanel /\ skillMissed' = TRUE
  PROVE  SkillInv'
<1>1. /\ skillCalls' = [skillCalls EXCEPT ![c] = UnusedSkillCall] /\ skillLeft' = skillLeft
      /\ skillOpening' = skillOpening
  BY DEF EndSkillCall
<1>2. SkillBase'
  <2>1. SkillCallKnows(UnusedSkillCall)'
    BY UnusedSkillFacts DEF SkillCallKnows
  <2>2. skillBusy' \in SkillCall \cup {"none"} /\ skillLeft' \in BOOLEAN /\ registry' \in Registries
        /\ skillPanel' \in Registries /\ grants' \subseteq SkillPackage \X SkillProject
        /\ removals' \subseteq Skill /\ skillMissed' \in BOOLEAN /\ skillOpening' \subseteq Registries
        /\ enabled' \subseteq SkillPackage \X SkillProject
    BY DEF EndSkillCall, SkillInv, SkillBase, SkillTypeOK
  <2>3. EntryHasPackage' /\ EntryEnabled'
    BY DEF SkillInv, SkillBase, EntryHasPackage, EntryEnabled
  <2>4. SkillBase
    BY DEF SkillInv
  <2>5. QED
    BY <1>1, <2>1, <2>2, <2>3, <2>4, UnusedSkillFacts, BaseMoves
<1>3. ASSUME ~skillLeft PROVE WhileStaying'
  <2>1. WhileStaying /\ SkillBase
    BY <1>3 DEF SkillInv
  <2>2. skillBusy = c /\ \A d \in SkillCall : d # c => skillCalls[d].stage = "unused"
    BY <2>1, OnlyCall
  <2>3. skillMissed' \/ skillPanel' \subseteq registry'
    BY <2>1, <2>2 DEF WhileStaying
  <2>4. CallAlone(UnusedSkillCall)'
    BY UnusedSkillFacts DEF CallAlone
  <2>5. (~ skillMissed' => EntryGranted') /\ EntryWanted'
    BY <2>1 DEF WhileStaying, EntryGranted, EntryWanted
  <2>6. QED
    BY <1>1, <2>1, <2>2, <2>3, <2>4, <2>5, UnusedSkillFacts, AloneMoves
<1>4. QED
  BY <1>1, <1>2, <1>3 DEF SkillInv

(* A call goes on, and leaves the registry alone.                          *)
LEMMA SkillCallSteps ==
  ASSUME SkillInv, NEW c \in SkillCall, skillCalls[c].stage # "unused",
         NEW call \in SkillCallRecord, StepSkillCall(c, call),
         UNCHANGED <<registry, grants, removals>>,
         packageFiles \subseteq packageFiles', packageFiles' \subseteq SkillPackage,
         enabled \subseteq enabled', enabled' \subseteq SkillPackage \X SkillProject,
         SkillCallKnows(call)',
         skillCalls[c].stage # "status", call.stage # "unused",
         CallAlone(skillCalls[c]) => CallAlone(call)
  PROVE  SkillInv'
<1>1. /\ skillCalls' = [skillCalls EXCEPT ![c] = call] /\ skillLeft' = skillLeft /\ skillBusy' = skillBusy
      /\ UNCHANGED <<skillMissed, skillPanel, skillOpening>>
  BY DEF StepSkillCall
<1>2. SkillBase'
  <2>1. skillBusy' \in SkillCall \cup {"none"} /\ skillLeft' \in BOOLEAN /\ registry' \in Registries
        /\ skillPanel' \in Registries /\ grants' \subseteq SkillPackage \X SkillProject
        /\ removals' \subseteq Skill /\ skillMissed' \in BOOLEAN /\ skillOpening' \subseteq Registries
    BY <1>1 DEF SkillInv, SkillBase, SkillTypeOK
  <2>2. EntryHasPackage' /\ EntryEnabled'
    BY DEF SkillInv, SkillBase, EntryHasPackage, EntryEnabled
  <2>3. SkillBase
    BY DEF SkillInv
  <2>4. QED
    BY <1>1, <2>1, <2>2, <2>3, BaseMoves
<1>3. ASSUME ~skillLeft PROVE WhileStaying'
  <2>1. WhileStaying /\ SkillBase
    BY <1>3 DEF SkillInv
  <2>2. skillBusy = c /\ (\A d \in SkillCall : d # c => skillCalls[d].stage = "unused")
        /\ CallAlone(skillCalls[c])
    BY <2>1, OnlyCall
  <2>3. skillMissed' \/ skillPanel' \subseteq registry'
    BY <1>1, <2>1, <2>2 DEF WhileStaying
  <2>4. CallAlone(call)'
    BY <1>1, <2>2 DEF CallAlone
  <2>5. (~ skillMissed' => EntryGranted') /\ EntryWanted'
    BY <1>1, <2>1 DEF WhileStaying, EntryGranted, EntryWanted
  <2>6. QED
    BY <1>1, <2>1, <2>2, <2>3, <2>4, <2>5, AloneMoves
<1>4. QED
  BY <1>1, <1>2, <1>3 DEF SkillInv

(* A button starts a call; while the user stays no other is at work.       *)
LEMMA SkillCallBegins ==
  ASSUME SkillInv, NEW c \in SkillCall, NEW call \in SkillCallRecord, BeginSkillCall(c, call),
         call.stage = "load", call.kind # "none", call.loaded = {},
         NEW p \in SkillPackage, call.subject = {p},
         UNCHANGED <<registry, packageFiles, enabled>>,
         grants \subseteq grants', grants' \subseteq SkillPackage \X SkillProject,
         removals' \subseteq removals,
         call.kind = "install" => p.skill \notin removals',
         call.kind = "enable" => /\ \E e \in skillPanel : e.package = p
                                 /\ call.on => \A j \in call.project : <<p, j>> \in grants'
  PROVE  SkillInv'
<1>1. /\ skillCalls' = [skillCalls EXCEPT ![c] = call] /\ skillLeft' = skillLeft /\ skillBusy' = c
      /\ skillBusy = "none" /\ skillCalls[c] = UnusedSkillCall
      /\ UNCHANGED <<skillMissed, skillPanel, skillOpening>>
  BY DEF BeginSkillCall
<1>2. SkillBase'
  <2>1. skillBusy' \in SkillCall \cup {"none"} /\ skillLeft' \in BOOLEAN /\ registry' \in Registries
        /\ skillPanel' \in Registries /\ removals' \subseteq Skill /\ packageFiles' \subseteq SkillPackage
        /\ skillMissed' \in BOOLEAN /\ skillOpening' \subseteq Registries
        /\ enabled' \subseteq SkillPackage \X SkillProject
    BY <1>1 DEF SkillInv, SkillBase, SkillTypeOK
  <2>2. EntryHasPackage' /\ EntryEnabled'
    BY DEF SkillInv, SkillBase, EntryHasPackage, EntryEnabled
  <2>3. SkillBase
    BY DEF SkillInv
  <2>4. SkillCallKnows(call)'
    BY DEF SkillCallKnows
  <2>5. QED
    BY <1>1, <2>1, <2>2, <2>3, <2>4, BaseMoves
<1>3. ASSUME ~skillLeft PROVE WhileStaying'
  <2>1. WhileStaying /\ SkillBase
    BY <1>3 DEF SkillInv
  <2>2. \A d \in SkillCall : skillCalls[d].stage = "unused"
    BY <1>1, <2>1, SkillAssumption DEF WhileStaying
  <2>3. skillMissed \/ skillPanel \subseteq registry
    BY <2>1, <2>2 DEF WhileStaying
  <2>4. CallAlone(call)'
    <3>1. ~ skillMissed /\ call.kind = "enable" =>
             \A e \in registry : e.package.skill = p.skill => e.package = p
      BY <2>1, <2>3 DEF SkillBase, SkillTypeOK, Registries
    <3>2. QED
      BY <1>1, <3>1 DEF CallAlone
  <2>5. (~ skillMissed' => EntryGranted') /\ EntryWanted'
    BY <1>1, <2>1 DEF WhileStaying, EntryGranted, EntryWanted
  <2>6. QED
    BY <1>1, <2>1, <2>2, <2>3, <2>4, <2>5, AloneMoves
<1>4. QED
  BY <1>1, <1>2, <1>3 DEF SkillInv

LEMMA Buttons ==
  ASSUME SkillInv, NEW c \in SkillCall,
         \/ \E p \in SkillPackage : InstallSkill(c, p)
         \/ \E e \in Shown, project \in SkillProject, on \in BOOLEAN : SetSkillEnabled(c, e, project, on)
         \/ \E e \in Shown : RemoveSkill(c, e)
  PROVE  SkillInv'
<1> USE UnusedSkillFacts
<1>0. /\ removals \subseteq Skill /\ grants \subseteq SkillPackage \X SkillProject
      /\ \A e \in Shown : e \in skillPanel /\ e.package \in SkillPackage
  BY DEF SkillInv, SkillBase, SkillTypeOK, Registries, Entry, Shown
<1>1. ASSUME NEW p \in SkillPackage, InstallSkill(c, p) PROVE SkillInv'
  <2>1. PICK call : call = [UnusedSkillCall EXCEPT !.kind = "install", !.stage = "load", !.subject = {p}]
    OBVIOUS
  <2>2. call \in SkillCallRecord /\ call.stage = "load" /\ call.kind = "install" /\ call.loaded = {}
        /\ call.subject = {p}
    BY <2>1 DEF SkillCallRecord, SkillStage, UnusedSkillCall
  <2>3. BeginSkillCall(c, call) /\ removals' = removals \ {p.skill}
        /\ UNCHANGED <<registry, packageFiles, enabled, grants>>
    BY <1>1, <2>1 DEF InstallSkill
  <2>4. QED
    BY <1>0, <2>2, <2>3, SkillCallBegins
<1>2. ASSUME NEW e \in Shown, NEW project \in SkillProject, NEW on \in BOOLEAN,
             SetSkillEnabled(c, e, project, on)
      PROVE  SkillInv'
  <2>1. PICK call : call = [UnusedSkillCall EXCEPT !.kind = "enable", !.stage = "load",
                              !.subject = {e.package}, !.project = {project}, !.on = on]
    OBVIOUS
  <2>2. call \in SkillCallRecord /\ call.stage = "load" /\ call.kind = "enable" /\ call.loaded = {}
        /\ call.subject = {e.package} /\ call.project = {project} /\ call.on = on
    BY <1>0, <2>1 DEF SkillCallRecord, SkillStage, UnusedSkillCall
  <2>3. BeginSkillCall(c, call) /\ UNCHANGED <<registry, packageFiles, enabled, removals>>
        /\ grants' = IF on THEN grants \cup {<<e.package, project>>} ELSE grants
    BY <1>2, <2>1 DEF SetSkillEnabled
  <2>4. grants \subseteq grants' /\ grants' \subseteq SkillPackage \X SkillProject
        /\ (on => <<e.package, project>> \in grants')
    BY <1>0, <2>3
  <2>5. QED
    BY <1>0, <2>2, <2>3, <2>4, SkillCallBegins
<1>3. ASSUME NEW e \in Shown, RemoveSkill(c, e) PROVE SkillInv'
  <2>1. PICK call : call = [UnusedSkillCall EXCEPT !.kind = "remove", !.stage = "load",
                              !.subject = {e.package}]
    OBVIOUS
  <2>2. call \in SkillCallRecord /\ call.stage = "load" /\ call.kind = "remove" /\ call.loaded = {}
        /\ call.subject = {e.package}
    BY <1>0, <2>1 DEF SkillCallRecord, SkillStage, UnusedSkillCall
  <2>3. BeginSkillCall(c, call) /\ UNCHANGED <<registry, packageFiles, enabled, grants, removals>>
    BY <1>3, <2>1 DEF RemoveSkill
  <2>4. QED
    BY <1>0, <2>2, <2>3, SkillCallBegins
<1>4. QED
  BY <1>1, <1>2, <1>3

(* load() of the three calls.                                              *)
LEMMA Loads ==
  ASSUME SkillInv, NEW c \in SkillCall, LoadForInstall(c) \/ LoadForEnable(c) \/ LoadForRemove(c)
  PROVE  SkillInv'
<1>1. SkillBase
  BY DEF SkillInv
<1>2. skillCalls[c].stage = "load" /\ UNCHANGED <<registry, packageFiles, grants, removals>>
  BY DEF LoadForInstall, LoadForEnable, LoadForRemove, CallIs
<1>3. packageFiles \subseteq SkillPackage /\ registry \in Registries
      /\ (\A e \in registry : e.package \in packageFiles)
      /\ \A e \in registry : \A j \in e.projects : <<e.package, j>> \in enabled
  BY <1>1 DEF SkillBase, SkillTypeOK, EntryHasPackage, EntryEnabled
<1>4. CASE FailSkillCall(c) /\ UNCHANGED enabled
  BY <1>2, <1>3, <1>4, SkillCallEnds DEF FailSkillCall
<1>5. CASE \E s \in {"status", "copy", "write"} :
             /\ StepSkillCall(c, [SkillTo(c, s) EXCEPT !.loaded = registry])
             /\ s = "write" => skillCalls[c].kind # "install"
             /\ enabled \subseteq enabled' /\ enabled' \subseteq SkillPackage \X SkillProject
             /\ skillCalls[c].kind = "enable" /\ skillCalls[c].on =>
                  \A e \in registry : \A p \in skillCalls[c].subject : \A j \in skillCalls[c].project :
                    e.package.skill = p.skill => <<e.package, j>> \in enabled'
  <2>1. PICK s \in {"status", "copy", "write"} :
             /\ StepSkillCall(c, [SkillTo(c, s) EXCEPT !.loaded = registry])
             /\ s = "write" => skillCalls[c].kind # "install"
             /\ enabled \subseteq enabled' /\ enabled' \subseteq SkillPackage \X SkillProject
             /\ skillCalls[c].kind = "enable" /\ skillCalls[c].on =>
                  \A e \in registry : \A p \in skillCalls[c].subject : \A j \in skillCalls[c].project :
                    e.package.skill = p.skill => <<e.package, j>> \in enabled'
    BY <1>5
  <2>2. PICK call : call = [SkillTo(c, s) EXCEPT !.loaded = registry]
    OBVIOUS
  <2>3. s \in SkillStage
    BY DEF SkillStage
  <2>4. call \in SkillCallRecord /\ call.stage = s /\ call.kind = skillCalls[c].kind
        /\ call.subject = skillCalls[c].subject /\ call.project = skillCalls[c].project
        /\ call.on = skillCalls[c].on /\ call.loaded = registry
    <3>1. SkillTo(c, s) \in SkillCallRecord
      BY <1>1, <2>3, SkillCallIs
    <3>2. call \in SkillCallRecord /\ call.loaded = registry /\ call.stage = SkillTo(c, s).stage
          /\ call.kind = SkillTo(c, s).kind /\ call.subject = SkillTo(c, s).subject
          /\ call.project = SkillTo(c, s).project /\ call.on = SkillTo(c, s).on
      BY <1>3, <2>2, <3>1 DEF SkillCallRecord
    <3>3. QED
      BY <1>1, <2>3, <3>2, SkillCallIs
  <2>5. SkillCallKnows(call)'
    <3>1. SkillCallKnows(skillCalls[c])
      BY <1>1, SkillCallIs
    <3>2. /\ call.stage = "unused" => call.kind = "none"
          /\ call.stage # "unused" => call.kind # "none" /\ \E p \in SkillPackage : call.subject = {p}
          /\ ~ (call.kind = "install" /\ call.stage = "write")
      BY <1>2, <2>1, <2>4, <3>1 DEF SkillCallKnows
    <3>3. /\ \A e \in call.loaded : e.package \in packageFiles'
          /\ \A e \in call.loaded : \A j \in e.projects : <<e.package, j>> \in enabled'
      BY <1>2, <1>3, <2>1, <2>4
    <3>4. call.kind = "enable" /\ call.stage = "write" /\ call.on =>
             \A e \in call.loaded : \A p \in call.subject : \A j \in call.project :
               e.package.skill = p.skill => <<e.package, j>> \in enabled'
      BY <2>1, <2>4
    <3>5. QED
      BY <3>2, <3>3, <3>4 DEF SkillCallKnows
  <2>6. CallAlone(skillCalls[c]) => CallAlone(call)
    BY <1>2, <2>1, <2>4 DEF CallAlone
  <2>7. QED
    BY <1>2, <1>3, <2>1, <2>2, <2>4, <2>5, <2>6, SkillCallSteps
<1>6. enabled \subseteq SkillPackage \X SkillProject
  BY <1>1 DEF SkillBase, SkillTypeOK
<1>7. CASE LoadForInstall(c)
  BY <1>4, <1>5, <1>6, <1>7 DEF LoadForInstall, CallIs
<1>8. CASE LoadForEnable(c)
  <2>1. PICK call : call = skillCalls[c]
    OBVIOUS
  <2>2. PICK entries : entries = EntriesOf(registry, SkillOf(c))
    OBVIOUS
  <2>3. call \in SkillCallRecord /\ SkillCallKnows(call) /\ call.kind = "enable" /\ call.stage = "load"
    BY <1>1, <1>8, <2>1, SkillCallIs DEF LoadForEnable, CallIs
  <2>4. PICK p \in SkillPackage : call.subject = {p}
    BY <2>3 DEF SkillCallKnows
  <2>5. SkillOf(c) = p.skill
    BY <2>1, <2>4, TheOnlyElement DEF SkillOf
  <2>6. entries \subseteq registry /\ \A e \in registry : e.package.skill = p.skill => e \in entries
    BY <2>2, <2>5 DEF EntriesOf
  <2>7. \A e \in entries : e.package \in SkillPackage
    BY <1>3, <2>6
  <2>8. CASE /\ StepSkillCall(c, [SkillTo(c, "write") EXCEPT !.loaded = registry])
             /\ enabled' = IF call.on
                           THEN enabled \cup {<<e.package, project>> : e \in entries, project \in call.project}
                           ELSE enabled
    <3>1. call.project \subseteq SkillProject
      BY <2>3 DEF SkillCallRecord
    <3>2. enabled \subseteq enabled' /\ enabled' \subseteq SkillPackage \X SkillProject
      BY <1>6, <2>7, <2>8, <3>1
    <3>3. call.on => \A e \in registry : \A q \in call.subject : \A j \in call.project :
                       e.package.skill = q.skill => <<e.package, j>> \in enabled'
      BY <2>4, <2>6, <2>8
    <3>4. QED
      BY <1>5, <2>1, <2>3, <2>8, <3>2, <3>3
  <2>9. QED
    BY <1>4, <1>8, <2>1, <2>2, <2>8 DEF LoadForEnable
<1>9. CASE LoadForRemove(c)
  BY <1>4, <1>5, <1>6, <1>9 DEF LoadForRemove, CallIs
<1>10. QED
  BY <1>7, <1>8, <1>9

LEMMA Copies ==
  ASSUME SkillInv, NEW c \in SkillCall, CopyPackage(c)
  PROVE  SkillInv'
<1>1. /\ SkillBase /\ packageFiles \subseteq SkillPackage
      /\ enabled \subseteq SkillPackage \X SkillProject
  BY DEF SkillInv, SkillBase, SkillTypeOK
<1>2. skillCalls[c].stage = "copy" /\ skillCalls[c].kind = "install"
      /\ UNCHANGED <<registry, grants, enabled, removals>>
  BY DEF CopyPackage, CallIs
<1>3. CASE UNCHANGED packageFiles /\ FailSkillCall(c)
  BY <1>1, <1>2, <1>3, SkillCallEnds DEF FailSkillCall
<1>4. CASE packageFiles' = packageFiles \cup skillCalls[c].subject /\ StepSkillCall(c, SkillTo(c, "write"))
  <2>1. PICK call : call = SkillTo(c, "write")
    OBVIOUS
  <2>2. call \in SkillCallRecord /\ call.stage = "write" /\ call.kind = skillCalls[c].kind
        /\ call.subject = skillCalls[c].subject /\ call.loaded = skillCalls[c].loaded
        /\ call.on = skillCalls[c].on /\ call.project = skillCalls[c].project
    BY <1>1, <2>1, SkillCallIs DEF SkillStage
  <2>3. skillCalls[c].subject \subseteq SkillPackage
    BY <2>2 DEF SkillCallRecord
  <2>4. SkillCallKnows(call)'
    BY <1>1, <1>2, <1>4, <2>2, SkillCallIs DEF SkillCallKnows
  <2>5. CallAlone(skillCalls[c]) => CallAlone(call)
    <3>1. SkillCallKnows(skillCalls[c]) /\ skillCalls[c].kind = "install"
      BY <1>1, SkillCallIs DEF CopyPackage, CallIs
    <3>2. QED
      BY <1>2, <2>2, <3>1 DEF CallAlone
  <2>6. QED
    BY <1>1, <1>2, <1>4, <2>1, <2>2, <2>3, <2>4, <2>5, SkillCallSteps
<1>5. QED
  BY <1>3, <1>4 DEF CopyPackage

(* What a call writes: of other skills what it loaded, of its own the new  *)
(* package without a grant, the old one granted or withdrawn, or nothing.  *)
OwnEntry(call, p, e) ==
  \/ call.kind = "install" /\ e = [package |-> p, projects |-> {}]
  \/ call.kind = "enable" /\ \E f \in EntriesOf(call.loaded, p.skill) : e = Granted(call, f)

LEMMA GrantedFacts ==
  ASSUME NEW call \in SkillCallRecord, NEW f \in Entry
  PROVE  /\ Granted(call, f) \in Entry
         /\ Granted(call, f).package = f.package
         /\ Granted(call, f).projects \subseteq
              IF call.on THEN f.projects \cup call.project ELSE f.projects
  BY DEF Granted, Entry, SkillCallRecord

LEMMA WrittenEntries ==
  ASSUME SkillBase, NEW c \in SkillCall, skillCalls[c].stage = "write",
         NEW p \in SkillPackage, skillCalls[c].subject = {p}
  PROVE  /\ RegistryWrite(c) \in Registries
         /\ \A e \in RegistryWrite(c) :
               \/ e \in skillCalls[c].loaded /\ e.package.skill # p.skill
               \/ OwnEntry(skillCalls[c], p, e) /\ e.package.skill = p.skill
<1>1. PICK call : call = skillCalls[c]
  OBVIOUS
<1>2. call \in SkillCallRecord /\ SkillCallKnows(call) /\ call.kind \in {"install", "enable", "remove"}
  <2>1. call \in SkillCallRecord /\ SkillCallKnows(call)
    BY <1>1, SkillCallIs
  <2>2. QED
    BY <1>1, <2>1 DEF SkillCallKnows, SkillCallRecord
<1>3. SkillOf(c) = p.skill
  BY TheOnlyElement DEF SkillOf
<1>4. call.loaded \in SUBSET Entry
      /\ \A e, f \in call.loaded : e.package.skill = f.package.skill => e = f
  BY <1>2 DEF SkillCallRecord, Registries
<1>5. PICK own : own = EntriesOf(call.loaded, p.skill)
  OBVIOUS
<1>6. own \subseteq call.loaded /\ \A e \in call.loaded : e \in own <=> e.package.skill = p.skill
  BY <1>5 DEF EntriesOf
<1>7. CASE call.kind = "install"
  <2>1. RegistryWrite(c) = (call.loaded \ own) \cup {[package |-> q, projects |-> {}] : q \in {p}}
    BY <1>1, <1>3, <1>5, <1>7 DEF RegistryWrite
  <2>2. [package |-> p, projects |-> {}] \in Entry
    BY DEF Entry
  <2>3. \A e \in RegistryWrite(c) : \/ e \in call.loaded /\ e.package.skill # p.skill
                                    \/ e = [package |-> p, projects |-> {}] /\ e.package.skill = p.skill
    BY <1>6, <2>1
  <2>4. RegistryWrite(c) \in Registries
    BY <1>4, <2>1, <2>2, <2>3 DEF Registries
  <2>5. QED
    BY <1>1, <1>7, <2>3, <2>4 DEF OwnEntry
<1>8. CASE call.kind = "enable"
  <2>1. RegistryWrite(c) = (call.loaded \ own) \cup {Granted(call, e) : e \in own}
    BY <1>1, <1>3, <1>5, <1>8 DEF RegistryWrite
  <2>2. \A f \in own : Granted(call, f) \in Entry /\ Granted(call, f).package = f.package
                       /\ f.package.skill = p.skill
    BY <1>2, <1>4, <1>6, GrantedFacts
  <2>3. \A e \in RegistryWrite(c) :
           \/ e \in call.loaded /\ e.package.skill # p.skill
           \/ (\E f \in own : e = Granted(call, f)) /\ e.package.skill = p.skill
    BY <1>6, <2>1, <2>2
  <2>4. \A f, g \in own : f = g
    BY <1>4, <1>6
  <2>5. RegistryWrite(c) \in Registries
    <3>1. RegistryWrite(c) \subseteq Entry
      BY <1>4, <2>1, <2>2
    <3>2. ASSUME NEW e \in RegistryWrite(c), NEW f \in RegistryWrite(c),
                 e.package.skill = f.package.skill
          PROVE  e = f
      <4>1. CASE e.package.skill = p.skill
        BY <2>3, <2>4, <3>2, <4>1
      <4>2. CASE e.package.skill # p.skill
        BY <1>4, <2>3, <3>2, <4>2
      <4>3. QED
        BY <4>1, <4>2
    <3>3. QED
      BY <3>1, <3>2 DEF Registries
  <2>6. QED
    BY <1>1, <1>5, <1>8, <2>3, <2>5 DEF OwnEntry
<1>9. CASE call.kind = "remove"
  <2>1. RegistryWrite(c) = call.loaded \ own
    BY <1>1, <1>3, <1>5, <1>9 DEF RegistryWrite
  <2>2. QED
    BY <1>1, <1>4, <1>6, <2>1 DEF Registries
<1>10. QED
  BY <1>2, <1>7, <1>8, <1>9

LEMMA Writes ==
  ASSUME SkillInv, NEW c \in SkillCall, WriteRegistry(c)
  PROVE  SkillInv'
<1>1. SkillBase /\ packageFiles \subseteq SkillPackage
  BY DEF SkillInv, SkillBase, SkillTypeOK
<1>2. skillCalls[c].stage = "write" /\ UNCHANGED <<packageFiles, grants, enabled>>
  BY DEF WriteRegistry
<1>3. CASE UNCHANGED <<registry, removals>> /\ FailSkillCall(c)
  BY <1>1, <1>2, <1>3, SkillCallEnds DEF FailSkillCall
<1>4. CASE /\ registry' = RegistryWrite(c)
           /\ removals' = IF skillCalls[c].kind = "remove" THEN removals \cup {SkillOf(c)} ELSE removals
           /\ StepSkillCall(c, SkillTo(c, "status"))
  <2>1. PICK call : call = SkillTo(c, "status")
    OBVIOUS
  <2>2. PICK old : old = skillCalls[c]
    OBVIOUS
  <2>3. /\ call \in SkillCallRecord /\ call.stage = "status" /\ call.kind = old.kind
        /\ call.subject = old.subject /\ call.loaded = old.loaded
        /\ old \in SkillCallRecord /\ SkillCallKnows(old) /\ old.stage = "write"
    BY <1>1, <1>2, <2>1, <2>2, SkillCallIs DEF SkillStage
  <2>4. PICK p \in SkillPackage : old.subject = {p}
    BY <2>3 DEF SkillCallKnows
  <2>5. /\ registry' \in Registries
        /\ \A e \in registry' : \/ e \in old.loaded /\ e.package.skill # p.skill
                                \/ OwnEntry(old, p, e) /\ e.package.skill = p.skill
    BY <1>1, <1>2, <1>4, <2>2, <2>4, WrittenEntries
  <2>6. SkillOf(c) = p.skill
    BY <2>2, <2>4, TheOnlyElement DEF SkillOf
  <2>7. /\ skillCalls' = [skillCalls EXCEPT ![c] = call] /\ skillBusy' = skillBusy
        /\ UNCHANGED <<skillLeft, skillMissed, skillPanel, skillOpening>>
    BY <1>4, <2>1 DEF StepSkillCall
  <2>8. old.loaded \subseteq Entry
    BY <2>3 DEF SkillCallRecord, Registries
  <2>9. ASSUME NEW e, OwnEntry(old, p, e)
        PROVE  \/ old.kind = "install" /\ e.package = p /\ e.projects = {}
               \/ /\ old.kind = "enable"
                  /\ \E f \in old.loaded :
                       /\ f.package.skill = p.skill /\ e.package = f.package
                       /\ e.projects \subseteq IF old.on THEN f.projects \cup old.project
                                               ELSE f.projects
    BY <2>3, <2>8, <2>9, GrantedFacts DEF OwnEntry, EntriesOf
  <2>10. SkillBase'
    <3>1. EntryHasPackage'
      <4>1. \A e \in registry' : e.package \in packageFiles
        <5> TAKE e \in registry'
        <5>1. CASE e \in old.loaded
          BY <2>3, <5>1 DEF SkillCallKnows
        <5>2. CASE OwnEntry(old, p, e)
          BY <2>3, <2>4, <2>9, <5>2 DEF SkillCallKnows
        <5>3. QED
          BY <2>5, <5>1, <5>2
      <4>2. QED
        BY <1>2, <4>1 DEF EntryHasPackage
    <3>2. SkillCallKnows(call)'
      BY <1>2, <2>3 DEF SkillCallKnows
    <3>3. removals' \subseteq Skill
      BY <1>1, <1>4, <2>6 DEF SkillBase, SkillTypeOK, Skill
    <3>4. skillBusy' \in SkillCall \cup {"none"} /\ skillLeft' \in BOOLEAN /\ skillPanel' \in Registries
          /\ grants' \subseteq SkillPackage \X SkillProject /\ skillMissed' \in BOOLEAN
          /\ skillOpening' \subseteq Registries /\ enabled' \subseteq SkillPackage \X SkillProject
      BY <1>1, <1>2, <2>7 DEF SkillBase, SkillTypeOK
    <3>5. EntryEnabled'
      <4>1. ASSUME NEW e \in registry', NEW j \in e.projects PROVE <<e.package, j>> \in enabled
        <5>1. CASE e \in old.loaded
          BY <2>3, <5>1 DEF SkillCallKnows
        <5>2. CASE OwnEntry(old, p, e)
          <6>1. PICK f \in old.loaded :
                       /\ f.package.skill = p.skill /\ e.package = f.package /\ old.kind = "enable"
                       /\ e.projects \subseteq IF old.on THEN f.projects \cup old.project
                                               ELSE f.projects
            BY <2>9, <4>1, <5>2
          <6>2. CASE j \in f.projects
            BY <2>3, <6>1, <6>2 DEF SkillCallKnows
          <6>3. CASE old.on /\ j \in old.project
            BY <2>3, <2>4, <6>1, <6>3 DEF SkillCallKnows
          <6>4. QED
            BY <4>1, <6>1, <6>2, <6>3
        <5>3. QED
          BY <2>5, <5>1, <5>2
      <4>2. QED
        BY <1>2, <4>1 DEF EntryEnabled
    <3>6. QED
      BY <1>1, <1>2, <2>3, <2>5, <2>7, <3>1, <3>2, <3>3, <3>4, <3>5, BaseMoves
  <2>11. ASSUME ~skillLeft PROVE WhileStaying'
    <3>1. WhileStaying
      BY <2>11 DEF SkillInv
    <3>2. skillBusy = c /\ (\A d \in SkillCall : d # c => skillCalls[d].stage = "unused")
          /\ CallAlone(old)
      BY <1>2, <2>2, <3>1, OnlyCall
    <3>3. old.loaded = registry
      BY <2>3, <3>2 DEF CallAlone
    <3>4. CallAlone(call)'
      <4>1. old.kind = "install" => p.skill \notin removals'
        BY <1>4, <2>2, <2>4, <3>2 DEF CallAlone
      <4>2. QED
        BY <2>3, <2>4, <4>1 DEF CallAlone
    <3>5. ~ skillMissed' => EntryGranted'
      <4>1. ASSUME ~ skillMissed, NEW e \in registry', NEW j \in e.projects
            PROVE  <<e.package, j>> \in grants
        <5>1. CASE e \in old.loaded
          BY <3>1, <3>3, <4>1, <5>1 DEF WhileStaying, EntryGranted
        <5>2. CASE OwnEntry(old, p, e)
          <6>1. PICK f \in old.loaded :
                       /\ f.package.skill = p.skill /\ e.package = f.package /\ old.kind = "enable"
                       /\ e.projects \subseteq IF old.on THEN f.projects \cup old.project
                                               ELSE f.projects
            BY <2>9, <4>1, <5>2
          <6>2. CASE j \in f.projects
            BY <3>1, <3>3, <4>1, <6>1, <6>2 DEF WhileStaying, EntryGranted
          <6>3. CASE old.on /\ j \in old.project
            <7>1. f.package = p /\ <<p, j>> \in grants
              BY <2>3, <2>4, <3>2, <3>3, <4>1, <6>1, <6>3 DEF CallAlone
            <7>2. QED
              BY <6>1, <7>1
          <6>4. QED
            BY <4>1, <6>1, <6>2, <6>3
        <5>3. QED
          BY <2>5, <5>1, <5>2
      <4>2. QED
        BY <1>2, <2>7, <4>1 DEF EntryGranted
    <3>6. EntryWanted'
      <4>1. ASSUME NEW e \in registry' PROVE e.package.skill \notin removals'
        <5>1. CASE e \in old.loaded /\ e.package.skill # p.skill
          BY <1>4, <2>6, <3>1, <3>3, <5>1 DEF WhileStaying, EntryWanted
        <5>2. CASE OwnEntry(old, p, e) /\ old.kind = "install"
          BY <1>4, <2>2, <2>4, <2>9, <3>2, <5>2 DEF CallAlone
        <5>3. CASE OwnEntry(old, p, e) /\ old.kind = "enable"
          BY <1>4, <2>2, <2>9, <3>1, <3>3, <5>3 DEF WhileStaying, EntryWanted
        <5>4. QED
          BY <2>5, <2>9, <5>1, <5>2, <5>3
      <4>2. QED
        BY <4>1 DEF EntryWanted
    <3>7. QED
      BY <1>1, <2>3, <2>7, <3>2, <3>4, <3>5, <3>6, AloneMoves
  <2>12. QED
    BY <2>7, <2>10, <2>11 DEF SkillInv
<1>5. QED
  BY <1>3, <1>4 DEF WriteRegistry

LEMMA SkillReturns ==
  ASSUME SkillInv, NEW c \in SkillCall, ReturnSkillStatus(c)
  PROVE  SkillInv'
<1>1. packageFiles \subseteq SkillPackage
  BY DEF SkillInv, SkillBase, SkillTypeOK
<1>2. QED
  BY <1>1, SkillCallEnds DEF ReturnSkillStatus

LEMMA SkillReopens ==
  ASSUME SkillInv, ReopenSkillPanel
  PROVE  SkillInv'
<1>1. /\ UNCHANGED <<skillMissed, registry, packageFiles, skillCalls, grants, enabled, removals>>
      /\ skillLeft' = (skillLeft \/ skillBusy # "none")
      /\ skillBusy' = "none" /\ skillPanel' = {} /\ skillOpening' = {registry}
  BY DEF ReopenSkillPanel, NewSkillPanel
<1>2. SkillBase'
  <2>1. SkillTypeOK'
    BY <1>1, UnusedSkillFacts DEF SkillInv, SkillBase, SkillTypeOK
  <2>2. QED
    BY <1>1, <2>1 DEF SkillInv, SkillBase, EntryHasPackage, EntryEnabled, SkillCallKnows
<1>3. ASSUME ~skillLeft' PROVE WhileStaying'
  <2>1. WhileStaying /\ skillBusy = "none"
    BY <1>1, <1>3 DEF SkillInv
  <2>2. \A d \in SkillCall : CallAlone(skillCalls[d])'
    BY <1>1, <2>1 DEF WhileStaying, CallAlone
  <2>3. QED
    BY <1>1, <2>1, <2>2 DEF WhileStaying, EntryGranted, EntryWanted
<1>4. QED
  BY <1>2, <1>3 DEF SkillInv

(* The first reading of a panel.                                           *)
LEMMA SkillOpens ==
  ASSUME SkillInv, ReadForSkillPanel \/ ShowSkillPanel
  PROVE  SkillInv'
<1>1. /\ UNCHANGED <<skillLeft, registry, packageFiles, skillCalls, skillBusy, grants, enabled, removals>>
      /\ \/ UNCHANGED <<skillPanel, skillMissed>> /\ skillOpening' \in {{}, {registry}}
         \/ /\ skillOpening' = {}
            /\ \E read \in skillOpening : /\ skillPanel' = read
                                          /\ skillMissed' = (skillMissed \/ read # registry)
  BY DEF ReadForSkillPanel, ShowSkillPanel
<1>2. SkillBase'
  <2>1. SkillTypeOK'
    BY <1>1 DEF SkillInv, SkillBase, SkillTypeOK
  <2>2. QED
    BY <1>1, <2>1 DEF SkillInv, SkillBase, EntryHasPackage, EntryEnabled, SkillCallKnows
<1>3. ASSUME ~skillLeft' PROVE WhileStaying'
  <2>1. WhileStaying
    BY <1>1, <1>3 DEF SkillInv
  <2>2. skillMissed \in BOOLEAN /\ (skillMissed => skillMissed')
        /\ (skillMissed' \/ skillPanel' = skillPanel \/ skillPanel' = registry)
    BY <1>1 DEF SkillInv, SkillBase, SkillTypeOK
  <2>3. \A d \in SkillCall : CallAlone(skillCalls[d])'
    BY <1>1, <2>1, <2>2 DEF WhileStaying, CallAlone
  <2>4. QED
    BY <1>1, <2>1, <2>2, <2>3 DEF WhileStaying, EntryGranted, EntryWanted
<1>4. QED
  BY <1>1, <1>2, <1>3 DEF SkillInv

LEMMA SkillRestarts ==
  ASSUME SkillInv, RestartSkills
  PROVE  SkillInv'
<1>1. /\ skillCalls' \in [SkillCall -> SkillCallRecord]
      /\ \A d \in SkillCall : skillCalls'[d] = UnusedSkillCall
      /\ UNCHANGED <<skillLeft, skillMissed, registry, packageFiles, grants, enabled, removals>>
      /\ skillBusy' = "none" /\ skillPanel' = {} /\ skillOpening' = {registry}
  BY UnusedSkillFacts DEF RestartSkills, NewSkillPanel
<1>2. SkillBase'
  <2>1. SkillTypeOK'
    BY <1>1, UnusedSkillFacts DEF SkillInv, SkillBase, SkillTypeOK, SkillCallRecord
  <2>2. \A d \in SkillCall : SkillCallKnows(skillCalls[d])'
    BY <1>1, UnusedSkillFacts DEF SkillCallKnows
  <2>3. QED
    BY <1>1, <2>1, <2>2 DEF SkillInv, SkillBase, EntryHasPackage, EntryEnabled
<1>3. ASSUME ~skillLeft' PROVE WhileStaying'
  <2>1. WhileStaying
    BY <1>1, <1>3 DEF SkillInv
  <2>2. \A d \in SkillCall : CallAlone(skillCalls[d])'
    BY <1>1, UnusedSkillFacts DEF CallAlone
  <2>3. QED
    BY <1>1, <2>1, <2>2, UnusedSkillFacts DEF WhileStaying, EntryGranted, EntryWanted
<1>4. QED
  BY <1>1, <1>2, <1>3 DEF SkillInv

LEMMA SkillStuttering ==
  ASSUME SkillInv, UNCHANGED skillVars
  PROVE  SkillInv'
<1>1. SkillBase'
  BY DEF SkillInv, SkillBase, SkillTypeOK, EntryHasPackage, EntryEnabled, SkillCallKnows, skillVars
<1>2. WhileStaying => WhileStaying'
  BY DEF WhileStaying, CallAlone, EntryGranted, EntryWanted, skillVars
<1>3. QED
  BY <1>1, <1>2 DEF SkillInv, skillVars

LEMMA SkillInvariance == SkillSpec => []SkillInv
<1>1. SkillInv /\ [SkillNext]_skillVars => SkillInv'
  <2> SUFFICES ASSUME SkillInv, [SkillNext]_skillVars PROVE SkillInv'
    OBVIOUS
  <2>1. CASE UNCHANGED skillVars
    BY <2>1, SkillStuttering
  <2>2. CASE ReopenSkillPanel \/ ReadForSkillPanel \/ ShowSkillPanel \/ RestartSkills
    BY <2>2, SkillReopens, SkillOpens, SkillRestarts
  <2>3. ASSUME NEW c \in SkillCall,
               \/ \E p \in SkillPackage : InstallSkill(c, p)
               \/ \E e \in Shown, project \in SkillProject, on \in BOOLEAN : SetSkillEnabled(c, e, project, on)
               \/ \E e \in Shown : RemoveSkill(c, e)
        PROVE  SkillInv'
    BY <2>3, Buttons
  <2>4. ASSUME NEW c \in SkillCall, LoadForInstall(c) \/ LoadForEnable(c) \/ LoadForRemove(c)
        PROVE  SkillInv'
    BY <2>4, Loads
  <2>5. ASSUME NEW c \in SkillCall, CopyPackage(c) \/ WriteRegistry(c) \/ ReturnSkillStatus(c)
        PROVE  SkillInv'
    BY <2>5, Copies, Writes, SkillReturns
  <2>6. QED
    BY <2>1, <2>2, <2>3, <2>4, <2>5 DEF SkillNext
<1>2. QED
  BY <1>1, SkillInitially, PTL DEF SkillSpec

(* The registry holds at most one entry of each skill, also when calls     *)
(* that overlap write over each other.                                     *)
THEOREM SkillTypes == SkillSpec => []SkillTypeOK
<1>1. SkillInv => SkillTypeOK
  BY DEF SkillInv, SkillBase
<1>2. QED
  BY <1>1, SkillInvariance, PTL

(* What a request of the Creative room attaches is stored; whatever fails  *)
(* or overlaps, the user enabled its skill for this project while exactly  *)
(* this package was installed; and while the user stays on the panel and   *)
(* every answer reaches it, the box was ticked for exactly this package.   *)
THEOREM SkillsStayGranted == SkillSpec => []SkillsAreGranted
<1>1. SkillInv => SkillsAreGranted
  <2> SUFFICES ASSUME SkillInv PROVE SkillsAreGranted
    OBVIOUS
  <2>1. EntryHasPackage /\ EntryEnabled
    BY DEF SkillInv, SkillBase
  <2>2. ASSUME NEW j \in SkillProject, NEW p \in PlanOf(j)
        PROVE  /\ <<p, j>> \in enabled
               /\ ~ skillLeft /\ ~ skillMissed => <<p, j>> \in grants
    <3>1. PICK e \in registry : j \in e.projects /\ p = e.package
      BY <2>2 DEF PlanOf
    <3>2. QED
      BY <2>1, <3>1 DEF SkillInv, WhileStaying, EntryGranted, EntryEnabled
  <2>3. QED
    BY <2>1, <2>2 DEF SkillsAreGranted, GrantsAreRenewed, GrantsWereGiven
<1>2. QED
  BY <1>1, SkillInvariance, PTL

(* While the user stays on the panel, a removed skill is out of the        *)
(* registry until it is installed again.                                   *)
THEOREM SkillsStayRemoved == SkillSpec => []RemovedStaysRemoved
<1>1. SkillInv => RemovedStaysRemoved
  BY DEF SkillInv, WhileStaying, EntryWanted, RemovedStaysRemoved
<1>2. QED
  BY <1>1, SkillInvariance, PTL

-----------------------------------------------------------------------------
(* GuidedStages.  A ticked box is for the draft that is approved.          *)

MaybeDraft == Draft \cup {NoDraft}
ScreenRecord ==
  [loaded : BOOLEAN, known : SUBSET Made, prints : SUBSET Draft, action : Stage,
   context : Stage \cup {"none"}, fetching : BOOLEAN, draft : MaybeDraft, ticked : MaybeDraft,
   busy : BOOLEAN]
PressRecord ==
  [step : {"unpressed", "asked", "listing", "refreshing", "promoting", "advancing", "ended"},
   stage : Stage, plan : Stage \cup {"none"}, turn : 0..Candidates,
   draft : MaybeDraft, seen : MaybeDraft, mine : BOOLEAN, lost : BOOLEAN]

(* A running press of Create has a candidate, one of Approve a draft.      *)
PressKnows(r) ==
  /\ r.step \in {"asked", "listing"} => r.turn \in 1..Candidates
  /\ r.step \in {"promoting", "refreshing"} => r.draft \in drafts
  /\ r.step = "unpressed" => ~ r.lost

(* The draft in hand is the one the box was ticked for, or it is the       *)
(* second of a press that lost a reading.                                  *)
ForIts(draft, seen) ==
  draft = seen \/ (draft \in drafts /\ clicks[draft.click].lost)

(* While a press asks and has lost nothing, neither the disk nor the       *)
(* screen has a draft of it, and no box is ticked.                         *)
AskedAfresh(c) ==
  clicks[c].step = "asked" /\ ~ clicks[c].lost =>
    /\ \A d \in drafts : d.click # c
    /\ clicks[c].mine => screen.draft = NoDraft /\ screen.ticked = NoDraft

(* Only one press of this screen at a time keeps it busy.                  *)
Busy(c) == clicks[c].mine /\ clicks[c].step \in {"asked", "listing", "promoting", "advancing"}

GuidedBase ==
  /\ approved \subseteq Made /\ drafts \subseteq Draft /\ promoted \subseteq Draft \X Stage
  /\ screen \in ScreenRecord /\ clicks \in [Click -> PressRecord]
  /\ screen.known \subseteq approved /\ screen.prints \subseteq drafts
  /\ screen.draft \in drafts \cup {NoDraft} /\ screen.ticked \in drafts \cup {NoDraft}
  /\ \A c \in Click : PressKnows(clicks[c])

OneAtATime ==
  /\ \A c \in Click : Busy(c) => screen.busy
  /\ \A c, d \in Click : Busy(c) /\ Busy(d) => c = d

DraftsCounted ==
  /\ \A d \in drafts : clicks[d.click].step # "unpressed"
  /\ \A d, e \in drafts : d.click = e.click /\ d # e => clicks[d.click].lost

TicksKept ==
  /\ \A c \in Click : AskedAfresh(c) /\ ForIts(clicks[c].draft, clicks[c].seen)
  /\ screen.ticked # NoDraft => screen.draft # NoDraft /\ ForIts(screen.draft, screen.ticked)

GuidedInv == GuidedBase /\ OneAtATime /\ DraftsCounted /\ TicksKept

LEMMA FreshFacts ==
  /\ Unpressed \in PressRecord /\ Fresh \in ScreenRecord
  /\ Unpressed.step = "unpressed" /\ ~ Unpressed.lost /\ Unpressed.draft = NoDraft /\ Unpressed.seen = NoDraft
  /\ Fresh.draft = NoDraft /\ Fresh.ticked = NoDraft /\ Fresh.known = {} /\ Fresh.prints = {}
  /\ \A d \in Draft : d.click \in Click /\ d # NoDraft
<1>1. Unpressed \in PressRecord
  BY GuidedAssumption DEF Unpressed, PressRecord, Stage, MaybeDraft
<1>2. Fresh \in ScreenRecord
  BY DEF Fresh, ScreenRecord, Stage, MaybeDraft
<1>3. ASSUME NEW d \in Draft PROVE d.click \in Click /\ d # NoDraft
  <2>1. d.click \in Click /\ d.click # 0
    BY GuidedAssumption DEF Draft, Click
  <2>2. NoDraft.click = 0
    BY DEF NoDraft
  <2>3. QED
    BY <2>1, <2>2
<1>4. QED
  BY <1>1, <1>2, <1>3 DEF Unpressed, Fresh

LEMMA SuggestedIsStage == ASSUME NEW done PROVE Suggested(done) \in Stage
  BY DEF Suggested, Stage

LEMMA AfterEffectFacts ==
  ASSUME NEW s \in ScreenRecord
  PROVE  /\ AfterEffect(s) \in ScreenRecord
         /\ AfterEffect(s).known = s.known /\ AfterEffect(s).prints = s.prints
         /\ AfterEffect(s).draft = s.draft /\ AfterEffect(s).ticked = s.ticked
         /\ AfterEffect(s).busy = s.busy
<1>1. PICK shown : shown = CardShown(s)
  OBVIOUS
<1>2. shown \in BOOLEAN
  BY <1>1 DEF CardShown
<1>3. AfterEffect(s) = s \/ AfterEffect(s) = [s EXCEPT !.fetching = shown]
  BY <1>1, Zenon DEF AfterEffect
<1>4. [s EXCEPT !.fetching = shown] \in ScreenRecord
  BY <1>2 DEF ScreenRecord
<1>5. QED
  BY <1>3, <1>4 DEF ScreenRecord

LEMMA GuidedInitially == GuidedInit => GuidedInv
<1> SUFFICES ASSUME GuidedInit PROVE GuidedInv
  OBVIOUS
<1> USE FreshFacts
<1>1. approved \subseteq Made /\ drafts = {} /\ promoted = {} /\ screen = Fresh
      /\ \A c \in Click : clicks[c] = Unpressed
  BY GuidedAssumption DEF GuidedInit
<1>2. clicks \in [Click -> PressRecord]
  BY DEF GuidedInit
<1>3. GuidedBase
  BY <1>1, <1>2 DEF GuidedBase, PressKnows
<1>4. OneAtATime /\ DraftsCounted
  BY <1>1 DEF OneAtATime, DraftsCounted, Busy
<1>5. TicksKept
  BY <1>1 DEF TicksKept, AskedAfresh, ForIts
<1>6. QED
  BY <1>3, <1>4, <1>5 DEF GuidedInv

(* What a step may do to the two drafts on the screen.                     *)
DraftKept == screen'.draft = screen.draft /\ screen'.ticked = screen.ticked
DraftGone == screen'.draft = NoDraft /\ screen'.ticked = NoDraft
TickGone == screen'.draft = screen.draft /\ screen'.ticked = NoDraft
DraftTicked == screen.draft # NoDraft /\ screen'.draft = screen.draft /\ screen'.ticked = screen.draft

ScreenSound ==
  /\ approved \subseteq approved' /\ approved' \subseteq Made
  /\ screen' \in ScreenRecord /\ screen'.known \subseteq approved' /\ screen'.prints \subseteq drafts

(* The creator does something on the screen.                               *)
LEMMA ScreenMoves ==
  ASSUME GuidedInv, UNCHANGED <<clicks, drafts, promoted>>, ScreenSound,
         DraftKept \/ DraftGone \/ TickGone \/ DraftTicked, screen'.busy = screen.busy
  PROVE  GuidedInv'
<1>1. GuidedBase'
  BY DEF GuidedInv, GuidedBase, PressKnows, ScreenSound, DraftKept, DraftGone, TickGone, DraftTicked
<1>2. OneAtATime' /\ DraftsCounted'
  BY DEF GuidedInv, OneAtATime, DraftsCounted, Busy
<1>3. TicksKept'
  <2>1. \A c \in Click : (AskedAfresh(c) /\ ForIts(clicks[c].draft, clicks[c].seen))'
    BY DEF GuidedInv, TicksKept, AskedAfresh, ForIts, DraftKept, DraftGone, TickGone, DraftTicked
  <2>2. screen'.ticked # NoDraft => screen'.draft # NoDraft /\ ForIts(screen.draft, screen.ticked)'
    BY DEF GuidedInv, TicksKept, ForIts, DraftKept, DraftGone, TickGone, DraftTicked
  <2>3. QED
    BY <2>1, <2>2 DEF TicksKept
<1>4. QED
  BY <1>1, <1>2, <1>3 DEF GuidedInv

(* One press goes on, without a new proposal.                              *)
PressGoes(c) ==
  /\ clicks' \in [Click -> PressRecord]
  /\ \A d \in Click : d # c => clicks'[d] = clicks[d]
  /\ clicks'[c].step # "unpressed" /\ PressKnows(clicks'[c])
  /\ clicks[c].lost => clicks'[c].lost

LEMMA PressMoves ==
  ASSUME GuidedInv, NEW c \in Click, UNCHANGED drafts, promoted' \subseteq Draft \X Stage,
         ScreenSound, DraftKept \/ DraftGone, PressGoes(c),
         clicks'[c].step = "asked" /\ ~ clicks'[c].lost =>
           \/ clicks[c].step = "asked" /\ ~ clicks[c].lost /\ clicks'[c].mine = clicks[c].mine
           \/ clicks[c].step = "unpressed" /\ DraftGone,
         \/ clicks'[c].draft = clicks'[c].seen
         \/ clicks'[c].draft = clicks[c].draft /\ clicks'[c].seen = clicks[c].seen
         \/ clicks'[c].draft = screen.draft /\ clicks'[c].seen = screen.ticked /\ screen.ticked # NoDraft,
         screen.busy => screen'.busy \/ Busy(c),
         Busy(c)' => screen'.busy /\ (Busy(c) \/ ~ screen.busy)
  PROVE  GuidedInv'
<1> USE FreshFacts
<1>1. /\ drafts \subseteq Draft /\ clicks \in [Click -> PressRecord]
      /\ \A d \in Click : PressKnows(clicks[d])
  BY DEF GuidedInv, GuidedBase
<1>2. \A d \in Click : clicks[d].lost => clicks'[d].lost
  BY DEF PressGoes
<1>3. GuidedBase'
  <2>1. \A d \in Click : PressKnows(clicks[d])'
    BY <1>1 DEF PressGoes, PressKnows
  <2>2. screen'.draft \in drafts \cup {NoDraft} /\ screen'.ticked \in drafts \cup {NoDraft}
    BY DEF GuidedInv, GuidedBase, DraftKept, DraftGone
  <2>3. QED
    BY <1>1, <2>1, <2>2 DEF GuidedBase, ScreenSound, PressGoes
<1>4. OneAtATime'
  BY DEF GuidedInv, OneAtATime, Busy, PressGoes
<1>5. DraftsCounted'
  <2>1. \A d \in drafts : d.click \in Click
    BY <1>1
  <2>2. \A d \in drafts : clicks'[d.click].step # "unpressed"
    BY <2>1 DEF GuidedInv, DraftsCounted, PressGoes
  <2>3. QED
    BY <1>2, <2>1, <2>2 DEF GuidedInv, DraftsCounted
<1>6. \A draft, seen : ForIts(draft, seen) => ForIts(draft, seen)'
  BY <1>1, <1>2 DEF ForIts
<1>7. TicksKept'
  <2>1. ASSUME NEW d \in Click PROVE AskedAfresh(d)'
    <3>1. CASE d # c
      <4>1. AskedAfresh(d) /\ clicks'[d] = clicks[d]
        BY <3>1 DEF GuidedInv, TicksKept, PressGoes
      <4>2. QED
        BY <4>1 DEF AskedAfresh, DraftKept, DraftGone
    <3>2. CASE d = c
      <4>1. AskedAfresh(c) /\ \A e \in drafts : clicks[e.click].step # "unpressed"
        BY DEF GuidedInv, TicksKept, DraftsCounted
      <4>2. QED
        BY <3>2, <4>1 DEF AskedAfresh, DraftKept, DraftGone
    <3>3. QED
      BY <3>1, <3>2
  <2>2. ASSUME NEW d \in Click PROVE ForIts(clicks[d].draft, clicks[d].seen)'
    <3>1. CASE d # c
      <4>1. ForIts(clicks[d].draft, clicks[d].seen) /\ clicks'[d] = clicks[d]
        BY <3>1 DEF GuidedInv, TicksKept, PressGoes
      <4>2. QED
        BY <1>6, <4>1, <1>1, <1>2 DEF ForIts
    <3>2. CASE d = c
      <4>1. ForIts(clicks[c].draft, clicks[c].seen)
            /\ (screen.ticked # NoDraft => ForIts(screen.draft, screen.ticked))
        BY DEF GuidedInv, TicksKept
      <4>2. QED
        BY <1>1, <1>2, <3>2, <4>1 DEF ForIts
    <3>3. QED
      BY <3>1, <3>2
  <2>3. screen'.ticked # NoDraft => screen'.draft # NoDraft /\ ForIts(screen.draft, screen.ticked)'
    <3>1. CASE DraftGone
      BY <3>1 DEF DraftGone
    <3>2. CASE DraftKept
      <4>1. screen.ticked # NoDraft => screen.draft # NoDraft /\ ForIts(screen.draft, screen.ticked)
        BY DEF GuidedInv, TicksKept
      <4>2. QED
        BY <1>1, <1>2, <3>2, <4>1 DEF ForIts, DraftKept
    <3>3. QED
      BY <3>1, <3>2
  <2>4. QED
    BY <2>1, <2>2, <2>3 DEF TicksKept
<1>8. QED
  BY <1>3, <1>4, <1>5, <1>7 DEF GuidedInv

LEMMA ScreenKeeps ==
  ASSUME GuidedInv, approved' = approved, screen' \in ScreenRecord,
         screen'.known = screen.known \/ screen'.known = approved,
         screen'.prints = screen.prints \/ screen'.prints = drafts
  PROVE  ScreenSound
  BY DEF GuidedInv, GuidedBase, ScreenSound

LEMMA ScreenActions ==
  ASSUME GuidedInv,
         \/ LoadStages \/ ShowStageContext \/ LoseStageContext
         \/ \E stage \in Stage : SelectStage(stage)
         \/ ConfirmDraft \/ AnswerQuestions
  PROVE  GuidedInv'
<1>1. /\ screen \in ScreenRecord /\ approved \subseteq Made /\ drafts \subseteq Draft
      /\ NoDraft \in MaybeDraft
  BY DEF GuidedInv, GuidedBase, MaybeDraft
<1>2. UNCHANGED <<clicks, drafts, promoted, approved>>
  BY DEF LoadStages, ShowStageContext, LoseStageContext, SelectStage, ConfirmDraft, AnswerQuestions,
         GuidedUnchanged
<1>3. CASE LoadStages
  <2>1. PICK s : s = [screen EXCEPT !.loaded = TRUE, !.known = approved, !.prints = drafts,
                                    !.action = Suggested(approved)]
    OBVIOUS
  <2>2. s \in ScreenRecord /\ s.known = approved /\ s.prints = drafts /\ s.draft = screen.draft
        /\ s.ticked = screen.ticked /\ s.busy = screen.busy
    BY <1>1, <2>1, SuggestedIsStage DEF ScreenRecord
  <2>3. screen' = AfterEffect(s)
    BY <1>3, <2>1 DEF LoadStages
  <2>4. screen' \in ScreenRecord /\ screen'.known = approved /\ screen'.prints = drafts /\ DraftKept
        /\ screen'.busy = screen.busy
    BY <2>2, <2>3, AfterEffectFacts DEF DraftKept
  <2>5. QED
    BY <1>2, <2>4, ScreenKeeps, ScreenMoves
<1>4. CASE ShowStageContext \/ LoseStageContext
  <2>1. screen' \in ScreenRecord /\ screen'.known = screen.known /\ screen'.prints = screen.prints /\ DraftKept
        /\ screen'.busy = screen.busy
    BY <1>1, <1>4 DEF ShowStageContext, LoseStageContext, ScreenRecord, DraftKept
  <2>2. QED
    BY <1>2, <2>1, ScreenKeeps, ScreenMoves
<1>5. ASSUME NEW stage \in Stage, SelectStage(stage) PROVE GuidedInv'
  <2>1. PICK s : s = [screen EXCEPT !.context = "none", !.action = stage, !.draft = NoDraft, !.ticked = NoDraft]
    OBVIOUS
  <2>2. s \in ScreenRecord /\ s.known = screen.known /\ s.prints = screen.prints /\ s.draft = NoDraft
        /\ s.ticked = NoDraft /\ s.busy = screen.busy
    BY <1>1, <2>1 DEF ScreenRecord
  <2>3. screen' = AfterEffect(s)
    BY <1>5, <2>1 DEF SelectStage
  <2>4. screen' \in ScreenRecord /\ screen'.known = screen.known /\ screen'.prints = screen.prints /\ DraftGone
        /\ screen'.busy = screen.busy
    BY <2>2, <2>3, AfterEffectFacts DEF DraftGone
  <2>5. QED
    BY <1>2, <2>4, ScreenKeeps, ScreenMoves
<1>6. CASE ConfirmDraft
  <2>1. screen' \in ScreenRecord /\ screen'.known = screen.known /\ screen'.prints = screen.prints /\ DraftTicked
        /\ screen'.busy = screen.busy
    BY <1>1, <1>6 DEF ConfirmDraft, ScreenRecord, DraftTicked
  <2>2. QED
    BY <1>2, <2>1, ScreenKeeps, ScreenMoves
<1>7. CASE AnswerQuestions
  <2>1. screen' \in ScreenRecord /\ screen'.known = screen.known /\ screen'.prints = screen.prints /\ TickGone
        /\ screen'.busy = screen.busy
    BY <1>1, <1>7 DEF AnswerQuestions, ScreenRecord, TickGone
  <2>2. QED
    BY <1>2, <2>1, ScreenKeeps, ScreenMoves
<1>8. QED
  BY <1>3, <1>4, <1>5, <1>6, <1>7

(* A screen that is reopened has no running press.                         *)
LEMMA Reopens ==
  ASSUME GuidedInv, ReopenStages
  PROVE  GuidedInv'
<1> USE FreshFacts
<1>1. /\ screen' = Fresh /\ UNCHANGED <<drafts, promoted>> /\ approved \subseteq approved' /\ approved' \subseteq Made
      /\ drafts \subseteq Draft /\ promoted \subseteq Draft \X Stage /\ clicks \in [Click -> PressRecord]
  <2>1. Elsewhere \subseteq Made
    BY GuidedAssumption
  <2>2. QED
    BY <2>1 DEF ReopenStages, GuidedInv, GuidedBase
<1>2. ASSUME NEW c \in Click
      PROVE  /\ clicks'[c] \in PressRecord
             /\ Answered(c) => clicks'[c] = clicks[c]
             /\ ~ Answered(c) => ~ clicks'[c].mine
             /\ clicks'[c].step = clicks[c].step /\ clicks'[c].turn = clicks[c].turn
             /\ clicks'[c].draft = clicks[c].draft /\ clicks'[c].seen = clicks[c].seen
             /\ clicks'[c].lost = clicks[c].lost
  <2>1. clicks'[c] = IF Answered(c) THEN clicks[c] ELSE [clicks[c] EXCEPT !.mine = FALSE]
    BY DEF ReopenStages
  <2>2. [clicks[c] EXCEPT !.mine = FALSE] \in PressRecord /\ [clicks[c] EXCEPT !.mine = FALSE].mine = FALSE
    BY <1>1 DEF PressRecord
  <2>3. QED
    BY <1>1, <2>1, <2>2 DEF PressRecord
<1>3. clicks' \in [Click -> PressRecord]
  <2>1. PICK g : g = [c \in Click |-> IF Answered(c) THEN clicks[c] ELSE [clicks[c] EXCEPT !.mine = FALSE]]
    OBVIOUS
  <2>2. clicks' = g /\ DOMAIN g = Click /\ g = [c \in Click |-> g[c]]
    BY <2>1 DEF ReopenStages
  <2>3. QED
    BY <1>2, <2>2
<1>4. GuidedBase'
  <2>1. \A c \in Click : PressKnows(clicks[c])'
    BY <1>1, <1>2 DEF GuidedInv, GuidedBase, PressKnows
  <2>2. QED
    BY <1>1, <1>3, <2>1 DEF GuidedBase
<1>5. OneAtATime'
  BY <1>2 DEF OneAtATime, Busy, Answered
<1>6. DraftsCounted'
  BY <1>1, <1>2 DEF GuidedInv, DraftsCounted
<1>7. TicksKept'
  <2>1. ASSUME NEW c \in Click PROVE AskedAfresh(c)'
    <3>1. AskedAfresh(c)
      BY DEF GuidedInv, TicksKept
    <3>2. QED
      BY <1>1, <1>2, <3>1 DEF AskedAfresh
  <2>2. ASSUME NEW c \in Click PROVE ForIts(clicks[c].draft, clicks[c].seen)'
    <3>1. ForIts(clicks[c].draft, clicks[c].seen)
      BY DEF GuidedInv, TicksKept
    <3>2. QED
      BY <1>1, <1>2, <3>1 DEF ForIts
  <2>3. QED
    BY <1>1, <2>1, <2>2 DEF TicksKept
<1>8. QED
  BY <1>4, <1>5, <1>6, <1>7 DEF GuidedInv

LEMMA PressBecomes ==
  ASSUME clicks \in [Click -> PressRecord], NEW c \in Click, NEW r \in PressRecord,
         clicks' = [clicks EXCEPT ![c] = r], r.step # "unpressed", PressKnows(r),
         clicks[c].lost => r.lost
  PROVE  PressGoes(c) /\ clicks'[c] = r
  BY DEF PressGoes

LEMMA ShownFacts ==
  ASSUME NEW c \in Click, NEW s \in ScreenRecord, screen \in ScreenRecord, Shows(c, s)
  PROVE  /\ screen' \in ScreenRecord
         /\ ~ clicks[c].mine => screen' = screen
         /\ clicks[c].mine => /\ screen'.known = s.known /\ screen'.prints = s.prints
                              /\ screen'.draft = s.draft /\ screen'.ticked = s.ticked
                              /\ screen'.busy = s.busy
  BY AfterEffectFacts DEF Shows

LEMMA OverFacts ==
  ASSUME clicks \in [Click -> PressRecord], NEW c \in Click
  PROVE  /\ Over(c) \in PressRecord /\ PressKnows(Over(c)) /\ Over(c).step = "ended"
         /\ Over(c).lost = clicks[c].lost /\ Over(c).draft = Over(c).seen
  BY FreshFacts DEF Over, Unpressed, PressRecord, PressKnows

(* A press ends, with or without a lost reading; the screen is no longer   *)
(* busy with it, or stays as it is.                                        *)
LEMMA PressEnds ==
  ASSUME GuidedInv, NEW c \in Click, NEW r \in PressRecord, r = Over(c) \/ r = [Over(c) EXCEPT !.lost = TRUE],
         clicks' = [clicks EXCEPT ![c] = r], GuidedUnchanged,
         \/ screen' = screen
         \/ \E s \in ScreenRecord :
              /\ Shows(c, s)
              /\ s.known = screen.known \/ s.known = approved
              /\ s.prints = screen.prints \/ s.prints = drafts
              /\ s.draft = screen.draft /\ s.ticked = screen.ticked
              /\ s.busy = screen.busy \/ clicks[c].step \in {"asked", "listing", "promoting", "advancing"}
  PROVE  GuidedInv'
<1>1. screen \in ScreenRecord /\ clicks \in [Click -> PressRecord] /\ promoted \subseteq Draft \X Stage
  BY DEF GuidedInv, GuidedBase
<1>2. UNCHANGED <<approved, drafts, promoted>>
  BY DEF GuidedUnchanged
<1>3. r.step = "ended" /\ PressKnows(r) /\ r.draft = r.seen /\ (clicks[c].lost => r.lost)
  <2>1. PICK o \in PressRecord : o = Over(c)
    BY <1>1, OverFacts
  <2>2. r = o \/ r = [o EXCEPT !.lost = TRUE]
    BY <2>1
  <2>3. o.step = "ended" /\ o.draft = o.seen /\ (clicks[c].lost => o.lost)
    BY <1>1, <2>1, OverFacts
  <2>4. QED
    BY <2>2, <2>3 DEF PressRecord, PressKnows
<1>4. PressGoes(c) /\ clicks'[c] = r
  BY <1>1, <1>3, PressBecomes
<1>5. /\ screen' \in ScreenRecord
      /\ screen'.known = screen.known \/ screen'.known = approved
      /\ screen'.prints = screen.prints \/ screen'.prints = drafts
      /\ DraftKept
      /\ screen'.busy = screen.busy \/ Busy(c)
  BY <1>1, ShownFacts DEF DraftKept, Busy
<1>6. QED
  <2>1. ScreenSound
    BY <1>2, <1>5, ScreenKeeps
  <2>2. ~ Busy(c)'
    BY <1>3, <1>4 DEF Busy
  <2>3. QED
    BY <1>1, <1>2, <1>3, <1>4, <1>5, <2>1, <2>2, PressMoves

(* The presses that end at once.                                           *)
LEMMA PressesEnd ==
  ASSUME GuidedInv, NEW c \in Click,
         RefuseRequest(c) \/ RefuseApproval(c) \/ LoseAdvance(c) \/ ListProposals(c) \/ AdvanceStage(c)
  PROVE  GuidedInv'
<1>1. screen \in ScreenRecord /\ clicks \in [Click -> PressRecord] /\ approved \subseteq Made
      /\ drafts \subseteq Draft
  BY DEF GuidedInv, GuidedBase
<1>2. Over(c) \in PressRecord /\ [Over(c) EXCEPT !.lost = TRUE] \in PressRecord
  <2>1. Over(c) \in PressRecord
    BY <1>1, OverFacts
  <2>2. QED
    BY <2>1 DEF PressRecord
<1>3. CASE RefuseRequest(c) \/ RefuseApproval(c)
  <2>1. PICK s : s = [screen EXCEPT !.busy = FALSE]
    OBVIOUS
  <2>2. s \in ScreenRecord /\ s.known = screen.known /\ s.prints = screen.prints /\ s.draft = screen.draft
        /\ s.ticked = screen.ticked
    BY <1>1, <2>1 DEF ScreenRecord
  <2>3. Shows(c, s) /\ clicks' = [clicks EXCEPT ![c] = Over(c)] /\ GuidedUnchanged
        /\ clicks[c].step \in {"asked", "promoting"}
    BY <1>3, <2>1 DEF RefuseRequest, RefuseApproval
  <2>4. QED
    BY <1>2, <2>2, <2>3, PressEnds
<1>4. CASE LoseAdvance(c)
  BY <1>2, <1>4, PressEnds DEF LoseAdvance
<1>5. CASE ListProposals(c)
  <2>1. PICK busy : busy = IF clicks[c].step = "listing" THEN FALSE ELSE screen.busy
    OBVIOUS
  <2>2. PICK s : s = [screen EXCEPT !.loaded = TRUE, !.known = approved, !.prints = drafts, !.busy = busy]
    OBVIOUS
  <2>3. busy \in BOOLEAN
    BY <1>1, <2>1 DEF ScreenRecord
  <2>4. s \in ScreenRecord /\ s.known = approved /\ s.prints = drafts /\ s.draft = screen.draft
        /\ s.ticked = screen.ticked /\ s.busy = busy
    BY <1>1, <2>2, <2>3 DEF ScreenRecord
  <2>5. Shows(c, s) /\ clicks' = [clicks EXCEPT ![c] = Over(c)] /\ GuidedUnchanged
    BY <1>5, <2>1, <2>2 DEF ListProposals
  <2>6. s.busy = screen.busy \/ clicks[c].step = "listing"
    BY <2>1, <2>4
  <2>7. QED
    BY <1>2, <2>4, <2>5, <2>6, PressEnds
<1>6. CASE AdvanceStage(c)
  <2>1. PICK s : s = [screen EXCEPT !.known = approved, !.prints = drafts, !.context = "none",
                                    !.action = Suggested(approved), !.busy = FALSE]
    OBVIOUS
  <2>2. s \in ScreenRecord /\ s.known = approved /\ s.prints = drafts /\ s.draft = screen.draft
        /\ s.ticked = screen.ticked
    BY <1>1, <2>1, SuggestedIsStage DEF ScreenRecord
  <2>3. Shows(c, s) /\ clicks' = [clicks EXCEPT ![c] = Over(c)] /\ GuidedUnchanged
        /\ clicks[c].step = "advancing"
    BY <1>6, <2>1 DEF AdvanceStage
  <2>4. QED
    BY <1>2, <2>2, <2>3, PressEnds
<1>7. QED
  BY <1>3, <1>4, <1>5, <1>6

(* A press of Create asks the next candidate, or is over.                  *)
LEMMA AsksNext ==
  ASSUME GuidedInv, NEW c \in Click, TryNextModel(c) \/ LoseProposals(c)
  PROVE  GuidedInv'
<1>1. /\ screen \in ScreenRecord /\ clicks \in [Click -> PressRecord] /\ promoted \subseteq Draft \X Stage
      /\ PressKnows(clicks[c])
  BY DEF GuidedInv, GuidedBase
<1>2. UNCHANGED <<approved, drafts, promoted>> /\ GuidedUnchanged
      /\ clicks[c].step \in {"asked", "listing"}
  BY DEF TryNextModel, LoseProposals, GuidedUnchanged
<1>3. PICK s : s = [screen EXCEPT !.busy = FALSE]
  OBVIOUS
<1>4. s \in ScreenRecord /\ s.known = screen.known /\ s.prints = screen.prints /\ s.draft = screen.draft
      /\ s.ticked = screen.ticked
  BY <1>1, <1>3 DEF ScreenRecord
<1>5. CASE clicks[c].turn < Candidates
  <2>1. PICK lost \in BOOLEAN : lost = (clicks[c].lost \/ LoseProposals(c))
    OBVIOUS
  <2>2. PICK r : r = [clicks[c] EXCEPT !.step = "asked", !.turn = clicks[c].turn + 1, !.lost = lost]
    OBVIOUS
  <2>3. clicks[c] \in PressRecord /\ clicks[c].turn \in 1..Candidates /\ clicks[c].lost \in BOOLEAN
    BY <1>1, <1>2 DEF PressKnows, PressRecord
  <2>4. clicks[c].turn + 1 \in 1..Candidates
    BY <1>5, <2>3, GuidedAssumption
  <2>5. r \in PressRecord /\ r.step = "asked" /\ r.turn \in 1..Candidates /\ r.mine = clicks[c].mine
        /\ r.draft = clicks[c].draft /\ r.seen = clicks[c].seen /\ r.lost = lost
    <3>1. PICK next : next = clicks[c].turn + 1
      OBVIOUS
    <3>2. next \in 1..Candidates /\ next \in 0..Candidates
      BY <2>4, <3>1, GuidedAssumption
    <3>3. r = [clicks[c] EXCEPT !.step = "asked", !.turn = next, !.lost = lost]
      BY <2>2, <3>1
    <3>4. QED
      BY <2>3, <3>2, <3>3 DEF PressRecord
  <2>6. clicks' = [clicks EXCEPT ![c] = r] /\ screen' = screen
    <3>1. CASE TryNextModel(c) /\ ~ LoseProposals(c)
      <4>1. lost = clicks[c].lost
        BY <2>1, <2>3, <3>1
      <4>2. clicks' = [clicks EXCEPT ![c].step = "asked", ![c].turn = @ + 1] /\ screen' = screen
        BY <1>5, <3>1 DEF TryNextModel, NextCandidate
      <4>3. r = [clicks[c] EXCEPT !.step = "asked", !.turn = clicks[c].turn + 1]
        BY <2>2, <2>3, <4>1 DEF PressRecord
      <4>4. QED
        BY <1>1, <4>2, <4>3
    <3>2. CASE LoseProposals(c)
      <4>1. clicks' = [clicks EXCEPT ![c].step = "asked", ![c].turn = @ + 1, ![c].lost = TRUE] /\ screen' = screen
        BY <1>5, <3>2 DEF LoseProposals
      <4>2. r = [clicks[c] EXCEPT !.step = "asked", !.turn = clicks[c].turn + 1, !.lost = TRUE]
        BY <2>1, <2>2, <3>2
      <4>3. QED
        BY <1>1, <4>1, <4>2
    <3>3. QED
      BY <3>1, <3>2
  <2>7. PressGoes(c) /\ clicks'[c] = r
    <3>1. PressKnows(r) /\ (clicks[c].lost => r.lost)
      BY <2>1, <2>5 DEF PressKnows
    <3>2. QED
      BY <1>1, <2>5, <2>6, <3>1, PressBecomes
  <2>8. ScreenSound /\ DraftKept
    BY <1>1, <1>2, <2>6, ScreenKeeps DEF DraftKept
  <2>9. ~ r.lost => clicks[c].step = "asked" /\ ~ clicks[c].lost
    BY <2>1, <2>5 DEF TryNextModel
  <2>10. Busy(c)' <=> Busy(c)
    BY <1>2, <2>5, <2>7 DEF Busy
  <2>11. Busy(c) => screen.busy
    BY DEF GuidedInv, OneAtATime
  <2>12. QED
    BY <1>1, <1>2, <2>5, <2>6, <2>7, <2>8, <2>9, <2>10, <2>11, PressMoves
<1>6. CASE ~ clicks[c].turn < Candidates
  <2>1. \E r \in PressRecord : /\ r = Over(c) \/ r = [Over(c) EXCEPT !.lost = TRUE]
                               /\ clicks' = [clicks EXCEPT ![c] = r]
    <3>1. Over(c) \in PressRecord
      BY <1>1, OverFacts
    <3>2. [Over(c) EXCEPT !.lost = TRUE] \in PressRecord
      BY <3>1 DEF PressRecord
    <3>3. QED
      BY <1>6, <3>1, <3>2 DEF TryNextModel, LoseProposals, NextCandidate
  <2>2. Shows(c, s)
    BY <1>3, <1>6 DEF TryNextModel, LoseProposals, NextCandidate
  <2>3. QED
    BY <1>2, <1>4, <2>1, <2>2, PressEnds
<1>7. QED
  BY <1>5, <1>6

LEMMA Creates ==
  ASSUME GuidedInv, NEW c \in Click, CreateStage(c)
  PROVE  GuidedInv'
<1> USE FreshFacts
<1>1. /\ screen \in ScreenRecord /\ clicks \in [Click -> PressRecord] /\ promoted \subseteq Draft \X Stage
  BY DEF GuidedInv, GuidedBase
<1>2. UNCHANGED <<approved, drafts, promoted>> /\ clicks[c] = Unpressed /\ ~ screen.busy
  BY DEF CreateStage, CreateStageClearing, NextPress, GuidedUnchanged
<1>3. PICK r : r = [Unpressed EXCEPT !.step = "asked", !.stage = screen.action, !.plan = screen.context, !.turn = 1]
  OBVIOUS
<1>4. 1 \in 0..Candidates /\ 1 \in 1..Candidates
  BY GuidedAssumption
<1>5. r \in PressRecord /\ r.step = "asked" /\ r.turn = 1 /\ r.draft = r.seen
  BY <1>1, <1>3, <1>4 DEF PressRecord, ScreenRecord
<1>6. PressGoes(c) /\ clicks'[c] = r
  <2>1. PressKnows(r)
    BY <1>4, <1>5 DEF PressKnows
  <2>2. clicks' = [clicks EXCEPT ![c] = r]
    BY <1>3 DEF CreateStage, CreateStageClearing
  <2>3. QED
    BY <1>1, <1>2, <1>5, <2>1, <2>2, PressBecomes
<1>7. screen' \in ScreenRecord /\ screen'.known = screen.known /\ screen'.prints = screen.prints
      /\ DraftGone /\ screen'.busy
  <2>1. screen' = [screen EXCEPT !.busy = TRUE, !.draft = NoDraft, !.ticked = NoDraft]
    BY DEF CreateStage, CreateStageClearing
  <2>2. NoDraft \in MaybeDraft
    BY DEF MaybeDraft
  <2>3. QED
    BY <1>1, <2>1, <2>2 DEF ScreenRecord, DraftGone
<1>8. ScreenSound
  BY <1>2, <1>7, ScreenKeeps
<1>9. QED
  BY <1>1, <1>2, <1>5, <1>6, <1>7, <1>8, PressMoves

LEMMA Approves ==
  ASSUME GuidedInv, NEW c \in Click, PressApprove(c)
  PROVE  GuidedInv'
<1> USE FreshFacts
<1>1. /\ screen \in ScreenRecord /\ clicks \in [Click -> PressRecord] /\ promoted \subseteq Draft \X Stage
      /\ screen.draft \in drafts \cup {NoDraft}
  BY DEF GuidedInv, GuidedBase
<1>2. UNCHANGED <<approved, drafts, promoted>> /\ clicks[c] = Unpressed /\ ~ screen.busy
      /\ screen.ticked # NoDraft /\ screen.draft # NoDraft
  BY DEF PressApprove, NextPress, GuidedUnchanged
<1>3. PICK listed \in BOOLEAN : listed <=> screen.draft \in screen.prints
  <2>1. CASE screen.draft \in screen.prints
    BY <2>1
  <2>2. CASE screen.draft \notin screen.prints
    BY <2>2
  <2>3. QED
    BY <2>1, <2>2
<1>4. PICK step : step = IF listed THEN "promoting" ELSE "refreshing"
  OBVIOUS
<1>5. PICK r : r = [Unpressed EXCEPT !.stage = screen.action, !.draft = screen.draft, !.seen = screen.ticked,
                                     !.step = step]
  OBVIOUS
<1>6. r \in PressRecord /\ r.step = step /\ r.draft = screen.draft /\ r.seen = screen.ticked
  BY <1>1, <1>4, <1>5 DEF PressRecord, ScreenRecord
<1>7. PressGoes(c) /\ clicks'[c] = r
  <2>1. PressKnows(r)
    BY <1>1, <1>2, <1>4, <1>6 DEF PressKnows
  <2>2. clicks' = [clicks EXCEPT ![c] = r]
    BY <1>3, <1>4, <1>5 DEF PressApprove
  <2>3. QED
    BY <1>1, <1>2, <1>4, <1>6, <2>1, <2>2, PressBecomes
<1>8. screen' \in ScreenRecord /\ screen'.known = screen.known /\ screen'.prints = screen.prints
      /\ DraftKept /\ screen'.busy = listed
  <2>1. screen' = [screen EXCEPT !.busy = listed]
    BY <1>3 DEF PressApprove
  <2>2. QED
    BY <1>1, <2>1 DEF ScreenRecord, DraftKept
<1>9. ScreenSound
  BY <1>2, <1>8, ScreenKeeps
<1>10. Busy(c)' => screen'.busy
  BY <1>4, <1>6, <1>7, <1>8 DEF Busy
<1>11. clicks'[c].step # "asked"
  BY <1>4, <1>6, <1>7
<1>12. QED
  BY <1>1, <1>2, <1>6, <1>7, <1>8, <1>9, <1>10, <1>11, PressMoves

LEMMA Promotes ==
  ASSUME GuidedInv, NEW c \in Click, PromoteStage(c)
  PROVE  GuidedInv'
<1>1. /\ screen \in ScreenRecord /\ clicks \in [Click -> PressRecord] /\ promoted \subseteq Draft \X Stage
      /\ PressKnows(clicks[c]) /\ drafts \subseteq Draft /\ approved \subseteq Made
      /\ screen.known \subseteq approved /\ screen.prints \subseteq drafts
  BY DEF GuidedInv, GuidedBase
<1>2. clicks[c].step = "promoting" /\ UNCHANGED drafts
  BY DEF PromoteStage
<1>3. clicks[c].draft \in Draft /\ clicks[c].stage \in Stage
  BY <1>1, <1>2 DEF PressKnows, PressRecord
<1>4. promoted' \subseteq Draft \X Stage /\ approved \subseteq approved' /\ approved' \subseteq Made
  <2>1. CanonKind[clicks[c].stage] \in Made
    BY <1>3 DEF Made
  <2>2. QED
    BY <1>1, <1>3, <2>1 DEF PromoteStage
<1>5. PICK r : r = [clicks[c] EXCEPT !.step = "advancing"]
  OBVIOUS
<1>6. r \in PressRecord /\ r.step = "advancing" /\ r.draft = clicks[c].draft /\ r.seen = clicks[c].seen
      /\ r.lost = clicks[c].lost /\ r.mine = clicks[c].mine
  BY <1>1, <1>5 DEF PressRecord
<1>7. PressGoes(c) /\ clicks'[c] = r
  <2>1. PressKnows(r)
    BY <1>6 DEF PressKnows
  <2>2. clicks' = [clicks EXCEPT ![c] = r]
    BY <1>1, <1>5 DEF PromoteStage
  <2>3. QED
    BY <1>1, <1>6, <2>1, <2>2, PressBecomes
<1>8. /\ screen' \in ScreenRecord /\ screen'.known = screen.known /\ screen'.prints = screen.prints
      /\ DraftKept \/ DraftGone
      /\ screen'.busy = screen.busy
  <2>1. PICK s : s = [screen EXCEPT !.draft = NoDraft, !.ticked = NoDraft]
    OBVIOUS
  <2>2. s \in ScreenRecord /\ s.known = screen.known /\ s.prints = screen.prints /\ s.draft = NoDraft
        /\ s.ticked = NoDraft /\ s.busy = screen.busy
    BY <1>1, <2>1 DEF ScreenRecord, MaybeDraft
  <2>3. Shows(c, s)
    BY <2>1 DEF PromoteStage
  <2>4. QED
    BY <1>1, <2>2, <2>3, ShownFacts DEF DraftKept, DraftGone
<1>9. ScreenSound
  BY <1>1, <1>4, <1>8 DEF ScreenSound
<1>10. Busy(c)' <=> Busy(c)
  BY <1>2, <1>6, <1>7 DEF Busy
<1>11. Busy(c) => screen.busy
  BY DEF GuidedInv, OneAtATime
<1>12. QED
  BY <1>2, <1>4, <1>6, <1>7, <1>8, <1>9, <1>10, <1>11, PressMoves

(* The proposal is on disk, and on the screen if it still waits for it: a  *)
(* second proposal of the press means that a reading was lost.             *)
LEMMA Saves ==
  ASSUME GuidedInv, NEW c \in Click, SaveProposal(c)
  PROVE  GuidedInv'
<1> USE FreshFacts
<1>1. /\ screen \in ScreenRecord /\ clicks \in [Click -> PressRecord] /\ promoted \subseteq Draft \X Stage
      /\ PressKnows(clicks[c]) /\ drafts \subseteq Draft /\ approved \subseteq Made
      /\ screen.known \subseteq approved /\ screen.prints \subseteq drafts
      /\ screen.draft \in drafts \cup {NoDraft} /\ screen.ticked \in drafts \cup {NoDraft}
  BY DEF GuidedInv, GuidedBase
<1>2. clicks[c].step = "asked" /\ UNCHANGED <<approved, promoted>>
  BY DEF SaveProposal
<1>3. PICK made : made = [stage |-> clicks[c].stage, click |-> c, turn |-> clicks[c].turn]
  OBVIOUS
<1>4. made \in Draft /\ made.click = c /\ drafts' = drafts \cup {made}
  BY <1>1, <1>2, <1>3 DEF Draft, PressKnows, PressRecord, SaveProposal
<1>5. PICK r : r = [clicks[c] EXCEPT !.step = "listing"]
  OBVIOUS
<1>6. r \in PressRecord /\ r.step = "listing" /\ r.draft = clicks[c].draft /\ r.seen = clicks[c].seen
      /\ r.lost = clicks[c].lost /\ r.mine = clicks[c].mine /\ r.turn = clicks[c].turn
  BY <1>1, <1>5 DEF PressRecord
<1>7. clicks' = [clicks EXCEPT ![c] = r]
  BY <1>1, <1>5 DEF SaveProposal
<1>8. clicks' \in [Click -> PressRecord] /\ \A d \in Click : clicks'[d] = IF d = c THEN r ELSE clicks[d]
  BY <1>1, <1>6, <1>7
<1>9. \A d \in Click : /\ clicks'[d].lost = clicks[d].lost /\ clicks'[d].draft = clicks[d].draft
                       /\ clicks'[d].seen = clicks[d].seen /\ clicks'[d].mine = clicks[d].mine
                       /\ clicks'[d].step = IF d = c THEN "listing" ELSE clicks[d].step
                       /\ clicks'[d].turn = clicks[d].turn
  BY <1>6, <1>8
<1>10. /\ screen' \in ScreenRecord /\ screen'.known \subseteq approved /\ screen'.prints \subseteq drafts
       /\ \/ clicks[c].mine /\ screen'.draft = made /\ screen'.ticked = screen.ticked
          \/ ~ clicks[c].mine /\ screen'.draft = screen.draft /\ screen'.ticked = screen.ticked
       /\ screen'.busy = screen.busy
  <2>1. PICK s : s = [screen EXCEPT !.draft = made]
    OBVIOUS
  <2>2. s \in ScreenRecord /\ s.known = screen.known /\ s.prints = screen.prints /\ s.draft = made
        /\ s.ticked = screen.ticked /\ s.busy = screen.busy
    BY <1>1, <1>4, <2>1 DEF ScreenRecord, MaybeDraft
  <2>3. Shows(c, s)
    BY <1>3, <2>1 DEF SaveProposal
  <2>4. QED
    BY <1>1, <2>2, <2>3, ShownFacts
<1>11. GuidedBase'
  <2>1. \A d \in Click : PressKnows(clicks[d])'
    BY <1>2, <1>4, <1>9 DEF GuidedInv, GuidedBase, PressKnows
  <2>2. QED
    BY <1>1, <1>2, <1>4, <1>8, <1>10, <2>1 DEF GuidedBase
<1>12. OneAtATime'
  BY <1>2, <1>9, <1>10 DEF GuidedInv, OneAtATime, Busy
<1>13. \A d \in drafts : d.click \in Click
  BY <1>1
<1>14. AskedAfresh(c) /\ DraftsCounted /\ OneAtATime
  BY DEF GuidedInv, TicksKept
<1>15. DraftsCounted'
  <2>1. \A d \in drafts' : clicks'[d.click].step # "unpressed"
    BY <1>4, <1>9, <1>13, <1>14 DEF DraftsCounted
  <2>2. ASSUME NEW d \in drafts', NEW e \in drafts', d.click = e.click, d # e
        PROVE  clicks'[d.click].lost
    <3>1. CASE d \in drafts /\ e \in drafts
      BY <1>9, <1>13, <1>14, <2>2, <3>1 DEF DraftsCounted
    <3>2. CASE d = made \/ e = made
      <4>1. \E f \in drafts : f.click = c
        BY <1>4, <2>2, <3>2
      <4>2. clicks[c].lost
        BY <1>2, <1>14, <4>1 DEF AskedAfresh
      <4>3. QED
        BY <1>4, <1>9, <2>2, <3>2, <4>2
    <3>3. QED
      BY <1>4, <3>1, <3>2
  <2>3. QED
    BY <2>1, <2>2 DEF DraftsCounted
<1>16. ASSUME NEW draft, NEW seen, ForIts(draft, seen)
       PROVE  draft = seen \/ (draft \in drafts' /\ clicks'[draft.click].lost)
  BY <1>4, <1>9, <1>13, <1>16 DEF ForIts
<1>17. TicksKept'
  <2>1. ASSUME NEW d \in Click PROVE AskedAfresh(d)'
    <3>1. CASE d = c
      BY <1>9, <3>1 DEF AskedAfresh
    <3>2. CASE d # c
      <4>1. AskedAfresh(d)
        BY DEF GuidedInv, TicksKept
      <4>2. clicks[d].step = "asked" /\ clicks[d].mine => ~ clicks[c].mine
        BY <1>2, <1>14, <3>2 DEF OneAtATime, Busy
      <4>3. QED
        BY <1>4, <1>9, <1>10, <3>2, <4>1, <4>2 DEF AskedAfresh
    <3>3. QED
      BY <3>1, <3>2
  <2>2. ASSUME NEW d \in Click PROVE ForIts(clicks[d].draft, clicks[d].seen)'
    <3>1. ForIts(clicks[d].draft, clicks[d].seen)
      BY DEF GuidedInv, TicksKept
    <3>2. QED
      BY <1>9, <1>16, <3>1 DEF ForIts
  <2>3. ASSUME screen'.ticked # NoDraft
        PROVE  screen'.draft # NoDraft /\ ForIts(screen.draft, screen.ticked)'
    <3>1. CASE clicks[c].mine
      <4>1. clicks[c].lost
        BY <1>2, <1>10, <1>14, <2>3, <3>1 DEF AskedAfresh
      <4>2. screen'.draft = made /\ clicks'[made.click].lost /\ made \in drafts' /\ made # NoDraft
        BY <1>4, <1>9, <1>10, <3>1, <4>1
      <4>3. QED
        BY <4>2 DEF ForIts
    <3>2. CASE ~ clicks[c].mine
      <4>1. screen.draft # NoDraft /\ ForIts(screen.draft, screen.ticked)
        BY <1>10, <2>3, <3>2 DEF GuidedInv, TicksKept
      <4>2. QED
        BY <1>10, <1>16, <3>2, <4>1 DEF ForIts
    <3>3. QED
      BY <3>1, <3>2
  <2>4. QED
    BY <2>1, <2>2, <2>3 DEF TicksKept
<1>18. QED
  BY <1>11, <1>12, <1>15, <1>17 DEF GuidedInv

LEMMA GuidedInvariance == GuidedSpec => []GuidedInv
<1>1. GuidedInv /\ [GuidedNext]_guidedVars => GuidedInv'
  <2> SUFFICES ASSUME GuidedInv, [GuidedNext]_guidedVars PROVE GuidedInv'
    OBVIOUS
  <2>1. CASE UNCHANGED guidedVars
    <3>1. UNCHANGED <<approved, drafts, promoted, screen, clicks>>
      BY <2>1 DEF guidedVars
    <3>2. GuidedBase' /\ OneAtATime' /\ DraftsCounted'
      BY <3>1 DEF GuidedInv, GuidedBase, PressKnows, OneAtATime, Busy, DraftsCounted
    <3>3. TicksKept'
      BY <3>1 DEF GuidedInv, TicksKept, AskedAfresh, ForIts
    <3>4. QED
      BY <3>2, <3>3 DEF GuidedInv
  <2>2. CASE \/ LoadStages \/ ShowStageContext \/ LoseStageContext
             \/ \E stage \in Stage : SelectStage(stage)
             \/ ConfirmDraft \/ AnswerQuestions
    BY <2>2, ScreenActions
  <2>3. CASE ReopenStages
    BY <2>3, Reopens
  <2>4. ASSUME NEW c \in Click,
               \/ RefuseRequest(c) \/ RefuseApproval(c) \/ LoseAdvance(c) \/ ListProposals(c) \/ AdvanceStage(c)
               \/ TryNextModel(c) \/ LoseProposals(c)
        PROVE  GuidedInv'
    BY <2>4, PressesEnd, AsksNext
  <2>5. ASSUME NEW c \in Click, CreateStage(c) \/ PressApprove(c) \/ PromoteStage(c) \/ SaveProposal(c)
        PROVE  GuidedInv'
    BY <2>5, Creates, Approves, Promotes, Saves
  <2>6. QED
    BY <2>1, <2>2, <2>3, <2>4, <2>5 DEF GuidedNext
<1>2. QED
  BY <1>1, GuidedInitially, PTL DEF GuidedSpec

(* Creator Mode never shows more approved work or more fingerprints than   *)
(* the disk holds.                                                         *)
THEOREM GuidedTypes == GuidedSpec => []GuidedTypeOK
<1>1. GuidedInv => GuidedTypeOK
  BY DEF GuidedInv, GuidedBase, PressRecord, GuidedTypeOK
<1>2. QED
  BY <1>1, GuidedInvariance, PTL

(* Whatever is selected, reopened or answered late, the draft a press      *)
(* approves is the one on screen when the box was ticked, and a press      *)
(* leaves one proposal, unless a reading of the workspace failed after a   *)
(* proposal was saved.                                                     *)
THEOREM GuidedTickIsForItsDraft == GuidedSpec => []TickIsForItsDraft
<1>1. GuidedInv => TickIsForItsDraft
  BY DEF GuidedInv, TicksKept, ForIts, DraftsCounted, TickIsForItsDraft
<1>2. QED
  BY <1>1, GuidedInvariance, PTL

(* At most one press of the mounted screen is between its click and its    *)
(* answer: only a press whose screen was left may run beside it.           *)
THEOREM GuidedOneScreenPress ==
  GuidedSpec => [](\A c, d \in Click : Busy(c) /\ Busy(d) => c = d)
<1>1. GuidedInv => \A c, d \in Click : Busy(c) /\ Busy(d) => c = d
  BY DEF GuidedInv, OneAtATime
<1>2. QED
  BY <1>1, GuidedInvariance, PTL

-----------------------------------------------------------------------------
(* StudioShell.  Texts and tools stay in their production.                 *)

ShellRecord == [project : Owner, page : Page, intent : Owner, retake : Owner]
TextRecord == [details : [text : Owner, edition : Nat], profile : Owner]
DataRecord == [project : Owner, details : [text : Owner, edition : Nat], profile : Owner]
RoomRecord == [open : BOOLEAN, load : Owner, data : DataRecord, details : Owner, profile : Owner]
SaveRecord == [kind : {"none", "details", "profile"}, project : Owner, cites : DataRecord,
               text : Owner, mine : BOOLEAN]

(* Whatever has strayed: a room is open under a production only, and a     *)
(* save is for one.                                                        *)
ShellBase ==
  /\ shell \in ShellRecord /\ room \in RoomRecord /\ saving \in SaveRecord
  /\ texts \in [Production -> TextRecord]
  /\ saves \in Nat /\ strayed \in BOOLEAN
  /\ IF room.open THEN shell.project # "none" ELSE room = NoRoom
  /\ saving.kind # "none" => saving.project \in Production
  /\ saving.mine => room.open

(* As long as nothing has: what the forms hold, what is being read and     *)
(* what is being saved is the active production's, or the save's own.      *)
InProduction ==
  /\ OwnTexts
  /\ {shell.intent, shell.retake} \subseteq {"none", shell.project}
  /\ {room.load, room.details, room.profile} \subseteq {"none", shell.project}
  /\ saving.kind # "none" => saving.text \in {"none", saving.project}

ShellInv == ShellBase /\ (~ strayed => InProduction)

LEMMA NothingTyped ==
  ASSUME ShellAssumption
  PROVE  /\ NoRoom \in RoomRecord /\ NoSave \in SaveRecord /\ NoData \in DataRecord
         /\ ~ NoRoom.open /\ NoRoom.load = "none" /\ NoRoom.details = "none" /\ NoRoom.profile = "none"
         /\ NoRoom.data = NoData
         /\ NoSave.kind = "none" /\ ~ NoSave.mine /\ NoText.text = "none" /\ NoText \in [text : Owner, edition : Nat]
<1>1. NoText \in [text : Owner, edition : Nat] /\ NoText.text = "none"
  BY DEF NoText, Owner
<1>2. NoData \in DataRecord
  BY <1>1 DEF NoData, DataRecord, Owner
<1>3. NoRoom \in RoomRecord /\ NoRoom.data = NoData
  BY <1>2 DEF NoRoom, RoomRecord, Owner
<1>4. NoSave \in SaveRecord
  BY <1>2 DEF NoSave, SaveRecord, Owner
<1>5. QED
  BY <1>1, <1>2, <1>3, <1>4 DEF NoRoom, NoSave

LEMMA ShellInitially == ShellInit => ShellInv
<1> SUFFICES ASSUME ShellInit PROVE ShellInv
  OBVIOUS
<1> USE ShellAssumption, NothingTyped
<1>1. strayed \in BOOLEAN /\ saves \in Nat
  BY Zenon DEF ShellInit
<1>2. shell \in ShellRecord /\ shell.intent = "none" /\ shell.retake = "none"
  BY DEF ShellInit, OpenedAs, NoProject, ShellRecord, Owner, Page
<1>3. ASSUME NEW p \in Production
      PROVE  texts[p] \in TextRecord /\ texts[p].details.text \in {"none", p} /\ texts[p].profile \in {"none", p}
  <2>1. texts[p] \in {[details |-> NoText, profile |-> "none"]}
                     \cup {[details |-> [text |-> q, edition |-> 1], profile |-> q] : q \in Production}
        /\ texts[p].profile \in {"none", p}
    BY DEF ShellInit
  <2>2. CASE texts[p] = [details |-> NoText, profile |-> "none"]
    BY <2>2 DEF TextRecord, Owner
  <2>3. CASE \E q \in Production : texts[p] = [details |-> [text |-> q, edition |-> 1], profile |-> q]
    BY <2>1, <2>3 DEF TextRecord, Owner
  <2>4. QED
    BY <2>1, <2>2, <2>3
<1>4. texts \in [Production -> TextRecord]
  BY <1>3 DEF ShellInit
<1>5. ShellBase
  BY <1>1, <1>2, <1>4 DEF ShellInit, ShellBase
<1>6. InProduction
  BY <1>2, <1>3 DEF ShellInit, InProduction, OwnTexts
<1>7. QED
  BY <1>5, <1>6 DEF ShellInv

(* The room under the next shell is empty, new, or the one that was there. *)
LEMMA RoomUnderFacts ==
  ASSUME ShellBase, NEW s \in ShellRecord
  PROVE  /\ RoomUnder(s) \in RoomRecord
         /\ IF RoomUnder(s).open THEN s.project # "none" ELSE RoomUnder(s) = NoRoom
         /\ s.project = shell.project \/ s.page # "edit" =>
              \/ RoomUnder(s) = room /\ s.project = shell.project
              \/ /\ RoomUnder(s).load \in {"none", s.project}
                 /\ RoomUnder(s).details = "none" /\ RoomUnder(s).profile = "none"
<1> USE ShellAssumption, NothingTyped
<1>1. CASE s.page # "edit" \/ s.project = NoProject
  BY <1>1 DEF RoomUnder
<1>2. CASE ~ (s.page # "edit" \/ s.project = NoProject) /\ ~ room.open
  <2>1. RoomUnder(s) = [NoRoom EXCEPT !.open = TRUE, !.load = s.project]
    BY <1>2, Zenon DEF RoomUnder
  <2>2. s.project \in Owner /\ s.project # "none"
    BY <1>2 DEF ShellRecord, NoProject
  <2>3. RoomUnder(s) \in RoomRecord /\ RoomUnder(s).open /\ RoomUnder(s).load = s.project
        /\ RoomUnder(s).details = "none" /\ RoomUnder(s).profile = "none"
    BY <2>1, <2>2 DEF RoomRecord
  <2>4. QED
    BY <2>2, <2>3
<1>3. CASE ~ (s.page # "edit" \/ s.project = NoProject) /\ room.open
  <2>1. RoomUnder(s) = IF s.project = shell.project THEN room ELSE [room EXCEPT !.load = s.project]
    BY <1>3, Zenon DEF RoomUnder
  <2>2. s.project \in Owner /\ s.project # "none" /\ room \in RoomRecord
    BY <1>3 DEF ShellRecord, NoProject, ShellBase
  <2>3. [room EXCEPT !.load = s.project] \in RoomRecord /\ [room EXCEPT !.load = s.project].open = room.open
    BY <2>2 DEF RoomRecord
  <2>4. QED
    BY <1>3, <2>1, <2>2, <2>3
<1>4. QED
  BY <1>1, <1>2, <1>3

LEMMA ShellShows ==
  ASSUME ShellInv, NEW s \in ShellRecord, Show(s), strayed' \in BOOLEAN,
         ~ strayed' => /\ ~ strayed /\ {s.intent, s.retake} \subseteq {"none", s.project}
                       /\ s.project = shell.project \/ s.page # "edit"
  PROVE  ShellInv'
<1>1. ShellBase
  BY DEF ShellInv
<1>2. PICK under : under = RoomUnder(s)
  OBVIOUS
<1>3. /\ shell' = s /\ room' = under /\ UNCHANGED <<texts, saves>>
      /\ saving' = [saving EXCEPT !.mine = @ /\ under.open]
  BY <1>2 DEF Show
<1>4. /\ under \in RoomRecord
      /\ IF under.open THEN s.project # "none" ELSE under = NoRoom
      /\ s.project = shell.project \/ s.page # "edit" =>
           \/ under = room /\ s.project = shell.project
           \/ /\ under.load \in {"none", s.project}
              /\ under.details = "none" /\ under.profile = "none"
  BY <1>1, <1>2, RoomUnderFacts
<1>5. /\ saving' \in SaveRecord /\ saving'.kind = saving.kind /\ saving'.project = saving.project
      /\ saving'.text = saving.text /\ (saving'.mine => under.open)
  <2>1. PICK still : still = (saving.mine /\ under.open)
    OBVIOUS
  <2>2. saving \in SaveRecord /\ still \in BOOLEAN
    BY <1>1, <2>1 DEF ShellBase
  <2>3. saving' = [saving EXCEPT !.mine = still]
    BY <1>3, <2>1
  <2>4. QED
    BY <2>1, <2>2, <2>3 DEF SaveRecord
<1>6. ShellBase'
  BY <1>1, <1>3, <1>4, <1>5 DEF ShellBase
<1>7. ASSUME ~ strayed' PROVE InProduction'
  <2>1. InProduction
    BY <1>7 DEF ShellInv
  <2>2. {room'.load, room'.details, room'.profile} \subseteq {"none", shell'.project}
    BY <1>3, <1>4, <1>7, <2>1 DEF InProduction
  <2>3. OwnTexts'
    BY <1>3, <2>1 DEF InProduction, OwnTexts
  <2>4. saving'.kind # "none" => saving'.text \in {"none", saving'.project}
    BY <1>5, <2>1 DEF InProduction
  <2>5. QED
    BY <1>3, <1>7, <2>2, <2>3, <2>4 DEF InProduction
<1>8. QED
  BY <1>6, <1>7 DEF ShellInv

LEMMA WindowMoves ==
  ASSUME ShellInv,
         \/ \E p \in Production : AnswerOpen(p) \/ AnswerUpdate(p)
         \/ GoToLibrary \/ PlanRetake \/ RetakePlanned
         \/ \E page \in Page : Navigate(page) \/ FollowLink(page)
         \/ \E tool \in Tool : OpenQuickTool(tool)
  PROVE  ShellInv'
<1>1. shell \in ShellRecord /\ strayed \in BOOLEAN
      /\ (~ strayed => {shell.intent, shell.retake} \subseteq {"none", shell.project})
  BY DEF ShellInv, ShellBase, InProduction
<1>2. ASSUME NEW p \in Production, AnswerOpen(p) PROVE ShellInv'
  <2>1. PICK s : s = Opened(p)
    OBVIOUS
  <2>2. s \in ShellRecord /\ s.page = "creator" /\ s.intent = "none" /\ s.retake = "none"
    BY <2>1 DEF Opened, OpenedAs, ShellRecord, Owner, Page
  <2>3. Show(s) /\ strayed' = strayed
    BY <1>2, <2>1 DEF AnswerOpen
  <2>4. QED
    BY <1>1, <2>2, <2>3, ShellShows
<1>3. ASSUME NEW p \in Production, AnswerUpdate(p) PROVE ShellInv'
  <2>1. PICK s : s = [shell EXCEPT !.project = p]
    OBVIOUS
  <2>2. s \in ShellRecord /\ s.project = p /\ s.intent = shell.intent /\ s.retake = shell.retake
    BY <1>1, <2>1 DEF ShellRecord, Owner
  <2>3. Show(s) /\ strayed' = (strayed \/ shell.project # p)
    BY <1>3, <2>1 DEF AnswerUpdate
  <2>4. QED
    BY <1>1, <2>2, <2>3, ShellShows
<1>4. ASSUME GoToLibrary PROVE ShellInv'
  <2>1. PICK s : s = OpenedAs(NoProject, "home", "none")
    OBVIOUS
  <2>2. s \in ShellRecord /\ s.page = "home" /\ s.intent = "none" /\ s.retake = "none"
    BY <2>1 DEF OpenedAs, ShellRecord, Owner, Page, NoProject
  <2>3. Show(s) /\ strayed' = strayed
    BY <1>4, <2>1 DEF GoToLibrary
  <2>4. QED
    BY <1>1, <2>2, <2>3, ShellShows
<1>5. ASSUME PlanRetake PROVE ShellInv'
  <2>1. PICK s : s = [shell EXCEPT !.page = "generate", !.intent = "none", !.retake = shell.project]
    OBVIOUS
  <2>2. s \in ShellRecord /\ s.project = shell.project /\ s.intent = "none" /\ s.retake = shell.project
    BY <1>1, <2>1 DEF ShellRecord, Owner, Page
  <2>3. Show(s) /\ strayed' = strayed
    BY <1>5, <2>1 DEF PlanRetake
  <2>4. QED
    BY <1>1, <2>2, <2>3, ShellShows
<1>6. ASSUME RetakePlanned PROVE ShellInv'
  <2>1. PICK s : s = [shell EXCEPT !.retake = "none"]
    OBVIOUS
  <2>2. s \in ShellRecord /\ s.project = shell.project /\ s.intent = shell.intent /\ s.retake = "none"
    BY <1>1, <2>1 DEF ShellRecord, Owner
  <2>3. Show(s) /\ strayed' = strayed
    BY <1>6, <2>1 DEF RetakePlanned
  <2>4. QED
    BY <1>1, <2>2, <2>3, ShellShows
<1>7. ASSUME NEW page \in Page, Navigate(page) PROVE ShellInv'
  <2>1. PICK s : s = [shell EXCEPT !.page = page, !.intent = "none"]
    OBVIOUS
  <2>2. s \in ShellRecord /\ s.project = shell.project /\ s.intent = "none" /\ s.retake = shell.retake
    BY <1>1, <2>1 DEF ShellRecord, Owner
  <2>3. Show(s) /\ strayed' = strayed
    BY <1>7, <2>1 DEF Navigate
  <2>4. QED
    BY <1>1, <2>2, <2>3, ShellShows
<1>8. ASSUME NEW page \in Page, FollowLink(page) PROVE ShellInv'
  <2>1. PICK s : s = [shell EXCEPT !.page = page]
    OBVIOUS
  <2>2. s \in ShellRecord /\ s.project = shell.project /\ s.intent = shell.intent /\ s.retake = shell.retake
    BY <1>1, <2>1 DEF ShellRecord
  <2>3. Show(s) /\ strayed' = strayed
    BY <1>8, <2>1 DEF FollowLink
  <2>4. QED
    BY <1>1, <2>2, <2>3, ShellShows
<1>9. ASSUME NEW tool \in Tool, OpenQuickTool(tool) PROVE ShellInv'
  <2> DEFINE page == IF tool = "stitch" THEN "edit" ELSE "generate"
  <2>1. PICK s : s = OpenedAs(shell.project, page, shell.project)
    OBVIOUS
  <2>2. s \in ShellRecord /\ s.project = shell.project /\ s.intent = shell.project /\ s.retake = "none"
    BY <1>1, <2>1 DEF OpenedAs, ShellRecord, Owner, Page
  <2>3. Show(s) /\ strayed' = strayed
    BY <1>9, <2>1 DEF OpenQuickTool, QuickCreate
  <2>4. QED
    BY <1>1, <2>2, <2>3, ShellShows
<1>10. QED
  BY <1>2, <1>3, <1>4, <1>5, <1>6, <1>7, <1>8, <1>9

(* The window, the room and the texts stay; a save may begin or be refused. *)
LEMMA ShellKeeps ==
  ASSUME ShellInv, UNCHANGED <<shell, texts, strayed>>, saves' = saves,
         room' \in RoomRecord, room'.open = room.open, ~ room.open => room' = room,
         saving' \in SaveRecord, saving'.mine => room.open,
         saving'.kind # "none" => saving'.project \in Production,
         ~ strayed => /\ {room'.load, room'.details, room'.profile} \subseteq {"none", shell.project}
                      /\ saving'.kind # "none" => saving'.text \in {"none", saving'.project}
  PROVE  ShellInv'
<1> USE ShellAssumption, NothingTyped
<1>1. ShellBase'
  BY DEF ShellInv, ShellBase
<1>2. ASSUME ~ strayed PROVE InProduction'
  BY <1>2 DEF ShellInv, InProduction, OwnTexts
<1>3. QED
  BY <1>1, <1>2 DEF ShellInv

Refilled(load, data, details, profile) ==
  [room EXCEPT !.load = load, !.data = data, !.details = details, !.profile = profile]

LEMMA RoomMoves ==
  ASSUME ShellInv, LoadRoom \/ LoseRoom \/ TypeDetails \/ TypeProfile
  PROVE  ShellInv'
<1> USE ShellAssumption, NothingTyped
<1>1. /\ shell \in ShellRecord /\ room \in RoomRecord /\ saving \in SaveRecord
      /\ texts \in [Production -> TextRecord]
      /\ IF room.open THEN shell.project # "none" ELSE room = NoRoom
      /\ saving.kind # "none" => saving.project \in Production
      /\ saving.mine => room.open
      /\ ~ strayed => InProduction
  BY DEF ShellInv, ShellBase
<1>2. UNCHANGED <<shell, saving, texts, saves, strayed>>
  BY DEF LoadRoom, LoseRoom, TypeDetails, TypeProfile
<1>3. ASSUME NEW load \in Owner, NEW data \in DataRecord, NEW details \in Owner, NEW profile \in Owner,
             room' = Refilled(load, data, details, profile),
             room.open,
             ~ strayed => {load, details, profile} \subseteq {"none", shell.project}
      PROVE  ShellInv'
  <2>1. room' \in RoomRecord /\ room'.open = room.open /\ room'.load = load /\ room'.details = details
        /\ room'.profile = profile
    BY <1>1, <1>3 DEF RoomRecord, Refilled
  <2>2. ~ strayed => (saving'.kind # "none" => saving'.text \in {"none", saving'.project})
    BY <1>1, <1>2 DEF InProduction
  <2>3. QED
    BY <1>1, <1>2, <1>3, <2>1, <2>2, ShellKeeps
<1>4. room.load \in Owner /\ room.details \in Owner /\ room.profile \in Owner /\ room.data \in DataRecord
      /\ shell.project \in Owner
      /\ room = [open |-> room.open, load |-> room.load, data |-> room.data, details |-> room.details,
                 profile |-> room.profile]
  BY <1>1 DEF RoomRecord, ShellRecord
<1>5. ~ strayed => {room.load, room.details, room.profile} \subseteq {"none", shell.project}
  BY <1>1 DEF InProduction
<1>6. CASE LoadRoom
  <2>1. room.load # "none" /\ room.load \in Production /\ room.open
    BY <1>1, <1>4, <1>6 DEF LoadRoom, Owner
  <2>2. PICK p \in Production : p = room.load
    BY <2>1
  <2>3. PICK data : data = [project |-> p, details |-> texts[p].details, profile |-> texts[p].profile]
    OBVIOUS
  <2>4. PICK details : details = IF texts[p].details = NoText THEN room.details ELSE texts[p].details.text
    OBVIOUS
  <2>5. PICK profile : profile = IF room.data # NoData THEN room.profile
                                 ELSE IF texts[p].profile = "none" THEN p ELSE texts[p].profile
    OBVIOUS
  <2>6. texts[p] \in TextRecord
    BY <1>1
  <2>7. data \in DataRecord /\ details \in Owner /\ profile \in Owner
    BY <1>4, <2>3, <2>4, <2>5, <2>6 DEF TextRecord, DataRecord, Owner
  <2>8. room' = Refilled("none", data, details, profile)
    BY <1>6, <2>2, <2>3, <2>4, <2>5 DEF LoadRoom, Refilled
  <2>9. ASSUME ~ strayed PROVE {"none", details, profile} \subseteq {"none", shell.project}
    <3>1. p = shell.project /\ texts[p].details.text \in {"none", p} /\ texts[p].profile \in {"none", p}
      BY <1>1, <2>1, <2>2, <2>9 DEF InProduction, OwnTexts
    <3>2. QED
      BY <1>5, <2>4, <2>5, <2>9, <3>1
  <2>10. "none" \in Owner
    BY DEF Owner
  <2>11. QED
    BY <1>3, <2>1, <2>7, <2>8, <2>9, <2>10
<1>7. CASE LoseRoom
  <2>1. room.open
    BY <1>1, <1>7 DEF LoseRoom
  <2>2. room' = Refilled("none", room.data, room.details, room.profile)
    BY <1>4, <1>7 DEF LoseRoom, Refilled
  <2>3. "none" \in Owner
    BY DEF Owner
  <2>4. QED
    BY <1>3, <1>4, <1>5, <2>1, <2>2, <2>3
<1>8. CASE TypeDetails
  <2>1. room.open /\ room' = [room EXCEPT !.details = shell.project]
    BY <1>8 DEF TypeDetails
  <2>2. room' = Refilled(room.load, room.data, shell.project, room.profile)
    BY <1>4, <2>1 DEF Refilled
  <2>3. QED
    BY <1>3, <1>4, <1>5, <2>1, <2>2
<1>9. CASE TypeProfile
  <2>1. room.open /\ room' = [room EXCEPT !.profile = shell.project]
    BY <1>1, <1>9 DEF TypeProfile
  <2>2. room' = Refilled(room.load, room.data, room.details, shell.project)
    BY <1>4, <2>1 DEF Refilled
  <2>3. QED
    BY <1>3, <1>4, <1>5, <2>1, <2>2
<1>10. QED
  BY <1>6, <1>7, <1>8, <1>9

LEMMA SavesBegin ==
  ASSUME ShellInv, PressSaveDetails \/ PressSaveProfile \/ RefuseSave
  PROVE  ShellInv'
<1> USE ShellAssumption, NothingTyped
<1>1. /\ shell \in ShellRecord /\ room \in RoomRecord
      /\ IF room.open THEN shell.project # "none" ELSE room = NoRoom
      /\ ~ strayed => InProduction
  BY DEF ShellInv, ShellBase
<1>2. UNCHANGED <<shell, room, texts, saves, strayed>>
  BY DEF PressSaveDetails, PressSaveProfile, RefuseSave
<1>3. ~ strayed => {room'.load, room'.details, room'.profile} \subseteq {"none", shell.project}
  BY <1>1, <1>2 DEF InProduction
<1>4. CASE RefuseSave
  BY <1>1, <1>2, <1>3, <1>4, ShellKeeps DEF RefuseSave
<1>5. CASE PressSaveDetails \/ PressSaveProfile
  <2>1. PICK text \in {room.details, room.profile} : \E kind \in {"details", "profile"} :
          saving' = [kind |-> kind, project |-> shell.project, cites |-> room.data, text |-> text, mine |-> TRUE]
    BY <1>5 DEF PressSaveDetails, PressSaveProfile
  <2>2. room.open /\ text \in Owner /\ room.data \in DataRecord /\ shell.project \in Production
    BY <1>1, <1>5, <2>1 DEF PressSaveDetails, PressSaveProfile, RoomRecord, ShellRecord, Owner
  <2>3. saving' \in SaveRecord /\ saving'.project = shell.project /\ saving'.text = text
    BY <2>1, <2>2 DEF SaveRecord, Owner
  <2>4. ~ strayed => text \in {"none", shell.project}
    BY <1>1, <2>1 DEF InProduction
  <2>5. QED
    BY <1>1, <1>2, <1>3, <2>2, <2>3, <2>4, ShellKeeps
<1>6. QED
  BY <1>4, <1>5

LEMMA SaveAnswers ==
  ASSUME ShellInv, AnswerSave
  PROVE  ShellInv'
<1> USE ShellAssumption, NothingTyped
<1>1. /\ room \in RoomRecord /\ saving \in SaveRecord /\ texts \in [Production -> TextRecord] /\ saves \in Nat
      /\ IF room.open THEN shell.project # "none" ELSE room = NoRoom
      /\ saving.kind # "none" => saving.project \in Production
      /\ saving.mine => room.open
      /\ ~ strayed => InProduction
  BY DEF ShellInv, ShellBase
<1>2. saving.kind \in {"details", "profile"} /\ UNCHANGED <<shell, answers, strayed>> /\ saving' = NoSave
      /\ saves' = saves + 1
  BY DEF AnswerSave
<1>3. PICK p \in Production : p = saving.project
  BY <1>1, <1>2
<1>4. PICK saved : saved = IF saving.kind = "profile" THEN [texts[p] EXCEPT !.profile = saving.text]
                           ELSE [texts[p] EXCEPT !.details = [text |-> saving.text, edition |-> saves + 2]]
  OBVIOUS
<1>5. texts[p] \in TextRecord /\ saving.text \in Owner
  BY <1>1 DEF SaveRecord
<1>6. saved \in TextRecord
      /\ (\/ saved.profile = saving.text /\ saved.details = texts[p].details
          \/ saved.profile = texts[p].profile /\ saved.details.text = saving.text)
  BY <1>1, <1>4, <1>5 DEF TextRecord
<1>7. texts' = [texts EXCEPT ![p] = saved]
  BY <1>3, <1>4 DEF AnswerSave, SavedProfile
<1>8. texts' \in [Production -> TextRecord] /\ \A q \in Production : texts'[q] = IF q = p THEN saved ELSE texts[q]
  BY <1>1, <1>6, <1>7
<1>9. PICK data : data = [project |-> p, details |-> saved.details, profile |-> saved.profile]
  OBVIOUS
<1>10. data \in DataRecord
  BY <1>6, <1>9 DEF TextRecord, DataRecord, Owner
<1>11. room' \in RoomRecord /\ room'.open = room.open /\ (~ room.open => room' = NoRoom)
       /\ room'.load = room.load /\ room'.details = room.details /\ room'.profile = room.profile
  <2>1. room' = IF saving.mine THEN [room EXCEPT !.data = data] ELSE room
    BY <1>3, <1>4, <1>9 DEF AnswerSave, SavedProfile
  <2>2. QED
    BY <1>1, <1>10, <2>1 DEF RoomRecord
<1>12. ShellBase'
  BY <1>2, <1>8, <1>11 DEF ShellInv, ShellBase
<1>13. ASSUME ~ strayed PROVE InProduction'
  <2>1. InProduction
    BY <1>1, <1>13
  <2>2. saving.text \in {"none", p}
    BY <1>2, <1>3, <2>1 DEF InProduction
  <2>3. ASSUME NEW q \in Production
        PROVE  texts'[q].details.text \in {"none", q} /\ texts'[q].profile \in {"none", q}
    BY <1>6, <1>8, <2>1, <2>2 DEF InProduction, OwnTexts
  <2>4. OwnTexts'
    BY <2>3 DEF OwnTexts
  <2>5. QED
    BY <1>2, <1>11, <2>1, <2>4 DEF InProduction
<1>14. QED
  BY <1>2, <1>12, <1>13 DEF ShellInv

LEMMA ShellWaits ==
  ASSUME ShellInv, UNCHANGED <<shell, room, saving, texts, saves, strayed>>
  PROVE  ShellInv'
<1>1. ShellBase'
  BY DEF ShellInv, ShellBase
<1>2. InProduction => InProduction'
  BY DEF InProduction, OwnTexts
<1>3. QED
  BY <1>1, <1>2 DEF ShellInv

LEMMA ShellInvariance == ShellSpec => []ShellInv
<1>1. ShellInv /\ [ShellNext]_shellVars => ShellInv'
  <2> SUFFICES ASSUME ShellInv, [ShellNext]_shellVars PROVE ShellInv'
    OBVIOUS
  <2>1. CASE \/ \E p \in Production : PressOpen(p) \/ PressRestore(p)
             \/ PressUpdate \/ \E a \in answers : LoseAnswer(a)
             \/ UNCHANGED shellVars
    <3>1. UNCHANGED <<shell, room, saving, texts, saves, strayed>>
      BY <2>1 DEF PressOpen, PressRestore, PressUpdate, LoseAnswer, Call, shellVars
    <3>2. QED
      BY <3>1, ShellWaits
  <2>2. CASE \/ \E p \in Production : AnswerOpen(p) \/ AnswerUpdate(p)
             \/ GoToLibrary \/ PlanRetake \/ RetakePlanned
             \/ \E page \in Page : Navigate(page) \/ FollowLink(page)
             \/ \E tool \in Tool : OpenQuickTool(tool)
    BY <2>2, WindowMoves
  <2>3. CASE LoadRoom \/ LoseRoom \/ TypeDetails \/ TypeProfile
    BY <2>3, RoomMoves
  <2>4. CASE PressSaveDetails \/ PressSaveProfile \/ RefuseSave
    BY <2>4, SavesBegin
  <2>5. CASE AnswerSave
    BY <2>5, SaveAnswers
  <2>6. QED
    BY <2>1, <2>2, <2>3, <2>4, <2>5 DEF ShellNext
<1>2. QED
  BY <1>1, ShellInitially, PTL DEF ShellSpec

(* The window, its rooms and the saved texts keep their types.             *)
THEOREM ShellTypes == ShellSpec => []ShellTypeOK
<1>1. ShellInv => ShellTypeOK
  BY DEF ShellInv, ShellBase, ShellRecord, RoomRecord, TextRecord, ShellTypeOK
<1>2. QED
  BY <1>1, ShellInvariance, PTL

(* However late openings, restores and saves are answered, and until an    *)
(* update is answered for a production that is no longer open, a text is   *)
(* saved only in the production it was written for, and a one-off tool or  *)
(* a retake stays in the production it was chosen in.                      *)
THEOREM ShellStaysInProduction == ShellSpec => []StaysInProduction
<1>1. ShellInv => StaysInProduction
  BY DEF ShellInv, InProduction, StaysInProduction
<1>2. QED
  BY <1>1, ShellInvariance, PTL
=============================================================================
