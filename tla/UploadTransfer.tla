--------------------------- MODULE UploadTransfer ---------------------------
(***************************************************************************)
(* One input file on its way to a worker: WorkerClient.uploadAssetFromPath *)
(* sends it chunk by chunk, upload() of the gateway appends the chunks to  *)
(* a partial file, verifies the whole and renames it to its destination,   *)
(* and POST /v1/jobs verifies it again before it accepts the job.          *)
(*                                                                         *)
(* A handler runs to its next await without interruption; handlers of      *)
(* different requests interleave at awaits.  A request the client has      *)
(* given up goes on being handled.  Files are told apart from their names: *)
(* a handler that has opened the partial file goes on writing to it after  *)
(* it is renamed or removed.                                               *)
(***************************************************************************)
EXTENDS Naturals, Sequences, FiniteSets

CONSTANTS Caller,     \* reconciliations that may upload at once
          Timer,      \* the one of the recovery timer, which tries again
          Slot,       \* requests the gateway may be handling at once
          NoSlot,
          File,       \* the files that may exist on the worker's disk
          NoFile,
          Chunks,     \* length of the input in chunks
          Overlap,    \* may an upload start while a request is handled?
          Restarts,   \* may the gateway's process be restarted?
          MaxFaults   \* bound on lost answers, broken bodies and restarts

ASSUME UploadAssumption ==
  /\ Timer \in Caller
  /\ NoSlot \notin Slot
  /\ NoFile \notin File
  /\ Chunks \in Nat \ {0}
  /\ Overlap \in BOOLEAN
  /\ Restarts \in BOOLEAN
  /\ MaxFaults \in Nat

VARIABLES client,   \* the suspended uploads of the application
          slot,     \* the suspended upload handlers of the gateway
          content,  \* what each file holds
          partial,  \* the file named <destination>.partial
          stored,   \* the file named <destination>
          metadata, \* does <destination>.upload.json exist?
          faults

vars == <<client, slot, content, partial, stored, metadata, faults>>
disk == <<content, partial, stored, metadata>>

ClientState == {"idle", "ready", "waiting", "uploaded", "accepted"}

Client == [pc : ClientState, next : 0..Chunks, slot : Slot \cup {NoSlot}]

Idle == [pc |-> "idle", next |-> 0, slot |-> NoSlot]

Handling == {"arrived", "hashing stored", "opening", "writing", "written",
             "hashing", "renaming"}

(* answer is the receipt's nextOffset, in chunks; 0 is a refusal.          *)
Request == [pc     : {"free", "answered"} \cup Handling,
            chunk  : 0..Chunks - 1,
            file   : File \cup {NoFile},
            answer : 0..Chunks]

Free == [pc |-> "free", chunk |-> 0, file |-> NoFile, answer |-> 0]

(* A piece of a file: a chunk as the input has it, a chunk of a changed    *)
(* input, or the part of a chunk that came before the connection broke.    *)
Piece == [chunk : 0..Chunks - 1, kind : {"good", "altered", "torn"}]

TypeOK == /\ client \in [Caller -> Client]
          /\ slot \in [Slot -> Request]
          /\ content \in [File -> Seq(Piece)]
          /\ partial \in File \cup {NoFile}
          /\ stored \in File \cup {NoFile}
          /\ metadata \in BOOLEAN
          /\ faults \in 0..MaxFaults

Init == /\ client = [c \in Caller |-> Idle]
        /\ slot = [s \in Slot |-> Free]
        /\ content = [f \in File |-> << >>]
        /\ partial = NoFile
        /\ stored = NoFile
        /\ metadata = FALSE
        /\ faults = 0

Fault == faults < MaxFaults /\ faults' = faults + 1

-----------------------------------------------------------------------------
(* Files.                                                                  *)

Whole == [k \in 1..Chunks |-> [chunk |-> k - 1, kind |-> "good"]]

IsWhole(f) == content[f] = Whole

(* Only the last chunk is shorter, and a torn one has a size of its own:   *)
(* a file has the size of the first k chunks when the counts agree.        *)
HasSize(f, k) ==
  LET last == {n \in DOMAIN content[f] : content[f][n].chunk = Chunks - 1}
  IN  /\ Len(content[f]) = k
      /\ \A n \in DOMAIN content[f] : content[f][n].kind # "torn"
      /\ Cardinality(last) = IF k = Chunks THEN 1 ELSE 0

(* existsSync(temporary) ? statSync(temporary).size : 0                    *)
PartialHasSize(k) == IF partial = NoFile THEN k = 0 ELSE HasSize(partial, k)

(* Files no name and no handler refers to.  File bounds the model: one per *)
(* handler and two names are enough.                                       *)
UnusedFiles == File \ ({partial, stored} \cup {slot[s].file : s \in Slot})

Append1(f, piece) == content' = [content EXCEPT ![f] = Append(@, piece)]

-----------------------------------------------------------------------------
(* The application: uploadAssetFromPath, and submitJob after it.           *)

Accepted == \E c \in Caller : client[c].pc = "accepted"

HandlersAreFree == \A s \in Slot : slot[s].pc = "free"

StartUpload(c) ==
  /\ client[c].pc = "idle"
  /\ ~ Accepted
  /\ Overlap \/ (HandlersAreFree /\ \A d \in Caller : client[d].pc = "idle")
  /\ client' = [client EXCEPT ![c].pc = "ready"]
  /\ UNCHANGED <<slot, disk, faults>>

SendChunk(c, s) ==
  /\ client[c].pc = "ready"
  /\ slot[s].pc = "free"
  /\ slot' = [slot EXCEPT ![s] = [Free EXCEPT !.pc = "arrived", !.chunk = client[c].next]]
  /\ client' = [client EXCEPT ![c].pc = "waiting", ![c].slot = s]
  /\ UNCHANGED <<disk, faults>>

(* The receipt must name the end of the chunk that was sent: a receipt     *)
(* that is further on is an integrity failure.                             *)
ReceiveReceipt(c) ==
  LET s    == client[c].slot
      sent == client[c].next + 1
  IN  /\ client[c].pc = "waiting"
      /\ slot[s].pc = "answered"
      /\ client' = [client EXCEPT ![c] =
           IF slot[s].answer # sent
           THEN Idle
           ELSE [pc |-> IF sent = Chunks THEN "uploaded" ELSE "ready",
                 next |-> sent, slot |-> NoSlot]]
      /\ slot' = [slot EXCEPT ![s] = Free]
      /\ UNCHANGED <<disk, faults>>

(* The request times out, or the application stops.                        *)
GivesUp(c) ==
  /\ client[c].pc \in {"ready", "waiting", "uploaded"}
  /\ Fault
  /\ client' = [client EXCEPT ![c] = Idle]
  /\ slot' = [s \in Slot |-> IF s = client[c].slot /\ slot[s].pc = "answered"
                             THEN Free ELSE slot[s]]
  /\ UNCHANGED disk

(* verifyJobInputs reads the stored file again.                            *)
SubmitJob(c) ==
  /\ client[c].pc = "uploaded"
  /\ client' = [client EXCEPT ![c] =
       IF stored # NoFile /\ IsWhole(stored) THEN [Idle EXCEPT !.pc = "accepted"] ELSE Idle]
  /\ UNCHANGED <<slot, disk, faults>>

-----------------------------------------------------------------------------
(* The gateway: upload().                                                  *)

Wanted(s) == \E c \in Caller : client[c].pc = "waiting" /\ client[c].slot = s

(* The response of a request that was given up goes nowhere.               *)
Answer(s, a) ==
  slot' = [slot EXCEPT ![s] = IF Wanted(s) THEN [Free EXCEPT !.pc = "answered", !.answer = a]
                                           ELSE Free]

(* A refusal with a status: the partial file stays.                        *)
Refuse(s) == Answer(s, 0) /\ UNCHANGED disk

(* Mutant: the partial file is left behind.                                *)
FailKeepingFile(s) ==
  /\ Answer(s, 0)
  /\ metadata' = FALSE
  /\ UNCHANGED <<content, partial, stored>>

(* Any other error in the transfer removes the partial file.               *)
Fail(s) == /\ Answer(s, 0)
           /\ partial' = NoFile
           /\ metadata' = FALSE
           /\ UNCHANGED <<content, stored>>

Continue(s, a) == slot' = [slot EXCEPT ![s].pc = a] /\ UNCHANGED disk

Last(s) == slot[s].chunk + 1 = Chunks

(* From the headers to the first await.                                    *)
UploadStored(s) ==
  /\ slot[s].pc = "arrived"
  /\ stored # NoFile
  /\ IF HasSize(stored, Chunks) THEN Continue(s, "hashing stored") ELSE Refuse(s)
  /\ UNCHANGED <<client, faults>>

UploadArrives(s) ==
  /\ slot[s].pc = "arrived"
  /\ stored = NoFile
  /\ LET first == slot[s].chunk = 0 /\ partial = NoFile
         known == metadata \/ first
     IN  /\ CASE ~ known -> Answer(s, 0)
              [] known /\ PartialHasSize(slot[s].chunk + 1) ->
                   IF Last(s) THEN slot' = [slot EXCEPT ![s].pc = "hashing"]
                              ELSE Answer(s, slot[s].chunk + 1)
              [] known /\ PartialHasSize(slot[s].chunk) -> slot' = [slot EXCEPT ![s].pc = "opening"]
              [] OTHER -> Answer(s, 0)
         /\ metadata' = known
  /\ UNCHANGED <<client, content, partial, stored, faults>>

(* The stored file's hash was read: complete, at the end of the file.      *)
UploadStoredHashed(s) ==
  /\ slot[s].pc = "hashing stored"
  /\ IF IsWhole(stored) THEN Answer(s, Chunks) /\ UNCHANGED disk ELSE Refuse(s)
  /\ UNCHANGED <<client, faults>>

(* The first chunk creates the partial file and must not find one; a later *)
(* chunk appends to it, and creates it when it has been removed meanwhile. *)
OpenPartial(s) ==
  /\ slot[s].pc = "opening"
  /\ CASE slot[s].chunk = 0 /\ partial # NoFile -> Fail(s)
       [] partial = NoFile ->
            /\ UnusedFiles # {}
            /\ LET f == CHOOSE f \in UnusedFiles : TRUE
               IN  /\ partial' = f
                   /\ content' = [content EXCEPT ![f] = << >>]
                   /\ slot' = [slot EXCEPT ![s].pc = "writing", ![s].file = f]
            /\ UNCHANGED <<stored, metadata>>
       [] OTHER ->
            /\ slot' = [slot EXCEPT ![s].pc = "writing", ![s].file = partial]
            /\ UNCHANGED disk
  /\ UNCHANGED <<client, faults>>

WriteChunk(s) ==
  /\ slot[s].pc = "writing"
  /\ \/ Append1(slot[s].file, [chunk |-> slot[s].chunk, kind |-> "good"]) /\ UNCHANGED faults
     \/ Append1(slot[s].file, [chunk |-> slot[s].chunk, kind |-> "altered"]) /\ Fault
  /\ slot' = [slot EXCEPT ![s].pc = "written"]
  /\ UNCHANGED <<client, partial, stored, metadata>>

(* The body breaks off: certain to cost nothing once the client gave up.   *)
WriteBreaks(s) ==
  /\ slot[s].pc = "writing"
  /\ IF Wanted(s) THEN Fault ELSE UNCHANGED faults
  /\ \/ UNCHANGED content
     \/ Append1(slot[s].file, [chunk |-> slot[s].chunk, kind |-> "torn"])
  /\ Answer(s, 0)
  /\ partial' = NoFile
  /\ metadata' = FALSE
  /\ UNCHANGED <<client, stored>>

(* Mutant: the last chunk is acknowledged before the file is verified.     *)
CheckWrittenEarly(s) ==
  /\ slot[s].pc = "written"
  /\ IF partial # NoFile /\ HasSize(partial, slot[s].chunk + 1)
     THEN Answer(s, slot[s].chunk + 1) /\ UNCHANGED disk
     ELSE Fail(s)
  /\ UNCHANGED <<client, faults>>

(* statSync(temporary): what is under the name now.                        *)
CheckWritten(s) ==
  /\ slot[s].pc = "written"
  /\ CASE partial = NoFile \/ ~ PartialHasSize(slot[s].chunk + 1) -> Fail(s)
       [] partial # NoFile /\ PartialHasSize(slot[s].chunk + 1) ->
            IF Last(s) THEN Continue(s, "hashing")
                       ELSE Answer(s, slot[s].chunk + 1) /\ UNCHANGED disk
  /\ UNCHANGED <<client, faults>>

(* Mutant: the hash is not compared.                                       *)
HashAnyPartial(s) ==
  /\ slot[s].pc = "hashing"
  /\ IF partial # NoFile THEN Continue(s, "renaming") ELSE Fail(s)
  /\ UNCHANGED <<client, faults>>

HashPartial(s) ==
  /\ slot[s].pc = "hashing"
  /\ IF partial # NoFile /\ IsWhole(partial) THEN Continue(s, "renaming") ELSE Fail(s)
  /\ UNCHANGED <<client, faults>>

RenamePartial(s) ==
  /\ slot[s].pc = "renaming"
  /\ IF partial = NoFile
     THEN Fail(s)
     ELSE /\ stored' = partial
          /\ partial' = NoFile
          /\ metadata' = FALSE
          /\ Answer(s, Chunks)
          /\ UNCHANGED content
  /\ UNCHANGED <<client, faults>>

(* The process is restarted.  Its files stay, a file being written as far  *)
(* as it came.                                                             *)
GatewayRestarts ==
  /\ Restarts
  /\ Fault
  /\ ~ HandlersAreFree
  /\ slot' = [s \in Slot |-> Free]
  /\ client' = [c \in Caller |-> IF client[c].pc = "waiting" THEN Idle ELSE client[c]]
  /\ \/ UNCHANGED content
     \/ \E s \in Slot :
          /\ slot[s].pc = "writing"
          /\ Append1(slot[s].file, [chunk |-> slot[s].chunk, kind |-> "torn"])
  /\ UNCHANGED <<partial, stored, metadata>>

-----------------------------------------------------------------------------
CallStep(c) == \/ \E s \in Slot : SendChunk(c, s)
               \/ ReceiveReceipt(c)
               \/ SubmitJob(c)

HandlerStep(s) ==
  \/ UploadStored(s) \/ UploadArrives(s) \/ UploadStoredHashed(s) \/ OpenPartial(s)
  \/ WriteChunk(s) \/ WriteBreaks(s) \/ CheckWritten(s) \/ HashPartial(s) \/ RenamePartial(s)

Next == \/ \E c \in Caller : StartUpload(c) \/ CallStep(c) \/ GivesUp(c)
        \/ \E s \in Slot : HandlerStep(s)
        \/ GatewayRestarts

Spec == Init /\ [][Next]_vars

(* Requests have timeouts and handlers read and write local files; the     *)
(* timer reconciles a job that is provisioning again and again.            *)
Fairness == /\ \A c \in Caller : WF_vars(CallStep(c))
            /\ \A s \in Slot : WF_vars(HandlerStep(s))
            /\ WF_vars(StartUpload(Timer))

FairSpec == Spec /\ Fairness

-----------------------------------------------------------------------------
(* The file under the destination's name is the input, whatever broke off, *)
(* was given up or was sent twice on the way: upload() verifies the hash   *)
(* before the rename, and nothing may change the file afterwards.          *)
StoredIsWhole == stored # NoFile => IsWhole(stored)

(* A client that holds all its receipts left a stored file: the last one   *)
(* is sent only after the rename, also when the upload was recovered.      *)
UploadedIsStored ==
  \A c \in Caller : client[c].pc \in {"uploaded", "accepted"} => stored # NoFile

(* The timer's upload, tried again after each failure, ends with the       *)
(* worker accepting the job.                                               *)
UploadCompletes == client[Timer].pc = "ready" ~> Accepted
=============================================================================
