----------------------- MODULE UploadTransfer_proofs -----------------------
(***************************************************************************)
(* Proofs about UploadTransfer, for any number of callers, requests,       *)
(* files, chunks and faults.                                               *)
(***************************************************************************)
EXTENDS UploadTransfer, TLAPS

(* A receipt for the whole input, and a handler that compares the stored   *)
(* file, exist only once the file is stored.                               *)
ReceiptsAreStored ==
  \A s \in Slot : slot[s].answer = Chunks \/ slot[s].pc = "hashing stored"
                    => stored # NoFile

(* A client that holds fewer receipts than chunks has a chunk to send.     *)
ChunkIsLeft == \A c \in Caller : client[c].pc # "uploaded" => client[c].next # Chunks

(* A waiting client has a request.                                         *)
WaitsForRequest == \A c \in Caller : client[c].pc = "waiting" => client[c].slot \in Slot

UploadInv ==
  TypeOK /\ UploadedIsStored /\ ReceiptsAreStored /\ ChunkIsLeft /\ WaitsForRequest

-----------------------------------------------------------------------------
LEMMA InitUpload == Init => UploadInv
  <1>. SUFFICES ASSUME Init
                PROVE  UploadInv
    OBVIOUS
  <1>1. /\ Chunks \in Nat /\ Chunks # 0 /\ 0 \in 0..Chunks /\ 0 \in 0..Chunks - 1
        /\ 0 \in 0..MaxFaults
    BY UploadAssumption
  <1>2. Free \in Request /\ Idle \in Client
    BY <1>1 DEF Free, Idle, Request, Client, ClientState, Handling
  <1>3. << >> \in Seq(Piece)
    OBVIOUS
  <1>4. TypeOK
    BY <1>1, <1>2, <1>3 DEF Init, TypeOK
  <1>5. UploadedIsStored /\ ReceiptsAreStored /\ ChunkIsLeft /\ WaitsForRequest
    BY <1>1 DEF Init, UploadedIsStored, ReceiptsAreStored, ChunkIsLeft, WaitsForRequest, Idle, Free
  <1>. QED
    BY <1>4, <1>5 DEF UploadInv

(* Free and idle records are well formed.                                  *)
LEMMA RecordsTyped ==
  /\ Free \in Request
  /\ Idle \in Client
  /\ Free.answer # Chunks
  /\ Free.pc # "hashing stored"
  BY UploadAssumption DEF Free, Idle, Request, Client, ClientState, Handling

(* The two ways a free slot is filled.                                     *)
LEMMA FreeRecord ==
  /\ \A a \in 0..Chunks :
       LET r == [Free EXCEPT !.pc = "answered", !.answer = a]
       IN  r \in Request /\ r.pc = "answered" /\ r.answer = a
  /\ \A n \in 0..Chunks - 1 :
       LET r == [Free EXCEPT !.pc = "arrived", !.chunk = n]
       IN  r \in Request /\ r.pc = "arrived" /\ r.answer = 0
  <1>1. 0 \in 0..Chunks /\ 0 \in 0..Chunks - 1
    BY UploadAssumption
  <1>2. Free \in Request /\ Free.answer = 0
    BY RecordsTyped DEF Free
  <1>3. ASSUME NEW a \in 0..Chunks
        PROVE  LET r == [Free EXCEPT !.pc = "answered", !.answer = a]
               IN  r \in Request /\ r.pc = "answered" /\ r.answer = a
    BY <1>1, <1>2 DEF Request
  <1>4. ASSUME NEW n \in 0..Chunks - 1
        PROVE  LET r == [Free EXCEPT !.pc = "arrived", !.chunk = n]
               IN  r \in Request /\ r.pc = "arrived" /\ r.answer = 0
    BY <1>1, <1>2 DEF Request, Handling
  <1>. QED
    BY <1>3, <1>4

(* An answered request: the other requests are left alone.                 *)
LEMMA AnswerTyped ==
  ASSUME TypeOK, NEW s \in Slot, NEW a \in 0..Chunks, Answer(s, a)
  PROVE  /\ slot' \in [Slot -> Request]
         /\ slot'[s].pc # "hashing stored"
         /\ slot'[s].answer \in {0, a}
         /\ \A t \in Slot : t # s => slot'[t] = slot[t]
  <1>. DEFINE new == IF Wanted(s) THEN [Free EXCEPT !.pc = "answered", !.answer = a] ELSE Free
  <1>0. 0 \in 0..Chunks /\ 0 \in 0..Chunks - 1
    BY UploadAssumption
  <1>1. /\ new \in Request
        /\ new.pc # "hashing stored"
        /\ new.answer \in {0, a}
    <2>1. CASE Wanted(s)
      BY <2>1, FreeRecord
    <2>2. CASE ~ Wanted(s)
      BY <1>0, <2>2 DEF Free, Request
    <2>. QED
      BY <2>1, <2>2
  <1>2. slot' = [slot EXCEPT ![s] = new]
    BY DEF Answer
  <1>. QED
    BY <1>1, <1>2 DEF TypeOK

(* A request that goes on to another await.                                *)
LEMMA ContinueTyped ==
  ASSUME TypeOK, NEW s \in Slot, NEW a \in Handling,
         slot' = [slot EXCEPT ![s].pc = a]
  PROVE  /\ slot' \in [Slot -> Request]
         /\ slot'[s].pc = a
         /\ slot'[s].answer = slot[s].answer
         /\ \A t \in Slot : t # s => slot'[t] = slot[t]
  BY DEF TypeOK, Request, Handling

(* A step of the gateway that leaves the stored file, or stores one.       *)
LEMMA GatewayKeeps ==
  ASSUME UploadInv, NEW s \in Slot,
         client' = client, faults' \in 0..MaxFaults,
         slot' \in [Slot -> Request],
         \A t \in Slot : t # s => slot'[t] = slot[t],
         content' \in [File -> Seq(Piece)],
         partial' \in File \cup {NoFile},
         stored' \in File \cup {NoFile},
         metadata' \in BOOLEAN,
         stored # NoFile => stored' # NoFile,
         slot'[s].answer = Chunks \/ slot'[s].pc = "hashing stored" => stored' # NoFile
  PROVE  UploadInv'
  BY DEF UploadInv, TypeOK, UploadedIsStored, ReceiptsAreStored, ChunkIsLeft, WaitsForRequest

(* Handling a request that is not stored yet never ends with a receipt for *)
(* the whole input.                                                        *)
LEMMA AnswerKeeps ==
  ASSUME UploadInv, NEW s \in Slot, NEW a \in 0..Chunks, Answer(s, a),
         a = Chunks => stored # NoFile,
         client' = client, faults' \in 0..MaxFaults,
         content' \in [File -> Seq(Piece)],
         partial' \in File \cup {NoFile},
         stored' = stored,
         metadata' \in BOOLEAN
  PROVE  UploadInv'
  <1>1. TypeOK
    BY DEF UploadInv
  <1>2. /\ slot' \in [Slot -> Request]
        /\ slot'[s].pc # "hashing stored"
        /\ slot'[s].answer \in {0, a}
        /\ \A t \in Slot : t # s => slot'[t] = slot[t]
    BY <1>1, AnswerTyped
  <1>3. stored' \in File \cup {NoFile}
    BY <1>1 DEF TypeOK
  <1>. QED
    BY <1>2, <1>3, GatewayKeeps, UploadAssumption

LEMMA ContinueKeeps ==
  ASSUME UploadInv, NEW s \in Slot, NEW a \in Handling,
         slot' = [slot EXCEPT ![s].pc = a],
         a = "hashing stored" => stored # NoFile,
         client' = client, faults' \in 0..MaxFaults,
         content' \in [File -> Seq(Piece)],
         partial' \in File \cup {NoFile},
         stored' = stored,
         metadata' \in BOOLEAN
  PROVE  UploadInv'
  <1>1. TypeOK
    BY DEF UploadInv
  <1>2. /\ slot' \in [Slot -> Request]
        /\ slot'[s].pc = a
        /\ slot'[s].answer = slot[s].answer
        /\ \A t \in Slot : t # s => slot'[t] = slot[t]
    BY <1>1, ContinueTyped
  <1>3. stored' \in File \cup {NoFile}
    BY <1>1 DEF TypeOK
  <1>4. slot[s].answer = Chunks => stored # NoFile
    BY DEF UploadInv, ReceiptsAreStored
  <1>. QED
    BY <1>2, <1>3, <1>4, GatewayKeeps

(* What is used of the type invariant about the disk.                      *)
LEMMA DiskTyped ==
  ASSUME UploadInv
  PROVE  /\ content \in [File -> Seq(Piece)]
         /\ partial \in File \cup {NoFile}
         /\ stored \in File \cup {NoFile}
         /\ metadata \in BOOLEAN
         /\ faults \in 0..MaxFaults
         /\ MaxFaults \in Nat
         /\ \A s \in Slot : slot[s].chunk \in 0..Chunks - 1
  BY UploadAssumption DEF UploadInv, TypeOK, Request

LEMMA FaultTyped ==
  ASSUME UploadInv, Fault \/ UNCHANGED faults
  PROVE  faults' \in 0..MaxFaults
  BY UploadAssumption DEF UploadInv, TypeOK, Fault

(* A piece a handler adds to a file.                                       *)
LEMMA AppendTyped ==
  ASSUME UploadInv, NEW f, NEW piece \in Piece, Append1(f, piece)
  PROVE  content' \in [File -> Seq(Piece)]
  <1>1. content \in [File -> Seq(Piece)] /\ content' = [content EXCEPT ![f] = Append(@, piece)]
    BY DEF UploadInv, TypeOK, Append1
  <1>2. CASE f \in File
    <2>1. content[f] \in Seq(Piece)
      BY <1>1, <1>2
    <2>2. Append(content[f], piece) \in Seq(Piece)
      BY <2>1
    <2>. QED
      BY <1>1, <1>2, <2>2
  <1>3. CASE f \notin File
    BY <1>1, <1>3
  <1>. QED
    BY <1>2, <1>3

ClientBecomes(c, new) == /\ client' \in [Caller -> Client]
                         /\ \A d \in Caller : client'[d] = IF d = c THEN new ELSE client[d]

LEMMA UpdateTyped ==
  ASSUME UploadInv, NEW c \in Caller, NEW new \in Client,
         client' = [client EXCEPT ![c] = new]
  PROVE  ClientBecomes(c, new)
  BY DEF ClientBecomes, UploadInv, TypeOK

(* A step of one caller and perhaps one request of its own.                *)
LEMMA CallerKeeps ==
  ASSUME UploadInv, NEW c \in Caller,
         client' \in [Caller -> Client],
         \A d \in Caller : d # c => client'[d] = client[d],
         client'[c].pc \in {"uploaded", "accepted"} => stored # NoFile,
         client'[c].pc # "uploaded" => client'[c].next # Chunks,
         client'[c].pc = "waiting" => client'[c].slot \in Slot,
         slot' \in [Slot -> Request],
         \A s \in Slot : \/ slot'[s] = slot[s]
                         \/ slot'[s].answer = 0 /\ slot'[s].pc # "hashing stored",
         faults' \in 0..MaxFaults, UNCHANGED disk
  PROVE  UploadInv'
  <1>2. TypeOK'
    BY DEF UploadInv, TypeOK, disk
  <1>3. UploadedIsStored' /\ ChunkIsLeft' /\ WaitsForRequest'
    BY DEF UploadInv, UploadedIsStored, ChunkIsLeft, WaitsForRequest, disk
  <1>4. ReceiptsAreStored'
    BY UploadAssumption DEF UploadInv, ReceiptsAreStored, disk
  <1>. QED
    BY <1>2, <1>3, <1>4 DEF UploadInv

-----------------------------------------------------------------------------
(* The steps of the application.                                           *)
LEMMA ClientSteps ==
  ASSUME UploadInv, NEW c \in Caller,
         StartUpload(c) \/ CallStep(c) \/ GivesUp(c)
  PROVE  UploadInv'
  <1>1. /\ client \in [Caller -> Client] /\ slot \in [Slot -> Request]
        /\ client[c] \in Client /\ faults \in 0..MaxFaults
        /\ client[c].pc # "uploaded" => client[c].next # Chunks
        /\ client[c].pc = "uploaded" => stored # NoFile
    BY DEF UploadInv, TypeOK, ChunkIsLeft, UploadedIsStored
  <1>2. /\ Free \in Request /\ Free.answer = 0 /\ Free.pc # "hashing stored"
        /\ Idle \in Client /\ Idle.pc = "idle" /\ Idle.next # Chunks
    BY UploadAssumption DEF Free, Idle, Request, Client, ClientState, Handling
  <1>3. CASE StartUpload(c)
    <2>. DEFINE new == [client[c] EXCEPT !.pc = "ready"]
    <2>1. new \in Client /\ new.pc = "ready" /\ new.next # Chunks
      BY <1>1, <1>3 DEF StartUpload, Client, ClientState
    <2>2. client' = [client EXCEPT ![c] = new] /\ slot' = slot /\ faults' = faults /\ UNCHANGED disk
      BY <1>1, <1>3 DEF StartUpload
    <2>3. ClientBecomes(c, new)
      BY <1>1, <2>1, <2>2, UpdateTyped
    <2>. QED
      BY <1>1, <2>1, <2>2, <2>3, CallerKeeps DEF ClientBecomes
  <1>4. ASSUME NEW s \in Slot, SendChunk(c, s)
        PROVE  UploadInv'
    <2>. DEFINE new == [client[c] EXCEPT !.pc = "waiting", !.slot = s]
                req == [Free EXCEPT !.pc = "arrived", !.chunk = client[c].next]
    <2>1. new \in Client /\ new.pc = "waiting" /\ new.next # Chunks /\ new.slot \in Slot
      BY <1>1, <1>4 DEF SendChunk, Client, ClientState
    <2>2. client[c].next \in 0..Chunks - 1
      BY <1>1, <1>4, UploadAssumption DEF SendChunk, Client
    <2>3. req \in Request /\ req.pc # "hashing stored" /\ req.answer = 0
      BY <2>2, FreeRecord
    <2>4. /\ client' = [client EXCEPT ![c] = new] /\ slot' = [slot EXCEPT ![s] = req]
          /\ faults' = faults /\ UNCHANGED disk
      BY <1>1, <1>4 DEF SendChunk
    <2>5. /\ slot' \in [Slot -> Request]
          /\ \A t \in Slot : slot'[t] = IF t = s THEN req ELSE slot[t]
      BY <1>1, <2>3, <2>4
    <2>6. ClientBecomes(c, new)
      BY <1>1, <2>1, <2>4, UpdateTyped
    <2>. QED
      BY <1>1, <2>1, <2>3, <2>4, <2>5, <2>6, CallerKeeps DEF ClientBecomes
  <1>5. CASE ReceiveReceipt(c)
    <2>. DEFINE s    == client[c].slot
                sent == client[c].next + 1
                new  == IF slot[s].answer # sent THEN Idle
                        ELSE [pc |-> IF sent = Chunks THEN "uploaded" ELSE "ready",
                              next |-> sent, slot |-> NoSlot]
    <2>1. /\ client[c].pc = "waiting" /\ client' = [client EXCEPT ![c] = new]
          /\ slot' = [slot EXCEPT ![s] = Free] /\ faults' = faults /\ UNCHANGED disk
          /\ slot[s].pc = "answered"
      BY <1>5 DEF ReceiveReceipt
    <2>2. client[c].next \in 0..Chunks - 1
      BY <1>1, <2>1, UploadAssumption DEF Client
    <2>3. /\ new \in Client /\ (new.pc # "uploaded" => new.next # Chunks)
          /\ new.pc # "accepted" /\ new.pc # "waiting"
      <3>1. sent \in 0..Chunks
        BY <2>2, UploadAssumption
      <3>2. CASE slot[s].answer # sent
        BY <1>2, <3>2
      <3>3. CASE slot[s].answer = sent
        <4>1. new = [pc |-> IF sent = Chunks THEN "uploaded" ELSE "ready",
                     next |-> sent, slot |-> NoSlot]
          BY <3>3
        <4>. QED
          BY <3>1, <4>1 DEF Client, ClientState
      <3>. QED
        BY <3>2, <3>3
    <2>4. slot' \in [Slot -> Request] /\ \A t \in Slot : slot'[t] = IF t = s THEN Free ELSE slot[t]
      BY <1>1, <1>2, <2>1
    <2>5. s \in Slot
      BY <2>1 DEF UploadInv, WaitsForRequest
    <2>6. new.pc = "uploaded" => slot[s].answer = Chunks
      BY <1>2, <2>2, UploadAssumption
    <2>7. new.pc = "uploaded" => stored # NoFile
      BY <2>5, <2>6 DEF UploadInv, ReceiptsAreStored
    <2>8. ClientBecomes(c, new)
      BY <1>1, <2>1, <2>3, UpdateTyped
    <2>. QED
      BY <1>1, <1>2, <2>1, <2>3, <2>4, <2>7, <2>8, CallerKeeps DEF ClientBecomes
  <1>6. CASE SubmitJob(c)
    <2>. DEFINE new == IF stored # NoFile /\ IsWhole(stored) THEN [Idle EXCEPT !.pc = "accepted"] ELSE Idle
    <2>1. /\ new \in Client /\ new.next # Chunks /\ new.pc # "waiting"
          /\ new.pc \in {"uploaded", "accepted"} => stored # NoFile
      BY UploadAssumption DEF Idle, Client, ClientState
    <2>2. client' = [client EXCEPT ![c] = new] /\ slot' = slot /\ faults' = faults /\ UNCHANGED disk
      BY <1>6 DEF SubmitJob
    <2>3. ClientBecomes(c, new)
      BY <1>1, <2>1, <2>2, UpdateTyped
    <2>. QED
      BY <1>1, <2>1, <2>2, <2>3, CallerKeeps DEF ClientBecomes
  <1>7. CASE GivesUp(c)
    <2>1. /\ client' = [client EXCEPT ![c] = Idle] /\ faults' \in 0..MaxFaults /\ UNCHANGED disk
      BY <1>7, FaultTyped DEF GivesUp
    <2>2. \A t \in Slot : slot'[t] \in {Free, slot[t]}
      BY <1>7 DEF GivesUp
    <2>3. slot' \in [Slot -> Request]
      BY <1>1, <1>2, <1>7 DEF GivesUp
    <2>4. ClientBecomes(c, Idle)
      BY <1>1, <1>2, <2>1, UpdateTyped
    <2>. QED
      BY <1>2, <2>1, <2>2, <2>3, <2>4, CallerKeeps DEF ClientBecomes
  <1>. QED
    BY <1>3, <1>4, <1>5, <1>6, <1>7 DEF CallStep

-----------------------------------------------------------------------------
(* The steps of the gateway.  Failing and refusing answer with no receipt. *)
LEMMA FailKeeps ==
  ASSUME UploadInv, NEW s \in Slot, Fail(s) \/ Refuse(s),
         client' = client, faults' = faults
  PROVE  UploadInv'
  <1>1. Answer(s, 0) /\ stored' = stored /\ content' = content
    BY DEF Fail, Refuse, disk
  <1>2. partial' \in File \cup {NoFile} /\ metadata' \in BOOLEAN
    BY DiskTyped DEF Fail, Refuse, disk
  <1>3. 0 \in 0..Chunks /\ 0 # Chunks
    BY UploadAssumption
  <1>. QED
    BY <1>1, <1>2, <1>3, DiskTyped, AnswerKeeps

LEMMA LookSteps ==
  ASSUME UploadInv, NEW s \in Slot,
         UploadStored(s) \/ UploadArrives(s) \/ UploadStoredHashed(s)
  PROVE  UploadInv'
  <1>0. /\ client' = client /\ faults' = faults
        /\ Chunks \in 0..Chunks /\ 0 \in 0..Chunks /\ 0 # Chunks
    <2>1. Chunks \in 0..Chunks /\ 0 \in 0..Chunks /\ 0 # Chunks
      BY UploadAssumption
    <2>. QED
      BY <2>1 DEF UploadStored, UploadArrives, UploadStoredHashed
  <1>1. CASE UploadStored(s)
    <2>1. stored # NoFile
      BY <1>1 DEF UploadStored
    <2>2. CASE Continue(s, "hashing stored")
      BY <1>0, <2>1, <2>2, DiskTyped, ContinueKeeps DEF Continue, disk, Handling
    <2>3. CASE Refuse(s)
      BY <1>0, <2>3, FailKeeps
    <2>. QED
      BY <1>1, <2>2, <2>3 DEF UploadStored
  <1>2. CASE UploadArrives(s)
    <2>1. /\ stored' = stored /\ content' = content /\ partial' = partial /\ metadata' \in BOOLEAN
      BY <1>2, DiskTyped DEF UploadArrives
    <2>2. slot[s].chunk \in 0..Chunks - 1
      BY DiskTyped
    <2>3. CASE Answer(s, 0)
      BY <1>0, <2>1, <2>3, DiskTyped, AnswerKeeps
    <2>4. CASE slot' = [slot EXCEPT ![s].pc = "hashing"]
      BY <1>0, <2>1, <2>4, DiskTyped, ContinueKeeps DEF Handling
    <2>5. CASE slot' = [slot EXCEPT ![s].pc = "opening"]
      BY <1>0, <2>1, <2>5, DiskTyped, ContinueKeeps DEF Handling
    <2>6. CASE ~ Last(s) /\ Answer(s, slot[s].chunk + 1)
      <3>1. slot[s].chunk + 1 \in 0..Chunks /\ slot[s].chunk + 1 # Chunks
        BY <2>2, <2>6, UploadAssumption DEF Last
      <3>. QED
        BY <1>0, <2>1, <2>6, <3>1, DiskTyped, AnswerKeeps
    <2>. QED
      BY <1>2, <2>3, <2>4, <2>5, <2>6 DEF UploadArrives
  <1>3. CASE UploadStoredHashed(s)
    <2>1. stored # NoFile
      BY <1>3 DEF UploadStoredHashed, UploadInv, ReceiptsAreStored
    <2>2. CASE Answer(s, Chunks) /\ UNCHANGED disk
      BY <1>0, <2>1, <2>2, DiskTyped, AnswerKeeps DEF disk
    <2>3. CASE Refuse(s)
      BY <1>0, <2>3, FailKeeps
    <2>. QED
      BY <1>3, <2>2, <2>3 DEF UploadStoredHashed
  <1>. QED
    BY <1>1, <1>2, <1>3

(* Opening, writing and a body that breaks off.                            *)
LEMMA WriteSteps ==
  ASSUME UploadInv, NEW s \in Slot,
         OpenPartial(s) \/ WriteChunk(s) \/ WriteBreaks(s)
  PROVE  UploadInv'
  <1>0. client' = client /\ 0 \in 0..Chunks /\ 0 # Chunks
    BY UploadAssumption DEF OpenPartial, WriteChunk, WriteBreaks
  <1>1. CASE OpenPartial(s)
    <2>0. faults' = faults
      BY <1>1 DEF OpenPartial
    <2>1. CASE Fail(s)
      BY <1>0, <2>0, <2>1, FailKeeps
    <2>2. ASSUME NEW f \in File, content' \in [File -> Seq(Piece)],
                 slot' = [slot EXCEPT ![s].pc = "writing", ![s].file = f],
                 partial' \in File \cup {NoFile}, UNCHANGED <<stored, metadata>>
          PROVE  UploadInv'
      <3>1. /\ slot' \in [Slot -> Request]
            /\ slot'[s].pc = "writing" /\ slot'[s].answer = slot[s].answer
            /\ \A t \in Slot : t # s => slot'[t] = slot[t]
        BY <2>2 DEF UploadInv, TypeOK, Request, Handling
      <3>2. slot[s].answer = Chunks => stored # NoFile
        BY DEF UploadInv, ReceiptsAreStored
      <3>. QED
        BY <1>0, <2>0, <2>2, <3>1, <3>2, DiskTyped, GatewayKeeps
    <2>3. CASE partial = NoFile /\ ~ Fail(s)
      <3>. DEFINE f == CHOOSE f \in UnusedFiles : TRUE
      <3>1. /\ UnusedFiles # {}
            /\ partial' = f /\ content' = [content EXCEPT ![f] = << >>]
            /\ slot' = [slot EXCEPT ![s].pc = "writing", ![s].file = f]
            /\ UNCHANGED <<stored, metadata>>
        BY <1>1, <2>3 DEF OpenPartial
      <3>2. f \in File
        BY <3>1 DEF UnusedFiles
      <3>. HIDE DEF f
      <3>3. content' \in [File -> Seq(Piece)]
        BY <3>1, <3>2, DiskTyped
      <3>. QED
        BY <2>2, <3>1, <3>2, <3>3
    <2>4. CASE partial # NoFile /\ ~ Fail(s)
      <3>1. /\ slot' = [slot EXCEPT ![s].pc = "writing", ![s].file = partial]
            /\ UNCHANGED disk /\ partial \in File
        BY <1>1, <2>4, DiskTyped DEF OpenPartial
      <3>. QED
        BY <2>2, <3>1, DiskTyped DEF disk
    <2>. QED
      BY <2>1, <2>3, <2>4
  <1>2. CASE WriteChunk(s)
    <2>1. \A k \in {"good", "altered", "torn"} : [chunk |-> slot[s].chunk, kind |-> k] \in Piece
      BY DiskTyped DEF Piece
    <2>2. content' \in [File -> Seq(Piece)]
      BY <1>2, <2>1, AppendTyped DEF WriteChunk
    <2>3. /\ slot' = [slot EXCEPT ![s].pc = "written"]
          /\ UNCHANGED <<partial, stored, metadata>> /\ faults' \in 0..MaxFaults
      BY <1>2, FaultTyped DEF WriteChunk
    <2>. QED
      BY <1>0, <2>2, <2>3, DiskTyped, ContinueKeeps DEF Handling
  <1>3. CASE WriteBreaks(s)
    <2>1. [chunk |-> slot[s].chunk, kind |-> "torn"] \in Piece
      BY DiskTyped DEF Piece
    <2>2. content' \in [File -> Seq(Piece)]
      BY <1>3, <2>1, AppendTyped, DiskTyped DEF WriteBreaks
    <2>3. /\ Answer(s, 0) /\ partial' = NoFile /\ metadata' = FALSE /\ stored' = stored
          /\ faults' \in 0..MaxFaults
      BY <1>3, FaultTyped DEF WriteBreaks
    <2>. QED
      BY <1>0, <2>2, <2>3, AnswerKeeps
  <1>. QED
    BY <1>1, <1>2, <1>3

(* Checking, hashing and renaming what was written.                        *)
LEMMA StoreSteps ==
  ASSUME UploadInv, NEW s \in Slot,
         CheckWritten(s) \/ HashPartial(s) \/ RenamePartial(s)
  PROVE  UploadInv'
  <1>0. /\ client' = client /\ faults' = faults /\ Chunks \in 0..Chunks
    <2>1. Chunks \in 0..Chunks
      BY UploadAssumption
    <2>. QED
      BY <2>1 DEF CheckWritten, HashPartial, RenamePartial
  <1>1. CASE Fail(s)
    BY <1>0, <1>1, FailKeeps
  <1>2. ASSUME NEW a \in {"hashing", "renaming"}, Continue(s, a)
        PROVE  UploadInv'
    BY <1>0, <1>2, DiskTyped, ContinueKeeps DEF Continue, disk, Handling
  <1>3. CASE CheckWritten(s) /\ ~ Fail(s)
    <2>1. CASE Continue(s, "hashing")
      BY <1>2, <2>1
    <2>2. CASE ~ Last(s) /\ Answer(s, slot[s].chunk + 1) /\ UNCHANGED disk
      <3>1. slot[s].chunk + 1 \in 0..Chunks /\ slot[s].chunk + 1 # Chunks
        BY <2>2, DiskTyped, UploadAssumption DEF Last
      <3>. QED
        BY <1>0, <2>2, <3>1, DiskTyped, AnswerKeeps DEF disk
    <2>. QED
      BY <1>3, <2>1, <2>2 DEF CheckWritten
  <1>4. CASE HashPartial(s) /\ ~ Fail(s)
    BY <1>2, <1>4 DEF HashPartial
  <1>5. CASE RenamePartial(s) /\ ~ Fail(s)
    <2>1. /\ partial # NoFile /\ stored' = partial /\ partial' = NoFile /\ metadata' = FALSE
          /\ Answer(s, Chunks) /\ content' = content
      BY <1>5 DEF RenamePartial
    <2>2. /\ slot' \in [Slot -> Request]
          /\ \A t \in Slot : t # s => slot'[t] = slot[t]
      BY <1>0, <2>1, AnswerTyped DEF UploadInv
    <2>. QED
      BY <1>0, <2>1, <2>2, DiskTyped, GatewayKeeps
  <1>. QED
    BY <1>1, <1>3, <1>4, <1>5

(* No receipt survives a restart of the gateway, and no file is renamed.   *)
LEMMA RestartKeeps ==
  ASSUME UploadInv, GatewayRestarts
  PROVE  UploadInv'
  <1>1. /\ slot' = [s \in Slot |-> Free]
        /\ client' = [c \in Caller |-> IF client[c].pc = "waiting" THEN Idle ELSE client[c]]
        /\ UNCHANGED <<partial, stored, metadata>>
        /\ faults' \in 0..MaxFaults
    BY FaultTyped DEF GatewayRestarts
  <1>2. content' \in [File -> Seq(Piece)]
    <2>1. CASE UNCHANGED content
      BY <2>1, DiskTyped
    <2>2. CASE ~ UNCHANGED content
      <3>1. PICK s \in Slot : Append1(slot[s].file, [chunk |-> slot[s].chunk, kind |-> "torn"])
        BY <2>2 DEF GatewayRestarts
      <3>2. [chunk |-> slot[s].chunk, kind |-> "torn"] \in Piece
        BY DiskTyped DEF Piece
      <3>. QED
        BY <3>1, <3>2, AppendTyped
    <2>. QED
      BY <2>1, <2>2
  <1>3. /\ Free \in Request /\ Free.answer # Chunks /\ Free.pc # "hashing stored"
        /\ Idle \in Client /\ Idle.pc = "idle" /\ Idle.next # Chunks
    BY RecordsTyped, UploadAssumption DEF Idle
  <1>4. TypeOK'
    BY <1>1, <1>2, <1>3 DEF UploadInv, TypeOK
  <1>5. ReceiptsAreStored'
    BY <1>1, <1>3 DEF ReceiptsAreStored
  <1>6. UploadedIsStored' /\ ChunkIsLeft' /\ WaitsForRequest'
    BY <1>1, <1>3 DEF UploadInv, UploadedIsStored, ChunkIsLeft, WaitsForRequest
  <1>. QED
    BY <1>4, <1>5, <1>6 DEF UploadInv

LEMMA UploadStep == UploadInv /\ [Next]_vars => UploadInv'
  <1>. SUFFICES ASSUME UploadInv, [Next]_vars
                PROVE  UploadInv'
    OBVIOUS
  <1>1. ASSUME NEW c \in Caller, StartUpload(c) \/ CallStep(c) \/ GivesUp(c)
        PROVE  UploadInv'
    BY <1>1, ClientSteps
  <1>2. ASSUME NEW s \in Slot, HandlerStep(s)
        PROVE  UploadInv'
    BY <1>2, LookSteps, WriteSteps, StoreSteps DEF HandlerStep
  <1>3. CASE GatewayRestarts
    BY <1>3, RestartKeeps
  <1>4. CASE UNCHANGED vars
    BY <1>4 DEF vars, UploadInv, TypeOK, UploadedIsStored, ReceiptsAreStored, ChunkIsLeft,
                WaitsForRequest
  <1>. QED
    BY <1>1, <1>2, <1>3, <1>4 DEF Next

-----------------------------------------------------------------------------
(* The state of an upload stays well formed: uploadAssetFromPath never     *)
(* counts past the input, and a handler never leaves its stages.           *)
THEOREM UploadTypeCorrect == Spec => []TypeOK
  <1>1. UploadInv => TypeOK
    BY DEF UploadInv
  <1>. QED
    BY <1>1, InitUpload, UploadStep, PTL DEF Spec

(* However uploads overlap, break off, are given up or recovered: when     *)
(* uploadAssetFromPath returns, the gateway has renamed a verified file to *)
(* the destination.                                                        *)
THEOREM UploadedStaysStored == Spec => []UploadedIsStored
  <1>1. UploadInv => UploadedIsStored
    BY DEF UploadInv
  <1>. QED
    BY <1>1, InitUpload, UploadStep, PTL DEF Spec

-----------------------------------------------------------------------------
(* Uploads that do not overlap.  One request at a time is handled, so what *)
(* a handler has verified is still so when it renames the file, and nobody *)
(* writes once a file is stored.                                           *)

Storing == {"opening", "writing", "written", "hashing", "renaming"}

SerialInv ==
  /\ \A c, d \in Caller : client[c].pc # "idle" /\ client[d].pc # "idle" => c = d
  /\ \A s, t \in Slot : slot[s].pc # "free" /\ slot[t].pc # "free" => s = t
  /\ (\E c \in Caller : client[c].pc = "ready") => HandlersAreFree
  /\ \A s \in Slot : slot[s].pc = "renaming" => partial = NoFile \/ IsWhole(partial)
  /\ stored # NoFile => \A s \in Slot : slot[s].pc \notin Storing
  /\ StoredIsWhole

(* A step of the client: no file is touched.                               *)
LEMMA ClientStepIsSerial ==
  ASSUME UploadInv, SerialInv, ~ Overlap, NEW c \in Caller,
         StartUpload(c) \/ CallStep(c) \/ GivesUp(c)
  PROVE  SerialInv'
  <1>. TypeOK /\ WaitsForRequest
    BY DEF UploadInv
  <1>1. UNCHANGED disk
    BY DEF StartUpload, CallStep, SendChunk, ReceiveReceipt, SubmitJob, GivesUp
  <1>2. /\ IsWhole(partial)' = IsWhole(partial) /\ StoredIsWhole'
    BY <1>1 DEF IsWhole, StoredIsWhole, SerialInv, disk, Whole
  <1>3. Free.pc = "free" /\ Idle.pc = "idle"
    BY DEF Free, Idle
  <1>4. CASE StartUpload(c)
    BY <1>1, <1>2, <1>4 DEF StartUpload, SerialInv, TypeOK, Client, HandlersAreFree, disk
  <1>5. ASSUME NEW s \in Slot, SendChunk(c, s) PROVE SerialInv'
    <2>1. /\ \A d \in Caller : d # c => client'[d] = client[d]
          /\ client'[c].pc = "waiting" /\ client[c].pc = "ready"
      BY <1>5 DEF SendChunk, TypeOK, Client
    <2>2. /\ \A t \in Slot : t # s => slot'[t] = slot[t]
          /\ slot'[s].pc = "arrived"
      BY <1>5 DEF SendChunk, TypeOK, Free
    <2>3. HandlersAreFree
      BY <2>1 DEF SerialInv
    <2>. QED
      BY <1>1, <1>2, <2>1, <2>2, <2>3 DEF SerialInv, HandlersAreFree, disk, Storing
  <1>6. CASE ReceiveReceipt(c)
    <2>. DEFINE s == client[c].slot
    <2>1. /\ \A d \in Caller : d # c => client'[d] = client[d]
          /\ client[c].pc = "waiting"
      BY <1>6 DEF ReceiveReceipt, TypeOK
    <2>2. s \in Slot /\ slot' = [slot EXCEPT ![s] = Free] /\ slot[s].pc = "answered"
      BY <1>6 DEF ReceiveReceipt, WaitsForRequest
    <2>3. \A t \in Slot : slot'[t] = slot[t] \/ slot'[t].pc = "free"
      BY <1>3, <2>2 DEF TypeOK
    <2>4. \A t \in Slot : slot'[t].pc = "free"
      BY <1>3, <2>2 DEF TypeOK, SerialInv
    <2>. QED
      BY <1>1, <1>2, <2>1, <2>2, <2>3, <2>4 DEF SerialInv, HandlersAreFree, disk, Storing
  <1>7. CASE SubmitJob(c)
    <2>1. /\ \A d \in Caller : d # c => client'[d] = client[d]
          /\ client[c].pc = "uploaded" /\ client'[c].pc \in {"idle", "accepted"}
      BY <1>3, <1>7 DEF SubmitJob, TypeOK, Idle
    <2>. QED
      BY <1>1, <1>2, <1>7, <2>1 DEF SubmitJob, SerialInv, HandlersAreFree, disk, Storing
  <1>8. CASE GivesUp(c)
    <2>1. /\ \A d \in Caller : d # c => client'[d] = client[d]
          /\ client'[c].pc = "idle"
      BY <1>3, <1>8 DEF GivesUp, TypeOK
    <2>2. \A t \in Slot : slot'[t] = slot[t] \/ slot'[t].pc = "free"
      BY <1>3, <1>8 DEF GivesUp
    <2>. QED
      BY <1>1, <1>2, <2>1, <2>2 DEF SerialInv, HandlersAreFree, disk, Storing
  <1>. QED
    BY <1>4, <1>5, <1>6, <1>7, <1>8 DEF CallStep

(* The handler's slot afterwards, and that the others are free.            *)
LEMMA HandlerIsSerial ==
  ASSUME TypeOK, SerialInv, NEW s \in Slot, slot[s].pc \in Handling, client' = client,
         \A t \in Slot : t # s => slot'[t] = slot[t],
         slot'[s].pc = "renaming" => partial' = NoFile \/ IsWhole(partial)',
         stored' # NoFile => slot'[s].pc \notin Storing,
         StoredIsWhole'
  PROVE  SerialInv'
  <1>1. slot[s].pc # "free"
    BY DEF Handling
  <1>2. \A t \in Slot : t # s => slot[t].pc = "free"
    BY <1>1 DEF SerialInv
  <1>3. \A c \in Caller : client[c].pc # "ready"
    BY <1>1 DEF SerialInv, HandlersAreFree
  <1>. QED
    BY <1>2, <1>3 DEF SerialInv, Storing, HandlersAreFree

(* A step of the handler: it renames only what it has found to be whole,   *)
(* and while it stores a chunk no file is stored yet.                      *)
LEMMA HandlerStepIsSerial ==
  ASSUME TypeOK, SerialInv, NEW s \in Slot, HandlerStep(s)
  PROVE  SerialInv'
  <1>1. slot[s].pc \in Handling /\ client' = client
    BY DEF HandlerStep, UploadStored, UploadArrives, UploadStoredHashed, OpenPartial, WriteChunk,
           WriteBreaks, CheckWritten, HashPartial, RenamePartial, Handling
  <1>2. \A t \in Slot : t # s => slot'[t] = slot[t]
    BY DEF HandlerStep, UploadStored, UploadArrives, UploadStoredHashed, OpenPartial, WriteChunk, WriteBreaks,
           CheckWritten, HashPartial, RenamePartial, Refuse, Fail, Answer, Continue, TypeOK
  <1>3. ASSUME NEW a, Answer(s, a) PROVE slot'[s].pc \in {"free", "answered"}
    BY <1>3 DEF Answer, Free, TypeOK
  <1>4. ASSUME NEW a, slot' = [slot EXCEPT ![s].pc = a] PROVE slot'[s].pc = a
    BY <1>4 DEF TypeOK, Request
  <1>5. slot[s].pc \in Storing => stored = NoFile
    BY DEF SerialInv
  <1>6. ASSUME stored' = stored, stored # NoFile => content' = content
        PROVE  StoredIsWhole'
    BY <1>6 DEF StoredIsWhole, IsWhole, SerialInv, Whole
  <1>7. CASE UploadStored(s)
    <2>1. UNCHANGED disk /\ slot'[s].pc \in {"free", "answered", "hashing stored"}
      BY <1>3, <1>4, <1>7 DEF UploadStored, Continue, Refuse
    <2>. QED
      BY <1>1, <1>2, <1>6, <2>1, HandlerIsSerial DEF disk, Storing
  <1>8. CASE UploadArrives(s)
    <2>1. /\ content' = content /\ stored' = stored /\ stored = NoFile
          /\ slot'[s].pc \in {"free", "answered", "hashing", "opening"}
      BY <1>3, <1>4, <1>8 DEF UploadArrives
    <2>. QED
      BY <1>1, <1>2, <1>6, <2>1, HandlerIsSerial DEF Storing
  <1>9. CASE UploadStoredHashed(s)
    <2>1. UNCHANGED disk /\ slot'[s].pc \in {"free", "answered"}
      BY <1>3, <1>9 DEF UploadStoredHashed, Refuse
    <2>. QED
      BY <1>1, <1>2, <1>6, <2>1, HandlerIsSerial DEF disk, Storing
  <1>10. CASE OpenPartial(s)
    <2>1. stored' = stored /\ stored = NoFile
      BY <1>5, <1>10 DEF OpenPartial, Fail, disk, Storing
    <2>2. slot'[s].pc # "renaming"
      <3>1. CASE Fail(s)
        BY <1>3, <3>1 DEF Fail
      <3>2. CASE \E f : slot' = [slot EXCEPT ![s].pc = "writing", ![s].file = f]
        BY <3>2 DEF TypeOK, Request
      <3>. QED
        BY <1>10, <3>1, <3>2 DEF OpenPartial
    <2>. QED
      BY <1>1, <1>2, <1>6, <2>1, <2>2, HandlerIsSerial
  <1>11. CASE WriteChunk(s)
    <2>1. stored' = stored /\ stored = NoFile /\ slot'[s].pc = "written"
      BY <1>4, <1>5, <1>11 DEF WriteChunk, Storing
    <2>. QED
      BY <1>1, <1>2, <1>6, <2>1, HandlerIsSerial
  <1>12. CASE WriteBreaks(s)
    <2>1. stored' = stored /\ stored = NoFile /\ slot'[s].pc \in {"free", "answered"}
      BY <1>3, <1>5, <1>12 DEF WriteBreaks, Storing
    <2>. QED
      BY <1>1, <1>2, <1>6, <2>1, HandlerIsSerial
  <1>13. CASE CheckWritten(s)
    <2>1. stored' = stored /\ stored = NoFile /\ slot'[s].pc \in {"free", "answered", "hashing"}
      BY <1>3, <1>4, <1>5, <1>13 DEF CheckWritten, Storing, Fail, Continue, disk
    <2>. QED
      BY <1>1, <1>2, <1>6, <2>1, HandlerIsSerial
  <1>14. CASE HashPartial(s)
    <2>1. CASE partial # NoFile /\ IsWhole(partial)
      <3>1. UNCHANGED disk /\ stored = NoFile /\ slot'[s].pc = "renaming"
        BY <1>4, <1>5, <1>14, <2>1 DEF HashPartial, Continue, Storing
      <3>2. IsWhole(partial)'
        BY <2>1, <3>1 DEF IsWhole, disk, Whole
      <3>. QED
        BY <1>1, <1>2, <1>6, <3>1, <3>2, HandlerIsSerial DEF disk
    <2>2. CASE ~ (partial # NoFile /\ IsWhole(partial))
      <3>1. stored' = stored /\ stored = NoFile /\ slot'[s].pc \in {"free", "answered"}
        BY <1>3, <1>5, <1>14, <2>2 DEF HashPartial, Fail, Storing
      <3>. QED
        BY <1>1, <1>2, <1>6, <3>1, HandlerIsSerial
    <2>. QED
      BY <2>1, <2>2
  <1>15. CASE RenamePartial(s)
    <2>1. slot'[s].pc \in {"free", "answered"}
      BY <1>3, <1>15 DEF RenamePartial, Fail
    <2>2. StoredIsWhole'
      <3>1. CASE partial = NoFile
        BY <1>5, <1>6, <1>15, <3>1 DEF RenamePartial, Fail, Storing
      <3>2. CASE partial # NoFile
        <4>1. IsWhole(partial) /\ stored' = partial /\ content' = content
          BY <1>15, <3>2 DEF RenamePartial, SerialInv
        <4>. QED
          BY <4>1 DEF StoredIsWhole, IsWhole, Whole
      <3>. QED
        BY <3>1, <3>2
    <2>. QED
      BY <1>1, <1>2, <2>1, <2>2, HandlerIsSerial DEF Storing
  <1>. QED
    BY <1>7, <1>8, <1>9, <1>10, <1>11, <1>12, <1>13, <1>14, <1>15 DEF HandlerStep

(* The gateway is restarted: no file that is stored was being written.     *)
LEMMA RestartIsSerial ==
  ASSUME TypeOK, SerialInv, GatewayRestarts
  PROVE  SerialInv'
  <1>1. /\ \A s \in Slot : slot'[s].pc = "free"
        /\ \A c \in Caller : client'[c].pc \in {client[c].pc, "idle"}
        /\ stored' = stored
    BY DEF GatewayRestarts, Free, Idle
  <1>2. stored # NoFile => content' = content
    BY DEF GatewayRestarts, SerialInv, Storing
  <1>3. StoredIsWhole'
    BY <1>1, <1>2 DEF StoredIsWhole, IsWhole, SerialInv, Whole
  <1>. QED
    BY <1>1, <1>3 DEF SerialInv, HandlersAreFree, Storing

(* While one upload at a time is under way, the file under the             *)
(* destination's name is the input: the hash that was compared before the  *)
(* rename is still the file's, and nothing changes the file afterwards.    *)
THEOREM StoredStaysWhole ==
  ASSUME ~ Overlap
  PROVE  Spec => []StoredIsWhole
  <1>1. Init => SerialInv
    BY DEF Init, SerialInv, Idle, Free, StoredIsWhole
  <1>2. UploadInv /\ SerialInv /\ [Next]_vars => SerialInv'
    <2>. UploadInv => TypeOK
      BY DEF UploadInv
    <2>1. TypeOK /\ SerialInv /\ UNCHANGED vars => SerialInv'
      BY DEF SerialInv, vars, StoredIsWhole, IsWhole, HandlersAreFree, Whole
    <2>. QED
      BY <2>1, ClientStepIsSerial, HandlerStepIsSerial, RestartIsSerial DEF Next
  <1>3. SerialInv => StoredIsWhole
    BY DEF SerialInv
  <1>. QED
    BY <1>1, <1>2, <1>3, InitUpload, UploadStep, PTL DEF Spec
=============================================================================
