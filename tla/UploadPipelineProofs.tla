------------------------ MODULE UploadPipelineProofs ------------------------
(* Proofs about UploadPipeline, for any file, any nodes, any numbers of     *)
(* workers and any capacities: its types, its channels, its decision, and  *)
(* that it implements Upload.                                              *)
EXTENDS UploadPipeline, SequenceTheorems, TLAPS

UProofs == INSTANCE UploadProofs WITH phase <- UploadPhase

(* Nothing has gone wrong for good.                                        *)
Live == pc \notin {"failed", "aborted", "crashed"}
Started == pc \notin {"start", "prepare", "failed", "crashed"}
Busy == Reading \cup {"waitCrypto", "waitUpload", "aborted"}
ReadAll == {"closeCrypto", "waitCrypto", "waitUpload", "decide", "manifest", "secured"}

(* Before the workers start nothing has happened; uploadJobs is closed     *)
(* when no crypto worker is left, and each wait comes after its close.     *)
StageInv ==
    /\ "cryptoJobs" \in closed => pc \notin Reading
    /\ pc \in {"start", "prepare"} => closed = {} /\ emitted = {}
    /\ "uploadJobs" \in closed => running \cap CryptoWorker = {}
    /\ pc = "waitCrypto" => "cryptoJobs" \in closed
    /\ pc \in {"waitUpload", "decide", "manifest", "secured"} => "uploadJobs" \in closed
    /\ pc = "start" => status = "none"
    /\ pc \notin {"failed", "crashed"} => posted = FALSE
    /\ pc \in {"manifest", "secured"} => ~err

(* A worker has a job while it runs; a worker that has returned has found  *)
(* its channel closed and empty.                                           *)
WorkerInv ==
    /\ pc \notin Busy => running = {}
    /\ \A w \in CryptoWorker : cjob[w] # NoBlock => w \in running
    /\ \A w \in UploadWorker : ujob[w] # NoChunk => w \in running
    /\ Started => \A w \in CryptoWorker \ running :
        cryptoJobs = <<>> /\ "cryptoJobs" \in closed
    /\ Started => \A w \in UploadWorker \ running :
        uploadJobs = <<>> /\ "uploadJobs" \in closed

(* The blocks below First have been taken from cryptoJobs, those from      *)
(* First to next - 1 are in it, in their order; none of the others has     *)
(* been read.                                                              *)
First == next - Len(cryptoJobs)

BlockInv ==
    /\ \A i \in 1..Len(cryptoJobs) : cryptoJobs[i] = First + i - 1
    /\ \A w \in CryptoWorker : cjob[w] # NoBlock => cjob[w].block < First
    /\ \A w, v \in CryptoWorker :
        w # v /\ cjob[w] # NoBlock /\ cjob[v] # NoBlock => cjob[w].block # cjob[v].block
    /\ pc \in ReadAll => \A b \in Block : b < next

(* The chunks of a block are emitted in their order, by the worker that    *)
(* has the block.                                                          *)
EmitInv ==
    /\ \A c \in emitted : c[1] < First
    /\ \A w \in CryptoWorker, t \in 0..(TotalShards - 1) :
        cjob[w] # NoBlock => (<<cjob[w].block, t>> \in emitted <=> t < cjob[w].shard)
    /\ \A b \in split, t \in 0..(TotalShards - 1) : <<b, t>> \in emitted

(* An emitted chunk has no outcome while it waits in uploadJobs or is in   *)
(* the hands of a worker, and it is in one of these places once.           *)
Open(c) == c \in emitted \ dropped /\ acked[c] = NoNode

JobInv ==
    /\ \A i \in 1..Len(uploadJobs) :
        /\ Open(uploadJobs[i].chunk)
        /\ tried[uploadJobs[i].chunk] = {}
        /\ uploadJobs[i].left = targets[uploadJobs[i].chunk]
    /\ \A i, j \in 1..Len(uploadJobs) : i # j => uploadJobs[i].chunk # uploadJobs[j].chunk
    /\ \A w \in UploadWorker : ujob[w] # NoChunk =>
        /\ Open(ujob[w].chunk)
        /\ ujob[w].left = targets[ujob[w].chunk] \ tried[ujob[w].chunk]
        /\ \A i \in 1..Len(uploadJobs) : uploadJobs[i].chunk # ujob[w].chunk
    /\ \A w, v \in UploadWorker :
        w # v /\ ujob[w] # NoChunk /\ ujob[v] # NoChunk => ujob[w].chunk # ujob[v].chunk
    /\ \A c \in Chunk \ emitted : tried[c] = {} /\ acked[c] = NoNode /\ c \notin dropped

(* Without an error no block and no chunk is lost on its way.              *)
Held(c) ==
    \/ \E i \in 1..Len(uploadJobs) : uploadJobs[i].chunk = c
    \/ \E w \in UploadWorker : ujob[w].chunk = c

NoneLost ==
    Live /\ ~err =>
        /\ \A b \in Block : b < First =>
            b \in split \/ \E w \in CryptoWorker : cjob[w] # NoBlock /\ cjob[w].block = b
        /\ \A c \in emitted : Held(c) \/ acked[c] # NoNode \/ c \in dropped

FlowInv == StageInv /\ WorkerInv /\ BlockInv /\ EmitInv /\ JobInv /\ NoneLost
IInv == TypeOK /\ U!TypeOK /\ FlowInv

----------------------------------------------------------------------------
(* The blocks of the file.                                                 *)

LEMMA Sizes ==
    /\ FileSize \in Nat
    /\ BlockSize \in Nat /\ BlockSize > 0
    /\ TotalShards \in Nat /\ TotalShards > 0
    /\ CryptoCap \in Nat /\ UploadCap \in Nat
BY PipelineAssumption

LEMMA LaterBlock ==
    ASSUME NEW a \in Int, NEW b \in Int, a < b
    PROVE  Remaining(b) <= Remaining(a) - BlockSize
<1>1. PICK k \in Nat : b = a + 1 + k
  <2>1. b - a - 1 \in Nat /\ b = a + 1 + (b - a - 1)
    OBVIOUS
  <2> QED BY <2>1
<1>2. b * BlockSize = a * BlockSize + BlockSize + k * BlockSize
  BY <1>1, Sizes
<1>3. k * BlockSize >= 0
  BY Sizes
<1>4. a * BlockSize \in Int /\ b * BlockSize \in Int /\ k * BlockSize \in Int
  BY <1>1, Sizes
<1> QED BY <1>2, <1>3, <1>4, Sizes DEF Remaining

LEMMA CountedBlocks ==
    /\ TotalBlocks \in Nat
    /\ \A b \in Nat : Remaining(b) > 0 => b < TotalBlocks
<1>1. CASE FileSize = 0
  <2>1. ASSUME NEW b \in Nat PROVE ~(Remaining(b) > 0)
    BY <1>1, Sizes DEF Remaining
  <2> QED BY <1>1, <2>1 DEF TotalBlocks
<1>2. CASE FileSize # 0
  <2> DEFINE n == (FileSize + BlockSize - 1) \div BlockSize
  <2>1. TotalBlocks = n
    BY <1>2 DEF TotalBlocks
  <2>2. n \in Nat /\ (n + 1) * BlockSize > FileSize + BlockSize - 1
    BY Sizes
  <2>3. n * BlockSize >= FileSize
    BY <2>2, Sizes
  <2>4. Remaining(n) <= 0
    BY <2>2, <2>3, Sizes DEF Remaining
  <2>5. ASSUME NEW b \in Nat, Remaining(b) > 0 PROVE b < n
    <3> HIDE DEF n
    <3>1. b # n
      BY <2>2, <2>4, <2>5, Sizes DEF Remaining
    <3>2. CASE b > n
      <4>1. Remaining(b) <= Remaining(n) - BlockSize
        BY <2>2, <3>2, LaterBlock
      <4>2. Remaining(b) \in Int /\ Remaining(n) \in Int
        BY <2>2, Sizes DEF Remaining
      <4> QED BY <2>4, <2>5, <4>1, <4>2, Sizes
    <3> QED BY <2>2, <2>5, <3>1, <3>2
  <2> QED BY <2>1, <2>2, <2>5
<1> QED BY <1>1, <1>2

LEMMA ReadBlockIsBlock ==
    ASSUME next \in 0..TotalBlocks, Remaining(next) > 0
    PROVE  next \in Block /\ next + 1 \in 0..TotalBlocks
BY CountedBlocks DEF Block

LEMMA LastBlock ==
    ASSUME next \in 0..TotalBlocks, Remaining(next) < BlockSize, NEW b \in Block
    PROVE  b <= next
<1> SUFFICES ASSUME b > next PROVE FALSE
  BY CountedBlocks DEF Block
<1>1. Remaining(b) <= Remaining(next) - BlockSize
  BY LaterBlock, CountedBlocks DEF Block
<1>2. Remaining(b) \in Int /\ Remaining(next) \in Int /\ Remaining(b) > 0
  BY Sizes, CountedBlocks DEF Block, Remaining
<1> QED BY <1>1, <1>2, Sizes

LEMMA NoJob == NoBlock \notin [block : Block, shard : 0..TotalShards]
            /\ NoChunk \notin [chunk : Chunk, left : SUBSET Node]
BY CountedBlocks DEF NoBlock, NoChunk, Chunk, Block

----------------------------------------------------------------------------
(* The types of the pipeline.                                              *)

Job == [chunk : Chunk, left : SUBSET Node]

(* Jobs that workers hold are pairs of the job and what is left to do.     *)
LEMMA HeldTypes ==
    ASSUME TypeOK
    PROVE  /\ \A w \in CryptoWorker : cjob[w] # NoBlock =>
                cjob[w] \in [block : Block, shard : 0..TotalShards]
           /\ \A w \in UploadWorker : ujob[w] # NoChunk => ujob[w] \in Job
BY DEF TypeOK, Job

LEMMA ReaderTypes ==
    ASSUME TypeOK, PutFile \/ ReaderStep
    PROVE  TypeOK'
<1> USE DEF pipeVars
<1>1. CASE PutFile
  BY <1>1 DEF PutFile, TypeOK, PC
<1>2. ASSUME NEW S \in SUBSET Node, Prepare(S) PROVE TypeOK'
  BY <1>2 DEF Prepare, TypeOK, PC, Reading
<1>3. CASE PrepareFails \/ ReadEOF \/ WaitUpload \/ PipelineSucceeded
  BY <1>3 DEF PrepareFails, ReadEOF, WaitUpload, PipelineSucceeded, TypeOK, PC,
     Reading, Ended
<1>4. CASE ReadBlock
  <2>1. next \in Block /\ next' \in 0..TotalBlocks
    BY <1>4, ReadBlockIsBlock DEF ReadBlock, TypeOK
  <2>2. cryptoJobs' \in Seq(Block) /\ Len(cryptoJobs') = Len(cryptoJobs) + 1
    BY <1>4, <2>1, AppendProperties DEF ReadBlock, TypeOK
  <2>3. Len(cryptoJobs') <= CryptoCap
    BY <1>4, <2>2, Sizes DEF ReadBlock, TypeOK
  <2> QED BY <1>4, <2>1, <2>2, <2>3 DEF ReadBlock, TypeOK, PC, Reading
<1>5. CASE ReadFails \/ CloseCrypto \/ CloseUpload
  BY <1>5 DEF ReadFails, CloseCrypto, CloseUpload, AfterClose, TypeOK, PC, Reading, Ended
<1>6. CASE PipelineFailed \/ RegisterManifest \/ ManifestFails \/ SaveStatus
  BY <1>6 DEF PipelineFailed, RegisterManifest, ManifestFails, SaveStatus, TypeOK, PC, Ended
<1> QED BY <1>1, <1>2, <1>3, <1>4, <1>5, <1>6 DEF ReaderStep

LEMMA CryptoTypes ==
    ASSUME TypeOK, NEW w \in CryptoWorker, CryptoStep(w)
    PROVE  TypeOK'
<1>1. CASE TakeBlock(w)
  <2>1. Head(cryptoJobs) \in Block /\ cryptoJobs' \in Seq(Block)
        /\ Len(cryptoJobs') = Len(cryptoJobs) - 1
    BY <1>1, HeadTailProperties DEF TakeBlock, TypeOK
  <2>2. Len(cryptoJobs') <= CryptoCap
    BY <2>1, Sizes, LenProperties DEF TypeOK
  <2>3. [block |-> Head(cryptoJobs), shard |-> 0] \in [block : Block, shard : 0..TotalShards]
    BY <2>1, Sizes
  <2> QED BY <1>1, <2>1, <2>2, <2>3 DEF TakeBlock, TypeOK
<1>2. CASE EncryptFails(w) \/ FinishBlock(w)
  BY <1>2, HeldTypes DEF EncryptFails, FinishBlock, TypeOK
<1>3. ASSUME NEW S \in SUBSET nodes, EmitShard(w, S) PROVE TypeOK'
  <2>1. cjob[w] \in [block : Block, shard : 0..TotalShards] /\ cjob[w].shard < TotalShards
    BY <1>3, HeldTypes DEF EmitShard
  <2>2. cjob[w].shard + 1 \in 0..TotalShards /\ <<cjob[w].block, cjob[w].shard>> \in Chunk
    BY <2>1, Sizes DEF Chunk
  <2>3. [cjob[w] EXCEPT !.shard = @ + 1] \in [block : Block, shard : 0..TotalShards]
    BY <2>1, <2>2
  <2>4. [chunk |-> <<cjob[w].block, cjob[w].shard>>, left |-> S] \in Job
    BY <2>2 DEF Job, TypeOK
  <2>5. uploadJobs' \in Seq(Job) /\ Len(uploadJobs') <= UploadCap
    BY <1>3, <2>4, AppendProperties, LenProperties, Sizes DEF EmitShard, TypeOK, Job
  <2> QED BY <1>3, <2>3, <2>5 DEF EmitShard, TypeOK, Job
<1>4. CASE CryptoExit(w)
  BY <1>4 DEF CryptoExit, TypeOK
<1> QED BY <1>1, <1>2, <1>3, <1>4 DEF CryptoStep

LEMMA UploadTypes ==
    ASSUME TypeOK, NEW w \in UploadWorker, UploadWorkerStep(w)
    PROVE  TypeOK'
<1>1. CASE TakeChunk(w)
  <2>1. Head(uploadJobs) \in Job /\ uploadJobs' \in Seq(Job)
        /\ Len(uploadJobs') = Len(uploadJobs) - 1
    BY <1>1, HeadTailProperties DEF TakeChunk, TypeOK, Job
  <2>2. Len(uploadJobs') <= UploadCap
    BY <2>1, Sizes, LenProperties DEF TypeOK
  <2> QED BY <1>1, <2>1, <2>2 DEF TakeChunk, TypeOK, Job
<1>2. CASE DropChunk(w) \/ GiveUp(w) \/ UploadExit(w)
  BY <1>2 DEF DropChunk, GiveUp, UploadExit, ErrorAfterGiveUp, localVars, TypeOK
<1>3. ASSUME NEW n \in Node, SaveChunk(w, n) PROVE TypeOK'
  BY <1>3 DEF SaveChunk, TypeOK
<1>4. ASSUME NEW n \in Node, SaveFails(w, n) PROVE TypeOK'
  <2>1. [ujob[w] EXCEPT !.left = @ \ {n}] \in Job
    BY <1>4, HeldTypes DEF SaveFails, Try, Job
  <2> QED BY <1>4, <2>1 DEF SaveFails, AfterTry, TypeOK, Job
<1> QED BY <1>1, <1>2, <1>3, <1>4 DEF UploadWorkerStep

LEMMA TypeStep == TypeOK /\ [Next]_vars => TypeOK'
<1> SUFFICES ASSUME TypeOK, [Next]_vars PROVE TypeOK'
  OBVIOUS
<1>1. CASE WireStep \/ UNCHANGED vars
  BY <1>1 DEF WireStep, vars, pipeVars, TypeOK
<1>2. CASE Crash
  BY <1>2, PipelineAssumption DEF Crash, TypeOK, PC, Ended
<1> QED BY <1>1, <1>2, ReaderTypes, CryptoTypes, UploadTypes DEF Next

LEMMA InitTypes == Init => TypeOK
<1> SUFFICES ASSUME Init PROVE TypeOK
  OBVIOUS
<1>1. cryptoJobs \in Seq(Block) /\ Len(cryptoJobs) = 0
  BY DEF Init
<1>2. uploadJobs \in Seq(Job) /\ Len(uploadJobs) = 0
  BY DEF Init
<1>3. next \in 0..TotalBlocks
  BY CountedBlocks DEF Init
<1>4. cjob \in [CryptoWorker -> [block : Block, shard : 0..TotalShards] \cup {NoBlock}]
  BY DEF Init
<1>5. ujob \in [UploadWorker -> Job \cup {NoChunk}]
  BY DEF Init
<1>6. /\ pc \in PC /\ nodes \subseteq Node /\ err \in BOOLEAN /\ split \subseteq Block
      /\ closed \subseteq {"cryptoJobs", "uploadJobs"}
      /\ running \subseteq CryptoWorker \cup UploadWorker
  BY DEF Init, PC
<1> QED BY <1>1, <1>2, <1>3, <1>4, <1>5, <1>6, Sizes DEF TypeOK, Job

----------------------------------------------------------------------------
(* What the steps of each actor leave alone.                               *)

LEMMA ReaderFrame ==
    ASSUME PutFile \/ ReaderStep
    PROVE  /\ UNCHANGED <<uploadJobs, cjob, ujob, split, localVars>>
           /\ running' # running => pc = "prepare" /\ running' = CryptoWorker \cup UploadWorker
           /\ next' # next \/ cryptoJobs' # cryptoJobs => ReadBlock
           /\ err' # err => pc' = "failed"
BY DEF ReaderStep, PutFile, Prepare, PrepareFails, ReadBlock, ReadEOF, ReadFails, CloseCrypto,
   CloseUpload, WaitUpload, PipelineFailed, PipelineSucceeded, RegisterManifest,
   ManifestFails, SaveStatus, pipeVars, localVars

LEMMA CryptoFrame ==
    ASSUME NEW w \in CryptoWorker, CryptoStep(w)
    PROVE  UNCHANGED <<pc, next, nodes, closed, ujob, status, tried, acked, dropped, remoteVars>>
BY DEF CryptoStep, TakeBlock, EncryptFails, EmitShard, FinishBlock, CryptoExit, localVars

LEMMA UploadFrame ==
    ASSUME NEW w \in UploadWorker, UploadWorkerStep(w)
    PROVE  UNCHANGED <<pc, next, nodes, cryptoJobs, closed, cjob, split, status, emitted, targets,
                       posted, registered, dels>>
BY DEF UploadWorkerStep, TakeChunk, DropChunk, SaveChunk, SaveFails, GiveUp, UploadExit,
   localVars, remoteVars

LEMMA WireFrame ==
    ASSUME WireStep \/ UNCHANGED vars
    PROVE  /\ UNCHANGED <<pc, pipeVars, status, localVars>>
           /\ posted = FALSE => posted' = FALSE
<1>1. CASE UNCHANGED vars
  BY <1>1 DEF vars, pipeVars, localVars, remoteVars
<1>2. CASE WireStep
  BY <1>2 DEF WireStep, pipeVars, localVars, U!RemoteStep, U!LateSave, U!LateSaveLost,
     U!LateManifest, U!DeleteChunk, U!DeleteChunkFails, U!uploadVars
<1> QED BY <1>1, <1>2

(* A worker that has a job is running, and the upload waits for it.        *)
LEMMA HolderRuns ==
    ASSUME WorkerInv
    PROVE  /\ \A w \in CryptoWorker : cjob[w] # NoBlock => w \in running /\ pc \in Busy
           /\ \A w \in UploadWorker : ujob[w] # NoChunk => w \in running /\ pc \in Busy
           /\ running # {} => pc \in Busy
BY DEF WorkerInv

----------------------------------------------------------------------------
(* The stages and the workers.                                             *)

LEMMA StageStep ==
    ASSUME TypeOK, FlowInv, [Next]_vars
    PROVE  StageInv'
<1> USE DEF FlowInv, StageInv, pipeVars, localVars, remoteVars, Reading
<1>1. CASE PutFile \/ ReaderStep
  <2>1. CASE PutFile \/ PrepareFails \/ ReadEOF \/ PipelineFailed \/ PipelineSucceeded
    BY <1>1, <2>1 DEF PutFile, PrepareFails, ReadEOF, PipelineFailed, PipelineSucceeded
  <2>2. ASSUME NEW S \in SUBSET Node, Prepare(S) PROVE StageInv'
    BY <1>1, <2>2 DEF Prepare
  <2>3. CASE ReadBlock \/ WaitUpload
    BY <1>1, <2>3 DEF ReadBlock, WaitUpload
  <2>4. CASE ReadFails \/ CloseCrypto \/ CloseUpload
    BY <1>1, <2>4 DEF ReadFails, CloseCrypto, CloseUpload, AfterClose, CryptoDone
  <2>5. CASE RegisterManifest \/ ManifestFails \/ SaveStatus
    BY <1>1, <2>5 DEF RegisterManifest, ManifestFails, SaveStatus
  <2> QED BY <1>1, <2>1, <2>2, <2>3, <2>4, <2>5 DEF ReaderStep
<1>2. ASSUME NEW w \in CryptoWorker, CryptoStep(w) PROVE StageInv'
  <2>1. w \in running /\ pc \in Busy
    BY <1>2, HolderRuns
    DEF CryptoStep, TakeBlock, EncryptFails, EmitShard, FinishBlock, CryptoExit, WorkerInv
  <2>2. running' \subseteq running
    BY <1>2 DEF CryptoStep, TakeBlock, EncryptFails, EmitShard, FinishBlock, CryptoExit
  <2> QED BY <1>2, <2>1, <2>2, CryptoFrame DEF Busy
<1>3. ASSUME NEW w \in UploadWorker, UploadWorkerStep(w) PROVE StageInv'
  <2>1. pc \in Busy
    BY <1>3, HolderRuns
    DEF UploadWorkerStep, TakeChunk, DropChunk, SaveChunk, SaveFails, Try, GiveUp, UploadExit,
        WorkerInv
  <2>2. running' \subseteq running
    BY <1>3 DEF UploadWorkerStep, TakeChunk, DropChunk, SaveChunk, SaveFails, GiveUp, UploadExit
  <2> QED BY <1>3, <2>1, <2>2, UploadFrame DEF Busy
<1>4. CASE WireStep \/ UNCHANGED vars
  <2>1. UNCHANGED <<pc, closed, emitted, running, err, status>>
    BY <1>4, WireFrame
  <2>2. posted = FALSE => posted' = FALSE
    BY <1>4, WireFrame
  <2> QED BY <2>1, <2>2
<1>5. CASE Crash
  BY <1>5 DEF Crash
<1> QED BY <1>1, <1>2, <1>3, <1>4, <1>5 DEF Next

LEMMA WorkerStep ==
    ASSUME TypeOK, FlowInv, [Next]_vars
    PROVE  WorkerInv'
<1> USE DEF FlowInv, WorkerInv, pipeVars, Started
<1>1. CASE PutFile \/ ReaderStep
  <2>1. CASE PutFile \/ PrepareFails \/ ReadEOF \/ PipelineFailed \/ PipelineSucceeded
             \/ RegisterManifest \/ ManifestFails \/ SaveStatus
    BY <1>1, <2>1 DEF PutFile, PrepareFails, ReadEOF, PipelineFailed, PipelineSucceeded,
       RegisterManifest, ManifestFails, SaveStatus, Busy, Reading
  <2>2. ASSUME NEW S \in SUBSET Node, Prepare(S) PROVE WorkerInv'
    BY <2>2 DEF Prepare, Busy, Reading
  <2>3. CASE ReadBlock
    <3>1. CryptoWorker \subseteq running
      BY <2>3 DEF ReadBlock, StageInv, Reading
    <3> QED BY <2>3, <3>1 DEF ReadBlock, Busy, Reading
  <2>4. CASE ReadFails \/ CloseCrypto \/ CloseUpload
    BY <2>4 DEF ReadFails, CloseCrypto, CloseUpload, AfterClose, Busy, Reading
  <2>5. CASE WaitUpload
    BY <2>5 DEF WaitUpload, UploadDone, StageInv, TypeOK, Busy, Reading
  <2> QED BY <1>1, <2>1, <2>2, <2>3, <2>4, <2>5 DEF ReaderStep
<1>2. ASSUME NEW w \in CryptoWorker, CryptoStep(w) PROVE WorkerInv'
  <2>1. CASE TakeBlock(w) \/ CryptoExit(w)
    BY <2>1, PipelineAssumption DEF TakeBlock, CryptoExit, TypeOK
  <2>2. CASE EncryptFails(w) \/ FinishBlock(w)
    BY <2>2 DEF EncryptFails, FinishBlock, TypeOK
  <2>3. ASSUME NEW S \in SUBSET nodes, EmitShard(w, S) PROVE WorkerInv'
    <3>1. w \in running /\ UploadWorker \subseteq running
      BY <2>3, HolderRuns DEF EmitShard, StageInv, Busy, Reading
    <3> QED BY <2>3, <3>1 DEF EmitShard, TypeOK
  <2> QED BY <1>2, <2>1, <2>2, <2>3 DEF CryptoStep
<1>3. ASSUME NEW w \in UploadWorker, UploadWorkerStep(w) PROVE WorkerInv'
  <2>1. CASE TakeChunk(w) \/ UploadExit(w)
    BY <2>1, PipelineAssumption DEF TakeChunk, UploadExit, TypeOK
  <2>2. CASE DropChunk(w) \/ GiveUp(w)
    BY <2>2 DEF DropChunk, GiveUp, TypeOK
  <2>3. ASSUME NEW n \in Node, SaveChunk(w, n) \/ SaveFails(w, n) PROVE WorkerInv'
    BY <2>3 DEF SaveChunk, SaveFails, Try, TypeOK
  <2> QED BY <1>3, <2>1, <2>2, <2>3 DEF UploadWorkerStep
<1>4. CASE WireStep \/ UNCHANGED vars
  BY <1>4, WireFrame
<1>5. CASE Crash
  BY <1>5 DEF Crash
<1> QED BY <1>1, <1>2, <1>3, <1>4, <1>5 DEF Next

----------------------------------------------------------------------------
(* The blocks on their way through cryptoJobs.                             *)

LEMMA TailJobs ==
    ASSUME NEW S, NEW q \in Seq(S), q # <<>>
    PROVE  /\ Len(q) \in Nat \ {0}
           /\ Head(q) = q[1]
           /\ Tail(q) \in Seq(S)
           /\ Len(Tail(q)) = Len(q) - 1
           /\ \A i \in 1..Len(Tail(q)) : i + 1 \in 2..Len(q) /\ Tail(q)[i] = q[i + 1]
BY HeadTailProperties, LenProperties

LEMMA AppendJob ==
    ASSUME NEW S, NEW q \in Seq(S), NEW e \in S
    PROVE  /\ Len(q) \in Nat
           /\ Append(q, e) \in Seq(S)
           /\ Len(Append(q, e)) = Len(q) + 1
           /\ \A i \in 1..Len(q) : Append(q, e)[i] = q[i]
           /\ Append(q, e)[Len(q) + 1] = e
BY AppendProperties, LenProperties

LEMMA BlockTypes ==
    ASSUME TypeOK
    PROVE  /\ next \in Nat /\ Len(cryptoJobs) \in Nat /\ First \in Int
           /\ \A b \in Block : b \in Nat
           /\ cryptoJobs \in Seq(Block)
BY CountedBlocks, LenProperties DEF TypeOK, First, Block

LEMMA ReadBlockStep ==
    ASSUME TypeOK, FlowInv, ReadBlock
    PROVE  BlockInv' /\ First' = First
<1> DEFINE q == cryptoJobs
           r == cryptoJobs'
<1>1. next \in Block
  BY ReadBlockIsBlock DEF ReadBlock, TypeOK
<1>2. /\ Len(q) \in Nat /\ Len(r) = Len(q) + 1
      /\ \A i \in 1..Len(q) : r[i] = q[i]
      /\ r[Len(q) + 1] = next
  BY <1>1, AppendJob DEF ReadBlock, TypeOK
<1>3. First' = First
  BY <1>2, BlockTypes DEF ReadBlock, First
<1>4. \A i \in 1..Len(r) : r[i] = First' + i - 1
  <2> SUFFICES ASSUME NEW i \in 1..Len(r) PROVE r[i] = First + i - 1
    BY <1>3
  <2>1. CASE i = Len(q) + 1
    BY <1>2, <2>1, BlockTypes DEF First
  <2>2. CASE i # Len(q) + 1
    <3>1. i \in 1..Len(q)
      BY <1>2, <2>2
    <3> QED BY <1>2, <3>1 DEF FlowInv, BlockInv
  <2> QED BY <2>1, <2>2
<1>5. pc' \in ReadAll => \A b \in Block : b < next'
  <2> SUFFICES ASSUME pc' \in ReadAll, NEW b \in Block PROVE b < next'
    OBVIOUS
  <2>1. Remaining(next) < BlockSize
    BY DEF ReadBlock, ReadAll
  <2> QED BY <2>1, LastBlock, BlockTypes DEF ReadBlock, TypeOK
<1>6. cjob' = cjob
  BY DEF ReadBlock
<1> QED BY <1>3, <1>4, <1>5, <1>6 DEF FlowInv, BlockInv

LEMMA TakeBlockStep ==
    ASSUME TypeOK, FlowInv, NEW w \in CryptoWorker, TakeBlock(w)
    PROVE  /\ BlockInv'
           /\ First' = First + 1
           /\ cjob' = [cjob EXCEPT ![w] = [block |-> First, shard |-> 0]]
<1> DEFINE q == cryptoJobs
           r == cryptoJobs'
<1>1. /\ Len(q) \in Nat \ {0} /\ Len(r) = Len(q) - 1 /\ Head(q) = q[1]
      /\ \A i \in 1..Len(r) : i + 1 \in 2..Len(q) /\ r[i] = q[i + 1]
  BY TailJobs DEF TakeBlock, TypeOK
<1>2. First' = First + 1 /\ First \in Int
  BY <1>1, BlockTypes DEF TakeBlock, First
<1>3. Head(q) = First
  BY <1>1, <1>2 DEF FlowInv, BlockInv
<1>4. cjob' = [cjob EXCEPT ![w] = [block |-> First, shard |-> 0]]
  BY <1>3 DEF TakeBlock
<1>5. \A i \in 1..Len(r) : r[i] = First' + i - 1
  BY <1>1, <1>2 DEF FlowInv, BlockInv
<1>6. \A v \in CryptoWorker : cjob[v] # NoBlock => cjob[v].block \in Int /\ cjob[v].block < First
  BY HeldTypes, BlockTypes DEF FlowInv, BlockInv
<1>7. \A v \in CryptoWorker : cjob'[v] = IF v = w THEN [block |-> First, shard |-> 0] ELSE cjob[v]
  BY <1>4 DEF TypeOK
<1>8. \A v \in CryptoWorker : cjob'[v] # NoBlock => cjob'[v].block < First'
  BY <1>2, <1>6, <1>7
<1>9. \A u, v \in CryptoWorker :
        u # v /\ cjob'[u] # NoBlock /\ cjob'[v] # NoBlock => cjob'[u].block # cjob'[v].block
  BY <1>2, <1>6, <1>7 DEF FlowInv, BlockInv
<1>10. pc' \in ReadAll => \A b \in Block : b < next'
  BY DEF TakeBlock, FlowInv, BlockInv
<1> QED BY <1>2, <1>4, <1>5, <1>8, <1>9, <1>10 DEF BlockInv

(* The other steps of the workers give a worker no other block.            *)
LEMMA OtherBlocks ==
    ASSUME TypeOK, FlowInv, NEW w \in CryptoWorker, CryptoStep(w), ~TakeBlock(w)
    PROVE  /\ cryptoJobs' = cryptoJobs
           /\ \A v \in CryptoWorker : cjob'[v] # NoBlock =>
                cjob[v] # NoBlock /\ cjob'[v].block = cjob[v].block
<1>1. CASE EncryptFails(w) \/ FinishBlock(w) \/ CryptoExit(w)
  BY <1>1 DEF EncryptFails, FinishBlock, CryptoExit, TypeOK
<1>2. ASSUME NEW S \in SUBSET nodes, EmitShard(w, S)
      PROVE  /\ cryptoJobs' = cryptoJobs
             /\ \A v \in CryptoWorker : cjob'[v] # NoBlock =>
                  cjob[v] # NoBlock /\ cjob'[v].block = cjob[v].block
  <2>1. cjob[w] \in [block : Block, shard : 0..TotalShards] /\ cjob[w] # NoBlock
    BY <1>2, HeldTypes DEF EmitShard
  <2> QED BY <1>2, <2>1 DEF EmitShard, TypeOK
<1> QED BY <1>1, <1>2 DEF CryptoStep

LEMMA BlockStep ==
    ASSUME TypeOK, FlowInv, [Next]_vars
    PROVE  BlockInv'
<1>1. CASE PutFile \/ ReaderStep
  <2>1. CASE ReadBlock
    BY <2>1, ReadBlockStep
  <2>2. CASE ~ReadBlock
    <3>1. next' = next /\ cryptoJobs' = cryptoJobs /\ cjob' = cjob
      BY <1>1, <2>2, ReaderFrame
    <3>2. pc' \in ReadAll => \A b \in Block : b < next
      <4>1. CASE ReadEOF
        <5> SUFFICES ASSUME NEW b \in Block PROVE b < next
          OBVIOUS
        <5>1. Remaining(next) \in Int
          BY Sizes, BlockTypes DEF Remaining
        <5>2. Remaining(next) <= 0
          BY <4>1 DEF ReadEOF
        <5>3. b # next
          BY <5>1, <5>2 DEF Block
        <5>4. b <= next
          BY <5>1, <5>2, LastBlock, Sizes DEF TypeOK
        <5> QED BY <5>3, <5>4, BlockTypes
      <4>2. CASE ~ReadEOF
        <5>1. pc' \in ReadAll => pc \in ReadAll
          BY <1>1, <2>2, <4>2
          DEF ReaderStep, PutFile, Prepare, PrepareFails, ReadFails, CloseCrypto, CloseUpload,
              WaitUpload, PipelineFailed, PipelineSucceeded, RegisterManifest, ManifestFails,
              SaveStatus, ReadAll
        <5>2. pc \in ReadAll => \A b \in Block : b < next
          BY DEF FlowInv, BlockInv
        <5> QED BY <5>1, <5>2
      <4> QED BY <4>1, <4>2
    <3> QED BY <3>1, <3>2 DEF FlowInv, BlockInv, First
  <2> QED BY <2>1, <2>2
<1>2. ASSUME NEW w \in CryptoWorker, CryptoStep(w) PROVE BlockInv'
  <2>1. CASE TakeBlock(w)
    BY <2>1, TakeBlockStep
  <2>2. CASE ~TakeBlock(w)
    <3>1. First' = First /\ UNCHANGED <<pc, next, cryptoJobs>>
      BY <1>2, <2>2, OtherBlocks, CryptoFrame DEF First
    <3> QED BY <1>2, <2>2, <3>1, OtherBlocks DEF FlowInv, BlockInv
  <2> QED BY <2>1, <2>2
<1>3. ASSUME NEW w \in UploadWorker, UploadWorkerStep(w) PROVE BlockInv'
  BY <1>3, UploadFrame DEF FlowInv, BlockInv, First
<1>4. CASE WireStep \/ UNCHANGED vars
  <2>1. UNCHANGED <<pc, next, cryptoJobs, cjob>>
    BY <1>4, WireFrame DEF pipeVars
  <2> QED BY <2>1 DEF FlowInv, BlockInv, First
<1>5. CASE Crash
  <2>1. cryptoJobs' = <<>> /\ pc' \notin ReadAll /\ \A w \in CryptoWorker : cjob'[w] = NoBlock
    BY <1>5 DEF Crash, ReadAll
  <2> QED BY <2>1 DEF BlockInv
<1> QED BY <1>1, <1>2, <1>3, <1>4, <1>5 DEF Next

----------------------------------------------------------------------------
(* The chunks of a block.                                                  *)

LEMMA ChunkTypes ==
    ASSUME U!TypeOK
    PROVE  /\ emitted \subseteq Chunk
           /\ \A c \in Chunk : c[1] \in Int /\ c[2] \in Int /\ c = <<c[1], c[2]>>
BY CountedBlocks, Sizes DEF U!TypeOK, Chunk, Block

LEMMA EmittedChunk ==
    ASSUME TypeOK, FlowInv, NEW w \in CryptoWorker, NEW S \in SUBSET nodes, EmitShard(w, S)
    PROVE  /\ cjob[w] \in [block : Block, shard : 0..TotalShards] /\ cjob[w] # NoBlock
           /\ cjob[w].shard \in 0..(TotalShards - 1)
           /\ <<cjob[w].block, cjob[w].shard>> \in Chunk
           /\ <<cjob[w].block, cjob[w].shard>> \notin emitted
<1>1. cjob[w] \in [block : Block, shard : 0..TotalShards] /\ cjob[w] # NoBlock
  BY HeldTypes DEF EmitShard
<1>2. cjob[w].shard \in 0..(TotalShards - 1)
  BY <1>1, Sizes DEF EmitShard
<1>3. <<cjob[w].block, cjob[w].shard>> \in Chunk
  BY <1>1, <1>2 DEF Chunk
<1>4. <<cjob[w].block, cjob[w].shard>> \notin emitted
  BY <1>1, <1>2 DEF FlowInv, EmitInv
<1> QED BY <1>1, <1>2, <1>3, <1>4

LEMMA EmitShardKeepsEmitInv ==
    ASSUME TypeOK, U!TypeOK, FlowInv, NEW w \in CryptoWorker, NEW S \in SUBSET nodes,
           EmitShard(w, S)
    PROVE  EmitInv'
<1> DEFINE b == cjob[w].block
           s == cjob[w].shard
<1>1. /\ cjob[w] \in [block : Block, shard : 0..TotalShards] /\ cjob[w] # NoBlock
      /\ b \in Block /\ s \in 0..(TotalShards - 1) /\ b < First
  BY EmittedChunk DEF FlowInv, BlockInv
<1>2. emitted' = emitted \cup {<<b, s>>} /\ First' = First /\ split' = split
  BY DEF EmitShard, First
<1>3. /\ cjob'[w] # NoBlock => cjob'[w].block = b /\ cjob'[w].shard = s + 1
      /\ \A v \in CryptoWorker : v # w => cjob'[v] = cjob[v]
  BY <1>1 DEF EmitShard, TypeOK
<1> HIDE DEF b, s
<1>4. \A c \in emitted' : c[1] < First'
  BY <1>1, <1>2 DEF FlowInv, EmitInv
<1>5. \A c \in split', t \in 0..(TotalShards - 1) : <<c, t>> \in emitted'
  BY <1>2 DEF FlowInv, EmitInv
<1>6. ASSUME NEW v \in CryptoWorker, NEW t \in 0..(TotalShards - 1), cjob'[v] # NoBlock
      PROVE  <<cjob'[v].block, t>> \in emitted' <=> t < cjob'[v].shard
  <2>1. CASE v = w
    <3>1. <<b, t>> \in emitted <=> t < s
      BY <1>1 DEF FlowInv, EmitInv, b, s
    <3>2. <<b, t>> \in emitted' <=> t < s \/ t = s
      BY <1>2, <3>1
    <3> QED BY <1>1, <1>3, <1>6, <2>1, <3>2
  <2>2. CASE v # w
    <3>1. cjob'[v] = cjob[v] /\ cjob[v] # NoBlock /\ cjob[v].block # b
      BY <1>1, <1>3, <1>6, <2>2 DEF FlowInv, BlockInv, b
    <3>2. <<cjob[v].block, t>> \in emitted' <=> <<cjob[v].block, t>> \in emitted
      BY <1>2, <3>1
    <3> QED BY <3>1, <3>2 DEF FlowInv, EmitInv
  <2> QED BY <2>1, <2>2
<1> QED BY <1>4, <1>5, <1>6 DEF EmitInv

LEMMA EmitStep ==
    ASSUME TypeOK, U!TypeOK, FlowInv, [Next]_vars
    PROVE  EmitInv'
<1>1. CASE PutFile \/ ReaderStep
  <2>1. emitted' = emitted /\ cjob' = cjob /\ split' = split
    BY <1>1, ReaderFrame DEF localVars
  <2>2. First' = First
    BY <1>1, ReaderFrame, ReadBlockStep DEF First
  <2> QED BY <2>1, <2>2 DEF FlowInv, EmitInv
<1>2. ASSUME NEW w \in CryptoWorker, CryptoStep(w) PROVE EmitInv'
  <2>1. CASE TakeBlock(w)
    <3>1. emitted' = emitted /\ split' = split
      BY <2>1 DEF TakeBlock, localVars
    <3>2. First' = First + 1 /\ First \in Int
          /\ \A v \in CryptoWorker :
                cjob'[v] = IF v = w THEN [block |-> First, shard |-> 0] ELSE cjob[v]
      BY <2>1, TakeBlockStep, BlockTypes DEF TypeOK
    <3>3. \A c \in emitted : c[1] \in Int /\ c[1] < First
      BY ChunkTypes DEF FlowInv, EmitInv
    <3>4. \A t \in 0..(TotalShards - 1) : <<First, t>> \notin emitted
      BY <3>2, <3>3
    <3>5. \A c \in emitted' : c[1] < First'
      BY <3>1, <3>2, <3>3
    <3>6. \A v \in CryptoWorker, t \in 0..(TotalShards - 1) :
            cjob'[v] # NoBlock => (<<cjob'[v].block, t>> \in emitted' <=> t < cjob'[v].shard)
      BY <3>1, <3>2, <3>4 DEF FlowInv, EmitInv
    <3> QED BY <3>1, <3>5, <3>6 DEF FlowInv, EmitInv
  <2>2. CASE EncryptFails(w) \/ CryptoExit(w)
    <3>1. emitted' = emitted /\ split' = split /\ First' = First
      BY <2>2 DEF EncryptFails, CryptoExit, localVars, First
    <3>2. \A v \in CryptoWorker : cjob'[v] # NoBlock => cjob'[v] = cjob[v]
      BY <2>2 DEF EncryptFails, CryptoExit, TypeOK
    <3> QED BY <3>1, <3>2 DEF FlowInv, EmitInv
  <2>3. ASSUME NEW S \in SUBSET nodes, EmitShard(w, S) PROVE EmitInv'
    BY <2>3, EmitShardKeepsEmitInv
  <2>4. CASE FinishBlock(w)
    <3>1. emitted' = emitted /\ split' = split \cup {cjob[w].block} /\ First' = First
      BY <2>4 DEF FinishBlock, localVars, First
    <3>2. \A v \in CryptoWorker : cjob'[v] # NoBlock => cjob'[v] = cjob[v]
      BY <2>4 DEF FinishBlock, TypeOK
    <3>3. \A t \in 0..(TotalShards - 1) : <<cjob[w].block, t>> \in emitted
      BY <2>4, Sizes DEF FinishBlock, FlowInv, EmitInv
    <3> QED BY <3>1, <3>2, <3>3 DEF FlowInv, EmitInv
  <2> QED BY <1>2, <2>1, <2>2, <2>3, <2>4 DEF CryptoStep
<1>3. ASSUME NEW w \in UploadWorker, UploadWorkerStep(w) PROVE EmitInv'
  BY <1>3, UploadFrame DEF FlowInv, EmitInv, First
<1>4. CASE WireStep \/ UNCHANGED vars
  <2>1. UNCHANGED <<next, cryptoJobs, cjob, emitted, split>>
    BY <1>4, WireFrame DEF pipeVars, localVars
  <2> QED BY <2>1 DEF FlowInv, EmitInv, First
<1>5. CASE Crash
  <2>1. /\ emitted' = emitted /\ split' = split /\ next' = next /\ cryptoJobs' = <<>>
        /\ \A w \in CryptoWorker : cjob'[w] = NoBlock
    BY <1>5 DEF Crash, localVars
  <2>2. \A c \in emitted : c[1] \in Int /\ c[1] < First
    BY ChunkTypes DEF FlowInv, EmitInv
  <2>3. First' = next /\ First <= next
    BY <2>1, BlockTypes DEF First
  <2>4. \A c \in emitted : c[1] < next
    BY <2>2, <2>3, BlockTypes
  <2> QED BY <2>1, <2>3, <2>4 DEF FlowInv, EmitInv
<1> QED BY <1>1, <1>2, <1>3, <1>4, <1>5 DEF Next

----------------------------------------------------------------------------
(* The chunks on their way through uploadJobs.                             *)

(* Open after the step.                                                    *)
StaysOpen(c) == c \in emitted' \ dropped' /\ acked'[c] = NoNode

LEMMA JobTypes ==
    ASSUME TypeOK, U!TypeOK
    PROVE  /\ uploadJobs \in Seq(Job)
           /\ Len(uploadJobs) \in Nat
           /\ \A i \in 1..Len(uploadJobs) : uploadJobs[i] \in Job /\ uploadJobs[i].chunk \in Chunk
           /\ \A w \in UploadWorker : ujob[w] # NoChunk => ujob[w].chunk \in Chunk
           /\ targets \in [Chunk -> SUBSET Node] /\ tried \in [Chunk -> SUBSET Node]
           /\ acked \in [Chunk -> Node \cup {NoNode}]
<1>1. uploadJobs \in Seq(Job) /\ Len(uploadJobs) \in Nat
  BY LenProperties DEF TypeOK, Job
<1>2. \A i \in 1..Len(uploadJobs) : uploadJobs[i] \in Job
  BY <1>1, ElementOfSeq
<1>3. \A w \in UploadWorker : ujob[w] # NoChunk => ujob[w] \in Job
  BY HeldTypes
<1> QED BY <1>1, <1>2, <1>3 DEF Job, U!TypeOK

LEMMA EmitShardKeepsJobInv ==
    ASSUME TypeOK, U!TypeOK, FlowInv, NEW w \in CryptoWorker, NEW S \in SUBSET nodes,
           EmitShard(w, S)
    PROVE  JobInv'
<1> DEFINE c == <<cjob[w].block, cjob[w].shard>>
           q == uploadJobs
           r == uploadJobs'
<1>1. c \in Chunk /\ c \notin emitted /\ S \in SUBSET Node
  BY EmittedChunk DEF TypeOK
<1>2. [chunk |-> c, left |-> S] \in Job /\ r = Append(q, [chunk |-> c, left |-> S])
  BY <1>1 DEF Job, EmitShard
<1>3. /\ emitted' = emitted \cup {c} /\ targets' = [targets EXCEPT ![c] = S]
      /\ ujob' = ujob /\ tried' = tried /\ acked' = acked /\ dropped' = dropped
  BY DEF EmitShard
<1> HIDE DEF c
<1>4. /\ Len(q) \in Nat /\ Len(r) = Len(q) + 1
      /\ \A i \in 1..Len(q) : r[i] = q[i]
      /\ r[Len(q) + 1].chunk = c /\ r[Len(q) + 1].left = S
  BY <1>2, AppendJob, JobTypes
<1>5. \A i \in 1..Len(r) : i \in 1..Len(q) \/ i = Len(q) + 1
  BY <1>4
<1>6. tried[c] = {} /\ acked[c] = NoNode /\ c \notin dropped
  BY <1>1 DEF FlowInv, JobInv
<1>7. targets'[c] = S /\ \A d \in Chunk \ {c} : targets'[d] = targets[d]
  BY <1>1, <1>3, JobTypes
<1>8. \A d \in Chunk : Open(d) => d # c /\ StaysOpen(d)
  BY <1>1, <1>3 DEF Open, StaysOpen
<1>9. StaysOpen(c)
  BY <1>3, <1>6 DEF Open, StaysOpen
<1>10. \A i \in 1..Len(q) : q[i].chunk # c
  BY <1>8, JobTypes DEF FlowInv, JobInv
<1>11. \A v \in UploadWorker : ujob[v] # NoChunk => ujob[v].chunk # c
  BY <1>8, JobTypes DEF FlowInv, JobInv
<1>12. ASSUME NEW i \in 1..Len(r)
       PROVE  /\ StaysOpen(r[i].chunk) /\ tried'[r[i].chunk] = {}
              /\ r[i].left = targets'[r[i].chunk]
  <2>1. CASE i \in 1..Len(q)
    <3>1. r[i] = q[i] /\ q[i].chunk \in Chunk /\ q[i].chunk # c
      BY <1>4, <1>10, <2>1, JobTypes
    <3>2. Open(q[i].chunk) /\ tried[q[i].chunk] = {} /\ q[i].left = targets[q[i].chunk]
      BY <2>1 DEF FlowInv, JobInv
    <3> QED BY <1>3, <1>7, <1>8, <3>1, <3>2
  <2>2. CASE i = Len(q) + 1
    BY <1>3, <1>4, <1>6, <1>7, <1>9, <2>2
  <2> QED BY <1>5, <2>1, <2>2
<1>13. \A i, j \in 1..Len(r) : i # j => r[i].chunk # r[j].chunk
  BY <1>4, <1>5, <1>10 DEF FlowInv, JobInv
<1>14. ASSUME NEW v \in UploadWorker, ujob'[v] # NoChunk
       PROVE  /\ StaysOpen(ujob'[v].chunk)
              /\ ujob'[v].left = targets'[ujob'[v].chunk] \ tried'[ujob'[v].chunk]
              /\ \A i \in 1..Len(r) : r[i].chunk # ujob'[v].chunk
  <2>1. ujob[v] # NoChunk /\ ujob[v].chunk \in Chunk /\ ujob[v].chunk # c
    BY <1>3, <1>11, <1>14, JobTypes
  <2>2. /\ Open(ujob[v].chunk)
        /\ ujob[v].left = targets[ujob[v].chunk] \ tried[ujob[v].chunk]
        /\ \A i \in 1..Len(q) : q[i].chunk # ujob[v].chunk
    BY <2>1 DEF FlowInv, JobInv
  <2> QED BY <1>3, <1>4, <1>5, <1>7, <1>8, <2>1, <2>2
<1>15. \A v, u \in UploadWorker :
         v # u /\ ujob'[v] # NoChunk /\ ujob'[u] # NoChunk => ujob'[v].chunk # ujob'[u].chunk
  BY <1>3 DEF FlowInv, JobInv
<1>16. \A d \in Chunk \ emitted' : tried'[d] = {} /\ acked'[d] = NoNode /\ d \notin dropped'
  BY <1>3 DEF FlowInv, JobInv
<1> QED BY <1>12, <1>13, <1>14, <1>15, <1>16 DEF JobInv, Open, StaysOpen

LEMMA TakeChunkKeepsJobInv ==
    ASSUME TypeOK, U!TypeOK, FlowInv, NEW w \in UploadWorker, TakeChunk(w)
    PROVE  JobInv'
<1> DEFINE q == uploadJobs
           r == uploadJobs'
<1>1. /\ Len(q) \in Nat \ {0} /\ Len(r) = Len(q) - 1 /\ Head(q) = q[1]
      /\ \A i \in 1..Len(r) : i + 1 \in 2..Len(q) /\ r[i] = q[i + 1]
  BY TailJobs, JobTypes DEF TakeChunk
<1>2. UNCHANGED <<emitted, targets, tried, acked, dropped>>
  BY DEF TakeChunk, localVars
<1>3. \A v \in UploadWorker : ujob'[v] = IF v = w THEN q[1] ELSE ujob[v]
  BY <1>1 DEF TakeChunk, TypeOK
<1>4. 1 \in 1..Len(q) /\ \A i \in 2..Len(q) : i \in 1..Len(q) /\ i # 1
  BY <1>1
<1>5. \A d : StaysOpen(d) <=> Open(d)
  BY <1>2 DEF Open, StaysOpen
<1>6. ASSUME NEW i \in 1..Len(r)
      PROVE  /\ StaysOpen(r[i].chunk) /\ tried'[r[i].chunk] = {}
             /\ r[i].left = targets'[r[i].chunk]
  <2>1. i + 1 \in 1..Len(q) /\ r[i] = q[i + 1]
    BY <1>1, <1>4
  <2>2. /\ Open(q[i + 1].chunk) /\ tried[q[i + 1].chunk] = {}
        /\ q[i + 1].left = targets[q[i + 1].chunk]
    BY <2>1 DEF FlowInv, JobInv
  <2> QED BY <1>2, <1>5, <2>1, <2>2
<1>7. \A i, j \in 1..Len(r) : i # j => r[i].chunk # r[j].chunk
  <2> SUFFICES ASSUME NEW i \in 1..Len(r), NEW j \in 1..Len(r), i # j
               PROVE  q[i + 1].chunk # q[j + 1].chunk
    BY <1>1
  <2>1. i + 1 \in 1..Len(q) /\ j + 1 \in 1..Len(q) /\ i + 1 # j + 1
    BY <1>1, <1>4
  <2> QED BY <2>1 DEF FlowInv, JobInv
<1>8. ASSUME NEW v \in UploadWorker, ujob'[v] # NoChunk
      PROVE  /\ StaysOpen(ujob'[v].chunk)
             /\ ujob'[v].left = targets'[ujob'[v].chunk] \ tried'[ujob'[v].chunk]
             /\ \A i \in 1..Len(r) : r[i].chunk # ujob'[v].chunk
  <2>1. CASE v = w
    <3>1. /\ Open(q[1].chunk) /\ tried[q[1].chunk] = {} /\ q[1].left = targets[q[1].chunk]
          /\ \A i \in 2..Len(q) : q[i].chunk # q[1].chunk
      BY <1>4 DEF FlowInv, JobInv
    <3>2. q[1].left = targets[q[1].chunk] \ tried[q[1].chunk]
      BY <3>1
    <3> QED BY <1>1, <1>2, <1>3, <1>5, <2>1, <3>1, <3>2
  <2>2. CASE v # w
    <3>1. ujob'[v] = ujob[v] /\ ujob[v] # NoChunk
      BY <1>3, <1>8, <2>2
    <3>2. /\ Open(ujob[v].chunk)
          /\ ujob[v].left = targets[ujob[v].chunk] \ tried[ujob[v].chunk]
          /\ \A i \in 1..Len(q) : q[i].chunk # ujob[v].chunk
      BY <3>1 DEF FlowInv, JobInv
    <3> QED BY <1>1, <1>2, <1>4, <1>5, <3>1, <3>2
  <2> QED BY <2>1, <2>2
<1>9. ASSUME NEW v \in UploadWorker, NEW u \in UploadWorker, v # u,
             ujob'[v] # NoChunk, ujob'[u] # NoChunk
      PROVE  ujob'[v].chunk # ujob'[u].chunk
  <2>1. \A x \in UploadWorker : ujob[x] # NoChunk => ujob[x].chunk # q[1].chunk
    BY <1>4 DEF FlowInv, JobInv
  <2> QED BY <1>3, <1>9, <2>1 DEF FlowInv, JobInv
<1>10. \A d \in Chunk \ emitted' : tried'[d] = {} /\ acked'[d] = NoNode /\ d \notin dropped'
  BY <1>2 DEF FlowInv, JobInv
<1> QED BY <1>6, <1>7, <1>8, <1>9, <1>10 DEF JobInv, Open, StaysOpen

(* The outcome of a call is about the worker's own chunk.                  *)
LEMMA OutcomeKeepsJobInv ==
    ASSUME TypeOK, U!TypeOK, FlowInv, NEW w \in UploadWorker, ujob[w] # NoChunk,
           UNCHANGED <<uploadJobs, emitted, targets>>,
           \A v \in UploadWorker : v # w => ujob'[v] = ujob[v],
           \A d \in Chunk \ {ujob[w].chunk} :
               tried'[d] = tried[d] /\ acked'[d] = acked[d] /\ (d \in dropped' <=> d \in dropped),
           ujob'[w] # NoChunk =>
               /\ ujob'[w].chunk = ujob[w].chunk
               /\ StaysOpen(ujob[w].chunk)
               /\ ujob'[w].left = targets[ujob[w].chunk] \ tried'[ujob[w].chunk]
    PROVE  JobInv'
<1> DEFINE c == ujob[w].chunk
<1>1. c \in Chunk /\ c \in emitted
  BY JobTypes DEF FlowInv, JobInv, Open
<1>2. \A i \in 1..Len(uploadJobs) : uploadJobs[i].chunk \in Chunk \ {c}
  BY JobTypes DEF FlowInv, JobInv
<1>3. \A v \in UploadWorker : v # w /\ ujob[v] # NoChunk => ujob[v].chunk \in Chunk \ {c}
  BY JobTypes DEF FlowInv, JobInv
<1> HIDE DEF c
<1>4. \A d \in Chunk \ {c} : Open(d) => StaysOpen(d)
  BY DEF Open, StaysOpen, c
<1>5. \A i \in 1..Len(uploadJobs') :
        /\ StaysOpen(uploadJobs'[i].chunk) /\ tried'[uploadJobs'[i].chunk] = {}
        /\ uploadJobs'[i].left = targets'[uploadJobs'[i].chunk]
  BY <1>2, <1>4 DEF FlowInv, JobInv, c
<1>6. \A i, j \in 1..Len(uploadJobs') :
        i # j => uploadJobs'[i].chunk # uploadJobs'[j].chunk
  BY DEF FlowInv, JobInv
<1>7. ASSUME NEW v \in UploadWorker, ujob'[v] # NoChunk
      PROVE  /\ StaysOpen(ujob'[v].chunk)
             /\ ujob'[v].left = targets'[ujob'[v].chunk] \ tried'[ujob'[v].chunk]
             /\ \A i \in 1..Len(uploadJobs') : uploadJobs'[i].chunk # ujob'[v].chunk
  <2>1. CASE v = w
    BY <1>2, <1>7, <2>1 DEF c
  <2>2. CASE v # w
    <3>1. ujob'[v] = ujob[v] /\ ujob[v] # NoChunk /\ ujob[v].chunk \in Chunk \ {c}
      BY <1>3, <1>7, <2>2
    <3> QED BY <1>4, <3>1 DEF FlowInv, JobInv, c
  <2> QED BY <2>1, <2>2
<1>8. \A v, u \in UploadWorker :
        v # u /\ ujob'[v] # NoChunk /\ ujob'[u] # NoChunk => ujob'[v].chunk # ujob'[u].chunk
  <2> SUFFICES ASSUME NEW v \in UploadWorker, NEW u \in UploadWorker, v # u,
                      ujob'[v] # NoChunk, ujob'[u] # NoChunk
               PROVE  ujob'[v].chunk # ujob'[u].chunk
    OBVIOUS
  <2>1. \A x \in UploadWorker : ujob'[x] # NoChunk =>
          ujob[x] # NoChunk /\ ujob'[x].chunk = ujob[x].chunk
    OBVIOUS
  <2> QED BY <2>1 DEF FlowInv, JobInv
<1>9. \A d \in Chunk \ emitted' : tried'[d] = {} /\ acked'[d] = NoNode /\ d \notin dropped'
  BY <1>1 DEF FlowInv, JobInv, c
<1> QED BY <1>5, <1>6, <1>7, <1>8, <1>9 DEF JobInv, Open, StaysOpen

LEMMA JobStep ==
    ASSUME TypeOK, U!TypeOK, FlowInv, [Next]_vars
    PROVE  JobInv'
<1>1. CASE UNCHANGED <<uploadJobs, ujob, localVars>>
  BY <1>1 DEF FlowInv, JobInv, Open, localVars
<1>2. ASSUME NEW w \in CryptoWorker, CryptoStep(w) PROVE JobInv'
  <2>1. ASSUME NEW S \in SUBSET nodes, EmitShard(w, S) PROVE JobInv'
    BY <2>1, EmitShardKeepsJobInv
  <2>2. CASE TakeBlock(w) \/ EncryptFails(w) \/ FinishBlock(w) \/ CryptoExit(w)
    BY <1>1, <2>2 DEF TakeBlock, EncryptFails, FinishBlock, CryptoExit
  <2> QED BY <1>2, <2>1, <2>2 DEF CryptoStep
<1>3. ASSUME NEW w \in UploadWorker, UploadWorkerStep(w) PROVE JobInv'
  <2>1. CASE TakeChunk(w)
    BY <2>1, TakeChunkKeepsJobInv
  <2>2. CASE DropChunk(w)
    <3>1. /\ ujob[w] # NoChunk
          /\ UNCHANGED <<uploadJobs, emitted, targets, tried, acked>>
          /\ dropped' = dropped \cup {ujob[w].chunk}
          /\ ujob'[w] = NoChunk
          /\ \A v \in UploadWorker : v # w => ujob'[v] = ujob[v]
      BY <2>2 DEF DropChunk, TypeOK
    <3> QED BY <3>1, OutcomeKeepsJobInv
  <2>3. ASSUME NEW n \in Node, SaveChunk(w, n) PROVE JobInv'
    <3>1. /\ ujob[w] # NoChunk
          /\ UNCHANGED <<uploadJobs, emitted, targets, dropped>>
          /\ ujob'[w] = NoChunk
          /\ \A v \in UploadWorker : v # w => ujob'[v] = ujob[v]
      BY <2>3 DEF SaveChunk, Try, TypeOK
    <3>2. \A d \in Chunk \ {ujob[w].chunk} : tried'[d] = tried[d] /\ acked'[d] = acked[d]
      BY <2>3, JobTypes DEF SaveChunk, Try
    <3> QED BY <3>1, <3>2, OutcomeKeepsJobInv
  <2>4. ASSUME NEW n \in Node, SaveFails(w, n) PROVE JobInv'
    <3> DEFINE c == ujob[w].chunk
    <3>1. /\ ujob[w] # NoChunk /\ ujob[w] \in Job
          /\ UNCHANGED <<uploadJobs, emitted, targets, acked, dropped>>
          /\ \A v \in UploadWorker : v # w => ujob'[v] = ujob[v]
      BY <2>4, HeldTypes DEF SaveFails, Try, TypeOK
    <3>2. ujob'[w].chunk = c /\ ujob'[w].left = ujob[w].left \ {n}
      BY <2>4, <3>1 DEF SaveFails, AfterTry, TypeOK, Job
    <3>3. /\ c \in Chunk
          /\ tried'[c] = tried[c] \cup {n}
          /\ \A d \in Chunk \ {c} : tried'[d] = tried[d]
      BY <2>4, <3>1, JobTypes DEF SaveFails, AfterTry, Try
    <3>4. Open(c) /\ ujob[w].left = targets[c] \ tried[c]
      BY <3>1 DEF FlowInv, JobInv
    <3>5. StaysOpen(c)
      BY <3>1, <3>4 DEF Open, StaysOpen
    <3>6. ujob'[w].left = targets[c] \ tried'[c]
      BY <3>2, <3>3, <3>4
    <3> QED BY <3>1, <3>2, <3>3, <3>5, <3>6, OutcomeKeepsJobInv
  <2>5. CASE GiveUp(w)
    <3>1. /\ ujob[w] # NoChunk
          /\ UNCHANGED <<uploadJobs, emitted, targets, tried, acked, dropped>>
          /\ ujob'[w] = NoChunk
          /\ \A v \in UploadWorker : v # w => ujob'[v] = ujob[v]
      BY <2>5 DEF GiveUp, TypeOK, localVars
    <3> QED BY <3>1, OutcomeKeepsJobInv
  <2>6. CASE UploadExit(w)
    BY <1>1, <2>6 DEF UploadExit
  <2> QED BY <1>3, <2>1, <2>2, <2>3, <2>4, <2>5, <2>6 DEF UploadWorkerStep
<1>4. CASE Crash
  <2>1. /\ uploadJobs' = <<>> /\ UNCHANGED <<emitted, tried, acked, dropped>>
        /\ \A w \in UploadWorker : ujob'[w] = NoChunk
    BY <1>4 DEF Crash, localVars
  <2> QED BY <2>1 DEF FlowInv, JobInv
<1>5. CASE PutFile \/ ReaderStep
  BY <1>1, <1>5, ReaderFrame
<1>6. CASE WireStep \/ UNCHANGED vars
  BY <1>1, <1>6, WireFrame DEF pipeVars
<1> QED BY <1>2, <1>3, <1>4, <1>5, <1>6 DEF Next

----------------------------------------------------------------------------
(* Nothing is lost without an error.                                       *)

(* An error stays, and so does the end of an upload.                       *)
LEMMA StillLive ==
    ASSUME [Next]_vars, Live', ~err'
    PROVE  Live /\ ~err
<1>1. CASE PutFile \/ ReaderStep
  BY <1>1
  DEF ReaderStep, PutFile, Prepare, PrepareFails, ReadBlock, ReadEOF, ReadFails, CloseCrypto,
      CloseUpload, WaitUpload, PipelineFailed, PipelineSucceeded, RegisterManifest, ManifestFails,
      SaveStatus, pipeVars, Live
<1>2. ASSUME NEW w \in CryptoWorker, CryptoStep(w) PROVE Live /\ ~err
  <2>1. pc' = pc
    BY <1>2, CryptoFrame
  <2>2. err' = err \/ err' = TRUE
    BY <1>2 DEF CryptoStep, TakeBlock, EncryptFails, EmitShard, FinishBlock, CryptoExit
  <2> QED BY <2>1, <2>2 DEF Live
<1>3. ASSUME NEW w \in UploadWorker, UploadWorkerStep(w) PROVE Live /\ ~err
  BY <1>3 DEF UploadWorkerStep, TakeChunk, DropChunk, SaveChunk, SaveFails, GiveUp,
     ErrorAfterGiveUp, UploadExit, Live
<1>4. CASE WireStep \/ UNCHANGED vars
  <2>1. pc' = pc /\ err' = err
    BY <1>4, WireFrame DEF pipeVars
  <2> QED BY <2>1 DEF Live
<1>5. CASE Crash
  BY <1>5 DEF Crash, Live
<1> QED BY <1>1, <1>2, <1>3, <1>4, <1>5 DEF Next

HasBlock(w, b) == cjob[w] # NoBlock /\ cjob[w].block = b

LEMMA BlocksNotLost ==
    ASSUME TypeOK, FlowInv, [Next]_vars, Live', ~err', NEW b \in Block, b < First'
    PROVE  b \in split' \/ \E w \in CryptoWorker : HasBlock(w, b)'
<1>1. b < First => b \in split \/ \E w \in CryptoWorker : HasBlock(w, b)
  BY StillLive DEF FlowInv, NoneLost, HasBlock
<1>2. CASE First' = First /\ split' = split /\ cjob' = cjob
  BY <1>1, <1>2 DEF HasBlock
<1>3. CASE PutFile \/ ReaderStep
  BY <1>2, <1>3, ReaderFrame, ReadBlockStep DEF First
<1>4. ASSUME NEW w \in CryptoWorker, CryptoStep(w)
      PROVE  b \in split' \/ \E v \in CryptoWorker : HasBlock(v, b)'
  <2>1. CASE TakeBlock(w)
    <3>1. /\ cjob[w] = NoBlock /\ split' = split
          /\ First' = First + 1 /\ First \in Int /\ b \in Int
          /\ \A v \in CryptoWorker :
                cjob'[v] = IF v = w THEN [block |-> First, shard |-> 0] ELSE cjob[v]
      <4>1. cjob[w] = NoBlock /\ split' = split
        BY <2>1 DEF TakeBlock
      <4>2. First' = First + 1 /\ First \in Int /\ b \in Int
        BY <2>1, TakeBlockStep, BlockTypes
      <4>3. \A v \in CryptoWorker :
              cjob'[v] = IF v = w THEN [block |-> First, shard |-> 0] ELSE cjob[v]
        BY <2>1, TakeBlockStep DEF TypeOK
      <4> QED BY <4>1, <4>2, <4>3
    <3>2. CASE b = First
      <4>1. [block |-> b, shard |-> 0] \in [block : Block, shard : 0..TotalShards]
        BY Sizes
      <4>2. cjob'[w] = [block |-> b, shard |-> 0]
        BY <3>1, <3>2
      <4> QED BY <4>1, <4>2, NoJob DEF HasBlock
    <3>3. CASE b # First
      BY <1>1, <3>1, <3>3 DEF HasBlock
    <3> QED BY <3>2, <3>3
  <2>2. CASE EncryptFails(w)
    BY <2>2 DEF EncryptFails
  <2>3. ASSUME NEW S \in SUBSET nodes, EmitShard(w, S)
        PROVE  b \in split' \/ \E v \in CryptoWorker : HasBlock(v, b)'
    <3>1. First' = First /\ split' = split
      BY <2>3 DEF EmitShard, First
    <3>2. /\ cjob'[w] \in [block : Block, shard : 0..TotalShards]
          /\ cjob'[w].block = cjob[w].block
      <4>1. cjob'[w] = [cjob[w] EXCEPT !.shard = @ + 1]
        BY <2>3 DEF EmitShard, TypeOK
      <4>2. cjob[w] \in [block : Block, shard : 0..TotalShards]
            /\ cjob[w].shard \in 0..(TotalShards - 1)
        BY <2>3, EmittedChunk
      <4> QED BY <4>1, <4>2, Sizes
    <3>3. \A v \in CryptoWorker : v # w => cjob'[v] = cjob[v]
      BY <2>3 DEF EmitShard, TypeOK
    <3>4. \A v \in CryptoWorker : HasBlock(v, b) => HasBlock(v, b)'
      BY <3>2, <3>3, NoJob DEF HasBlock
    <3> QED BY <1>1, <3>1, <3>4
  <2>4. CASE FinishBlock(w)
    BY <1>1, <2>4 DEF FinishBlock, HasBlock, First, TypeOK
  <2>5. CASE CryptoExit(w)
    BY <1>2, <2>5 DEF CryptoExit, First
  <2> QED BY <1>4, <2>1, <2>2, <2>3, <2>4, <2>5 DEF CryptoStep
<1>5. ASSUME NEW w \in UploadWorker, UploadWorkerStep(w)
      PROVE  b \in split' \/ \E v \in CryptoWorker : HasBlock(v, b)'
  BY <1>2, <1>5, UploadFrame DEF First
<1>6. CASE WireStep \/ UNCHANGED vars
  BY <1>2, <1>6, WireFrame DEF pipeVars, First
<1>7. CASE Crash
  BY <1>7 DEF Crash, Live
<1> QED BY <1>3, <1>4, <1>5, <1>6, <1>7 DEF Next

(* What the outcome of a worker's chunk leaves to the others.              *)
LEMMA OthersHeld ==
    ASSUME TypeOK, U!TypeOK, NEW w \in UploadWorker, uploadJobs' = uploadJobs,
           \A v \in UploadWorker : v # w => ujob'[v] = ujob[v],
           NEW c \in Chunk, Held(c)
    PROVE  Held(c)' \/ (ujob[w] # NoChunk /\ ujob[w].chunk = c)
<1>1. NoChunk.chunk # c
  BY CountedBlocks DEF NoChunk, Chunk, Block
<1> QED BY <1>1 DEF Held

LEMMA ChunksNotLost ==
    ASSUME TypeOK, U!TypeOK, FlowInv, [Next]_vars, Live', ~err', NEW c \in emitted'
    PROVE  Held(c)' \/ acked'[c] # NoNode \/ c \in dropped'
<1>1. c \in emitted => c \in Chunk /\ (Held(c) \/ acked[c] # NoNode \/ c \in dropped)
  BY StillLive, ChunkTypes DEF FlowInv, NoneLost
<1>2. CASE UNCHANGED <<uploadJobs, ujob, emitted, acked, dropped>>
  BY <1>1, <1>2 DEF Held
<1>3. CASE PutFile \/ ReaderStep
  BY <1>2, <1>3, ReaderFrame DEF localVars
<1>4. ASSUME NEW w \in CryptoWorker, CryptoStep(w)
      PROVE  Held(c)' \/ acked'[c] # NoNode \/ c \in dropped'
  <2>1. ASSUME NEW S \in SUBSET nodes, EmitShard(w, S)
        PROVE  Held(c)' \/ acked'[c] # NoNode \/ c \in dropped'
    <3> DEFINE e == <<cjob[w].block, cjob[w].shard>>
               q == uploadJobs
               r == uploadJobs'
    <3>1. [chunk |-> e, left |-> S] \in Job /\ r = Append(q, [chunk |-> e, left |-> S])
      BY <2>1, EmittedChunk DEF Job, EmitShard, TypeOK
    <3>2. emitted' = emitted \cup {e} /\ UNCHANGED <<ujob, acked, dropped>>
      BY <2>1 DEF EmitShard
    <3> HIDE DEF e
    <3>3. /\ Len(q) \in Nat /\ Len(r) = Len(q) + 1
          /\ \A i \in 1..Len(q) : r[i] = q[i]
          /\ r[Len(q) + 1].chunk = e
      BY <3>1, AppendJob, JobTypes
    <3>4. CASE c = e
      <4>1. Len(q) + 1 \in 1..Len(r)
        BY <3>3
      <4> QED BY <3>3, <3>4, <4>1 DEF Held
    <3>5. CASE c # e
      <4>1. Held(c) => Held(c)'
        BY <3>2, <3>3 DEF Held
      <4> QED BY <1>1, <3>2, <3>5, <4>1
    <3> QED BY <3>4, <3>5
  <2>2. CASE TakeBlock(w) \/ EncryptFails(w) \/ FinishBlock(w) \/ CryptoExit(w)
    BY <1>2, <2>2 DEF TakeBlock, EncryptFails, FinishBlock, CryptoExit, localVars
  <2> QED BY <1>4, <2>1, <2>2 DEF CryptoStep
<1>5. ASSUME NEW w \in UploadWorker, UploadWorkerStep(w)
      PROVE  Held(c)' \/ acked'[c] # NoNode \/ c \in dropped'
  <2>1. c \in Chunk /\ (Held(c) \/ acked[c] # NoNode \/ c \in dropped)
    BY <1>1, <1>5, UploadFrame
  <2>2. CASE TakeChunk(w)
    <3> DEFINE q == uploadJobs
               r == uploadJobs'
    <3>1. /\ Len(q) \in Nat \ {0} /\ Len(r) = Len(q) - 1 /\ Head(q) = q[1]
          /\ \A i \in 1..Len(r) : i + 1 \in 2..Len(q) /\ r[i] = q[i + 1]
      BY <2>2, TailJobs, JobTypes DEF TakeChunk
    <3>2. /\ UNCHANGED <<acked, dropped>> /\ ujob[w] = NoChunk
          /\ \A v \in UploadWorker : ujob'[v] = IF v = w THEN q[1] ELSE ujob[v]
      BY <2>2, <3>1 DEF TakeChunk, localVars, TypeOK
    <3>3. ASSUME NEW i \in 1..Len(q), q[i].chunk = c PROVE Held(c)'
      <4>1. CASE i = 1
        BY <3>2, <3>3, <4>1 DEF Held
      <4>2. CASE i # 1
        <5>1. i - 1 \in 1..Len(r) /\ (i - 1) + 1 = i
          BY <3>1, <4>2
        <5>2. r[i - 1] = q[i]
          BY <3>1, <5>1
        <5> QED BY <3>3, <5>1, <5>2 DEF Held
      <4> QED BY <4>1, <4>2
    <3>4. ASSUME NEW v \in UploadWorker, ujob[v].chunk = c PROVE Held(c)'
      <4>1. v # w
        BY <2>1, <3>2, <3>4, CountedBlocks DEF NoChunk, Chunk, Block
      <4> QED BY <3>2, <3>4, <4>1 DEF Held
    <3> QED BY <2>1, <3>2, <3>3, <3>4 DEF Held
  <2>3. CASE DropChunk(w)
    <3>1. /\ uploadJobs' = uploadJobs /\ acked' = acked
          /\ dropped' = dropped \cup {ujob[w].chunk}
          /\ \A v \in UploadWorker : v # w => ujob'[v] = ujob[v]
      BY <2>3 DEF DropChunk, TypeOK
    <3> QED BY <2>1, <3>1, OthersHeld
  <2>4. ASSUME NEW n \in Node, SaveChunk(w, n)
        PROVE  Held(c)' \/ acked'[c] # NoNode \/ c \in dropped'
    <3>1. /\ uploadJobs' = uploadJobs /\ dropped' = dropped
          /\ \A v \in UploadWorker : v # w => ujob'[v] = ujob[v]
      BY <2>4 DEF SaveChunk, TypeOK
    <3>2. acked' = [acked EXCEPT ![ujob[w].chunk] = n] /\ n # NoNode
      BY <2>4, PipelineAssumption DEF SaveChunk
    <3> QED BY <2>1, <3>1, <3>2, OthersHeld, JobTypes
  <2>5. ASSUME NEW n \in Node, SaveFails(w, n)
        PROVE  Held(c)' \/ acked'[c] # NoNode \/ c \in dropped'
    <3>1. /\ UNCHANGED <<uploadJobs, acked, dropped>>
          /\ ujob[w] # NoChunk /\ ujob[w] \in Job
          /\ \A v \in UploadWorker : v # w => ujob'[v] = ujob[v]
      BY <2>5, HeldTypes DEF SaveFails, Try, TypeOK
    <3>2. ujob'[w].chunk = ujob[w].chunk
      BY <2>5, <3>1 DEF SaveFails, AfterTry, TypeOK, Job
    <3>3. Held(c) => Held(c)'
      BY <3>1, <3>2 DEF Held
    <3> QED BY <2>1, <3>1, <3>3
  <2>6. CASE GiveUp(w)
    BY <2>6 DEF GiveUp, ErrorAfterGiveUp
  <2>7. CASE UploadExit(w)
    BY <1>2, <2>7 DEF UploadExit, localVars
  <2> QED BY <1>5, <2>2, <2>3, <2>4, <2>5, <2>6, <2>7 DEF UploadWorkerStep
<1>6. CASE WireStep \/ UNCHANGED vars
  BY <1>2, <1>6, WireFrame DEF pipeVars, localVars
<1>7. CASE Crash
  BY <1>7 DEF Crash, Live
<1> QED BY <1>3, <1>4, <1>5, <1>6, <1>7 DEF Next

LEMMA FlowStep ==
    ASSUME TypeOK, U!TypeOK, FlowInv, [Next]_vars
    PROVE  FlowInv'
<1>1. NoneLost'
  BY BlocksNotLost, ChunksNotLost DEF NoneLost, HasBlock
<1> QED BY <1>1, StageStep, WorkerStep, BlockStep, EmitStep, JobStep DEF FlowInv

LEMMA InitFlow == Init => FlowInv
<1> SUFFICES ASSUME Init PROVE FlowInv
  OBVIOUS
<1>1. cryptoJobs = <<>> /\ Len(cryptoJobs) = 0 /\ uploadJobs = <<>> /\ next = 0
  BY DEF Init
<1>2. StageInv /\ WorkerInv
  BY DEF Init, StageInv, WorkerInv, Busy, Reading, Started
<1>3. First = 0
  <2>1. next = 0 /\ Len(cryptoJobs) = 0
    BY <1>1
  <2> QED BY <2>1 DEF First
<1>4. BlockInv /\ EmitInv /\ JobInv
  <2>1. /\ \A w \in CryptoWorker : cjob[w] = NoBlock
        /\ \A w \in UploadWorker : ujob[w] = NoChunk
    BY DEF Init
  <2>2. 1..Len(cryptoJobs) = {} /\ 1..Len(uploadJobs) = {}
    BY <1>1
  <2>3. pc \notin ReadAll /\ emitted = {} /\ split = {}
    BY DEF Init, ReadAll
  <2>4. BlockInv
    BY <2>1, <2>2, <2>3 DEF BlockInv
  <2>5. EmitInv
    BY <2>1, <2>3 DEF EmitInv
  <2>6. \A c \in Chunk : tried[c] = {} /\ acked[c] = NoNode /\ c \notin dropped
    BY DEF Init
  <2>7. JobInv
    BY <2>1, <2>2, <2>6 DEF JobInv
  <2> QED BY <2>4, <2>5, <2>7
<1>5. NoneLost
  BY <1>3, CountedBlocks DEF Init, NoneLost, Block
<1> QED BY <1>2, <1>4, <1>5 DEF FlowInv

----------------------------------------------------------------------------
(* The pipeline implements the upload.                                     *)

LEMMA Phases ==
    /\ pc = "start" => UploadPhase = "idle"
    /\ pc \in Ended => UploadPhase = pc
    /\ pc # "start" /\ pc \notin Ended => UploadPhase = "saving"
BY DEF UploadPhase, Ended

LEMMA NextPhases ==
    /\ pc' = "start" => UploadPhase' = "idle"
    /\ pc' \in Ended => UploadPhase' = pc'
    /\ pc' # "start" /\ pc' \notin Ended => UploadPhase' = "saving"
BY DEF UploadPhase, Ended

LEMMA SamePhase == pc' = pc => UploadPhase' = UploadPhase
BY DEF UploadPhase

(* Workers work while the upload is being saved, or after it was aborted.  *)
LEMMA BusyWorks == pc \in Busy => U!Working
BY Phases DEF Busy, Reading, Ended, U!Working

(* The decision comes after the last block and the last chunk: no worker   *)
(* is left, and both channels are empty.                                   *)
LEMMA Settled ==
    ASSUME TypeOK, U!TypeOK, FlowInv, pc \in {"decide", "manifest", "secured"}, ~err
    PROVE  /\ split = Block /\ running = {}
           /\ emitted = Chunk
           /\ \A c \in Chunk : acked[c] # NoNode \/ c \in dropped
<1>1. running = {} /\ Live /\ Started
  BY DEF FlowInv, WorkerInv, Busy, Reading, Live, Started
<1>2. cryptoJobs = <<>> /\ uploadJobs = <<>>
  BY <1>1, PipelineAssumption DEF FlowInv, WorkerInv
<1>3. /\ \A w \in CryptoWorker : cjob[w] = NoBlock
      /\ \A w \in UploadWorker : ujob[w] = NoChunk
  BY <1>1 DEF FlowInv, WorkerInv
<1>4. First = next
  <2>1. Len(cryptoJobs) = 0
    BY <1>2
  <2> QED BY <2>1, BlockTypes DEF First
<1>5. \A b \in Block : b < First
  BY <1>4 DEF FlowInv, BlockInv, ReadAll
<1>6. split = Block
  BY <1>1, <1>3, <1>5 DEF FlowInv, NoneLost, TypeOK
<1>7. emitted = Chunk
  <2>1. \A b \in Block, t \in 0..(TotalShards - 1) : <<b, t>> \in emitted
    BY <1>6 DEF FlowInv, EmitInv
  <2> QED BY <2>1, ChunkTypes DEF Chunk
<1>8. \A c \in Chunk : ~Held(c)
  <2>1. \A c \in Chunk : NoChunk.chunk # c
    BY CountedBlocks DEF NoChunk, Chunk, Block
  <2>2. 1..Len(uploadJobs) = {}
    BY <1>2
  <2> QED BY <1>3, <2>1, <2>2 DEF Held
<1> QED BY <1>1, <1>6, <1>7, <1>8 DEF FlowInv, NoneLost

LEMMA ManifestSettled ==
    ASSUME TypeOK, U!TypeOK, FlowInv, pc \in {"manifest", "secured"}
    PROVE  U!AllSettled
BY Settled DEF FlowInv, StageInv, U!AllSettled, U!Pending, U!Acked

LEMMA StutterStep ==
    ASSUME UploadPhase' = UploadPhase, UNCHANGED <<status, localVars, remoteVars>>
    PROVE  UNCHANGED U!vars
BY DEF U!vars, U!uploadVars, U!remoteVars, localVars, remoteVars

LEMMA FailStep ==
    ASSUME pc \notin Ended, pc # "start", pc' = "failed", Rollback,
           posted' \in {FALSE, U!AllSettled},
           UNCHANGED <<status, localVars, store, late, registered>>
    PROVE  U!Fail
<1>1. UploadPhase = "saving" /\ UploadPhase' = "failed"
  BY Phases, NextPhases DEF Ended
<1>2. U!Rollback
  BY DEF Rollback, U!Rollback, U!Acked
<1> QED BY <1>1, <1>2 DEF U!Fail, localVars

LEMMA ReaderSimulation ==
    ASSUME TypeOK, U!TypeOK, FlowInv, PutFile \/ ReaderStep
    PROVE  [U!Next]_(U!vars)
<1>1. CASE PutFile
  <2>1. UploadPhase = "idle" /\ UploadPhase' = "saving"
    BY <1>1, Phases, NextPhases DEF PutFile, Ended
  <2>2. U!PutFile
    BY <1>1, <2>1 DEF PutFile, U!PutFile, localVars, remoteVars, U!remoteVars
  <2> QED BY <2>2 DEF U!Next, U!UploadStep
<1>2. ASSUME pc # "start", pc \notin Ended, pc' # "start", pc' \notin Ended,
             UNCHANGED <<status, localVars, remoteVars>>
      PROVE  UNCHANGED U!vars
  BY <1>2, Phases, NextPhases, StutterStep
<1>3. ASSUME NEW S \in SUBSET Node, Prepare(S) PROVE UNCHANGED U!vars
  BY <1>2, <1>3 DEF Prepare, Ended
<1>4. CASE ReadBlock \/ ReadEOF \/ CloseCrypto \/ CloseUpload \/ WaitUpload \/ PipelineSucceeded
  BY <1>2, <1>4
  DEF ReadBlock, ReadEOF, CloseCrypto, CloseUpload, WaitUpload, PipelineSucceeded, Ended
<1>5. CASE PrepareFails
  <2>1. pc = "prepare" /\ pc' = "failed" /\ UNCHANGED <<status, localVars, remoteVars>>
    BY <1>5 DEF PrepareFails
  <2>2. \A c \in Chunk : acked[c] = NoNode
    BY <2>1 DEF FlowInv, StageInv, JobInv
  <2>3. {<<acked[c], c>> : c \in {d \in Chunk : acked[d] # NoNode}} = {}
    BY <2>2
  <2>4. Rollback
    BY <2>1, <2>3 DEF Rollback, remoteVars
  <2>5. posted' = FALSE
    BY <2>1 DEF FlowInv, StageInv, remoteVars
  <2>6. U!Fail
    BY <2>1, <2>4, <2>5, FailStep DEF remoteVars, Ended
  <2> QED BY <2>6 DEF U!Next, U!UploadStep
<1>6. CASE PipelineFailed
  <2>1. posted' = FALSE
    BY <1>6 DEF PipelineFailed, FlowInv, StageInv
  <2>2. U!Fail
    BY <1>6, <2>1, FailStep DEF PipelineFailed, Ended
  <2> QED BY <2>2 DEF U!Next, U!UploadStep
<1>7. CASE ManifestFails
  <2>1. U!AllSettled
    BY <1>7, ManifestSettled DEF ManifestFails
  <2>2. posted' \in {FALSE, U!AllSettled}
    BY <1>7, <2>1 DEF ManifestFails
  <2>3. U!Fail
    BY <1>7, <2>2, FailStep DEF ManifestFails, Ended
  <2> QED BY <2>3 DEF U!Next, U!UploadStep
<1>8. CASE RegisterManifest
  <2>1. UploadPhase = "saving" /\ UploadPhase' = "secured"
    BY <1>8, Phases, NextPhases DEF RegisterManifest, Ended
  <2>2. U!AllSettled
    BY <1>8, ManifestSettled DEF RegisterManifest
  <2>3. U!Register
    BY <1>8, <2>1, <2>2 DEF RegisterManifest, U!Register, localVars
  <2> QED BY <2>3 DEF U!Next, U!UploadStep
<1>9. CASE ReadFails
  <2>1. UploadPhase = "saving" /\ UploadPhase' = "aborted"
    BY <1>9, Phases, NextPhases DEF ReadFails, Ended
  <2>2. U!Abort
    BY <1>9, <2>1 DEF ReadFails, U!Abort, localVars, remoteVars, U!remoteVars
  <2> QED BY <2>2 DEF U!Next, U!UploadStep
<1>10. CASE SaveStatus
  <2>1. UploadPhase = pc /\ UploadPhase' = UploadPhase
    BY <1>10, Phases, SamePhase DEF SaveStatus, Ended
  <2>2. U!SaveStatus
    BY <1>10, <2>1 DEF SaveStatus, U!SaveStatus, localVars, remoteVars, U!remoteVars
  <2> QED BY <2>2 DEF U!Next, U!UploadStep
<1> QED BY <1>1, <1>3, <1>4, <1>5, <1>6, <1>7, <1>8, <1>9, <1>10 DEF ReaderStep

LEMMA CryptoSimulation ==
    ASSUME TypeOK, U!TypeOK, FlowInv, NEW w \in CryptoWorker, CryptoStep(w)
    PROVE  [U!Next]_(U!vars)
<1>1. UploadPhase' = UploadPhase
  BY CryptoFrame, SamePhase
<1>2. CASE TakeBlock(w) \/ EncryptFails(w) \/ FinishBlock(w) \/ CryptoExit(w)
  BY <1>1, <1>2, StutterStep DEF TakeBlock, EncryptFails, FinishBlock, CryptoExit
<1>3. ASSUME NEW S \in SUBSET nodes, EmitShard(w, S) PROVE U!Next
  <2> DEFINE c == <<cjob[w].block, cjob[w].shard>>
  <2>1. c \in Chunk /\ c \notin emitted /\ S \in SUBSET Node
    BY <1>3, EmittedChunk DEF TypeOK
  <2>2. U!Working
    BY <1>3, HolderRuns, BusyWorks DEF EmitShard, FlowInv
  <2>3. U!EmitChunk(c, S)
    BY <1>1, <1>3, <2>1, <2>2 DEF EmitShard, U!EmitChunk, remoteVars, U!remoteVars
  <2> QED BY <2>1, <2>3 DEF U!Next, U!UploadStep
<1> QED BY <1>2, <1>3 DEF CryptoStep

LEMMA UploadSimulation ==
    ASSUME TypeOK, U!TypeOK, FlowInv, NEW w \in UploadWorker, UploadWorkerStep(w)
    PROVE  [U!Next]_(U!vars)
<1>1. UploadPhase' = UploadPhase
  BY UploadFrame, SamePhase
<1>2. CASE TakeChunk(w) \/ GiveUp(w) \/ UploadExit(w)
  BY <1>1, <1>2, StutterStep DEF TakeChunk, GiveUp, UploadExit
<1>3. ASSUME ujob[w] # NoChunk
      PROVE  /\ U!Working
             /\ ujob[w].chunk \in Chunk
             /\ U!Pending(ujob[w].chunk)
             /\ ujob[w].left = targets[ujob[w].chunk] \ tried[ujob[w].chunk]
  <2>1. U!Working
    BY <1>3, HolderRuns, BusyWorks DEF FlowInv
  <2>2. Open(ujob[w].chunk) /\ ujob[w].left = targets[ujob[w].chunk] \ tried[ujob[w].chunk]
    BY <1>3 DEF FlowInv, JobInv
  <2> QED BY <1>3, <2>1, <2>2, JobTypes DEF Open, U!Pending, U!Acked
<1>4. CASE DropChunk(w)
  <2>1. U!DropChunk(ujob[w].chunk) /\ ujob[w].chunk \in Chunk
    BY <1>1, <1>3, <1>4 DEF DropChunk, U!DropChunk, remoteVars, U!remoteVars
  <2> QED BY <2>1 DEF U!Next, U!UploadStep
<1>5. ASSUME NEW n \in Node, SaveChunk(w, n) PROVE U!Next
  <2>1. U!SaveChunk(ujob[w].chunk, n) /\ ujob[w].chunk \in Chunk
    BY <1>1, <1>3, <1>5 DEF SaveChunk, Try, U!SaveChunk, U!Try
  <2> QED BY <2>1 DEF U!Next, U!UploadStep
<1>6. ASSUME NEW n \in Node, SaveFails(w, n) PROVE U!Next
  <2>1. U!SaveFails(ujob[w].chunk, n) /\ ujob[w].chunk \in Chunk
    BY <1>1, <1>3, <1>6 DEF SaveFails, Try, U!SaveFails, U!Try
  <2> QED BY <2>1 DEF U!Next, U!UploadStep
<1> QED BY <1>2, <1>4, <1>5, <1>6 DEF UploadWorkerStep

LEMMA Simulation ==
    ASSUME TypeOK, U!TypeOK, FlowInv, [Next]_vars
    PROVE  [U!Next]_(U!vars)
<1>1. CASE WireStep
  BY <1>1 DEF WireStep, U!Next
<1>2. CASE UNCHANGED vars
  BY <1>2, SamePhase, StutterStep DEF vars
<1>3. CASE Crash
  <2>1. UploadPhase \notin {"idle", "crashed"} /\ UploadPhase' = "crashed"
    BY <1>3, Phases, NextPhases DEF Crash, Ended
  <2>2. U!Crash
    BY <1>3, <2>1 DEF Crash, U!Crash, localVars
  <2> QED BY <2>2 DEF U!Next, U!UploadStep
<1> QED BY <1>1, <1>2, <1>3, ReaderSimulation, CryptoSimulation, UploadSimulation DEF Next

(* Upload's own proofs hold of the mapped upload.                          *)
LEMMA SameTypeOK == U!TypeOK <=> UProofs!TypeOK
BY DEF U!TypeOK, UProofs!TypeOK, U!Phase, UProofs!Phase, U!Status, UProofs!Status

LEMMA SameNext == U!Next <=> UProofs!Next
BY DEF
  U!Next, U!UploadStep, U!RemoteStep, U!uploadVars, U!remoteVars, U!PutFile, U!EmitChunk,
  U!DropChunk, U!SaveChunk, U!SaveFails, U!Register, U!Fail, U!Abort, U!SaveStatus, U!Crash,
  U!LateSave, U!LateSaveLost, U!LateManifest, U!DeleteChunk, U!DeleteChunkFails,
  U!Working, U!Acked, U!Pending, U!Try, U!AllSettled, U!Rollback,
  UProofs!Next, UProofs!UploadStep, UProofs!RemoteStep, UProofs!uploadVars,
  UProofs!remoteVars, UProofs!PutFile, UProofs!EmitChunk, UProofs!DropChunk,
  UProofs!SaveChunk, UProofs!SaveFails, UProofs!Register, UProofs!Fail, UProofs!Abort,
  UProofs!SaveStatus, UProofs!Crash, UProofs!LateSave, UProofs!LateSaveLost,
  UProofs!LateManifest, UProofs!DeleteChunk, UProofs!DeleteChunkFails, UProofs!Working,
  UProofs!Acked, UProofs!Pending, UProofs!Try, UProofs!AllSettled, UProofs!Rollback

LEMMA SameStep == [U!Next]_(U!vars) <=> [UProofs!Next]_(UProofs!vars)
BY SameNext DEF U!vars, UProofs!vars, U!uploadVars, UProofs!uploadVars, U!remoteVars,
   UProofs!remoteVars

LEMMA SameInit == U!Init <=> UProofs!Init
BY DEF U!Init, UProofs!Init

LEMMA SameCompleted == U!CompletedIsStored <=> UProofs!CompletedIsStored
BY DEF U!CompletedIsStored, UProofs!CompletedIsStored, U!Acked, UProofs!Acked

LEMMA InitMaps == Init => U!Init
BY Phases DEF Init, U!Init

LEMMA UploadTypeStep == U!TypeOK /\ [U!Next]_(U!vars) => U!TypeOK'
<1>1. UProofs!TypeOK /\ [UProofs!Next]_(UProofs!vars) => UProofs!TypeOK'
  BY UProofs!TypeStep, PipelineAssumption
<1>2. U!TypeOK' <=> UProofs!TypeOK'
  BY DEF U!TypeOK, UProofs!TypeOK, U!Phase, UProofs!Phase, U!Status, UProofs!Status
<1> QED BY <1>1, <1>2, SameStep, SameTypeOK

LEMMA InitIInv == Init => IInv
<1>1. Init => U!TypeOK
  <2>1. UProofs!Init => UProofs!IInv
    BY UProofs!InitIInv, PipelineAssumption
  <2> QED BY <2>1, InitMaps, SameInit, SameTypeOK DEF UProofs!IInv
<1> QED BY <1>1, InitTypes, InitFlow DEF IInv

LEMMA StepIInv == IInv /\ [Next]_vars => IInv'
BY TypeStep, FlowStep, Simulation, UploadTypeStep DEF IInv

THEOREM Invariance == Spec => []IInv
BY InitIInv, StepIInv, PTL DEF Spec

----------------------------------------------------------------------------
(* The program counters, channels and workers' jobs keep their types: the  *)
(* channels stay within their capacities, and the reader never cuts a      *)
(* block that the file does not have.                                      *)
THEOREM TypeCorrect == Spec => []TypeOK
<1>1. IInv => TypeOK
  BY DEF IInv
<1> QED BY <1>1, Invariance, PTL

(* The order of the two closes and the two waits: no goroutine is left     *)
(* that could send on a closed channel.                                    *)
THEOREM NoSend == Spec => []NoSendOnClosed
<1>1. IInv => NoSendOnClosed
  BY DEF IInv, FlowInv, StageInv, WorkerInv, NoSendOnClosed
<1> QED BY <1>1, Invariance, PTL

(* StreamAndUploadFile uploads the manifest after every block of the file  *)
(* is in it and every chunk has its outcome, with no worker left.          *)
THEOREM DecisionFinal == Spec => []DecisionIsFinal
<1>1. IInv => DecisionIsFinal
  <2> SUFFICES ASSUME IInv, pc \in {"manifest", "secured"}
               PROVE  /\ split = Block /\ running = {}
                      /\ \A c \in Chunk : acked[c] # NoNode \/ c \in dropped
    BY DEF DecisionIsFinal
  <2>1. ~err
    BY DEF IInv, FlowInv, StageInv
  <2> QED BY <2>1, Settled DEF IInv
<1> QED BY <1>1, Invariance, PTL

(* With both channels full there is an upload worker with a chunk: it      *)
(* waits for nobody, and the others wait for it at the end of the chain.   *)
LEMMA SomeoneGoesOn ==
    ASSUME TypeOK, FlowInv, pc \in Reading \cup {"waitCrypto", "waitUpload"}
    PROVE  \/ ReaderGoesOn
           \/ \E w \in CryptoWorker : CryptoGoesOn(w)
           \/ \E w \in UploadWorker : UploadGoesOn(w)
<1>1. ASSUME NEW w \in UploadWorker, w \in running,
             uploadJobs # <<>> \/ "uploadJobs" \in closed
      PROVE  UploadGoesOn(w)
  BY <1>1 DEF UploadGoesOn
<1>2. ASSUME Len(uploadJobs) >= UploadCap PROVE \E w \in UploadWorker : UploadGoesOn(w)
  <2>1. uploadJobs # <<>>
    BY <1>2, PipelineAssumption
  <2>2. UploadWorker \subseteq running
    BY <2>1 DEF FlowInv, WorkerInv, Started, Reading
  <2> QED BY <1>1, <2>1, <2>2, PipelineAssumption
<1>3. ASSUME NEW w \in CryptoWorker, w \in running,
             cryptoJobs # <<>> \/ "cryptoJobs" \in closed
      PROVE  CryptoGoesOn(w) \/ \E v \in UploadWorker : UploadGoesOn(v)
  <2>1. Len(uploadJobs) < UploadCap \/ Len(uploadJobs) >= UploadCap
    BY Sizes, LenProperties DEF TypeOK
  <2> QED BY <1>2, <1>3, <2>1 DEF CryptoGoesOn
<1>4. CASE pc = "closeCrypto"
  BY <1>4 DEF ReaderGoesOn
<1>5. CASE pc = "read"
  <2>1. CASE Len(cryptoJobs) < CryptoCap
    BY <1>5, <2>1 DEF ReaderGoesOn
  <2>2. CASE ~(Len(cryptoJobs) < CryptoCap)
    <3>1. cryptoJobs # <<>>
      BY <2>2, PipelineAssumption
    <3>2. CryptoWorker \subseteq running
      BY <1>5, <3>1 DEF FlowInv, WorkerInv, Started
    <3> QED BY <1>3, <3>1, <3>2, PipelineAssumption
  <2> QED BY <2>1, <2>2
<1>6. CASE pc = "waitCrypto"
  <2>1. "cryptoJobs" \in closed
    BY <1>6 DEF FlowInv, StageInv
  <2>2. CryptoDone \/ \E w \in CryptoWorker : w \in running
    BY DEF CryptoDone
  <2> QED BY <1>3, <1>6, <2>1, <2>2 DEF ReaderGoesOn
<1>7. CASE pc = "waitUpload"
  <2>1. "uploadJobs" \in closed
    BY <1>7 DEF FlowInv, StageInv
  <2>2. UploadDone \/ \E w \in UploadWorker : w \in running
    BY DEF UploadDone
  <2> QED BY <1>1, <1>7, <2>1, <2>2 DEF ReaderGoesOn
<1> QED BY <1>4, <1>5, <1>6, <1>7 DEF Reading

(* Two bounded channels in a row, closed one after the other: whatever the *)
(* capacities and the numbers of goroutines, they never all wait.          *)
THEOREM NoDeadlock == Spec => []NeverStuck
<1>1. IInv => NeverStuck
  <2> SUFFICES ASSUME IInv, status = "processing", pc # "crashed" PROVE NeverStuck
    BY DEF NeverStuck
  <2>1. pc # "start"
    BY DEF IInv, FlowInv, StageInv
  <2>2. CASE pc \in Reading \cup {"waitCrypto", "waitUpload"}
    BY <2>2, SomeoneGoesOn DEF IInv, NeverStuck
  <2>3. CASE pc \notin Reading \cup {"waitCrypto", "waitUpload"}
    BY <2>1, <2>3 DEF IInv, TypeOK, PC, Ended, Reading, ReaderGoesOn, NeverStuck
  <2> QED BY <2>2, <2>3
<1> QED BY <1>1, Invariance, PTL

(* Reader, workers, channels and decision together do what Upload says.    *)
THEOREM Implementation == Spec => ImplementsUpload
<1>1. IInv /\ [Next]_vars => [U!Next]_(U!vars)
  BY Simulation DEF IInv
<1> QED BY <1>1, InitMaps, Invariance, PTL DEF Spec, ImplementsUpload, U!Spec

(* So what Upload promises holds of the pipeline: a file reported          *)
(* "completed" is registered and stored, whatever the workers' timing.     *)
THEOREM CompletedStored == Spec => []CompletedIsStored
<1>1. UProofs!Spec => []UProofs!CompletedIsStored
  BY UProofs!CompletedStored, PipelineAssumption
<1>2. Init => UProofs!Init
  BY InitMaps, SameInit
<1>3. IInv /\ [Next]_vars => [UProofs!Next]_(UProofs!vars)
  BY Simulation, SameStep DEF IInv
<1>4. UProofs!CompletedIsStored => CompletedIsStored
  BY SameCompleted DEF CompletedIsStored
<1> QED BY <1>1, <1>2, <1>3, <1>4, Invariance, PTL DEF Spec, UProofs!Spec

----------------------------------------------------------------------------
(* Every step of the reader and the workers does a piece of the work.      *)

LocalStep ==
    \/ PutFile \/ ReaderStep
    \/ \E w \in CryptoWorker : CryptoStep(w)
    \/ \E w \in UploadWorker : UploadWorkerStep(w)

Forward ==
    /\ \A i \in DOMAIN Done : Done[i] \subseteq Done'[i]
    /\ \E i \in DOMAIN Done : Done[i] # Done'[i]

(* The nine kinds of work, one by one.                                     *)
Kept ==
    /\ Stage <= Stage' /\ next <= next' /\ BlocksTaken <= BlocksTaken'
    /\ BlocksLeft \subseteq BlocksLeft' /\ emitted \subseteq emitted'
    /\ ChunksTaken \subseteq ChunksTaken' /\ ChunksLeft \subseteq ChunksLeft'
    /\ Tries \subseteq Tries' /\ Returned \subseteq Returned'

More ==
    \/ Stage # Stage' \/ next # next' \/ BlocksTaken # BlocksTaken'
    \/ BlocksLeft # BlocksLeft' \/ emitted # emitted'
    \/ ChunksTaken # ChunksTaken' \/ ChunksLeft # ChunksLeft'
    \/ Tries # Tries' \/ Returned # Returned'

LEMMA CountTypes ==
    ASSUME TypeOK, FlowInv
    PROVE  Stage \in Nat /\ next \in Nat /\ BlocksTaken \in Nat
<1>1. BlocksTaken \in Int
  BY BlockTypes DEF BlocksTaken
<1>2. BlocksTaken >= 0
  <2>1. CASE Len(cryptoJobs) = 0
    BY <2>1, BlockTypes DEF BlocksTaken
  <2>2. CASE Len(cryptoJobs) # 0
    <3>1. 1 \in 1..Len(cryptoJobs) /\ cryptoJobs[1] \in Block
      BY <2>2, BlockTypes, ElementOfSeq
    <3>2. cryptoJobs[1] = First
      BY <3>1, BlockTypes DEF FlowInv, BlockInv
    <3> QED BY <3>1, <3>2, BlockTypes DEF First, BlocksTaken
  <2> QED BY <2>1, <2>2
<1> QED BY <1>1, <1>2, BlockTypes DEF Stage

LEMMA KeptIsForward ==
    ASSUME Stage \in Nat, next \in Nat, BlocksTaken \in Nat,
           Stage' \in Nat, next' \in Nat, BlocksTaken' \in Nat, Kept, More
    PROVE  Forward
<1> DEFINE a == 0..Stage
           b == 0..next
           c == 0..BlocksTaken
<1>1. a \subseteq a' /\ b \subseteq b' /\ c \subseteq c'
  BY DEF Kept
<1>2. /\ Stage # Stage' => a # a'
      /\ next # next' => b # b'
      /\ BlocksTaken # BlocksTaken' => c # c'
  <2>1. ASSUME NEW x \in Nat, NEW y \in Nat, x # y PROVE 0..x # 0..y
    <3>1. x \in 0..x /\ y \in 0..y /\ (x \notin 0..y \/ y \notin 0..x)
      BY <2>1
    <3> QED BY <3>1
  <2> QED BY <2>1
<1> HIDE DEF a, b, c
<1>3. Done = <<a, b, c, BlocksLeft, emitted, ChunksTaken, ChunksLeft, Tries, Returned>>
  BY DEF Done, a, b, c
<1>4. Done' = <<a', b', c', BlocksLeft', emitted', ChunksTaken', ChunksLeft', Tries', Returned'>>
  BY DEF Done, a, b, c
<1>5. DOMAIN Done = 1..9
  BY <1>3
<1>6. ASSUME NEW i \in 1..9 PROVE Done[i] \subseteq Done'[i]
  <2>1. i = 1 \/ i = 2 \/ i = 3 \/ i = 4 \/ i = 5 \/ i = 6 \/ i = 7 \/ i = 8 \/ i = 9
    OBVIOUS
  <2> QED BY <1>1, <1>3, <1>4, <2>1 DEF Kept
<1>7. \E i \in 1..9 : Done[i] # Done'[i]
  <2> SUFFICES ASSUME \A i \in 1..9 : Done[i] = Done'[i] PROVE FALSE
    OBVIOUS
  <2>1. a = a' /\ b = b' /\ c = c'
    BY <1>3, <1>4
  <2>2. BlocksLeft = BlocksLeft' /\ emitted = emitted' /\ ChunksTaken = ChunksTaken'
    BY <1>3, <1>4
  <2>3. ChunksLeft = ChunksLeft' /\ Tries = Tries' /\ Returned = Returned'
    BY <1>3, <1>4
  <2> QED BY <1>2, <2>1, <2>2, <2>3 DEF More
<1> QED BY <1>5, <1>6, <1>7 DEF Forward

LEMMA ReaderForward ==
    ASSUME IInv, PutFile \/ ReaderStep
    PROVE  Kept /\ More
<1>1. /\ TypeOK /\ FlowInv /\ Stage \in Nat /\ next \in Nat /\ BlocksTaken \in Nat
  BY CountTypes DEF IInv
<1>2. UNCHANGED <<uploadJobs, cjob, ujob, emitted, tried>>
  BY ReaderFrame DEF localVars
<1>3. UNCHANGED <<ChunksTaken, ChunksLeft, Tries>>
  BY <1>2 DEF ChunksTaken, ChunksLeft, Tries
<1>4. BlocksTaken' = BlocksTaken
  <2>1. CASE ReadBlock
    BY <1>1, <2>1, ReadBlockStep DEF First, BlocksTaken
  <2>2. CASE ~ReadBlock
    BY <2>2, ReaderFrame DEF BlocksTaken
  <2> QED BY <2>1, <2>2
<1>5. BlocksLeft' = BlocksLeft
  BY <1>2, <1>4 DEF BlocksLeft
<1>6. next <= next'
  BY <1>1, ReaderFrame DEF ReadBlock
<1>7. Returned \subseteq Returned'
  <2>1. CASE running' = running
    <3>1. pc \notin {"start", "prepare"} => pc' \notin {"start", "prepare"}
      BY DEF ReaderStep, PutFile, Prepare, PrepareFails, ReadBlock, ReadEOF, ReadFails,
         CloseCrypto, CloseUpload, WaitUpload, PipelineFailed, PipelineSucceeded,
         RegisterManifest, ManifestFails, SaveStatus
    <3> QED BY <2>1, <3>1 DEF Returned
  <2>2. CASE running' # running
    BY <2>2, ReaderFrame DEF Returned
  <2> QED BY <2>1, <2>2
<1>8. Stage <= Stage' /\ (Stage # Stage' \/ next # next')
  <2>1. CASE PutFile
    BY <2>1 DEF PutFile, Stage
  <2>2. ASSUME NEW S \in SUBSET Node, Prepare(S) PROVE Stage <= Stage' /\ Stage # Stage'
    <3>1. Stage = 1 /\ Stage' = 2
      BY <2>2 DEF Prepare, Stage
    <3> QED BY <3>1
  <2>3. CASE PrepareFails \/ ReadEOF \/ WaitUpload \/ PipelineSucceeded
    BY <2>3 DEF PrepareFails, ReadEOF, WaitUpload, PipelineSucceeded, Stage
  <2>4. CASE ReadBlock
    <3>1. next' = next + 1
      BY <2>4 DEF ReadBlock
    <3> QED BY <1>1, <2>4, <3>1 DEF ReadBlock, Stage
  <2>5. CASE ReadFails \/ CloseCrypto \/ CloseUpload
    BY <2>5 DEF ReadFails, CloseCrypto, CloseUpload, Stage
  <2>6. CASE PipelineFailed \/ RegisterManifest \/ ManifestFails
    BY <2>6 DEF PipelineFailed, RegisterManifest, ManifestFails, Stage
  <2>7. CASE SaveStatus
    BY <2>7 DEF SaveStatus, Stage
  <2> QED BY <1>1, <2>1, <2>2, <2>3, <2>4, <2>5, <2>6, <2>7 DEF ReaderStep
<1> QED BY <1>1, <1>2, <1>3, <1>4, <1>5, <1>6, <1>7, <1>8 DEF Kept, More

LEMMA CryptoForward ==
    ASSUME IInv, NEW w \in CryptoWorker, CryptoStep(w)
    PROVE  Kept /\ More
<1>1. /\ TypeOK /\ U!TypeOK /\ FlowInv /\ Stage \in Nat /\ next \in Nat /\ BlocksTaken \in Nat
  BY CountTypes DEF IInv
<1>2. UNCHANGED <<pc, next, ujob, status, tried>>
  BY CryptoFrame
<1>3. UNCHANGED <<Stage, Tries>>
  BY <1>2 DEF Stage, Tries
<1>4. CASE TakeBlock(w)
  <2>1. /\ UNCHANGED <<uploadJobs, running, emitted>>
        /\ cjob' = [cjob EXCEPT ![w] = [block |-> Head(cryptoJobs), shard |-> 0]]
    BY <1>4 DEF TakeBlock, localVars
  <2>2. Len(cryptoJobs') = Len(cryptoJobs) - 1 /\ Head(cryptoJobs) = cryptoJobs[1]
        /\ Len(cryptoJobs) \in Nat \ {0}
    BY <1>1, <1>4, TailJobs, BlockTypes DEF TakeBlock
  <2>3. BlocksTaken' = BlocksTaken + 1
    BY <1>1, <1>2, <2>2, BlockTypes DEF BlocksTaken
  <2>4. Head(cryptoJobs) = BlocksTaken
    BY <1>1, <2>2 DEF FlowInv, BlockInv, First, BlocksTaken
  <2>5. BlocksLeft \subseteq BlocksLeft'
    <3> SUFFICES ASSUME NEW b \in BlocksLeft PROVE b \in BlocksLeft'
      OBVIOUS
    <3>1. b \in 0..(BlocksTaken - 1) /\ \A v \in CryptoWorker : cjob[v].block # b
      BY DEF BlocksLeft
    <3>2. b \in 0..(BlocksTaken' - 1) /\ b # BlocksTaken
      BY <1>1, <2>3, <3>1
    <3>3. \A v \in CryptoWorker : cjob'[v].block # b
      BY <1>1, <2>1, <2>4, <3>1, <3>2 DEF TypeOK
    <3> QED BY <3>2, <3>3 DEF BlocksLeft
  <2>6. UNCHANGED <<ChunksTaken, ChunksLeft, Returned>>
    BY <1>2, <2>1 DEF ChunksTaken, ChunksLeft, Returned
  <2> QED BY <1>1, <1>2, <1>3, <2>1, <2>3, <2>5, <2>6 DEF Kept, More
<1>5. CASE EncryptFails(w) \/ FinishBlock(w)
  <2>1. /\ UNCHANGED <<cryptoJobs, uploadJobs, running, emitted>>
        /\ cjob' = [cjob EXCEPT ![w] = NoBlock] /\ cjob[w] # NoBlock
    BY <1>5 DEF EncryptFails, FinishBlock, localVars
  <2>2. BlocksTaken' = BlocksTaken
    BY <1>2, <2>1 DEF BlocksTaken
  <2> DEFINE d == cjob[w].block
  <2>3. d \in Nat /\ d < BlocksTaken
    BY <1>1, <2>1, HeldTypes, BlockTypes DEF FlowInv, BlockInv, First, BlocksTaken
  <2>4. ASSUME NEW b \in Nat PROVE NoBlock.block # b
    BY DEF NoBlock
  <2>5. BlocksLeft \subseteq BlocksLeft'
    <3> SUFFICES ASSUME NEW b \in BlocksLeft PROVE b \in BlocksLeft'
      OBVIOUS
    <3>1. b \in 0..(BlocksTaken - 1) /\ \A v \in CryptoWorker : cjob[v].block # b
      BY DEF BlocksLeft
    <3>2. \A v \in CryptoWorker : cjob'[v].block # b
      BY <1>1, <2>1, <2>4, <3>1 DEF TypeOK
    <3> QED BY <2>2, <3>1, <3>2 DEF BlocksLeft
  <2>6. d \in BlocksLeft' /\ d \notin BlocksLeft
    <3>1. ASSUME NEW v \in CryptoWorker PROVE cjob'[v].block # d
      <4>1. CASE v = w \/ cjob[v] = NoBlock
        BY <1>1, <2>1, <2>3, <2>4, <4>1 DEF TypeOK
      <4>2. CASE v # w /\ cjob[v] # NoBlock
        BY <1>1, <2>1, <4>2 DEF TypeOK, FlowInv, BlockInv
      <4> QED BY <4>1, <4>2
    <3>2. d \in 0..(BlocksTaken - 1)
      BY <1>1, <2>3
    <3> HIDE DEF d
    <3>3. d \in BlocksLeft'
      BY <2>2, <3>1, <3>2 DEF BlocksLeft
    <3> QED BY <3>3 DEF BlocksLeft, d
  <2>7. UNCHANGED <<ChunksTaken, ChunksLeft, Returned>>
    BY <1>2, <2>1 DEF ChunksTaken, ChunksLeft, Returned
  <2> QED BY <1>1, <1>2, <1>3, <2>1, <2>2, <2>5, <2>6, <2>7 DEF Kept, More
<1>6. ASSUME NEW S \in SUBSET nodes, EmitShard(w, S) PROVE Kept /\ More
  <2> DEFINE c == <<cjob[w].block, cjob[w].shard>>
             e == [chunk |-> c, left |-> S]
  <2>1. c \in Chunk /\ c \notin emitted /\ cjob[w] \in [block : Block, shard : 0..TotalShards]
    BY <1>1, <1>6, EmittedChunk
  <2>2. /\ UNCHANGED <<cryptoJobs, running>> /\ emitted' = emitted \cup {c}
        /\ uploadJobs' = Append(uploadJobs, e)
        /\ cjob' = [cjob EXCEPT ![w].shard = @ + 1]
    BY <1>6 DEF EmitShard
  <2>3. \A v \in CryptoWorker : cjob'[v].block = cjob[v].block
    BY <1>1, <2>1, <2>2 DEF TypeOK
  <2>4. UNCHANGED <<BlocksTaken, BlocksLeft, Returned>>
    BY <1>2, <2>2, <2>3 DEF BlocksTaken, BlocksLeft, Returned
  <2>5. e \in Job /\ e.chunk = c
    BY <1>1, <2>1 DEF Job, TypeOK
  <2> HIDE DEF c, e
  <2>6. /\ Len(uploadJobs) \in Nat /\ Len(uploadJobs') = Len(uploadJobs) + 1
        /\ \A i \in 1..Len(uploadJobs) : uploadJobs'[i] = uploadJobs[i]
        /\ uploadJobs'[Len(uploadJobs) + 1] = e
    BY <1>1, <2>2, <2>5, AppendJob, JobTypes
  <2>7. ChunksTaken' = ChunksTaken
    <3>1. ASSUME NEW x \in ChunksTaken PROVE x \in ChunksTaken'
      <4>1. x \in emitted /\ x # c /\ \A i \in 1..Len(uploadJobs) : uploadJobs[i].chunk # x
        BY <2>1 DEF ChunksTaken
      <4>2. \A i \in 1..Len(uploadJobs') : i \in 1..Len(uploadJobs) \/ i = Len(uploadJobs) + 1
        BY <2>6
      <4>3. \A i \in 1..Len(uploadJobs') : uploadJobs'[i].chunk # x
        BY <2>5, <2>6, <4>1, <4>2
      <4> QED BY <2>2, <4>1, <4>3 DEF ChunksTaken
    <3>2. ASSUME NEW x \in ChunksTaken' PROVE x \in ChunksTaken
      <4>1. x \in emitted' /\ \A i \in 1..Len(uploadJobs') : uploadJobs'[i].chunk # x
        BY <3>2 DEF ChunksTaken
      <4>2. \A i \in 1..Len(uploadJobs) : i \in 1..Len(uploadJobs')
        BY <2>6
      <4>3. Len(uploadJobs) + 1 \in 1..Len(uploadJobs')
        BY <2>6
      <4>4. x # c /\ \A i \in 1..Len(uploadJobs) : uploadJobs[i].chunk # x
        BY <2>5, <2>6, <4>1, <4>2, <4>3
      <4> QED BY <2>2, <4>1, <4>4 DEF ChunksTaken
    <3> QED BY <3>1, <3>2
  <2>8. ChunksLeft' = ChunksLeft
    BY <1>2, <2>7 DEF ChunksLeft
  <2> QED BY <1>1, <1>2, <1>3, <2>1, <2>2, <2>4, <2>7, <2>8 DEF Kept, More
<1>7. CASE CryptoExit(w)
  <2>1. /\ UNCHANGED <<cryptoJobs, uploadJobs, cjob, emitted>>
        /\ w \in running /\ running' = running \ {w}
    BY <1>7 DEF CryptoExit, localVars
  <2>2. UNCHANGED <<BlocksTaken, BlocksLeft, ChunksTaken, ChunksLeft>>
    BY <1>2, <2>1 DEF BlocksTaken, BlocksLeft, ChunksTaken, ChunksLeft
  <2>3. pc \notin {"start", "prepare"}
    BY <1>1, <2>1 DEF FlowInv, WorkerInv, Busy, Reading
  <2>4. Returned \subseteq Returned' /\ w \in Returned' /\ w \notin Returned
    BY <1>2, <2>1, <2>3 DEF Returned
  <2> QED BY <1>1, <1>2, <1>3, <2>1, <2>2, <2>4 DEF Kept, More
<1> QED BY <1>4, <1>5, <1>6, <1>7 DEF CryptoStep

LEMMA UploadForward ==
    ASSUME IInv, NEW w \in UploadWorker, UploadWorkerStep(w)
    PROVE  Kept /\ More
<1>1. /\ TypeOK /\ U!TypeOK /\ FlowInv /\ Stage \in Nat /\ next \in Nat /\ BlocksTaken \in Nat
  BY CountTypes DEF IInv
<1>2. UNCHANGED <<pc, next, cryptoJobs, cjob, status, emitted>>
  BY UploadFrame
<1>3. UNCHANGED <<Stage, BlocksTaken, BlocksLeft>>
  BY <1>2 DEF Stage, BlocksTaken, BlocksLeft
<1>4. CASE TakeChunk(w)
  <2> DEFINE q == uploadJobs
             r == uploadJobs'
  <2>1. /\ Len(q) \in Nat \ {0} /\ Len(r) = Len(q) - 1 /\ Head(q) = q[1]
        /\ \A i \in 1..Len(r) : i + 1 \in 2..Len(q) /\ r[i] = q[i + 1]
    BY <1>1, <1>4, TailJobs, JobTypes DEF TakeChunk
  <2>2. UNCHANGED <<running, tried>> /\ ujob' = [ujob EXCEPT ![w] = q[1]]
    BY <1>4, <2>1 DEF TakeChunk, localVars
  <2>3. 1 \in 1..Len(q) /\ \A i \in 2..Len(q) : i \in 1..Len(q) /\ i # 1
    BY <2>1
  <2>4. ASSUME NEW x \in ChunksTaken
        PROVE  x \in emitted /\ x # q[1].chunk /\ \A i \in 1..Len(q) : q[i].chunk # x
    BY <2>3 DEF ChunksTaken
  <2>5. ASSUME NEW x \in ChunksTaken PROVE x \in ChunksTaken'
    <3>1. \A i \in 1..Len(r) : r[i].chunk # x
      BY <2>1, <2>3, <2>4
    <3> QED BY <1>2, <2>4, <3>1 DEF ChunksTaken
  <2>6. q[1].chunk \in ChunksTaken' /\ q[1].chunk \notin ChunksTaken
    <3>1. \A i \in 1..Len(r) : r[i].chunk # q[1].chunk
      BY <1>1, <2>1, <2>3 DEF FlowInv, JobInv
    <3>2. q[1].chunk \in emitted
      BY <1>1, <2>3 DEF FlowInv, JobInv, Open
    <3> QED BY <1>2, <2>3, <3>1, <3>2 DEF ChunksTaken
  <2>7. ASSUME NEW x \in ChunksLeft PROVE x \in ChunksLeft'
    <3>1. x \in ChunksTaken /\ \A v \in UploadWorker : ujob[v].chunk # x
      BY DEF ChunksLeft
    <3>2. \A v \in UploadWorker : ujob'[v].chunk # x
      BY <1>1, <2>2, <2>4, <3>1 DEF TypeOK
    <3> QED BY <2>5, <3>1, <3>2 DEF ChunksLeft
  <2>8. UNCHANGED <<Tries, Returned>>
    BY <1>2, <2>2 DEF Tries, Returned
  <2> QED BY <1>1, <1>2, <1>3, <2>5, <2>6, <2>7, <2>8 DEF Kept, More
<1>5. ASSUME ujob[w] # NoChunk, ujob' = [ujob EXCEPT ![w] = NoChunk],
             UNCHANGED <<uploadJobs, running>>, Tries \subseteq Tries'
      PROVE  Kept /\ More
  <2> DEFINE c == ujob[w].chunk
  <2>1. c \in Chunk /\ c \in emitted /\ \A i \in 1..Len(uploadJobs) : uploadJobs[i].chunk # c
    BY <1>1, <1>5, JobTypes DEF FlowInv, JobInv, Open
  <2>2. ASSUME NEW x \in Chunk PROVE NoChunk.chunk # x
    BY BlockTypes, <1>1 DEF NoChunk, Chunk
  <2>3. UNCHANGED <<ChunksTaken, Returned>>
    BY <1>2, <1>5 DEF ChunksTaken, Returned
  <2>4. ASSUME NEW x \in ChunksLeft PROVE x \in ChunksLeft'
    <3>1. x \in Chunk /\ x \in ChunksTaken /\ \A v \in UploadWorker : ujob[v].chunk # x
      BY <1>1, ChunkTypes DEF ChunksLeft, ChunksTaken
    <3>2. \A v \in UploadWorker : ujob'[v].chunk # x
      BY <1>1, <1>5, <2>2, <3>1 DEF TypeOK
    <3> QED BY <2>3, <3>1, <3>2 DEF ChunksLeft
  <2>5. c \in ChunksLeft' /\ c \notin ChunksLeft
    <3>1. ASSUME NEW v \in UploadWorker PROVE ujob'[v].chunk # c
      <4>1. CASE v = w \/ ujob[v] = NoChunk
        BY <1>1, <1>5, <2>1, <2>2, <4>1 DEF TypeOK
      <4>2. CASE v # w /\ ujob[v] # NoChunk
        BY <1>1, <1>5, <4>2 DEF TypeOK, FlowInv, JobInv
      <4> QED BY <4>1, <4>2
    <3>2. c \in ChunksTaken'
      BY <2>1, <2>3 DEF ChunksTaken
    <3>3. c \notin ChunksLeft
      BY DEF ChunksLeft
    <3> HIDE DEF c
    <3> QED BY <3>1, <3>2, <3>3 DEF ChunksLeft
  <2> QED BY <1>1, <1>2, <1>3, <1>5, <2>3, <2>4, <2>5 DEF Kept, More
<1>6. CASE DropChunk(w) \/ GiveUp(w)
  <2>1. tried' = tried
    BY <1>6 DEF DropChunk, GiveUp, localVars
  <2>2. Tries \subseteq Tries'
    BY <2>1 DEF Tries
  <2> QED BY <1>5, <1>6, <2>2 DEF DropChunk, GiveUp
<1>7. ASSUME NEW n \in Node, Try(w, n)
      PROVE  /\ Tries \subseteq Tries' /\ Tries # Tries' /\ ujob[w] # NoChunk
  <2> DEFINE c == ujob[w].chunk
  <2>1. c \in Chunk /\ n \notin tried[c] /\ tried \in [Chunk -> SUBSET Node]
    BY <1>1, <1>7, JobTypes DEF Try, FlowInv, JobInv
  <2>2. tried' = [tried EXCEPT ![c] = @ \cup {n}] /\ ujob[w] # NoChunk
    BY <1>7 DEF Try
  <2> HIDE DEF c
  <2>3. ASSUME NEW t \in Tries PROVE t \in Tries'
    BY <2>1, <2>2 DEF Tries
  <2>4. <<c, n>> \in Tries' /\ <<c, n>> \notin Tries
    BY <2>1, <2>2 DEF Tries
  <2> QED BY <2>2, <2>3, <2>4
<1>8. ASSUME NEW n \in Node, SaveChunk(w, n) PROVE Kept /\ More
  BY <1>5, <1>7, <1>8 DEF SaveChunk
<1>9. ASSUME NEW n \in Node, SaveFails(w, n) PROVE Kept /\ More
  <2>1. /\ UNCHANGED <<uploadJobs, running>> /\ Try(w, n)
        /\ ujob' = [ujob EXCEPT ![w].left = @ \ {n}]
    BY <1>9 DEF SaveFails, AfterTry
  <2>2. ujob[w] \in Job
    BY <1>1, <1>7, <2>1, HeldTypes
  <2>3. \A v \in UploadWorker : ujob'[v].chunk = ujob[v].chunk
    BY <1>1, <2>1, <2>2 DEF TypeOK, Job
  <2>4. UNCHANGED <<ChunksTaken, ChunksLeft, Returned>>
    BY <1>2, <2>1, <2>3 DEF ChunksTaken, ChunksLeft, Returned
  <2> QED BY <1>1, <1>2, <1>3, <1>7, <2>1, <2>4 DEF Kept, More
<1>10. CASE UploadExit(w)
  <2>1. /\ UNCHANGED <<uploadJobs, ujob, tried>> /\ w \in running /\ running' = running \ {w}
    BY <1>10 DEF UploadExit, localVars
  <2>2. UNCHANGED <<ChunksTaken, ChunksLeft, Tries>>
    BY <1>2, <2>1 DEF ChunksTaken, ChunksLeft, Tries
  <2>3. pc \notin {"start", "prepare"}
    BY <1>1, <2>1 DEF FlowInv, WorkerInv, Busy, Reading
  <2>4. Returned \subseteq Returned' /\ w \in Returned' /\ w \notin Returned
    BY <1>2, <2>1, <2>3 DEF Returned
  <2> QED BY <1>1, <1>2, <1>3, <2>2, <2>4 DEF Kept, More
<1> QED BY <1>4, <1>6, <1>8, <1>9, <1>10 DEF UploadWorkerStep

(* A block or chunk is in one place at a time and a node is asked once for *)
(* a chunk: with NeverStuck, this is why StreamAndUploadFile comes to its  *)
(* end on every schedule of its goroutines.                                *)
THEOREM GoesForward == Spec => WorkGoesForward
<1>1. IInv /\ IInv' /\ [Next]_vars => [LocalStep => Forward]_vars
  <2> SUFFICES ASSUME IInv, IInv', LocalStep PROVE Forward
    OBVIOUS
  <2>1. Kept /\ More
    BY ReaderForward, CryptoForward, UploadForward DEF LocalStep
  <2>2. Stage \in Nat /\ next \in Nat /\ BlocksTaken \in Nat
    BY CountTypes DEF IInv
  <2>3. (TypeOK /\ FlowInv => Stage \in Nat /\ next \in Nat /\ BlocksTaken \in Nat)'
    BY CountTypes, PTL
  <2>4. Stage' \in Nat /\ next' \in Nat /\ BlocksTaken' \in Nat
    BY <2>3 DEF IInv
  <2> QED BY <2>1, <2>2, <2>4, KeptIsForward
<1>2. [LocalStep => Forward]_vars =>
        [ \/ PutFile \/ ReaderStep
          \/ \E w \in CryptoWorker : CryptoStep(w)
          \/ \E w \in UploadWorker : UploadWorkerStep(w)
          => /\ \A i \in DOMAIN Done : Done[i] \subseteq Done'[i]
             /\ \E i \in DOMAIN Done : Done[i] # Done'[i] ]_vars
  BY DEF LocalStep, Forward
<1> QED BY <1>1, <1>2, Invariance, PTL DEF Spec, WorkGoesForward

(* How much work there is: the file, the nodes and the workers bound each  *)
(* of the nine kinds, so that a run has only so many steps of the reader   *)
(* and the workers.                                                        *)
WorkBounded ==
    /\ Stage \in 0..9 /\ next \in 0..TotalBlocks /\ BlocksTaken \in 0..TotalBlocks
    /\ BlocksLeft \subseteq 0..TotalBlocks
    /\ emitted \subseteq Chunk /\ ChunksTaken \subseteq Chunk /\ ChunksLeft \subseteq Chunk
    /\ Tries \subseteq Chunk \X Node
    /\ Returned \subseteq CryptoWorker \cup UploadWorker

THEOREM OnlySoMuchWork == Spec => []WorkBounded
<1>1. IInv => WorkBounded
  <2> SUFFICES ASSUME IInv PROVE WorkBounded
    OBVIOUS
  <2>1. TypeOK /\ FlowInv /\ U!TypeOK
    BY DEF IInv
  <2>2. Stage \in 0..9
    BY DEF Stage
  <2>3. next \in 0..TotalBlocks /\ TotalBlocks \in Nat
    BY <2>1, CountedBlocks DEF TypeOK
  <2>4. BlocksTaken \in 0..TotalBlocks
    BY <2>1, <2>3, CountTypes, BlockTypes DEF BlocksTaken
  <2>5. BlocksLeft \subseteq 0..TotalBlocks
    BY <2>3, <2>4 DEF BlocksLeft
  <2>6. emitted \subseteq Chunk /\ ChunksTaken \subseteq Chunk /\ ChunksLeft \subseteq Chunk
    BY <2>1, ChunkTypes DEF ChunksTaken, ChunksLeft
  <2>7. Tries \subseteq Chunk \X Node /\ Returned \subseteq CryptoWorker \cup UploadWorker
    BY DEF Tries, Returned
  <2> QED BY <2>2, <2>3, <2>4, <2>5, <2>6, <2>7 DEF WorkBounded
<1> QED BY <1>1, Invariance, PTL
=============================================================================
