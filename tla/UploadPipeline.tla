--------------------------- MODULE UploadPipeline ---------------------------
(***************************************************************************)
(* StreamAndUploadFile as it runs: a reader that cuts the file into blocks, *)
(* crypto workers that turn a block into TotalShards chunks, and upload    *)
(* workers that save a chunk on one of the nodes picked for it.  Two       *)
(* bounded channels connect them; errors go to a channel of capacity one   *)
(* that nobody waits for (a full one drops the error).                     *)
(*                                                                         *)
(* The end of the upload relies on the order close(cryptoJobs), wait for   *)
(* the crypto workers, close(uploadJobs), wait for the upload workers.  A  *)
(* read error leaves after the first of these four.                        *)
(*                                                                         *)
(* The variables from status to dels are those of Upload, which this       *)
(* module implements.  A channel is the sequence of its jobs.  The nodes   *)
(* of a job are a set: their order is random, so the next one tried is any *)
(* of those left.                                                          *)
(***************************************************************************)
EXTENDS Integers, Sequences, FiniteSets

CONSTANTS
    Node,            \* the storage nodes
    NoNode,
    FileSize,        \* in bytes
    BlockSize,       \* config.TargetChunkSize * config.DataShards
    TotalShards,     \* config.TotalShards: chunks of a block
    ChunksTolerance, \* config.ChunksTolerance: nodes picked for a chunk
    CryptoWorker,    \* one goroutine per CPU, at least two
    UploadWorker,    \* ten goroutines
    CryptoCap,       \* capacity of cryptoJobs: TotalShards * 2
    UploadCap,       \* capacity of uploadJobs: TotalShards * 4
    SignFails        \* whether SignMessage can fail (it reads the key file)

ASSUME PipelineAssumption ==
    /\ NoNode \notin Node
    /\ FileSize \in Nat
    /\ {BlockSize, TotalShards, ChunksTolerance, CryptoCap, UploadCap} \subseteq Nat \ {0}
    /\ CryptoWorker # {} /\ UploadWorker # {}
    /\ CryptoWorker \cap UploadWorker = {}
    /\ SignFails \in BOOLEAN

\* fileManifest.Blocks: an empty file counts as one block.
TotalBlocksTruncated == IF FileSize = 0 THEN 1 ELSE FileSize \div BlockSize
TotalBlocks ==
    IF FileSize = 0 THEN 1 ELSE (FileSize + BlockSize - 1) \div BlockSize

\* RequestNodesForFileUploadAPI: ceil(TotalChunks / NodesPerChunk).
NodesToPickup ==
    (TotalBlocks * TotalShards + ChunksTolerance - 1) \div ChunksTolerance

Remaining(b) == FileSize - b * BlockSize

\* The blocks the reader finds in the file, and their chunks.
Block == {b \in 0..(TotalBlocks - 1) : Remaining(b) > 0}
Chunk == Block \X (0..(TotalShards - 1))

VARIABLES
    pc,          \* where StreamAndUploadFile stands
    next,        \* blockID: the next block to read
    nodes,       \* the nodes that the bootstrap server allocated
    cryptoJobs,  \* the channel of blocks
    uploadJobs,  \* the channel of chunks
    closed,      \* the channels closed so far
    running,     \* the worker goroutines that have not returned
    cjob,        \* cjob[w]: crypto worker w's block and its next shard
    ujob,        \* ujob[w]: upload worker w's chunk and its nodes left to try
    err,         \* errChan holds an error
    split,       \* the blocks in fileManifest.Split
    status, emitted, targets, tried, acked, dropped,
    store, late, posted, registered, dels

pipeVars == <<next, nodes, cryptoJobs, uploadJobs, closed, running, cjob, ujob,
              err, split>>
localVars == <<emitted, targets, tried, acked, dropped>>
remoteVars == <<store, late, posted, registered, dels>>
vars == <<pc, pipeVars, status, localVars, remoteVars>>

NoBlock == [block |-> -1, shard |-> 0]
NoChunk == [chunk |-> <<-1, 0>>, left |-> {}]

Reading == {"read", "closeCrypto"}
Ended == {"secured", "failed", "aborted", "crashed"}
PC == {"start", "prepare", "waitCrypto", "waitUpload", "decide", "manifest"}
        \cup Reading \cup Ended

TypeOK ==
    /\ pc \in PC
    /\ next \in 0..TotalBlocks
    /\ nodes \subseteq Node
    /\ cryptoJobs \in Seq(Block) /\ Len(cryptoJobs) <= CryptoCap
    /\ uploadJobs \in Seq([chunk : Chunk, left : SUBSET Node])
    /\ Len(uploadJobs) <= UploadCap
    /\ closed \subseteq {"cryptoJobs", "uploadJobs"}
    /\ running \subseteq CryptoWorker \cup UploadWorker
    /\ cjob \in [CryptoWorker ->
                  [block : Block, shard : 0..TotalShards] \cup {NoBlock}]
    /\ ujob \in [UploadWorker ->
                  [chunk : Chunk, left : SUBSET Node] \cup {NoChunk}]
    /\ err \in BOOLEAN
    /\ split \subseteq Block

Init ==
    /\ pc = "start"
    /\ next = 0
    /\ nodes = {}
    /\ cryptoJobs = <<>>
    /\ uploadJobs = <<>>
    /\ closed = {}
    /\ running = {}
    /\ cjob = [w \in CryptoWorker |-> NoBlock]
    /\ ujob = [w \in UploadWorker |-> NoChunk]
    /\ err = FALSE
    /\ split = {}
    /\ status = "none"
    /\ emitted = {}
    /\ targets = [c \in Chunk |-> {}]
    /\ tried = [c \in Chunk |-> {}]
    /\ acked = [c \in Chunk |-> NoNode]
    /\ dropped = {}
    /\ store = [n \in Node |-> {}]
    /\ late = {}
    /\ posted = FALSE
    /\ registered = FALSE
    /\ dels = {}

----------------------------------------------------------------------------
(* PutFile and the start of StreamAndUploadFile.                           *)

PutFile ==
    /\ pc = "start"
    /\ pc' = "prepare"
    /\ status' = "processing"
    /\ UNCHANGED <<pipeVars, localVars, remoteVars>>

\* RequestNodesForFileUpload and GetRoundForTime succeed: the workers start.
Prepare(S) ==
    /\ pc = "prepare"
    /\ Cardinality(S) <= NodesToPickup
    /\ pc' = "read"
    /\ nodes' = S
    /\ running' = CryptoWorker \cup UploadWorker
    /\ UNCHANGED <<next, cryptoJobs, uploadJobs, closed, cjob, ujob, err, split,
                   status, localVars, remoteVars>>

\* The file cannot be opened or hashed, or one of the requests fails.
PrepareFails ==
    /\ pc = "prepare"
    /\ pc' = "failed"
    /\ UNCHANGED <<pipeVars, status, localVars, remoteVars>>

----------------------------------------------------------------------------
(* The reader.                                                             *)

\* A whole block may be followed by another; a short one is the last.
ReadBlock ==
    /\ pc = "read"
    /\ Remaining(next) > 0
    /\ Len(cryptoJobs) < CryptoCap
    /\ cryptoJobs' = Append(cryptoJobs, next)
    /\ next' = next + 1
    /\ pc' = IF Remaining(next) < BlockSize THEN "closeCrypto" ELSE "read"
    /\ UNCHANGED <<nodes, uploadJobs, closed, running, cjob, ujob, err, split,
                   status, localVars, remoteVars>>

ReadEOF ==
    /\ pc = "read"
    /\ Remaining(next) <= 0
    /\ pc' = "closeCrypto"
    /\ UNCHANGED <<pipeVars, status, localVars, remoteVars>>

AfterCloseForgotten(channel) == closed
AfterClose(channel) == closed \cup {channel}

\* StreamAndUploadFile returns at once; uploadJobs stays open.
ReadFails ==
    /\ pc = "read"
    /\ pc' = "aborted"
    /\ closed' = AfterClose("cryptoJobs")
    /\ UNCHANGED <<next, nodes, cryptoJobs, uploadJobs, running, cjob, ujob, err,
                   split, status, localVars, remoteVars>>

CloseCrypto ==
    /\ pc = "closeCrypto"
    /\ pc' = "waitCrypto"
    /\ closed' = AfterClose("cryptoJobs")
    /\ UNCHANGED <<next, nodes, cryptoJobs, uploadJobs, running, cjob, ujob, err,
                   split, status, localVars, remoteVars>>

\* cryptoWg.Wait returns.
CryptoDoneNoWait == TRUE
CryptoDone == running \cap CryptoWorker = {}

CloseUpload ==
    /\ pc = "waitCrypto"
    /\ CryptoDone
    /\ pc' = "waitUpload"
    /\ closed' = AfterClose("uploadJobs")
    /\ UNCHANGED <<next, nodes, cryptoJobs, uploadJobs, running, cjob, ujob, err,
                   split, status, localVars, remoteVars>>

\* uploadWg.Wait returns.
UploadDoneNoWait == TRUE
UploadDone == running \cap UploadWorker = {}

WaitUpload ==
    /\ pc = "waitUpload"
    /\ UploadDone
    /\ pc' = "decide"
    /\ UNCHANGED <<pipeVars, status, localVars, remoteVars>>

----------------------------------------------------------------------------
(* The crypto workers.                                                     *)

TakeBlock(w) ==
    /\ w \in running
    /\ cjob[w] = NoBlock
    /\ cryptoJobs # <<>>
    /\ cjob' = [cjob EXCEPT ![w] = [block |-> Head(cryptoJobs), shard |-> 0]]
    /\ cryptoJobs' = Tail(cryptoJobs)
    /\ UNCHANGED <<pc, next, nodes, uploadJobs, closed, running, ujob, err, split,
                   status, localVars, remoteVars>>

\* The time lock, the encryption, the erasure code or the secret sharing of
\* the block fails: an error, and on to the next block.
EncryptFails(w) ==
    /\ cjob[w] # NoBlock
    /\ cjob[w].shard = 0
    /\ err' = TRUE
    /\ cjob' = [cjob EXCEPT ![w] = NoBlock]
    /\ UNCHANGED <<pc, next, nodes, cryptoJobs, uploadJobs, closed, running, ujob,
                   split, status, localVars, remoteVars>>

\* pickRandomItems: ChunksTolerance distinct nodes, or all when fewer.
IsPick(S) ==
    /\ S \subseteq nodes
    /\ \/ Cardinality(S) = ChunksTolerance
       \/ S = nodes /\ Cardinality(nodes) < ChunksTolerance

\* The next shard of the block goes to uploadJobs, when there is room.
EmitShard(w, S) ==
    /\ cjob[w] # NoBlock
    /\ cjob[w].shard < TotalShards
    /\ Len(uploadJobs) < UploadCap
    /\ IsPick(S)
    /\ LET c == <<cjob[w].block, cjob[w].shard>> IN
        /\ uploadJobs' = Append(uploadJobs, [chunk |-> c, left |-> S])
        /\ emitted' = emitted \cup {c}
        /\ targets' = [targets EXCEPT ![c] = S]
    /\ cjob' = [cjob EXCEPT ![w].shard = @ + 1]
    /\ UNCHANGED <<pc, next, nodes, cryptoJobs, closed, running, ujob, err, split,
                   status, tried, acked, dropped, remoteVars>>

\* The block enters the manifest, under manifestMutex.
FinishBlock(w) ==
    /\ cjob[w] # NoBlock
    /\ cjob[w].shard = TotalShards
    /\ split' = split \cup {cjob[w].block}
    /\ cjob' = [cjob EXCEPT ![w] = NoBlock]
    /\ UNCHANGED <<pc, next, nodes, cryptoJobs, uploadJobs, closed, running, ujob,
                   err, status, localVars, remoteVars>>

CryptoExit(w) ==
    /\ w \in running
    /\ cjob[w] = NoBlock
    /\ cryptoJobs = <<>>
    /\ "cryptoJobs" \in closed
    /\ running' = running \ {w}
    /\ UNCHANGED <<pc, next, nodes, cryptoJobs, uploadJobs, closed, cjob, ujob, err,
                   split, status, localVars, remoteVars>>

----------------------------------------------------------------------------
(* The upload workers.                                                     *)

TakeChunk(w) ==
    /\ w \in running
    /\ ujob[w] = NoChunk
    /\ uploadJobs # <<>>
    /\ ujob' = [ujob EXCEPT ![w] = Head(uploadJobs)]
    /\ uploadJobs' = Tail(uploadJobs)
    /\ UNCHANGED <<pc, next, nodes, cryptoJobs, closed, running, cjob, err, split,
                   status, localVars, remoteVars>>

\* SignMessage fails: the worker takes the next job, errChan stays as it is.
DropChunk(w) ==
    /\ SignFails
    /\ ujob[w] # NoChunk
    /\ tried[ujob[w].chunk] = {}
    /\ dropped' = dropped \cup {ujob[w].chunk}
    /\ ujob' = [ujob EXCEPT ![w] = NoChunk]
    /\ UNCHANGED <<pc, next, nodes, cryptoJobs, uploadJobs, closed, running, cjob,
                   err, split, status, emitted, targets, tried, acked, remoteVars>>

Try(w, n) ==
    /\ ujob[w] # NoChunk
    /\ n \in ujob[w].left
    /\ tried' = [tried EXCEPT ![ujob[w].chunk] = @ \cup {n}]

SaveChunk(w, n) ==
    /\ Try(w, n)
    /\ store' = [store EXCEPT ![n] = @ \cup {ujob[w].chunk}]
    /\ acked' = [acked EXCEPT ![ujob[w].chunk] = n]
    /\ ujob' = [ujob EXCEPT ![w] = NoChunk]
    /\ UNCHANGED <<pc, next, nodes, cryptoJobs, uploadJobs, closed, running, cjob,
                   err, split, status, emitted, targets, dropped, late, posted,
                   registered, dels>>

\* The loop over the nodes of a chunk goes on with the next one.
AfterTrySame(left, n) == left
AfterTry(left, n) == left \ {n}

SaveFails(w, n) ==
    /\ Try(w, n)
    /\ LET c == ujob[w].chunk IN
        \/ UNCHANGED <<store, late>>
        \/ store' = [store EXCEPT ![n] = @ \cup {c}] /\ UNCHANGED late
        \/ late' = late \cup {<<c, n>>} /\ UNCHANGED store
    /\ ujob' = [ujob EXCEPT ![w].left = AfterTry(@, n)]
    /\ UNCHANGED <<pc, next, nodes, cryptoJobs, uploadJobs, closed, running, cjob,
                   err, split, status, emitted, targets, acked, dropped, posted,
                   registered, dels>>

\* What a worker that has no node left to try does to errChan.
ErrorAfterGiveUpSilent == err
ErrorAfterGiveUp == TRUE

GiveUp(w) ==
    /\ ujob[w] # NoChunk
    /\ ujob[w].left = {}
    /\ err' = ErrorAfterGiveUp
    /\ ujob' = [ujob EXCEPT ![w] = NoChunk]
    /\ UNCHANGED <<pc, next, nodes, cryptoJobs, uploadJobs, closed, running, cjob,
                   split, status, localVars, remoteVars>>

UploadExit(w) ==
    /\ w \in running
    /\ ujob[w] = NoChunk
    /\ uploadJobs = <<>>
    /\ "uploadJobs" \in closed
    /\ running' = running \ {w}
    /\ UNCHANGED <<pc, next, nodes, cryptoJobs, uploadJobs, closed, cjob, ujob, err,
                   split, status, localVars, remoteVars>>

----------------------------------------------------------------------------
(* The decision.                                                           *)

Rollback ==
    dels' = dels \cup {<<acked[c], c>> : c \in {d \in Chunk : acked[d] # NoNode}}

PipelineFailed ==
    /\ pc = "decide"
    /\ err
    /\ pc' = "failed"
    /\ err' = FALSE
    /\ Rollback
    /\ UNCHANGED <<next, nodes, cryptoJobs, uploadJobs, closed, running, cjob, ujob,
                   split, status, localVars, store, late, posted, registered>>

PipelineSucceeded ==
    /\ pc = "decide"
    /\ ~err
    /\ pc' = "manifest"
    /\ UNCHANGED <<pipeVars, status, localVars, remoteVars>>

RegisterManifest ==
    /\ pc = "manifest"
    /\ pc' = "secured"
    /\ registered' = TRUE
    /\ UNCHANGED <<pipeVars, status, localVars, store, late, posted, dels>>

ManifestFails ==
    /\ pc = "manifest"
    /\ pc' = "failed"
    /\ Rollback
    /\ posted' \in BOOLEAN
    /\ UNCHANGED <<pipeVars, status, localVars, store, late, registered>>

SaveStatus ==
    /\ pc \in {"secured", "failed", "aborted"}
    /\ status = "processing"
    /\ status' = IF pc = "secured" THEN "completed" ELSE "error"
    /\ UNCHANGED <<pc, pipeVars, localVars, remoteVars>>

\* The process ends, with all its goroutines.
Crash ==
    /\ pc \notin {"start", "crashed"}
    /\ pc' = "crashed"
    /\ running' = {}
    /\ cryptoJobs' = <<>>
    /\ uploadJobs' = <<>>
    /\ cjob' = [w \in CryptoWorker |-> NoBlock]
    /\ ujob' = [w \in UploadWorker |-> NoChunk]
    /\ dels' = {}
    /\ UNCHANGED <<next, nodes, closed, err, split, status, localVars, store, late,
                   posted, registered>>

----------------------------------------------------------------------------
(* What is still on the wire, as in Upload.                                *)

UploadPhase ==
    CASE pc = "start"  -> "idle"
      [] pc \in Ended  -> pc
      [] OTHER         -> "saving"

U == INSTANCE Upload WITH phase <- UploadPhase

WireStep == UNCHANGED <<pc, pipeVars>> /\ U!RemoteStep

CryptoStep(w) ==
    \/ TakeBlock(w)
    \/ EncryptFails(w)
    \/ \E S \in SUBSET nodes : EmitShard(w, S)
    \/ FinishBlock(w)
    \/ CryptoExit(w)

UploadWorkerStep(w) ==
    \/ TakeChunk(w)
    \/ DropChunk(w)
    \/ \E n \in Node : SaveChunk(w, n) \/ SaveFails(w, n)
    \/ GiveUp(w)
    \/ UploadExit(w)

ReaderStep ==
    \/ \E S \in SUBSET Node : Prepare(S)
    \/ PrepareFails
    \/ ReadBlock \/ ReadEOF \/ ReadFails
    \/ CloseCrypto \/ CloseUpload \/ WaitUpload
    \/ PipelineFailed \/ PipelineSucceeded
    \/ RegisterManifest \/ ManifestFails \/ SaveStatus

Next ==
    \/ PutFile
    \/ ReaderStep
    \/ \E w \in CryptoWorker : CryptoStep(w)
    \/ \E w \in UploadWorker : UploadWorkerStep(w)
    \/ WireStep
    \/ Crash

Spec == Init /\ [][Next]_vars

\* Every goroutine gets the processor and every remote call returns.
FairSpec ==
    /\ Spec
    /\ WF_vars(ReaderStep)
    /\ \A w \in CryptoWorker : WF_vars(CryptoStep(w))
    /\ \A w \in UploadWorker : WF_vars(UploadWorkerStep(w))

----------------------------------------------------------------------------
(* Properties.                                                             *)

\* No goroutine is left that could send on a closed channel (a panic that
\* ends the whole process): the reader has stopped once cryptoJobs is closed,
\* and no crypto worker is left with a block once uploadJobs is.
NoSendOnClosed ==
    /\ "cryptoJobs" \in closed => pc \notin Reading
    /\ "uploadJobs" \in closed => \A w \in CryptoWorker : cjob[w] = NoBlock

\* When the manifest goes out without an error, it lists every block that the
\* file has, and every chunk of them was acknowledged or skipped: no job is
\* lost in a channel, no worker's outcome comes after the decision.
DecisionIsFinal ==
    pc \in {"manifest", "secured"} =>
        /\ split = Block
        /\ \A c \in Chunk : acked[c] # NoNode \/ c \in dropped
        /\ running = {}

\* What the reader and the workers can do next without a failure.
ReaderGoesOn ==
    \/ pc \in {"prepare", "closeCrypto", "decide", "manifest", "secured", "failed", "aborted"}
    \/ pc = "read" /\ (Remaining(next) <= 0 \/ Len(cryptoJobs) < CryptoCap)
    \/ pc = "waitCrypto" /\ CryptoDone
    \/ pc = "waitUpload" /\ UploadDone

CryptoGoesOn(w) ==
    /\ w \in running
    /\ \/ cjob[w] = NoBlock /\ (cryptoJobs # <<>> \/ "cryptoJobs" \in closed)
       \/ cjob[w] # NoBlock /\ (cjob[w].shard = TotalShards \/ Len(uploadJobs) < UploadCap)

UploadGoesOn(w) ==
    /\ w \in running
    /\ ujob[w] # NoChunk \/ uploadJobs # <<>> \/ "uploadJobs" \in closed

\* As long as an upload is processing, the reader or a worker can go on, even
\* with both channels full: nobody waits for a channel or a WaitGroup that
\* only a goroutine which waits itself, or has returned, would serve.
NeverStuck ==
    status = "processing" /\ pc # "crashed" =>
        \/ ReaderGoesOn
        \/ \E w \in CryptoWorker : CryptoGoesOn(w)
        \/ \E w \in UploadWorker : UploadGoesOn(w)

\* What has been done so far: places that the reader has passed, blocks that
\* were read, taken from cryptoJobs and finished by a crypto worker, chunks
\* that were emitted, taken from uploadJobs and finished by an upload worker,
\* saves that were tried, workers that have returned.
Stage ==
    CASE pc = "start"       -> 0
      [] pc = "prepare"     -> 1
      [] pc = "read"        -> 2
      [] pc = "closeCrypto" -> 3
      [] pc = "waitCrypto"  -> 4
      [] pc = "waitUpload"  -> 5
      [] pc = "decide"      -> 6
      [] pc = "manifest"    -> 7
      [] OTHER              -> IF status = "processing" THEN 8 ELSE 9

BlocksTaken == next - Len(cryptoJobs)
BlocksLeft ==
    {b \in 0..(BlocksTaken - 1) : \A w \in CryptoWorker : cjob[w].block # b}
ChunksTaken ==
    {c \in emitted : \A i \in 1..Len(uploadJobs) : uploadJobs[i].chunk # c}
ChunksLeft == {c \in ChunksTaken : \A w \in UploadWorker : ujob[w].chunk # c}
Tries == {t \in Chunk \X Node : t[2] \in tried[t[1]]}
Returned ==
    IF pc \in {"start", "prepare"} THEN {} ELSE (CryptoWorker \cup UploadWorker) \ running

Done == <<0..Stage, 0..next, 0..BlocksTaken, BlocksLeft, emitted, ChunksTaken,
          ChunksLeft, Tries, Returned>>

\* Every step of the reader and of a worker does a piece of this work, and
\* none undoes one: no block or chunk goes through a channel twice, no node is
\* asked twice for a chunk, nobody runs in a circle.  There is only so much
\* work, and so NeverStuck leaves an upload nothing but to end.
WorkGoesForward ==
    [][ \/ PutFile \/ ReaderStep
        \/ \E w \in CryptoWorker : CryptoStep(w)
        \/ \E w \in UploadWorker : UploadWorkerStep(w)
        => /\ \A i \in DOMAIN Done : Done[i] \subseteq Done'[i]
           /\ \E i \in DOMAIN Done : Done[i] # Done'[i]
      ]_vars

\* "[SUCCESS] File fully secured and distributed": each chunk of a secured
\* file was acknowledged.
FullyDistributed == pc = "secured" => \A c \in Chunk : acked[c] # NoNode

\* The file of a secured upload can be asked for: StreamReconstruct loops
\* over the manifest's Blocks and needs each of them in Split.
ManifestComplete == pc = "secured" => split = 0..(TotalBlocks - 1)

\* PutFile stores "completed" only for a file that is registered and whose
\* chunks, but for skipped ones, are stored where they were acknowledged: no
\* worker's save is still open, no rollback is under way.
CompletedIsStored == U!CompletedIsStored

\* The pipeline is an implementation of the upload: each step of reader,
\* workers and wire is a step that Upload allows, or changes nothing there.
ImplementsUpload == U!Spec

\* An upload ends and stores its outcome, whatever fails, unless the process
\* does: reader, workers and channels never wait on one another in a circle.
UploadEnds ==
    status = "processing" ~> (status \in {"completed", "error"} \/ pc = "crashed")

\* The goroutines of an upload return when it is over (defer wg.Done in each
\* worker).  After a read error nobody closes uploadJobs: its workers save
\* the chunks that are left and then wait on the channel for ever.
WorkersReturn == pc \in Ended ~> running = {}

\* swagger-node-api.yaml, /upload/status: "the current status of the
\* asynchronous upload process", one of processing, completed and error.
\* A process that ends takes the upload with it and leaves its status; the
\* next one (main of k-node) neither resumes the upload nor corrects it.
OutcomeReported ==
    status = "processing" ~> status \in {"completed", "error"}
=============================================================================
