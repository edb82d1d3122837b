# TLA+ models of the Kairos P2P engine

Kairos stores files whose content can only be read after a release date. A
storage node (`k-node`) cuts an uploaded file into blocks, encrypts each block
under a time lock, spreads it over shards ("chunks") and saves these on other
storage nodes; a manifest at the bootstrap servers (`k-bootstrap`) says where
they are. Everything after the upload is kept up by background workers:
heartbeats, cleanups, and the synchronisation of the bootstrap servers.

This directory models that program in TLA+, checks the models with TLC and
proves theorems about them with TLAPS. `PROJECT.json` lists the components, the
runs, the source lines behind each definition, the hazards of the code and the
theorems.

## 1. Inventory

| Part | State it keeps | Operations | What is hard | What makes it correct |
| --- | --- | --- | --- | --- |
| Heartbeat (`k-node/main.go`, `subscription.go`, `SubsribeNode`, `CleanInactiveNodes`) | `active_nodes` records with a timestamp; the loop's sleeps | subscribe, retry, purge | posts that time out or are handled late; a scan that reads first and deletes later; 30 + 60 + 30 s against 2 min | dead nodes leave, reliable nodes stay, records have a bounded age |
| Upload (`PutFile`, `StreamAndUploadFile`) | status record, manifest, channels `cryptoJobs`, `uploadJobs`, `errChan`, `successfulUploads` | read, encrypt, send, roll back, register, store the outcome | three kinds of goroutines on bounded channels; early exits; lost answers; a process that ends | no send on a closed channel, the decision comes last, every upload ends, "completed" means stored |
| Storage node service (`node_server.go`) | `chunks` | SaveChunk, DeleteChunk, GetChunk | calls that arrive after their caller gave up | part of the upload and the cleanup |
| Cleanups (`clean_database.go`) | keys to delete of the running walk | examine, delete | run while uploads, deletions and outages go on | orphans and expired files go, nothing else does |
| Deletion (`DeleteFile`) | none | fetch the manifest, delete the chunks (not awaited), delete the manifest | races with uploads, cleanups and synchronisation | the file goes and stays gone |
| Synchronisation (`synchronization.go`, `SyncDigestHandler`, `SyncPushHandler`) | `active_nodes` and `manifests` of each server; requests under way | digest, align, push | delayed and lost messages; keys without timestamps; deletions without tombstones | entries reach every server, no record is made up, deleted entries stay away |
| Allocation (`RequestNodesForFileUploadAPI`, `pickRandomItems`) | the answer of the server, one list per crypto worker | answer with the first nodes, draw the targets of a chunk | workers that draw at the same time from a list they overwrite; few nodes for many shards | the targets of a chunk differ; no node holds enough shards to rebuild a block |
| Download (`GetFile`, `StreamReconstruct`) | none that outlives the request | fetch the manifest, ask nodes for chunks, decrypt, write | nodes and chunks that go while the search runs, errors after the answer has begun | what stays available is found; the file, or an error |
| gRPC pool (`grpc_pool.go`) | map of connections | get, replace, close all | goroutines that replace the same connection, and each other's replacement | closed connections leave the pool, calls recover with the node |
| Keys (`keys_management.go`, the two `main.go`) | two key files, the public key in memory | create, load, sign | errors and crashes between the writes, restarts | one identity, and files that stay its own |
| Explorer, CLI, status and metrics endpoints, HTTP chunk endpoint | none of their own | read, or write the same records as the above | - | - |

How they interact: nodes call bootstrap servers over HTTP (subscribe, allocate,
insert, fetch and delete manifests), nodes call nodes over gRPC (save, get and
delete chunks), bootstrap servers call each other over HTTP (digest and push).
Each process has one BadgerDB, shared by its handlers and its workers without
any lock beyond a transaction. Callers pick a bootstrap server at random.

## 2. Modules

| Module | Models | Notes |
| --- | --- | --- |
| `Heartbeat` | the registry of one server and the subscription loops | discrete time; a record is its age |
| `Upload` | what one upload promises: chunks are emitted, saved, rolled back or registered | the abstract specification |
| `UploadPipeline` | `StreamAndUploadFile` with its goroutines and channels | implements `Upload` (`U == INSTANCE Upload WITH phase <- ...`) |
| `FileLifecycle` | `Upload` in time, with the cleanups, deletion, expiry, restarts | extends `Upload` |
| `BootstrapSync` | several servers: registries, manifests, delta synchronisation | cleanups are one step (their steps are in `Heartbeat`) |
| `Placement` | the server's answer, the draws of the crypto workers, the chunks and the manifest they lead to | an upload without the errors that `Upload` has |
| `Download` | `GetFile` and `StreamReconstruct` reading a file that `Placement` placed | extends `Placement`; nodes, chunks, the beacon and synchronisation move meanwhile |
| `GrpcPool` | one address of the pool, its callers, `CloseAllGrpcConnections` and the connections | each access of the `sync.Map` is one step |
| `KeyStore` | the key files, `main` and the signed requests | each write of a file is two steps |
| `HeartbeatProofs`, `UploadProofs`, `UploadPipelineProofs`, `FileLifecycleProofs`, `BootstrapSyncProofs`, `DownloadProofs` (with `Placement`), `GrpcPoolProofs`, `KeyStoreProofs` | theorems | section 5 |
| `MC*` | the instances for TLC, and where they are sound their symmetry | one `.cfg` per question |

How the state corresponds to the code:

* **Heartbeat.** `phase[n]` is the place of node n's subscription goroutine
  (`post`: request sent; `reply`: handled by the server, not yet answered;
  `rest`/`retry`: the two sleeps), `age[n]` is now minus the record's timestamp,
  `late[n]` a post the client gave up that the server can still handle, `stale`
  the rest of the records a running `CleanInactiveNodes` has decided to delete.
* **Upload.** `acked` is `successfulUploads`, `targets` the nodes written into
  the manifest, `store[n]` the `chunks` of node n, `late` and `posted` the
  requests whose sender gave up, `dels` the `go RequestChunkDeletion` calls.
  A failed remote call has three outcomes: not handled, handled, handled later.
* **UploadPipeline.** `pc` is the place of `StreamAndUploadFile` itself, `cjob`
  and `ujob` are the jobs in the hands of the workers, `closed` the closed
  channels, `err` whether `errChan` holds an error (capacity one, a second error
  is dropped). A read error returns after `close(cryptoJobs)`: `aborted`, with
  workers that go on. `Crash` takes all goroutines with it. There is at least one
  worker of each kind: the code starts max(NumCPU, 2) crypto workers
  (file_management.go:167) and 10 upload workers (file_management.go:111). A
  crypto worker also returns when `reedsolomon.New` fails; it cannot with the
  fixed shard counts of the configuration, so the model has no such step.
* **FileLifecycle.** `todo[n]` and `kill[n]` are the rest of the walk and
  `keysToDelete` of `CleanNodeDatabase`; `created` is `CreatedAt`, which the code
  reads once per block before it sends the chunks, so that a chunk may carry any
  time up to the one at which it is sent; `expiry` is
  the release date and 7 days, which the user chooses; `del` is the last
  `DeleteFile` request. `spread` says whether the manifest has come to every
  bootstrap server. `SyncLag` bounds how long that takes: until then the server
  that a cleanup happens to ask may not have it.
* **BootstrapSync.** `reg[s][n]` is the age of n's record at server s; `sync[s]`
  is the `performSync` that s has under way, with the digest, then the answer,
  then the keys it has been asked for; `pushes` are the bodies of `/sync/push`,
  on the wire or in the goroutine of the receiver. A digest ends within the
  client's timeout; a push does not, because the timeout of its sender does not
  end the goroutine.
* **Placement.** `nodes` is the slice the server answered with, as a function on
  `1..k`; `list[w]` and `left[w]` are the copy and the length of the slice in
  `pickRandomItems` of crypto worker w, `selected[w]` its result. A worker has a
  block for itself and takes its shards in order, as the code's loop does.
* **Download.** `blk`, `shard` and `asked` are the three nested loops of
  `StreamReconstruct`; the order of a chunk's nodes is left open, because the
  manifest holds them in the random order of the draw. `answer` is what the client
  gets; `ok` is also the status of a handler that returns without writing one.
  `stable` and `steady` are history: which chunks, and whether the beacon, were
  available at every moment since the request. They change no other variable.
* **GrpcPool.** `pc[g]` is the place of a caller in `GetGrpcConnection`, `mine[g]`
  the connection in its hands, `state[c]` what `GetState` returns. A connection
  nobody refers to is forgotten, so that a few connections stand for any number.
  The address parses: for one that does not, `GetGrpcConnection` returns an error
  before it makes a connection, every time.
* **KeyStore.** A file holds the number of its pair, or is missing or torn. `key`
  is `config.PublicKey`, `known` the public keys under which anybody has accepted
  a request. `failed` says that `main` has ignored a read or write error in this run,
  of the generation or of the files it found (main.go:57, :59), `torn` that a
  generation was interrupted.

Assumptions of all models: a BadgerDB transaction is one step and does not
fail; signatures verify (except in `KeyStore`, which is about them); the clocks
of the servers agree; a scan or a purge takes no time, though other steps come
between its parts. A chunk that is served is the one that was saved: ciphers and
codes are library code.

## 3. What is checked

| Run | Question | Bounds | Result |
| --- | --- | --- | --- |
| `heartbeat` | Do records have a bounded age, does a reliable node stay, does a stopped one go? | one reliable and one unreliable node, the code's periods in units of 15 s (5 s rounded up to one) | holds |
| `pipeline` | Can anybody send on a closed channel, is the decision final, can somebody always go on, does every step do some of the work that is left, does an upload end? | 2 blocks of 2 shards, 2 crypto workers, 1 upload worker, channels of capacity 1, 1 node, signing may fail | holds |
| `pipeline_refines` | Is each step of the pipeline one of `Upload`, and is a completed file stored? | 1 whole block of 3 shards, 1 crypto worker, 2 upload workers, 2 nodes (so a chunk is retried) | holds |
| `lifecycle_durable` | Do the cleanups leave a completed file alone? | 2 chunks, 1 node that restarts once, OrphanAge 2, MaxUpload 1, SyncLag 1, expiry 5 | holds |
| `lifecycle_forgotten` | Is what should go collected? | 1 chunk, 2 nodes, failing lookups, files that expire at 2 and files that never do | holds |
| `sync_nodes` | Is a record ever fresher than the node's last beat; is a running node found everywhere? | 2 servers, 1 node, requests that take 0 or 1 units, one push at a time | holds |
| `sync_manifests` | Does a manifest come to every server and stay there? | 2 servers, 1 file | holds |
| `download` | Are the targets of a chunk different nodes? Does a download end, and does it find what stays available? | 3 nodes of which 2 are offered, 2 servers, 2 blocks of 2 shards of which 1 is enough, 2 crypto workers | holds |
| `grpc_pool` | Does a closed connection leave the pool, and do calls recover when the node does? | 2 callers and `CloseAllGrpcConnections`, 4 connections | holds |
| `keystore` | Does a process keep one identity and its files, and what can leave it unaccepted? | 2 processes, 2 key pairs each, any number of restarts and errors | holds |
| `sync_deleted` | Does a deleted manifest stay deleted? | 2 servers, 1 file | violated |
| `lifecycle_outage` | Is a file durable when a manifest lookup can fail? | 1 chunk, 2 nodes | violated |

Why the bounds are enough to be interesting:

* Channels of capacity 1 with more jobs than capacity make every goroutine block
  on every channel; the code's capacities (10 and 20) block later, not in other
  ways. Two crypto workers reorder the blocks. Retries need two nodes, so they
  are in `pipeline_refines`. In `pipeline` the last block is short, so the reader
  leaves by `io.ErrUnexpectedEOF`; in `pipeline_refines` it is whole, so the
  reader leaves by `io.EOF`.
* `lifecycle_durable` takes MaxUpload + SyncLag equal to OrphanAge, the largest
  sum for which the property holds; `MCFileLifecycle_slow.cfg` and
  `MCFileLifecycle_unsynced.cfg` show that it fails above.
* In `lifecycle_forgotten` time stops at 3: a file with `expiry` = 3 never
  expires, so that its orphans must go because they are orphans; restarts are in
  the other run.
* Ages in `BootstrapSync` stop at `Limit + 1`: above the limit the code does not
  tell them apart.
* In `download` a tolerance of 2 and 4 chunks make the server offer 2 of its 3
  nodes, two workers draw for different blocks at the same time, and a chunk has
  two nodes to ask. With one sufficient shard of two, each block has a
  shard that may be lost.
* In `grpc_pool` a connection is in the pool, in the hands of one of the two
  callers or in those of `CloseAllGrpcConnections`: four are never too few.
* In `keystore` the second pair is never generated, which is what `OneIdentity`
  is about: once there is a private key file nothing replaces it.

More counterexamples. These configurations state what a comment, a document or
a reader expects, and TLC refutes it; run them with
`tlc -config <cfg> <module>`:

| Configuration | Property | What happens |
| --- | --- | --- |
| `MCHeartbeat_purge.cfg` | `PurgeOnlyStale` | a heartbeat handled between a scan's read and its delete is deleted with the old record (README.md:67 promises that only silent nodes are purged); the node comes back with its next beat |
| `MCUpload_manifest.cfg` | `ErrorLeavesNoManifest` | the manifest's answer is lost: "Manifest upload failed" (file_management.go:334), chunks rolled back, manifest registered |
| `MCUploadPipeline_reported.cfg` | `OutcomeReported` | the process ends during an upload and the status stays `processing` (swagger-node-api.yaml:71: "Returns the current status") |
| `MCFileLifecycle_slow.cfg` | `Durable` | an upload longer than 2 h loses its first chunks as "orphans" and still ends with "File fully secured and distributed" (file_management.go:344) |
| `MCFileLifecycle_delete.cfg` | `DeleteIsComplete` | a deletion is answered with 200 though chunks stay (swagger-node-api.yaml:66) until they are orphans |
| `MCBootstrapSync_purge.cfg` | `PurgeOnlySilent` | a digest has no timestamps, so a server does not hear of beats at the others and purges a running node (README.md:67) |
| `MCUploadPipeline_dropped.cfg` | `FullyDistributed` | a chunk that cannot be signed is skipped (file_management.go:123) and the upload ends with "File fully secured and distributed" |
| `MCUploadPipeline_empty.cfg` | `ManifestComplete` | an empty file is registered with one block and no chunk (file_management.go:55); a download of it fails |
| `MCBootstrapSync_dead.cfg` | `DeadNodeForgotten` | servers whose purges alternate with their synchronisations hand the record of a dead node back and forth (README.md:67) |
| `MCFileLifecycle_unsynced.cfg` | `Durable` | the upload takes its longest time and the manifest is not everywhere yet: a cleanup asks the wrong server and deletes the first chunks |
| `MCPlacement_exposed.cfg` | `NoNodeSuffices` | a file of one block gets ceil(5 / 3) = 2 nodes for 5 chunks, so that one of them holds 3, enough to rebuild it (README.md:80: "No single node holds enough information") |
| `MCDownload_ok.cfg` | `OkIsWhole` | a download that fails after the manifest was found returns without a status: 200 with an empty or truncated file (node_api.go:171, against swagger-node-api.yaml's 200 and 403) |
| `MCDownload_reset.cfg` | `NoReset` | a server that synchronisation has not reached answers without a manifest, and `GetFile` dereferences it (node_api.go:163); net/http recovers and resets the connection |
| `MCGrpcPool_cut.cfg` | `NoCallCutOff` | a caller found a connection failed; before it closes it, the connection has recovered and carries another caller's call (grpc_pool.go:22) |
| `MCGrpcPool_lost.cfg` | `NoneLost` | two callers store a new connection each: the first is overwritten, or deleted, and never closed (grpc_pool.go:25) |
| `MCKeyStore_heals.cfg` | `StartHeals` | a crash between the two key files leaves a private key that stops every later start from generating keys, and no public key (keys_management.go:44) |
| `MCKeyStore_unread.cfg` | `AcceptedWhenUp` | `main` ignores an error of the key read at its start (main.go:59) and runs without a public key; the next start can read it again |
| `MCUploadPipeline_leaked.cfg` | `WorkersReturn` | after a read error `StreamAndUploadFile` returns without closing `uploadJobs` (file_management.go:298): its upload workers wait on the channel for as long as the process runs |
| `MCBootstrapSync_expired.cfg` | `ExpiredManifestForgotten` | cleanups that alternate with synchronisations keep an expired manifest (clean_database.go:66) |

The two violated runs in the table of runs are those with the gravest
consequence: a lost file, and a file that cannot be deleted.

`MCUpload.cfg` checks `Upload` on its own (it passes); the theorem
`CompletedStored` and the run `pipeline_refines` cover the same ground.

## 4. Fairness

* `Heartbeat`: time passes, the ticker fires, a scan deletes what it has read, a
  sleep ends, a post ends (the HTTP client has a timeout). Starts, stops and
  late requests happen or not.
* `UploadPipeline`: the Go scheduler runs every goroutine that can run, and every
  remote call returns. The second is an assumption: `SaveChunk` is called with
  `context.Background()`, so a peer that accepts a connection and never answers
  blocks an upload for ever.
* `FileLifecycle`: time passes, an upload ends (`UploadEnds` of the pipeline),
  the workers' tickers fire, the manifest reaches every server. Nothing is assumed
  of crashes, the user or the wire; what a late save brings is collected because
  cleanups start again and again.
* `Download`: the handler runs and each of its calls returns. Nodes may turn up
  and down for ever; the search ends because it never asks a node twice for the
  same chunk.
* `GrpcPool`: goroutines run, and a connection connects, fails or ends its
  back-off in its time, as gRPC does on its own. `CallsRecover` assumes nothing of
  the node but that it can be reached from some moment on.
* `KeyStore`: none for the passing run; `MCKeyStore_heals.cfg` assumes that a
  process starts again and that its start and requests get on.
* `BootstrapSync`: weak fairness for tickers, subscriptions and the end of every
  request; strong fairness for each ordered pair of servers to start, answer and
  align again and again. A server picks its peer at random at each tick, so each
  peer is picked infinitely often with probability one, and the network is
  assumed not to lose all their synchronisations. `RunningNodeFound` is checked
  with `SelfAware` = TRUE, a server list that spells a server's own address as
  the server does. Without it a server can synchronise with itself infinitely
  often in no time, a behaviour of the model and not of a 10 s ticker.

## 5. What is proved

TLAPS checks all proofs; the theorems hold for every value of the constants
that meets the named assumptions.

* `HeartbeatProofs`: `TypeCorrect`, `RecordAgeBound` (`[]RecordAgeBounded`) and
  `ReliableStays` (`ReliableNeverPurged`), under `PeriodAssumption` and
  `BeatAssumption` (2 * HttpTimeout + BeatSleep <= Limit, which the code's
  30/60/120 s meet with equality). The invariant bounds the age of each record by
  the time since the last scan, and the age of a reliable node's record by its
  phase and timer: without the second part a record could be old enough at the
  wrong moment.
* `UploadProofs`: `TypeCorrect` and `CompletedStored`. "Completed implies
  stored" is not inductive: the invariant adds that until a rollback there are no
  deletions under way and everything acknowledged is stored, and that the outcome
  is stored after the decision and the decision after the last chunk.
* `UploadPipelineProofs`, under `PipelineAssumption` (positive sizes and
  capacities, at least one worker of each kind): `TypeCorrect`, `NoSend`
  (`[]NoSendOnClosed`), `DecisionFinal` (`[]DecisionIsFinal`), `NoDeadlock`
  (`[]NeverStuck`), `GoesForward` (`WorkGoesForward`), `Implementation` (`Spec =>
  ImplementsUpload`) and `CompletedStored`. One invariant serves all of them.
  `cryptoJobs` is a FIFO of consecutive block numbers, so that the blocks below
  its first are those the workers have taken (`BlockInv`); a block in the hands of
  a worker has emitted exactly its shards below the worker's counter (`EmitInv`);
  a chunk without an outcome is in one place, once (`JobInv`); a worker that
  returned found its channel closed and empty (`WorkerInv`); and as long as there
  is no error, a block that was taken is in the manifest or in the hands of a
  worker, and an emitted chunk is on its way or has its outcome (`NoneLost`). None
  of the properties is inductive without these: that the decision is final, for
  example, needs that an error once written stays in `errChan` and that a job
  cannot be left in a channel that everybody has left.
* The refinement: each step of the pipeline is a step of `Upload` under the
  mapping `UploadPhase`, or a stutter. The one hard step is `RegisterManifest`,
  which `Upload` allows only when all chunks have their outcome: this is
  `NoneLost` once every worker has returned. The types of `Upload` and
  `CompletedIsStored` are not proved again but instantiated from `UploadProofs`.
* `NeverStuck` and `WorkGoesForward` are the safety half of `UploadEnds`: somebody
  can go on, and nobody can go on for ever, since each step of the reader and the
  workers adds to one of nine sets that never lose an element (`GoesForward`)
  and are bounded by the file, the nodes and the workers (`OnlySoMuchWork`).
  What TLC adds is the fairness argument.
* `BootstrapSyncProofs`: `TypeCorrect` and `NeverRefreshed` (`[]RecordsAreBeats`),
  under `SyncAssumption`, for any number of servers, nodes, files and messages under
  way. The invariant is the property with the types: records age in registries,
  answers and bodies alike, and an alignment copies ages but invents none.
* `FileLifecycleProofs`: `LifeTypeCorrect` without further assumptions, and
  `FileIsDurable` (`[]Durable`) for MaxUpload + SyncLag <= OrphanAge and lookups
  that do not fail. The invariant says that as long as a file is neither abandoned (failed,
  aborted, crashed, asked to be deleted) nor expired, no cleanup has a chunk on
  its list. The list is what matters: a cleanup deletes by a decision that may be
  old, so it is not enough that no decision would be taken now. A chunk cannot be
  condemned during the upload because it is too young (`TimeInv`), nor while the
  manifest spreads because it is still too young (`LagInv`), nor afterwards because
  the manifest is everywhere (`ManifestInv`). Dropping one of the assumptions gives
  `MCFileLifecycle_slow.cfg`, `MCFileLifecycle_unsynced.cfg` or
  `lifecycle_outage`.
* `DownloadProofs`, for `Placement`: `TargetsAreDistinct` for any registry, file, tolerance and
  number of workers, under `PlacementAssumption` (a finite registry, positive
  sizes). The invariant (`DrawInv`) says that what is left of a worker's list are
  different nodes of the answer that the worker has not drawn: this is what
  moving the last item into the gap and shortening the slice preserve.
* `DownloadProofs`, for `Download`: `DownloadTypeCorrect`, `TargetsStayDistinct` and `Delivers`
  (`[]DownloadDelivers`), from the same assumption. The invariant adds to that of
  the placement that all stable shards before the current one are collected and
  that no node asked so far had the current one stable (`SearchInv`), so that a
  search that runs out of shards without enough of them refutes the premise; and
  that the blocks written are the ones before the current one (`SentInv`).
* `GrpcPoolProofs`: `TypeCorrect` and `ClosedRemoved` (`[]ClosedIsRemoved`), under
  `PoolAssumption`, for any number of callers and connections. The invariant adds
  that a connection which is about to be stored is in nobody else's hands, and so
  open (`Fresh`), and that connections in use are not forgotten (`Held`).
* `KeyStoreProofs`: `TypeCorrect`, `IdentityIsOne`, `AcceptedStays` and
  `TornOrAccepted`, under `KeyAssumption`. The invariant says that the only pair is
  the first one (`OnePair`), what is on disk at each place of the generation
  (`Written`), that a process which was accepted has both files (`Established`)
  and that without an interrupted generation there are both or none (`Whole`).
  `AcceptedStays` is about the files, which no error and no crash touches any
  more, and about the runs that can read them; a run that could not, and ignored it,
  is not accepted (`MCKeyStore_unread.cfg`), which is also the exception in
  `TornOrAccepted`.

All invariants that the passing runs check are proved. Only model-checked are
the liveness properties: `StoppedNodeForgotten`, `UploadEnds`,
`OrphansCollected`, `ExpiredForgotten`, `RunningNodeFound`, `ManifestsConverge`,
`DownloadEnds` and `CallsRecover` (TLAPS has no ENABLED, and so no fairness).
That nine growing sets with finite bounds can grow only finitely often is an
induction over their sizes, which stays informal.

## 6. What is not modelled, and the plan

Not modelled:

* ciphers, signature schemes, secret sharing, erasure coding and the Drand time
  lock: library code, here steps that succeed or fail;
* the explorer, the status and metrics endpoints and the CLI: they read, or send
  one request, and keep no state;
* `/chunk` over HTTP: no caller in the repository uses it (its GET expects the
  parameter `chunkId`, its other methods `id`), and it writes the same records as
  the gRPC service;
* generated gRPC code, charts, scripts, logging;
* gRPC calls that never return: `SaveChunk` and `GetChunk` have no deadline, and a
  peer that accepts a call and never answers blocks its caller. The fairness of
  section 4 excludes it.

Done so far, the most important behaviour first: `Heartbeat`, `Upload` and
`UploadPipeline` with the refinement, `FileLifecycle`, `BootstrapSync`; then the
delay of synchronisation in `FileLifecycle`, `Placement`, `Download`, `GrpcPool`,
`KeyStore`; then the proofs, the pipeline and synchronisation last. Next:

1. The arithmetic of `Placement`: with two nodes for five chunks one of them gets
   three (a pigeonhole argument), and from how many blocks on no node has to.
2. The history half of `BootstrapSync`: a manifest that no server holds any more
   and nobody carries stays forgotten.
3. Action properties of `FileLifecycle` and `Download`: what a restart, a cleanup
   and a search may never undo.
