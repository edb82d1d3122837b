------------------------------- MODULE Upload -------------------------------
(***************************************************************************)
(* What the upload of one file promises, without its goroutines: the       *)
(* chunks of the file are emitted, each with the nodes chosen for it, and  *)
(* saved on one of these; when every chunk is settled the manifest is      *)
(* registered at the bootstrap server, and otherwise the saved chunks are  *)
(* rolled back.  UploadPipeline refines this module with the reader, the   *)
(* crypto workers and the upload workers of StreamAndUploadFile;           *)
(* FileLifecycle extends it with what happens to the file afterwards.      *)
(*                                                                         *)
(* A remote call that fails may have been handled, may not have been, or   *)
(* may still be handled later: the caller cannot tell.                     *)
(***************************************************************************)
EXTENDS Integers

CONSTANTS
    Node,     \* the storage nodes
    Chunk,    \* the chunks of the file (its shards, block by block)
    NoNode    \* "no node"

ASSUME NoNodeAssumption == NoNode \notin Node

VARIABLES
    phase,       \* where StreamAndUploadFile stands
    status,      \* the "upload_status" record that /upload/status returns
    emitted,     \* the chunks encrypted and handed to the upload workers
    targets,     \* targets[c]: the nodes chosen for c, as the manifest says
    tried,       \* tried[c]: those that SaveChunk was called on
    acked,       \* acked[c]: the node that acknowledged c (successfulUploads)
    dropped,     \* chunks skipped without an error: not marshalled or signed
    store,       \* store[n]: the chunks in n's database
    late,        \* <<c, n>>: a save that was given up and can still arrive
    posted,      \* a manifest whose sender gave up and that can still arrive
    registered,  \* the bootstrap server holds the manifest
    dels         \* <<n, c>>: RequestChunkDeletion goroutines under way

uploadVars == <<phase, status, emitted, targets, tried, acked, dropped>>
remoteVars == <<store, late, posted, registered, dels>>
vars == <<uploadVars, remoteVars>>

\* "secured" and "failed" are StreamAndUploadFile's ordinary returns;
\* "aborted" is its return on a read error, which leaves its workers running.
Phase == {"idle", "saving", "secured", "failed", "aborted", "crashed"}
Status == {"none", "processing", "completed", "error"}

TypeOK ==
    /\ phase \in Phase
    /\ status \in Status
    /\ emitted \subseteq Chunk
    /\ targets \in [Chunk -> SUBSET Node]
    /\ tried \in [Chunk -> SUBSET Node]
    /\ acked \in [Chunk -> Node \cup {NoNode}]
    /\ dropped \subseteq Chunk
    /\ store \in [Node -> SUBSET Chunk]
    /\ late \subseteq Chunk \X Node
    /\ posted \in BOOLEAN
    /\ registered \in BOOLEAN
    /\ dels \subseteq Node \X Chunk

Init ==
    /\ phase = "idle"
    /\ status = "none"
    /\ emitted = {}
    /\ targets = [c \in Chunk |-> {}]
    /\ tried = [c \in Chunk |-> {}]
    /\ acked = [c \in Chunk |-> NoNode]
    /\ dropped = {}
    /\ store = [n \in Node |-> {}]
    /\ late = {}
    /\ posted = FALSE
    /\ registered = FALSE
    /\ dels = {}

----------------------------------------------------------------------------
(* Saving the chunks.                                                      *)

Working == phase \in {"saving", "aborted"}
Acked(c) == acked[c] # NoNode
Pending(c) == c \in emitted \ dropped /\ ~Acked(c)

\* PutFile: the status is stored and StreamAndUploadFile starts.
PutFile ==
    /\ phase = "idle"
    /\ phase' = "saving"
    /\ status' = "processing"
    /\ UNCHANGED <<emitted, targets, tried, acked, dropped, remoteVars>>

\* A crypto worker has a shard ready and has picked its nodes.
EmitChunk(c, S) ==
    /\ Working
    /\ c \notin emitted
    /\ emitted' = emitted \cup {c}
    /\ targets' = [targets EXCEPT ![c] = S]
    /\ UNCHANGED <<phase, status, tried, acked, dropped, remoteVars>>

\* json.Marshal or SignMessage fails: the worker goes on to its next job.
DropChunk(c) ==
    /\ Working
    /\ Pending(c)
    /\ tried[c] = {}
    /\ dropped' = dropped \cup {c}
    /\ UNCHANGED <<phase, status, emitted, targets, tried, acked, remoteVars>>

Try(c, n) ==
    /\ Working
    /\ Pending(c)
    /\ n \in targets[c] \ tried[c]
    /\ tried' = [tried EXCEPT ![c] = @ \cup {n}]

\* The node stores the chunk and says so.
SaveChunk(c, n) ==
    /\ Try(c, n)
    /\ store' = [store EXCEPT ![n] = @ \cup {c}]
    /\ acked' = [acked EXCEPT ![c] = n]
    /\ UNCHANGED <<phase, status, emitted, targets, dropped, late, posted,
                   registered, dels>>

\* No connection, or SaveChunk returns an error.
SaveFails(c, n) ==
    /\ Try(c, n)
    /\ \/ UNCHANGED <<store, late>>
       \/ store' = [store EXCEPT ![n] = @ \cup {c}] /\ UNCHANGED late
       \/ late' = late \cup {<<c, n>>} /\ UNCHANGED store
    /\ UNCHANGED <<phase, status, emitted, targets, acked, dropped, posted,
                   registered, dels>>

----------------------------------------------------------------------------
(* The end of the upload.                                                  *)

\* go RequestChunkDeletion(acked[c], c) for every acknowledged chunk.
RollbackAll == dels' = dels \cup {<<acked[c], c>> : c \in Chunk}
Rollback == dels' = dels \cup {<<acked[c], c>> : c \in {d \in Chunk : Acked(d)}}

\* Every job reached its end without an error.
AllSettled == \A c \in Chunk : c \in emitted /\ ~Pending(c)

\* UploadFileManifest succeeds.
Register ==
    /\ phase = "saving"
    /\ AllSettled
    /\ phase' = "secured"
    /\ registered' = TRUE
    /\ UNCHANGED <<status, emitted, targets, tried, acked, dropped, store, late,
                   posted, dels>>

\* The nodes, the Drand round, a worker or the manifest failed.
Fail ==
    /\ phase = "saving"
    /\ phase' = "failed"
    /\ Rollback
    /\ posted' \in {FALSE, AllSettled}
    /\ UNCHANGED <<status, emitted, targets, tried, acked, dropped, store, late,
                   registered>>

\* The file cannot be read to its end: no rollback, the workers go on.
Abort ==
    /\ phase = "saving"
    /\ phase' = "aborted"
    /\ UNCHANGED <<status, emitted, targets, tried, acked, dropped, remoteVars>>

\* PutFile's goroutine stores the outcome.
SaveStatus ==
    /\ phase \in {"secured", "failed", "aborted"}
    /\ status = "processing"
    /\ status' = IF phase = "secured" THEN "completed" ELSE "error"
    /\ UNCHANGED <<phase, emitted, targets, tried, acked, dropped, remoteVars>>

\* The uploading process ends; its goroutines are gone, its records stay.
Crash ==
    /\ phase \notin {"idle", "crashed"}
    /\ phase' = "crashed"
    /\ dels' = {}
    /\ UNCHANGED <<status, emitted, targets, tried, acked, dropped, store, late,
                   posted, registered>>

----------------------------------------------------------------------------
(* What is still on the wire.                                              *)

\* NodeServer.SaveChunk, for a call that was given up.
LateSave(c, n) ==
    /\ <<c, n>> \in late
    /\ late' = late \ {<<c, n>>}
    /\ store' = [store EXCEPT ![n] = @ \cup {c}]
    /\ UNCHANGED <<uploadVars, posted, registered, dels>>

LateSaveLost(c, n) ==
    /\ <<c, n>> \in late
    /\ late' = late \ {<<c, n>>}
    /\ UNCHANGED <<uploadVars, store, posted, registered, dels>>

\* InsertFileManifest, for a request that was given up.
LateManifest ==
    /\ posted
    /\ posted' = FALSE
    /\ registered' \in {registered, TRUE}
    /\ UNCHANGED <<uploadVars, store, late, dels>>

\* NodeServer.DeleteChunk, called by RequestChunkDeletion.
DeleteChunk(n, c) ==
    /\ <<n, c>> \in dels
    /\ dels' = dels \ {<<n, c>>}
    /\ store' = [store EXCEPT ![n] = @ \ {c}]
    /\ UNCHANGED <<uploadVars, late, posted, registered>>

\* The deletion fails; nobody looks at its error.
DeleteChunkFails(n, c) ==
    /\ <<n, c>> \in dels
    /\ dels' = dels \ {<<n, c>>}
    /\ UNCHANGED <<uploadVars, store, late, posted, registered>>

UploadStep ==
    \/ PutFile
    \/ \E c \in Chunk, S \in SUBSET Node : EmitChunk(c, S)
    \/ \E c \in Chunk : DropChunk(c)
    \/ \E c \in Chunk, n \in Node : SaveChunk(c, n) \/ SaveFails(c, n)
    \/ Register \/ Fail \/ Abort \/ SaveStatus \/ Crash

RemoteStep ==
    \/ \E c \in Chunk, n \in Node : LateSave(c, n) \/ LateSaveLost(c, n)
    \/ LateManifest
    \/ \E c \in Chunk, n \in Node : DeleteChunk(n, c) \/ DeleteChunkFails(n, c)

Next == UploadStep \/ RemoteStep

Spec == Init /\ [][Next]_vars

----------------------------------------------------------------------------
(* Properties.                                                             *)

\* A file whose status is "completed" has its manifest registered, and each
\* of its chunks that was not skipped is stored on the node that
\* acknowledged it: no rollback, late save or crash ever undoes it.
CompletedIsStored ==
    status = "completed" =>
        /\ registered
        /\ \A c \in Chunk \ dropped : Acked(c) /\ c \in store[acked[c]]

\* "Manifest upload failed" is what the uploader says, rolls back and reports
\* as an error when the answer to its manifest is lost or late: the manifest
\* can be registered all the same, for chunks that are being deleted.
ErrorLeavesNoManifest == status = "error" => ~registered
=============================================================================
