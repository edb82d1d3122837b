------------------------------ MODULE Download ------------------------------
(***************************************************************************)
(* GetFile and StreamReconstruct: a node fetches the manifest of a file    *)
(* that was placed by Placement, asks the nodes of each chunk until it has *)
(* DataShards chunks of a block, has the block's key opened by the Drand   *)
(* beacon, and writes the block to its client, block after block.          *)
(*                                                                         *)
(* Meanwhile nodes stop answering and come back, lose chunks (their        *)
(* cleanup, a deletion), the manifest spreads to the other servers, and    *)
(* the beacon answers or not: before the release time it never does.       *)
(***************************************************************************)
EXTENDS Placement

VARIABLES
    phase,   \* where GetFile stands
    answer,  \* what its client got: 200, 500, or a connection that was reset
    blk,     \* the block that is being collected
    shard,   \* the chunk of it that is being asked for
    asked,   \* the nodes that were asked for this chunk
    got,     \* the shards of the block received so far
    sent,    \* blocks written to the client
    beacon,  \* the beacon opens the keys of this file now
    steady,  \* it did so at every moment since the request
    stable   \* <<c, n>>: n had c and answered at every moment since the request

readVars == <<phase, answer, blk, shard, asked, got, sent>>
downloadVars == <<placeVars, readVars, beacon, steady, stable>>

Answers == {"none", "ok", "error", "reset", "lost"}

DownloadTypeOK ==
    /\ PlaceTypeOK
    /\ phase \in {"idle", "network", "collect", "open", "done"}
    /\ answer \in Answers
    /\ blk \in 0..Blocks
    /\ shard \in 0..TotalShards + 1
    /\ asked \subseteq Node
    /\ got \subseteq Shard
    /\ sent \in 0..Blocks
    /\ beacon \in BOOLEAN
    /\ steady \in BOOLEAN
    /\ stable \subseteq Chunk \X Node

DownloadInit ==
    /\ PlaceInit
    /\ phase = "idle"
    /\ answer = "none"
    /\ blk = 0
    /\ shard = 0
    /\ asked = {}
    /\ got = {}
    /\ sent = 0
    /\ beacon = FALSE
    /\ steady = FALSE
    /\ stable = {}

----------------------------------------------------------------------------
(* The world around the reader.                                            *)

\* NodeServer.GetChunk finds the chunk and the call gets through.
Served(stores, answering) ==
    {call \in Chunk \X Node :
        LET c == call[1] n == call[2]
        IN  n \in targets[c] /\ n \in answering /\ c \in stores[n]}

\* What was served all the time is still served afterwards.
KeepStable == stable' = stable \cap Served(store', up')

\* Nodes and chunks that go before the request might as well go right after
\* it, before the first call.
Reading == phase \notin {"idle", "done"}

Turn(n) ==
    /\ Reading
    /\ \E c \in Chunk : n \in targets[c]
    /\ up' = IF n \in up THEN up \ {n} ELSE up \cup {n}
    /\ UNCHANGED <<drawVars, store, manifest, readVars, beacon, steady>>
    /\ KeepStable

LoseChunk(n, c) ==
    /\ Reading
    /\ c \in store[n]
    /\ store' = [store EXCEPT ![n] = @ \ {c}]
    /\ UNCHANGED <<drawVars, up, manifest, readVars, beacon, steady>>
    /\ KeepStable

TurnBeacon ==
    /\ manifest # {} /\ phase # "done"
    /\ beacon' = ~beacon
    /\ steady' = (steady /\ beacon')
    /\ UNCHANGED <<placeVars, readVars, stable>>

SyncManifest(s) ==
    /\ manifest # {} /\ phase = "idle"
    /\ s \notin manifest
    /\ manifest' = manifest \cup {s}
    /\ UNCHANGED <<drawVars, up, store, readVars, beacon, steady, stable>>

Place == PlaceNext /\ UNCHANGED <<readVars, beacon, steady, stable>>

----------------------------------------------------------------------------
(* GetFile.                                                                *)

\* The handler returns.  Only the error of the manifest request sets a
\* status; after it net/http answers 200.
Return(a) ==
    /\ phase' = "done"
    /\ answer' = a
    /\ UNCHANGED <<blk, shard, asked, got, sent>>

\* GetFileManifestFromServer and DownloadFileManifest of server s.  A server
\* without the manifest answers 200 with nothing, which decodes to nil.
FetchManifest(s) ==
    /\ phase = "idle"
    /\ manifest # {}
    /\ IF s \in manifest
       THEN /\ phase' = "network"
            /\ stable' = Served(store, up)
            /\ steady' = beacon
            /\ UNCHANGED <<answer, blk, shard, asked, got, sent>>
       ELSE /\ Return("reset")
            /\ UNCHANGED <<steady, stable>>
    /\ UNCHANGED <<placeVars, beacon>>

FetchFails ==
    /\ phase = "idle"
    /\ manifest # {}
    /\ Return("error")
    /\ UNCHANGED <<placeVars, beacon, steady, stable>>

StartBlock(b) ==
    /\ phase' = "collect"
    /\ blk' = b
    /\ shard' = 1
    /\ asked' = {}
    /\ got' = {}

\* tlock_http.NewNetwork asks a relay of the beacon.
OpenNetwork ==
    /\ phase = "network"
    /\ \/ StartBlock(1) /\ UNCHANGED <<answer, sent>>
       \/ ~beacon /\ Return("ok")
    /\ UNCHANGED <<placeVars, beacon, steady, stable>>

Enough == Cardinality(got) >= DataShards
Searching == phase = "collect" /\ shard \in Shard /\ ~Enough

\* The next node of a chunk that answered, and of one that did not.
AfterHit(n) == shard' = shard + 1 /\ asked' = {} /\ got' = got \cup {shard}
AfterMissNextChunk(n) == shard' = shard + 1 /\ asked' = {} /\ UNCHANGED got
AfterMissAgain(n) == UNCHANGED <<shard, asked, got>>
AfterMiss(n) ==
    /\ IF asked \cup {n} = targets[<<blk, shard>>]
       THEN shard' = shard + 1 /\ asked' = {}
       ELSE shard' = shard /\ asked' = asked \cup {n}
    /\ UNCHANGED got

RequestChunk(n) ==
    /\ Searching
    /\ n \in targets[<<blk, shard>>] \ asked
    /\ IF <<<<blk, shard>>, n>> \in Served(store, up)
       THEN AfterHit(n)
       ELSE AfterMiss(n)
    /\ UNCHANGED <<placeVars, phase, answer, blk, sent, beacon, steady, stable>>

\* enc.Reconstruct, enc.Join and shamir.Combine, if there are shards enough.
JoinBlock ==
    /\ phase = "collect"
    /\ ~Searching
    /\ IF Enough
       THEN phase' = "open" /\ UNCHANGED <<answer, blk, shard, asked, got, sent>>
       ELSE Return("ok")
    /\ UNCHANGED <<placeVars, beacon, steady, stable>>

MoreBlocksOrOne == blk <= Blocks
MoreBlocks == blk < Blocks

\* tlockClient.Decrypt, DecryptGCM and w.Write.
WriteBlock ==
    /\ phase = "open"
    /\ IF beacon
       THEN /\ sent' = sent + 1
            /\ IF MoreBlocks
               THEN StartBlock(blk + 1) /\ UNCHANGED answer
               ELSE /\ phase' = "done" /\ answer' = "ok"
                    /\ UNCHANGED <<blk, shard, asked, got>>
       ELSE Return("ok")
    /\ UNCHANGED <<placeVars, beacon, steady, stable>>

\* The client went away: w.Write fails.
ClientLost ==
    /\ phase = "open"
    /\ Return("lost")
    /\ UNCHANGED <<placeVars, beacon, steady, stable>>

Read ==
    \/ OpenNetwork
    \/ \E n \in Node : RequestChunk(n)
    \/ JoinBlock
    \/ WriteBlock

DownloadNext ==
    \/ Place
    \/ \E n \in Node : Turn(n) \/ \E c \in Chunk : LoseChunk(n, c)
    \/ TurnBeacon
    \/ \E s \in Server : SyncManifest(s) \/ FetchManifest(s)
    \/ FetchFails
    \/ Read
    \/ ClientLost

DownloadSpec == DownloadInit /\ [][DownloadNext]_downloadVars

\* The handler runs, and each of its calls returns.
FairDownloadSpec == DownloadSpec /\ WF_downloadVars(Read)

----------------------------------------------------------------------------
(* Properties.                                                             *)

\* The chunks of block b that one of their nodes had, and answered for, at
\* every moment since the request.
StableShards(b) == {s \in Shard : \E n \in Node : <<<<b, s>>, n>> \in stable}

\* If DataShards chunks of each block stay where they are, on nodes that keep
\* answering, and the beacon opens the keys, a client that stays gets the
\* whole file, whatever happens to the other chunks and nodes meanwhile.
DownloadDelivers ==
    /\ phase = "done" /\ answer = "ok"
    /\ steady
    /\ \A b \in Block : Cardinality(StableShards(b)) >= DataShards
    => sent = Blocks

\* A download ends, though nodes come and go while it tries them.
DownloadEnds == (phase = "network") ~> (phase = "done")

\* swagger-node-api.yaml, /get, 200: "Binary stream of the reconstructed
\* file"; 403: "Forbidden - Release time not yet reached".
OkIsWhole == answer = "ok" => sent = Blocks

\* A client of a registered file gets a status.
NoReset == answer # "reset"
=============================================================================
