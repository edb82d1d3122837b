--------------------------- MODULE FileLifecycle ---------------------------
(***************************************************************************)
(* A file from its upload to its end: Upload, and what the background      *)
(* workers and a user do to the file meanwhile and afterwards.             *)
(*                                                                         *)
(*   - CleanNodeDatabase on every storage node reads the chunks, decides   *)
(*     on each one (the file expired, or the chunk is older than OrphanAge *)
(*     and the bootstrap server did not show its manifest), and deletes    *)
(*     the chunks it decided against when it has seen them all;            *)
(*   - CleanBootstrapDatabase removes the manifest of an expired file;     *)
(*   - DeleteFile fetches the manifest, starts a deletion per chunk and    *)
(*     node without waiting for it, and deletes the manifest.              *)
(*                                                                         *)
(* Time is discrete and starts with the upload.  It stops at Horizon,      *)
(* which lies beyond every period of interest; the workers go on.  They    *)
(* start at any time (the code's ticker: once an hour).  A user deletes    *)
(* the file through the node that uploaded it.                             *)
(*                                                                         *)
(* With one bootstrap server (SyncLag = 0) everybody asks the same one.    *)
(* With several, a manifest is registered when one of them has it, and     *)
(* BootstrapSync brings it to the others within SyncLag: until then a      *)
(* lookup, at a server chosen at random, may find nothing.  A deletion or  *)
(* an expiry at one server may leave the manifest at the others.           *)
(***************************************************************************)
EXTENDS Upload

CONSTANTS
    OrphanAge,    \* a chunk older than this needs a manifest: 2 h
    Expiries,     \* what a user's release date and 7 days can come to
    MaxUpload,    \* how long an upload lasts at most
    SyncLag,      \* when a registered manifest has reached every server
    Horizon,      \* where the model stops counting time
    MaxRestarts,  \* how often storage nodes restart
    Outages       \* whether a node's lookup of a manifest can fail

ASSUME LifecycleAssumption ==
    /\ {OrphanAge, MaxUpload, SyncLag, Horizon, MaxRestarts} \subseteq Nat
    /\ Expiries \subseteq Nat
    /\ Outages \in BOOLEAN

VARIABLES
    clock,     \* time since the upload began
    created,   \* created[c]: CreatedAt of chunk c
    todo,      \* todo[n]: chunks that n's running cleanup has still to look at
    kill,      \* kill[n]: keysToDelete of n's running cleanup
    del,       \* the last request to delete the file
    restarts,  \* restarts of storage nodes so far
    expiry,    \* the file's ReleaseDate and 7 days
    spread     \* the manifest is at every server, if at any

lifeVars == <<clock, created, todo, kill, del, restarts, expiry, spread>>
allVars == <<vars, lifeVars>>

LifeTypeOK ==
    /\ TypeOK
    /\ clock \in 0..Horizon
    /\ created \in [Chunk -> 0..Horizon]
    /\ todo \in [Node -> SUBSET Chunk]
    /\ kill \in [Node -> SUBSET Chunk]
    /\ del \in {"none", "fetched", "ok", "failed"}
    /\ restarts \in 0..MaxRestarts
    /\ expiry \in Expiries
    /\ spread \in BOOLEAN

LifeInit ==
    /\ Init
    /\ clock = 0
    /\ created = [c \in Chunk |-> 0]
    /\ todo = [n \in Node |-> {}]
    /\ kill = [n \in Node |-> {}]
    /\ del = "none"
    /\ restarts = 0
    /\ expiry \in Expiries
    /\ spread = TRUE

----------------------------------------------------------------------------
(* The upload, in time.                                                    *)

Tick ==
    /\ phase # "idle"
    /\ clock < Horizon
    /\ phase = "saving" => clock < MaxUpload
    /\ registered /\ ~spread => clock < MaxUpload + SyncLag
    /\ clock' = clock + 1
    /\ UNCHANGED <<vars, created, todo, kill, del, restarts, expiry, spread>>

\* CreatedAt is read once per block, before its chunks are sent to uploadJobs
\* one by one: any time up to the one at which the chunk is sent.
Stamp ==
    \E t \in 0..clock :
        created' = [c \in Chunk |-> IF c \in emitted' \ emitted THEN t ELSE created[c]]

\* One server has the manifest first.
FirstServer ==
    spread' = IF registered' /\ ~registered THEN SyncLag = 0 ELSE spread

\* A crash takes a running DeleteFile handler with it.
AfterUploadStep ==
    /\ Stamp
    /\ FirstServer
    /\ del' = IF phase' = "crashed" /\ phase # "crashed" /\ del = "fetched"
              THEN "failed" ELSE del
    /\ UNCHANGED <<clock, todo, kill, restarts, expiry>>

\* The workers, also those that an aborted upload leaves behind, have their
\* work done by MaxUpload.
UploadInTime ==
    /\ UploadStep
    /\ clock > MaxUpload =>
        <<emitted, tried, dropped>>' = <<emitted, tried, dropped>>
    /\ AfterUploadStep

EndUpload == (Register \/ Fail \/ Abort) /\ AfterUploadStep

WireStep ==
    /\ RemoteStep
    /\ FirstServer
    /\ UNCHANGED <<clock, created, todo, kill, del, restarts, expiry>>

----------------------------------------------------------------------------
(* The cleanup of a storage node.                                          *)

Expired == clock > expiry

\* CreatedAt > 0 && now - CreatedAt > 7200
OverageEarly(c) == clock - created[c] >= OrphanAge
OverageNever(c) == created[c] - clock > OrphanAge
Overage(c) == clock - created[c] > OrphanAge

\* GetFileManifestFromServer: does the server that is asked have the manifest?
LookupAnswers == {registered} \cup (IF spread THEN {} ELSE {FALSE})

\* To the cleanup an error looks like a manifest that is not there.
ManifestShown == LookupAnswers \cup (IF Outages THEN {FALSE} ELSE {})

\* The view of the database that IterateAndProcess walks through.
GcStart(n) ==
    /\ todo[n] = {} /\ kill[n] = {}
    /\ todo' = [todo EXCEPT ![n] = store[n]]
    /\ UNCHANGED <<vars, clock, created, kill, del, restarts, expiry, spread>>

\* What the cleanup makes of a chunk and of the manifest it was shown.
Condemned(c, shown) == Expired \/ (Overage(c) /\ ~shown)

GcExamine(n, c) ==
    /\ c \in todo[n]
    /\ todo' = [todo EXCEPT ![n] = @ \ {c}]
    /\ \E shown \in ManifestShown :
        kill' = IF Condemned(c, shown) THEN [kill EXCEPT ![n] = @ \cup {c}] ELSE kill
    /\ UNCHANGED <<vars, clock, created, del, restarts, expiry, spread>>

GcDelete(n, c) ==
    /\ todo[n] = {}
    /\ c \in kill[n]
    /\ kill' = [kill EXCEPT ![n] = @ \ {c}]
    /\ store' = [store EXCEPT ![n] = @ \ {c}]
    /\ UNCHANGED <<uploadVars, late, posted, registered, dels, clock, created,
                   todo, del, restarts, expiry, spread>>

\* The process of a storage node restarts: its database stays, the lists of
\* its cleanup are lost.
RestartNode(n) ==
    /\ restarts < MaxRestarts
    /\ restarts' = restarts + 1
    /\ todo' = [todo EXCEPT ![n] = {}]
    /\ kill' = [kill EXCEPT ![n] = {}]
    /\ UNCHANGED <<vars, clock, created, del, expiry, spread>>

Gc(n) ==
    \/ GcStart(n)
    \/ \E c \in Chunk : GcExamine(n, c) \/ GcDelete(n, c)

----------------------------------------------------------------------------
(* The bootstrap server and the user.                                      *)

ManifestDueSwapped == registered /\ ~Expired
ManifestDue == registered /\ Expired

\* One of several servers removes the manifest.
Removed == {FALSE} \cup (IF SyncLag = 0 THEN {} ELSE {registered})

CleanBootstrapDatabase ==
    /\ ManifestDue
    /\ registered' \in Removed
    /\ UNCHANGED <<uploadVars, store, late, posted, dels, lifeVars>>

\* The nodes that DeleteFile asks to delete a chunk: all that the manifest
\* lists, whether they have it or not.
Holders(c) == targets[c]

DeleteFetch ==
    /\ phase # "idle"
    /\ del # "fetched"
    /\ \/ /\ del' = "fetched"
          /\ \E shown \in LookupAnswers :
              dels' = IF shown
                      THEN dels \cup UNION {Holders(c) \X {c} : c \in Chunk}
                      ELSE dels
       \/ Outages /\ del' = "failed" /\ UNCHANGED dels
    /\ UNCHANGED <<uploadVars, store, late, posted, registered, clock, created,
                   todo, kill, restarts, expiry, spread>>

\* DeleteManifestOnBootstrap, answered with 200.
DeleteManifest ==
    /\ del = "fetched"
    /\ del' = "ok"
    /\ registered' \in Removed
    /\ UNCHANGED <<uploadVars, store, late, posted, dels, clock, created, todo,
                   kill, restarts, expiry, spread>>

\* The request or its answer is lost.
DeleteManifestFails ==
    /\ del = "fetched"
    /\ del' = "failed"
    /\ registered' \in {registered, FALSE}
    /\ UNCHANGED <<uploadVars, store, late, posted, dels, clock, created, todo,
                   kill, restarts, expiry, spread>>

\* Synchronisation has reached the last server.
SyncManifest ==
    /\ registered /\ ~spread
    /\ spread' = TRUE
    /\ UNCHANGED <<vars, clock, created, todo, kill, del, restarts, expiry>>

LifeNext ==
    \/ Tick
    \/ SyncManifest
    \/ UploadInTime
    \/ WireStep
    \/ \E n \in Node : Gc(n) \/ RestartNode(n)
    \/ CleanBootstrapDatabase
    \/ DeleteFetch \/ DeleteManifest \/ DeleteManifestFails

LifeSpec == LifeInit /\ [][LifeNext]_allVars

\* Time goes on, an upload ends (UploadPipeline: UploadEnds), and the
\* background workers keep running.  Nothing is assumed of what is on the
\* wire, of crashes or of the user.
FairLifeSpec ==
    /\ LifeSpec
    /\ WF_allVars(Tick)
    /\ WF_allVars(SyncManifest)
    /\ WF_allVars(EndUpload)
    /\ WF_allVars(CleanBootstrapDatabase)
    /\ \A n \in Node : WF_allVars(Gc(n))

----------------------------------------------------------------------------
(* Properties.                                                             *)

\* Until it expires, a completed file that nobody asked to delete keeps its
\* manifest and its chunks: the cleanup of a node, however its lookups and
\* deletions interleave with the upload and with the way of the manifest to
\* the servers, takes nothing of it.
Durable ==
    (status = "completed" /\ del = "none" /\ ~Expired) =>
        /\ registered
        /\ \A c \in Chunk \ dropped : Acked(c) /\ c \in store[acked[c]]

\* Chunks without a manifest are collected from every node, whoever left
\* them there: a rollback that failed, a save whose answer was lost or that
\* came late, a crash, a deletion that did not reach the node.
OrphansCollected ==
    <>[](~registered) => <>[](\A n \in Node : store[n] = {})

\* Seven days after its release nothing of a file is left, nor comes back,
\* though saves and the manifest itself may arrive after the first cleanups.
ExpiredForgotten ==
    <>Expired => <>[](~registered /\ \A n \in Node : store[n] = {})

\* swagger-node-api.yaml, 200 of /delete: "File and associated chunks
\* successfully deleted from the network".
DeleteIsComplete ==
    (del = "ok" /\ dels = {}) => \A n \in Node : store[n] = {}
=============================================================================
