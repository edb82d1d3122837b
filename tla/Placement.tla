----------------------------- MODULE Placement -----------------------------
(***************************************************************************)
(* Where the chunks of a file go.  The bootstrap server answers the        *)
(* uploader with the first nodes of its registry, as many as one third     *)
(* (1 / NodesPerChunk) of the chunks; the crypto workers draw the target   *)
(* nodes of each chunk from a copy of that answer; a chunk is saved on one *)
(* of its targets, and the manifest is registered when all are saved.      *)
(*                                                                         *)
(* Upload has the errors of these steps.  Here nodes answer or do not      *)
(* answer, and a chunk that no target accepts ends the upload.             *)
(***************************************************************************)
EXTENDS Integers, FiniteSets

CONSTANTS
    Node,           \* the nodes in the registry of the server that is asked,
                    \* as numbers in the order of their keys
    Server,         \* the bootstrap servers
    Blocks,         \* blocks of the file
    TotalShards,    \* chunks of a block
    DataShards,     \* chunks that are enough to rebuild a block
    NodesPerChunk,  \* ChunksTolerance of the uploader
    Worker          \* the crypto workers

ASSUME PlacementAssumption ==
    /\ Node \subseteq Nat /\ IsFiniteSet(Node)
    /\ {Blocks, TotalShards, DataShards, NodesPerChunk} \subseteq Nat \ {0}
    /\ DataShards <= TotalShards

Block == 1..Blocks
Shard == 1..TotalShards
Chunk == Block \X Shard

VARIABLES
    nodes,     \* the answer of the server, a list; <<>> before it
    job,       \* job[w]: the chunk that worker w draws nodes for, <<0, 0>> if none
    list,      \* list[w]: w's copy of nodes
    left,      \* left[w]: the length of the slice that is left of it
    selected,  \* selected[w]: the nodes drawn so far
    targets,   \* targets[c]: the nodes of c in the manifest
    up,        \* the nodes that answer calls
    store,     \* store[n]: the chunks in n's database
    manifest   \* the servers that hold the manifest

drawVars == <<nodes, job, list, left, selected, targets>>
placeVars == <<drawVars, up, store, manifest>>

NoJob == <<0, 0>>
Least(a, b) == IF a < b THEN a ELSE b
Lists == UNION {[1..k -> Node] : k \in 0..Cardinality(Node)}

PlaceTypeOK ==
    /\ nodes \in Lists
    /\ job \in [Worker -> Chunk \cup {NoJob}]
    /\ list \in [Worker -> Lists]
    /\ left \in [Worker -> 0..Cardinality(Node)]
    /\ selected \in [Worker -> SUBSET Node]
    /\ targets \in [Chunk -> SUBSET Node]
    /\ up \subseteq Node
    /\ store \in [Node -> SUBSET Chunk]
    /\ manifest \subseteq Server

PlaceInit ==
    /\ nodes = <<>>
    /\ job = [w \in Worker |-> NoJob]
    /\ list = [w \in Worker |-> <<>>]
    /\ left = [w \in Worker |-> 0]
    /\ selected = [w \in Worker |-> {}]
    /\ targets = [c \in Chunk |-> {}]
    /\ up = Node
    /\ store = [n \in Node |-> {}]
    /\ manifest = {}

----------------------------------------------------------------------------
(* The answer of the bootstrap server.                                     *)

Answered == DOMAIN nodes # {}

\* int(math.Ceil(TotalChunks / NodesPerChunk))
NodesToPickup == (Blocks * TotalShards + NodesPerChunk - 1) \div NodesPerChunk
Answer == Least(Cardinality(Node), NodesToPickup)

\* The first k keys of the registry.
FirstKeys(k) ==
    {s \in [1..k -> Node] :
        /\ \A i, j \in 1..k : i < j => s[i] < s[j]
        /\ \A n \in Node : n \in {s[i] : i \in 1..k} \/ \A i \in 1..k : s[i] < n}

RequestNodes ==
    /\ ~Answered
    /\ nodes' \in FirstKeys(Answer)
    /\ UNCHANGED <<job, list, left, selected, targets, up, store,
                   manifest>>

----------------------------------------------------------------------------
(* pickRandomItems, by each crypto worker for each chunk.                  *)

Wanted == Least(NodesPerChunk, Cardinality(DOMAIN nodes))
Taken(c) == targets[c] # {} \/ \E w \in Worker : job[w] = c

\* A block is in the hands of one worker, which takes its shards in order.
OwnBlock(w, c) ==
    /\ \A s \in Shard : s < c[2] => targets[<<c[1], s>>] # {}
    /\ \A v \in Worker \ {w} : job[v] = NoJob \/ job[v][1] # c[1]

\* copy(list, originalList)
BeginPick(w, c) ==
    /\ Answered
    /\ job[w] = NoJob
    /\ ~Taken(c)
    /\ OwnBlock(w, c)
    /\ job' = [job EXCEPT ![w] = c]
    /\ list' = [list EXCEPT ![w] = nodes]
    /\ left' = [left EXCEPT ![w] = Cardinality(DOMAIN nodes)]
    /\ selected' = [selected EXCEPT ![w] = {}]
    /\ UNCHANGED <<nodes, targets, up, store, manifest>>

\* list[randomIndex] = list[len(list)-1]
AfterSwapShared(w, i) == [v \in Worker |-> [list[v] EXCEPT ![i] = list[w][left[w]]]]
AfterSwap(w, i) == [list EXCEPT ![w][i] = list[w][left[w]]]

PickOne(w, i) ==
    /\ job[w] # NoJob
    /\ Cardinality(DOMAIN nodes) - left[w] < Wanted
    /\ i <= left[w]
    /\ selected' = [selected EXCEPT ![w] = @ \cup {list[w][i]}]
    /\ list' = AfterSwap(w, i)
    /\ left' = [left EXCEPT ![w] = @ - 1]
    /\ UNCHANGED <<nodes, job, targets, up, store, manifest>>

\* The chunk goes into the manifest and to the upload workers.
EndPick(w) ==
    /\ job[w] # NoJob
    /\ Cardinality(DOMAIN nodes) - left[w] = Wanted
    /\ targets' = [targets EXCEPT ![job[w]] = selected[w]]
    /\ job' = [job EXCEPT ![w] = NoJob]
    /\ list' = [list EXCEPT ![w] = <<>>]
    /\ left' = [left EXCEPT ![w] = 0]
    /\ selected' = [selected EXCEPT ![w] = {}]
    /\ UNCHANGED <<nodes, up, store, manifest>>

----------------------------------------------------------------------------
(* Saving and registering.                                                 *)

Saved(c) == \E n \in Node : c \in store[n]

SaveChunk(c, n) ==
    /\ manifest = {}
    /\ n \in targets[c] \cap up
    /\ ~Saved(c)
    /\ store' = [store EXCEPT ![n] = @ \cup {c}]
    /\ UNCHANGED <<drawVars, up, manifest>>

InsertFileManifest(s) ==
    /\ manifest = {}
    /\ \A c \in Chunk : Saved(c)
    /\ manifest' = {s}
    /\ UNCHANGED <<drawVars, up, store>>

PlaceNext ==
    \/ RequestNodes
    \/ \E w \in Worker : \/ \E c \in Chunk : BeginPick(w, c)
                         \/ \E i \in 1..left[w] : PickOne(w, i)
                         \/ EndPick(w)
    \/ \E c \in Chunk, n \in Node : SaveChunk(c, n)
    \/ \E s \in Server : InsertFileManifest(s)

PlaceSpec == PlaceInit /\ [][PlaceNext]_placeVars

----------------------------------------------------------------------------
(* Properties.                                                             *)

\* The targets of a chunk are as many different nodes of the answer as the
\* tolerance asks for, or all of them: workers that draw at the same time
\* neither draw a node twice nor disturb each other's lists.
TargetsDistinct ==
    \A c \in Chunk : targets[c] # {} =>
        /\ Cardinality(targets[c]) = Wanted
        /\ targets[c] \subseteq {nodes[i] : i \in DOMAIN nodes}

\* README.md:80: "No single node holds enough information to reconstruct the
\* key or data" - not DataShards chunks of one block.
NoNodeSuffices ==
    \A n \in Node, b \in Block :
        Cardinality({s \in Shard : <<b, s>> \in store[n]}) < DataShards
=============================================================================
