--------------------------- MODULE BootstrapSync ---------------------------
(***************************************************************************)
(* The registries of several bootstrap servers: the active nodes and the   *)
(* file manifests, and the delta synchronisation between them.             *)
(*                                                                         *)
(* Every few seconds a server sends the digest of its keys to a random     *)
(* server (performSync).  The peer answers with the entries the sender     *)
(* lacks and the keys it lacks itself (SyncDigestHandler); the sender      *)
(* aligns its database with the answer and pushes what the peer asked for, *)
(* which the peer aligns with in a goroutine (SyncPushHandler).  Alignment *)
(* overwrites the records of nodes and adds missing manifests              *)
(* (ProcessAlignment).                                                     *)
(*                                                                         *)
(* Meanwhile a storage node subscribes at a random server at least every   *)
(* BeatEvery, clients insert and delete manifests at a random server, and  *)
(* each server removes its old records and expired manifests on its own.   *)
(*                                                                         *)
(* As in Heartbeat a record is its age; ages stop counting one above       *)
(* Limit, where all of them mean the same.  A cleanup is one step here:    *)
(* Heartbeat has its steps.                                                *)
(***************************************************************************)
EXTENDS Integers, FiniteSets

CONSTANTS
    Server,     \* the bootstrap servers
    Node,       \* the storage nodes
    File,       \* the files
    Limit,      \* a record older than this is removed: 2 min
    BeatEvery,  \* a running node subscribes at least this often
    SyncTime,   \* the HTTP client's timeout: how long a digest is under way
    SelfAware,  \* a server recognises its own address in the server list
    MaxPushes   \* pushes on the wire at a time

ASSUME SyncAssumption ==
    /\ {Limit, BeatEvery, SyncTime, MaxPushes} \subseteq Nat
    /\ BeatEvery <= Limit
    /\ SelfAware \in BOOLEAN

NoRecord == -1
Oldest == Limit + 1
Record == 0..Oldest \cup {NoRecord}

VARIABLES
    alive,      \* the storage nodes that run
    sinceBeat,  \* time since n's last subscription, at any server
    reg,        \* reg[s][n]: the age of n's record at s, or NoRecord
    manifests,  \* manifests[s]: the files whose manifest s holds
    sync,       \* sync[s]: the synchronisation that s has started
    pushes,     \* pushes on the wire, or in a goroutine of the receiver
    inserted,   \* the files whose manifest was ever inserted
    deleted,    \* those whose deletion a server has confirmed
    expired     \* those past their release date and 7 days

vars == <<alive, sinceBeat, reg, manifests, sync, pushes, inserted, deleted,
          expired>>
fileVars == <<inserted, deleted, expired>>
nodeVars == <<alive, sinceBeat>>

Nothing == [nodes |-> [n \in Node |-> NoRecord], files |-> {}]
Idle == [pc |-> "idle", time |-> 0, nodeKeys |-> {}, fileKeys |-> {},
         answer |-> Nothing]

Payload == [nodes : [Node -> Record], files : SUBSET File]

TypeOK ==
    /\ alive \subseteq Node
    /\ sinceBeat \in [Node -> 0..Oldest]
    /\ reg \in [Server -> [Node -> Record]]
    /\ manifests \in [Server -> SUBSET File]
    /\ sync \in [Server -> {Idle} \cup
                  [pc : {"asked", "answered", "push"}, peer : Server,
                   time : 0..SyncTime, nodeKeys : SUBSET Node,
                   fileKeys : SUBSET File, answer : Payload]]
    /\ \A m \in pushes : m \in [to : Server, payload : Payload]
    /\ inserted \subseteq File
    /\ deleted \subseteq inserted
    /\ expired \subseteq inserted

Init ==
    /\ alive = Node
    /\ sinceBeat = [n \in Node |-> 0]
    /\ reg = [s \in Server |-> [n \in Node |-> NoRecord]]
    /\ manifests = [s \in Server |-> {}]
    /\ sync = [s \in Server |-> Idle]
    /\ pushes = {}
    /\ inserted = {}
    /\ deleted = {}
    /\ expired = {}

----------------------------------------------------------------------------
(* Storage nodes and clients.                                              *)

\* SubscribeNode picks the server, SubsribeNode there writes the record.
Subscribe(n, s) ==
    /\ n \in alive
    /\ reg' = [reg EXCEPT ![s][n] = 0]
    /\ sinceBeat' = [sinceBeat EXCEPT ![n] = 0]
    /\ UNCHANGED <<alive, manifests, sync, pushes, fileVars>>

NodeStops(n) ==
    /\ n \in alive
    /\ alive' = alive \ {n}
    /\ UNCHANGED <<sinceBeat, reg, manifests, sync, pushes, fileVars>>

NodeStarts(n, s) ==
    /\ n \notin alive
    /\ alive' = alive \cup {n}
    /\ sinceBeat' = [sinceBeat EXCEPT ![n] = 0]
    /\ reg' = [reg EXCEPT ![s][n] = 0]
    /\ UNCHANGED <<manifests, sync, pushes, fileVars>>

\* A file is uploaded once: its id is a new UUID.
InsertFileManifest(s, f) ==
    /\ f \notin inserted
    /\ inserted' = inserted \cup {f}
    /\ manifests' = [manifests EXCEPT ![s] = @ \cup {f}]
    /\ UNCHANGED <<nodeVars, reg, sync, pushes, deleted, expired>>

\* The handler answers 200 whether it had the manifest or not.
DeleteFileManifest(s, f) ==
    /\ f \in inserted
    /\ deleted' = deleted \cup {f}
    /\ manifests' = [manifests EXCEPT ![s] = @ \ {f}]
    /\ UNCHANGED <<nodeVars, reg, sync, pushes, inserted, expired>>

----------------------------------------------------------------------------
(* Time and the cleanups.                                                  *)

Older(a) == IF a = NoRecord \/ a = Oldest THEN a ELSE a + 1
OlderPayload(p) == [p EXCEPT !.nodes = [n \in Node |-> Older(p.nodes[n])]]

\* No digest outlasts the client's timeout.
MayLastForever(time) == TRUE
MayLast(time) == time < SyncTime

\* Records grow old in the databases and on the wire.
Tick ==
    /\ \A n \in alive : sinceBeat[n] < BeatEvery
    /\ \A s \in Server : sync[s] = Idle \/ MayLast(sync[s].time)
    /\ sinceBeat' = [n \in Node |-> Older(sinceBeat[n])]
    /\ reg' = [s \in Server |-> [n \in Node |-> Older(reg[s][n])]]
    /\ sync' = [s \in Server |->
                IF sync[s] = Idle THEN Idle
                ELSE [sync[s] EXCEPT !.time = @ + 1, !.answer = OlderPayload(@)]]
    /\ pushes' = {[m EXCEPT !.payload = OlderPayload(@)] : m \in pushes}
    /\ UNCHANGED <<alive, manifests, fileVars>>

Expire(f) ==
    /\ f \in inserted \ expired
    /\ expired' = expired \cup {f}
    /\ UNCHANGED <<nodeVars, reg, manifests, sync, pushes, inserted, deleted>>

Inactive(s) == {n \in Node : reg[s][n] > Limit}

CleanInactiveNodes(s) ==
    /\ Inactive(s) # {}
    /\ reg' = [reg EXCEPT ![s] =
                [n \in Node |-> IF n \in Inactive(s) THEN NoRecord ELSE @[n]]]
    /\ UNCHANGED <<nodeVars, manifests, sync, pushes, fileVars>>

CleanBootstrapDatabase(s) ==
    /\ manifests[s] \cap expired # {}
    /\ manifests' = [manifests EXCEPT ![s] = @ \ expired]
    /\ UNCHANGED <<nodeVars, reg, sync, pushes, fileVars>>

----------------------------------------------------------------------------
(* The synchronisation.                                                    *)

NodeKeys(s) == {n \in Node : reg[s][n] # NoRecord}

\* CompareKeys.
MissingInLocal(local, remote) == remote \ local
MissingInRemoteSwapped(local, remote) == remote \ local
MissingInRemote(local, remote) == local \ remote

\* GetData for each key: what s holds of them by now.
DataOf(s, nodeKeys, fileKeys) ==
    [nodes |-> [n \in Node |-> IF n \in nodeKeys THEN reg[s][n] ELSE NoRecord],
     files |-> fileKeys \cap manifests[s]]

\* ProcessAlignment at s.
AlignedNodeRestamped(a, b) == IF b = NoRecord THEN a ELSE 0
AlignedNode(a, b) == IF b = NoRecord THEN a ELSE b

ProcessAlignment(s, payload) ==
    /\ reg' = [reg EXCEPT ![s] =
                [n \in Node |-> AlignedNode(@[n], payload.nodes[n])]]
    /\ manifests' = [manifests EXCEPT ![s] = @ \cup payload.files]

\* performSync: the digest goes out.
StartSync(s, p) ==
    /\ sync[s] = Idle
    /\ SelfAware => s # p
    /\ sync' = [sync EXCEPT ![s] =
                [pc |-> "asked", peer |-> p, time |-> 0,
                 nodeKeys |-> NodeKeys(s), fileKeys |-> manifests[s],
                 answer |-> Nothing]]
    /\ UNCHANGED <<nodeVars, reg, manifests, pushes, fileVars>>

\* SyncDigestHandler at the peer.  From here on the keys are those asked for.
SyncDigest(s) ==
    /\ sync[s].pc = "asked"
    /\ LET p == sync[s].peer
           ours == sync[s].nodeKeys
           ourFiles == sync[s].fileKeys
       IN sync' = [sync EXCEPT ![s] =
            [pc |-> "answered", peer |-> p, time |-> sync[s].time,
             nodeKeys |-> MissingInLocal(NodeKeys(p), ours),
             fileKeys |-> MissingInLocal(manifests[p], ourFiles),
             answer |-> DataOf(p, MissingInRemote(NodeKeys(p), ours),
                                  MissingInRemote(manifests[p], ourFiles))]]
    /\ UNCHANGED <<nodeVars, reg, manifests, pushes, fileVars>>

\* The answer arrives: performSync aligns the database with it.
SyncAlign(s) ==
    /\ sync[s].pc = "answered"
    /\ ProcessAlignment(s, sync[s].answer)
    /\ sync' = [sync EXCEPT ![s] =
                IF @.nodeKeys = {} /\ @.fileKeys = {}
                THEN Idle
                ELSE [@ EXCEPT !.pc = "push", !.time = 0, !.answer = Nothing]]
    /\ UNCHANGED <<nodeVars, pushes, fileVars>>

\* pushMissingData.
PushMissingData(s) ==
    /\ sync[s].pc = "push"
    /\ Cardinality(pushes) < MaxPushes
    /\ pushes' = pushes \cup
        {[to |-> sync[s].peer,
          payload |-> DataOf(s, sync[s].nodeKeys, sync[s].fileKeys)]}
    /\ sync' = [sync EXCEPT ![s] = Idle]
    /\ UNCHANGED <<nodeVars, reg, manifests, fileVars>>

\* The peer cannot be reached, an answer is lost, the server restarts.
LoseSync(s) ==
    /\ sync[s] # Idle
    /\ sync' = [sync EXCEPT ![s] = Idle]
    /\ UNCHANGED <<nodeVars, reg, manifests, pushes, fileVars>>

\* SyncPushHandler: "go ProcessAlignment", at any later time: the timeout of
\* the sender does not end the goroutine.
SyncPush(m) ==
    /\ m \in pushes
    /\ pushes' = pushes \ {m}
    /\ ProcessAlignment(m.to, m.payload)
    /\ UNCHANGED <<nodeVars, sync, fileVars>>

LosePush(m) ==
    /\ m \in pushes
    /\ pushes' = pushes \ {m}
    /\ UNCHANGED <<nodeVars, reg, manifests, sync, fileVars>>

SyncStep(s) ==
    \/ \E p \in Server : StartSync(s, p)
    \/ SyncDigest(s) \/ SyncAlign(s) \/ PushMissingData(s) \/ LoseSync(s)

Next ==
    \/ \E n \in Node, s \in Server : Subscribe(n, s) \/ NodeStarts(n, s)
    \/ \E n \in Node : NodeStops(n)
    \/ \E s \in Server, f \in File : InsertFileManifest(s, f) \/ DeleteFileManifest(s, f)
    \/ Tick
    \/ \E f \in File : Expire(f)
    \/ \E s \in Server : CleanInactiveNodes(s) \/ CleanBootstrapDatabase(s)
    \/ \E s \in Server : SyncStep(s)
    \/ \E m \in pushes : SyncPush(m) \/ LosePush(m)

Spec == Init /\ [][Next]_vars

\* Tickers fire, running nodes subscribe, requests end, every peer is picked
\* again and again, and the synchronisations with it are not lost every time.
FairSpec ==
    /\ Spec
    /\ WF_vars(Tick)
    /\ \A n \in Node : WF_vars(\E s \in Server : Subscribe(n, s))
    /\ WF_vars(\E m \in pushes : SyncPush(m) \/ LosePush(m))
    /\ \A s \in Server :
        /\ WF_vars(CleanInactiveNodes(s))
        /\ WF_vars(CleanBootstrapDatabase(s))
        /\ WF_vars(SyncDigest(s) \/ SyncAlign(s) \/ PushMissingData(s) \/ LoseSync(s))
        /\ \A p \in Server \ {s} :
            /\ SF_vars(StartSync(s, p))
            /\ SF_vars(sync[s].pc = "asked" /\ sync[s].peer = p /\ SyncDigest(s))
            /\ SF_vars(sync[s].pc = "answered" /\ sync[s].peer = p /\ SyncAlign(s))

----------------------------------------------------------------------------
(* Properties.                                                             *)

\* No record, in a database or on the wire, is fresher than the node's last
\* subscription: synchronisation never makes a node look more alive.
RecordsAreBeats ==
    \A n \in Node :
        LET Real(a) == a = NoRecord \/ a >= sinceBeat[n] IN
        /\ \A s \in Server : Real(reg[s][n]) /\ Real(sync[s].answer.nodes[n])
        /\ \A m \in pushes : Real(m.payload.nodes[n])

\* A manifest that is inserted at one server, and neither deleted nor
\* expired, comes to every server and stays there: no digest, answer or push,
\* lost or late, takes it away again.
ManifestsConverge ==
    \A f \in File, s \in Server :
        (f \in inserted) ~> [](f \in deleted \cup expired \/ f \in manifests[s])

\* A node that keeps running is again and again in every registry, though it
\* subscribes at one server at a time.
RunningNodeFound ==
    \A n \in Node, s \in Server :
        <>[](n \in alive) => []<>(reg[s][n] # NoRecord)

\* README: a node is purged when it sends no heartbeat for more than 2 min.
\* Synchronisation does not refresh the record of a node that the receiver
\* already lists, so a node that subscribes elsewhere grows old there.
PurgeOnlySilent ==
    [][\A s \in Server, n \in Node :
        (reg[s][n] # NoRecord /\ reg'[s][n] = NoRecord)
            => sinceBeat[n] > Limit]_vars

\* README: such a node is purged.  A server that has purged a dead node gets
\* its record back from one that has not, and the other way round.
DeadNodeForgotten ==
    \A n \in Node :
        <>[](n \notin alive) => <>[](\A s \in Server : reg[s][n] = NoRecord)

\* CleanBootstrapDatabase, "Retention policy: 7 days after release".
ExpiredManifestForgotten ==
    \A f \in File :
        <>[](f \in expired) => <>[](\A s \in Server : f \notin manifests[s])

\* swagger-node-api.yaml, /delete: "Removes the file manifest".  A manifest
\* that a server has deleted does not come back to a server without it.
DeletedStaysDeleted ==
    [][\A s \in Server, f \in deleted :
        f \notin manifests[s] => f \notin manifests'[s]]_vars
=============================================================================
