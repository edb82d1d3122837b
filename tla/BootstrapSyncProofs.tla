------------------------- MODULE BootstrapSyncProofs -------------------------
(* Proofs about BootstrapSync, for any servers, nodes and files and any     *)
(* delays: a record is never fresher than its node's last subscription,    *)
(* however requests, answers and pushes of the servers interleave.         *)
EXTENDS BootstrapSync, TLAPS

(* An age that node n's last subscription explains.                        *)
IsBeat(a, n) == a = NoRecord \/ a >= sinceBeat[n]

SyncRequest ==
    [pc : {"asked", "answered", "push"}, peer : Server, time : 0..SyncTime,
     nodeKeys : SUBSET Node, fileKeys : SUBSET File, answer : Payload]
PushRequest == [to : Server, payload : Payload]

IInv == TypeOK /\ RecordsAreBeats

----------------------------------------------------------------------------
(* Ages and payloads.                                                      *)

LEMMA Times == Limit \in Nat /\ SyncTime \in Nat /\ Oldest = Limit + 1 /\ NoRecord = -1
BY SyncAssumption DEF Oldest, NoRecord

LEMMA OlderAge ==
    /\ \A a \in Record : Older(a) \in Record /\ (Older(a) = NoRecord <=> a = NoRecord)
    /\ \A a \in 0..Oldest : Older(a) \in 0..Oldest
    /\ \A a \in 0..Oldest, b \in 0..Oldest : a >= b => Older(a) >= Older(b)
BY Times DEF Older, Record

LEMMA NothingType == Nothing \in Payload
BY Times DEF Nothing, Payload, Record

LEMMA OlderPayloadType ==
    ASSUME NEW p \in Payload
    PROVE  /\ OlderPayload(p) \in Payload
           /\ OlderPayload(p).nodes = [n \in Node |-> Older(p.nodes[n])]
BY OlderAge DEF OlderPayload, Payload

LEMMA DataOfType ==
    ASSUME TypeOK, NEW s \in Server, NEW nodeKeys, NEW fileKeys
    PROVE  /\ DataOf(s, nodeKeys, fileKeys) \in Payload
           /\ \A n \in Node : DataOf(s, nodeKeys, fileKeys).nodes[n] \in {NoRecord, reg[s][n]}
BY Times DEF DataOf, Payload, TypeOK, Record

LEMMA Requests ==
    ASSUME TypeOK, NEW s \in Server
    PROVE  /\ sync[s] # Idle => sync[s] \in SyncRequest
           /\ sync[s].pc # "idle" => sync[s] # Idle
           /\ sync[s].answer \in Payload
BY NothingType DEF TypeOK, SyncRequest, Idle

LEMMA PushRequests == TypeOK => \A m \in pushes : m \in PushRequest
BY DEF TypeOK, PushRequest

(* An alignment copies ages, it invents none.                              *)
LEMMA AlignmentTypes ==
    ASSUME TypeOK, NEW s \in Server, NEW p \in Payload, ProcessAlignment(s, p)
    PROVE  /\ reg' \in [Server -> [Node -> Record]]
           /\ manifests' \in [Server -> SUBSET File]
           /\ \A t \in Server, n \in Node : reg'[t][n] \in {reg[t][n], p.nodes[n]}
BY DEF ProcessAlignment, AlignedNode, TypeOK, Payload

LEMMA OlderRequest ==
    ASSUME NEW r \in SyncRequest, r.time < SyncTime,
           NEW q, q = [r EXCEPT !.time = @ + 1, !.answer = OlderPayload(@)]
    PROVE  q \in SyncRequest /\ q.answer = OlderPayload(r.answer)
<1>1. OlderPayload(r.answer) \in Payload
  BY OlderPayloadType DEF SyncRequest
<1>2. r.time + 1 \in 0..SyncTime
  BY Times DEF SyncRequest
<1> QED BY <1>1, <1>2 DEF SyncRequest

LEMMA AnsweredRequest ==
    ASSUME NEW r \in SyncRequest,
           NEW q, q = [r EXCEPT !.pc = "push", !.time = 0, !.answer = Nothing]
    PROVE  q \in SyncRequest
<1>1. 0 \in 0..SyncTime
  BY Times
<1> QED BY <1>1, NothingType DEF SyncRequest

LEMMA OlderPush ==
    ASSUME NEW m \in PushRequest,
           NEW q, q = [m EXCEPT !.payload = OlderPayload(@)]
    PROVE  q \in PushRequest /\ q.payload = OlderPayload(m.payload)
BY OlderPayloadType DEF PushRequest

----------------------------------------------------------------------------
(* Types.                                                                  *)

LEMMA NodeTypes ==
    ASSUME TypeOK,
           \/ \E n \in Node, s \in Server : Subscribe(n, s) \/ NodeStarts(n, s)
           \/ \E n \in Node : NodeStops(n)
           \/ \E s \in Server : CleanInactiveNodes(s)
    PROVE  TypeOK'
<1> USE DEF TypeOK, nodeVars, fileVars
<1>1. ASSUME NEW n \in Node, NEW s \in Server, Subscribe(n, s) PROVE TypeOK'
  BY <1>1, Times DEF Subscribe, Record
<1>2. ASSUME NEW n \in Node, NEW s \in Server, NodeStarts(n, s) PROVE TypeOK'
  BY <1>2, Times DEF NodeStarts, Record
<1>3. ASSUME NEW n \in Node, NodeStops(n) PROVE TypeOK'
  BY <1>3 DEF NodeStops
<1>4. ASSUME NEW s \in Server, CleanInactiveNodes(s) PROVE TypeOK'
  BY <1>4 DEF CleanInactiveNodes, Record
<1> QED BY <1>1, <1>2, <1>3, <1>4

LEMMA FileTypes ==
    ASSUME TypeOK,
           \/ \E s \in Server, f \in File : InsertFileManifest(s, f) \/ DeleteFileManifest(s, f)
           \/ \E f \in File : Expire(f)
           \/ \E s \in Server : CleanBootstrapDatabase(s)
    PROVE  TypeOK'
BY DEF InsertFileManifest, DeleteFileManifest, Expire, CleanBootstrapDatabase, nodeVars,
   fileVars, TypeOK

LEMMA TickRequests ==
    ASSUME TypeOK, Tick
    PROVE  /\ \A s \in Server :
                \/ sync[s] = Idle /\ sync'[s] = Idle
                \/ /\ sync[s] \in SyncRequest /\ sync'[s] \in SyncRequest
                   /\ sync'[s].answer = OlderPayload(sync[s].answer)
           /\ \A q \in pushes' : \E m \in pushes :
                m \in PushRequest /\ q \in PushRequest /\ q.payload = OlderPayload(m.payload)
<1>1. ASSUME NEW s \in Server, sync[s] # Idle
      PROVE  /\ sync[s] \in SyncRequest /\ sync'[s] \in SyncRequest
             /\ sync'[s].answer = OlderPayload(sync[s].answer)
  <2>1. sync[s] \in SyncRequest /\ sync[s].time < SyncTime
    BY <1>1, Requests DEF Tick, MayLast
  <2>2. sync'[s] = [sync[s] EXCEPT !.time = @ + 1, !.answer = OlderPayload(@)]
    BY <1>1 DEF Tick
  <2> QED BY <2>1, <2>2, OlderRequest
<1>2. ASSUME NEW s \in Server, sync[s] = Idle PROVE sync'[s] = Idle
  BY <1>2 DEF Tick
<1>3. ASSUME NEW q \in pushes'
      PROVE  \E m \in pushes :
               m \in PushRequest /\ q \in PushRequest /\ q.payload = OlderPayload(m.payload)
  <2>1. PICK m \in pushes : q = [m EXCEPT !.payload = OlderPayload(@)]
    BY <1>3 DEF Tick
  <2>2. m \in PushRequest
    BY PushRequests
  <2> QED BY <2>1, <2>2, OlderPush
<1> QED BY <1>1, <1>2, <1>3

LEMMA TickTypes ==
    ASSUME TypeOK, Tick
    PROVE  TypeOK'
<1>1. \A s \in Server : sync'[s] \in {Idle} \cup SyncRequest
  BY TickRequests
<1>2. sync' \in [Server -> {Idle} \cup SyncRequest]
  BY <1>1 DEF Tick
<1>3. \A q \in pushes' : q \in PushRequest
  BY TickRequests
<1>4. sinceBeat' \in [Node -> 0..Oldest]
  BY OlderAge DEF Tick, TypeOK
<1>5. reg' \in [Server -> [Node -> Record]]
  <2>1. \A s \in Server : [n \in Node |-> Older(reg[s][n])] \in [Node -> Record]
    BY OlderAge DEF TypeOK
  <2> QED BY <2>1 DEF Tick
<1>6. UNCHANGED <<alive, manifests, inserted, deleted, expired>>
  BY DEF Tick, fileVars
<1> QED BY <1>2, <1>3, <1>4, <1>5, <1>6 DEF TypeOK, SyncRequest, PushRequest

LEMMA SyncTypes ==
    ASSUME TypeOK, NEW s \in Server, SyncStep(s)
    PROVE  TypeOK'
<1>1. ASSUME UNCHANGED <<nodeVars, pushes, fileVars>>,
             reg' \in [Server -> [Node -> Record]], manifests' \in [Server -> SUBSET File],
             sync' \in [Server -> {Idle} \cup SyncRequest]
      PROVE  TypeOK'
  BY <1>1 DEF TypeOK, SyncRequest, nodeVars, fileVars
<1>2. ASSUME NEW r \in {Idle} \cup SyncRequest, sync' = [sync EXCEPT ![s] = r]
      PROVE  sync' \in [Server -> {Idle} \cup SyncRequest]
  BY <1>2 DEF TypeOK, SyncRequest
<1>3. ASSUME NEW p \in Server, StartSync(s, p) PROVE TypeOK'
  <2>1. NodeKeys(s) \subseteq Node /\ manifests[s] \subseteq File
    BY DEF NodeKeys, TypeOK
  <2> DEFINE r == [pc |-> "asked", peer |-> p, time |-> 0, nodeKeys |-> NodeKeys(s),
                   fileKeys |-> manifests[s], answer |-> Nothing]
  <2>2. r \in SyncRequest
    BY <2>1, NothingType, Times DEF SyncRequest
  <2>3. sync' = [sync EXCEPT ![s] = r]
    BY <1>3 DEF StartSync
  <2> QED BY <1>1, <1>2, <1>3, <2>2, <2>3 DEF StartSync, TypeOK
<1>4. CASE SyncDigest(s)
  <2> DEFINE p == sync[s].peer
             r == [pc |-> "answered", peer |-> p, time |-> sync[s].time,
                   nodeKeys |-> MissingInLocal(NodeKeys(p), sync[s].nodeKeys),
                   fileKeys |-> MissingInLocal(manifests[p], sync[s].fileKeys),
                   answer |-> DataOf(p, MissingInRemote(NodeKeys(p), sync[s].nodeKeys),
                                        MissingInRemote(manifests[p], sync[s].fileKeys))]
  <2>1. sync[s] \in SyncRequest
    BY <1>4, Requests DEF SyncDigest
  <2>2. p \in Server /\ sync[s].time \in 0..SyncTime
        /\ MissingInLocal(NodeKeys(p), sync[s].nodeKeys) \in SUBSET Node
        /\ MissingInLocal(manifests[p], sync[s].fileKeys) \in SUBSET File
    BY <2>1 DEF SyncRequest, MissingInLocal
  <2>3. r.answer \in Payload
    BY <2>2, DataOfType
  <2>4. r \in SyncRequest
    BY <2>2, <2>3 DEF SyncRequest
  <2>5. sync' = [sync EXCEPT ![s] = r]
    BY <1>4 DEF SyncDigest
  <2> QED BY <1>1, <1>2, <1>4, <2>4, <2>5 DEF SyncDigest, TypeOK
<1>5. CASE SyncAlign(s)
  <2>1. sync[s] \in SyncRequest /\ sync[s].answer \in Payload
    BY <1>5, Requests DEF SyncAlign
  <2>2. reg' \in [Server -> [Node -> Record]] /\ manifests' \in [Server -> SUBSET File]
    BY <1>5, <2>1, AlignmentTypes DEF SyncAlign
  <2> DEFINE push == [sync[s] EXCEPT !.pc = "push", !.time = 0, !.answer = Nothing]
  <2>3. push \in SyncRequest
    BY <2>1, AnsweredRequest
  <2> DEFINE r == IF sync[s].nodeKeys = {} /\ sync[s].fileKeys = {} THEN Idle ELSE push
  <2>4. r \in {Idle} \cup SyncRequest
    <3> HIDE DEF push
    <3> QED BY <2>3
  <2>5. sync' = [sync EXCEPT ![s] = r]
    BY <1>5, Zenon DEF SyncAlign
  <2> QED BY <1>1, <1>2, <1>5, <2>2, <2>4, <2>5 DEF SyncAlign
<1>6. CASE PushMissingData(s)
  <2>1. sync[s] \in SyncRequest
    BY <1>6, Requests DEF PushMissingData
  <2> DEFINE m == [to |-> sync[s].peer,
                   payload |-> DataOf(s, sync[s].nodeKeys, sync[s].fileKeys)]
  <2>2. m \in PushRequest
    BY <2>1, DataOfType, Times DEF SyncRequest, PushRequest
  <2>3. pushes' = pushes \cup {m} /\ sync' = [sync EXCEPT ![s] = Idle]
    BY <1>6 DEF PushMissingData
  <2>4. sync' \in [Server -> {Idle} \cup SyncRequest]
    BY <1>2, <2>3
  <2> QED BY <1>6, <2>2, <2>3, <2>4
      DEF PushMissingData, TypeOK, SyncRequest, PushRequest, nodeVars, fileVars
<1>7. CASE LoseSync(s)
  BY <1>1, <1>2, <1>7 DEF LoseSync, TypeOK
<1> QED BY <1>3, <1>4, <1>5, <1>6, <1>7 DEF SyncStep

LEMMA PushTypes ==
    ASSUME TypeOK, NEW m \in pushes, SyncPush(m) \/ LosePush(m)
    PROVE  TypeOK'
<1>1. m \in PushRequest /\ m.payload \in Payload /\ m.to \in Server
  BY PushRequests DEF PushRequest
<1>2. CASE SyncPush(m)
  <2>1. reg' \in [Server -> [Node -> Record]] /\ manifests' \in [Server -> SUBSET File]
    BY <1>1, <1>2, AlignmentTypes DEF SyncPush
  <2> QED BY <1>2, <2>1 DEF SyncPush, TypeOK, nodeVars, fileVars
<1>3. CASE LosePush(m)
  BY <1>3 DEF LosePush, TypeOK, nodeVars, fileVars
<1> QED BY <1>2, <1>3

LEMMA TypeStep == TypeOK /\ [Next]_vars => TypeOK'
<1> SUFFICES ASSUME TypeOK, [Next]_vars PROVE TypeOK'
  OBVIOUS
<1>1. CASE UNCHANGED vars
  BY <1>1 DEF vars, nodeVars, fileVars, TypeOK
<1> QED BY <1>1, NodeTypes, FileTypes, TickTypes, SyncTypes, PushTypes DEF Next

----------------------------------------------------------------------------
(* Ages.                                                                   *)

(* An age that n's last subscription explains after the step.              *)
StaysBeat(a, n) == a = NoRecord \/ a >= sinceBeat'[n]

LEMMA Beats ==
    ASSUME RecordsAreBeats, NEW n \in Node
    PROVE  /\ \A s \in Server : IsBeat(reg[s][n], n) /\ IsBeat(sync[s].answer.nodes[n], n)
           /\ \A m \in pushes : IsBeat(m.payload.nodes[n], n)
BY DEF RecordsAreBeats, IsBeat

LEMMA BeatsStay ==
    ASSUME \A n \in Node :
             /\ \A s \in Server :
                  StaysBeat(reg'[s][n], n) /\ StaysBeat(sync'[s].answer.nodes[n], n)
             /\ \A m \in pushes' : StaysBeat(m.payload.nodes[n], n)
    PROVE  RecordsAreBeats'
BY DEF RecordsAreBeats, StaysBeat

(* While no node subscribes and no time passes, it is enough that every    *)
(* age is a copy of an age.                                                *)
LEMMA CopiesAreBeats ==
    ASSUME IInv, sinceBeat' = sinceBeat,
           \A n \in Node, s \in Server : IsBeat(reg'[s][n], n),
           \A n \in Node, s \in Server : IsBeat(sync'[s].answer.nodes[n], n),
           \A n \in Node, m \in pushes' : IsBeat(m.payload.nodes[n], n)
    PROVE  RecordsAreBeats'
BY BeatsStay DEF IsBeat, StaysBeat

LEMMA SubscribeBeats ==
    ASSUME IInv, NEW n \in Node, NEW s \in Server,
           reg' = [reg EXCEPT ![s][n] = 0], sinceBeat' = [sinceBeat EXCEPT ![n] = 0],
           UNCHANGED <<sync, pushes>>
    PROVE  RecordsAreBeats'
<1>1. /\ \A a \in Record : StaysBeat(a, n)
      /\ \A k \in Node : \A a : k # n /\ IsBeat(a, k) => StaysBeat(a, k)
  BY Times DEF IInv, TypeOK, Record, IsBeat, StaysBeat
<1>2. \A t \in Server, k \in Node : StaysBeat(reg'[t][k], k)
  <2> SUFFICES ASSUME NEW t \in Server, NEW k \in Node PROVE StaysBeat(reg'[t][k], k)
    OBVIOUS
  <2>1. k = n => reg'[t][k] \in Record
    BY Times DEF IInv, TypeOK, Record
  <2>2. k # n => reg'[t][k] = reg[t][k]
    BY DEF IInv, TypeOK
  <2> QED BY <1>1, <2>1, <2>2, Beats DEF IInv
<1>3. \A t \in Server, k \in Node : StaysBeat(sync'[t].answer.nodes[k], k)
  <2> SUFFICES ASSUME NEW t \in Server, NEW k \in Node
               PROVE  StaysBeat(sync[t].answer.nodes[k], k)
    OBVIOUS
  <2>1. sync[t].answer.nodes[k] \in Record
    BY Requests DEF IInv, Payload
  <2> QED BY <1>1, <2>1, Beats DEF IInv
<1>4. \A m \in pushes', k \in Node : StaysBeat(m.payload.nodes[k], k)
  <2> SUFFICES ASSUME NEW m \in pushes, NEW k \in Node PROVE StaysBeat(m.payload.nodes[k], k)
    OBVIOUS
  <2>1. m.payload.nodes[k] \in Record
    BY PushRequests DEF IInv, PushRequest, Payload
  <2> QED BY <1>1, <2>1, Beats DEF IInv
<1> QED BY <1>2, <1>3, <1>4, BeatsStay

LEMMA TickBeats ==
    ASSUME IInv, Tick
    PROVE  RecordsAreBeats'
<1>1. ASSUME NEW n \in Node, NEW a \in Record, IsBeat(a, n) PROVE StaysBeat(Older(a), n)
  <2>1. sinceBeat[n] \in 0..Oldest /\ sinceBeat'[n] = Older(sinceBeat[n])
    BY DEF IInv, TypeOK, Tick
  <2>2. a # NoRecord => a \in 0..Oldest
    BY DEF Record
  <2> QED BY <1>1, <2>1, <2>2, OlderAge DEF IsBeat, StaysBeat
<1>2. ASSUME NEW p \in Payload, NEW n \in Node, IsBeat(p.nodes[n], n)
      PROVE  StaysBeat(OlderPayload(p).nodes[n], n)
  <2>1. p.nodes[n] \in Record /\ OlderPayload(p).nodes[n] = Older(p.nodes[n])
    BY OlderPayloadType DEF Payload
  <2> QED BY <1>1, <1>2, <2>1
<1>3. \A s \in Server, n \in Node : StaysBeat(reg'[s][n], n)
  BY <1>1, Beats DEF IInv, TypeOK, Tick
<1>4. \A s \in Server, n \in Node : StaysBeat(sync'[s].answer.nodes[n], n)
  <2> SUFFICES ASSUME NEW s \in Server, NEW n \in Node
               PROVE  StaysBeat(sync'[s].answer.nodes[n], n)
    OBVIOUS
  <2>1. CASE sync'[s] = Idle
    BY <2>1 DEF Idle, Nothing, StaysBeat
  <2>2. CASE sync'[s].answer = OlderPayload(sync[s].answer)
    BY <1>2, <2>2, Requests, Beats DEF IInv
  <2> QED BY <2>1, <2>2, TickRequests DEF IInv
<1>5. \A q \in pushes', n \in Node : StaysBeat(q.payload.nodes[n], n)
  <2> SUFFICES ASSUME NEW q \in pushes', NEW n \in Node
               PROVE  StaysBeat(q.payload.nodes[n], n)
    OBVIOUS
  <2>1. PICK m \in pushes : m \in PushRequest /\ q.payload = OlderPayload(m.payload)
    BY TickRequests DEF IInv
  <2>2. m.payload \in Payload
    BY <2>1 DEF PushRequest
  <2> QED BY <1>2, <2>1, <2>2, Beats DEF IInv
<1> QED BY <1>3, <1>4, <1>5, BeatsStay

LEMMA SyncBeats ==
    ASSUME IInv, NEW s \in Server, SyncStep(s)
    PROVE  RecordsAreBeats'
<1>1. IsBeat(NoRecord, s) /\ \A n \in Node : IsBeat(Nothing.nodes[n], n)
  BY DEF IsBeat, Nothing
<1>2. ASSUME NEW t \in Server, NEW nodeKeys, NEW fileKeys, NEW n \in Node
      PROVE  IsBeat(DataOf(t, nodeKeys, fileKeys).nodes[n], n)
  BY DataOfType, Beats DEF IInv, IsBeat
<1>3. ASSUME NEW r, sync' = [sync EXCEPT ![s] = r], \A n \in Node : IsBeat(r.answer.nodes[n], n)
      PROVE  \A n \in Node, t \in Server : IsBeat(sync'[t].answer.nodes[n], n)
  BY <1>3, Beats DEF IInv, TypeOK
<1>4. Idle.answer = Nothing
  BY DEF Idle
<1>5. ASSUME NEW p \in Server, StartSync(s, p) PROVE RecordsAreBeats'
  <2> DEFINE r == [pc |-> "asked", peer |-> p, time |-> 0, nodeKeys |-> NodeKeys(s),
                   fileKeys |-> manifests[s], answer |-> Nothing]
  <2>0. sync' = [sync EXCEPT ![s] = r] /\ r.answer = Nothing
    BY <1>5 DEF StartSync
  <2>1. \A n \in Node, t \in Server : IsBeat(sync'[t].answer.nodes[n], n)
    <3> HIDE DEF r
    <3> QED BY <1>1, <1>3, <2>0
  <2> QED BY <1>5, <2>1, CopiesAreBeats, Beats DEF StartSync, nodeVars, IInv
<1>6. CASE SyncDigest(s)
  <2>1. sync[s] \in SyncRequest
    BY <1>6, Requests DEF SyncDigest, IInv
  <2>2. sync[s].peer \in Server
    BY <2>1 DEF SyncRequest
  <2> DEFINE p == sync[s].peer
             data == DataOf(p, MissingInRemote(NodeKeys(p), sync[s].nodeKeys),
                               MissingInRemote(manifests[p], sync[s].fileKeys))
             r == [pc |-> "answered", peer |-> p, time |-> sync[s].time,
                   nodeKeys |-> MissingInLocal(NodeKeys(p), sync[s].nodeKeys),
                   fileKeys |-> MissingInLocal(manifests[p], sync[s].fileKeys),
                   answer |-> data]
  <2>3. \A n \in Node : IsBeat(data.nodes[n], n)
    BY <1>2, <2>2
  <2>4. sync' = [sync EXCEPT ![s] = r] /\ r.answer = data
    BY <1>6 DEF SyncDigest
  <2>5. \A n \in Node, t \in Server : IsBeat(sync'[t].answer.nodes[n], n)
    <3> HIDE DEF r, data
    <3> QED BY <1>3, <2>3, <2>4
  <2> QED BY <1>6, <2>5, CopiesAreBeats, Beats DEF SyncDigest, nodeVars, IInv
<1>7. CASE SyncAlign(s)
  <2>1. \A t \in Server, n \in Node : reg'[t][n] \in {reg[t][n], sync[s].answer.nodes[n]}
    BY <1>7, Requests, AlignmentTypes DEF SyncAlign, IInv
  <2>2. \A t \in Server, n \in Node : IsBeat(reg'[t][n], n)
    BY <2>1, Beats DEF IInv
  <2>3. sync[s] \in SyncRequest
    BY <1>7, Requests DEF SyncAlign, IInv
  <2>4. sync'[s].answer = Nothing /\ \A t \in Server : t # s => sync'[t] = sync[t]
    BY <1>4, <1>7, <2>3 DEF SyncAlign, IInv, TypeOK, SyncRequest
  <2>5. \A n \in Node, t \in Server : IsBeat(sync'[t].answer.nodes[n], n)
    BY <1>1, <2>4, Beats DEF IInv
  <2> QED BY <1>7, <2>2, <2>5, CopiesAreBeats, Beats DEF SyncAlign, nodeVars, IInv
<1>8. CASE PushMissingData(s)
  <2> DEFINE data == DataOf(s, sync[s].nodeKeys, sync[s].fileKeys)
  <2>0. pushes' = pushes \cup {[to |-> sync[s].peer, payload |-> data]}
    BY <1>8 DEF PushMissingData
  <2>1. \A n \in Node, m \in pushes' : IsBeat(m.payload.nodes[n], n)
    <3>1. \A n \in Node : IsBeat(data.nodes[n], n)
      BY <1>2
    <3> HIDE DEF data
    <3> QED BY <2>0, <3>1, Beats DEF IInv
  <2>2. \A n \in Node, t \in Server : IsBeat(sync'[t].answer.nodes[n], n)
    BY <1>1, <1>3, <1>4, <1>8 DEF PushMissingData
  <2> QED BY <1>8, <2>1, <2>2, CopiesAreBeats, Beats DEF PushMissingData, nodeVars, IInv
<1>9. CASE LoseSync(s)
  <2>1. \A n \in Node, t \in Server : IsBeat(sync'[t].answer.nodes[n], n)
    BY <1>1, <1>3, <1>4, <1>9 DEF LoseSync
  <2> QED BY <1>9, <2>1, CopiesAreBeats, Beats DEF LoseSync, nodeVars, IInv
<1> QED BY <1>5, <1>6, <1>7, <1>8, <1>9 DEF SyncStep

LEMMA PushBeats ==
    ASSUME IInv, NEW m \in pushes, SyncPush(m) \/ LosePush(m)
    PROVE  RecordsAreBeats'
<1>1. \A t \in Server, n \in Node : IsBeat(reg'[t][n], n)
  <2>1. CASE SyncPush(m)
    <3>1. m.to \in Server /\ m.payload \in Payload
      BY PushRequests DEF PushRequest, IInv
    <3>2. \A t \in Server, n \in Node : reg'[t][n] \in {reg[t][n], m.payload.nodes[n]}
      BY <2>1, <3>1, AlignmentTypes DEF SyncPush, IInv
    <3> QED BY <3>2, Beats DEF IInv
  <2>2. CASE LosePush(m)
    BY <2>2, Beats DEF LosePush, IInv
  <2> QED BY <2>1, <2>2
<1>2. sinceBeat' = sinceBeat /\ sync' = sync /\ pushes' \subseteq pushes
  BY DEF SyncPush, LosePush, nodeVars
<1> QED BY <1>1, <1>2, CopiesAreBeats, Beats DEF IInv

LEMMA OtherBeats ==
    ASSUME IInv, UNCHANGED <<sinceBeat, sync, pushes>>,
           \A s \in Server, n \in Node : reg'[s][n] \in {reg[s][n], NoRecord}
    PROVE  RecordsAreBeats'
BY CopiesAreBeats, Beats DEF IInv, IsBeat

LEMMA BeatStep == IInv /\ [Next]_vars => RecordsAreBeats'
<1> SUFFICES ASSUME IInv, [Next]_vars PROVE RecordsAreBeats'
  OBVIOUS
<1>1. ASSUME NEW n \in Node, NEW s \in Server, Subscribe(n, s) \/ NodeStarts(n, s)
      PROVE  RecordsAreBeats'
  BY <1>1, SubscribeBeats DEF Subscribe, NodeStarts
<1>2. ASSUME NEW n \in Node, NodeStops(n) PROVE RecordsAreBeats'
  BY <1>2, OtherBeats DEF NodeStops
<1>3. ASSUME NEW s \in Server, NEW f \in File,
             InsertFileManifest(s, f) \/ DeleteFileManifest(s, f)
      PROVE  RecordsAreBeats'
  BY <1>3, OtherBeats DEF InsertFileManifest, DeleteFileManifest, nodeVars
<1>4. ASSUME NEW f \in File, Expire(f) PROVE RecordsAreBeats'
  BY <1>4, OtherBeats DEF Expire, nodeVars
<1>5. ASSUME NEW s \in Server, CleanInactiveNodes(s) PROVE RecordsAreBeats'
  BY <1>5, OtherBeats DEF CleanInactiveNodes, nodeVars, IInv, TypeOK
<1>6. ASSUME NEW s \in Server, CleanBootstrapDatabase(s) PROVE RecordsAreBeats'
  BY <1>6, OtherBeats DEF CleanBootstrapDatabase, nodeVars
<1>7. CASE UNCHANGED vars
  BY <1>7, OtherBeats DEF vars, nodeVars
<1> QED BY <1>1, <1>2, <1>3, <1>4, <1>5, <1>6, <1>7, TickBeats, SyncBeats, PushBeats DEF Next

LEMMA InitIInv == Init => IInv
<1> SUFFICES ASSUME Init PROVE IInv
  OBVIOUS
<1>1. TypeOK
  BY Times DEF Init, TypeOK, Record
<1>2. RecordsAreBeats
  BY DEF Init, RecordsAreBeats, Idle, Nothing
<1> QED BY <1>1, <1>2 DEF IInv

LEMMA StepIInv == IInv /\ [Next]_vars => IInv'
BY TypeStep, BeatStep DEF IInv

THEOREM Invariance == Spec => []IInv
BY InitIInv, StepIInv, PTL DEF Spec

----------------------------------------------------------------------------
(* The registries, the requests and the pushes keep their types: what a    *)
(* server aligns with is data of a peer, and no digest outlasts the        *)
(* client's timeout.                                                       *)
THEOREM TypeCorrect == Spec => []TypeOK
<1>1. IInv => TypeOK
  BY DEF IInv
<1> QED BY <1>1, Invariance, PTL

(* ProcessAlignment overwrites records of nodes with whatever arrives, old *)
(* or new: it never makes a node look more alive than it is.               *)
THEOREM NeverRefreshed == Spec => []RecordsAreBeats
<1>1. IInv => RecordsAreBeats
  BY DEF IInv
<1> QED BY <1>1, Invariance, PTL
=============================================================================
