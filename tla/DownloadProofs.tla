--------------------------- MODULE DownloadProofs ---------------------------
(* Proofs about Download and about Placement, which it extends, for any    *)
(* registry, file and crypto workers and any behaviour of nodes, chunks    *)
(* and beacon.                                                             *)
EXTENDS Download, FiniteSetTheorems, TLAPS

----------------------------------------------------------------------------
(* The placement of the chunks.                                            *)

Offers == Cardinality(DOMAIN nodes)
Offered == {nodes[i] : i \in DOMAIN nodes}

(* The server's answer names no node twice.                                *)
AnswerInv == \A i, j \in DOMAIN nodes : i # j => nodes[i] # nodes[j]

(* What is left of a worker's list are different nodes that it has not     *)
(* drawn yet; no other worker has the same chunk.                          *)
DrawInv(w) ==
    job[w] # NoJob =>
        /\ Answered
        /\ list[w] \in [1..Offers -> Node]
        /\ left[w] \in 0..Offers /\ Offers - left[w] <= Wanted
        /\ \A i \in 1..left[w] : list[w][i] \in Offered \ selected[w]
        /\ \A i, j \in 1..left[w] : i # j => list[w][i] # list[w][j]
        /\ selected[w] \subseteq Offered
        /\ Cardinality(selected[w]) = Offers - left[w]
        /\ targets[job[w]] = {}
        /\ \A v \in Worker \ {w} : job[v] # job[w]

(* A chunk is nowhere but on its targets; with the manifest all of it is   *)
(* settled.                                                                *)
StoredInv == \A n \in Node : \A c \in store[n] : n \in targets[c]
SettledInv == manifest # {} => \A c \in Chunk : targets[c] # {}

PlaceIInv ==
    /\ PlaceTypeOK
    /\ AnswerInv
    /\ \A w \in Worker : DrawInv(w)
    /\ TargetsDistinct
    /\ StoredInv
    /\ SettledInv

----------------------------------------------------------------------------
LEMMA OffersType ==
    ASSUME PlaceTypeOK
    PROVE  /\ Offers \in 0..Cardinality(Node) /\ Offers \in Nat
           /\ nodes \in [1..Offers -> Node]
           /\ DOMAIN nodes = 1..Offers
           /\ Offered \subseteq Node
           /\ Cardinality(Node) \in Nat
<1>1. Cardinality(Node) \in Nat
  BY PlacementAssumption, FS_CardinalityType
<1>2. PICK k \in 0..Cardinality(Node) : nodes \in [1..k -> Node]
  BY DEF PlaceTypeOK, Lists
<1>3. k \in Nat /\ Cardinality(1..k) = k
  BY <1>1, <1>2, FS_Interval
<1>4. Offers = k
  BY <1>2, <1>3 DEF Offers
<1> QED BY <1>1, <1>2, <1>3, <1>4 DEF Offered

LEMMA WantedType ==
    ASSUME PlaceTypeOK
    PROVE  Wanted \in Nat /\ Wanted <= Offers
BY OffersType, PlacementAssumption DEF Wanted, Least, Offers

LEMMA NoJobIsNoChunk == NoJob \notin Chunk
BY PlacementAssumption DEF NoJob, Chunk, Block, Shard

LEMMA EmptyList == <<>> \in Lists
<1>1. Cardinality(Node) \in Nat
  BY PlacementAssumption, FS_CardinalityType
<1>2. <<>> \in [1..0 -> Node]
  OBVIOUS
<1> QED BY <1>1, <1>2 DEF Lists

LEMMA AnswerType == Answer \in 0..Cardinality(Node)
<1>1. Blocks \in Nat \ {0} /\ TotalShards \in Nat \ {0} /\ NodesPerChunk \in Nat \ {0}
  BY PlacementAssumption
<1>2. Blocks * TotalShards \in Nat
  BY <1>1
<1>3. NodesToPickup \in Nat
  BY <1>1, <1>2 DEF NodesToPickup
<1>4. Cardinality(Node) \in Nat
  BY PlacementAssumption, FS_CardinalityType
<1> QED BY <1>3, <1>4 DEF Answer, Least

LEMMA PlaceInitIInv == PlaceInit => PlaceIInv
<1> SUFFICES ASSUME PlaceInit PROVE PlaceIInv
  OBVIOUS
<1>1. Cardinality(Node) \in Nat
  BY PlacementAssumption, FS_CardinalityType
<1>4. PlaceTypeOK
  BY <1>1, EmptyList DEF PlaceInit, PlaceTypeOK
<1>5. AnswerInv /\ StoredInv /\ SettledInv
  BY DEF PlaceInit, AnswerInv, StoredInv, SettledInv
<1>6. (\A w \in Worker : DrawInv(w)) /\ TargetsDistinct
  BY DEF PlaceInit, DrawInv, TargetsDistinct
<1> QED BY <1>4, <1>5, <1>6 DEF PlaceIInv

----------------------------------------------------------------------------
(* The types.                                                              *)
LEMMA PlaceTypeStep ==
    ASSUME PlaceIInv, PlaceNext
    PROVE  PlaceTypeOK'
<1> USE DEF PlaceIInv, PlaceTypeOK
<1>a. Cardinality(Node) \in Nat /\ <<>> \in Lists
  BY PlacementAssumption, FS_CardinalityType, EmptyList
<1>1. CASE RequestNodes
  <2>3. Answer \in 0..Cardinality(Node)
    BY AnswerType
  <2>4. nodes' \in [1..Answer -> Node]
    BY <1>1 DEF RequestNodes, FirstKeys
  <2> QED BY <1>1, <2>3, <2>4 DEF RequestNodes, Lists
<1>2. ASSUME NEW w \in Worker, NEW c \in Chunk, BeginPick(w, c) PROVE PlaceTypeOK'
  BY <1>2, OffersType DEF BeginPick, Offers
<1>3. ASSUME NEW w \in Worker, NEW i \in 1..left[w], PickOne(w, i) PROVE PlaceTypeOK'
  <2>0. list[w] \in Lists
    OBVIOUS
  <2>1. PICK k \in 0..Cardinality(Node) : list[w] \in [1..k -> Node]
    BY <2>0 DEF Lists
  <2>2. DrawInv(w) /\ job[w] # NoJob
    BY <1>3 DEF PickOne
  <2>3. Offers \in Nat /\ left[w] \in 1..Offers /\ i \in 1..Offers
    BY <2>2, OffersType DEF DrawInv
  <2>4. list[w] \in [1..Offers -> Node]
    BY <2>2 DEF DrawInv
  <2>5. list[w][i] \in Node /\ list[w][left[w]] \in Node
    BY <2>3, <2>4
  <2>6. [list[w] EXCEPT ![i] = list[w][left[w]]] \in [1..k -> Node]
    BY <2>1, <2>5
  <2>7. list' \in [Worker -> Lists]
    BY <1>3, <2>6 DEF PickOne, AfterSwap, Lists
  <2>8. left' \in [Worker -> 0..Cardinality(Node)]
    BY <1>a, <1>3, <2>3 DEF PickOne
  <2>9. selected' \in [Worker -> SUBSET Node]
    BY <1>3, <2>5 DEF PickOne
  <2> QED BY <1>3, <2>7, <2>8, <2>9 DEF PickOne
<1>4. ASSUME NEW w \in Worker, EndPick(w) PROVE PlaceTypeOK'
  BY <1>a, <1>4 DEF EndPick
<1>5. ASSUME NEW c \in Chunk, NEW n \in Node, SaveChunk(c, n) PROVE PlaceTypeOK'
  BY <1>5 DEF SaveChunk, drawVars
<1>6. ASSUME NEW s \in Server, InsertFileManifest(s) PROVE PlaceTypeOK'
  BY <1>6 DEF InsertFileManifest, drawVars
<1> QED BY <1>1, <1>2, <1>3, <1>4, <1>5, <1>6 DEF PlaceNext

----------------------------------------------------------------------------
(* The first keys of the registry are different ones.                      *)
LEMMA RequestIInv ==
    ASSUME PlaceIInv, RequestNodes
    PROVE  /\ AnswerInv' /\ (\A w \in Worker : DrawInv(w))' /\ TargetsDistinct'
           /\ StoredInv' /\ SettledInv'
<1>1. \A w \in Worker : job[w] = NoJob
  BY DEF PlaceIInv, DrawInv, RequestNodes
<1>2. \A c \in Chunk : targets[c] = {}
  BY DEF PlaceIInv, PlaceTypeOK, TargetsDistinct, RequestNodes, Answered
<1>3. PICK k \in Nat : k = Answer
  BY AnswerType, PlacementAssumption, FS_CardinalityType
<1>4. nodes' \in [1..k -> Node] /\ \A i, j \in 1..k : i < j => nodes'[i] < nodes'[j]
  BY <1>3 DEF RequestNodes, FirstKeys
<1>5. AnswerInv'
  <2> SUFFICES ASSUME NEW i \in 1..k, NEW j \in 1..k, i # j PROVE nodes'[i] # nodes'[j]
    BY <1>4 DEF AnswerInv
  <2>1. nodes'[i] \in Node /\ nodes'[j] \in Node
    BY <1>4
  <2>4. nodes'[i] \in Nat /\ nodes'[j] \in Nat
    BY <2>1, PlacementAssumption
  <2>2. CASE i < j
    <3>1. nodes'[i] < nodes'[j]
      BY <1>4, <2>2
    <3> QED BY <2>4, <3>1
  <2>3. CASE j < i
    <3>1. nodes'[j] < nodes'[i]
      BY <1>4, <2>3
    <3> QED BY <2>4, <3>1
  <2> QED BY <2>2, <2>3
<1>6. (\A w \in Worker : DrawInv(w))'
  BY <1>1 DEF DrawInv, RequestNodes
<1>7. TargetsDistinct'
  BY <1>2 DEF TargetsDistinct, RequestNodes
<1>8. StoredInv' /\ SettledInv'
  BY DEF PlaceIInv, StoredInv, SettledInv, RequestNodes
<1> QED BY <1>5, <1>6, <1>7, <1>8

(* A worker begins with a copy of the answer.                              *)
LEMMA BeginIInv ==
    ASSUME PlaceIInv, NEW w \in Worker, NEW c \in Chunk, BeginPick(w, c)
    PROVE  (\A v \in Worker : DrawInv(v))'
<1> SUFFICES ASSUME NEW v \in Worker PROVE DrawInv(v)'
  OBVIOUS
<1>a. UNCHANGED <<nodes, targets>> /\ Offers' = Offers /\ Offered' = Offered
      /\ Wanted' = Wanted /\ Answered' = Answered
  BY DEF BeginPick, Offers, Offered, Wanted, Answered
<1>b. targets[c] = {} /\ \A u \in Worker : job[u] # c
  BY DEF BeginPick, Taken
<1>1. CASE v = w
  <2>1. job'[w] = c /\ list'[w] = nodes /\ left'[w] = Offers /\ selected'[w] = {}
    BY DEF BeginPick, PlaceIInv, PlaceTypeOK, Offers
  <2>2. Offers \in Nat /\ nodes \in [1..Offers -> Node] /\ DOMAIN nodes = 1..Offers
    BY OffersType DEF PlaceIInv
  <2>3. Cardinality({}) = 0
    BY FS_EmptySet
  <2>4. \A i \in 1..Offers : nodes[i] \in Offered
    BY <2>2 DEF Offered
  <2>5. \A u \in Worker \ {w} : job'[u] # c
    BY <1>b DEF BeginPick, PlaceIInv, PlaceTypeOK
  <2>6. Wanted \in Nat
    BY WantedType DEF PlaceIInv
  <2>7. \A i, j \in 1..Offers : i # j => nodes[i] # nodes[j]
    BY <2>2 DEF PlaceIInv, AnswerInv
  <2>8. Answered
    BY DEF BeginPick
  <2> QED BY <1>a, <1>b, <1>1, <2>1, <2>2, <2>3, <2>4, <2>5, <2>6, <2>7, <2>8
          DEF DrawInv
<1>2. CASE v # w
  <2>1. /\ job'[v] = job[v] /\ list'[v] = list[v] /\ left'[v] = left[v]
        /\ selected'[v] = selected[v]
    BY <1>2 DEF BeginPick, PlaceIInv, PlaceTypeOK
  <2>2. DrawInv(v)
    BY DEF PlaceIInv
  <2>3. \A u \in Worker \ {v} : job'[u] = job[u] \/ job'[u] = c
    BY DEF BeginPick, PlaceIInv, PlaceTypeOK
  <2> QED BY <1>a, <1>b, <2>1, <2>2, <2>3 DEF DrawInv
<1> QED BY <1>1, <1>2

(* A draw takes one node off the worker's own list.                        *)
LEMMA PickIInv ==
    ASSUME PlaceIInv, NEW w \in Worker, NEW i \in 1..left[w], PickOne(w, i)
    PROVE  (\A v \in Worker : DrawInv(v))'
<1> SUFFICES ASSUME NEW v \in Worker PROVE DrawInv(v)'
  OBVIOUS
<1>a. UNCHANGED <<nodes, job, targets>> /\ Offers' = Offers /\ Offered' = Offered
      /\ Wanted' = Wanted /\ Answered' = Answered
  BY DEF PickOne, Offers, Offered, Wanted, Answered
<1>1. CASE v = w
  <2> DEFINE k == left[w]
             x == list[w][i]
             y == list[w][k]
  <2>1. DrawInv(w) /\ job[w] # NoJob
    BY DEF PlaceIInv, PickOne
  <2>2. Offers \in Nat /\ Wanted \in Nat /\ Offered \subseteq Node
    BY OffersType, WantedType DEF PlaceIInv
  <2>3. k \in 1..Offers /\ i \in 1..Offers /\ i \in 1..k
    BY <2>1, <2>2 DEF DrawInv
  <2>4. /\ list'[w] = [list[w] EXCEPT ![i] = y]
        /\ left'[w] = k - 1
        /\ selected'[w] = selected[w] \cup {x}
    BY DEF PickOne, AfterSwap, PlaceIInv, PlaceTypeOK
  <2>5. list[w] \in [1..Offers -> Node]
    BY <2>1 DEF DrawInv
  <2>6. x \in Offered \ selected[w] /\ y \in Offered \ selected[w] /\ k \in 1..k
    BY <2>1, <2>3 DEF DrawInv
  <2>7. list'[w] \in [1..Offers -> Node]
    BY <2>2, <2>4, <2>5, <2>6
  <2>8. \A j \in 1..(k - 1) : list'[w][j] = IF j = i THEN y ELSE list[w][j]
    <3> SUFFICES ASSUME NEW j \in 1..(k - 1)
                 PROVE  [list[w] EXCEPT ![i] = y][j] = IF j = i THEN y ELSE list[w][j]
      BY <2>4
    <3>1. j \in 1..Offers
      BY <2>2, <2>3
    <3> HIDE DEF k, y
    <3> QED BY <2>3, <2>5, <3>1
  <2>9. \A j \in 1..k : list[w][j] \in Offered \ selected[w]
    BY <2>1 DEF DrawInv
  <2>10. \A j, l \in 1..k : j # l => list[w][j] # list[w][l]
    BY <2>1 DEF DrawInv
  <2>11. \A j \in 1..(k - 1) : list'[w][j] \in Offered \ selected'[w]
    BY <2>3, <2>4, <2>6, <2>8, <2>9, <2>10
  <2>12. \A j, l \in 1..(k - 1) : j # l => list'[w][j] # list'[w][l]
    BY <2>3, <2>8, <2>10
  <2>13. IsFiniteSet(selected[w])
    BY PlacementAssumption, FS_Subset DEF PlaceIInv, PlaceTypeOK
  <2>14. Cardinality(selected'[w]) = Cardinality(selected[w]) + 1
    BY <2>4, <2>6, <2>13, FS_AddElement
  <2>15. Cardinality(selected[w]) = Offers - k
    BY <2>1 DEF DrawInv
  <2>16. Offers - k < Wanted
    BY DEF PickOne, Offers
  <2>17. /\ k - 1 \in 0..Offers /\ Offers - (k - 1) <= Wanted
         /\ Cardinality(selected'[w]) = Offers - (k - 1)
    BY <2>2, <2>3, <2>14, <2>15, <2>16
  <2>18. selected'[w] \subseteq Offered
    BY <2>1, <2>4, <2>6 DEF DrawInv
  <2>19. Answered /\ targets[job[w]] = {} /\ \A u \in Worker \ {w} : job[u] # job[w]
    BY <2>1 DEF DrawInv
  <2> HIDE DEF k, x, y
  <2> QED BY <1>a, <1>1, <2>4, <2>7, <2>11, <2>12, <2>17, <2>18, <2>19 DEF DrawInv
<1>2. CASE v # w
  <2>1. list'[v] = list[v] /\ left'[v] = left[v] /\ selected'[v] = selected[v]
    BY <1>2 DEF PickOne, AfterSwap, PlaceIInv, PlaceTypeOK
  <2>2. DrawInv(v)
    BY DEF PlaceIInv
  <2> QED BY <1>a, <2>1, <2>2 DEF DrawInv
<1> QED BY <1>1, <1>2

(* The draws become the targets of the chunk.                              *)
LEMMA EndIInv ==
    ASSUME PlaceIInv, NEW w \in Worker, EndPick(w)
    PROVE  (\A v \in Worker : DrawInv(v))' /\ TargetsDistinct' /\ StoredInv' /\ SettledInv'
<1>a. UNCHANGED nodes /\ Offers' = Offers /\ Offered' = Offered
      /\ Wanted' = Wanted /\ Answered' = Answered
  BY DEF EndPick, Offers, Offered, Wanted, Answered
<1>b. DrawInv(w) /\ job[w] \in Chunk
  BY DEF PlaceIInv, PlaceTypeOK, EndPick
<1>c. targets' = [targets EXCEPT ![job[w]] = selected[w]] /\ targets \in [Chunk -> SUBSET Node]
  BY DEF EndPick, PlaceIInv, PlaceTypeOK
<1>d. Offers - left[w] = Wanted /\ job[w] # NoJob
  BY DEF EndPick, Offers
<1>1. ASSUME NEW v \in Worker PROVE DrawInv(v)'
  <2>1. CASE v = w
    BY <2>1 DEF EndPick, PlaceIInv, PlaceTypeOK, DrawInv
  <2>2. CASE v # w
    <3>1. /\ job'[v] = job[v] /\ list'[v] = list[v] /\ left'[v] = left[v]
          /\ selected'[v] = selected[v]
      BY <2>2 DEF EndPick, PlaceIInv, PlaceTypeOK
    <3>2. \A u \in Worker \ {v} : job'[u] = job[u] \/ job'[u] = NoJob
      BY DEF EndPick, PlaceIInv, PlaceTypeOK
    <3>3. DrawInv(v)
      BY DEF PlaceIInv
    <3>4. job[v] # NoJob => job[v] # job[w]
      BY <1>b, <1>d, <2>2 DEF DrawInv
    <3>5. job[v] \in Chunk \cup {NoJob}
      BY DEF PlaceIInv, PlaceTypeOK
    <3> QED BY <1>a, <1>c, <3>1, <3>2, <3>3, <3>4, <3>5 DEF DrawInv
  <2> QED BY <2>1, <2>2
<1>2. TargetsDistinct'
  <2>1. Cardinality(selected[w]) = Wanted /\ selected[w] \subseteq Offered
    BY <1>b, <1>d DEF DrawInv
  <2>2. \A c \in Chunk : targets'[c] = IF c = job[w] THEN selected[w] ELSE targets[c]
    BY <1>c
  <2> QED BY <1>a, <2>1, <2>2 DEF PlaceIInv, TargetsDistinct, Offered
<1>3. StoredInv'
  <2>1. targets[job[w]] = {}
    BY <1>b, <1>d DEF DrawInv
  <2>2. store' = store
    BY DEF EndPick
  <2> QED BY <1>c, <2>1, <2>2 DEF PlaceIInv, PlaceTypeOK, StoredInv
<1>4. SettledInv'
  <2>1. targets[job[w]] = {}
    BY <1>b, <1>d DEF DrawInv
  <2> QED BY <1>b, <2>1 DEF EndPick, PlaceIInv, SettledInv
<1> QED BY <1>1, <1>2, <1>3, <1>4

LEMMA PlaceStepIInv == PlaceIInv /\ [PlaceNext]_placeVars => PlaceIInv'
<1> SUFFICES ASSUME PlaceIInv, [PlaceNext]_placeVars PROVE PlaceIInv'
  OBVIOUS
<1>1. CASE UNCHANGED placeVars
  BY <1>1 DEF placeVars, drawVars, PlaceIInv, PlaceTypeOK, AnswerInv, DrawInv,
     TargetsDistinct, StoredInv, SettledInv, Offers, Offered, Wanted, Answered
<1>2. CASE RequestNodes
  BY <1>2, PlaceTypeStep, RequestIInv DEF PlaceIInv, PlaceNext
<1>3. ASSUME NEW w \in Worker, NEW c \in Chunk, BeginPick(w, c) PROVE PlaceIInv'
  <2>1. PlaceTypeOK'
    BY <1>3, PlaceTypeStep DEF PlaceNext
  <2>2. UNCHANGED <<nodes, targets, store, manifest>>
    BY <1>3 DEF BeginPick
  <2>3. AnswerInv' /\ TargetsDistinct' /\ StoredInv' /\ SettledInv'
    BY <2>2 DEF PlaceIInv, AnswerInv, TargetsDistinct, Wanted, StoredInv, SettledInv
  <2> QED BY <1>3, <2>1, <2>3, BeginIInv DEF PlaceIInv
<1>4. ASSUME NEW w \in Worker, NEW i \in 1..left[w], PickOne(w, i) PROVE PlaceIInv'
  <2>1. PlaceTypeOK'
    BY <1>4, PlaceTypeStep DEF PlaceNext
  <2>2. UNCHANGED <<nodes, targets, store, manifest>>
    BY <1>4 DEF PickOne
  <2>3. AnswerInv' /\ TargetsDistinct' /\ StoredInv' /\ SettledInv'
    BY <2>2 DEF PlaceIInv, AnswerInv, TargetsDistinct, Wanted, StoredInv, SettledInv
  <2> QED BY <1>4, <2>1, <2>3, PickIInv DEF PlaceIInv
<1>5. ASSUME NEW w \in Worker, EndPick(w) PROVE PlaceIInv'
  <2>1. PlaceTypeOK'
    BY <1>5, PlaceTypeStep DEF PlaceNext
  <2>2. AnswerInv'
    BY <1>5 DEF EndPick, PlaceIInv, AnswerInv
  <2> QED BY <1>5, <2>1, <2>2, EndIInv DEF PlaceIInv
<1>6. ASSUME NEW c \in Chunk, NEW n \in Node, SaveChunk(c, n) PROVE PlaceIInv'
  <2>1. PlaceTypeOK'
    BY <1>6, PlaceTypeStep DEF PlaceNext
  <2>2. UNCHANGED <<drawVars, manifest>>
    BY <1>6 DEF SaveChunk
  <2>3. AnswerInv' /\ TargetsDistinct' /\ SettledInv' /\ (\A w \in Worker : DrawInv(w))'
    BY <2>2 DEF drawVars, PlaceIInv, AnswerInv, TargetsDistinct, SettledInv, DrawInv,
       Offers, Offered, Wanted, Answered
  <2>4. StoredInv'
    BY <1>6 DEF SaveChunk, drawVars, PlaceIInv, PlaceTypeOK, StoredInv
  <2> QED BY <2>1, <2>3, <2>4 DEF PlaceIInv
<1>7. ASSUME NEW s \in Server, InsertFileManifest(s) PROVE PlaceIInv'
  <2>1. PlaceTypeOK'
    BY <1>7, PlaceTypeStep DEF PlaceNext
  <2>2. UNCHANGED <<drawVars, store>>
    BY <1>7 DEF InsertFileManifest
  <2>3. AnswerInv' /\ TargetsDistinct' /\ (\A w \in Worker : DrawInv(w))'
    BY <2>2 DEF drawVars, PlaceIInv, AnswerInv, TargetsDistinct, DrawInv,
       Offers, Offered, Wanted, Answered
  <2>5. StoredInv'
    BY <2>2 DEF drawVars, PlaceIInv, StoredInv
  <2>4. SettledInv'
    BY <1>7 DEF InsertFileManifest, drawVars, Saved, PlaceIInv, StoredInv, SettledInv
  <2> QED BY <2>1, <2>3, <2>4, <2>5 DEF PlaceIInv
<1> QED BY <1>1, <1>2, <1>3, <1>4, <1>5, <1>6, <1>7 DEF PlaceNext

----------------------------------------------------------------------------
(* pickRandomItems, by crypto workers that draw at the same time: each     *)
(* chunk gets as many different nodes of the answer as it should.          *)
THEOREM TargetsAreDistinct == PlaceSpec => []TargetsDistinct
<1>1. PlaceIInv => TargetsDistinct
  BY DEF PlaceIInv
<1> QED BY <1>1, PlaceInitIInv, PlaceStepIInv, PTL DEF PlaceSpec

----------------------------------------------------------------------------
(* The download.                                                           *)

(* What the reader relies on.  Its manifest is settled; a chunk that       *)
(* counts as stable would be served now.                                   *)
WorldInv ==
    /\ phase # "idle" => manifest # {}
    /\ phase = "idle" => stable = {}
    /\ stable \subseteq Served(store, up)
    /\ steady => beacon

(* Where the search stands: the stable shards before this one are there,   *)
(* and the nodes asked so far could not have this one stable.              *)
SearchInv ==
    phase = "collect" =>
        /\ shard \in 1..TotalShards + 1
        /\ \A s \in Shard : s < shard /\ s \in StableShards(blk) => s \in got
        /\ \A n \in asked : <<<<blk, shard>>, n>> \notin stable

(* What has been written.                                                  *)
SentInv ==
    /\ phase \in {"idle", "network"} => sent = 0
    /\ phase \in {"collect", "open"} => blk \in Block /\ sent = blk - 1

IInv ==
    /\ PlaceIInv
    /\ DownloadTypeOK
    /\ WorldInv
    /\ SearchInv
    /\ SentInv
    /\ DownloadDelivers

----------------------------------------------------------------------------
LEMMA Sizes ==
    /\ Blocks \in Nat \ {0} /\ TotalShards \in Nat \ {0} /\ DataShards \in Nat \ {0}
    /\ IsFiniteSet(Shard)
<1>1. Blocks \in Nat \ {0} /\ TotalShards \in Nat \ {0} /\ DataShards \in Nat \ {0}
  BY PlacementAssumption
<1> QED BY <1>1, FS_Interval DEF Shard

LEMMA DownloadInitIInv == DownloadInit => IInv
<1> SUFFICES ASSUME DownloadInit PROVE IInv
  OBVIOUS
<1>1. PlaceIInv
  BY PlaceInitIInv DEF DownloadInit
<1>2. DownloadTypeOK
  <2>1. PlaceTypeOK
    BY <1>1 DEF PlaceIInv
  <2>2. blk \in 0..Blocks /\ shard \in 0..TotalShards + 1 /\ sent \in 0..Blocks
    BY Sizes DEF DownloadInit
  <2>3. beacon \in BOOLEAN /\ steady \in BOOLEAN
    BY DEF DownloadInit
  <2> QED BY <2>1, <2>2, <2>3 DEF DownloadInit, DownloadTypeOK, Answers
<1>3. WorldInv /\ SearchInv /\ SentInv /\ DownloadDelivers
  BY DEF DownloadInit, WorldInv, SearchInv, SentInv, DownloadDelivers
<1> QED BY <1>1, <1>2, <1>3 DEF IInv

(* When there is a manifest the placement is at rest.                      *)
LEMMA PlaceRests ==
    ASSUME PlaceIInv, PlaceNext, manifest # {}
    PROVE  UNCHANGED <<targets, up, store, manifest>>
<1>1. CASE RequestNodes
  BY <1>1 DEF RequestNodes
<1>2. ASSUME NEW w \in Worker, NEW c \in Chunk, BeginPick(w, c)
      PROVE  UNCHANGED <<targets, up, store, manifest>>
  BY <1>2 DEF BeginPick
<1>3. ASSUME NEW w \in Worker, NEW i \in 1..left[w], PickOne(w, i)
      PROVE  UNCHANGED <<targets, up, store, manifest>>
  BY <1>3 DEF PickOne
<1>4. ASSUME NEW w \in Worker, EndPick(w) PROVE FALSE
  <2>1. job[w] \in Chunk /\ targets[job[w]] = {}
    BY <1>4 DEF EndPick, PlaceIInv, PlaceTypeOK, DrawInv
  <2> QED BY <2>1 DEF PlaceIInv, SettledInv
<1>5. ASSUME NEW c \in Chunk, NEW n \in Node, SaveChunk(c, n) PROVE FALSE
  BY <1>5 DEF SaveChunk
<1>6. ASSUME NEW s \in Server, InsertFileManifest(s) PROVE FALSE
  BY <1>6 DEF InsertFileManifest
<1> QED BY <1>1, <1>2, <1>3, <1>4, <1>5, <1>6 DEF PlaceNext

(* The stable chunks only get fewer.                                       *)
LEMMA FewerStable ==
    ASSUME IInv, stable' \subseteq stable, UNCHANGED readVars, steady' => steady
    PROVE  SearchInv' /\ SentInv' /\ DownloadDelivers'
<1>1. \A b \in Block : StableShards(b)' \subseteq StableShards(b)
  BY DEF StableShards
<1>2. SearchInv' /\ SentInv'
  <2>1. SentInv'
    BY DEF readVars, IInv, SentInv
  <2>2. UNCHANGED <<phase, blk, shard, asked, got>>
    BY DEF readVars
  <2>3. SearchInv'
    BY <2>2 DEF IInv, SearchInv, StableShards
  <2> QED BY <2>1, <2>3
<1>3. DownloadDelivers'
  <2> SUFFICES ASSUME phase = "done", answer = "ok", steady,
                      \A b \in Block : Cardinality(StableShards(b)') >= DataShards
               PROVE  sent = Blocks
    BY DEF DownloadDelivers, readVars
  <2>1. ASSUME NEW b \in Block PROVE Cardinality(StableShards(b)) >= DataShards
    <3>2. IsFiniteSet(StableShards(b))
      BY Sizes, FS_Subset DEF StableShards
    <3>3. Cardinality(StableShards(b)') <= Cardinality(StableShards(b))
      BY <1>1, <2>1, <3>2, FS_Subset
    <3>4. Cardinality(StableShards(b)') \in Nat /\ Cardinality(StableShards(b)) \in Nat
      BY <1>1, <2>1, <3>2, FS_Subset, FS_CardinalityType
    <3> QED BY <2>1, <3>3, <3>4, Sizes
  <2> QED BY <2>1 DEF IInv, DownloadDelivers
<1> QED BY <1>2, <1>3

----------------------------------------------------------------------------
(* The world around the reader.                                            *)
LEMMA PlaceDownloadIInv == ASSUME IInv, Place PROVE IInv'
<1>a. PlaceNext /\ UNCHANGED <<readVars, beacon, steady, stable>>
  BY DEF Place
<1>1. PlaceIInv'
  BY <1>a, PlaceStepIInv DEF IInv
<1>2. DownloadTypeOK'
  BY <1>a, <1>1 DEF IInv, DownloadTypeOK, readVars, PlaceIInv
<1>3. WorldInv'
  <2>1. CASE phase = "idle"
    BY <1>a, <2>1 DEF IInv, WorldInv, readVars
  <2>2. CASE phase # "idle"
    <3>1. UNCHANGED <<targets, up, store, manifest>>
      BY <1>a, <2>2, PlaceRests DEF IInv, WorldInv
    <3> QED BY <1>a, <2>2, <3>1 DEF IInv, WorldInv, Served, readVars
  <2> QED BY <2>1, <2>2
<1>4. SearchInv' /\ SentInv' /\ DownloadDelivers'
  BY <1>a, FewerStable
<1> QED BY <1>1, <1>2, <1>3, <1>4 DEF IInv

LEMMA NodesIInv ==
    ASSUME IInv, NEW n \in Node, Turn(n) \/ \E c \in Chunk : LoseChunk(n, c)
    PROVE  IInv'
<1>a. UNCHANGED <<drawVars, manifest, readVars, beacon, steady>> /\ KeepStable
  BY DEF Turn, LoseChunk
<1>b. phase # "idle"
  BY DEF Turn, LoseChunk, Reading
<1>c. up' \subseteq Node /\ store' \in [Node -> SUBSET Chunk]
      /\ \A m \in Node : store'[m] \subseteq store[m]
  BY DEF Turn, LoseChunk, IInv, PlaceIInv, PlaceTypeOK
<1>1. PlaceIInv'
  <2>1. PlaceTypeOK'
    BY <1>a, <1>c DEF drawVars, IInv, PlaceIInv, PlaceTypeOK
  <2>2. AnswerInv' /\ TargetsDistinct' /\ SettledInv' /\ (\A w \in Worker : DrawInv(w))'
    BY <1>a DEF drawVars, IInv, PlaceIInv, AnswerInv, TargetsDistinct, SettledInv,
       DrawInv, Offers, Offered, Wanted, Answered
  <2>3. StoredInv'
    BY <1>a, <1>c DEF drawVars, IInv, PlaceIInv, StoredInv
  <2> QED BY <2>1, <2>2, <2>3 DEF PlaceIInv
<1>2. stable' = stable \cap Served(store', up')
  BY <1>a DEF KeepStable
<1>3. DownloadTypeOK'
  BY <1>a, <1>1, <1>2 DEF IInv, DownloadTypeOK, readVars, PlaceIInv
<1>4. WorldInv'
  <2>1. Served(store, up)' = Served(store', up')
    BY <1>a DEF Served, drawVars
  <2> QED BY <1>a, <1>b, <1>2, <2>1 DEF IInv, WorldInv, readVars
<1>5. SearchInv' /\ SentInv' /\ DownloadDelivers'
  BY <1>a, <1>2, FewerStable
<1> QED BY <1>1, <1>3, <1>4, <1>5 DEF IInv

LEMMA BeaconIInv == ASSUME IInv, TurnBeacon PROVE IInv'
<1>a. UNCHANGED <<placeVars, readVars, stable>>
  BY DEF TurnBeacon
<1>b. beacon' = ~beacon /\ steady' = (steady /\ beacon')
  BY DEF TurnBeacon
<1>1. PlaceIInv'
  BY <1>a, PlaceStepIInv DEF IInv
<1>2. beacon' \in BOOLEAN /\ steady' \in BOOLEAN
  BY <1>b
<1>3. DownloadTypeOK'
  BY <1>a, <1>1, <1>2 DEF IInv, DownloadTypeOK, readVars, PlaceIInv
<1>4. WorldInv'
  <2>1. steady' => beacon'
    BY <1>b
  <2> QED BY <1>a, <2>1 DEF IInv, WorldInv, Served, readVars, placeVars, drawVars
<1>5. SearchInv' /\ SentInv' /\ DownloadDelivers'
  <2>1. steady' => steady
    BY <1>b
  <2> QED BY <1>a, <2>1, FewerStable
<1> QED BY <1>1, <1>3, <1>4, <1>5 DEF IInv

LEMMA SyncIInv == ASSUME IInv, NEW s \in Server, SyncManifest(s) PROVE IInv'
<1>a. /\ UNCHANGED <<drawVars, up, store, readVars, beacon, steady, stable>>
      /\ manifest # {} /\ manifest' = manifest \cup {s} /\ phase = "idle"
  BY DEF SyncManifest
<1>1. PlaceIInv'
  <2>1. PlaceTypeOK'
    BY <1>a DEF drawVars, IInv, PlaceIInv, PlaceTypeOK
  <2>2. AnswerInv' /\ TargetsDistinct' /\ (\A w \in Worker : DrawInv(w))'
    BY <1>a DEF drawVars, IInv, PlaceIInv, AnswerInv, TargetsDistinct, DrawInv,
       Offers, Offered, Wanted, Answered
  <2>3. StoredInv' /\ SettledInv'
    BY <1>a DEF drawVars, IInv, PlaceIInv, StoredInv, SettledInv
  <2> QED BY <2>1, <2>2, <2>3 DEF PlaceIInv
<1>2. DownloadTypeOK'
  BY <1>a, <1>1 DEF IInv, DownloadTypeOK, readVars, PlaceIInv
<1>3. WorldInv'
  BY <1>a DEF IInv, WorldInv, readVars
<1>4. SearchInv' /\ SentInv' /\ DownloadDelivers'
  BY <1>a, FewerStable
<1> QED BY <1>1, <1>2, <1>3, <1>4 DEF IInv

----------------------------------------------------------------------------
(* The reader.                                                             *)

----------------------------------------------------------------------------
(* The reader.  It changes nothing around it.                              *)
LEMMA ReaderWorld ==
    ASSUME IInv, UNCHANGED <<placeVars, beacon, steady, stable>>,
           phase # "idle", phase' # "idle"
    PROVE  PlaceIInv' /\ WorldInv'
<1>1. PlaceIInv'
  BY PlaceStepIInv DEF IInv
<1>2. WorldInv'
  BY DEF IInv, WorldInv, Served, placeVars, drawVars
<1> QED BY <1>1, <1>2

LEMMA ReaderTypes ==
    ASSUME IInv, PlaceIInv', UNCHANGED <<beacon, steady, stable>>,
           phase' \in {"idle", "network", "collect", "open", "done"},
           answer' \in Answers, blk' \in 0..Blocks, shard' \in 0..TotalShards + 1,
           asked' \subseteq Node, got' \subseteq Shard, sent' \in 0..Blocks
    PROVE  DownloadTypeOK'
BY DEF IInv, DownloadTypeOK, PlaceIInv

(* The handler returns without the whole file.                             *)
LEMMA ReturnIInv ==
    ASSUME IInv, phase # "idle", NEW a \in Answers, Return(a),
           UNCHANGED <<placeVars, beacon, steady, stable>>,
           a = "ok" => ~steady \/ \E b \in Block : Cardinality(StableShards(b)) < DataShards
    PROVE  IInv'
<1>1. PlaceIInv' /\ WorldInv'
  BY ReaderWorld DEF Return
<1>2. DownloadTypeOK'
  BY <1>1, ReaderTypes DEF Return, IInv, DownloadTypeOK
<1>3. SearchInv' /\ SentInv'
  BY DEF Return, SearchInv, SentInv
<1>4. DownloadDelivers'
  <2>1. \A b \in Block : StableShards(b)' = StableShards(b)
    BY DEF StableShards
  <2>2. \A b \in Block : Cardinality(StableShards(b)) \in Nat
    <3>1. \A b \in Block : StableShards(b) \subseteq Shard
      BY DEF StableShards
    <3> QED BY <3>1, Sizes, FS_Subset, FS_CardinalityType
  <2> QED BY <2>1, <2>2, Sizes DEF Return, DownloadDelivers
<1> QED BY <1>1, <1>2, <1>3, <1>4 DEF IInv

LEMMA FetchIInv ==
    ASSUME IInv, FetchFails \/ \E s \in Server : FetchManifest(s)
    PROVE  IInv'
<1>a. UNCHANGED placeVars /\ UNCHANGED beacon /\ phase = "idle" /\ manifest # {}
  BY DEF FetchFails, FetchManifest
<1>b. UNCHANGED <<blk, shard, asked, got, sent>> /\ sent = 0
  BY DEF FetchFails, FetchManifest, Return, IInv, SentInv
<1>1. PlaceIInv'
  BY <1>a, PlaceStepIInv DEF IInv
<1>c. manifest' = manifest /\ Served(store, up)' = Served(store, up)
  BY <1>a DEF placeVars, drawVars, Served
<1>2. CASE /\ phase' = "network" /\ stable' = Served(store, up) /\ steady' = beacon
           /\ UNCHANGED answer
  <2>1. stable' \subseteq Chunk \X Node
    BY <1>2 DEF Served
  <2>2. steady' \in BOOLEAN /\ beacon' \in BOOLEAN
    BY <1>a, <1>2 DEF IInv, DownloadTypeOK
  <2>3. DownloadTypeOK'
    BY <1>1, <1>2, <1>b, <2>1, <2>2 DEF IInv, DownloadTypeOK, PlaceIInv
  <2>4. WorldInv'
    <3>1. steady' => beacon'
      BY <1>a, <1>2
    <3> QED BY <1>a, <1>c, <1>2, <3>1 DEF WorldInv
  <2>5. SearchInv' /\ SentInv' /\ DownloadDelivers'
    BY <1>2, <1>b DEF SearchInv, SentInv, DownloadDelivers
  <2> QED BY <1>1, <2>3, <2>4, <2>5 DEF IInv
<1>3. CASE /\ phase' = "done" /\ answer' \in {"error", "reset"}
           /\ UNCHANGED <<steady, stable>>
  <2>1. DownloadTypeOK'
    BY <1>a, <1>1, <1>3, <1>b DEF IInv, DownloadTypeOK, PlaceIInv, Answers
  <2>2. WorldInv'
    BY <1>a, <1>c, <1>3 DEF IInv, WorldInv
  <2>3. SearchInv' /\ SentInv' /\ DownloadDelivers'
    BY <1>3 DEF SearchInv, SentInv, DownloadDelivers
  <2> QED BY <1>1, <2>1, <2>2, <2>3 DEF IInv
<1> QED BY <1>2, <1>3 DEF FetchFails, FetchManifest, Return

(* The search for a block begins with its first shard.                     *)
LEMMA StartBlockIInv ==
    ASSUME IInv, NEW b \in Block, StartBlock(b), phase # "idle",
           UNCHANGED <<placeVars, answer, beacon, steady, stable>>, sent' = b - 1
    PROVE  IInv'
<1>1. PlaceIInv' /\ WorldInv'
  BY ReaderWorld DEF StartBlock
<1>2. b \in 0..Blocks /\ b \in Int /\ 1 \in 0..TotalShards + 1 /\ b - 1 \in 0..Blocks
  BY Sizes DEF Block
<1>3. DownloadTypeOK'
  BY <1>1, <1>2, ReaderTypes DEF StartBlock, IInv, DownloadTypeOK
<1>4. SearchInv'
  <2>1. shard' = 1 /\ asked' = {} /\ \A s \in Shard : ~(s < 1)
    BY DEF StartBlock, Shard
  <2> QED BY <2>1, Sizes DEF SearchInv
<1>5. SentInv' /\ DownloadDelivers'
  BY DEF StartBlock, SentInv, DownloadDelivers
<1> QED BY <1>1, <1>3, <1>4, <1>5 DEF IInv

(* A node has the shard or has it not; when all nodes of the chunk were    *)
(* asked in vain it is not stable.                                         *)
LEMMA RequestChunkIInv == ASSUME IInv, NEW n \in Node, RequestChunk(n) PROVE IInv'
<1>a. /\ phase = "collect" /\ shard \in Shard /\ n \in targets[<<blk, shard>>] \ asked
      /\ UNCHANGED <<placeVars, phase, answer, blk, sent, beacon, steady, stable>>
  BY DEF RequestChunk, Searching
<1>b. blk \in Block /\ <<blk, shard>> \in Chunk
  BY <1>a DEF IInv, SentInv, Chunk
<1>c. shard \in Nat /\ shard + 1 \in 1..TotalShards + 1 /\ shard \in 1..TotalShards + 1
  BY <1>a, Sizes DEF Shard
<1>d. stable \subseteq Served(store, up)
  BY DEF IInv, WorldInv
<1>1. PlaceIInv' /\ WorldInv'
  BY <1>a, ReaderWorld
<1>2. SentInv' /\ DownloadDelivers'
  BY <1>a DEF IInv, SentInv, DownloadDelivers
<1>e. \A b : StableShards(b)' = StableShards(b)
  BY <1>a DEF StableShards
<1>3. CASE AfterHit(n)
  <2>1. shard' = shard + 1 /\ asked' = {} /\ got' = got \cup {shard}
    BY <1>3 DEF AfterHit
  <2>2. DownloadTypeOK'
    BY <1>1, <1>a, <1>c, <2>1, ReaderTypes DEF IInv, DownloadTypeOK
  <2>3. SearchInv'
    <3>1. ASSUME NEW s \in Shard, s < shard + 1, s \in StableShards(blk)
          PROVE  s \in got \cup {shard}
      <4>1. s = shard \/ s < shard
        BY <1>c, <3>1 DEF Shard
      <4> QED BY <1>a, <3>1, <4>1 DEF IInv, SearchInv
    <3> QED BY <1>a, <1>c, <2>1, <3>1 DEF SearchInv, StableShards
  <2> QED BY <1>1, <1>2, <2>2, <2>3 DEF IInv
<1>4. CASE <<<<blk, shard>>, n>> \notin Served(store, up) /\ AfterMiss(n)
  <2>0. <<<<blk, shard>>, n>> \notin stable
    BY <1>d, <1>4
  <2>1. CASE asked \cup {n} = targets[<<blk, shard>>]
    <3>1. shard' = shard + 1 /\ asked' = {} /\ got' = got
      BY <1>4, <2>1 DEF AfterMiss
    <3>2. shard \notin StableShards(blk)
      <4> SUFFICES ASSUME NEW m \in Node, <<<<blk, shard>>, m>> \in stable PROVE FALSE
        BY DEF StableShards
      <4>1. m \in targets[<<blk, shard>>]
        BY <1>d DEF Served
      <4>2. m \in asked \cup {n}
        BY <2>1, <4>1
      <4>3. m \notin asked
        BY <1>a DEF IInv, SearchInv
      <4> QED BY <2>0, <4>2, <4>3
    <3>3. DownloadTypeOK'
      BY <1>1, <1>a, <1>c, <3>1, ReaderTypes DEF IInv, DownloadTypeOK
    <3>4. SearchInv'
      <4>1. ASSUME NEW s \in Shard, s < shard + 1, s \in StableShards(blk)
            PROVE  s \in got
        <5>1. s < shard
          BY <1>c, <3>2, <4>1 DEF Shard
        <5> QED BY <1>a, <4>1, <5>1 DEF IInv, SearchInv
      <4> QED BY <1>a, <1>c, <3>1, <4>1 DEF SearchInv, StableShards
    <3> QED BY <1>1, <1>2, <3>3, <3>4 DEF IInv
  <2>2. CASE asked \cup {n} # targets[<<blk, shard>>]
    <3>1. shard' = shard /\ asked' = asked \cup {n} /\ got' = got
      BY <1>4, <2>2 DEF AfterMiss
    <3>2. DownloadTypeOK'
      BY <1>1, <1>a, <1>c, <3>1, ReaderTypes DEF IInv, DownloadTypeOK
    <3>3. SearchInv'
      BY <1>a, <2>0, <3>1 DEF IInv, SearchInv, StableShards
    <3> QED BY <1>1, <1>2, <3>2, <3>3 DEF IInv
  <2> QED BY <2>1, <2>2
<1> QED BY <1>3, <1>4 DEF RequestChunk

(* A block with too few shards had too few stable ones.                    *)
LEMMA JoinIInv == ASSUME IInv, JoinBlock PROVE IInv'
<1>a. phase = "collect" /\ ~Searching /\ UNCHANGED <<placeVars, beacon, steady, stable>>
  BY DEF JoinBlock
<1>b. blk \in Block
  BY <1>a DEF IInv, SentInv
<1>1. CASE Enough
  <2>1. phase' = "open" /\ UNCHANGED <<answer, blk, shard, asked, got, sent>>
    BY <1>1 DEF JoinBlock
  <2>2. PlaceIInv' /\ WorldInv'
    BY <1>a, <2>1, ReaderWorld
  <2>3. DownloadTypeOK'
    BY <1>a, <2>1, <2>2, ReaderTypes DEF IInv, DownloadTypeOK
  <2>4. SearchInv' /\ SentInv' /\ DownloadDelivers'
    BY <1>a, <2>1 DEF IInv, SearchInv, SentInv, DownloadDelivers
  <2> QED BY <2>2, <2>3, <2>4 DEF IInv
<1>2. CASE ~Enough
  <2>1. shard = TotalShards + 1
    BY <1>a, <1>2, Sizes DEF Searching, Shard, IInv, SearchInv
  <2>2. \A s \in Shard : s < shard
    BY <2>1, Sizes DEF Shard
  <2>3. StableShards(blk) \subseteq got
    BY <1>a, <2>2 DEF IInv, SearchInv, StableShards
  <2>4. got \subseteq Shard
    BY DEF IInv, DownloadTypeOK
  <2>5. IsFiniteSet(got) /\ Cardinality(got) \in Nat
    BY <2>4, Sizes, FS_Subset, FS_CardinalityType
  <2>6. Cardinality(StableShards(blk)) <= Cardinality(got)
    BY <2>3, <2>5, FS_Subset
  <2>7. Cardinality(StableShards(blk)) \in Nat
    BY <2>3, <2>5, FS_Subset, FS_CardinalityType
  <2>8. Cardinality(StableShards(blk)) < DataShards
    BY <1>2, <2>5, <2>6, <2>7, Sizes DEF Enough
  <2>9. Return("ok") /\ "ok" \in Answers
    BY <1>2 DEF JoinBlock, Answers
  <2> QED BY <1>a, <1>b, <2>8, <2>9, ReturnIInv
<1> QED BY <1>1, <1>2

LEMMA OpenNetworkIInv == ASSUME IInv, OpenNetwork PROVE IInv'
<1>a. phase = "network" /\ UNCHANGED <<placeVars, beacon, steady, stable>>
  BY DEF OpenNetwork
<1>1. CASE StartBlock(1) /\ UNCHANGED <<answer, sent>>
  <2>1. 1 \in Block /\ sent' = 1 - 1
    BY <1>a, <1>1, Sizes DEF Block, IInv, SentInv
  <2> QED BY <1>a, <1>1, <2>1, StartBlockIInv
<1>2. CASE ~beacon /\ Return("ok")
  <2>1. ~steady /\ "ok" \in Answers
    BY <1>2 DEF IInv, WorldInv, Answers
  <2> QED BY <1>a, <1>2, <2>1, ReturnIInv
<1> QED BY <1>1, <1>2 DEF OpenNetwork

LEMMA WriteBlockIInv == ASSUME IInv, WriteBlock PROVE IInv'
<1>a. phase = "open" /\ UNCHANGED <<placeVars, beacon, steady, stable>>
  BY DEF WriteBlock
<1>b. blk \in Block /\ sent = blk - 1 /\ blk \in Int
  BY <1>a DEF IInv, SentInv, Block
<1>1. CASE beacon /\ MoreBlocks
  <2>1. StartBlock(blk + 1) /\ sent' = sent + 1 /\ UNCHANGED answer
    BY <1>1 DEF WriteBlock
  <2>2. blk + 1 \in Block /\ sent' = (blk + 1) - 1
    BY <1>1, <1>b, <2>1, Sizes DEF MoreBlocks, Block
  <2> QED BY <1>a, <2>1, <2>2, StartBlockIInv
<1>2. CASE beacon /\ ~MoreBlocks
  <2>1. /\ phase' = "done" /\ answer' = "ok" /\ sent' = sent + 1
        /\ UNCHANGED <<blk, shard, asked, got>>
    BY <1>2 DEF WriteBlock
  <2>2. sent' = Blocks
    BY <1>2, <1>b, <2>1, Sizes DEF MoreBlocks, Block
  <2>3. PlaceIInv' /\ WorldInv'
    BY <1>a, <2>1, ReaderWorld
  <2>4. DownloadTypeOK'
    BY <1>a, <2>1, <2>2, <2>3, Sizes, ReaderTypes DEF IInv, DownloadTypeOK, Answers
  <2>5. SearchInv' /\ SentInv' /\ DownloadDelivers'
    BY <2>1, <2>2 DEF SearchInv, SentInv, DownloadDelivers
  <2> QED BY <2>3, <2>4, <2>5 DEF IInv
<1>3. CASE ~beacon
  <2>1. Return("ok") /\ ~steady /\ "ok" \in Answers
    BY <1>3 DEF WriteBlock, IInv, WorldInv, Answers
  <2> QED BY <1>a, <2>1, ReturnIInv
<1> QED BY <1>1, <1>2, <1>3

LEMMA ClientLostIInv == ASSUME IInv, ClientLost PROVE IInv'
<1>1. phase = "open" /\ Return("lost") /\ UNCHANGED <<placeVars, beacon, steady, stable>>
  BY DEF ClientLost
<1>2. "lost" \in Answers /\ "lost" # "ok"
  BY DEF Answers
<1> QED BY <1>1, <1>2, ReturnIInv

LEMMA DownloadStutterIInv == ASSUME IInv, UNCHANGED downloadVars PROVE IInv'
<1>a. UNCHANGED <<placeVars, readVars, beacon, steady, stable>>
  BY DEF downloadVars
<1>1. PlaceIInv'
  BY <1>a, PlaceStepIInv DEF IInv
<1>2. DownloadTypeOK'
  BY <1>a, <1>1 DEF IInv, DownloadTypeOK, readVars, PlaceIInv
<1>3. WorldInv'
  BY <1>a DEF IInv, WorldInv, Served, readVars, placeVars, drawVars
<1>4. SearchInv' /\ SentInv' /\ DownloadDelivers'
  BY <1>a, FewerStable
<1> QED BY <1>1, <1>2, <1>3, <1>4 DEF IInv

LEMMA DownloadStepIInv == IInv /\ [DownloadNext]_downloadVars => IInv'
BY PlaceDownloadIInv, NodesIInv, BeaconIInv, SyncIInv, FetchIInv, OpenNetworkIInv,
   RequestChunkIInv, JoinIInv, WriteBlockIInv, ClientLostIInv, DownloadStutterIInv
   DEF DownloadNext, Read

LEMMA AlwaysIInv == DownloadSpec => []IInv
BY DownloadInitIInv, DownloadStepIInv, PTL DEF DownloadSpec

----------------------------------------------------------------------------
(* pickRandomItems and GetFile: lists, draws and the reader's state keep   *)
(* their types.                                                            *)
THEOREM DownloadTypeCorrect == DownloadSpec => []DownloadTypeOK
<1>1. IInv => DownloadTypeOK
  BY DEF IInv
<1> QED BY <1>1, AlwaysIInv, PTL

(* pickRandomItems, with the workers and everything around them: each      *)
(* chunk gets as many different nodes of the answer as it should.          *)
THEOREM TargetsStayDistinct == DownloadSpec => []TargetsDistinct
<1>1. IInv => TargetsDistinct
  BY DEF IInv, PlaceIInv
<1> QED BY <1>1, AlwaysIInv, PTL

(* StreamReconstruct against nodes that come and go: with DataShards       *)
(* chunks of each block that stay available, and a beacon that opens the   *)
(* keys, the client gets the whole file.                                   *)
THEOREM Delivers == DownloadSpec => []DownloadDelivers
<1>1. IInv => DownloadDelivers
  BY DEF IInv
<1> QED BY <1>1, AlwaysIInv, PTL
=============================================================================
