------------------------- MODULE FileLifecycleProofs -------------------------
(* Proofs about FileLifecycle.  The file stays until it expires when the   *)
(* lookups of the cleanups do not fail and when an upload and the way of   *)
(* its manifest to the last server take no longer than an orphan may be    *)
(* old: the assumptions without which TLC finds the cleanup of a node      *)
(* deleting the chunks of a completed file.                                *)
EXTENDS FileLifecycle, UploadProofs

(* The file will never be, or is no longer, a completed one: its chunks    *)
(* are nobody's promise.                                                   *)
Abandoned ==
    \/ phase \in {"failed", "aborted"}
    \/ phase = "crashed" /\ status # "completed"
    \/ del # "none"

(* As long as the file counts, nobody has listed a chunk for deletion, and *)
(* what was acknowledged is stored.  The list of a cleanup outlives the    *)
(* reason for it: that is why it is part of the invariant.                 *)
SafeInv ==
    ~Abandoned /\ ~Expired =>
        /\ dels = {}
        /\ \A n \in Node : kill[n] = {}
        /\ \A c \in Chunk : Acked(c) => c \in store[acked[c]]

(* A completed file has all its chunks settled and, as long as it counts,  *)
(* its manifest.                                                           *)
ManifestInv ==
    (phase = "secured" \/ status = "completed") =>
        /\ AllSettled
        /\ del = "none" /\ ~Expired => registered

(* An upload is no older than MaxUpload.                                   *)
TimeInv ==
    /\ phase = "idle" => clock = 0 /\ status = "none" /\ del = "none"
    /\ phase = "saving" => clock <= MaxUpload
    /\ status = "completed" => phase \in {"secured", "crashed"}

(* As long as a completed file counts, only a young one has a manifest     *)
(* that a lookup may miss.                                                 *)
LagInv ==
    (phase = "secured" \/ status = "completed") /\ del = "none" /\ ~Expired /\ ~spread
        => clock <= MaxUpload + SyncLag

LifeIInv == LifeTypeOK /\ SafeInv /\ ManifestInv /\ TimeInv /\ LagInv

----------------------------------------------------------------------------
LEMMA LifeInitIInv == LifeInit => LifeIInv
<1> SUFFICES ASSUME LifeInit PROVE LifeIInv
  OBVIOUS
<1>1. LifeTypeOK
  BY InitIInv, LifecycleAssumption DEF LifeInit, IInv, LifeTypeOK
<1>2. SafeInv
  BY DEF LifeInit, Init, SafeInv, Acked
<1>3. ManifestInv /\ TimeInv /\ LagInv
  BY DEF LifeInit, Init, ManifestInv, TimeInv, LagInv
<1> QED BY <1>1, <1>2, <1>3 DEF LifeIInv

LEMMA SpreadStep ==
    ASSUME TypeOK, spread \in BOOLEAN, FirstServer
    PROVE  spread' \in BOOLEAN
<1>1. CASE registered' /\ ~registered
  <2>1. spread' = (SyncLag = 0)
    BY <1>1 DEF FirstServer
  <2> QED BY <2>1
<1>2. CASE ~(registered' /\ ~registered)
  <2>1. spread' = spread
    BY <1>2 DEF FirstServer
  <2> QED BY <2>1
<1> QED BY <1>1, <1>2

LEMMA RemovedType ==
    ASSUME TypeOK, NEW r \in Removed PROVE r \in BOOLEAN
<1>1. r = FALSE \/ r = registered
  BY DEF Removed
<1>2. registered \in BOOLEAN
  BY DEF TypeOK
<1> QED BY <1>1, <1>2

(* The records keep their types.                                           *)
LEMMA LifeTypeStep == LifeTypeOK /\ [LifeNext]_allVars => LifeTypeOK'
<1> SUFFICES ASSUME LifeTypeOK, [LifeNext]_allVars PROVE LifeTypeOK'
  OBVIOUS
<1> USE LifecycleAssumption DEF LifeTypeOK
<1>1. CASE Tick
  BY <1>1, TypeStep DEF Tick
<1>2. CASE UploadInTime
  <2>1. TypeOK'
    BY <1>2, TypeStep DEF UploadInTime, Next
  <2>2. created' \in [Chunk -> 0..Horizon]
    BY <1>2 DEF UploadInTime, AfterUploadStep, Stamp
  <2>3. spread' \in BOOLEAN
    BY <1>2, SpreadStep DEF UploadInTime, AfterUploadStep
  <2> QED BY <1>2, <2>1, <2>2, <2>3 DEF UploadInTime, AfterUploadStep
<1>3. CASE WireStep
  <2>1. TypeOK'
    BY <1>3, TypeStep DEF WireStep, Next
  <2>2. spread' \in BOOLEAN
    BY <1>3, SpreadStep DEF WireStep
  <2> QED BY <1>3, <2>1, <2>2 DEF WireStep
<1>4. ASSUME NEW n \in Node, GcStart(n) PROVE LifeTypeOK'
  BY <1>4, TypeStep DEF GcStart, TypeOK
<1>5. ASSUME NEW n \in Node, NEW c \in Chunk, GcExamine(n, c) PROVE LifeTypeOK'
  BY <1>5, TypeStep DEF GcExamine
<1>6. ASSUME NEW n \in Node, NEW c \in Chunk, GcDelete(n, c) PROVE LifeTypeOK'
  BY <1>6 DEF GcDelete, TypeOK, uploadVars
<1>7. ASSUME NEW n \in Node, RestartNode(n) PROVE LifeTypeOK'
  BY <1>7, TypeStep DEF RestartNode
<1>8. CASE CleanBootstrapDatabase
  <2>1. registered' \in BOOLEAN
    BY <1>8, RemovedType DEF CleanBootstrapDatabase
  <2> QED BY <1>8, <2>1 DEF CleanBootstrapDatabase, TypeOK, uploadVars, lifeVars
<1>9. CASE DeleteFetch
  BY <1>9 DEF DeleteFetch, Holders, TypeOK, uploadVars
<1>10. CASE DeleteManifest
  <2>1. registered' \in BOOLEAN
    BY <1>10, RemovedType DEF DeleteManifest
  <2> QED BY <1>10, <2>1 DEF DeleteManifest, TypeOK, uploadVars
<1>11. CASE DeleteManifestFails
  BY <1>11 DEF DeleteManifestFails, TypeOK, uploadVars
<1>12. CASE SyncManifest
  BY <1>12, TypeStep DEF SyncManifest
<1>13. CASE UNCHANGED allVars
  BY <1>13, TypeStep DEF allVars, lifeVars
<1> QED BY <1>1, <1>2, <1>3, <1>4, <1>5, <1>6, <1>7, <1>8, <1>9, <1>10, <1>11,
           <1>12, <1>13 DEF LifeNext, Gc


----------------------------------------------------------------------------
(* Until it expires a file that is not abandoned has no chunk that a       *)
(* cleanup could condemn: until the manifest has reached every server none *)
(* is old enough, and afterwards every lookup shows the manifest.          *)
LEMMA NothingCondemned ==
    ASSUME MaxUpload + SyncLag <= OrphanAge, ~Outages, LifeIInv, ~Abandoned, ~Expired,
           NEW c \in Chunk, NEW shown \in ManifestShown
    PROVE  ~Condemned(c, shown)
<1>1. CASE phase \in {"idle", "saving"}
  <2>1. clock <= MaxUpload
    BY <1>1, LifecycleAssumption DEF LifeIInv, TimeInv
  <2>2. created[c] \in Nat /\ clock \in Nat
    BY DEF LifeIInv, LifeTypeOK
  <2> QED BY <2>1, <2>2, LifecycleAssumption DEF Condemned, Overage
<1>2. CASE phase \notin {"idle", "saving"}
  <2>1. (phase = "secured" \/ status = "completed") /\ del = "none"
    BY <1>2 DEF Abandoned, LifeIInv, LifeTypeOK, TypeOK, Phase
  <2>2. registered
    BY <2>1 DEF LifeIInv, ManifestInv
  <2>3. CASE spread
    <3>1. shown = registered
      BY <2>3 DEF ManifestShown, LookupAnswers
    <3> QED BY <2>2, <3>1 DEF Condemned
  <2>4. CASE ~spread
    <3>1. clock <= MaxUpload + SyncLag
      BY <2>1, <2>4 DEF LifeIInv, LagInv
    <3>2. created[c] \in Nat /\ clock \in Nat
      BY DEF LifeIInv, LifeTypeOK
    <3> QED BY <3>1, <3>2, LifecycleAssumption DEF Condemned, Overage
  <2> QED BY <2>3, <2>4
<1> QED BY <1>1, <1>2

(* Of the uploader's steps only a crash touches a deletion.                *)
LEMMA DelKept ==
    ASSUME AfterUploadStep, phase' # "crashed" \/ phase = "crashed"
    PROVE  UNCHANGED <<del, clock, kill, expiry>>
BY DEF AfterUploadStep

(* The uploader's steps.                                                   *)
LEMMA UploadInTimeIInv ==
    ASSUME LifeIInv, UploadInTime
    PROVE  SafeInv' /\ ManifestInv' /\ TimeInv'
<1> USE DEF LifeIInv
<1>a. AfterUploadStep /\ UploadStep
  BY DEF UploadInTime
<1>b. TypeOK
  BY DEF LifeTypeOK
<1>1. CASE PutFile
  <2>1. UNCHANGED <<del, clock, kill, expiry>>
    BY <1>1, <1>a, DelKept DEF PutFile
  <2>2. clock = 0 /\ status = "none" /\ del = "none" /\ phase = "idle"
    BY <1>1 DEF PutFile, TimeInv
  <2>3. SafeInv'
    BY <1>1, <2>1, <2>2 DEF PutFile, remoteVars, SafeInv, Abandoned, Expired, Acked
  <2>4. ManifestInv' /\ TimeInv'
    BY <1>1, <2>1, <2>2, LifecycleAssumption DEF PutFile, ManifestInv, TimeInv
  <2> QED BY <2>3, <2>4
<1>2. ASSUME NEW c \in Chunk, NEW S \in SUBSET Node, EmitChunk(c, S)
      PROVE  SafeInv' /\ ManifestInv' /\ TimeInv'
  <2>1. UNCHANGED <<del, clock, kill, expiry>>
    BY <1>2, <1>a, DelKept DEF EmitChunk
  <2> QED BY <1>2, <2>1 DEF EmitChunk, Working, remoteVars, SafeInv, Abandoned,
       Expired, Acked, ManifestInv, TimeInv
<1>3. ASSUME NEW c \in Chunk, DropChunk(c)
      PROVE  SafeInv' /\ ManifestInv' /\ TimeInv'
  <2>1. UNCHANGED <<del, clock, kill, expiry>>
    BY <1>3, <1>a, DelKept DEF DropChunk
  <2> QED BY <1>3, <2>1 DEF DropChunk, Working, remoteVars, SafeInv, Abandoned,
       Expired, Acked, ManifestInv, TimeInv
<1>4. ASSUME NEW c \in Chunk, NEW n \in Node, SaveChunk(c, n) \/ SaveFails(c, n)
      PROVE  SafeInv' /\ ManifestInv' /\ TimeInv'
  <2>1. phase \in {"saving", "aborted"} /\ UNCHANGED <<phase, status, dels>>
    BY <1>4 DEF SaveChunk, SaveFails, Try, Working
  <2>2. UNCHANGED <<del, clock, kill, expiry>>
    BY <2>1, <1>a, DelKept
  <2>3. SafeInv'
    <3> SUFFICES ASSUME ~Abandoned, ~Expired
                 PROVE  /\ dels' = {}
                        /\ \A m \in Node : kill'[m] = {}
                        /\ \A d \in Chunk : Acked(d)' => d \in store'[acked'[d]]
      BY <2>1, <2>2 DEF SafeInv, Abandoned, Expired
    <3> QED BY <1>4, <1>b, <2>1, <2>2, SavingKeepsStored DEF SafeInv
  <2> QED BY <2>1, <2>2, <2>3 DEF ManifestInv, TimeInv
<1>5. CASE Register
  <2>1. UNCHANGED <<del, clock, kill, expiry>>
    BY <1>5, <1>a, DelKept DEF Register
  <2>2. SafeInv'
    BY <1>5, <2>1 DEF Register, SafeInv, Abandoned, Expired, Acked, TimeInv
  <2> QED BY <1>5, <2>1, <2>2 DEF Register, ManifestInv, TimeInv, AllSettled,
       Pending, Acked
<1>6. CASE Fail
  <2>1. UNCHANGED <<del, clock, kill, expiry>>
    BY <1>6, <1>a, DelKept DEF Fail
  <2> QED BY <1>6, <2>1 DEF Fail, SafeInv, Abandoned, ManifestInv, TimeInv
<1>7. CASE Abort
  <2>1. UNCHANGED <<del, clock, kill, expiry>>
    BY <1>7, <1>a, DelKept DEF Abort
  <2> QED BY <1>7, <2>1 DEF Abort, SafeInv, Abandoned, ManifestInv, TimeInv
<1>8. CASE SaveStatus
  <2>1. UNCHANGED <<del, clock, kill, expiry>>
    BY <1>8, <1>a, DelKept DEF SaveStatus
  <2>2. SafeInv'
    BY <1>8, <2>1 DEF SaveStatus, remoteVars, SafeInv, Abandoned, Expired, Acked
  <2>3. ManifestInv'
    BY <1>8, <2>1 DEF SaveStatus, remoteVars, ManifestInv, AllSettled, Pending,
       Acked, Expired
  <2>4. TimeInv'
    BY <1>8, <2>1 DEF SaveStatus, TimeInv
  <2> QED BY <2>2, <2>3, <2>4
<1>9. CASE Crash
  <2>1. UNCHANGED <<clock, kill, expiry>> /\ (del' = "none" => del = "none")
    BY <1>a DEF AfterUploadStep
  <2>2. SafeInv'
    BY <1>9, <2>1 DEF Crash, SafeInv, Abandoned, Expired, Acked, TimeInv
  <2> QED BY <1>9, <2>1, <2>2 DEF Crash, ManifestInv, TimeInv, AllSettled, Pending,
       Acked, Expired
<1> QED BY <1>a, <1>1, <1>2, <1>3, <1>4, <1>5, <1>6, <1>7, <1>8, <1>9 DEF UploadStep

(* What arrives late only adds chunks and the manifest; a deletion on the  *)
(* wire belongs to an abandoned or an expired file.                        *)
LEMMA WireIInv ==
    ASSUME LifeIInv, WireStep
    PROVE  SafeInv' /\ ManifestInv' /\ TimeInv'
<1> USE DEF LifeIInv, uploadVars
<1>a. /\ RemoteStep /\ FirstServer
      /\ UNCHANGED <<clock, created, todo, kill, del, restarts, expiry>>
  BY DEF WireStep
<1>b. UNCHANGED uploadVars
  BY <1>a DEF RemoteStep, LateSave, LateSaveLost, LateManifest, DeleteChunk,
     DeleteChunkFails
<1>1. TimeInv'
  BY <1>a, <1>b DEF TimeInv
<1>2. ManifestInv'
  <2>1. registered => registered'
    <3>1. registered \in BOOLEAN
      BY DEF LifeTypeOK, TypeOK
    <3>2. registered' = registered \/ registered' = TRUE
      BY <1>a DEF RemoteStep, LateSave, LateSaveLost, LateManifest, DeleteChunk,
         DeleteChunkFails
    <3> QED BY <3>1, <3>2
  <2> QED BY <1>a, <1>b, <2>1 DEF ManifestInv, AllSettled, Pending, Acked, Expired
<1>3. SafeInv'
  <2> SUFFICES ASSUME ~Abandoned, ~Expired
               PROVE  /\ dels' = {}
                      /\ \A c \in Chunk : Acked(c) => c \in store'[acked[c]]
    BY <1>a, <1>b DEF SafeInv, Abandoned, Expired, Acked
  <2>1. dels = {}
    BY DEF SafeInv
  <2>2. dels' = {} /\ \A n \in Node : store[n] \subseteq store'[n]
    BY <1>a, <2>1 DEF RemoteStep, LateSave, LateSaveLost, LateManifest, DeleteChunk,
       DeleteChunkFails, LifeTypeOK, TypeOK
  <2> QED BY <2>2 DEF SafeInv, LifeTypeOK, TypeOK, Acked
<1> QED BY <1>1, <1>2, <1>3

(* The cleanup of a node condemns nothing of a file that counts, and       *)
(* deletes what it has condemned.                                          *)
LEMMA GcIInv ==
    ASSUME MaxUpload + SyncLag <= OrphanAge, ~Outages, LifeIInv,
           NEW n \in Node, Gc(n) \/ RestartNode(n)
    PROVE  SafeInv' /\ ManifestInv' /\ TimeInv'
<1> USE DEF LifeIInv
<1>a. UNCHANGED <<uploadVars, registered, dels, clock, created, del, expiry>>
  BY DEF Gc, GcStart, GcExamine, GcDelete, RestartNode, vars, remoteVars
<1>1. TimeInv' /\ ManifestInv'
  BY <1>a DEF uploadVars, TimeInv, ManifestInv, AllSettled, Pending, Acked, Expired
<1>2. SafeInv'
  <2> SUFFICES ASSUME ~Abandoned, ~Expired
               PROVE  kill' = kill /\ store' = store
    BY <1>a DEF SafeInv, Abandoned, Expired, Acked, uploadVars
  <2>0. \A m \in Node : kill[m] = {}
    BY DEF SafeInv
  <2>1. CASE GcStart(n)
    BY <2>1 DEF GcStart, vars, remoteVars
  <2>2. ASSUME NEW c \in Chunk, GcExamine(n, c) PROVE kill' = kill /\ store' = store
    BY <2>2, NothingCondemned DEF GcExamine, vars, remoteVars
  <2>3. ASSUME NEW c \in Chunk, GcDelete(n, c) PROVE FALSE
    BY <2>0, <2>3 DEF GcDelete
  <2>4. CASE RestartNode(n)
    BY <2>0, <2>4 DEF RestartNode, vars, remoteVars, LifeTypeOK
  <2> QED BY <2>1, <2>2, <2>3, <2>4 DEF Gc
<1> QED BY <1>1, <1>2

(* Time, the bootstrap server and the user.                                *)
LEMMA OthersIInv ==
    ASSUME LifeIInv,
           \/ Tick \/ SyncManifest \/ CleanBootstrapDatabase
           \/ DeleteFetch \/ DeleteManifest \/ DeleteManifestFails
    PROVE  SafeInv' /\ ManifestInv' /\ TimeInv'
<1> USE DEF LifeIInv
<1>1. CASE Tick
  <2>1. UNCHANGED vars /\ UNCHANGED <<kill, del, expiry>> /\ phase # "idle"
    BY <1>1 DEF Tick
  <2>2. clock' = clock + 1 /\ (phase = "saving" => clock < MaxUpload)
    BY <1>1 DEF Tick
  <2>3. Expired => Expired'
    BY <2>1, <2>2, LifecycleAssumption DEF LifeTypeOK, Expired
  <2>4. SafeInv'
    BY <2>1, <2>3 DEF vars, uploadVars, remoteVars, SafeInv, Abandoned, Acked
  <2>5. ManifestInv'
    BY <2>1, <2>3 DEF vars, uploadVars, remoteVars, ManifestInv, AllSettled, Pending,
       Acked
  <2>6. TimeInv'
    BY <2>1, <2>2, LifecycleAssumption DEF vars, uploadVars, LifeTypeOK, TimeInv
  <2> QED BY <2>4, <2>5, <2>6
<1>2. CASE CleanBootstrapDatabase
  BY <1>2 DEF CleanBootstrapDatabase, ManifestDue, uploadVars, lifeVars, SafeInv,
     ManifestInv, TimeInv, Abandoned, Expired, AllSettled, Pending, Acked
<1>3. CASE DeleteFetch
  BY <1>3 DEF DeleteFetch, uploadVars, SafeInv, ManifestInv, TimeInv, Abandoned,
     AllSettled, Pending, Acked
<1>4. CASE DeleteManifest
  BY <1>4 DEF DeleteManifest, uploadVars, SafeInv, ManifestInv, TimeInv, Abandoned,
     AllSettled, Pending, Acked
<1>5. CASE DeleteManifestFails
  BY <1>5 DEF DeleteManifestFails, uploadVars, SafeInv, ManifestInv, TimeInv,
     Abandoned, AllSettled, Pending, Acked
<1>6. CASE SyncManifest
  BY <1>6 DEF SyncManifest, vars, uploadVars, remoteVars, SafeInv, ManifestInv,
     TimeInv, Abandoned, Expired, AllSettled, Pending, Acked
<1> QED BY <1>1, <1>2, <1>3, <1>4, <1>5, <1>6

(* The manifest of a file that counts is registered while the upload is no *)
(* older than MaxUpload.                                                   *)
LEMMA LagStep ==
    ASSUME LifeIInv, FirstServer, UNCHANGED <<clock, expiry>>,
           del' = "none" => del = "none",
           phase' = "secured" \/ status' = "completed" =>
               \/ phase = "saving"
               \/ phase = "secured" \/ status = "completed"
    PROVE  LagInv'
<1> SUFFICES ASSUME phase' = "secured" \/ status' = "completed", del = "none",
                    ~Expired, ~spread'
             PROVE  clock <= MaxUpload + SyncLag
  BY DEF LagInv, Expired
<1>1. CASE phase = "saving"
  <2>1. clock <= MaxUpload /\ clock \in Nat
    BY <1>1 DEF LifeIInv, TimeInv, LifeTypeOK
  <2> QED BY <2>1, LifecycleAssumption
<1>2. CASE phase = "secured" \/ status = "completed"
  <2>1. registered
    BY <1>2 DEF LifeIInv, ManifestInv
  <2>2. ~spread
    BY <2>1 DEF FirstServer
  <2> QED BY <1>2, <2>2 DEF LifeIInv, LagInv
<1> QED BY <1>1, <1>2

LEMMA LagPreserved ==
    ASSUME LifeIInv, [LifeNext]_allVars
    PROVE  LagInv'
<1> USE DEF LifeIInv
<1>a. clock \in Nat
  BY DEF LifeTypeOK
<1>1. CASE Tick
  <2> SUFFICES ASSUME phase = "secured" \/ status = "completed", del = "none",
                      ~Expired', ~spread
               PROVE  clock + 1 <= MaxUpload + SyncLag
    BY <1>1 DEF Tick, vars, uploadVars, LagInv
  <2>1. ~Expired
    BY <1>a, <1>1, LifecycleAssumption DEF Tick, Expired, LifeTypeOK
  <2>2. registered
    BY <2>1 DEF ManifestInv
  <2> QED BY <1>a, <1>1, <2>2, LifecycleAssumption DEF Tick
<1>2. CASE UploadInTime
  <2>1. FirstServer /\ UNCHANGED <<clock, expiry>> /\ (del' = "none" => del = "none")
    BY <1>2 DEF UploadInTime, AfterUploadStep
  <2>2. phase' = "secured" \/ status' = "completed" =>
            phase = "saving" \/ phase = "secured" \/ status = "completed"
    BY <1>2 DEF UploadInTime, UploadStep, PutFile, EmitChunk, DropChunk, SaveChunk,
       SaveFails, Try, Register, Fail, Abort, SaveStatus, Crash
  <2> QED BY <2>1, <2>2, LagStep
<1>3. CASE WireStep
  <2>1. FirstServer /\ UNCHANGED <<clock, expiry, del>> /\ UNCHANGED <<phase, status>>
    BY <1>3 DEF WireStep, RemoteStep, LateSave, LateSaveLost, LateManifest,
       DeleteChunk, DeleteChunkFails, uploadVars
  <2> QED BY <2>1, LagStep
<1>4. CASE SyncManifest
  BY <1>4 DEF SyncManifest, LagInv
<1>5. ASSUME NEW n \in Node, Gc(n) \/ RestartNode(n) PROVE LagInv'
  BY <1>5 DEF Gc, GcStart, GcExamine, GcDelete, RestartNode, vars, uploadVars,
     LagInv, Expired
<1>6. CASE CleanBootstrapDatabase
  BY <1>6 DEF CleanBootstrapDatabase, uploadVars, lifeVars, LagInv, Expired
<1>7. CASE DeleteFetch \/ DeleteManifest \/ DeleteManifestFails
  BY <1>7 DEF DeleteFetch, DeleteManifest, DeleteManifestFails, uploadVars, LagInv
<1>8. CASE UNCHANGED allVars
  BY <1>8 DEF allVars, vars, uploadVars, lifeVars, LagInv, Expired
<1> QED BY <1>1, <1>2, <1>3, <1>4, <1>5, <1>6, <1>7, <1>8 DEF LifeNext

LEMMA LifeStutterIInv ==
    ASSUME LifeIInv, UNCHANGED allVars
    PROVE  SafeInv' /\ ManifestInv' /\ TimeInv'
BY DEF allVars, vars, uploadVars, remoteVars, lifeVars, LifeIInv, SafeInv,
   ManifestInv, TimeInv, Abandoned, Expired, AllSettled, Pending, Acked

LEMMA LifeStepIInv ==
    ASSUME MaxUpload + SyncLag <= OrphanAge, ~Outages
    PROVE  LifeIInv /\ [LifeNext]_allVars => LifeIInv'
<1> SUFFICES ASSUME LifeIInv, [LifeNext]_allVars
             PROVE  SafeInv' /\ ManifestInv' /\ TimeInv'
  BY LifeTypeStep, LagPreserved DEF LifeIInv
<1> QED BY UploadInTimeIInv, WireIInv, GcIInv, OthersIInv, LifeStutterIInv
        DEF LifeNext

----------------------------------------------------------------------------
(* The databases, the lists of the cleanups and the deletion keep their    *)
(* types, whatever the periods and the outages.                            *)
THEOREM LifeTypeCorrect == LifeSpec => []LifeTypeOK
<1>1. LifeInit => LifeTypeOK
  BY LifeInitIInv DEF LifeIInv
<1> QED BY <1>1, LifeTypeStep, PTL DEF LifeSpec

(* CleanNodeDatabase against StreamAndUploadFile and DeleteFile: with      *)
(* lookups that do not fail, and manifests that have reached every server  *)
(* by OrphanAge, a completed file that nobody asked to delete keeps its    *)
(* manifest and its chunks until it expires.                               *)
THEOREM FileIsDurable ==
    ASSUME MaxUpload + SyncLag <= OrphanAge, ~Outages
    PROVE  LifeSpec => []Durable
<1>1. LifeIInv => Durable
  BY DEF LifeIInv, LifeTypeOK, TypeOK, SafeInv, ManifestInv, TimeInv, Abandoned,
     AllSettled, Pending, Durable
<1>2. LifeIInv /\ [LifeNext]_allVars => LifeIInv'
  BY LifeStepIInv
<1> QED BY <1>1, <1>2, LifeInitIInv, PTL DEF LifeSpec
=============================================================================
