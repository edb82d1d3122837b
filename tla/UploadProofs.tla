---------------------------- MODULE UploadProofs ----------------------------
(* Proofs about Upload, for any file and any set of nodes: whatever calls  *)
(* fail or arrive late, and whenever the process ends.                     *)
EXTENDS Upload, TLAPS

(* Nothing has been rolled back: the upload has not begun or goes on, or   *)
(* it has ended without a rollback.                                        *)
Kept == phase \in {"idle", "saving", "aborted", "secured"} \/ status = "completed"

(* Only a rollback deletes chunks, and it comes after every acknowledgment *)
(* of the upload.                                                          *)
KeptInv ==
    Kept => /\ dels = {}
            /\ \A c \in Chunk : Acked(c) => c \in store[acked[c]]

(* The outcome is stored after the decision, and the decision after the    *)
(* last chunk.                                                             *)
OutcomeInv ==
    /\ phase = "idle" => status = "none"
    /\ status = "completed" => phase \in {"secured", "crashed"}
    /\ (phase = "secured" \/ status = "completed") => registered /\ AllSettled

IInv == TypeOK /\ KeptInv /\ OutcomeInv

----------------------------------------------------------------------------
LEMMA InitIInv == Init => IInv
BY NoNodeAssumption
DEF Init, IInv, TypeOK, KeptInv, OutcomeInv, Phase, Status, Acked

(* The deletions of a rollback are of chunks, at the nodes that have them. *)
LEMMA RollbackType ==
    ASSUME TypeOK, Rollback
    PROVE  dels' \in SUBSET (Node \X Chunk)
<1>1. ASSUME NEW c \in Chunk, Acked(c) PROVE <<acked[c], c>> \in Node \X Chunk
  BY <1>1 DEF TypeOK, Acked
<1> QED BY <1>1 DEF TypeOK, Rollback

(* The records keep their types.                                           *)
LEMMA TypeStep == TypeOK /\ [Next]_vars => TypeOK'
<1> SUFFICES ASSUME TypeOK, [Next]_vars PROVE TypeOK'
  OBVIOUS
<1>1. CASE PutFile
  BY <1>1 DEF PutFile, remoteVars, TypeOK, Phase, Status
<1>2. ASSUME NEW c \in Chunk, NEW S \in SUBSET Node, EmitChunk(c, S) PROVE TypeOK'
  BY <1>2 DEF EmitChunk, remoteVars, TypeOK
<1>3. ASSUME NEW c \in Chunk, DropChunk(c) PROVE TypeOK'
  BY <1>3 DEF DropChunk, remoteVars, TypeOK
<1>4. ASSUME NEW c \in Chunk, NEW n \in Node, SaveChunk(c, n) \/ SaveFails(c, n)
      PROVE  TypeOK'
  BY <1>4 DEF SaveChunk, SaveFails, Try, TypeOK
<1>5. CASE Register
  BY <1>5 DEF Register, TypeOK, Phase
<1>6. CASE Fail
  <2>1. posted' \in BOOLEAN
    BY <1>6 DEF Fail, AllSettled
  <2>2. dels' \in SUBSET (Node \X Chunk)
    BY <1>6, RollbackType DEF Fail
  <2> QED BY <1>6, <2>1, <2>2 DEF Fail, TypeOK, Phase
<1>7. CASE Abort
  BY <1>7 DEF Abort, remoteVars, TypeOK, Phase
<1>8. CASE SaveStatus
  BY <1>8 DEF SaveStatus, remoteVars, TypeOK, Status
<1>9. CASE Crash
  BY <1>9 DEF Crash, TypeOK, Phase
<1>10. ASSUME NEW c \in Chunk, NEW n \in Node, LateSave(c, n) \/ LateSaveLost(c, n)
       PROVE  TypeOK'
  BY <1>10 DEF LateSave, LateSaveLost, uploadVars, TypeOK
<1>11. CASE LateManifest
  BY <1>11 DEF LateManifest, uploadVars, TypeOK
<1>12. ASSUME NEW c \in Chunk, NEW n \in Node,
              DeleteChunk(n, c) \/ DeleteChunkFails(n, c)
       PROVE  TypeOK'
  BY <1>12 DEF DeleteChunk, DeleteChunkFails, uploadVars, TypeOK
<1>13. CASE UNCHANGED vars
  BY <1>13 DEF vars, uploadVars, remoteVars, TypeOK
<1> QED BY <1>1, <1>2, <1>3, <1>4, <1>5, <1>6, <1>7, <1>8, <1>9, <1>10, <1>11,
           <1>12, <1>13 DEF Next, UploadStep, RemoteStep

(* A step that saves a chunk or fails to does not touch what other nodes   *)
(* have acknowledged.                                                      *)
LEMMA SavingKeepsStored ==
    ASSUME TypeOK, NEW c \in Chunk, NEW n \in Node,
           SaveChunk(c, n) \/ SaveFails(c, n),
           \A d \in Chunk : Acked(d) => d \in store[acked[d]]
    PROVE  \A d \in Chunk : Acked(d)' => d \in store'[acked'[d]]
<1> SUFFICES ASSUME NEW d \in Chunk, Acked(d)' PROVE d \in store'[acked'[d]]
  OBVIOUS
<1> USE NoNodeAssumption DEF TypeOK, Acked
<1>1. CASE SaveChunk(c, n)
  BY <1>1 DEF SaveChunk, Try
<1>2. CASE SaveFails(c, n)
  BY <1>2 DEF SaveFails, Try
<1> QED BY <1>1, <1>2

(* The uploader's steps.                                                   *)
LEMMA UploadStepIInv == IInv /\ UploadStep => KeptInv' /\ OutcomeInv'
<1> SUFFICES ASSUME IInv, UploadStep PROVE KeptInv' /\ OutcomeInv'
  OBVIOUS
<1> USE DEF IInv, KeptInv, Kept, OutcomeInv
<1>1. CASE PutFile
  BY <1>1 DEF PutFile, remoteVars, Acked
<1>2. ASSUME NEW c \in Chunk, NEW S \in SUBSET Node, EmitChunk(c, S)
      PROVE  KeptInv' /\ OutcomeInv'
  BY <1>2 DEF EmitChunk, Working, remoteVars, Acked
<1>3. ASSUME NEW c \in Chunk, DropChunk(c) PROVE KeptInv' /\ OutcomeInv'
  BY <1>3 DEF DropChunk, Working, remoteVars, Acked
<1>4. ASSUME NEW c \in Chunk, NEW n \in Node, SaveChunk(c, n) \/ SaveFails(c, n)
      PROVE  KeptInv' /\ OutcomeInv'
  <2>1. phase \in {"saving", "aborted"} /\ UNCHANGED <<phase, status, dels>>
    BY <1>4 DEF SaveChunk, SaveFails, Try, Working
  <2>2. \A d \in Chunk : Acked(d)' => d \in store'[acked'[d]]
    BY <1>4, <2>1, SavingKeepsStored
  <2> QED BY <2>1, <2>2
<1>5. CASE Register
  BY <1>5 DEF Register, AllSettled, Pending, Acked
<1>6. CASE Fail
  BY <1>6 DEF Fail
<1>7. CASE Abort
  BY <1>7 DEF Abort, remoteVars, Acked
<1>8. CASE SaveStatus
  BY <1>8 DEF SaveStatus, remoteVars, AllSettled, Pending, Acked
<1>9. CASE Crash
  BY <1>9 DEF Crash, AllSettled, Pending, Acked
<1> QED BY <1>1, <1>2, <1>3, <1>4, <1>5, <1>6, <1>7, <1>8, <1>9 DEF UploadStep

(* What arrives late only adds chunks; a deletion needs a rollback.        *)
LEMMA RemoteStepIInv == IInv /\ RemoteStep => KeptInv' /\ OutcomeInv'
<1> SUFFICES ASSUME IInv, RemoteStep PROVE KeptInv' /\ OutcomeInv'
  OBVIOUS
<1> USE DEF IInv, uploadVars
<1>1. ASSUME NEW c \in Chunk, NEW n \in Node, LateSave(c, n) \/ LateSaveLost(c, n)
      PROVE  KeptInv' /\ OutcomeInv'
  BY <1>1 DEF LateSave, LateSaveLost, TypeOK, KeptInv, Kept, OutcomeInv,
     AllSettled, Pending, Acked
<1>2. CASE LateManifest
  <2>1. registered => registered'
    <3>1. registered \in BOOLEAN
      BY DEF TypeOK
    <3>2. registered' = registered \/ registered' = TRUE
      BY <1>2 DEF LateManifest
    <3> QED BY <3>1, <3>2
  <2>2. KeptInv'
    BY <1>2 DEF LateManifest, KeptInv, Kept, Acked
  <2>3. OutcomeInv'
    BY <1>2, <2>1 DEF LateManifest, OutcomeInv, AllSettled, Pending, Acked
  <2> QED BY <2>2, <2>3
<1>3. ASSUME NEW c \in Chunk, NEW n \in Node,
             DeleteChunk(n, c) \/ DeleteChunkFails(n, c)
      PROVE  KeptInv' /\ OutcomeInv'
  <2>1. dels # {} /\ ~Kept'
    BY <1>3 DEF DeleteChunk, DeleteChunkFails, KeptInv, Kept
  <2> QED BY <1>3, <2>1 DEF DeleteChunk, DeleteChunkFails, KeptInv, Kept,
     OutcomeInv, AllSettled, Pending, Acked
<1> QED BY <1>1, <1>2, <1>3 DEF RemoteStep

LEMMA StutterIInv == IInv /\ UNCHANGED vars => KeptInv' /\ OutcomeInv'
BY DEF IInv, vars, uploadVars, remoteVars, KeptInv, Kept, OutcomeInv,
   AllSettled, Pending, Acked

LEMMA StepIInv == IInv /\ [Next]_vars => IInv'
BY TypeStep, UploadStepIInv, RemoteStepIInv, StutterIInv DEF IInv, Next

THEOREM Invariance == Spec => []IInv
BY InitIInv, StepIInv, PTL DEF Spec

----------------------------------------------------------------------------
(* The uploader's records, the nodes' databases and the calls on the wire  *)
(* keep their types.                                                       *)
THEOREM TypeCorrect == Spec => []TypeOK
<1>1. IInv => TypeOK
  BY DEF IInv
<1> QED BY <1>1, Invariance, PTL

(* StreamAndUploadFile and saveStatus: a file reported "completed" is      *)
(* registered and stored, whatever was lost, late or interrupted.          *)
THEOREM CompletedStored == Spec => []CompletedIsStored
<1>1. IInv => CompletedIsStored
  BY DEF IInv, KeptInv, Kept, OutcomeInv, AllSettled, Pending, CompletedIsStored
<1> QED BY <1>1, Invariance, PTL
=============================================================================
