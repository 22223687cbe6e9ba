---------------------- MODULE InterviewSession_proofs ----------------------
(***************************************************************************)
(* Theorems about InterviewSession for every set of contents and every     *)
(* value of the bounds.  Inv strengthens TypeOK with what relates the      *)
(* session status to the project, to the capture generations, to the audio *)
(* object and to the finalization; the safety properties follow from it.   *)
(* The theorems of NewInterview, which leads to the session, are at the    *)
(* end, from the inductive invariant EntryInv.                             *)
(***************************************************************************)
EXTENDS InterviewSession, WellFoundedInduction, TLAPS

Prestart  == {"none", "created", "device_check"}
FrozenSessions == {"stopping", "processing", "completed"}
Settled   == {"drained", "degraded", "not_started"}

(* The first generation, the audio object and the recording begin at once. *)
StartInv ==
  /\ generation = -1 <=> session \in Prestart
  /\ generation = -1 <=> audio = "absent"
  /\ audio = "failed" <=> session = "failed"

(* The project of a session that has begun is active or restricted. *)
GateInv ==
  /\ generation # -1 => ~deleted /\ project \in {"active", "restricted"}
  /\ project = "restricted" =>
       /\ session \notin Streamable
       /\ \A g \in Generations : captureStatus[g] \notin LiveCapture

(* Earlier generations are interrupted, later ones do not exist, and the   *)
(* latest one is live only before the freeze.                              *)
CaptureInv ==
  /\ \A g \in Generations :
       /\ g > generation => captureStatus[g] = "absent"
       /\ g < generation => captureStatus[g] = "interrupted"
       /\ captureStatus[g] \in LiveCapture => session \in Streamable \cup {"interrupted"}
  /\ session \in Streamable => captureStatus[generation] \in LiveCapture
  /\ TimelineMonotone

(* The finalization row and the session status agree. *)
FinalInv ==
  /\ Finalized <=> session \in FrozenSessions
  /\ Finalized => Contiguous(committed)
  /\ session \in {"stopping", "processing"} => transcript \in {"pending", "draining"}
  /\ session \in {"processing", "completed"} => ManifestMatches
  /\ session = "completed" => transcript \in Settled
  /\ advance # "idle" => Finalized
  /\ advance = "drain" => session \in {"processing", "completed"}

(* A frame whose acknowledgement is owed or given has left first PCM.      *)
FrameEvidence ==
  /\ owed => runtimeGen \in pcmAccepted
  /\ told => pcmAccepted # {}

EvidenceInv ==
  /\ RowHasBytes
  /\ FrameEvidence
  /\ FailedIsEmpty

Inv == TypeOK /\ StartInv /\ GateInv /\ CaptureInv /\ FinalInv /\ EvidenceInv

-----------------------------------------------------------------------------
(* Facts about the constant operators                                      *)

(* A commitment accepted by validateCommitments is a chunk map with a      *)
(* first chunk, so freezing it creates a finalization row.                 *)
LEMMA CommitmentIsNonEmpty ==
  ASSUME NEW m \in Commitments
  PROVE  m \in ChunkMap /\ m # NoChunks /\ Contiguous(m)
BY BoundAssumption DEF Commitments, Contiguous, Present, ChunkMap, NoChunks, SeqNos

(* No chunks is a chunk map. *)
LEMMA NoChunksType == NoChunks \in ChunkMap
BY DEF NoChunks, ChunkMap

USE DEF SessionStatus, CaptureStatus, AudioStatus, ProjectStatus, ConsentStatus, TranscriptStatus,
        AdvanceStage, Streamable, LiveCapture, Terminal
-----------------------------------------------------------------------------
(* Type correctness                                                        *)

(* Every step of the services keeps every variable in its type. *)
LEMMA TypeStep == TypeOK /\ [Next]_vars => TypeOK'
<1> SUFFICES ASSUME TypeOK, [Next]_vars PROVE TypeOK'
  OBVIOUS
<1> USE BoundAssumption, NoChunksType
<1>1. CASE AppendConsent
  BY <1>1 DEF TypeOK, AppendConsent, captureVars, audioVars, finalVars, memoryVars, runtimeVars, gateVars
<1>2. CASE RevokeConsent
  BY <1>2 DEF TypeOK, RevokeConsent, Generations, captureVars, audioVars, finalVars, memoryVars, runtimeVars, gateVars
<1>3. CASE CreateSession
  BY <1>3 DEF TypeOK, CreateSession, captureVars, audioVars, finalVars, memoryVars, runtimeVars, gateVars
<1>4. CASE DeviceCheck
  BY <1>4 DEF TypeOK, DeviceCheck, captureVars, audioVars, finalVars, memoryVars, runtimeVars, gateVars
<1>5. CASE DiscardPrestart
  BY <1>5 DEF TypeOK, DiscardPrestart, captureVars, audioVars, finalVars, memoryVars, runtimeVars, gateVars
<1>6. CASE StartSession
  BY <1>6 DEF TypeOK, StartSession, Generations, Timeline, captureVars, audioVars, finalVars, memoryVars, runtimeVars, gateVars
<1>7. CASE RevokeAssignment
  <2>1. assigned' \in BOOLEAN
    BY <1>7, Zenon DEF RevokeAssignment
  <2>2. UNCHANGED <<project, deleted, consent, session, captureVars, audioVars, finalVars, memoryVars>>
    BY <1>7, Zenon DEF RevokeAssignment
  <2> QED
    BY <2>1, <2>2 DEF TypeOK, captureVars, audioVars, finalVars, memoryVars, runtimeVars, gateVars
<1>8. CASE RestoreAssignment
  BY <1>8 DEF TypeOK, RestoreAssignment, captureVars, audioVars, finalVars, memoryVars, runtimeVars, gateVars
<1>9. ASSUME NEW g \in Generations, ConfirmActive(g) PROVE TypeOK'
  BY <1>9 DEF TypeOK, ConfirmActive, captureVars, audioVars, finalVars, memoryVars, runtimeVars, gateVars, Generations
<1>10. ASSUME NEW g \in Generations, ReportInterrupted(g) PROVE TypeOK'
  BY <1>10 DEF TypeOK, ReportInterrupted, captureVars, audioVars, finalVars, memoryVars, runtimeVars, gateVars, Generations
<1>11. ASSUME NEW g \in Generations, AbandonEmpty(g) PROVE TypeOK'
  BY <1>11 DEF TypeOK, AbandonEmpty, captureVars, audioVars, finalVars, memoryVars, runtimeVars, gateVars, Generations
<1>12. ASSUME NEW g \in Generations, BuildRuntime(g) PROVE TypeOK'
  <2>1. owed' \in BOOLEAN
    BY <1>12, Zenon DEF BuildRuntime
  <2> QED BY <1>12, <2>1 DEF TypeOK, BuildRuntime, captureVars, audioVars, finalVars, memoryVars, runtimeVars, gateVars, Generations
<1>13. CASE PersistFirstPcm
  BY <1>13 DEF TypeOK, PersistFirstPcm, captureVars, audioVars, finalVars, memoryVars, runtimeVars, gateVars, Generations
<1>14. CASE ResumeStep
  BY <1>14 DEF TypeOK, ResumeStep, Resume, Timeline, Generations, captureVars, audioVars, finalVars, memoryVars, runtimeVars, gateVars
<1>15. CASE UploadSteps
  BY <1>15 DEF TypeOK, UploadSteps, UploadChunk, UploadRolledBack, ChunkMap, SeqNos, captureVars, audioVars, finalVars, memoryVars, runtimeVars, gateVars
<1>16. CASE CompleteObject
  BY <1>16 DEF TypeOK, CompleteObject, captureVars, audioVars, finalVars, memoryVars, runtimeVars, gateVars
<1>17. CASE FrameDropped \/ RecordFrame
  <2>1. owed' \in BOOLEAN /\ told' \in BOOLEAN
    BY <1>17, Zenon DEF TypeOK, FrameDropped, RecordFrame, Acknowledge
  <2>2. acked' \in -1 .. MaxFrame
    BY <1>17 DEF TypeOK, FrameDropped, RecordFrame, Acknowledge
  <2>3. UNCHANGED <<gateVars, session, captureVars, audioVars, finalVars, runtimeGen, advance, crashes>>
    BY <1>17, Zenon DEF FrameDropped, RecordFrame, Acknowledge
  <2> QED BY <2>1, <2>2, <2>3 DEF TypeOK, captureVars, audioVars, finalVars, memoryVars, runtimeVars, gateVars
<1>18. CASE FreezeStep
  BY <1>18, CommitmentIsNonEmpty DEF TypeOK, FreezeStep, Freeze, StopCaptures, RuntimeFound, captureVars, audioVars, finalVars, memoryVars, runtimeVars, gateVars
<1>19. CASE FreezeDenied
  BY <1>19 DEF TypeOK, FreezeDenied, captureVars, audioVars, finalVars, memoryVars, runtimeVars, gateVars
<1>20. CASE Recover
  BY <1>20 DEF TypeOK, Recover, captureVars, audioVars, finalVars, memoryVars, runtimeVars, gateVars
<1>21. CASE AdvanceNothing
  BY <1>21 DEF TypeOK, AdvanceNothing, captureVars, audioVars, finalVars, memoryVars, runtimeVars, gateVars
<1>22. CASE AdvanceWithoutRuntime
  BY <1>22 DEF TypeOK, AdvanceWithoutRuntime, captureVars, audioVars, finalVars, memoryVars, runtimeVars, gateVars
<1>23. CASE AdvanceToDrain
  BY <1>23 DEF TypeOK, AdvanceToDrain, Larger, captureVars, audioVars, finalVars, memoryVars, runtimeVars, gateVars
<1>24. CASE SettleStep
  BY <1>24 DEF TypeOK, SettleStep, AdvanceSettle, captureVars, audioVars, finalVars, memoryVars, runtimeVars, gateVars
<1>25. CASE Crash
  <2>1. owed' \in BOOLEAN
    BY <1>25, Zenon DEF Crash
  <2> QED BY <1>25, <2>1 DEF TypeOK, Crash, captureVars, audioVars, finalVars, memoryVars, runtimeVars, gateVars
<1>26. CASE UNCHANGED vars
  BY <1>26 DEF TypeOK, vars, gateVars, captureVars, audioVars, finalVars, memoryVars, runtimeVars
<1> QED
  BY <1>1, <1>2, <1>3, <1>4, <1>5, <1>6, <1>7, <1>8, <1>9, <1>10, <1>11, <1>12, <1>13, <1>14, <1>15, <1>16, <1>17, <1>18, <1>19, <1>20, <1>21, <1>22, <1>23, <1>24, <1>25, <1>26 DEF Next, CaptureSteps, FrameSteps

(* The initial state is well typed. *)
LEMMA TypeInit == Init => TypeOK
<1> SUFFICES ASSUME Init PROVE TypeOK
  OBVIOUS
<1>1. deleted \in BOOLEAN /\ assigned \in BOOLEAN /\ owed \in BOOLEAN /\ told \in BOOLEAN
  BY Zenon DEF Init
<1> QED
  BY <1>1, BoundAssumption, NoChunksType DEF Init, TypeOK, Generations, Timeline

(* Every reachable state is well typed, for every value of the bounds. *)
THEOREM TypeCorrect == Spec => []TypeOK
BY TypeInit, TypeStep, PTL DEF Spec

-----------------------------------------------------------------------------
(* The inductive invariant, preserved by every action                      *)

(* Every step of the services keeps the inductive invariant. *)
LEMMA InvStep == Inv /\ [Next]_vars => Inv'
<1> SUFFICES ASSUME Inv, [Next]_vars PROVE Inv'
  OBVIOUS
<1>0. TypeOK /\ TypeOK'
  BY TypeStep DEF Inv
<1>1. CASE AppendConsent
  <2>1. StartInv' /\ CaptureInv' /\ FinalInv' /\ EvidenceInv'
    BY <1>1 DEF Inv, StartInv, CaptureInv, FinalInv, EvidenceInv, AppendConsent, TimelineMonotone,
       Finalized, ManifestMatches, RowHasBytes, FrameEvidence, FailedIsEmpty, captureVars,
       audioVars, finalVars, memoryVars, runtimeVars
  <2>2. GateInv'
    BY <1>1 DEF Inv, GateInv, AppendConsent, captureVars
  <2> QED
    BY <1>0, <2>1, <2>2 DEF Inv
<1>2. CASE RevokeConsent
  <2>1. StartInv'
    BY <1>2 DEF Inv, StartInv, RevokeConsent, Prestart, audioVars
  <2>2. GateInv'
    BY <1>2 DEF Inv, GateInv, RevokeConsent, EndingSessions, TypeOK, CaptureInv, Generations
  <2>3. CaptureInv'
    BY <1>2 DEF Inv, CaptureInv, RevokeConsent, TimelineMonotone
  <2>4. FinalInv'
    BY <1>2 DEF Inv, FinalInv, RevokeConsent, Finalized, FrozenSessions, ManifestMatches,
       audioVars, finalVars, memoryVars, runtimeVars
  <2>5. EvidenceInv'
    BY <1>2 DEF Inv, EvidenceInv, RevokeConsent, RowHasBytes, FrameEvidence, FailedIsEmpty,
       Finalized, audioVars, finalVars, memoryVars, runtimeVars
  <2> QED
    BY <1>0, <2>1, <2>2, <2>3, <2>4, <2>5 DEF Inv
<1>3. CASE CreateSession
  <2>1. StartInv'
    BY <1>3 DEF Inv, StartInv, CreateSession, Prestart, captureVars, audioVars
  <2>2. GateInv'
    BY <1>3 DEF Inv, GateInv, CreateSession, captureVars, StartInv, Prestart, CaptureInv
  <2>3. CaptureInv'
    BY <1>3 DEF Inv, CaptureInv, CreateSession, TimelineMonotone, captureVars
  <2>4. FinalInv'
    BY <1>3 DEF Inv, FinalInv, CreateSession, Finalized, FrozenSessions, finalVars, memoryVars, runtimeVars
  <2>5. EvidenceInv'
    BY <1>3 DEF Inv, EvidenceInv, CreateSession, RowHasBytes, FrameEvidence, FailedIsEmpty,
       captureVars, audioVars, memoryVars, runtimeVars
  <2> QED
    BY <1>0, <2>1, <2>2, <2>3, <2>4, <2>5 DEF Inv
<1>4. CASE DeviceCheck
  <2>1. StartInv'
    BY <1>4 DEF Inv, StartInv, DeviceCheck, Prestart, captureVars, audioVars
  <2>2. GateInv'
    BY <1>4 DEF Inv, GateInv, DeviceCheck, captureVars, StartInv, Prestart, CaptureInv
  <2>3. CaptureInv'
    BY <1>4 DEF Inv, CaptureInv, DeviceCheck, TimelineMonotone, captureVars
  <2>4. FinalInv'
    BY <1>4 DEF Inv, FinalInv, DeviceCheck, Finalized, FrozenSessions, finalVars, memoryVars, runtimeVars
  <2>5. EvidenceInv'
    BY <1>4 DEF Inv, EvidenceInv, DeviceCheck, RowHasBytes, FrameEvidence, FailedIsEmpty,
       captureVars, audioVars, memoryVars, runtimeVars
  <2> QED
    BY <1>0, <2>1, <2>2, <2>3, <2>4, <2>5 DEF Inv
<1>5. CASE DiscardPrestart
  <2>1. StartInv' /\ CaptureInv' /\ FinalInv' /\ EvidenceInv'
    BY <1>5 DEF Inv, StartInv, CaptureInv, FinalInv, EvidenceInv, DiscardPrestart,
       TimelineMonotone, Finalized, RowHasBytes, FrameEvidence, FailedIsEmpty, captureVars,
       audioVars, finalVars, memoryVars, runtimeVars
  <2>2. GateInv'
    BY <1>5 DEF Inv, GateInv, DiscardPrestart, captureVars
  <2> QED
    BY <1>0, <2>1, <2>2 DEF Inv
<1>6. CASE StartSession
  <2>1. StartInv'
    BY <1>6 DEF Inv, StartInv, StartSession, Prestart
  <2>2. GateInv'
    BY <1>6 DEF Inv, GateInv, StartSession, StartGate
  <2>3. CaptureInv'
    BY <1>6, <1>0 DEF Inv, CaptureInv, StartSession, TimelineMonotone, StartGate, TypeOK,
       StartInv, Prestart, Generations
  <2>4. FinalInv'
    BY <1>6 DEF Inv, FinalInv, StartSession, Finalized, FrozenSessions, StartGate, finalVars,
       memoryVars, runtimeVars
  <2>5. EvidenceInv'
    BY <1>6 DEF Inv, EvidenceInv, StartSession, RowHasBytes, FrameEvidence, FailedIsEmpty,
       memoryVars, runtimeVars
  <2> QED
    BY <1>0, <2>1, <2>2, <2>3, <2>4, <2>5 DEF Inv
<1>7. CASE RevokeAssignment
  <2>1. StartInv' /\ GateInv' /\ CaptureInv' /\ FinalInv' /\ EvidenceInv'
    BY <1>7 DEF Inv, StartInv, GateInv, CaptureInv, FinalInv, EvidenceInv, RevokeAssignment,
       TimelineMonotone, Finalized, ManifestMatches, RowHasBytes, FrameEvidence, FailedIsEmpty,
       captureVars, audioVars, finalVars, memoryVars, runtimeVars
  <2> QED
    BY <1>0, <2>1 DEF Inv
<1>8. CASE RestoreAssignment
  <2>1. StartInv' /\ GateInv' /\ CaptureInv' /\ FinalInv' /\ EvidenceInv'
    BY <1>8 DEF Inv, StartInv, GateInv, CaptureInv, FinalInv, EvidenceInv, RestoreAssignment,
       TimelineMonotone, Finalized, ManifestMatches, RowHasBytes, FrameEvidence, FailedIsEmpty,
       captureVars, audioVars, finalVars, memoryVars, runtimeVars
  <2> QED
    BY <1>0, <2>1 DEF Inv
<1>9. ASSUME NEW g \in Generations, ConfirmActive(g) PROVE Inv'
  <2>1. StartInv'
    BY <1>9 DEF Inv, StartInv, ConfirmActive, Prestart, audioVars
  <2>2. GateInv'
    BY <1>9 DEF Inv, GateInv, ConfirmActive, gateVars
  <2>3. CaptureInv'
    BY <1>9 DEF Inv, CaptureInv, ConfirmActive, TimelineMonotone
  <2>4. FinalInv'
    BY <1>9 DEF Inv, FinalInv, ConfirmActive, Finalized, FrozenSessions, finalVars, memoryVars, runtimeVars
  <2>5. EvidenceInv'
    BY <1>9 DEF Inv, EvidenceInv, ConfirmActive, RowHasBytes, FrameEvidence, FailedIsEmpty,
       audioVars, memoryVars, runtimeVars
  <2> QED
    BY <1>0, <2>1, <2>2, <2>3, <2>4, <2>5 DEF Inv
<1>10. ASSUME NEW g \in Generations, ReportInterrupted(g) PROVE Inv'
  <2>1. StartInv'
    BY <1>10 DEF Inv, StartInv, ReportInterrupted, Prestart, audioVars, Generations
  <2>2. GateInv'
    BY <1>10 DEF Inv, GateInv, ReportInterrupted, gateVars
  <2>3. CaptureInv'
    BY <1>10 DEF Inv, CaptureInv, ReportInterrupted, TimelineMonotone
  <2>4. FinalInv'
    BY <1>10 DEF Inv, FinalInv, ReportInterrupted, Finalized, FrozenSessions, finalVars,
       memoryVars, runtimeVars
  <2>5. EvidenceInv'
    BY <1>10 DEF Inv, EvidenceInv, ReportInterrupted, RowHasBytes, FrameEvidence, FailedIsEmpty,
       audioVars, memoryVars, runtimeVars
  <2> QED
    BY <1>0, <2>1, <2>2, <2>3, <2>4, <2>5 DEF Inv
<1>11. ASSUME NEW g \in Generations, AbandonEmpty(g) PROVE Inv'
  <2>1. StartInv'
    BY <1>11 DEF Inv, StartInv, AbandonEmpty, Prestart
  <2>2. GateInv'
    BY <1>11 DEF Inv, GateInv, AbandonEmpty, gateVars
  <2>3. CaptureInv'
    BY <1>11 DEF Inv, CaptureInv, AbandonEmpty, TimelineMonotone, Generations
  <2>4. FinalInv'
    BY <1>11 DEF Inv, FinalInv, AbandonEmpty, Finalized, FrozenSessions, finalVars, memoryVars, runtimeVars
  <2>5. EvidenceInv'
    BY <1>11 DEF Inv, EvidenceInv, AbandonEmpty, RowHasBytes, FrameEvidence, FailedIsEmpty,
       Finalized, NoCaptureEvidence, finalVars, memoryVars, runtimeVars
  <2> QED
    BY <1>0, <2>1, <2>2, <2>3, <2>4, <2>5 DEF Inv
<1>12. ASSUME NEW g \in Generations, BuildRuntime(g) PROVE Inv'
  <2>1. StartInv' /\ GateInv' /\ CaptureInv' /\ FinalInv'
    BY <1>12 DEF Inv, StartInv, GateInv, CaptureInv, FinalInv, BuildRuntime, TimelineMonotone,
       Finalized, ManifestMatches, gateVars, captureVars, audioVars, finalVars
  <2>2. EvidenceInv'
    BY <1>12 DEF Inv, EvidenceInv, BuildRuntime, RowHasBytes, FrameEvidence, FailedIsEmpty,
       Finalized, captureVars, audioVars, finalVars
  <2> QED
    BY <1>0, <2>1, <2>2 DEF Inv
<1>13. CASE PersistFirstPcm
  <2>1. StartInv' /\ GateInv' /\ CaptureInv' /\ FinalInv'
    BY <1>13 DEF Inv, StartInv, GateInv, CaptureInv, FinalInv, PersistFirstPcm, TimelineMonotone,
       Finalized, ManifestMatches, gateVars, audioVars, finalVars, memoryVars, runtimeVars
  <2>2. EvidenceInv'
    <3>1. RowHasBytes' /\ FrameEvidence'
      BY <1>13 DEF Inv, EvidenceInv, PersistFirstPcm, RowHasBytes, FrameEvidence, Present, audioVars
    <3>2. session # "failed"
      BY <1>0, <1>13 DEF Inv, TypeOK, Generations, CaptureInv, EvidenceInv, FailedIsEmpty, PersistFirstPcm
    <3> QED
      BY <1>13, <3>1, <3>2 DEF EvidenceInv, PersistFirstPcm, FailedIsEmpty
  <2> QED
    BY <1>0, <2>1, <2>2 DEF Inv
<1>14. ASSUME NEW count \in 0 .. MaxChunks, NEW highWater \in Timeline, Resume(count, highWater) PROVE Inv'
  <2>1. StartInv'
    BY <1>14 DEF Inv, StartInv, Resume, Prestart, audioVars, Generations
  <2>2. GateInv'
    BY <1>14 DEF Inv, GateInv, Resume, CaptureGate, gateVars, Generations
  <2>3. CaptureInv'
    BY <1>14, <1>0, ChunkAssumption DEF Inv, CaptureInv, Resume, TimelineMonotone, ArchiveCovers,
       TypeOK, StartInv, FinalInv
  <2>4. FinalInv'
    BY <1>14 DEF Inv, FinalInv, Resume, Finalized, FrozenSessions, finalVars, memoryVars, runtimeVars
  <2>5. EvidenceInv'
    BY <1>14 DEF Inv, EvidenceInv, Resume, RowHasBytes, FrameEvidence, FailedIsEmpty, audioVars,
       memoryVars, runtimeVars
  <2> QED
    BY <1>0, <2>1, <2>2, <2>3, <2>4, <2>5 DEF Inv
<1>15. ASSUME NEW n \in SeqNos, NEW c \in Contents, UploadChunk(n, c) PROVE Inv'
  <2>1. GateInv' /\ CaptureInv'
    BY <1>15 DEF Inv, GateInv, CaptureInv, UploadChunk, TimelineMonotone, gateVars, captureVars
  <2>2. StartInv'
    BY <1>15 DEF Inv, StartInv, UploadChunk, Writable, captureVars
  <2>3. FinalInv'
    BY <1>15 DEF Inv, FinalInv, UploadChunk, Finalized, Writable, finalVars, memoryVars, runtimeVars
  <2>4. EvidenceInv'
    BY <1>15 DEF Inv, EvidenceInv, UploadChunk, RowHasBytes, FrameEvidence, FailedIsEmpty,
       Present, Writable, StoredAs, captureVars, memoryVars, runtimeVars, TypeOK, ChunkMap
  <2> QED
    BY <1>0, <2>1, <2>2, <2>3, <2>4 DEF Inv
<1>16. ASSUME NEW n \in SeqNos, NEW c \in Contents, UploadRolledBack(n, c) PROVE Inv'
  <2>1. StartInv' /\ GateInv' /\ CaptureInv' /\ FinalInv'
    BY <1>16 DEF Inv, StartInv, GateInv, CaptureInv, FinalInv, UploadRolledBack, TimelineMonotone,
       Finalized, ManifestMatches, gateVars, captureVars, finalVars, memoryVars, runtimeVars
  <2>2. EvidenceInv'
    BY <1>16 DEF Inv, EvidenceInv, UploadRolledBack, RowHasBytes, FrameEvidence, FailedIsEmpty,
       Present, Writable, captureVars, memoryVars, runtimeVars
  <2> QED
    BY <1>0, <2>1, <2>2 DEF Inv
<1>17. CASE CompleteObject
  <2>1. GateInv' /\ CaptureInv'
    BY <1>17 DEF Inv, GateInv, CaptureInv, CompleteObject, TimelineMonotone, gateVars, captureVars
  <2>2. StartInv'
    BY <1>17 DEF Inv, StartInv, CompleteObject, Writable, captureVars
  <2>3. FinalInv'
    BY <1>17 DEF Inv, FinalInv, CompleteObject, Finalized, Writable, finalVars, memoryVars, runtimeVars
  <2>4. EvidenceInv'
    BY <1>17 DEF Inv, EvidenceInv, CompleteObject, RowHasBytes, FrameEvidence, FailedIsEmpty,
       Writable, captureVars, memoryVars, runtimeVars
  <2> QED
    BY <1>0, <2>1, <2>2, <2>3, <2>4 DEF Inv
<1>18. CASE FrameDropped \/ RecordFrame
  <2>1. StartInv' /\ GateInv' /\ CaptureInv' /\ FinalInv'
    BY <1>18 DEF Inv, StartInv, GateInv, CaptureInv, FinalInv, FrameDropped, RecordFrame,
       Acknowledge, TimelineMonotone,
       Finalized, ManifestMatches, gateVars, captureVars, audioVars, finalVars
  <2>2. EvidenceInv'
    BY <1>18 DEF Inv, EvidenceInv, FrameDropped, RecordFrame, Acknowledge, RowHasBytes,
       FrameEvidence, FailedIsEmpty,
       captureVars, audioVars
  <2> QED
    BY <1>0, <2>1, <2>2 DEF Inv
<1>19. ASSUME NEW m \in Commitments, Freeze(m) PROVE Inv'
  <2>1. StartInv'
    BY <1>19 DEF Inv, StartInv, Freeze, Prestart, audioVars
  <2>2. GateInv'
    BY <1>19 DEF Inv, GateInv, Freeze, StopCaptures, gateVars
  <2>3. CaptureInv'
    BY <1>19 DEF Inv, CaptureInv, Freeze, TimelineMonotone, StopCaptures
  <2>4. FinalInv'
    BY <1>19, CommitmentIsNonEmpty DEF Inv, FinalInv, Freeze, Finalized, FrozenSessions
  <2>5. EvidenceInv'
    BY <1>19 DEF Inv, EvidenceInv, Freeze, RowHasBytes, FrameEvidence, FailedIsEmpty, audioVars,
       runtimeVars
  <2> QED
    BY <1>0, <2>1, <2>2, <2>3, <2>4, <2>5 DEF Inv
<1>20. CASE FreezeDenied
  <2>1. StartInv'
    BY <1>20 DEF Inv, StartInv, FreezeDenied, Prestart, captureVars, audioVars
  <2>2. GateInv'
    BY <1>20 DEF Inv, GateInv, FreezeDenied, gateVars, StartInv, Prestart
  <2>3. CaptureInv'
    BY <1>20 DEF Inv, CaptureInv, FreezeDenied, TimelineMonotone, captureVars
  <2>4. FinalInv'
    BY <1>20 DEF Inv, FinalInv, FreezeDenied, Finalized, FrozenSessions, finalVars, memoryVars, runtimeVars
  <2>5. EvidenceInv'
    BY <1>20 DEF Inv, EvidenceInv, FreezeDenied, RowHasBytes, FrameEvidence, FailedIsEmpty,
       captureVars, audioVars, memoryVars, runtimeVars
  <2> QED
    BY <1>0, <2>1, <2>2, <2>3, <2>4, <2>5 DEF Inv
<1>21. CASE Recover
  <2>1. StartInv' /\ GateInv' /\ CaptureInv' /\ EvidenceInv'
    BY <1>21 DEF Inv, StartInv, GateInv, CaptureInv, EvidenceInv, Recover, TimelineMonotone,
       RowHasBytes, FrameEvidence, FailedIsEmpty, gateVars, captureVars, audioVars, runtimeVars
  <2>2. FinalInv'
    BY <1>21 DEF Inv, FinalInv, Recover, Finalized, ManifestMatches, audioVars, finalVars
  <2> QED
    BY <1>0, <2>1, <2>2 DEF Inv
<1>22. CASE AdvanceNothing
  <2>1. StartInv' /\ GateInv' /\ CaptureInv' /\ EvidenceInv'
    BY <1>22 DEF Inv, StartInv, GateInv, CaptureInv, EvidenceInv, AdvanceNothing,
       TimelineMonotone, RowHasBytes, FrameEvidence, FailedIsEmpty, Finalized, gateVars,
       captureVars, audioVars, finalVars, runtimeVars
  <2>2. FinalInv'
    BY <1>22 DEF Inv, FinalInv, AdvanceNothing, Finalized, ManifestMatches, audioVars, finalVars
  <2> QED
    BY <1>0, <2>1, <2>2 DEF Inv
<1>23. CASE AdvanceWithoutRuntime
  <2>1. StartInv'
    BY <1>23 DEF Inv, StartInv, AdvanceWithoutRuntime, Prestart, captureVars, audioVars, FinalInv,
       FrozenSessions
  <2>2. GateInv'
    BY <1>23 DEF Inv, GateInv, AdvanceWithoutRuntime, gateVars, captureVars
  <2>3. CaptureInv'
    BY <1>23 DEF Inv, CaptureInv, AdvanceWithoutRuntime, TimelineMonotone, captureVars, FinalInv,
       FrozenSessions
  <2>4. FinalInv'
    BY <1>23 DEF Inv, FinalInv, AdvanceWithoutRuntime, Finalized, FrozenSessions, Settled,
       ManifestMatches, audioVars
  <2>5. EvidenceInv'
    BY <1>23 DEF Inv, EvidenceInv, AdvanceWithoutRuntime, RowHasBytes, FrameEvidence,
       FailedIsEmpty, captureVars, audioVars, runtimeVars
  <2> QED
    BY <1>0, <2>1, <2>2, <2>3, <2>4, <2>5 DEF Inv
<1>24. CASE AdvanceToDrain
  <2>1. StartInv'
    BY <1>24 DEF Inv, StartInv, AdvanceToDrain, Prestart, captureVars, audioVars, FinalInv,
       FrozenSessions
  <2>2. GateInv'
    BY <1>24 DEF Inv, GateInv, AdvanceToDrain, gateVars, captureVars
  <2>3. CaptureInv'
    BY <1>24 DEF Inv, CaptureInv, AdvanceToDrain, TimelineMonotone, captureVars, FinalInv,
       FrozenSessions
  <2>4. FinalInv'
    BY <1>24 DEF Inv, FinalInv, AdvanceToDrain, Finalized, FrozenSessions, ManifestMatches,
       audioVars
  <2>5. EvidenceInv'
    BY <1>24 DEF Inv, EvidenceInv, AdvanceToDrain, RowHasBytes, FrameEvidence, FailedIsEmpty,
       captureVars, audioVars, runtimeVars
  <2> QED
    BY <1>0, <2>1, <2>2, <2>3, <2>4, <2>5 DEF Inv
<1>25. ASSUME NEW drained \in BOOLEAN, AdvanceSettle(drained) PROVE Inv'
  <2>1. StartInv'
    BY <1>25 DEF Inv, StartInv, AdvanceSettle, Prestart, captureVars, audioVars, FinalInv
  <2>2. GateInv'
    BY <1>25 DEF Inv, GateInv, AdvanceSettle, gateVars, captureVars
  <2>3. CaptureInv'
    BY <1>25 DEF Inv, CaptureInv, AdvanceSettle, TimelineMonotone, captureVars, FinalInv
  <2>4. FinalInv'
    BY <1>25 DEF Inv, FinalInv, AdvanceSettle, Finalized, FrozenSessions, Settled,
       ManifestMatches, audioVars
  <2>5. EvidenceInv'
    BY <1>25 DEF Inv, EvidenceInv, AdvanceSettle, RowHasBytes, FrameEvidence, FailedIsEmpty,
       captureVars, audioVars, runtimeVars, FinalInv
  <2> QED
    BY <1>0, <2>1, <2>2, <2>3, <2>4, <2>5 DEF Inv
<1>26. CASE Crash
  <2>1. StartInv' /\ GateInv' /\ CaptureInv'
    BY <1>26 DEF Inv, StartInv, GateInv, CaptureInv, Crash, TimelineMonotone, gateVars,
       captureVars, audioVars
  <2>2. FinalInv'
    BY <1>26 DEF Inv, FinalInv, Crash, Finalized, ManifestMatches, audioVars, finalVars
  <2>3. EvidenceInv'
    BY <1>26 DEF Inv, EvidenceInv, Crash, RowHasBytes, FrameEvidence, FailedIsEmpty, Finalized,
       captureVars, audioVars, finalVars
  <2> QED
    BY <1>0, <2>1, <2>2, <2>3 DEF Inv
<1>27. CASE UNCHANGED vars
  BY <1>27 DEF vars, gateVars, captureVars, audioVars, finalVars, memoryVars, runtimeVars, Inv, TypeOK, StartInv, GateInv,
     CaptureInv, FinalInv, EvidenceInv, TimelineMonotone, Finalized, Contiguous, ManifestMatches,
     RowHasBytes, FrameEvidence, FailedIsEmpty, Present
<1> QED
  BY <1>1, <1>2, <1>3, <1>4, <1>5, <1>6, <1>7, <1>8, <1>9, <1>10, <1>11, <1>12, <1>13, <1>14,
     <1>15, <1>16, <1>17, <1>18, <1>19, <1>20, <1>21, <1>22, <1>23, <1>24, <1>25, <1>26, <1>27
  DEF Next, CaptureSteps, FrameSteps, ResumeStep, UploadSteps, FreezeStep, SettleStep


(* Init satisfies the inductive invariant. *)
LEMMA InvInit == Init => Inv
<1> SUFFICES ASSUME Init PROVE Inv
  OBVIOUS
<1>1. ~deleted
  BY Zenon DEF Init
<1>2. ~Finalized /\ Present(chunk) = {}
  BY DEF Init, Finalized, Present, NoChunks
<1> QED
  BY <1>1, <1>2, TypeInit, BoundAssumption
  DEF Init, Inv, StartInv, GateInv, CaptureInv, FinalInv, EvidenceInv, Prestart,
      FrozenSessions, TimelineMonotone, RowHasBytes, FrameEvidence, FailedIsEmpty, Generations

(* The inductive invariant holds in every reachable state. *)
THEOREM Invariance == Spec => []Inv
BY InvInit, InvStep, PTL DEF Spec

-----------------------------------------------------------------------------
(* The safety properties of the runs *)

(* A completed session is whole: rows, bytes, manifest and commitment agree. *)
THEOREM CompletedIsWholeHolds == Spec => []CompletedIsWhole
<1>1. Inv => CompletedIsWhole
  BY DEF Inv, TypeOK, FinalInv, FrozenSessions, Settled, ManifestMatches, CaptureInv,
     EvidenceInv, RowHasBytes, CompletedIsWhole, Present
<1> QED
  BY <1>1, Invariance, PTL

(* A session given up as empty really has no audio. *)
THEOREM FailedIsEmptyHolds == Spec => []FailedIsEmpty
<1>1. Inv => FailedIsEmpty
  BY DEF Inv, EvidenceInv
<1> QED
  BY <1>1, Invariance, PTL

(* Only the latest generation can be live, and a recording has one. *)
THEOREM OneCurrentGenerationHolds == Spec => []OneCurrentGeneration
<1>1. Inv => OneCurrentGeneration
  <2> SUFFICES ASSUME Inv PROVE OneCurrentGeneration
    OBVIOUS
  <2>1. session \in Streamable => generation \in Generations
    BY DEF Inv, TypeOK, StartInv, Prestart
  <2> QED
    BY <2>1 DEF Inv, TypeOK, StartInv, Prestart, CaptureInv, FinalInv, FrozenSessions,
       OneCurrentGeneration, Generations
<1> QED
  BY <1>1, Invariance, PTL

(* Nothing records in a restricted project. *)
THEOREM RestrictedIsQuietHolds == Spec => []RestrictedIsQuiet
<1>1. Inv => RestrictedIsQuiet
  BY DEF Inv, GateInv, RestrictedIsQuiet
<1> QED
  BY <1>1, Invariance, PTL

(* A discarded project never gets a recording. *)
THEOREM DiscardedHasNoAudioHolds == Spec => []DiscardedHasNoAudio
<1>1. Inv => DiscardedHasNoAudio
  BY DEF Inv, StartInv, GateInv, Prestart, DiscardedHasNoAudio
<1> QED
  BY <1>1, Invariance, PTL

(* Every chunk row has its bytes in the store. *)
THEOREM RowHasBytesHolds == Spec => []RowHasBytes
<1>1. Inv => RowHasBytes
  BY DEF Inv, EvidenceInv
<1> QED
  BY <1>1, Invariance, PTL

(* Audio that was acknowledged is never given up as empty. *)
THEOREM AcknowledgedIsKeptHolds == Spec => []AcknowledgedIsKept
<1>1. Inv => AcknowledgedIsKept
  BY DEF Inv, EvidenceInv, FrameEvidence, FailedIsEmpty, AcknowledgedIsKept
<1> QED
  BY <1>1, Invariance, PTL

(* The session timeline never runs backwards. *)
THEOREM TimelineMonotoneHolds == Spec => []TimelineMonotone
<1>1. Inv => TimelineMonotone
  BY DEF Inv, CaptureInv
<1> QED
  BY <1>1, Invariance, PTL

-----------------------------------------------------------------------------
(* What a step may never do *)

(* The steps that touch the commitment, the rows or the outcome. *)
AbandonEmptyStep == \E g \in Generations : AbandonEmpty(g)

Outcome == AbandonEmptyStep \/ UploadSteps \/ FreezeStep \/ AdvanceWithoutRuntime \/ SettleStep

(* Every other step leaves the commitment and the rows alone and neither   *)
(* enters nor leaves a terminal status.                                    *)
LEMMA OtherSteps ==
  ASSUME Next, ~Outcome
  PROVE  /\ UNCHANGED <<committed, chunk>>
         /\ session \in Terminal => session' = session
         /\ session \notin Terminal => session' \notin Terminal
<1>1. UNCHANGED <<committed, chunk>>
  BY DEF Next, Outcome, AbandonEmptyStep, CaptureSteps, AppendConsent, RevokeConsent, CreateSession,
     DeviceCheck, DiscardPrestart, StartSession, RevokeAssignment, RestoreAssignment,
     ConfirmActive, ReportInterrupted, BuildRuntime, FrameSteps, PersistFirstPcm, FrameDropped, Acknowledge, ResumeStep,
     Resume, CompleteObject, RecordFrame, FreezeDenied, Recover, AdvanceNothing,
     AdvanceToDrain, Crash, audioVars, finalVars
<1>2. session \in Terminal => session' = session
  BY DEF Next, Outcome, AbandonEmptyStep, CaptureSteps, AppendConsent, RevokeConsent, CreateSession,
     DeviceCheck, DiscardPrestart, StartSession, StartGate, RevokeAssignment, RestoreAssignment,
     ConfirmActive, ReportInterrupted, BuildRuntime, FrameSteps, PersistFirstPcm, FrameDropped, Acknowledge, ResumeStep,
     Resume, CompleteObject, RecordFrame, FreezeDenied, Recover, AdvanceNothing,
     AdvanceToDrain, Crash
<1>3. session \notin Terminal => session' \notin Terminal
  BY DEF Next, Outcome, AbandonEmptyStep, CaptureSteps, AppendConsent, RevokeConsent, CreateSession,
     DeviceCheck, DiscardPrestart, StartSession, StartGate, RevokeAssignment, RestoreAssignment,
     ConfirmActive, ReportInterrupted, BuildRuntime, FrameSteps, PersistFirstPcm, FrameDropped, Acknowledge, ResumeStep,
     Resume, CompleteObject, RecordFrame, FreezeDenied, Recover, AdvanceNothing,
     AdvanceToDrain, Crash
<1> QED
  BY <1>1, <1>2, <1>3

(* After the freeze the commitment stands, and only what was committed is  *)
(* stored.                                                                 *)
THEOREM FrozenEvidenceHolds == Spec => FrozenEvidence
<1> DEFINE Kept == Finalized =>
      /\ committed' = committed
      /\ \A n \in SeqNos : chunk'[n] # chunk[n] => chunk'[n] = committed[n]
<1>1. ASSUME Inv, [Next]_vars PROVE Kept \/ UNCHANGED vars
  <2>1. CASE UploadSteps
    BY <1>1, <2>1 DEF UploadSteps, UploadChunk, UploadRolledBack, UploadAuthority, finalVars,
       Inv, TypeOK, ChunkMap
  <2>2. CASE FreezeStep
    BY <2>2 DEF FreezeStep, Freeze
  <2>3. CASE AbandonEmptyStep \/ AdvanceWithoutRuntime \/ SettleStep
    BY <2>3 DEF AbandonEmptyStep, AbandonEmpty, AdvanceWithoutRuntime, SettleStep, AdvanceSettle,
       finalVars, audioVars
  <2> QED
    BY <1>1, <2>1, <2>2, <2>3, OtherSteps DEF Outcome
<1>2. Inv /\ [Next]_vars => [Kept]_vars
  BY <1>1
<1> QED
  BY <1>2, Invariance, PTL DEF Spec, FrozenEvidence

(* Nothing moves a session once it has completed or failed. *)
THEOREM TerminalIsStableHolds == Spec => TerminalIsStable
<1> DEFINE Stable == (session \in Terminal) =>
      UNCHANGED <<session, committed, chunk, manifest, transcript, accepted, audio>>
<1>1. ASSUME Inv, Next, session \in Terminal
      PROVE  UNCHANGED <<session, committed, chunk, manifest, transcript, accepted, audio>>
  <2>1. CASE ~Outcome
    <3>1. session' = session /\ committed' = committed /\ chunk' = chunk
      BY <1>1, <2>1, OtherSteps
    <3>2. UNCHANGED <<manifest, transcript, accepted, audio>>
      BY <1>1, <2>1
      DEF Next, Outcome, AbandonEmptyStep, CaptureSteps, AppendConsent, RevokeConsent,
          CreateSession, DeviceCheck, DiscardPrestart, StartSession, StartGate, RevokeAssignment,
          RestoreAssignment, ConfirmActive, ReportInterrupted, BuildRuntime, FrameSteps,
          PersistFirstPcm, FrameDropped, Acknowledge,
          ResumeStep, Resume, CompleteObject, Writable, RecordFrame, FreezeDenied, Recover,
          AdvanceNothing, AdvanceToDrain, Crash, audioVars, finalVars
    <3> QED
      BY <3>1, <3>2
  <2>2. CASE UploadSteps
    BY <1>1, <2>2 DEF UploadSteps, UploadChunk, UploadRolledBack, Writable
  <2>3. CASE AbandonEmptyStep \/ FreezeStep \/ AdvanceWithoutRuntime
    BY <1>1, <2>3 DEF AbandonEmptyStep, AbandonEmpty, FreezeStep, Freeze, AdvanceWithoutRuntime
  <2>4. CASE SettleStep
    BY <1>1, <2>4 DEF SettleStep, AdvanceSettle, audioVars
  <2> QED
    BY <1>1, <2>1, <2>2, <2>3, <2>4 DEF Outcome
<1>2. Inv /\ [Next]_vars => [Stable]_vars
  BY <1>1
<1> QED
  BY <1>2, Invariance, PTL DEF Spec, TerminalIsStable

-----------------------------------------------------------------------------
(* The services implement the custody promise *)

(* Every step is a custody step, or none at all. *)
LEMMA CustodyStep == Inv /\ Inv' /\ [Next]_vars => [Custody!Next]_(Custody!custodyVars)
<1> SUFFICES ASSUME Inv, Inv', Next PROVE Custody!Next \/ UNCHANGED Custody!custodyVars
  BY DEF vars, finalVars, audioVars, Custody!custodyVars, CustodyPhase, Finalized
<1>1. ASSUME NEW m \in Commitments, Freeze(m) PROVE Custody!Freeze
  <2>1. /\ m \in Commitments /\ m # NoChunks /\ committed' = m
        /\ committed = NoChunks /\ session \notin Terminal /\ session' = "stopping" /\ chunk' = chunk
        /\ \A n \in SeqNos : chunk[n] \in {NoChunk, m[n]}
    BY <1>1, CommitmentIsNonEmpty DEF Freeze, Finalized, Present, audioVars
  <2> QED
    BY <2>1 DEF Custody!Freeze, CustodyPhase, Finalized
<1>2. ASSUME NEW n \in SeqNos, NEW c \in Contents, UploadChunk(n, c) PROVE Custody!Hold(n)
  <2>1. chunk' = [chunk EXCEPT ![n] = c] /\ chunk[n] = NoChunk /\ chunk'[n] = c
    BY <1>2 DEF UploadChunk, Inv, TypeOK, ChunkMap
  <2> QED
    BY <1>2, <2>1 DEF UploadChunk, UploadAuthority, Writable, Custody!Hold, CustodyPhase,
       Finalized, finalVars
<1>3. ASSUME NEW n \in SeqNos, NEW c \in Contents, UploadRolledBack(n, c)
      PROVE  UNCHANGED Custody!custodyVars
  BY <1>3 DEF UploadRolledBack, Custody!custodyVars, CustodyPhase, Finalized, finalVars
<1>4. CASE AbandonEmptyStep
  <2>1. chunk = Custody!Nothing
    BY <1>4 DEF AbandonEmptyStep, AbandonEmpty, NoCaptureEvidence, Present, Custody!Nothing,
       Inv, TypeOK, ChunkMap
  <2>2. Custody!Void
    BY <1>4, <2>1 DEF AbandonEmptyStep, AbandonEmpty, NoCaptureEvidence, Custody!Void,
       CustodyPhase, Finalized, finalVars
  <2> QED
    BY <2>2 DEF Custody!Next
<1>5. CASE AdvanceWithoutRuntime
  <2>1. Custody!Seal
    BY <1>5 DEF AdvanceWithoutRuntime, ManifestMatches, Custody!Seal, CustodyPhase, Finalized,
       audioVars, Inv, FinalInv
  <2> QED
    BY <2>1 DEF Custody!Next
<1>6. CASE SettleStep /\ session \in Terminal
  BY <1>6 DEF SettleStep, AdvanceSettle, Custody!custodyVars, CustodyPhase, Finalized, audioVars
<1>7. CASE SettleStep /\ session \notin Terminal
  <2>1. Custody!Seal
    BY <1>7 DEF SettleStep, AdvanceSettle, Inv, FinalInv, ManifestMatches, Custody!Seal,
       CustodyPhase, Finalized, audioVars
  <2> QED
    BY <2>1 DEF Custody!Next
<1>8. CASE ~Outcome
  BY <1>8, OtherSteps DEF Custody!custodyVars, CustodyPhase, Finalized
<1> QED
  BY <1>1, <1>2, <1>3, <1>4, <1>5, <1>6, <1>7, <1>8
  DEF Outcome, FreezeStep, UploadSteps, Custody!Next

(* InterviewSession implements EvidenceCustody. *)
THEOREM CustodyRefinement == Spec => RefinesCustody
<1>1. Init => Custody!Init
  BY DEF Init, Custody!Init, Custody!Nothing, CustodyPhase, Finalized, NoChunks
<1> QED
  BY <1>1, CustodyStep, Invariance, PTL DEF Spec, RefinesCustody, Custody!Spec

-----------------------------------------------------------------------------
(* NewInterview: how the session that is recorded was entered.  A request  *)
(* is drawn for one purpose, which the program never writes down: Core      *)
(* states it as a function u of the requests, and EntryInv that there is    *)
(* one.  It makes a late or repeated request harmless, and it ties every    *)
(* start to a session of the project whose guard the server checks.         *)
CONSTANTS MaxFlows, MaxRequests, MaxLost, MaxVisits, MaxLeft
VARIABLES stored, recent, jobs, page, calls, drawn, made, wire, budget

Entry == INSTANCE NewInterview

ReqOrZero == {0} \cup Entry!Requests
AttemptRecords ==
  [state : {"none", "prepared", "acknowledged", "unknown"}, req : ReqOrZero, made : ReqOrZero]
FlowRecords ==
  [id : {0} \cup Entry!Flows, status : {"active", "retired", "complete"},
   step : {"project", "session", "consent_audio", "consent", "start", "complete"},
   project : AttemptRecords, session : AttemptRecords, consent : AttemptRecords,
   job : BOOLEAN, audio : ReqOrZero]
CallRecords ==
  [kind : {"project", "session", "audio", "consent", "device", "start", "discard"},
   req : ReqOrZero, project : ReqOrZero, session : ReqOrZero, audio : ReqOrZero, copy : FlowRecords,
   again : BOOLEAN, live : BOOLEAN, result : {"sent", "ok", "refused"}]
PageRecords ==
  [at : {"home", "new", "prepare", "workbench"}, phase : {"reading", "ready", "blocked", "error"},
   intent : {"new", "resume"}, flow : {Entry!NoFlow} \cup FlowRecords, device : BOOLEAN,
   target : ReqOrZero, formal : BOOLEAN]

ProjectThings == [kind : {"project"}, flow : {0} \cup Entry!Flows, status : {"draft", "ready", "active"},
                  deleted : BOOLEAN]
SessionThings == [kind : {"session"}, project : Entry!Requests,
                  status : {"created", "device_check", "recording"}]
AudioThings   == [kind : {"audio"}, project : Entry!Requests]
ConsentThings == [kind : {"consent"}, project : Entry!Requests, audio : ReqOrZero]
Things == ProjectThings \cup SessionThings \cup AudioThings \cup ConsentThings

(* What a thing says its request was drawn for.                            *)
Purpose(t) == IF t.kind = "session" THEN <<"session", t.project>> ELSE <<t.kind, 0>>

(* The requests d drawn so far, each for one purpose, and what the server  *)
(* made of them.                                                           *)
MadeOK(m, d, u) ==
  /\ m \in [Entry!Requests -> {Entry!Nothing} \cup Things]
  /\ \A r \in Entry!Requests :
       m[r] # Entry!Nothing => m[r] \in Things /\ r <= d /\ u[r] = Purpose(m[r])

NeverRecords(m) ==
  \A p, s \in Entry!Requests :
    /\ m[p].kind = "project" /\ m[p].deleted
    /\ m[s].kind = "session" /\ m[s].project = p
    => m[s].status # "recording"

IsProject(m, p) == p \in Entry!Requests /\ m[p] \in ProjectThings
IsSessionOf(m, s, p) == s \in Entry!Requests /\ m[s] \in SessionThings /\ m[s].project = p
DrawnFor(d, u, r, k, p) == r \in 1 .. d /\ u[r] = <<k, p>>
AttemptOK(d, u, a, k, p) == a.state # "none" => DrawnFor(d, u, a.req, k, p)

(* A workflow, stored or in the hands of a page or of a call.              *)
FlowOK(m, d, u, rec) ==
  /\ rec \in FlowRecords
  /\ rec.project.made # 0 => IsProject(m, rec.project.made)
  /\ rec.session.made # 0 => IsSessionOf(m, rec.session.made, rec.project.made)
  /\ rec.step = "project" => rec.session = Entry!NoAttempt
  /\ rec.step \in {"consent_audio", "consent", "start"} => rec.session.made # 0
  /\ AttemptOK(d, u, rec.project, "project", 0)
  /\ AttemptOK(d, u, rec.session, "session", rec.project.made)
  /\ AttemptOK(d, u, rec.consent, "consent", 0)

(* A call, under way or given up and still on the wire.                    *)
CallOK(m, d, u, c) ==
  /\ c \in CallRecords
  /\ FlowOK(m, d, u, c.copy)
  /\ c.copy.id = 0 => c.kind \in {"start", "device"}
  /\ c.kind \in Entry!Creates =>
       /\ c.copy.step = c.kind /\ Entry!Attempt(c.copy, c.kind).state # "none"
       /\ c.req = Entry!Attempt(c.copy, c.kind).req /\ c.project = c.copy.project.made
       /\ c.result = "ok" => m[c.req] # Entry!Nothing
  /\ c.kind = "audio" => c.copy.session.made # 0 /\ (c.req # 0 => DrawnFor(d, u, c.req, "audio", 0))
  /\ c.kind \in {"start", "device"} => IsSessionOf(m, c.session, c.project)
  /\ c.kind = "discard" => IsProject(m, c.project)

StoredOK(m, d, u, st) ==
  /\ DOMAIN st = Entry!Flows
  /\ \A f \in Entry!Flows : st[f] = Entry!NoFlow \/ (FlowOK(m, d, u, st[f]) /\ st[f].id # 0)

JobsOK(d, u, jb) ==
  /\ jb \in [Entry!Flows -> ReqOrZero]
  /\ \A f \in Entry!Flows : jb[f] # 0 => DrawnFor(d, u, jb[f], "audio", 0)

PageOK(m, d, u, pg) ==
  /\ pg \in PageRecords
  /\ pg.flow = Entry!NoFlow \/ (FlowOK(m, d, u, pg.flow) /\ pg.flow.id # 0)
  /\ pg.at = "new" /\ pg.phase = "ready" => pg.flow # Entry!NoFlow
  /\ pg.at = "prepare" => pg.target \in Entry!Requests

CallsOK(m, d, u, C) == \A c \in C : CallOK(m, d, u, c)

Core(u) ==
  /\ drawn \in ReqOrZero /\ DOMAIN u = Entry!Requests
  /\ MadeOK(made, drawn, u) /\ NeverRecords(made)
  /\ StoredOK(made, drawn, u, stored)
  /\ recent \in [Entry!Flows -> Nat]
  /\ JobsOK(drawn, u, jobs)
  /\ PageOK(made, drawn, u, page)
  /\ CallsOK(made, drawn, u, calls) /\ CallsOK(made, drawn, u, wire)

EntryInv == \E u : Core(u)

-----------------------------------------------------------------------------
(* What grows: purposes drawn earlier and things made earlier stay.        *)
MadeStays(m, n) ==
  \A r \in Entry!Requests : m[r] # Entry!Nothing => n[r] # Entry!Nothing /\ Purpose(n[r]) = Purpose(m[r])
UsesStay(d, u, e, v) == \A r \in 1 .. d : r \in 1 .. e /\ v[r] = u[r]

LEMMA ThingFacts ==
  /\ \A t \in Things : t # Entry!Nothing
  /\ \A t \in Things : Purpose(t)[1] = t.kind
  /\ \A t \in Things : t.kind = "project" => t \in ProjectThings
  /\ \A t \in Things : t.kind = "session" => t \in SessionThings /\ Purpose(t)[2] = t.project
  /\ \A t \in Things : t.kind = "audio" => t \in AudioThings
  /\ \A t \in Things : t.kind = "consent" => t \in ConsentThings
BY DEF Things, ProjectThings, SessionThings, AudioThings, ConsentThings, Entry!Nothing, Purpose

LEMMA ProjectStays ==
  ASSUME NEW d, NEW u, NEW m, NEW n, NEW p, MadeOK(n, d, u), MadeStays(m, n), IsProject(m, p)
  PROVE  IsProject(n, p)
<1>1. p \in Entry!Requests /\ m[p] \in Things /\ m[p].kind = "project"
  BY DEF IsProject, ProjectThings, Things
<1>2. n[p] # Entry!Nothing /\ Purpose(n[p]) = Purpose(m[p])
  BY <1>1, ThingFacts DEF MadeStays
<1>3. n[p] \in Things
  BY <1>1, <1>2 DEF MadeOK
<1> QED BY <1>1, <1>2, <1>3, ThingFacts DEF IsProject

LEMMA SessionStays ==
  ASSUME NEW d, NEW u, NEW m, NEW n, NEW s, NEW p, MadeOK(n, d, u), MadeStays(m, n), IsSessionOf(m, s, p)
  PROVE  IsSessionOf(n, s, p)
<1>1. s \in Entry!Requests /\ m[s] \in Things /\ m[s].kind = "session" /\ m[s].project = p
  BY DEF IsSessionOf, SessionThings, Things
<1>2. n[s] # Entry!Nothing /\ Purpose(n[s]) = Purpose(m[s])
  BY <1>1, ThingFacts DEF MadeStays
<1>3. n[s] \in Things
  BY <1>1, <1>2 DEF MadeOK
<1> QED BY <1>1, <1>2, <1>3, ThingFacts DEF IsSessionOf

LEMMA FlowStays ==
  ASSUME NEW d, NEW u, NEW m, NEW e, NEW v, NEW n, NEW rec,
         MadeOK(n, e, v), MadeStays(m, n), UsesStay(d, u, e, v), FlowOK(m, d, u, rec)
  PROVE  FlowOK(n, e, v, rec)
<1>1. \A a, k, p : AttemptOK(d, u, a, k, p) => AttemptOK(e, v, a, k, p)
  BY DEF UsesStay, AttemptOK, DrawnFor
<1>2. rec.project.made # 0 => IsProject(n, rec.project.made)
  BY ProjectStays DEF FlowOK
<1>3. rec.session.made # 0 => IsSessionOf(n, rec.session.made, rec.project.made)
  BY SessionStays DEF FlowOK
<1> QED BY <1>1, <1>2, <1>3 DEF FlowOK

LEMMA CallStays ==
  ASSUME NEW d, NEW u, NEW m, NEW e, NEW v, NEW n, NEW c, d \in ReqOrZero, MaxRequests \in Nat,
         MadeOK(n, e, v), MadeStays(m, n), UsesStay(d, u, e, v), CallOK(m, d, u, c)
  PROVE  CallOK(n, e, v, c)
<1>1. FlowOK(n, e, v, c.copy)
  BY FlowStays DEF CallOK
<1>2. c.kind \in {"start", "device"} => IsSessionOf(n, c.session, c.project)
  BY SessionStays DEF CallOK
<1>3. c.kind = "discard" => IsProject(n, c.project)
  BY ProjectStays DEF CallOK
<1>4. c.kind = "audio" => c.copy.session.made # 0 /\ (c.req # 0 => DrawnFor(e, v, c.req, "audio", 0))
  BY DEF CallOK, DrawnFor, UsesStay
<1>5. ASSUME c.kind \in Entry!Creates
      PROVE  /\ c.copy.step = c.kind /\ Entry!Attempt(c.copy, c.kind).state # "none"
             /\ c.req = Entry!Attempt(c.copy, c.kind).req /\ c.project = c.copy.project.made
             /\ c.result = "ok" => n[c.req] # Entry!Nothing
  <2>1. /\ c.copy.step = c.kind /\ Entry!Attempt(c.copy, c.kind).state # "none"
        /\ c.req = Entry!Attempt(c.copy, c.kind).req /\ c.project = c.copy.project.made
        /\ c.result = "ok" => m[c.req] # Entry!Nothing
    BY <1>5 DEF CallOK
  <2>2. FlowOK(m, d, u, c.copy)
    BY DEF CallOK
  <2>3. c.req \in 1 .. d
    BY <1>5, <2>1, <2>2 DEF FlowOK, AttemptOK, DrawnFor, Entry!Attempt, Entry!Creates
  <2>4. c.req \in Entry!Requests
    BY <2>3 DEF ReqOrZero, Entry!Requests
  <2> QED BY <2>1, <2>4 DEF MadeStays
<1> QED BY <1>1, <1>2, <1>3, <1>4, <1>5 DEF CallOK

(* One thing made or changed.                                              *)
LEMMA ThingSet ==
  ASSUME NEW d, NEW u, NEW m, NEW r \in Entry!Requests, NEW t \in Things,
         MadeOK(m, d, u), NeverRecords(m), r <= d, u[r] = Purpose(t),
         t \in SessionThings /\ t.status = "recording" => ~m[t.project].deleted,
         t \in ProjectThings /\ t.deleted =>
           \A s \in Entry!Requests : IsSessionOf(m, s, r) => m[s].status # "recording"
  PROVE  LET n == [m EXCEPT ![r] = t]
         IN  MadeOK(n, d, u) /\ MadeStays(m, n) /\ NeverRecords(n)
<1> DEFINE n == [m EXCEPT ![r] = t]
<1>1. n \in [Entry!Requests -> {Entry!Nothing} \cup Things] /\ n[r] = t /\ \A q \in Entry!Requests : q # r => n[q] = m[q]
  BY DEF MadeOK
<1> HIDE DEF n
<1>2. MadeOK(n, d, u)
  BY <1>1 DEF MadeOK
<1>3. m[r] # Entry!Nothing => Purpose(m[r]) = Purpose(t)
  BY DEF MadeOK
<1>4. MadeStays(m, n)
  BY <1>1, <1>3, ThingFacts DEF MadeStays
<1>5. NeverRecords(n)
  <2> SUFFICES ASSUME NEW p \in Entry!Requests, NEW s \in Entry!Requests,
                      n[p].kind = "project", n[p].deleted, n[s].kind = "session", n[s].project = p
               PROVE  n[s].status # "recording"
    BY DEF NeverRecords
  <2>1. CASE p # r /\ s # r
    BY <1>1, <2>1 DEF NeverRecords
  <2>2. CASE s = r
    <3>1. p # r /\ t \in SessionThings /\ t.project = p /\ m[p].deleted
      BY <1>1, <2>2, ThingFacts
    <3> QED BY <1>1, <2>2, <3>1
  <2>3. CASE p = r
    <3>1. s # r /\ t \in ProjectThings /\ t.deleted /\ m[s].kind = "session" /\ m[s].project = r
      BY <1>1, <2>3, ThingFacts
    <3>2. IsSessionOf(m, s, r)
      BY <3>1, ThingFacts DEF MadeOK, IsSessionOf, Entry!Nothing
    <3> QED BY <1>1, <3>1, <3>2
  <2> QED BY <2>1, <2>2, <2>3
<1> QED BY <1>2, <1>4, <1>5 DEF n


LEMMA StaysTwice ==
  ASSUME NEW m, NEW n, NEW o, MadeStays(m, n), MadeStays(n, o) PROVE MadeStays(m, o)
BY DEF MadeStays

LEMMA CreateKeeps ==
  ASSUME NEW u, MadeOK(made, drawn, u), NeverRecords(made), NEW r \in Entry!Requests, NEW t \in Things,
         r <= drawn, u[r] = Purpose(t),
         t \in SessionThings => t.status # "recording", t \in ProjectThings => ~t.deleted
  PROVE  LET n == Entry!Create(r, t)
         IN  /\ MadeOK(n, drawn, u) /\ MadeStays(made, n) /\ NeverRecords(n)
             /\ n[r] # Entry!Nothing /\ \A q \in Entry!Requests : q # r => n[q] = made[q]
<1>1. CASE made[r] # Entry!Nothing
  BY <1>1 DEF Entry!Create, MadeStays
<1>2. CASE made[r] = Entry!Nothing
  <2>1. Entry!Create(r, t) = [made EXCEPT ![r] = t]
    BY <1>2 DEF Entry!Create
  <2>2. [made EXCEPT ![r] = t][r] = t /\ \A q \in Entry!Requests : q # r => [made EXCEPT ![r] = t][q] = made[q]
    BY DEF MadeOK
  <2>3. /\ MadeOK([made EXCEPT ![r] = t], drawn, u) /\ MadeStays(made, [made EXCEPT ![r] = t])
        /\ NeverRecords([made EXCEPT ![r] = t])
    BY ThingSet
  <2> QED BY <2>1, <2>2, <2>3, ThingFacts
<1> QED BY <1>1, <1>2

(* What the server's answer to a call keeps                                *)
Served(u, n) ==
  /\ MadeOK(n, drawn, u) /\ MadeStays(made, n) /\ NeverRecords(n)

LEMMA NothingServed ==
  ASSUME NEW u, MadeOK(made, drawn, u), NeverRecords(made)
  PROVE  Served(u, made)
BY DEF Served, MadeStays

LEMMA AliveFacts ==
  ASSUME NEW u, MadeOK(made, drawn, u), NEW p, Entry!Alive(p)
  PROVE  p \in Entry!Requests /\ made[p] \in ProjectThings /\ ~made[p].deleted
<1>1. p \in Entry!Requests /\ made[p].kind = "project" /\ ~made[p].deleted
  BY DEF Entry!Alive, Entry!Projects
<1>2. made[p] \in Things
  BY <1>1 DEF MadeOK, Entry!Nothing
<1> QED BY <1>1, <1>2, ThingFacts

LEMMA CreateCall ==
  ASSUME NEW u, NEW c, drawn \in ReqOrZero, MaxRequests \in Nat, CallOK(made, drawn, u, c), c.kind \in Entry!Creates
  PROVE  /\ c.req \in Entry!Requests /\ c.req <= drawn
         /\ c.kind = "project" => u[c.req] = <<"project", 0>>
         /\ c.kind = "session" => u[c.req] = <<"session", c.project>>
         /\ c.kind = "consent" => u[c.req] = <<"consent", 0>>
<1>1. /\ Entry!Attempt(c.copy, c.kind).state # "none"
      /\ c.req = Entry!Attempt(c.copy, c.kind).req /\ c.project = c.copy.project.made
      /\ FlowOK(made, drawn, u, c.copy)
  BY DEF CallOK
<1> QED BY <1>1 DEF FlowOK, AttemptOK, DrawnFor, Entry!Attempt, Entry!Creates, ReqOrZero, Entry!Requests

LEMMA ServeProjectKeeps ==
  ASSUME NEW u, NEW c, drawn \in ReqOrZero, MaxRequests \in Nat, MadeOK(made, drawn, u), NeverRecords(made),
         CallOK(made, drawn, u, c), c.kind = "project"
  PROVE  Served(u, Entry!ServeProject(c).made) /\ Entry!ServeProject(c).made[c.req] # Entry!Nothing
<1> DEFINE t == [kind |-> "project", flow |-> c.copy.id, status |-> "draft", deleted |-> FALSE]
<1>1. t \in Things /\ t \in ProjectThings /\ t \notin SessionThings /\ Purpose(t) = <<"project", 0>> /\ ~t.deleted
  BY DEF CallOK, CallRecords, FlowRecords, Things, ProjectThings, SessionThings, Purpose
<1>2. c.req \in Entry!Requests /\ c.req <= drawn /\ u[c.req] = <<"project", 0>>
  BY CreateCall DEF Entry!Creates
<1>3. Entry!ServeProject(c).made = Entry!Create(c.req, t)
  BY DEF Entry!ServeProject
<1> HIDE DEF t
<1> QED BY <1>1, <1>2, <1>3, CreateKeeps DEF Served

LEMMA ServeSessionKeeps ==
  ASSUME NEW u, NEW c, drawn \in ReqOrZero, MaxRequests \in Nat, MadeOK(made, drawn, u), NeverRecords(made),
         CallOK(made, drawn, u, c), c.kind = "session"
  PROVE  /\ Served(u, Entry!ServeSession(c).made)
         /\ Entry!ServeSession(c).ok => Entry!ServeSession(c).made[c.req] # Entry!Nothing
<1> DEFINE t == [kind |-> "session", project |-> c.project, status |-> "created"]
<1>1. CASE ~(Entry!Alive(c.project) /\ (made[c.req] # Entry!Nothing \/ Entry!SessionsOf(c.project) = {}))
  <2>1. Entry!ServeSession(c) = [ok |-> FALSE, made |-> made]
    BY <1>1, Zenon DEF Entry!ServeSession, Entry!Refused
  <2> QED BY <2>1, NothingServed
<1>2. CASE Entry!Alive(c.project) /\ (made[c.req] # Entry!Nothing \/ Entry!SessionsOf(c.project) = {})
  <2>1. c.project \in Entry!Requests
    BY <1>2, AliveFacts
  <2>2. t \in Things /\ t \in SessionThings /\ t \notin ProjectThings /\ Purpose(t) = <<"session", c.project>>
        /\ t.status # "recording"
    BY <2>1 DEF Things, ProjectThings, SessionThings, Purpose
  <2>3. c.req \in Entry!Requests /\ c.req <= drawn /\ u[c.req] = <<"session", c.project>>
    BY CreateCall DEF Entry!Creates
  <2>4. Entry!ServeSession(c).made = Entry!Create(c.req, t)
    BY <1>2 DEF Entry!ServeSession
  <2> HIDE DEF t
  <2> QED BY <2>2, <2>3, <2>4, CreateKeeps DEF Served
<1> QED BY <1>1, <1>2

LEMMA ServeAudioKeeps ==
  ASSUME NEW u, NEW c, drawn \in ReqOrZero, MaxRequests \in Nat, MadeOK(made, drawn, u), NeverRecords(made),
         CallOK(made, drawn, u, c), c.kind = "audio"
  PROVE  Served(u, Entry!ServeAudio(c).made)
<1> DEFINE t == [kind |-> "audio", project |-> c.project]
<1>1. CASE ~Entry!Alive(c.project)
  BY <1>1, NothingServed DEF Entry!ServeAudio, Entry!Refused
<1>2. CASE Entry!Alive(c.project)
  <2>1. c.project \in Entry!Requests
    BY <1>2, AliveFacts
  <2>2. t \in Things /\ t \notin SessionThings /\ t \notin ProjectThings /\ Purpose(t) = <<"audio", 0>>
    BY <2>1 DEF Things, ProjectThings, SessionThings, AudioThings, Purpose
  <2>3. Entry!ServeAudio(c).made = Entry!Create(c.req, t)
    BY <1>2 DEF Entry!ServeAudio
  <2> HIDE DEF t
  <2>4. CASE c.req = 0
    <3>1. [made EXCEPT ![0] = t] = made
      BY DEF MadeOK, Entry!Requests
    <3>2. Entry!Create(0, t) = made
      BY <3>1 DEF Entry!Create
    <3> QED BY <2>3, <2>4, <3>2, NothingServed
  <2>5. CASE c.req # 0
    <3>1. c.req \in Entry!Requests /\ c.req <= drawn /\ u[c.req] = <<"audio", 0>>
      BY <2>5 DEF CallOK, DrawnFor, ReqOrZero, Entry!Requests
    <3> QED BY <2>2, <2>3, <3>1, CreateKeeps DEF Served
  <2> QED BY <2>4, <2>5
<1> QED BY <1>1, <1>2


(* A thing that the server changes keeps what it was made for.             *)
LEMMA StatusSet ==
  ASSUME NEW u, NEW m, NEW r \in Entry!Requests, NEW x, MadeOK(m, drawn, u), NeverRecords(m),
         \/ m[r] \in ProjectThings /\ x \in {"draft", "ready", "active"}
         \/ /\ m[r] \in SessionThings /\ x \in {"created", "device_check", "recording"}
            /\ x = "recording" => ~m[m[r].project].deleted
  PROVE  LET n == [m EXCEPT ![r].status = x]
         IN  MadeOK(n, drawn, u) /\ MadeStays(m, n) /\ NeverRecords(n)
<1> DEFINE t == [m[r] EXCEPT !.status = x]
           n == [m EXCEPT ![r] = t]
<1>1. m[r] # Entry!Nothing /\ m[r] \in Things
  BY ThingFacts DEF Things
<1>2. r <= drawn /\ u[r] = Purpose(m[r])
  BY <1>1 DEF MadeOK
<1>3. CASE m[r] \in ProjectThings /\ x \in {"draft", "ready", "active"}
  <2>1. t \in ProjectThings /\ t.deleted = m[r].deleted /\ t.kind = m[r].kind /\ t.kind = "project"
    BY <1>3 DEF ProjectThings
  <2>2. t \notin SessionThings /\ t \in Things /\ Purpose(t) = Purpose(m[r])
    BY <2>1 DEF SessionThings, Things, Purpose
  <2>3. t.deleted => \A s \in Entry!Requests : IsSessionOf(m, s, r) => m[s].status # "recording"
    BY <1>3, <2>1 DEF NeverRecords, IsSessionOf, SessionThings, ProjectThings
  <2> HIDE DEF t
  <2>4. MadeOK(n, drawn, u) /\ MadeStays(m, n) /\ NeverRecords(n)
    BY <1>2, <2>2, <2>3, ThingSet
  <2> QED BY <2>4 DEF t
<1>4. CASE /\ m[r] \in SessionThings /\ x \in {"created", "device_check", "recording"}
           /\ x = "recording" => ~m[m[r].project].deleted
  <2>1. t \in SessionThings /\ t.project = m[r].project /\ t.kind = m[r].kind /\ t.kind = "session" /\ t.status = x
    BY <1>4 DEF SessionThings
  <2>2. t \notin ProjectThings /\ t \in Things /\ Purpose(t) = Purpose(m[r])
    BY <2>1 DEF ProjectThings, Things, Purpose
  <2> HIDE DEF t
  <2>4. MadeOK(n, drawn, u) /\ MadeStays(m, n) /\ NeverRecords(n)
    BY <1>2, <1>4, <2>1, <2>2, ThingSet
  <2> QED BY <2>4 DEF t
<1> QED BY <1>3, <1>4

LEMMA ServeConsentKeeps ==
  ASSUME NEW u, NEW c, drawn \in ReqOrZero, MaxRequests \in Nat, MadeOK(made, drawn, u), NeverRecords(made),
         CallOK(made, drawn, u, c), c.kind = "consent"
  PROVE  /\ Served(u, Entry!ServeConsent(c).made)
         /\ Entry!ServeConsent(c).ok => Entry!ServeConsent(c).made[c.req] # Entry!Nothing
<1> DEFINE t == [kind |-> "consent", project |-> c.project, audio |-> c.audio]
           p == c.project
           n == Entry!Create(c.req, t)
<1>1. CASE ~(Entry!Alive(p) /\ made[c.audio] = [kind |-> "audio", project |-> p])
  <2>1. Entry!ServeConsent(c) = [ok |-> FALSE, made |-> made]
    BY <1>1, Zenon DEF Entry!ServeConsent, Entry!Refused
  <2> QED BY <2>1, NothingServed
<1>2. CASE Entry!Alive(p) /\ made[c.audio] = [kind |-> "audio", project |-> p]
  <2>1. p \in Entry!Requests /\ made[p] \in ProjectThings
    BY <1>2, AliveFacts
  <2>2. t \in Things /\ t \notin SessionThings /\ t \notin ProjectThings /\ Purpose(t) = <<"consent", 0>>
    BY <2>1 DEF CallOK, CallRecords, Things, ProjectThings, SessionThings, ConsentThings, Purpose
  <2>3. c.req \in Entry!Requests /\ c.req <= drawn /\ u[c.req] = <<"consent", 0>>
    BY CreateCall DEF Entry!Creates
  <2>4. Entry!ServeConsent(c).made = [n EXCEPT ![p].status = IF @ = "draft" THEN "ready" ELSE @]
    BY <1>2 DEF Entry!ServeConsent
  <2> HIDE DEF t
  <2>5. /\ MadeOK(n, drawn, u) /\ MadeStays(made, n) /\ NeverRecords(n)
        /\ n[c.req] # Entry!Nothing /\ \A q \in Entry!Requests : q # c.req => n[q] = made[q]
    BY <2>2, <2>3, CreateKeeps
  <2> HIDE DEF n
  <2>6. p # c.req
    <3>1. u[p] = Purpose(made[p]) /\ Purpose(made[p]) = <<"project", 0>>
      BY <2>1, ThingFacts DEF MadeOK, ProjectThings, Things, Purpose
    <3> QED BY <2>3, <3>1
  <2>7. n[p] = made[p]
    BY <2>1, <2>5, <2>6
  <2>8. PICK x : x = IF n[p].status = "draft" THEN "ready" ELSE n[p].status
    OBVIOUS
  <2>9. x \in {"draft", "ready", "active"}
    BY <2>1, <2>7, <2>8 DEF ProjectThings
  <2>10. Entry!ServeConsent(c).made = [n EXCEPT ![p].status = x]
    BY <2>4, <2>8
  <2>11. LET o == [n EXCEPT ![p].status = x] IN MadeOK(o, drawn, u) /\ MadeStays(n, o) /\ NeverRecords(o)
    BY <2>1, <2>5, <2>7, <2>9, StatusSet
  <2>12. PICK o : o = Entry!ServeConsent(c).made
    OBVIOUS
  <2>13. MadeOK(o, drawn, u) /\ MadeStays(n, o) /\ NeverRecords(o)
    BY <2>10, <2>11, <2>12
  <2>14. MadeStays(made, o) /\ o[c.req] # Entry!Nothing
    BY <2>3, <2>5, <2>13, StaysTwice DEF MadeStays
  <2> QED BY <2>12, <2>13, <2>14 DEF Served
<1> QED BY <1>1, <1>2

LEMMA ServeDeviceKeeps ==
  ASSUME NEW u, NEW c, MadeOK(made, drawn, u), NeverRecords(made), CallOK(made, drawn, u, c), c.kind = "device"
  PROVE  Served(u, Entry!ServeDevice(c).made)
<1>1. IsSessionOf(made, c.session, c.project)
  BY DEF CallOK
<1>2. CASE ~(Entry!Alive(c.project) /\ made[c.session].status \in {"created", "device_check"})
  BY <1>2, NothingServed DEF Entry!ServeDevice, Entry!Refused
<1>3. CASE Entry!Alive(c.project) /\ made[c.session].status \in {"created", "device_check"}
  <2>1. Entry!ServeDevice(c).made = [made EXCEPT ![c.session].status = "device_check"]
    BY <1>3 DEF Entry!ServeDevice
  <2>2. LET n == [made EXCEPT ![c.session].status = "device_check"]
        IN  MadeOK(n, drawn, u) /\ MadeStays(made, n) /\ NeverRecords(n)
    BY <1>1, StatusSet DEF IsSessionOf
  <2> QED BY <2>1, <2>2 DEF Served
<1> QED BY <1>2, <1>3

LEMMA ServeStartKeeps ==
  ASSUME NEW u, NEW c, MadeOK(made, drawn, u), NeverRecords(made), CallOK(made, drawn, u, c), c.kind = "start"
  PROVE  Served(u, Entry!ServeStart(c).made)
<1> DEFINE p == c.project  s == c.session
<1>1. IsSessionOf(made, s, p)
  BY DEF CallOK
<1>2. CASE ~(Entry!Alive(p) /\ made[s].status \in {"device_check", "recording"} /\ Entry!ConsentsOf(p) # {})
  BY <1>2, NothingServed DEF Entry!ServeStart, Entry!Refused
<1>3. CASE Entry!Alive(p) /\ made[s].status \in {"device_check", "recording"} /\ Entry!ConsentsOf(p) # {}
  <2>1. p \in Entry!Requests /\ made[p] \in ProjectThings /\ ~made[p].deleted
    BY <1>3, AliveFacts
  <2>2. s # p /\ s \in Entry!Requests /\ made[s] \in SessionThings /\ made[s].project = p
    BY <1>1, <2>1 DEF IsSessionOf, SessionThings, ProjectThings
  <2>3. PICK n : n = [made EXCEPT ![s].status = "recording"]
    OBVIOUS
  <2>4. MadeOK(n, drawn, u) /\ MadeStays(made, n) /\ NeverRecords(n)
    BY <2>1, <2>2, <2>3, StatusSet
  <2>5. n[p] = made[p]
    BY <2>1, <2>2, <2>3 DEF MadeOK
  <2>6. PICK o : o = [n EXCEPT ![p].status = "active"]
    OBVIOUS
  <2>7. MadeOK(o, drawn, u) /\ MadeStays(n, o) /\ NeverRecords(o)
    BY <2>1, <2>4, <2>5, <2>6, StatusSet
  <2>8. Entry!ServeStart(c).made = [made EXCEPT ![s].status = "recording", ![p].status = "active"]
    BY <1>3 DEF Entry!ServeStart
  <2>9. Entry!ServeStart(c).made = o
    BY <2>3, <2>6, <2>8
  <2> QED BY <2>4, <2>7, <2>9, StaysTwice DEF Served
<1> QED BY <1>2, <1>3

LEMMA ServeDiscardKeeps ==
  ASSUME NEW u, NEW c, MadeOK(made, drawn, u), NeverRecords(made), CallOK(made, drawn, u, c), c.kind = "discard"
  PROVE  Served(u, Entry!ServeDiscard(c).made)
<1> DEFINE p == c.project
           Allowed == /\ c.session = 0 \/ c.session \in Entry!SessionsOf(c.project)
                      /\ made[c.project].deleted \/
                           (made[c.project].status \in {"draft", "ready"} /\
                            \A s \in Entry!SessionsOf(c.project) : ~Entry!Advanced(s))
<1>1. p \in Entry!Requests /\ made[p] \in ProjectThings
  BY DEF CallOK, IsProject
<1>2. CASE ~Allowed
  BY <1>2, NothingServed DEF Entry!ServeDiscard, Entry!Refused
<1>3. CASE Allowed
  <2> DEFINE t == [made[p] EXCEPT !.deleted = TRUE]
  <2>1. Entry!ServeDiscard(c).made = [made EXCEPT ![p] = t]
    BY <1>3 DEF Entry!ServeDiscard
  <2>2. t \in ProjectThings /\ t.kind = "project" /\ made[p].kind = "project"
    BY <1>1 DEF ProjectThings
  <2>3. t \in Things /\ t \notin SessionThings /\ Purpose(t) = Purpose(made[p])
    BY <2>2 DEF Things, SessionThings, Purpose
  <2>4. \A s \in Entry!Requests : IsSessionOf(made, s, p) => made[s].status # "recording"
    <3> SUFFICES ASSUME NEW s \in Entry!Requests, IsSessionOf(made, s, p) PROVE made[s].status # "recording"
      OBVIOUS
    <3>1. made[s].kind = "session" /\ made[s].project = p
      BY DEF IsSessionOf, SessionThings
    <3>2. s \in Entry!SessionsOf(p)
      BY <3>1 DEF Entry!SessionsOf
    <3>3. CASE made[p].deleted
      BY <1>1, <2>2, <3>1, <3>3 DEF NeverRecords
    <3>4. CASE \A q \in Entry!SessionsOf(p) : ~Entry!Advanced(q)
      BY <3>2, <3>4 DEF Entry!Advanced
    <3> QED BY <1>3, <3>3, <3>4
  <2>5. p <= drawn /\ u[p] = Purpose(made[p])
    BY <1>1, ThingFacts DEF MadeOK, Things
  <2> HIDE DEF t
  <2>6. LET n == [made EXCEPT ![p] = t] IN MadeOK(n, drawn, u) /\ MadeStays(made, n) /\ NeverRecords(n)
    BY <1>1, <2>2, <2>3, <2>4, <2>5, ThingSet
  <2> QED BY <2>1, <2>6 DEF Served
<1> QED BY <1>2, <1>3

LEMMA ServeKeeps ==
  ASSUME NEW u, NEW c, drawn \in ReqOrZero, MaxRequests \in Nat, MadeOK(made, drawn, u), NeverRecords(made),
         CallOK(made, drawn, u, c)
  PROVE  /\ Served(u, Entry!Serve(c).made)
         /\ c.kind \in Entry!Creates /\ Entry!Serve(c).ok => Entry!Serve(c).made[c.req] # Entry!Nothing
<1>1. c.kind \in {"project", "session", "audio", "consent", "device", "start", "discard"}
  BY DEF CallOK, CallRecords
<1>2. CASE c.kind = "project"
  BY <1>2, ServeProjectKeeps DEF Entry!Serve
<1>3. CASE c.kind = "session"
  BY <1>3, ServeSessionKeeps DEF Entry!Serve
<1>4. CASE c.kind = "audio"
  BY <1>4, ServeAudioKeeps DEF Entry!Serve, Entry!Creates
<1>5. CASE c.kind = "consent"
  BY <1>5, ServeConsentKeeps DEF Entry!Serve
<1>6. CASE c.kind = "device"
  BY <1>6, ServeDeviceKeeps DEF Entry!Serve, Entry!Creates
<1>7. CASE c.kind = "start"
  BY <1>7, ServeStartKeeps DEF Entry!Serve, Entry!Creates
<1>8. CASE c.kind = "discard"
  BY <1>8, ServeDiscardKeeps DEF Entry!Serve, Entry!Creates
<1> QED BY <1>1, <1>2, <1>3, <1>4, <1>5, <1>6, <1>7, <1>8


-----------------------------------------------------------------------------
(* Workflows and calls                                                     *)

LEMMA FreshOK ==
  ASSUME NEW m, NEW d, NEW u, NEW f \in {0} \cup Entry!Flows
  PROVE  FlowOK(m, d, u, Entry!FreshFlow(f)) /\ Entry!FreshFlow(f).id = f
BY DEF FlowOK, FlowRecords, AttemptRecords, ReqOrZero, AttemptOK, Entry!FreshFlow, Entry!NoAttempt

LEMMA MadeFor ==
  ASSUME NEW m, NEW d, NEW u, NEW r \in Entry!Requests, MadeOK(m, d, u), m[r] # Entry!Nothing
  PROVE  /\ u[r] = <<"project", 0>> => IsProject(m, r)
         /\ \A p : u[r] = <<"session", p>> => IsSessionOf(m, r, p)
<1>1. m[r] \in Things /\ u[r] = Purpose(m[r])
  BY DEF MadeOK
<1>2. Purpose(m[r])[1] = m[r].kind
  BY <1>1, ThingFacts
<1>3. u[r] = <<"project", 0>> => IsProject(m, r)
  BY <1>1, <1>2, ThingFacts DEF IsProject
<1>4. ASSUME NEW p, u[r] = <<"session", p>> PROVE IsSessionOf(m, r, p)
  <2>1. m[r].kind = "session"
    BY <1>1, <1>2, <1>4
  <2>2. u[r] = <<"session", m[r].project>>
    BY <1>1, <2>1 DEF Purpose
  <2>3. m[r].project = p
    BY <1>4, <2>2
  <2> QED BY <1>1, <2>1, <2>3, ThingFacts DEF IsSessionOf
<1> QED BY <1>3, <1>4

(* Changes of a workflow that are no attempt's                             *)
LEMMA FlowRetired ==
  ASSUME NEW m, NEW d, NEW u, NEW rec, FlowOK(m, d, u, rec), NEW e, e = [rec EXCEPT !.status = "retired"]
  PROVE  FlowOK(m, d, u, e) /\ e.id = rec.id
<1>1. rec \in FlowRecords
  BY DEF FlowOK
<1>2. /\ e \in FlowRecords /\ e.id = rec.id /\ e.step = rec.step /\ e.project = rec.project
      /\ e.session = rec.session /\ e.consent = rec.consent
  BY <1>1 DEF FlowRecords
<1>3. FlowOK(m, d, u, e)
  BY <1>2 DEF FlowOK
<1> QED BY <1>2, <1>3

LEMMA FlowReread ==
  ASSUME NEW m, NEW d, NEW u, NEW rec, FlowOK(m, d, u, rec), NEW e, e = [rec EXCEPT !.step = "session"]
  PROVE  FlowOK(m, d, u, e) /\ e.id = rec.id
<1>1. rec \in FlowRecords
  BY DEF FlowOK
<1>2. /\ e \in FlowRecords /\ e.id = rec.id /\ e.step = "session" /\ e.project = rec.project
      /\ e.session = rec.session /\ e.consent = rec.consent
  BY <1>1 DEF FlowRecords
<1>3. FlowOK(m, d, u, e)
  BY <1>2 DEF FlowOK
<1> QED BY <1>2, <1>3

LEMMA FlowRecording ==
  ASSUME NEW m, NEW d, NEW u, NEW rec, FlowOK(m, d, u, rec), NEW e, e = [rec EXCEPT !.job = TRUE]
  PROVE  FlowOK(m, d, u, e) /\ e.id = rec.id
<1>1. rec \in FlowRecords
  BY DEF FlowOK
<1>2. /\ e \in FlowRecords /\ e.id = rec.id /\ e.step = rec.step /\ e.project = rec.project
      /\ e.session = rec.session /\ e.consent = rec.consent
  BY <1>1 DEF FlowRecords
<1>3. FlowOK(m, d, u, e)
  BY <1>2 DEF FlowOK
<1> QED BY <1>2, <1>3

(* A workflow whose attempts stay, further on                              *)
LEMMA FlowMoved ==
  ASSUME NEW m, NEW d, NEW u, NEW rec, FlowOK(m, d, u, rec), NEW e \in FlowRecords,
         e.project = rec.project, e.session = rec.session, e.consent = rec.consent,
         e.step = "complete" \/ (e.step = "consent" /\ rec.session.made # 0)
  PROVE  FlowOK(m, d, u, e)
BY DEF FlowOK

(* A workflow that goes on with a session the server has                   *)
LEMMA FlowJoined ==
  ASSUME NEW m, NEW d, NEW u, NEW rec, FlowOK(m, d, u, rec), NEW a \in AttemptRecords,
         NEW st \in {"consent_audio", "consent"}, a.made # 0, IsSessionOf(m, a.made, rec.project.made),
         AttemptOK(d, u, a, "session", rec.project.made), NEW e \in FlowRecords,
         e.step = st, e.project = rec.project, e.session = a, e.consent = rec.consent
  PROVE  FlowOK(m, d, u, e)
BY DEF FlowOK

(* An attempt saved before its request is sent, or marked unknown          *)
LEMMA FlowAttempt ==
  ASSUME NEW m, NEW d, NEW u, NEW rec, FlowOK(m, d, u, rec), NEW kind \in Entry!Creates, rec.step = kind,
         NEW a \in AttemptRecords, a.made = Entry!Attempt(rec, kind).made,
         AttemptOK(d, u, a, kind, IF kind = "session" THEN rec.project.made ELSE 0)
  PROVE  LET e == Entry!WithAttempt(rec, kind, a)
         IN  /\ FlowOK(m, d, u, e) /\ e.id = rec.id /\ e.step = kind /\ Entry!Attempt(e, kind) = a
             /\ e.project.made = rec.project.made
<1>1. rec \in FlowRecords
  BY DEF FlowOK
<1>2. PICK e : e = Entry!WithAttempt(rec, kind, a)
  OBVIOUS
<1>3. CASE kind = "project"
  <2>1. e = [rec EXCEPT !.project = a]
    BY <1>2, <1>3 DEF Entry!WithAttempt
  <2>2. /\ e \in FlowRecords /\ e.id = rec.id /\ e.step = rec.step /\ e.project = a
        /\ e.session = rec.session /\ e.consent = rec.consent
    BY <1>1, <2>1 DEF FlowRecords
  <2>3. a.made = rec.project.made /\ Entry!Attempt(e, kind) = a
    BY <1>3, <2>2 DEF Entry!Attempt
  <2>4. FlowOK(m, d, u, e)
    BY <1>3, <2>2, <2>3 DEF FlowOK
  <2> QED BY <1>2, <2>2, <2>3, <2>4
<1>4. CASE kind = "session"
  <2>1. e = [rec EXCEPT !.session = a]
    BY <1>2, <1>4 DEF Entry!WithAttempt
  <2>2. /\ e \in FlowRecords /\ e.id = rec.id /\ e.step = rec.step /\ e.project = rec.project
        /\ e.session = a /\ e.consent = rec.consent
    BY <1>1, <2>1 DEF FlowRecords
  <2>3. a.made = rec.session.made /\ Entry!Attempt(e, kind) = a
    BY <1>4, <2>2 DEF Entry!Attempt
  <2>4. FlowOK(m, d, u, e)
    BY <1>4, <2>2, <2>3 DEF FlowOK
  <2> QED BY <1>2, <2>2, <2>3, <2>4
<1>5. CASE kind = "consent"
  <2>1. e = [rec EXCEPT !.consent = a]
    BY <1>2, <1>5 DEF Entry!WithAttempt
  <2>2. /\ e \in FlowRecords /\ e.id = rec.id /\ e.step = rec.step /\ e.project = rec.project
        /\ e.session = rec.session /\ e.consent = a
    BY <1>1, <2>1 DEF FlowRecords
  <2>3. Entry!Attempt(e, kind) = a
    BY <1>5, <2>2 DEF Entry!Attempt
  <2>4. FlowOK(m, d, u, e)
    BY <1>5, <2>2, <2>3 DEF FlowOK
  <2> QED BY <1>2, <2>2, <2>3, <2>4
<1> QED BY <1>3, <1>4, <1>5 DEF Entry!Creates

(* A create that was answered: the workflow takes its next step            *)
LEMMA FlowAcknowledged ==
  ASSUME NEW m, NEW d, NEW u, MadeOK(m, d, u), d \in ReqOrZero, MaxRequests \in Nat, NEW c, CallOK(m, d, u, c),
         c.kind \in Entry!Creates, c.result = "ok"
  PROVE  LET a == Entry!Acknowledged(Entry!Attempt(c.copy, c.kind), c.req)
             e == [Entry!WithAttempt(c.copy, c.kind, a) EXCEPT !.step = Entry!NextStep(c.copy, c.kind)]
         IN  /\ FlowOK(m, d, u, e) /\ e.id = c.copy.id
             /\ c.kind = "consent" => e.session.made # 0
<1>1. /\ c.copy \in FlowRecords /\ FlowOK(m, d, u, c.copy) /\ c.copy.step = c.kind
      /\ Entry!Attempt(c.copy, c.kind).state # "none" /\ c.req = Entry!Attempt(c.copy, c.kind).req
      /\ m[c.req] # Entry!Nothing
  BY DEF CallOK, FlowOK
<1>2. PICK old : old = Entry!Attempt(c.copy, c.kind)
  OBVIOUS
<1>3. PICK a : a = Entry!Acknowledged(old, c.req)
  OBVIOUS
<1>4. PICK e : e = [Entry!WithAttempt(c.copy, c.kind, a) EXCEPT !.step = Entry!NextStep(c.copy, c.kind)]
  OBVIOUS
<1>5. old \in AttemptRecords
  BY <1>1, <1>2 DEF Entry!Attempt, Entry!Creates, FlowRecords
<1>6. DrawnFor(d, u, c.req, c.kind, IF c.kind = "session" THEN c.copy.project.made ELSE 0)
  BY <1>1, <1>2 DEF FlowOK, AttemptOK, Entry!Attempt, Entry!Creates
<1>7. c.req \in Entry!Requests /\ c.req # 0 /\ c.req \in ReqOrZero
  BY <1>6 DEF DrawnFor, ReqOrZero, Entry!Requests
<1>8. a \in AttemptRecords /\ a.req = c.req /\ a.made = c.req
  BY <1>1, <1>2, <1>3, <1>5, <1>7 DEF AttemptRecords, Entry!Acknowledged
<1>9. AttemptOK(d, u, a, c.kind, IF c.kind = "session" THEN c.copy.project.made ELSE 0)
  BY <1>6, <1>8 DEF AttemptOK
<1>10. CASE c.kind = "project"
  <2>1. e = [[c.copy EXCEPT !.project = a] EXCEPT !.step = "session"]
    BY <1>4, <1>10 DEF Entry!WithAttempt, Entry!NextStep
  <2>2. /\ e \in FlowRecords /\ e.id = c.copy.id /\ e.step = "session" /\ e.project = a
        /\ e.session = c.copy.session /\ e.consent = c.copy.consent
    BY <1>1, <1>8, <2>1 DEF FlowRecords
  <2>3. e.session.made = 0 /\ e.session.state = "none"
    BY <1>1, <1>10, <2>2 DEF FlowOK, Entry!NoAttempt
  <2>4. IsProject(m, c.req)
    BY <1>1, <1>6, <1>7, <1>10, MadeFor DEF DrawnFor
  <2>5. FlowOK(m, d, u, e)
    BY <1>1, <1>8, <1>9, <1>10, <2>2, <2>3, <2>4 DEF FlowOK, AttemptOK
  <2> QED BY <1>2, <1>3, <1>4, <1>10, <2>2, <2>5
<1>11. CASE c.kind = "session"
  <2>1. PICK st \in {"consent_audio", "consent"} : e = [[c.copy EXCEPT !.session = a] EXCEPT !.step = st]
    BY <1>4, <1>11 DEF Entry!WithAttempt, Entry!NextStep
  <2>2. /\ e \in FlowRecords /\ e.id = c.copy.id /\ e.step = st /\ e.project = c.copy.project
        /\ e.session = a /\ e.consent = c.copy.consent
    BY <1>1, <1>8, <2>1 DEF FlowRecords
  <2>3. IsSessionOf(m, c.req, c.copy.project.made)
    BY <1>1, <1>6, <1>7, <1>11, MadeFor DEF DrawnFor
  <2>4. FlowOK(m, d, u, e)
    BY <1>1, <1>7, <1>8, <1>9, <1>11, <2>1, <2>2, <2>3 DEF FlowOK
  <2> QED BY <1>2, <1>3, <1>4, <1>11, <2>2, <2>4
<1>12. CASE c.kind = "consent"
  <2>1. e = [[c.copy EXCEPT !.consent = a] EXCEPT !.step = "start"]
    BY <1>4, <1>12 DEF Entry!WithAttempt, Entry!NextStep
  <2>2. /\ e \in FlowRecords /\ e.id = c.copy.id /\ e.step = "start" /\ e.project = c.copy.project
        /\ e.session = c.copy.session /\ e.consent = a
    BY <1>1, <1>8, <2>1 DEF FlowRecords
  <2>3. e.session.made # 0
    BY <1>1, <1>12, <2>2 DEF FlowOK
  <2>4. FlowOK(m, d, u, e)
    BY <1>1, <1>9, <1>12, <2>2, <2>3 DEF FlowOK
  <2> QED BY <1>2, <1>3, <1>4, <2>2, <2>3, <2>4
<1> QED BY <1>10, <1>11, <1>12 DEF Entry!Creates

(* A call that a page makes of a workflow                                  *)
LEMMA CallMade ==
  ASSUME NEW m, NEW d, NEW u, NEW rec, FlowOK(m, d, u, rec), NEW kind, NEW req \in ReqOrZero,
         \/ /\ kind \in Entry!Creates /\ rec.step = kind /\ rec.id # 0
            /\ Entry!Attempt(rec, kind).state # "none" /\ req = Entry!Attempt(rec, kind).req
         \/ /\ kind = "audio" /\ rec.session.made # 0 /\ rec.id # 0
            /\ req # 0 => DrawnFor(d, u, req, "audio", 0)
         \/ kind \in {"device", "start"} /\ rec.session.made # 0
         \/ kind = "discard" /\ rec.project.made # 0 /\ rec.id # 0
  PROVE  LET c == Entry!Call(kind, req, rec)
         IN  /\ CallOK(m, d, u, c)
             /\ \A b \in BOOLEAN : CallOK(m, d, u, [c EXCEPT !.again = b]) /\ CallOK(m, d, u, [c EXCEPT !.live = b])
<1>1. PICK c : c = Entry!Call(kind, req, rec)
  OBVIOUS
<1>2. rec \in FlowRecords
  BY DEF FlowOK
<1>3. /\ rec.project.made \in ReqOrZero /\ rec.session.made \in ReqOrZero /\ rec.audio \in ReqOrZero
      /\ kind \in {"project", "session", "audio", "consent", "device", "start", "discard"}
  BY <1>2 DEF FlowRecords, AttemptRecords, Entry!Creates
<1>4. /\ c \in CallRecords /\ c.kind = kind /\ c.req = req /\ c.project = rec.project.made
      /\ c.session = rec.session.made /\ c.copy = rec /\ c.result = "sent"
  BY <1>1, <1>2, <1>3 DEF Entry!Call, CallRecords
<1>5. ASSUME NEW e \in CallRecords, e.kind = kind, e.req = req, e.project = rec.project.made,
             e.session = rec.session.made, e.copy = rec, e.result = "sent"
      PROVE  CallOK(m, d, u, e)
  <2>1. kind \in {"device", "start"} => IsSessionOf(m, e.session, e.project)
    BY <1>5 DEF FlowOK, Entry!Creates
  <2>2. kind = "discard" => IsProject(m, e.project)
    BY <1>5 DEF FlowOK, Entry!Creates
  <2> QED BY <1>5, <2>1, <2>2 DEF CallOK, Entry!Creates
<1>6. ASSUME NEW b \in BOOLEAN
      PROVE  CallOK(m, d, u, [c EXCEPT !.again = b]) /\ CallOK(m, d, u, [c EXCEPT !.live = b])
  <2>1. PICK e : e = [c EXCEPT !.again = b]
    OBVIOUS
  <2>2. /\ e \in CallRecords /\ e.kind = kind /\ e.req = req /\ e.project = rec.project.made
        /\ e.session = rec.session.made /\ e.copy = rec /\ e.result = "sent"
    BY <1>4, <2>1 DEF CallRecords
  <2>3. PICK f : f = [c EXCEPT !.live = b]
    OBVIOUS
  <2>4. /\ f \in CallRecords /\ f.kind = kind /\ f.req = req /\ f.project = rec.project.made
        /\ f.session = rec.session.made /\ f.copy = rec /\ f.result = "sent"
    BY <1>4, <2>3 DEF CallRecords
  <2> QED BY <1>5, <2>1, <2>2, <2>3, <2>4
<1> QED BY <1>1, <1>4, <1>5, <1>6


LEMMA CallMarked ==
  ASSUME NEW m, NEW d, NEW u, NEW c, CallOK(m, d, u, c)
  PROVE  /\ CallOK(m, d, u, [c EXCEPT !.live = FALSE])
         /\ \A x \in {"ok", "refused"} :
              (x = "ok" /\ c.kind \in Entry!Creates => m[c.req] # Entry!Nothing)
              => CallOK(m, d, u, [c EXCEPT !.result = x])
<1>1. c \in CallRecords
  BY DEF CallOK
<1>2. PICK e : e = [c EXCEPT !.live = FALSE]
  OBVIOUS
<1>3. /\ e \in CallRecords /\ e.kind = c.kind /\ e.req = c.req /\ e.project = c.project
      /\ e.session = c.session /\ e.copy = c.copy /\ e.result = c.result
  BY <1>1, <1>2 DEF CallRecords
<1>4. CallOK(m, d, u, e)
  BY <1>3 DEF CallOK
<1>5. ASSUME NEW x \in {"ok", "refused"}, x = "ok" /\ c.kind \in Entry!Creates => m[c.req] # Entry!Nothing
      PROVE  CallOK(m, d, u, [c EXCEPT !.result = x])
  <2>1. PICK f : f = [c EXCEPT !.result = x]
    OBVIOUS
  <2>2. /\ f \in CallRecords /\ f.kind = c.kind /\ f.req = c.req /\ f.project = c.project
        /\ f.session = c.session /\ f.copy = c.copy /\ f.result = x
    BY <1>1, <2>1 DEF CallRecords
  <2>3. CallOK(m, d, u, f)
    BY <1>5, <2>2 DEF CallOK
  <2> QED BY <2>1, <2>3
<1> QED BY <1>2, <1>4, <1>5

-----------------------------------------------------------------------------
(* The workflow store and the page                                         *)

LEMMA TouchedKeeps ==
  ASSUME NEW ord \in [Entry!Flows -> Nat], NEW f
  PROVE  Entry!Touched(ord, f) \in [Entry!Flows -> Nat]
BY DEF Entry!Touched

LEMMA RealFlow ==
  ASSUME NEW m, NEW d, NEW u, NEW rec, FlowOK(m, d, u, rec), rec.id # 0
  PROVE  rec # Entry!NoFlow /\ rec.id \in Entry!Flows /\ rec \in FlowRecords
BY DEF FlowOK, FlowRecords, Entry!NoFlow

LEMMA PutKeeps ==
  ASSUME NEW m, NEW d, NEW u, NEW st, StoredOK(m, d, u, st), NEW rec, FlowOK(m, d, u, rec), rec.id # 0
  PROVE  StoredOK(m, d, u, [st EXCEPT ![rec.id] = rec])
<1>1. DOMAIN [st EXCEPT ![rec.id] = rec] = Entry!Flows
  BY DEF StoredOK
<1>2. \A f \in Entry!Flows : [st EXCEPT ![rec.id] = rec][f] = IF f = rec.id THEN rec ELSE st[f]
  BY DEF StoredOK
<1> QED BY <1>1, <1>2 DEF StoredOK

LEMMA LatestActive ==
  ASSUME recent \in [Entry!Flows -> Nat], Entry!ActiveFlows # {}
  PROVE  \E f \in Entry!ActiveFlows : \A g \in Entry!ActiveFlows : recent[f] <= recent[g]
<1> DEFINE S == {recent[f] : f \in Entry!ActiveFlows}
           R == OpToRel(<, Nat)
<1>1. Entry!ActiveFlows \subseteq Entry!Flows
  BY DEF Entry!ActiveFlows
<1>2. S \subseteq Nat /\ S # {}
  BY <1>1
<1>3. IsWellFoundedOn(R, Nat)
  BY NatLessThanWellFounded
<1>4. \A a, b \in Nat : <<a, b>> \in R <=> a < b
  BY DEF OpToRel
<1> HIDE DEF R, S
<1>5. PICK x \in S : \A y \in S : ~(<<y, x>> \in R)
  BY <1>2, <1>3, WFMin, Zenon
<1>6. \A y \in S : x <= y
  <2> TAKE y \in S
  <2>1. x \in Nat /\ y \in Nat /\ ~(y < x)
    BY <1>2, <1>4, <1>5
  <2> QED BY <2>1
<1> QED BY <1>6 DEF S

LEMMA ActiveRead ==
  ASSUME NEW m, NEW d, NEW u, StoredOK(m, d, u, stored), recent \in [Entry!Flows -> Nat]
  PROVE  Entry!GetActive = Entry!NoFlow \/ (FlowOK(m, d, u, Entry!GetActive) /\ Entry!GetActive.id # 0)
<1>1. CASE Entry!ActiveFlows = {}
  BY <1>1 DEF Entry!GetActive
<1>2. CASE Entry!ActiveFlows # {}
  <2> DEFINE latest == CHOOSE f \in Entry!ActiveFlows : \A g \in Entry!ActiveFlows : recent[f] <= recent[g]
  <2>1. latest \in Entry!ActiveFlows
    BY <1>2, LatestActive
  <2>2. PICK rec : rec = stored[latest]
    OBVIOUS
  <2>3. FlowOK(m, d, u, rec) /\ rec.id # 0
    BY <2>1, <2>2 DEF StoredOK, Entry!ActiveFlows, Entry!NoFlow
  <2>4. FlowOK(m, d, u, [rec EXCEPT !.step = "session"]) /\ [rec EXCEPT !.step = "session"].id # 0
    BY <2>3, FlowReread
  <2>5. Entry!GetActive = rec \/ Entry!GetActive = [rec EXCEPT !.step = "session"]
    BY <1>2, <2>2 DEF Entry!GetActive
  <2> QED BY <2>3, <2>4, <2>5
<1> QED BY <1>1, <1>2

LEMMA FreshRead ==
  ASSUME NEW m, NEW d, NEW u, Entry!HasUnusedFlow, MaxFlows \in Nat
  PROVE  FlowOK(m, d, u, Entry!Fresh) /\ Entry!Fresh.id # 0
<1>1. PICK f \in Entry!Flows : f = CHOOSE g \in Entry!Flows : stored[g] = Entry!NoFlow
  BY DEF Entry!HasUnusedFlow
<1>2. Entry!Fresh = Entry!FreshFlow(f)
  BY <1>1, Zenon DEF Entry!Fresh
<1>3. f # 0
  BY DEF Entry!Flows
<1> QED BY <1>2, <1>3, FreshOK

LEMMA ReplaceKeeps ==
  ASSUME NEW m, NEW d, NEW u, StoredOK(m, d, u, stored), NEW rec, FlowOK(m, d, u, rec), rec.id # 0,
         Entry!HasUnusedFlow, MaxFlows \in Nat
  PROVE  StoredOK(m, d, u, [stored EXCEPT ![rec.id] = [rec EXCEPT !.status = "retired"],
                                          ![Entry!Fresh.id] = Entry!Fresh])
<1>1. PICK e : e = [rec EXCEPT !.status = "retired"]
  OBVIOUS
<1>2. FlowOK(m, d, u, e) /\ e.id = rec.id
  BY <1>1, FlowRetired
<1>3. PICK st : st = [stored EXCEPT ![rec.id] = e]
  OBVIOUS
<1>4. StoredOK(m, d, u, st)
  BY <1>2, <1>3, PutKeeps
<1>5. StoredOK(m, d, u, [st EXCEPT ![Entry!Fresh.id] = Entry!Fresh])
  BY <1>4, FreshRead, PutKeeps
<1> QED BY <1>1, <1>3, <1>5

(* A workflow a page may show                                              *)
Showable(m, d, u, rec) == rec = Entry!NoFlow \/ (FlowOK(m, d, u, rec) /\ rec.id # 0)

LEMMA PageShows ==
  ASSUME NEW m, NEW d, NEW u, NEW pg, PageOK(m, d, u, pg)
  PROVE  /\ \A ph \in {"ready", "blocked", "error"} : \A rec :
              Showable(m, d, u, rec) /\ (pg.at = "new" /\ ph = "ready" => rec # Entry!NoFlow)
              => PageOK(m, d, u, [pg EXCEPT !.phase = ph, !.flow = rec])
         /\ \A rec : FlowOK(m, d, u, rec) /\ rec.id # 0 =>
              /\ PageOK(m, d, u, [pg EXCEPT !.flow = rec])
              /\ \A b \in BOOLEAN : PageOK(m, d, u, [pg EXCEPT !.flow = rec, !.device = b])
              /\ PageOK(m, d, u, [pg EXCEPT !.phase = "ready", !.flow = rec, !.intent = "resume"])
              /\ PageOK(m, d, u, [pg EXCEPT !.flow = rec, !.intent = "resume", !.device = FALSE])
         /\ PageOK(m, d, u, [pg EXCEPT !.device = TRUE])
         /\ PageOK(m, d, u, [pg EXCEPT !.at = "workbench"])
<1>1. pg \in PageRecords
  BY DEF PageOK
<1>2. ASSUME NEW ph \in {"ready", "blocked", "error"}, NEW rec, Showable(m, d, u, rec),
             pg.at = "new" /\ ph = "ready" => rec # Entry!NoFlow
      PROVE  PageOK(m, d, u, [pg EXCEPT !.phase = ph, !.flow = rec])
  <2>1. rec \in {Entry!NoFlow} \cup FlowRecords
    BY <1>2 DEF Showable, FlowOK
  <2>2. PICK e : e = [pg EXCEPT !.phase = ph, !.flow = rec]
    OBVIOUS
  <2>3. e \in PageRecords /\ e.at = pg.at /\ e.phase = ph /\ e.flow = rec /\ e.target = pg.target
    BY <1>1, <2>1, <2>2 DEF PageRecords
  <2> QED BY <1>2, <2>2, <2>3 DEF PageOK, Showable
<1>3. ASSUME NEW rec, FlowOK(m, d, u, rec), rec.id # 0
      PROVE  /\ PageOK(m, d, u, [pg EXCEPT !.flow = rec])
             /\ \A b \in BOOLEAN : PageOK(m, d, u, [pg EXCEPT !.flow = rec, !.device = b])
             /\ PageOK(m, d, u, [pg EXCEPT !.phase = "ready", !.flow = rec, !.intent = "resume"])
             /\ PageOK(m, d, u, [pg EXCEPT !.flow = rec, !.intent = "resume", !.device = FALSE])
  <2>1. rec \in FlowRecords /\ rec # Entry!NoFlow
    BY <1>3, RealFlow
  <2>2. ASSUME NEW e \in PageRecords, e.at = pg.at, e.flow = rec, e.target = pg.target
        PROVE  PageOK(m, d, u, e)
    BY <1>3, <2>1, <2>2 DEF PageOK
  <2>3. PICK e : e = [pg EXCEPT !.flow = rec]
    OBVIOUS
  <2>4. e \in PageRecords /\ e.at = pg.at /\ e.flow = rec /\ e.target = pg.target
    BY <1>1, <2>1, <2>3 DEF PageRecords
  <2>5. ASSUME NEW b \in BOOLEAN PROVE PageOK(m, d, u, [pg EXCEPT !.flow = rec, !.device = b])
    <3>1. PICK f : f = [pg EXCEPT !.flow = rec, !.device = b]
      OBVIOUS
    <3>2. f \in PageRecords /\ f.at = pg.at /\ f.flow = rec /\ f.target = pg.target
      BY <1>1, <2>1, <3>1 DEF PageRecords
    <3> QED BY <2>2, <3>1, <3>2
  <2>6. PICK g : g = [pg EXCEPT !.phase = "ready", !.flow = rec, !.intent = "resume"]
    OBVIOUS
  <2>7. g \in PageRecords /\ g.at = pg.at /\ g.flow = rec /\ g.target = pg.target
    BY <1>1, <2>1, <2>6 DEF PageRecords
  <2>8. PICK h : h = [pg EXCEPT !.flow = rec, !.intent = "resume", !.device = FALSE]
    OBVIOUS
  <2>9. h \in PageRecords /\ h.at = pg.at /\ h.flow = rec /\ h.target = pg.target
    BY <1>1, <2>1, <2>8 DEF PageRecords
  <2> QED BY <2>2, <2>3, <2>4, <2>5, <2>6, <2>7, <2>8, <2>9
<1>4. PICK e : e = [pg EXCEPT !.device = TRUE]
  OBVIOUS
<1>5. /\ e \in PageRecords /\ e.at = pg.at /\ e.phase = pg.phase /\ e.flow = pg.flow /\ e.target = pg.target
  BY <1>1, <1>4 DEF PageRecords
<1>6. PageOK(m, d, u, e)
  BY <1>5 DEF PageOK
<1>7. PICK f : f = [pg EXCEPT !.at = "workbench"]
  OBVIOUS
<1>8. /\ f \in PageRecords /\ f.at = "workbench" /\ f.phase = pg.phase /\ f.flow = pg.flow /\ f.target = pg.target
  BY <1>1, <1>7 DEF PageRecords
<1>9. PageOK(m, d, u, f)
  BY <1>8 DEF PageOK
<1> QED BY <1>2, <1>3, <1>4, <1>6, <1>7, <1>9

(* A page that is loaded                                                   *)
LEMMA PageLoads ==
  ASSUME NEW m, NEW d, NEW u, StoredOK(m, d, u, stored), recent \in [Entry!Flows -> Nat],
         NEW at \in {"home", "new", "prepare"}, NEW intent \in {"new", "resume"}, NEW target \in ReqOrZero,
         at = "prepare" => target \in Entry!Requests
  PROVE  PageOK(m, d, u, Entry!Page(at, intent, target))
<1>1. PICK pg : pg = Entry!Page(at, intent, target)
  OBVIOUS
<1>2. Entry!GetActive \in {Entry!NoFlow} \cup FlowRecords
  BY ActiveRead DEF FlowOK
<1>3. /\ pg \in PageRecords /\ pg.at = at /\ pg.phase = "reading" /\ pg.flow = Entry!GetActive /\ pg.target = target
  BY <1>1, <1>2 DEF Entry!Page, PageRecords
<1> QED BY <1>1, <1>3, ActiveRead DEF PageOK


-----------------------------------------------------------------------------
(* Steps                                                                   *)
EntryBounds == MaxFlows \in Nat /\ MaxRequests \in Nat

(* What stands through a step on the server or a request drawn             *)
LEMMA Carried ==
  ASSUME EntryBounds, NEW u, Core(u), NEW m, NEW e, NEW v,
         MadeOK(m, e, v), MadeStays(made, m), UsesStay(drawn, u, e, v)
  PROVE  /\ StoredOK(m, e, v, stored) /\ JobsOK(e, v, jobs) /\ PageOK(m, e, v, page)
         /\ CallsOK(m, e, v, calls) /\ CallsOK(m, e, v, wire)
         /\ \A rec : FlowOK(made, drawn, u, rec) => FlowOK(m, e, v, rec)
<1>1. \A rec : FlowOK(made, drawn, u, rec) => FlowOK(m, e, v, rec)
  BY FlowStays
<1>2. \A c : CallOK(made, drawn, u, c) => CallOK(m, e, v, c)
  BY CallStays DEF Core, EntryBounds
<1>3. JobsOK(e, v, jobs)
  BY DEF Core, JobsOK, UsesStay, DrawnFor
<1> QED BY <1>1, <1>2, <1>3 DEF Core, StoredOK, PageOK, CallsOK

LEMMA Draws ==
  ASSUME EntryBounds, NEW u, Core(u), drawn < MaxRequests, NEW k, NEW p
  PROVE  /\ drawn + 1 \in Entry!Requests /\ drawn + 1 \in ReqOrZero /\ drawn + 1 # 0
         /\ \E v : /\ DOMAIN v = Entry!Requests /\ DrawnFor(drawn + 1, v, drawn + 1, k, p)
                   /\ MadeOK(made, drawn + 1, v) /\ UsesStay(drawn, u, drawn + 1, v) /\ MadeStays(made, made)
<1>1. drawn \in Nat /\ drawn + 1 \in Entry!Requests /\ drawn + 1 \in ReqOrZero /\ drawn + 1 # 0
  BY DEF Core, ReqOrZero, Entry!Requests, EntryBounds
<1> DEFINE v == [r \in Entry!Requests |-> IF r = drawn + 1 THEN <<k, p>> ELSE u[r]]
<1>2. DOMAIN v = Entry!Requests /\ v[drawn + 1] = <<k, p>>
  BY <1>1
<1>3. \A r \in Entry!Requests : r # drawn + 1 => v[r] = u[r]
  OBVIOUS
<1> HIDE DEF v
<1>4. UsesStay(drawn, u, drawn + 1, v)
  BY <1>1, <1>3 DEF UsesStay, Entry!Requests, EntryBounds
<1>5. MadeOK(made, drawn + 1, v)
  <2>1. \A r \in Entry!Requests : made[r] # Entry!Nothing =>
          made[r] \in Things /\ r <= drawn /\ u[r] = Purpose(made[r])
    BY DEF Core, MadeOK
  <2>2. \A r \in Entry!Requests : r <= drawn => r <= drawn + 1 /\ v[r] = u[r]
    BY <1>1, <1>3 DEF Entry!Requests
  <2> QED BY <2>1, <2>2 DEF Core, MadeOK
<1>6. DrawnFor(drawn + 1, v, drawn + 1, k, p)
  BY <1>1, <1>2 DEF DrawnFor
<1> QED BY <1>1, <1>2, <1>4, <1>5, <1>6 DEF MadeStays

(* A page is loaded                                                        *)
LEMMA NavigationKeeps ==
  ASSUME EntryBounds, NEW u, Core(u),
         \/ Entry!GoHome \/ Entry!KeepOld \/ \E intent \in {"new", "resume"} : Entry!GoNew(intent)
         \/ \E s \in Entry!Requests : Entry!GoPrepare(s)
         \/ \E late \in SUBSET calls : Entry!Reload(late)
  PROVE  Core(u)'
<1>1. ASSUME NEW at \in {"home", "new", "prepare"}, NEW intent \in {"new", "resume"}, NEW target \in ReqOrZero,
             at = "prepare" => target \in Entry!Requests, Entry!Visit(at, intent, target),
             CallsOK(made, drawn, u, calls'), CallsOK(made, drawn, u, wire')
      PROVE  Core(u)'
  <2>1. UNCHANGED <<stored, recent, jobs, drawn, made>> /\ page' = Entry!Page(at, intent, target)
    BY <1>1 DEF Entry!Visit
  <2>2. PageOK(made, drawn, u, page')
    BY <1>1, <2>1, PageLoads DEF Core
  <2> QED BY <1>1, <2>1, <2>2 DEF Core
<1>2. 0 \in ReqOrZero /\ Entry!Requests \subseteq ReqOrZero
  BY DEF ReqOrZero
<1>3. CASE Entry!GoHome
  <2>1. CallsOK(made, drawn, u, calls')
    <3>1. calls' = {[c EXCEPT !.live = FALSE] : c \in calls}
      BY <1>3 DEF Entry!GoHome
    <3>2. \A c \in calls : CallOK(made, drawn, u, [c EXCEPT !.live = FALSE])
      BY CallMarked DEF Core, CallsOK
    <3> QED BY <3>1, <3>2 DEF CallsOK
  <2> QED BY <1>1, <1>2, <1>3, <2>1 DEF Entry!GoHome, Core
<1>4. CASE Entry!KeepOld
  BY <1>1, <1>2, <1>4 DEF Entry!KeepOld, Core
<1>5. ASSUME NEW intent \in {"new", "resume"}, Entry!GoNew(intent) PROVE Core(u)'
  BY <1>1, <1>2, <1>5 DEF Entry!GoNew, Core
<1>6. ASSUME NEW s \in Entry!Requests, Entry!GoPrepare(s) PROVE Core(u)'
  BY <1>1, <1>2, <1>6 DEF Entry!GoPrepare, Core
<1>7. ASSUME NEW late \in SUBSET calls, Entry!Reload(late) PROVE Core(u)'
  <2>1. CallsOK(made, drawn, u, calls') /\ CallsOK(made, drawn, u, wire')
    BY <1>7 DEF Entry!Reload, Core, CallsOK
  <2> QED BY <1>1, <1>2, <1>7, <2>1 DEF Entry!Reload
<1> QED BY <1>3, <1>4, <1>5, <1>6, <1>7

(* A request reaches the server                                            *)
LEMMA ArrivalKeeps ==
  ASSUME EntryBounds, NEW u, Core(u),
         \/ \E c \in calls : Entry!Arrive(c)
         \/ \E c \in wire : Entry!ArriveLate(c)
  PROVE  Core(u)'
<1>1. ASSUME NEW c, CallOK(made, drawn, u, c), made' = Entry!Serve(c).made,
             UNCHANGED <<stored, recent, jobs, page, drawn>>,
             MadeOK(made', drawn, u) /\ MadeStays(made, made') =>
               CallsOK(made', drawn, u, calls') /\ CallsOK(made', drawn, u, wire')
      PROVE  Core(u)'
  <2>1. Served(u, made')
    BY <1>1, ServeKeeps DEF Core, EntryBounds
  <2>2. UsesStay(drawn, u, drawn, u)
    BY DEF UsesStay
  <2>3. PICK m : m = made'
    OBVIOUS
  <2>4. StoredOK(m, drawn, u, stored) /\ JobsOK(drawn, u, jobs) /\ PageOK(m, drawn, u, page)
    BY <2>1, <2>2, <2>3, Carried DEF Served
  <2> QED BY <1>1, <2>1, <2>3, <2>4 DEF Core, Served
<1>3. UsesStay(drawn, u, drawn, u)
  BY DEF UsesStay
<1>4. ASSUME NEW c \in calls, Entry!Arrive(c) PROVE Core(u)'
  <2>1. CallOK(made, drawn, u, c)
    BY DEF Core, CallsOK
  <2>2. PICK answer : answer = Entry!Serve(c)
    OBVIOUS
  <2>3. PICK x : x = IF answer.ok THEN "ok" ELSE "refused"
    OBVIOUS
  <2>4. /\ made' = answer.made /\ calls' = (calls \ {c}) \cup {[c EXCEPT !.result = x]}
        /\ UNCHANGED <<stored, recent, jobs, page, drawn, wire, budget>>
    BY <1>4, <2>2, <2>3 DEF Entry!Arrive
  <2>5. ASSUME MadeOK(made', drawn, u), MadeStays(made, made')
        PROVE  CallsOK(made', drawn, u, calls') /\ CallsOK(made', drawn, u, wire')
    <3>1. PICK m : m = made'
      OBVIOUS
    <3>2. MadeOK(m, drawn, u) /\ MadeStays(made, m)
      BY <2>5, <3>1
    <3>3. CallsOK(m, drawn, u, calls) /\ CallsOK(m, drawn, u, wire)
      BY <1>3, <3>2, Carried
    <3>4. CallOK(m, drawn, u, c)
      BY <3>3 DEF CallsOK
    <3>5. x \in {"ok", "refused"} /\ (x = "ok" /\ c.kind \in Entry!Creates => m[c.req] # Entry!Nothing)
      BY <2>1, <2>2, <2>3, <2>4, <3>1, ServeKeeps DEF Core, EntryBounds
    <3>6. CallOK(m, drawn, u, [c EXCEPT !.result = x])
      BY <3>4, <3>5, CallMarked
    <3>7. CallsOK(m, drawn, u, calls') /\ CallsOK(m, drawn, u, wire')
      BY <2>4, <3>3, <3>6 DEF CallsOK
    <3> QED BY <3>1, <3>7
  <2> QED BY <1>1, <2>1, <2>2, <2>4, <2>5
<1>5. ASSUME NEW c \in wire, Entry!ArriveLate(c) PROVE Core(u)'
  <2>1. CallOK(made, drawn, u, c)
    BY DEF Core, CallsOK
  <2>2. made' = Entry!Serve(c).made /\ wire' = wire \ {c} /\ UNCHANGED <<stored, recent, jobs, page, calls, drawn>>
    BY <1>5 DEF Entry!ArriveLate, Entry!client
  <2>3. ASSUME MadeOK(made', drawn, u), MadeStays(made, made')
        PROVE  CallsOK(made', drawn, u, calls') /\ CallsOK(made', drawn, u, wire')
    <3>1. PICK m : m = made'
      OBVIOUS
    <3>2. MadeOK(m, drawn, u) /\ MadeStays(made, m)
      BY <2>3, <3>1
    <3>3. CallsOK(m, drawn, u, calls) /\ CallsOK(m, drawn, u, wire)
      BY <1>3, <3>2, Carried
    <3>4. CallsOK(m, drawn, u, calls') /\ CallsOK(m, drawn, u, wire')
      BY <2>2, <3>3 DEF CallsOK
    <3> QED BY <3>1, <3>4
  <2> QED BY <1>1, <2>1, <2>2, <2>3
<1> QED BY <1>4, <1>5


LEMMA PutStep ==
  ASSUME NEW m, NEW d, NEW u, NEW rec, StoredOK(m, d, u, stored), recent \in [Entry!Flows -> Nat],
         FlowOK(m, d, u, rec), rec.id # 0, NEW st, NEW ord,
         st = [stored EXCEPT ![rec.id] = rec], ord = Entry!Touched(recent, rec.id)
  PROVE  StoredOK(m, d, u, st) /\ ord \in [Entry!Flows -> Nat]
BY PutKeeps, TouchedKeeps

LEMMA ReplaceStep ==
  ASSUME EntryBounds, NEW m, NEW d, NEW u, NEW rec, StoredOK(m, d, u, stored), recent \in [Entry!Flows -> Nat],
         FlowOK(m, d, u, rec), rec.id # 0, Entry!HasUnusedFlow, NEW st, NEW ord,
         st = [stored EXCEPT ![rec.id] = [rec EXCEPT !.status = "retired"], ![Entry!Fresh.id] = Entry!Fresh],
         ord = Entry!Touched(Entry!Touched(recent, rec.id), Entry!Fresh.id)
  PROVE  StoredOK(m, d, u, st) /\ ord \in [Entry!Flows -> Nat]
<1>1. StoredOK(m, d, u, st)
  BY ReplaceKeeps DEF EntryBounds
<1>2. PICK o : o = Entry!Touched(recent, rec.id)
  OBVIOUS
<1>3. o \in [Entry!Flows -> Nat]
  BY <1>2, TouchedKeeps
<1>4. Entry!Touched(o, Entry!Fresh.id) \in [Entry!Flows -> Nat]
  BY <1>3, TouchedKeeps
<1> QED BY <1>1, <1>2, <1>4

(* The page settles what it read with the server                           *)
LEMMA SettlesKeeps ==
  ASSUME EntryBounds, NEW u, Core(u), Entry!Settles
  PROVE  \E v : Core(v)'
<1>1. UNCHANGED <<jobs, calls, made, wire>>
  BY DEF Entry!Settles, Entry!Quiet
<1>2. ASSUME NEW verdict, Entry!Verdict(page.flow) \in verdict, "none" \notin verdict
      PROVE  FlowOK(made, drawn, u, page.flow) /\ page.flow.id # 0 /\ page.flow # Entry!NoFlow
  BY <1>2 DEF Entry!Verdict, Core, PageOK
<1>3. ASSUME NEW rec, FlowOK(made, drawn, u, rec), rec.id # 0, Entry!Put(rec), drawn' = drawn,
             PageOK(made, drawn, u, page')
      PROVE  Core(u)'
  <2>1. StoredOK(made, drawn, u, stored') /\ recent' \in [Entry!Flows -> Nat]
    BY <1>3, PutStep DEF Core, Entry!Put
  <2> QED BY <1>1, <1>3, <2>1 DEF Core
<1>4. ASSUME UNCHANGED <<stored, recent, drawn>>, PageOK(made, drawn, u, page')
      PROVE  Core(u)'
  BY <1>1, <1>4 DEF Core
<1>5. ASSUME NEW ph \in {"ready", "blocked", "error"}, NEW rec, Entry!Show(ph, rec), Showable(made, drawn, u, rec),
             page.at = "new" /\ ph = "ready" => rec # Entry!NoFlow
      PROVE  PageOK(made, drawn, u, page')
  BY <1>5, PageShows DEF Entry!Show, Core
<1>6. Showable(made, drawn, u, Entry!NoFlow)
  BY DEF Showable
<1>7. CASE Entry!HomeNone
  BY <1>4, <1>5, <1>6, <1>7 DEF Entry!HomeNone, Entry!Settle
<1>8. CASE Entry!HomeBlocked
  BY <1>4, <1>5, <1>6, <1>8 DEF Entry!HomeBlocked, Entry!Settle
<1>9. CASE Entry!HomeOffers
  <2>1. FlowOK(made, drawn, u, page.flow) /\ page.flow.id # 0 /\ page.flow # Entry!NoFlow
    BY <1>2, <1>9 DEF Entry!HomeOffers, Entry!Settle
  <2> QED BY <1>3, <1>5, <1>9, <2>1 DEF Entry!HomeOffers, Showable
<1>10. CASE Entry!HomeRetires
  <2>1. FlowOK(made, drawn, u, page.flow) /\ page.flow.id # 0
    BY <1>2, <1>10 DEF Entry!HomeRetires, Entry!Settle
  <2>2. PICK rec : rec = [page.flow EXCEPT !.status = "retired"]
    OBVIOUS
  <2>3. FlowOK(made, drawn, u, rec) /\ rec.id # 0
    BY <2>1, <2>2, FlowRetired
  <2>4. Entry!Put(rec) /\ Entry!Show("ready", Entry!NoFlow) /\ page.at = "home" /\ drawn' = drawn
    BY <1>10, <2>2 DEF Entry!HomeRetires, Entry!Settle
  <2> QED BY <1>3, <1>5, <1>6, <2>3, <2>4
<1>11. CASE Entry!NewFresh
  <2>1. FlowOK(made, drawn, u, Entry!Fresh) /\ Entry!Fresh.id # 0
    BY <1>11, FreshRead DEF Entry!NewFresh, EntryBounds
  <2>2. PageOK(made, drawn, u, page')
    BY <1>11, <2>1, PageShows DEF Entry!NewFresh, Core
  <2> QED BY <1>3, <1>11, <2>1, <2>2 DEF Entry!NewFresh
<1>12. CASE Entry!NewBlocked
  BY <1>4, <1>5, <1>6, <1>12 DEF Entry!NewBlocked
<1>13. CASE Entry!NewAsks
  <2>1. FlowOK(made, drawn, u, page.flow) /\ page.flow.id # 0 /\ page.flow # Entry!NoFlow
    BY <1>2, <1>13 DEF Entry!NewAsks, Entry!Settle
  <2> QED BY <1>4, <1>5, <1>13, <2>1 DEF Entry!NewAsks, Showable
<1>14. CASE Entry!NewResumes
  <2>1. FlowOK(made, drawn, u, page.flow) /\ page.flow.id # 0 /\ page.flow # Entry!NoFlow
    BY <1>2, <1>14 DEF Entry!NewResumes, Entry!Settle
  <2> QED BY <1>3, <1>5, <1>14, <2>1 DEF Entry!NewResumes, Showable
<1>15. CASE Entry!NewRecovers
  <2>1. FlowOK(made, drawn, u, page.flow) /\ page.flow.id # 0
    BY <1>2, <1>15 DEF Entry!NewRecovers, Entry!Settle
  <2>2. PICK p : p = page.flow.project.made
    OBVIOUS
  <2>3. drawn < MaxRequests /\ drawn' = drawn + 1
    BY <1>15 DEF Entry!NewRecovers
  <2>4. PICK v : /\ DOMAIN v = Entry!Requests /\ DrawnFor(drawn + 1, v, drawn + 1, "session", p)
                 /\ MadeOK(made, drawn + 1, v) /\ UsesStay(drawn, u, drawn + 1, v) /\ MadeStays(made, made)
    BY <2>3, Draws
  <2>5. drawn + 1 \in ReqOrZero /\ drawn + 1 # 0
    BY <2>3, Draws
  <2>6. /\ StoredOK(made, drawn + 1, v, stored) /\ JobsOK(drawn + 1, v, jobs) /\ PageOK(made, drawn + 1, v, page)
        /\ CallsOK(made, drawn + 1, v, calls) /\ CallsOK(made, drawn + 1, v, wire)
        /\ FlowOK(made, drawn + 1, v, page.flow)
    BY <2>1, <2>4, Carried
  <2>7. PICK s \in Entry!SessionsOf(p) : \E rec :
          /\ rec = [page.flow EXCEPT !.session = Entry!Acknowledged(Entry!Prepared(drawn + 1), s),
                                     !.step = IF page.flow.audio = 0 THEN "consent_audio" ELSE "consent"]
          /\ Entry!Put(rec) /\ Entry!Show("ready", rec)
    BY <1>15, <2>2 DEF Entry!NewRecovers
  <2>8. PICK rec :
          /\ rec = [page.flow EXCEPT !.session = Entry!Acknowledged(Entry!Prepared(drawn + 1), s),
                                     !.step = IF page.flow.audio = 0 THEN "consent_audio" ELSE "consent"]
          /\ Entry!Put(rec) /\ Entry!Show("ready", rec)
    BY <2>7
  <2>9. s \in Entry!Requests /\ IsSessionOf(made, s, p)
    <3>1. s \in Entry!Requests /\ made[s].kind = "session" /\ made[s].project = p
      BY DEF Entry!SessionsOf
    <3>2. made[s] \in Things
      BY <3>1 DEF Core, MadeOK, Entry!Nothing
    <3> QED BY <3>1, <3>2, ThingFacts DEF IsSessionOf
  <2>10. PICK a : a = Entry!Acknowledged(Entry!Prepared(drawn + 1), s)
    OBVIOUS
  <2>11. a = [state |-> "acknowledged", req |-> drawn + 1, made |-> s]
    BY <2>10 DEF Entry!Acknowledged, Entry!Prepared
  <2>12. a \in AttemptRecords /\ a.made = s /\ s # 0 /\ AttemptOK(drawn + 1, v, a, "session", p)
    BY <2>4, <2>5, <2>9, <2>11 DEF AttemptRecords, ReqOrZero, Entry!Requests, AttemptOK
  <2>13. PICK st \in {"consent_audio", "consent"} : st = IF page.flow.audio = 0 THEN "consent_audio" ELSE "consent"
    OBVIOUS
  <2>14. rec = [page.flow EXCEPT !.session = a, !.step = st]
    BY <2>8, <2>10, <2>13
  <2>15. FlowOK(made, drawn + 1, v, rec) /\ rec.id = page.flow.id
    <3>1. a.made # 0 /\ IsSessionOf(made, a.made, page.flow.project.made)
      BY <2>2, <2>9, <2>12
    <3>2. AttemptOK(drawn + 1, v, a, "session", page.flow.project.made)
      BY <2>2, <2>12
    <3>3. FlowOK(made, drawn + 1, v, page.flow) /\ a \in AttemptRecords
      BY <2>6, <2>12
    <3>4. page.flow \in FlowRecords
      BY <3>3 DEF FlowOK
    <3>5. /\ rec \in FlowRecords /\ rec.id = page.flow.id /\ rec.step = st /\ rec.project = page.flow.project
          /\ rec.session = a /\ rec.consent = page.flow.consent
      BY <2>13, <2>14, <3>3, <3>4 DEF FlowRecords
    <3>6. FlowOK(made, drawn + 1, v, rec)
      BY <2>13, <3>1, <3>2, <3>3, <3>5, FlowJoined
    <3> QED BY <3>5, <3>6
  <2>16. rec.id # 0 /\ rec # Entry!NoFlow
    BY <2>1, <2>15, RealFlow
  <2>17. StoredOK(made, drawn + 1, v, stored') /\ recent' \in [Entry!Flows -> Nat]
    BY <2>6, <2>8, <2>15, <2>16, PutStep DEF Core, Entry!Put
  <2>18. PageOK(made, drawn + 1, v, page')
    BY <2>6, <2>8, <2>15, <2>16, PageShows DEF Entry!Show, Showable
  <2> QED BY <1>1, <2>3, <2>4, <2>5, <2>6, <2>17, <2>18 DEF Core
<1>16. CASE Entry!NewReplaces
  <2>1. FlowOK(made, drawn, u, page.flow) /\ page.flow.id # 0
    BY <1>2, <1>16 DEF Entry!NewReplaces, Entry!Settle
  <2>2. FlowOK(made, drawn, u, Entry!Fresh) /\ Entry!Fresh.id # 0
    BY <1>16, FreshRead DEF Entry!NewReplaces, EntryBounds
  <2>3. drawn' = drawn /\ Entry!HasUnusedFlow
    BY <1>16 DEF Entry!NewReplaces
  <2>4. CASE Entry!Replace(page.flow) /\ Entry!Show("ready", Entry!Fresh)
    <3>1. StoredOK(made, drawn, u, stored') /\ recent' \in [Entry!Flows -> Nat]
      BY <2>1, <2>3, <2>4, ReplaceStep DEF Core, Entry!Replace
    <3>2. PageOK(made, drawn, u, page')
      BY <1>5, <2>2, <2>4, RealFlow DEF Showable
    <3> QED BY <1>1, <2>3, <3>1, <3>2 DEF Core
  <2>5. CASE Entry!Put([page.flow EXCEPT !.status = "retired"]) /\ Entry!Show("error", Entry!NoFlow)
    <3>1. PICK rec : rec = [page.flow EXCEPT !.status = "retired"]
      OBVIOUS
    <3>2. FlowOK(made, drawn, u, rec) /\ rec.id # 0
      BY <2>1, <3>1, FlowRetired
    <3> QED BY <1>3, <1>5, <1>6, <2>3, <2>5, <3>1, <3>2
  <2> QED BY <1>16, <2>4, <2>5 DEF Entry!NewReplaces
<1> QED
  BY <1>7, <1>8, <1>9, <1>10, <1>11, <1>12, <1>13, <1>14, <1>15, <1>16 DEF Entry!Settles


(* The workflow of a page that is ready                                    *)
LEMMA ReadyFlow ==
  ASSUME NEW u, Core(u), Entry!Ready
  PROVE  FlowOK(made, drawn, u, page.flow) /\ page.flow.id # 0
BY DEF Core, PageOK, Entry!Ready

(* A page sends a call and is otherwise as it was                          *)
LEMMA SendKeeps ==
  ASSUME EntryBounds, NEW u, Core(u),
         \/ \E kind \in Entry!Creates : Entry!Again(kind)
         \/ Entry!CheckDevice \/ Entry!UploadConsent \/ Entry!StartCapture \/ Entry!Discard \/ Entry!PrepareSteps
  PROVE  Core(u)'
<1>1. ASSUME NEW c, CallOK(made, drawn, u, c), Entry!Sends(c), UNCHANGED <<stored, recent, page, drawn>>
      PROVE  Core(u)'
  <2>1. calls' = calls \cup {c} /\ UNCHANGED <<jobs, made, wire>>
    BY <1>1 DEF Entry!Sends
  <2> QED BY <1>1, <2>1 DEF Core, CallsOK
<1>2. 0 \in ReqOrZero
  BY DEF ReqOrZero
<1>3. ASSUME NEW kind \in Entry!Creates, Entry!Again(kind) PROVE Core(u)'
  <2>1. PICK a : a = Entry!Attempt(page.flow, kind)
    OBVIOUS
  <2>2. /\ Entry!Ready /\ page.flow.step = kind /\ a.state \in {"unknown", "prepared"}
        /\ UNCHANGED <<stored, recent, page, drawn>>
    BY <1>3, <2>1 DEF Entry!Again
  <2>3. FlowOK(made, drawn, u, page.flow) /\ page.flow.id # 0
    BY <2>2, ReadyFlow
  <2>4. a \in AttemptRecords
    BY <2>1, <2>3 DEF Entry!Attempt, Entry!Creates, FlowOK, FlowRecords
  <2>5. a.req \in ReqOrZero /\ Entry!Attempt(page.flow, kind).state # "none"
    BY <2>1, <2>2, <2>4 DEF AttemptRecords
  <2>6. PICK b : b = (a.state = "unknown")
    OBVIOUS
  <2>7. b \in BOOLEAN
    BY <2>6
  <2>8. PICK c : c = [Entry!Call(kind, a.req, page.flow) EXCEPT !.again = b]
    OBVIOUS
  <2>9. CallOK(made, drawn, u, c)
    BY <2>1, <2>2, <2>3, <2>5, <2>7, <2>8, CallMade
  <2>10. Entry!Sends(c)
    BY <1>3, <2>1, <2>6, <2>8 DEF Entry!Again
  <2> QED BY <1>1, <2>2, <2>9, <2>10
<1>4. CASE Entry!CheckDevice
  <2>1. /\ Entry!Ready /\ page.flow.step = "consent_audio" /\ Entry!Sends(Entry!Call("device", 0, page.flow))
        /\ UNCHANGED <<stored, recent, page, drawn>>
    BY <1>4 DEF Entry!CheckDevice, Entry!Steps
  <2>2. FlowOK(made, drawn, u, page.flow) /\ page.flow.session.made # 0
    BY <2>1, ReadyFlow DEF FlowOK
  <2>3. CallOK(made, drawn, u, Entry!Call("device", 0, page.flow))
    BY <1>2, <2>2, CallMade
  <2> QED BY <1>1, <2>1, <2>3
<1>5. CASE Entry!UploadConsent
  <2>1. PICK j : j = jobs[page.flow.id]
    OBVIOUS
  <2>2. /\ Entry!Ready /\ page.flow.step = "consent_audio" /\ Entry!Sends(Entry!Call("audio", j, page.flow))
        /\ UNCHANGED <<stored, recent, page, drawn>>
    BY <1>5, <2>1 DEF Entry!UploadConsent, Entry!Steps
  <2>3. FlowOK(made, drawn, u, page.flow) /\ page.flow.session.made # 0 /\ page.flow.id # 0
    BY <2>2, ReadyFlow DEF FlowOK
  <2>4. j \in ReqOrZero /\ (j # 0 => DrawnFor(drawn, u, j, "audio", 0))
    BY <2>1, <2>3, RealFlow DEF Core, JobsOK
  <2>5. CallOK(made, drawn, u, Entry!Call("audio", j, page.flow))
    BY <2>3, <2>4, CallMade
  <2> QED BY <1>1, <2>2, <2>5
<1>6. CASE Entry!StartCapture
  <2>1. /\ Entry!Ready /\ page.flow.step = "start" /\ Entry!Sends(Entry!Call("start", 0, page.flow))
        /\ UNCHANGED <<stored, recent, page, drawn>>
    BY <1>6 DEF Entry!StartCapture, Entry!Steps
  <2>2. FlowOK(made, drawn, u, page.flow) /\ page.flow.session.made # 0
    BY <2>1, ReadyFlow DEF FlowOK
  <2>3. CallOK(made, drawn, u, Entry!Call("start", 0, page.flow))
    BY <1>2, <2>2, CallMade
  <2> QED BY <1>1, <2>1, <2>3
<1>7. CASE Entry!Discard
  <2>1. /\ Entry!Ready /\ page.flow.project.made # 0 /\ Entry!Sends(Entry!Call("discard", 0, page.flow))
        /\ UNCHANGED <<stored, recent, page, drawn>>
    BY <1>7 DEF Entry!Discard
  <2>2. FlowOK(made, drawn, u, page.flow) /\ page.flow.id # 0
    BY <2>1, ReadyFlow
  <2>3. CallOK(made, drawn, u, Entry!Call("discard", 0, page.flow))
    BY <1>2, <2>1, <2>2, CallMade
  <2> QED BY <1>1, <2>1, <2>3
<1>8. CASE Entry!PrepareSteps
  <2>1. PICK s, p, k : s = page.target /\ p = made[s].project /\ k = IF page.device THEN "start" ELSE "device"
    OBVIOUS
  <2>2. s \in Entry!Requests /\ made[s].kind = "session" /\ UNCHANGED <<stored, recent, page, drawn>>
    BY <1>8, <2>1 DEF Entry!PrepareSteps, Core, PageOK
  <2>3. IsSessionOf(made, s, p)
    <3>1. made[s] \in Things
      BY <2>2 DEF Core, MadeOK, Entry!Nothing
    <3> QED BY <2>1, <2>2, <3>1, ThingFacts DEF IsSessionOf
  <2>4. p \in Entry!Requests
    BY <2>3 DEF IsSessionOf, SessionThings
  <2>5. PICK rec : rec = Entry!FreshFlow(0)
    OBVIOUS
  <2>6. FlowOK(made, drawn, u, rec) /\ rec.id = 0 /\ rec \in FlowRecords
    BY <2>5, FreshOK DEF FlowOK
  <2>7. PICK c : c = [Entry!Call(k, 0, rec) EXCEPT !.project = p, !.session = s]
    OBVIOUS
  <2>8. /\ c \in CallRecords /\ c.kind = k /\ c.project = p /\ c.session = s /\ c.copy = rec
        /\ k \in {"start", "device"}
    <3>1. rec.project.made \in ReqOrZero /\ rec.session.made \in ReqOrZero /\ rec.audio \in ReqOrZero
      BY <2>6 DEF FlowRecords, AttemptRecords
    <3>2. k \in {"start", "device"}
      BY <2>1
    <3>3. p \in ReqOrZero /\ s \in ReqOrZero
      BY <2>2, <2>4 DEF ReqOrZero
    <3> QED BY <1>2, <2>6, <2>7, <3>1, <3>2, <3>3 DEF Entry!Call, CallRecords
  <2>9. CallOK(made, drawn, u, c)
    BY <2>3, <2>6, <2>8 DEF CallOK, Entry!Creates
  <2>10. Entry!Sends(c)
    BY <1>8, <2>1, <2>5, <2>7 DEF Entry!PrepareSteps
  <2> QED BY <1>1, <2>2, <2>9, <2>10
<1> QED BY <1>3, <1>4, <1>5, <1>6, <1>7, <1>8

(* A create is prepared: its attempt is saved and its request is sent      *)
LEMMA PrepareKeeps ==
  ASSUME EntryBounds, NEW u, Core(u), NEW kind \in Entry!Creates, Entry!Prepare(kind)
  PROVE  \E v : Core(v)'
<1>1. PICK a : a = Entry!Prepared(drawn + 1)
  OBVIOUS
<1>2. PICK rec : rec = Entry!WithAttempt(page.flow, kind, a)
  OBVIOUS
<1>3. /\ Entry!Ready /\ page.flow.step = kind /\ Entry!Attempt(page.flow, kind) = Entry!NoAttempt
      /\ drawn < MaxRequests /\ Entry!Put(rec) /\ Entry!Show("ready", rec)
      /\ Entry!Sends(Entry!Call(kind, drawn + 1, rec)) /\ drawn' = drawn + 1
  BY <1>1, <1>2 DEF Entry!Prepare, Entry!Steps
<1>4. FlowOK(made, drawn, u, page.flow) /\ page.flow.id # 0
  BY <1>3, ReadyFlow
<1>5. PICK p : p = IF kind = "session" THEN page.flow.project.made ELSE 0
  OBVIOUS
<1>6. PICK v : /\ DOMAIN v = Entry!Requests /\ DrawnFor(drawn + 1, v, drawn + 1, kind, p)
               /\ MadeOK(made, drawn + 1, v) /\ UsesStay(drawn, u, drawn + 1, v) /\ MadeStays(made, made)
  BY <1>3, Draws
<1>7. drawn + 1 \in ReqOrZero /\ drawn + 1 # 0
  BY <1>3, Draws
<1>8. /\ StoredOK(made, drawn + 1, v, stored) /\ JobsOK(drawn + 1, v, jobs) /\ PageOK(made, drawn + 1, v, page)
      /\ CallsOK(made, drawn + 1, v, calls) /\ CallsOK(made, drawn + 1, v, wire)
      /\ FlowOK(made, drawn + 1, v, page.flow)
  BY <1>4, <1>6, Carried
<1>9. /\ a \in AttemptRecords /\ a.made = 0 /\ a.state # "none" /\ a.req = drawn + 1
      /\ AttemptOK(drawn + 1, v, a, kind, p)
  BY <1>1, <1>6, <1>7 DEF Entry!Prepared, AttemptRecords, AttemptOK, ReqOrZero
<1>10. a.made = Entry!Attempt(page.flow, kind).made
  BY <1>3, <1>9 DEF Entry!NoAttempt
<1>11. /\ FlowOK(made, drawn + 1, v, rec) /\ rec.id = page.flow.id /\ rec.step = kind
       /\ Entry!Attempt(rec, kind) = a
  BY <1>2, <1>3, <1>5, <1>8, <1>9, <1>10, FlowAttempt
<1>12. rec.id # 0 /\ rec # Entry!NoFlow
  BY <1>4, <1>11, RealFlow
<1>13. StoredOK(made, drawn + 1, v, stored') /\ recent' \in [Entry!Flows -> Nat]
  BY <1>3, <1>8, <1>11, <1>12, PutStep DEF Core, Entry!Put
<1>14. PageOK(made, drawn + 1, v, page')
  BY <1>3, <1>8, <1>11, <1>12, PageShows DEF Entry!Show, Showable
<1>15. CallOK(made, drawn + 1, v, Entry!Call(kind, drawn + 1, rec))
  BY <1>7, <1>9, <1>11, <1>12, CallMade
<1>16. calls' = calls \cup {Entry!Call(kind, drawn + 1, rec)} /\ UNCHANGED <<jobs, made, wire>>
  BY <1>3 DEF Entry!Sends
<1>17. CallsOK(made, drawn + 1, v, calls')
  BY <1>8, <1>15, <1>16 DEF CallsOK
<1> QED BY <1>3, <1>6, <1>7, <1>8, <1>13, <1>14, <1>16, <1>17 DEF Core

(* The consent recording begins: its job draws the request it will use     *)
LEMMA RecordKeeps ==
  ASSUME EntryBounds, NEW u, Core(u), Entry!RecordConsent
  PROVE  \E v : Core(v)'
<1>1. PICK rec : rec = [page.flow EXCEPT !.job = TRUE]
  OBVIOUS
<1>2. PICK f : f = page.flow.id
  OBVIOUS
<1>3. /\ Entry!Ready /\ (jobs[f] = 0 => drawn < MaxRequests) /\ Entry!Put(rec) /\ Entry!Show("ready", rec)
      /\ jobs' = [jobs EXCEPT ![f] = IF @ = 0 THEN drawn + 1 ELSE @]
      /\ drawn' = IF jobs[f] = 0 THEN drawn + 1 ELSE drawn
      /\ UNCHANGED <<calls, made, wire>>
  BY <1>1, <1>2 DEF Entry!RecordConsent, Entry!Steps
<1>4. FlowOK(made, drawn, u, page.flow) /\ page.flow.id # 0 /\ f \in Entry!Flows
  BY <1>2, <1>3, ReadyFlow, RealFlow
<1>5. FlowOK(made, drawn, u, rec) /\ rec.id # 0 /\ rec # Entry!NoFlow
  BY <1>1, <1>4, FlowRecording, RealFlow
<1>6. CASE jobs[f] # 0
  <2>1. jobs' = jobs /\ drawn' = drawn
    BY <1>3, <1>6 DEF Core, JobsOK
  <2>2. StoredOK(made, drawn, u, stored') /\ recent' \in [Entry!Flows -> Nat]
    BY <1>3, <1>5, PutStep DEF Core, Entry!Put
  <2>3. PageOK(made, drawn, u, page')
    BY <1>3, <1>5, PageShows DEF Core, Entry!Show, Showable
  <2>4. Core(u)'
    BY <1>3, <2>1, <2>2, <2>3 DEF Core
  <2> QED BY <2>4
<1>7. CASE jobs[f] = 0
  <2>1. PICK v : /\ DOMAIN v = Entry!Requests /\ DrawnFor(drawn + 1, v, drawn + 1, "audio", 0)
                 /\ MadeOK(made, drawn + 1, v) /\ UsesStay(drawn, u, drawn + 1, v) /\ MadeStays(made, made)
    BY <1>3, <1>7, Draws
  <2>2. drawn + 1 \in ReqOrZero /\ drawn' = drawn + 1 /\ jobs' = [jobs EXCEPT ![f] = drawn + 1]
    BY <1>3, <1>7, Draws
  <2>3. /\ StoredOK(made, drawn + 1, v, stored) /\ JobsOK(drawn + 1, v, jobs) /\ PageOK(made, drawn + 1, v, page)
        /\ CallsOK(made, drawn + 1, v, calls) /\ CallsOK(made, drawn + 1, v, wire)
        /\ FlowOK(made, drawn + 1, v, rec)
    BY <1>5, <2>1, Carried
  <2>4. StoredOK(made, drawn + 1, v, stored') /\ recent' \in [Entry!Flows -> Nat]
    BY <1>3, <1>5, <2>3, PutStep DEF Core, Entry!Put
  <2>5. PageOK(made, drawn + 1, v, page')
    BY <1>3, <1>5, <2>3, PageShows DEF Entry!Show, Showable
  <2>6. JobsOK(drawn + 1, v, jobs')
    BY <1>4, <2>1, <2>2, <2>3 DEF JobsOK
  <2> QED BY <1>3, <2>1, <2>2, <2>3, <2>4, <2>5, <2>6 DEF Core
<1> QED BY <1>6, <1>7

LEMMA DiscardHereKeeps ==
  ASSUME EntryBounds, NEW u, Core(u), Entry!DiscardHere
  PROVE  Core(u)'
<1>1. /\ Entry!Ready /\ Entry!HasUnusedFlow /\ Entry!Replace(page.flow)
      /\ page' = [page EXCEPT !.flow = Entry!Fresh, !.intent = "resume", !.device = FALSE]
      /\ UNCHANGED <<jobs, calls, drawn, made, wire>>
  BY DEF Entry!DiscardHere
<1>2. FlowOK(made, drawn, u, page.flow) /\ page.flow.id # 0
  BY <1>1, ReadyFlow
<1>3. FlowOK(made, drawn, u, Entry!Fresh) /\ Entry!Fresh.id # 0
  BY <1>1, FreshRead DEF EntryBounds
<1>4. StoredOK(made, drawn, u, stored') /\ recent' \in [Entry!Flows -> Nat]
  BY <1>1, <1>2, ReplaceStep DEF Core, Entry!Replace
<1>5. PageOK(made, drawn, u, page')
  BY <1>1, <1>3, PageShows DEF Core
<1> QED BY <1>1, <1>4, <1>5 DEF Core


(* What a page learns of a call                                            *)
LEMMA OutcomeKeeps ==
  ASSUME EntryBounds, NEW u, Core(u), NEW c \in calls, Entry!Succeeds(c) \/ Entry!Fails(c) \/ Entry!Lost(c)
  PROVE  Core(u)'
<1>1. /\ CallOK(made, drawn, u, c) /\ FlowOK(made, drawn, u, c.copy) /\ c \in CallRecords
      /\ c.copy.id = 0 => c.kind \in {"start", "device"}
  BY DEF Core, CallsOK, CallOK
<1>2. ASSUME NEW rec, FlowOK(made, drawn, u, rec), rec.id # 0, Entry!Put(rec)
      PROVE  StoredOK(made, drawn, u, stored') /\ recent' \in [Entry!Flows -> Nat]
  BY <1>2, PutStep DEF Core, Entry!Put
<1>3. ASSUME NEW rec, FlowOK(made, drawn, u, rec), rec.id # 0, Entry!ShowIf(c, rec)
      PROVE  PageOK(made, drawn, u, page')
  <2>1. PageOK(made, drawn, u, [page EXCEPT !.flow = rec])
    BY <1>3, PageShows DEF Core
  <2> QED BY <1>3, <2>1 DEF Core, Entry!ShowIf
<1>4. ASSUME Entry!Ends(c) PROVE CallsOK(made, drawn, u, calls')
  BY <1>4 DEF Core, CallsOK, Entry!Ends
<1>5. ASSUME UNCHANGED <<made, drawn, jobs>>, CallsOK(made, drawn, u, wire'), CallsOK(made, drawn, u, calls'),
             StoredOK(made, drawn, u, stored'), recent' \in [Entry!Flows -> Nat], PageOK(made, drawn, u, page')
      PROVE  Core(u)'
  BY <1>5 DEF Core
<1>6. CASE Entry!Fails(c)
  BY <1>4, <1>5, <1>6 DEF Entry!Fails, Core
<1>7. CASE Entry!Lost(c)
  <2>1. Entry!Ends(c) /\ UNCHANGED <<made, drawn, jobs>>
    BY <1>7 DEF Entry!Lost
  <2>2. CallsOK(made, drawn, u, wire')
    <3>1. wire' = wire \cup {c} \/ wire' = wire
      BY <1>7 DEF Entry!Lost
    <3> QED BY <1>1, <3>1 DEF Core, CallsOK
  <2>3. CASE c.kind \notin Entry!Creates
    <3>1. UNCHANGED <<stored, recent, page>>
      BY <1>7, <2>3 DEF Entry!Lost
    <3> QED BY <1>4, <1>5, <2>1, <2>2, <3>1 DEF Core
  <2>4. CASE c.kind \in Entry!Creates
    <3>1. PICK old : old = Entry!Attempt(c.copy, c.kind)
      OBVIOUS
    <3>2. PICK a : a = [old EXCEPT !.state = "unknown"]
      OBVIOUS
    <3>3. PICK rec : rec = Entry!WithAttempt(c.copy, c.kind, a)
      OBVIOUS
    <3>4. Entry!Put(rec) /\ Entry!ShowIf(c, rec)
      BY <1>7, <2>4, <3>1, <3>2, <3>3 DEF Entry!Lost
    <3>5. old \in AttemptRecords /\ c.copy.step = c.kind /\ old.state # "none"
      BY <1>1, <2>4, <3>1 DEF Entry!Attempt, Entry!Creates, CallOK, CallRecords, FlowRecords
    <3>6. a \in AttemptRecords /\ a.req = old.req /\ a.made = old.made
      BY <3>2, <3>5 DEF AttemptRecords
    <3>7. AttemptOK(drawn, u, old, c.kind, IF c.kind = "session" THEN c.copy.project.made ELSE 0)
      BY <1>1, <2>4, <3>1 DEF FlowOK, Entry!Attempt, Entry!Creates
    <3>8. AttemptOK(drawn, u, a, c.kind, IF c.kind = "session" THEN c.copy.project.made ELSE 0)
      BY <3>5, <3>6, <3>7 DEF AttemptOK
    <3>9. FlowOK(made, drawn, u, rec) /\ rec.id = c.copy.id
      BY <1>1, <2>4, <3>1, <3>3, <3>5, <3>6, <3>8, FlowAttempt
    <3>10. rec.id # 0
      BY <1>1, <2>4, <3>9 DEF Entry!Creates
    <3> QED BY <1>2, <1>3, <1>4, <1>5, <2>1, <2>2, <3>4, <3>9, <3>10
  <2> QED BY <2>3, <2>4
<1>8. CASE Entry!Succeeds(c)
  <2>1. UNCHANGED <<made, wire>> /\ c.result = "ok"
    BY <1>8 DEF Entry!Succeeds
  <2>2. CallsOK(made, drawn, u, wire')
    BY <2>1 DEF Core
  <2>3. CASE Entry!Acknowledge(c)
    <3>1. c.kind \in Entry!Creates /\ c.copy.id # 0 /\ UNCHANGED <<jobs, drawn>>
      BY <1>1, <2>3 DEF Entry!Acknowledge, Entry!Creates
    <3>2. PICK rec : rec = [Entry!WithAttempt(c.copy, c.kind, Entry!Acknowledged(Entry!Attempt(c.copy, c.kind), c.req))
                              EXCEPT !.step = Entry!NextStep(c.copy, c.kind)]
      OBVIOUS
    <3>3. FlowOK(made, drawn, u, rec) /\ rec.id # 0 /\ (c.kind = "consent" => rec.session.made # 0)
      BY <1>1, <2>1, <3>1, <3>2, FlowAcknowledged DEF Core, EntryBounds
    <3>4. PICK b : b = (page.device /\ c.kind # "session")
      OBVIOUS
    <3>5. b \in BOOLEAN
      BY <3>4
    <3>6. /\ Entry!Put(rec)
          /\ page' = IF c.live THEN [page EXCEPT !.flow = rec, !.device = b] ELSE page
          /\ calls' = (calls \ {c}) \cup
               IF c.kind = "consent" /\ c.again
               THEN {[Entry!Call("start", 0, rec) EXCEPT !.live = c.live]} ELSE {}
      BY <2>3, <3>2, <3>4 DEF Entry!Acknowledge
    <3>7. PageOK(made, drawn, u, page')
      <4>1. PageOK(made, drawn, u, [page EXCEPT !.flow = rec, !.device = b])
        BY <3>3, <3>5, PageShows DEF Core
      <4> QED BY <3>6, <4>1 DEF Core
    <3>8. CallsOK(made, drawn, u, calls')
      <4>1. CASE c.kind = "consent"
        <5>1. CallOK(made, drawn, u, [Entry!Call("start", 0, rec) EXCEPT !.live = c.live])
          <6>1. c.live \in BOOLEAN /\ 0 \in ReqOrZero
            BY <1>1 DEF CallRecords, ReqOrZero
          <6> QED BY <3>3, <4>1, <6>1, CallMade
        <5> QED BY <3>6, <5>1 DEF Core, CallsOK
      <4>2. CASE c.kind # "consent"
        BY <3>6, <4>2 DEF Core, CallsOK
      <4> QED BY <4>1, <4>2
    <3> QED BY <1>2, <1>5, <2>1, <2>2, <3>1, <3>3, <3>6, <3>7, <3>8
  <2>4. CASE Entry!Recorded(c)
    <3>1. PICK rec : rec = [c.copy EXCEPT !.audio = c.req, !.step = "consent"]
      OBVIOUS
    <3>2. c.kind = "audio" /\ Entry!Put(rec) /\ Entry!ShowIf(c, rec) /\ Entry!Ends(c) /\ UNCHANGED <<jobs, drawn>>
      BY <2>4, <3>1 DEF Entry!Recorded
    <3>3. c.copy.session.made # 0 /\ c.copy.id # 0 /\ c.req \in ReqOrZero
      BY <1>1, <3>2 DEF CallOK, CallRecords
    <3>4. FlowOK(made, drawn, u, rec) /\ rec.id # 0
      <4>1. c.copy \in FlowRecords
        BY <1>1 DEF FlowOK
      <4>2. /\ rec \in FlowRecords /\ rec.id = c.copy.id /\ rec.step = "consent" /\ rec.project = c.copy.project
            /\ rec.session = c.copy.session /\ rec.consent = c.copy.consent
        BY <3>1, <3>3, <4>1 DEF FlowRecords
      <4> QED BY <1>1, <3>3, <4>2, FlowMoved
    <3> QED BY <1>2, <1>3, <1>4, <1>5, <2>1, <2>2, <3>2, <3>4
  <2>5. CASE Entry!DeviceChecked(c)
    <3>1. Entry!Ends(c) /\ UNCHANGED <<stored, recent, jobs, drawn>>
          /\ page' = IF c.live THEN [page EXCEPT !.device = TRUE] ELSE page
      BY <2>5 DEF Entry!DeviceChecked
    <3>2. PageOK(made, drawn, u, [page EXCEPT !.device = TRUE])
      BY PageShows DEF Core
    <3>3. PageOK(made, drawn, u, page')
      BY <3>1, <3>2 DEF Core
    <3> QED BY <1>4, <1>5, <2>1, <2>2, <3>1, <3>3 DEF Core
  <2>6. CASE Entry!Started(c)
    <3>1. PICK rec : rec = [c.copy EXCEPT !.status = "complete", !.step = "complete"]
      OBVIOUS
    <3>2. /\ (IF c.copy.id = 0 THEN UNCHANGED <<stored, recent>> ELSE Entry!Put(rec))
          /\ Entry!Ends(c) /\ UNCHANGED <<jobs, drawn>>
          /\ page' = IF c.live THEN [page EXCEPT !.at = "workbench"] ELSE page
      BY <2>6, <3>1 DEF Entry!Started
    <3>3. FlowOK(made, drawn, u, rec) /\ rec.id = c.copy.id
      <4>1. c.copy \in FlowRecords
        BY <1>1 DEF FlowOK
      <4>2. /\ rec \in FlowRecords /\ rec.id = c.copy.id /\ rec.step = "complete" /\ rec.project = c.copy.project
            /\ rec.session = c.copy.session /\ rec.consent = c.copy.consent
        BY <3>1, <4>1 DEF FlowRecords
      <4> QED BY <1>1, <4>2, FlowMoved
    <3>4. StoredOK(made, drawn, u, stored') /\ recent' \in [Entry!Flows -> Nat]
      <4>1. CASE c.copy.id = 0
        BY <3>2, <4>1 DEF Core
      <4>2. CASE c.copy.id # 0
        BY <1>2, <3>2, <3>3, <4>2
      <4> QED BY <4>1, <4>2
    <3>5. PageOK(made, drawn, u, [page EXCEPT !.at = "workbench"])
      BY PageShows DEF Core
    <3>6. PageOK(made, drawn, u, page')
      BY <3>2, <3>5 DEF Core
    <3> QED BY <1>4, <1>5, <2>1, <2>2, <3>2, <3>4, <3>6
  <2>7. CASE Entry!Discarded(c)
    <3>1. /\ c.copy.id # 0 /\ Entry!HasUnusedFlow /\ Entry!Replace(c.copy) /\ Entry!Ends(c) /\ UNCHANGED <<jobs, drawn>>
          /\ page' = IF c.live THEN [page EXCEPT !.flow = Entry!Fresh, !.intent = "resume", !.device = FALSE]
                     ELSE page
      BY <1>1, <2>7 DEF Entry!Discarded
    <3>2. FlowOK(made, drawn, u, Entry!Fresh) /\ Entry!Fresh.id # 0
      BY <3>1, FreshRead DEF EntryBounds
    <3>3. StoredOK(made, drawn, u, stored') /\ recent' \in [Entry!Flows -> Nat]
      BY <1>1, <3>1, ReplaceStep DEF Core, Entry!Replace
    <3>4. PageOK(made, drawn, u, [page EXCEPT !.flow = Entry!Fresh, !.intent = "resume", !.device = FALSE])
      BY <3>2, PageShows DEF Core
    <3>5. PageOK(made, drawn, u, page')
      BY <3>1, <3>4 DEF Core
    <3> QED BY <1>4, <1>5, <2>1, <2>2, <3>1, <3>3, <3>5
  <2> QED BY <1>8, <2>3, <2>4, <2>5, <2>6, <2>7 DEF Entry!Succeeds
<1> QED BY <1>6, <1>7, <1>8

LEMMA EntryStep ==
  ASSUME EntryBounds, EntryInv, [Entry!Next]_Entry!vars
  PROVE  EntryInv'
<1>1. PICK u : Core(u)
  BY DEF EntryInv
<1>2. CASE UNCHANGED Entry!vars
  BY <1>1, <1>2 DEF Entry!vars, Entry!client, Core, EntryInv
<1>3. CASE Entry!Next
  <2>1. CASE \/ Entry!GoHome \/ Entry!KeepOld \/ \E intent \in {"new", "resume"} : Entry!GoNew(intent)
             \/ \E s \in Entry!Requests : Entry!GoPrepare(s)
             \/ \E late \in SUBSET calls : Entry!Reload(late)
    BY <1>1, <2>1, NavigationKeeps DEF EntryInv
  <2>2. CASE Entry!Settles
    BY <1>1, <2>2, SettlesKeeps DEF EntryInv
  <2>3. CASE \/ \E kind \in Entry!Creates : Entry!Again(kind)
             \/ Entry!CheckDevice \/ Entry!UploadConsent \/ Entry!StartCapture \/ Entry!Discard \/ Entry!PrepareSteps
    BY <1>1, <2>3, SendKeeps DEF EntryInv
  <2>4. CASE \E kind \in Entry!Creates : Entry!Prepare(kind)
    BY <1>1, <2>4, PrepareKeeps DEF EntryInv
  <2>5. CASE Entry!RecordConsent
    BY <1>1, <2>5, RecordKeeps DEF EntryInv
  <2>6. CASE Entry!DiscardHere
    BY <1>1, <2>6, DiscardHereKeeps DEF EntryInv
  <2>7. CASE (\E c \in calls : Entry!Arrive(c)) \/ \E c \in wire : Entry!ArriveLate(c)
    BY <1>1, <2>7, ArrivalKeeps DEF EntryInv
  <2>8. CASE \E c \in calls : Entry!Succeeds(c) \/ Entry!Fails(c) \/ Entry!Lost(c)
    BY <1>1, <2>8, OutcomeKeeps DEF EntryInv
  <2> QED BY <1>3, <2>1, <2>2, <2>3, <2>4, <2>5, <2>6, <2>7, <2>8 DEF Entry!Next
<1> QED BY <1>2, <1>3

LEMMA EntryInit ==
  ASSUME EntryBounds, Entry!Init PROVE EntryInv
<1>1. PICK u : u = [r \in Entry!Requests |-> <<"none", 0>>]
  OBVIOUS
<1>2. DOMAIN u = Entry!Requests /\ 0 \in ReqOrZero
  BY <1>1 DEF ReqOrZero
<1>3. MadeOK(made, drawn, u)
  BY DEF Entry!Init, MadeOK
<1>4. NeverRecords(made)
  BY DEF Entry!Init, NeverRecords, Entry!Nothing
<1>5. StoredOK(made, drawn, u, stored) /\ JobsOK(drawn, u, jobs)
  BY <1>2 DEF Entry!Init, StoredOK, JobsOK
<1>6. recent \in [Entry!Flows -> Nat]
  BY DEF Entry!Init, Entry!Flows, EntryBounds
<1>7. PageOK(made, drawn, u, page)
  BY <1>2 DEF Entry!Init, PageOK, PageRecords
<1>8. CallsOK(made, drawn, u, calls) /\ CallsOK(made, drawn, u, wire) /\ drawn \in ReqOrZero
  BY <1>2 DEF Entry!Init, CallsOK
<1> QED BY <1>2, <1>3, <1>4, <1>5, <1>6, <1>7, <1>8 DEF Core, EntryInv

(* A discarded interview never records: a start reaches the server only    *)
(* for a session of the project it names, and what a request was drawn for *)
(* never changes, whatever page, reload, late or repeated request goes on. *)
THEOREM DiscardedStaysUnrecorded ==
  ASSUME EntryBounds PROVE Entry!Spec => []Entry!DiscardedNeverRecords
<1>1. ASSUME EntryInv PROVE Entry!DiscardedNeverRecords
  BY <1>1 DEF EntryInv, Core, NeverRecords, Entry!DiscardedNeverRecords, Entry!Projects, Entry!SessionsOf, Entry!Advanced
<1> QED BY <1>1, EntryInit, EntryStep, PTL DEF Entry!Spec


-----------------------------------------------------------------------------
(* The server makes one thing of a request, and one first session of a     *)
(* project.                                                                *)
OneFirstSession ==
  \A s, o \in Entry!Requests :
    /\ made[s].kind = "session" /\ made[o].kind = "session"
    /\ made[s].project = made[o].project
    => s = o

LEMMA OnlyItsRequest ==
  ASSUME EntryBounds, NEW u, Core(u), NEW c, CallOK(made, drawn, u, c),
         NEW q \in Entry!Requests, made[q] = Entry!Nothing, Entry!Serve(c).made[q] # Entry!Nothing
  PROVE  /\ q = c.req /\ c.kind \in {"project", "session", "audio", "consent"}
         /\ c.kind = "session" => Entry!SessionsOf(c.project) = {}
<1>1. made \in [Entry!Requests -> {Entry!Nothing} \cup Things]
  BY DEF Core, MadeOK
<1>2. \A r, t : r # q => Entry!Create(r, t)[q] = Entry!Nothing
  BY <1>1 DEF Entry!Create
<1>3. c.kind \in {"project", "session", "audio", "consent", "device", "start", "discard"}
  BY DEF CallOK, CallRecords
<1>4. ASSUME NEW p, Entry!Alive(p) PROVE p # q
  BY <1>4, AliveFacts, ThingFacts DEF Core, Things
<1>5. CASE c.kind = "project"
  BY <1>2, <1>5 DEF Entry!Serve, Entry!ServeProject
<1>6. CASE c.kind = "session"
  <2>1. Entry!Alive(c.project) /\ (made[c.req] # Entry!Nothing \/ Entry!SessionsOf(c.project) = {})
    <3>1. SUFFICES ASSUME ~(Entry!Alive(c.project) /\ (made[c.req] # Entry!Nothing \/ Entry!SessionsOf(c.project) = {}))
                   PROVE  FALSE
      OBVIOUS
    <3>2. Entry!ServeSession(c) = [ok |-> FALSE, made |-> made]
      BY <3>1, Zenon DEF Entry!ServeSession, Entry!Refused
    <3> QED BY <1>6, <3>2 DEF Entry!Serve
  <2>2. Entry!ServeSession(c).made = Entry!Create(c.req, [kind |-> "session", project |-> c.project, status |-> "created"])
    BY <2>1 DEF Entry!ServeSession
  <2>3. q = c.req
    BY <1>2, <1>6, <2>2 DEF Entry!Serve
  <2> QED BY <1>6, <2>1, <2>3
<1>7. CASE c.kind = "audio"
  BY <1>2, <1>7 DEF Entry!Serve, Entry!ServeAudio, Entry!Refused
<1>8. CASE c.kind = "consent"
  <2> DEFINE t == [kind |-> "consent", project |-> c.project, audio |-> c.audio]
  <2>1. CASE ~(Entry!Alive(c.project) /\ made[c.audio] = [kind |-> "audio", project |-> c.project])
    <3>1. Entry!ServeConsent(c) = [ok |-> FALSE, made |-> made]
      BY <2>1, Zenon DEF Entry!ServeConsent, Entry!Refused
    <3> QED BY <1>8, <3>1 DEF Entry!Serve
  <2>2. CASE Entry!Alive(c.project) /\ made[c.audio] = [kind |-> "audio", project |-> c.project]
    <3>1. c.project # q
      BY <1>4, <2>2
    <3>2. PICK n : n = Entry!Create(c.req, t)
      OBVIOUS
    <3>3. Entry!ServeConsent(c).made = [n EXCEPT ![c.project].status = IF @ = "draft" THEN "ready" ELSE @]
      BY <2>2, <3>2 DEF Entry!ServeConsent
    <3>4. Entry!ServeConsent(c).made[q] = n[q] \/ q \notin DOMAIN n
      BY <3>1, <3>3
    <3>5. DOMAIN n = Entry!Requests
      BY <1>1, <3>2 DEF Entry!Create
    <3> QED BY <1>2, <1>8, <3>2, <3>4, <3>5 DEF Entry!Serve
  <2> QED BY <2>1, <2>2
<1>9. CASE c.kind = "device"
  <2>1. c.session # q
    BY <1>9, ThingFacts DEF CallOK, IsSessionOf, Things
  <2> QED BY <1>1, <1>9, <2>1 DEF Entry!Serve, Entry!ServeDevice, Entry!Refused
<1>10. CASE c.kind = "start"
  <2>1. c.session # q
    BY <1>10, ThingFacts DEF CallOK, IsSessionOf, Things
  <2> QED BY <1>1, <1>4, <1>10, <2>1 DEF Entry!Serve, Entry!ServeStart, Entry!Refused
<1>11. CASE c.kind = "discard"
  <2>1. c.project # q
    BY <1>11, ThingFacts DEF CallOK, IsProject, Things
  <2> QED BY <1>1, <1>11, <2>1 DEF Entry!Serve, Entry!ServeDiscard, Entry!Refused
<1> QED BY <1>3, <1>5, <1>6, <1>7, <1>8, <1>9, <1>10, <1>11


(* What a step can do to what the server made                              *)
LEMMA MadeStep ==
  ASSUME EntryBounds, NEW u, Core(u), [Entry!Next]_Entry!vars
  PROVE  made' = made \/ \E c \in calls \cup wire : CallOK(made, drawn, u, c) /\ made' = Entry!Serve(c).made
<1>1. ASSUME NEW c \in calls \cup wire PROVE CallOK(made, drawn, u, c)
  BY DEF Core, CallsOK
<1>2. CASE \E c \in calls : Entry!Arrive(c)
  BY <1>1, <1>2 DEF Entry!Arrive
<1>3. CASE \E c \in wire : Entry!ArriveLate(c)
  BY <1>1, <1>3 DEF Entry!ArriveLate
<1>4. ASSUME NEW kind, Entry!Prepare(kind) \/ Entry!Again(kind) PROVE made' = made
  BY <1>4 DEF Entry!Prepare, Entry!Again, Entry!Sends
<1>5. ASSUME NEW c, Entry!Succeeds(c) \/ Entry!Fails(c) \/ Entry!Lost(c) PROVE made' = made
  BY <1>5 DEF Entry!Succeeds, Entry!Fails, Entry!Lost
<1>6. CASE \/ Entry!GoHome \/ Entry!KeepOld \/ \E intent \in {"new", "resume"} : Entry!GoNew(intent)
           \/ \E s \in Entry!Requests : Entry!GoPrepare(s)
           \/ \E late \in SUBSET calls : Entry!Reload(late)
  BY <1>6 DEF Entry!GoHome, Entry!KeepOld, Entry!GoNew, Entry!GoPrepare, Entry!Reload, Entry!Visit
<1>7. CASE Entry!Settles \/ Entry!RecordConsent \/ Entry!DiscardHere
  BY <1>7 DEF Entry!Settles, Entry!Quiet, Entry!RecordConsent, Entry!DiscardHere
<1>8. CASE Entry!CheckDevice \/ Entry!UploadConsent \/ Entry!StartCapture \/ Entry!Discard \/ Entry!PrepareSteps
  BY <1>8 DEF Entry!CheckDevice, Entry!UploadConsent, Entry!StartCapture, Entry!Discard, Entry!PrepareSteps, Entry!Sends
<1>9. CASE UNCHANGED Entry!vars
  BY <1>9 DEF Entry!vars
<1> QED BY <1>2, <1>3, <1>4, <1>5, <1>6, <1>7, <1>8, <1>9 DEF Entry!Next

LEMMA FirstSessionStep ==
  ASSUME EntryBounds, NEW u, Core(u), OneFirstSession, [Entry!Next]_Entry!vars
  PROVE  OneFirstSession' /\ MadeStays(made, made')
<1>1. CASE made' = made
  BY <1>1 DEF OneFirstSession, MadeStays
<1>2. ASSUME NEW c \in calls \cup wire, CallOK(made, drawn, u, c), made' = Entry!Serve(c).made
      PROVE  OneFirstSession' /\ MadeStays(made, made')
  <2>1. MadeOK(made', drawn, u) /\ MadeStays(made, made')
    BY <1>2, ServeKeeps DEF Core, EntryBounds, Served
  <2>2. PICK n : n = made'
    OBVIOUS
  <2>3. ASSUME NEW s \in Entry!Requests, n[s].kind = "session"
        PROVE  \/ made[s].kind = "session" /\ made[s].project = n[s].project
               \/ s = c.req /\ Entry!SessionsOf(n[s].project) = {}
    <3>1. n[s] # Entry!Nothing /\ n[s] \in Things /\ u[s] = Purpose(n[s])
      BY <2>1, <2>2, <2>3 DEF MadeOK, Entry!Nothing
    <3>2. Purpose(n[s]) = <<"session", n[s].project>>
      BY <2>3 DEF Purpose
    <3>3. CASE made[s] # Entry!Nothing
      <4>1. made[s] \in Things /\ Purpose(made[s]) = Purpose(n[s])
        BY <2>1, <2>2, <3>3 DEF MadeStays, Core, MadeOK
      <4>2. made[s].kind = "session"
        BY <3>1, <4>1, ThingFacts, <2>3
      <4> QED BY <2>3, <3>1, <4>1, <4>2, ThingFacts
    <3>4. CASE made[s] = Entry!Nothing
      <4>1. s = c.req /\ c.kind \in Entry!Creates \cup {"audio"} /\ (c.kind = "session" => Entry!SessionsOf(c.project) = {})
        BY <1>2, <2>2, <3>1, <3>4, OnlyItsRequest DEF Entry!Creates
      <4>2. CASE c.kind = "session"
        <5>1. u[s] = <<"session", c.project>>
          BY <1>2, <4>1, <4>2, CreateCall DEF Core, EntryBounds, Entry!Creates
        <5>2. c.project = n[s].project
          BY <3>1, <3>2, <5>1
        <5> QED BY <4>1, <4>2, <5>2
      <4>3. CASE c.kind # "session"
        <5>1. u[s] = <<c.kind, 0>>
          <6>1. CASE c.kind = "audio"
            BY <1>2, <4>1, <6>1 DEF CallOK, DrawnFor, Entry!Requests
          <6>2. CASE c.kind \in Entry!Creates
            BY <1>2, <4>1, <4>3, <6>2, CreateCall DEF Core, EntryBounds, Entry!Creates
          <6> QED BY <4>1, <6>1, <6>2
        <5> QED BY <3>1, <3>2, <4>3, <5>1
      <4> QED BY <4>2, <4>3
    <3> QED BY <3>3, <3>4
  <2>4. ASSUME NEW s \in Entry!Requests, NEW o \in Entry!Requests, n[s].kind = "session", n[o].kind = "session",
               n[s].project = n[o].project
        PROVE  s = o
    <3>1. \A q \in Entry!Requests : made[q].kind = "session" => q \in Entry!SessionsOf(made[q].project)
      BY DEF Entry!SessionsOf
    <3> QED BY <2>3, <2>4, <3>1 DEF OneFirstSession
  <2> QED BY <2>1, <2>2, <2>4 DEF OneFirstSession
<1> QED BY <1>1, <1>2, MadeStep

(* A project has at most one first session, whichever requests asked for   *)
(* it, whatever was repeated and however late it arrived.                  *)
THEOREM FirstSessionIsOne ==
  ASSUME EntryBounds PROVE Entry!Spec => []OneFirstSession
<1>1. ASSUME Entry!Init PROVE EntryInv /\ OneFirstSession
  BY <1>1, EntryInit DEF Entry!Init, OneFirstSession, Entry!Nothing
<1>2. ASSUME EntryInv /\ OneFirstSession, [Entry!Next]_Entry!vars PROVE (EntryInv /\ OneFirstSession)'
  BY <1>2, EntryStep, FirstSessionStep DEF EntryInv
<1> QED BY <1>1, <1>2, PTL DEF Entry!Spec

(* What a request made stands, and stands for what it was drawn for: a      *)
(* repetition is answered from it and a late one makes nothing else of it. *)
THEOREM RequestsMakeOneThing ==
  ASSUME EntryBounds PROVE Entry!Spec => [][MadeStays(made, made')]_Entry!vars
<1>1. ASSUME Entry!Init PROVE EntryInv /\ OneFirstSession
  BY <1>1, EntryInit DEF Entry!Init, OneFirstSession, Entry!Nothing
<1>2. ASSUME EntryInv /\ OneFirstSession, [Entry!Next]_Entry!vars
      PROVE (EntryInv /\ OneFirstSession)' /\ MadeStays(made, made')
  BY <1>2, EntryStep, FirstSessionStep DEF EntryInv
<1> QED BY <1>1, <1>2, PTL DEF Entry!Spec

==============================================================================
