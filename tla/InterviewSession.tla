-------------------------- MODULE InterviewSession --------------------------
(***************************************************************************)
(* The server side life of one interview session (sequence number 1) of    *)
(* one elder project: the project and consent gate, the session status,    *)
(* the capture generations, the audio object with its chunk rows and       *)
(* stored bytes, and the finalization that freezes, drains and completes   *)
(* the session.                                                            *)
(*                                                                         *)
(* A database transaction of the services is one action: every one of them *)
(* takes the advisory locks request -> project -> session -> audio before  *)
(* it reads.  What happens outside a transaction (the advance of a         *)
(* finalization, the ASR drain, the in-memory realtime runtime, the file   *)
(* store) is an action of its own, and Crash forgets what is only in       *)
(* memory.  Requests are not generated by a client: any request with any   *)
(* argument may arrive at any time; a request the code rejects changes     *)
(* nothing, so it is not an action.                                        *)
(*                                                                         *)
(* Only the creator of a project is ever assigned to it, so there is one   *)
(* actor.  Audit rows and idempotency rows are left out: a replayed        *)
(* request returns the stored answer and changes no state named here.      *)
(***************************************************************************)
EXTENDS Integers, FiniteSets

CONSTANTS
  Contents,       \* identities of chunk payloads (checksum, size, MIME type)
  NoChunk,        \* no row, no bytes or no commitment at a sequence number
  MaxChunks,      \* bound: chunk sequence numbers are 0 .. MaxChunks - 1
  MaxGeneration,  \* bound: capture generations are 0 .. MaxGeneration
  MaxFrame,       \* bound: realtime frames are 0 .. MaxFrame
  MaxCrashes      \* bound: crashes of the API process

ASSUME ChunkAssumption == NoChunk \notin Contents
ASSUME BoundAssumption ==
  /\ MaxChunks \in Nat \ {0}
  /\ MaxGeneration \in Nat
  /\ MaxFrame \in Nat
  /\ MaxCrashes \in Nat

VARIABLES
  project,         \* elder_project.status
  deleted,         \* elder_project.deletedAt is set
  consent,         \* the latest formal consent record
  assigned,        \* the actor's project assignment is not revoked
  session,         \* interview_session.status, "none" before it is created
  generation,      \* the latest capture generation number, -1 for none
  captureStatus,   \* session_capture_generation.status by generation
  timelineOffset,  \* session_capture_generation.timelineOffsetMs by generation
  pcmAccepted,     \* generations whose firstPcmAcceptedAt is set
  audio,           \* audio_object.status of the session's interview object
  chunk,           \* audio_chunk rows by sequence number
  blob,            \* bytes in the file store by sequence number
  manifest,        \* the chunks the manifest checksum was computed from
  committed,       \* session_finalization_chunk rows by sequence number
  transcript,      \* session_finalization.transcriptStatus
  accepted,        \* asrLastAudioSequenceAccepted, -1 for null
  runtimeGen,      \* in memory: generation of the session's runtime, -1 for none
  acked,           \* in memory: highestAudioSequenceAcked of that runtime
  owed,            \* in memory: a frame is durable and its acknowledgement is still owed
  told,            \* a page has been sent the acknowledgement of a frame
  advance,         \* in memory: the running advance of the finalization
  crashes          \* crashes so far (bound)

gateVars    == <<project, deleted, consent, assigned>>
captureVars == <<generation, captureStatus, timelineOffset, pcmAccepted>>
audioVars   == <<audio, chunk, blob, manifest>>
finalVars   == <<committed, transcript, accepted>>
runtimeVars == <<runtimeGen, acked, owed, told>>
memoryVars  == <<runtimeVars, advance, crashes>>
vars == <<gateVars, session, captureVars, audioVars, finalVars, memoryVars>>

-----------------------------------------------------------------------------
(* Types *)

ProjectStatus == {"draft", "ready", "active", "restricted", "deleted"}
ConsentStatus == {"none", "valid", "revoked"}
SessionStatus == {"none", "created", "device_check", "recording", "reconnecting",
                  "interrupted", "stopping", "processing", "completed", "failed"}
CaptureStatus == {"absent", "preparing", "active", "interrupted", "stopped",
                  "abandoned_empty"}
AudioStatus == {"absent", "initiated", "uploading", "complete", "failed"}
TranscriptStatus == {"none", "pending", "draining", "drained", "degraded", "not_started"}
AdvanceStage == {"idle", "prepare", "drain"}

SeqNos      == 0 .. (MaxChunks - 1)
Generations == 0 .. MaxGeneration
Timeline    == 0 .. MaxChunks       \* chunk n covers [n, n + 1)
ChunkMap    == [SeqNos -> Contents \cup {NoChunk}]
NoChunks    == [n \in SeqNos |-> NoChunk]

Streamable == {"recording", "reconnecting"}
LiveCapture == {"preparing", "active"}
Terminal == {"completed", "failed"}

(* The sequence numbers present in a map of chunks. *)
Present(m) == {n \in SeqNos : m[n] # NoChunk}

(* validateCommitments: sequence numbers 0 .. k-1 without a hole, k > 0. *)
Contiguous(m) ==
  /\ 0 \in Present(m)
  /\ \A n \in SeqNos : n > 0 /\ m[n] # NoChunk => m[n - 1] # NoChunk

Commitments == {m \in ChunkMap : Contiguous(m)}

(* There is a session_finalization row. *)
Finalized == committed # NoChunks

-----------------------------------------------------------------------------
Init ==
  /\ project = "draft" /\ deleted = FALSE /\ consent = "none" /\ assigned = TRUE
  /\ session = "none"
  /\ generation = -1
  /\ captureStatus = [g \in Generations |-> "absent"]
  /\ timelineOffset = [g \in Generations |-> 0]
  /\ pcmAccepted = {}
  /\ audio = "absent" /\ chunk = NoChunks /\ blob = NoChunks /\ manifest = NoChunks
  /\ committed = NoChunks /\ transcript = "none" /\ accepted = -1
  /\ runtimeGen = -1 /\ acked = -1 /\ owed = FALSE /\ told = FALSE
  /\ advance = "idle" /\ crashes = 0

-----------------------------------------------------------------------------
(* Project, consent and the start of the session                           *)

(* appendConsent, with refreshReady.  The project is looked up before the  *)
(* transaction only, so a discard may have committed in between.           *)
AppendConsent ==
  /\ assigned
  /\ consent' = "valid"
  /\ project' = IF project = "draft" THEN "ready" ELSE project
  /\ UNCHANGED <<deleted, assigned, session, captureVars, audioVars, finalVars, memoryVars>>

(* The sessions a revocation ends, and what becomes of their capture. *)
EndingSessions == Streamable \cup {"interrupted", "stopping", "processing"}

(* revokeConsent.  As for appendConsent the deletion check precedes the     *)
(* transaction, so a discarded project can still become restricted.        *)
RevokeConsent ==
  /\ assigned
  /\ consent = "valid"
  /\ consent' = "revoked"
  /\ project' = "restricted"
  /\ session' = IF session \in Streamable THEN "interrupted" ELSE session
  /\ captureStatus' =
       [g \in Generations |->
          IF session \in EndingSessions /\ g = generation /\ captureStatus[g] \in LiveCapture
          THEN "interrupted" ELSE captureStatus[g]]
  /\ UNCHANGED <<deleted, assigned, generation, timelineOffset, pcmAccepted, audioVars,
                 finalVars, memoryVars>>

(* createSession: the first session of the project. *)
CreateSession ==
  /\ assigned /\ ~deleted
  /\ project \in {"draft", "ready", "active"}
  /\ session = "none"
  /\ session' = "created"
  /\ UNCHANGED <<gateVars, captureVars, audioVars, finalVars, memoryVars>>

(* deviceCheck takes only the session lock; the project was checked before. *)
DeviceCheck ==
  /\ assigned
  /\ session = "created"
  /\ session' = "device_check"
  /\ UNCHANGED <<gateVars, captureVars, audioVars, finalVars, memoryVars>>

(* discardPrestartInterview *)
DiscardPrestart ==
  /\ assigned /\ ~deleted
  /\ project \in {"draft", "ready"}
  /\ session \in {"none", "created", "device_check"}
  /\ audio = "absent" /\ generation = -1
  /\ project' = "deleted" /\ deleted' = TRUE
  /\ UNCHANGED <<consent, assigned, session, captureVars, audioVars, finalVars, memoryVars>>

(* assertCurrentStartAuthority and evaluateInterviewStartGate *)
StartGate ==
  /\ assigned /\ ~deleted
  /\ project \in {"draft", "ready", "active"}
  /\ consent = "valid"
  /\ session = "device_check"

(* startSession: session, audio object, generation 0 and project at once. *)
StartSession ==
  /\ StartGate
  /\ project' = "active"
  /\ session' = "recording"
  /\ audio' = "initiated"
  /\ generation' = 0
  /\ captureStatus' = [captureStatus EXCEPT ![0] = "preparing"]
  /\ timelineOffset' = [timelineOffset EXCEPT ![0] = 0]
  /\ UNCHANGED <<deleted, consent, assigned, pcmAccepted, chunk, blob, manifest, finalVars,
                 memoryVars>>

(* Assignments are revoked and restored outside this code base; the gates  *)
(* read project_assignment.revokedAt.                                      *)
RevokeAssignment ==
  /\ assigned /\ assigned' = FALSE
  /\ UNCHANGED <<project, deleted, consent, session, captureVars, audioVars, finalVars, memoryVars>>

RestoreAssignment ==
  /\ ~assigned /\ assigned' = TRUE
  /\ UNCHANGED <<project, deleted, consent, session, captureVars, audioVars, finalVars, memoryVars>>

-----------------------------------------------------------------------------
(* SessionCaptureService                                                   *)

(* assertCurrentGate of the capture service, for the first session.  The   *)
(* deletion scope reader may also fail: that only rejects the request.     *)
CaptureGate == assigned /\ ~deleted /\ project \in {"ready", "active"} /\ consent = "valid"

(* confirmActive; a generation that is already active stays as it is. *)
ConfirmActive(g) ==
  /\ CaptureGate
  /\ g = generation
  /\ captureStatus[g] = "preparing"
  /\ session \in Streamable
  /\ captureStatus' = [captureStatus EXCEPT ![g] = "active"]
  /\ session' = "recording"
  /\ UNCHANGED <<gateVars, generation, timelineOffset, pcmAccepted, audioVars, finalVars, memoryVars>>

(* reportInterrupted asks for the original actor, not for the gate; it      *)
(* changes nothing once the session is frozen or terminal.                 *)
ReportInterrupted(g) ==
  /\ g = generation
  /\ ~Finalized
  /\ session \notin Terminal \cup {"stopping", "processing"}
  /\ captureStatus[g] \in LiveCapture
  /\ captureStatus' = [captureStatus EXCEPT ![g] = "interrupted"]
  /\ session' = "interrupted"
  /\ UNCHANGED <<gateVars, generation, timelineOffset, pcmAccepted, audioVars, finalVars, memoryVars>>

NoCaptureEvidence_IgnoresRows == pcmAccepted = {} /\ ~Finalized

(* What abandonEmpty requires: no accepted PCM in any generation, no       *)
(* finalization and no chunk row.                                          *)
NoCaptureEvidence ==
  pcmAccepted = {} /\ ~Finalized /\ Present(chunk) = {}

(* abandonEmpty *)
AbandonEmpty(g) ==
  /\ CaptureGate
  /\ g = generation
  /\ session = "interrupted"
  /\ captureStatus[g] = "interrupted"
  /\ NoCaptureEvidence
  /\ captureStatus' = [captureStatus EXCEPT ![g] = "abandoned_empty"]
  /\ audio' = "failed"
  /\ session' = "failed"
  /\ UNCHANGED <<gateVars, generation, timelineOffset, pcmAccepted, chunk, blob, manifest,
                 finalVars, memoryVars>>

(* The archive the client reports holds at least what the server holds and *)
(* reaches at least as far as the current generation began.                *)
ArchiveCovers(count, highWater) ==
  /\ count >= Cardinality(Present(chunk))
  /\ \A n \in Present(chunk) : highWater >= n + 1
  /\ highWater >= timelineOffset[generation]

(* resume: the next generation, on the same audio object *)
Resume(count, highWater) ==
  /\ generation \in Generations /\ generation < MaxGeneration
  /\ ~Finalized
  /\ session = "interrupted"
  /\ captureStatus[generation] = "interrupted"
  /\ CaptureGate
  /\ ArchiveCovers(count, highWater)
  /\ generation' = generation + 1
  /\ captureStatus' = [captureStatus EXCEPT ![generation + 1] = "preparing"]
  /\ timelineOffset' = [timelineOffset EXCEPT ![generation + 1] = highWater]
  /\ session' = "reconnecting"
  /\ UNCHANGED <<gateVars, pcmAccepted, audioVars, finalVars, memoryVars>>

-----------------------------------------------------------------------------
(* AudioService and the local file store                                   *)

UploadAuthority_AssignmentOnly(n, c) == assigned

UploadAuthority_AlwaysAssigned(n, c) == assigned /\ (Finalized => committed[n] = c)

(* assertUploadAuthority: after the freeze only the frozen commitment, and *)
(* then without an assignment; before it, the assignment.                  *)
UploadAuthority(n, c) ==
  IF Finalized THEN committed[n] = c ELSE assigned

(* assertWritable *)
Writable ==
  /\ audio \in {"initiated", "uploading"}
  /\ session \in Streamable \cup {"stopping"}

(* putImmutable keeps bytes that are already there; uploadChunk then       *)
(* compares what is stored with what was sent.                             *)
StoredAs(n, c) == blob[n] \in {NoChunk, c}

(* uploadChunk; a row that exists must be identical, then nothing changes. *)
UploadChunk(n, c) ==
  /\ UploadAuthority(n, c)
  /\ Writable
  /\ chunk[n] = NoChunk
  /\ StoredAs(n, c)
  /\ blob' = [blob EXCEPT ![n] = IF blob[n] = NoChunk THEN c ELSE blob[n]]
  /\ chunk' = [chunk EXCEPT ![n] = c]
  /\ audio' = "uploading"
  /\ UNCHANGED <<gateVars, session, captureVars, manifest, finalVars, memoryVars>>

(* The same transaction rolled back, or the process killed, after the      *)
(* bytes were linked into place: the row is lost, the bytes stay.          *)
UploadRolledBack(n, c) ==
  /\ UploadAuthority(n, c)
  /\ Writable
  /\ chunk[n] = NoChunk
  /\ blob[n] = NoChunk
  /\ blob' = [blob EXCEPT ![n] = c]
  /\ UNCHANGED <<gateVars, session, captureVars, audio, chunk, manifest, finalVars, memoryVars>>

(* assertCompleteAuthority, with the comparison against the commitment *)
CompleteAuthority ==
  IF Finalized THEN chunk = committed ELSE assigned

(* completeObject: contiguous rows whose bytes are still in the store *)
CompleteObject ==
  /\ CompleteAuthority
  /\ Writable
  /\ Contiguous(chunk)
  /\ \A n \in Present(chunk) : blob[n] = chunk[n]
  /\ audio' = "complete"
  /\ manifest' = chunk
  /\ UNCHANGED <<gateVars, session, captureVars, chunk, blob, finalVars, memoryVars>>

-----------------------------------------------------------------------------
(* The realtime runtime, as far as a finalization reads it.  The gateway's *)
(* checks before these steps read state that may be stale by the time they *)
(* run, so here they may happen at any time.                               *)

(* RealtimeRuntimeService.buildRuntime for a join of generation g.  The    *)
(* runtime it replaces has lost its producer, or has been idle for long:   *)
(* a frame of it will not be acknowledged any more.                        *)
BuildRuntime(g) ==
  /\ g <= generation
  /\ runtimeGen' = g
  /\ acked' = -1
  /\ owed' = FALSE
  /\ UNCHANGED <<gateVars, session, captureVars, audioVars, finalVars, told, advance, crashes>>

(* RealtimeGateway.frame up to acceptAndPersist: nothing is written before *)
(* ensureDurableEvidence, which writes unless this process remembers that  *)
(* the generation has its first PCM, and refuses a generation that was     *)
(* interrupted, stopped or abandoned before the write.  Frames in flight   *)
(* share one such write, so one frame stands for all of them.              *)
PersistFirstPcm ==
  /\ runtimeGen >= 0
  /\ ~owed
  /\ acked < MaxFrame
  /\ runtimeGen \in pcmAccepted \/ captureStatus[runtimeGen] \in LiveCapture
  /\ pcmAccepted' = pcmAccepted \cup {runtimeGen}
  /\ owed' = TRUE
  /\ UNCHANGED <<gateVars, session, generation, captureStatus, timelineOffset, audioVars,
                 finalVars, runtimeGen, acked, told, advance, crashes>>

(* After the write the producer's lease has changed hands                  *)
(* (interruptCapture, release or claim): the frame is not acknowledged.    *)
FrameDropped ==
  /\ owed
  /\ owed' = FALSE
  /\ UNCHANGED <<gateVars, session, captureVars, audioVars, finalVars, runtimeGen, acked, told,
                 advance, crashes>>

Acknowledge ==
  /\ acked < MaxFrame
  /\ acked' = acked + 1
  /\ told' = TRUE
  /\ owed' = FALSE
  /\ UNCHANGED <<gateVars, session, captureVars, audioVars, finalVars, runtimeGen, advance, crashes>>

(* Mutant: the frame is acknowledged without awaiting the write. *)
RecordFrame_BeforeEvidence == runtimeGen >= 0 /\ Acknowledge

(* recordFrame and audioAck, after acceptAndPersist *)
RecordFrame == owed /\ Acknowledge

(* What RealtimeRuntimeService.find may answer: an entry not touched for   *)
(* MAX_AGE_MS is not returned.                                             *)
RuntimeFound == {-1, acked}

-----------------------------------------------------------------------------
(* SessionFinalizationService                                              *)

(* currentGate *)
CurrentGate ==
  assigned /\ ~deleted /\ project \notin {"restricted", "deleted"} /\ consent = "valid"

StopCaptures_LeavesPreparing ==
  [g \in Generations |-> IF captureStatus[g] = "active" THEN "stopped" ELSE captureStatus[g]]

(* The freeze stops every generation that is still live. *)
StopCaptures ==
  [g \in Generations |-> IF captureStatus[g] \in LiveCapture THEN "stopped" ELSE captureStatus[g]]

(* freeze: stop (from a streamable session) and finalize_interrupted.  The *)
(* response is followed by the advance of the new finalization.            *)
Freeze(m) ==
  /\ ~Finalized
  /\ CurrentGate
  /\ session \in Streamable \cup {"interrupted"}
  /\ audio # "absent"
  /\ \A n \in Present(chunk) : m[n] = chunk[n]
  /\ committed' = m
  /\ transcript' = "pending"
  /\ accepted' \in RuntimeFound
  /\ session' = "stopping"
  /\ captureStatus' = StopCaptures
  /\ advance' = "prepare"
  /\ UNCHANGED <<gateVars, generation, timelineOffset, pcmAccepted, audioVars, runtimeVars,
                 crashes>>

(* freeze when the gate no longer holds: only the session is interrupted. *)
FreezeDenied ==
  /\ ~Finalized
  /\ ~CurrentGate
  /\ session \in Streamable
  /\ session' = "interrupted"
  /\ UNCHANGED <<gateVars, captureVars, audioVars, finalVars, memoryVars>>

(* recover(reconcile), and a later stop with the frozen commitment: start  *)
(* the advance unless this process is already running one.                 *)
Recover ==
  /\ Finalized
  /\ advance = "idle"
  /\ advance' = "prepare"
  /\ UNCHANGED <<gateVars, session, captureVars, audioVars, finalVars, runtimeVars, crashes>>

ManifestMatches_IgnoresCommitment == audio = "complete" /\ manifest = chunk

(* completeManifestMatches *)
ManifestMatches ==
  audio = "complete" /\ manifest = chunk /\ chunk = committed

Larger(a, b) == IF a > b THEN a ELSE b

(* advanceOnce, first transaction, when there is nothing to drain: still   *)
(* waiting for audio, or already terminal.                                 *)
AdvanceNothing ==
  /\ advance = "prepare"
  /\ session \in Terminal \/ ~ManifestMatches
  /\ advance' = "idle"
  /\ UNCHANGED <<gateVars, session, captureVars, audioVars, finalVars, runtimeVars, crashes>>

(* advanceOnce, first transaction, when find returns no runtime that       *)
(* accepted audio; a transcript that is already settled is kept.           *)
AdvanceWithoutRuntime ==
  /\ advance = "prepare"
  /\ session \notin Terminal
  /\ ManifestMatches
  /\ transcript' = IF transcript \notin {"pending", "draining"} THEN transcript
                   ELSE IF accepted < 0 THEN "not_started" ELSE "degraded"
  /\ session' = "completed"
  /\ advance' = "idle"
  /\ UNCHANGED <<gateVars, captureVars, audioVars, committed, accepted, runtimeVars, crashes>>

(* advanceOnce, first transaction, with accepted audio to drain *)
AdvanceToDrain ==
  /\ advance = "prepare"
  /\ session \notin Terminal
  /\ ManifestMatches
  /\ transcript \in {"pending", "draining"}
  /\ acked >= 0
  /\ transcript' = "draining"
  /\ accepted' = Larger(acked, accepted)
  /\ session' = "processing"
  /\ advance' = "drain"
  /\ UNCHANGED <<gateVars, captureVars, audioVars, committed, runtimeVars, crashes>>

(* drainAndClose and the second transaction; what the ASR adapter reports  *)
(* (a complete drain, or a gap, timeout or error) is free here.            *)
AdvanceSettle(drained) ==
  /\ advance = "drain"
  /\ IF session \in Terminal
       THEN UNCHANGED <<session, transcript>>
       ELSE /\ session' = "completed"
            /\ transcript' = IF drained THEN "drained" ELSE "degraded"
  /\ advance' = "idle"
  /\ UNCHANGED <<gateVars, captureVars, audioVars, committed, accepted, runtimeVars, crashes>>

(* The API process dies: the runtime and the running advance are gone. *)
Crash ==
  /\ crashes < MaxCrashes
  /\ crashes' = crashes + 1
  /\ runtimeGen' = -1 /\ acked' = -1 /\ owed' = FALSE /\ advance' = "idle"
  /\ UNCHANGED <<gateVars, session, captureVars, audioVars, finalVars, told>>

-----------------------------------------------------------------------------
UploadSteps == \E n \in SeqNos, c \in Contents : UploadChunk(n, c) \/ UploadRolledBack(n, c)

ResumeStep == \E count \in 0 .. MaxChunks, highWater \in Timeline : Resume(count, highWater)

FreezeStep == \E m \in Commitments : Freeze(m)

CaptureSteps ==
  \E g \in Generations :
    \/ ConfirmActive(g)
    \/ ReportInterrupted(g)
    \/ AbandonEmpty(g)
    \/ BuildRuntime(g)

FrameSteps == PersistFirstPcm \/ FrameDropped \/ RecordFrame

SettleStep == \E drained \in BOOLEAN : AdvanceSettle(drained)

Next ==
  \/ AppendConsent
  \/ RevokeConsent
  \/ CreateSession
  \/ DeviceCheck
  \/ DiscardPrestart
  \/ StartSession
  \/ RevokeAssignment
  \/ RestoreAssignment
  \/ CaptureSteps
  \/ ResumeStep
  \/ UploadSteps
  \/ CompleteObject
  \/ FrameSteps
  \/ FreezeStep
  \/ FreezeDenied
  \/ Recover
  \/ AdvanceNothing
  \/ AdvanceWithoutRuntime
  \/ AdvanceToDrain
  \/ SettleStep
  \/ Crash

Spec == Init /\ [][Next]_vars

(* The client retries what it froze until the server confirms it, and a    *)
(* started advance goes on; nothing else is promised to happen.            *)
Fairness ==
  /\ \A n \in SeqNos : WF_vars(\E c \in Contents : Finalized /\ UploadChunk(n, c))
  /\ WF_vars(Finalized /\ CompleteObject)
  /\ WF_vars(Recover)
  /\ WF_vars(AdvanceNothing \/ AdvanceWithoutRuntime \/ AdvanceToDrain)
  /\ WF_vars(SettleStep)

FairSpec == Spec /\ Fairness

-----------------------------------------------------------------------------
(* Properties                                                              *)

(* Every variable holds a value its column or field can hold. *)
TypeOK ==
  /\ project \in ProjectStatus /\ deleted \in BOOLEAN
  /\ consent \in ConsentStatus /\ assigned \in BOOLEAN
  /\ session \in SessionStatus
  /\ generation \in Generations \cup {-1}
  /\ captureStatus \in [Generations -> CaptureStatus]
  /\ timelineOffset \in [Generations -> Timeline]
  /\ pcmAccepted \subseteq Generations
  /\ audio \in AudioStatus
  /\ chunk \in ChunkMap /\ blob \in ChunkMap /\ manifest \in ChunkMap
  /\ committed \in ChunkMap
  /\ transcript \in TranscriptStatus
  /\ accepted \in -1 .. MaxFrame
  /\ runtimeGen \in Generations \cup {-1}
  /\ acked \in -1 .. MaxFrame
  /\ owed \in BOOLEAN /\ told \in BOOLEAN
  /\ advance \in AdvanceStage
  /\ crashes \in 0 .. MaxCrashes

(* A completed session is whole: the audio object is complete, its         *)
(* manifest, its rows, its stored bytes and the commitment frozen at stop  *)
(* all agree, the transcript has settled and no generation is live         *)
(* (advanceOnce, completeManifestMatches, completeTerminal).               *)
CompletedIsWhole ==
  session = "completed" =>
    /\ audio = "complete"
    /\ manifest = chunk /\ chunk = committed
    /\ Contiguous(committed)
    /\ \A n \in Present(committed) : blob[n] = committed[n]
    /\ transcript \in {"drained", "degraded", "not_started"}
    /\ \A g \in Generations : captureStatus[g] \notin LiveCapture

(* A session given up as NO_AUDIO_CAPTURED has no audio: no PCM accepted   *)
(* in any generation, no chunk row and no finalization, not even one that  *)
(* raced with abandonEmpty (persistFirst, uploadChunk, freeze).            *)
FailedIsEmpty ==
  session = "failed" =>
    /\ pcmAccepted = {}
    /\ Present(chunk) = {}
    /\ ~Finalized
    /\ audio = "failed"

(* At most the latest generation is live, only before the freeze, and a    *)
(* session that records or reconnects has one (the partial unique index    *)
(* session_capture_generation_one_current can never be hit).               *)
OneCurrentGeneration ==
  /\ \A g \in Generations :
       captureStatus[g] \in LiveCapture =>
         /\ g = generation
         /\ ~Finalized
         /\ session \in Streamable \cup {"interrupted"}
  /\ session \in Streamable => generation >= 0 /\ captureStatus[generation] \in LiveCapture

(* Once consent has been revoked nothing records: no session streams and   *)
(* no generation is live, whatever confirm, resume, start or a second      *)
(* consent comes after it.                                                 *)
RestrictedIsQuiet ==
  project = "restricted" =>
    /\ session \notin Streamable
    /\ \A g \in Generations : captureStatus[g] \notin LiveCapture

(* A project discarded before its start never gets a recording, although   *)
(* deviceCheck and appendConsent do not look at it under its lock.         *)
DiscardedHasNoAudio ==
  deleted => audio = "absent" /\ generation = -1 /\ session \in {"none", "created", "device_check"}

(* Every chunk row has its bytes in the file store, also when an earlier   *)
(* upload of the same sequence number was rolled back after the store had  *)
(* taken its bytes.                                                        *)
RowHasBytes == \A n \in Present(chunk) : blob[n] = chunk[n]

(* Audio that a page was told the server has is not thrown away: once a    *)
(* frame has been acknowledged, by whichever runtime, abandonEmpty never   *)
(* gives the session up, also when the capture is interrupted, resumed or  *)
(* lost in a crash around the write of its evidence and the answer.        *)
AcknowledgedIsKept == told => session # "failed"

(* The session timeline never runs backwards from one generation to the    *)
(* next (resume against the capture it replaces).                          *)
TimelineMonotone ==
  \A g \in Generations : g > 0 /\ g <= generation => timelineOffset[g - 1] <= timelineOffset[g]

(* The freeze is final: the commitment never changes, and from then on a   *)
(* chunk row appears only with the content that was committed, whoever     *)
(* lost the assignment or the consent in between.                          *)
FrozenEvidence ==
  [][Finalized =>
       /\ committed' = committed
       /\ \A n \in SeqNos : chunk'[n] # chunk[n] => chunk'[n] = committed[n]]_vars

(* A completed or failed session keeps its status, commitment, chunk rows, *)
(* manifest and transcript outcome for ever: no late report, recover,      *)
(* drain, upload or revocation moves them.                                 *)
TerminalIsStable ==
  [][(session \in Terminal) =>
       UNCHANGED <<session, committed, chunk, manifest, transcript, accepted, audio>>]_vars

(* The session seen as the custody of a set of recorded chunks. *)
CustodyPhase ==
  CASE session = "completed" -> "sealed"
    [] session = "failed" -> "void"
    [] session \notin Terminal /\ Finalized -> "frozen"
    [] OTHER -> "open"

Custody == INSTANCE EvidenceCustody
             WITH Slots <- SeqNos, Items <- Contents, None <- NoChunk, Promises <- Commitments,
                  phase <- CustodyPhase, promise <- committed, held <- chunk

(* The services together keep the custody promise of EvidenceCustody:      *)
(* every request, crash or advance is a custody step or none at all.       *)
RefinesCustody == Custody!Spec

(* A frozen session that can still be completed: neither the store nor a   *)
(* manifest computed before the stop contradicts the commitment.           *)
Completable ==
  /\ session = "stopping"
  /\ \A n \in SeqNos : blob[n] \in {NoChunk, committed[n]}
  /\ audio = "complete" => chunk = committed

(* A frozen session eventually completes, whatever crashes, as long as the *)
(* client keeps uploading, completing and reconciling what it froze;       *)
(* revocation of consent or assignment does not stop it.                   *)
FrozenCompletes == Completable ~> (session = "completed")

=============================================================================
