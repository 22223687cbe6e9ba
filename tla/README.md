# A verification development for elder_interview_ai

TLA+ modules, TLC runs and TLAPS proofs about the parts of this repository that
are hardest to get right: the life of an interview session from consent to a
completed recording, the browser that records and delivers it, and the background
work that turns its transcript into memory. The reference is the source under `src/`; `PROJECT.json` maps every
definition that models code to the lines it stands for, lists the hazards of the
code with the properties that watch them, and names the runs, mutants, findings and
theorems.

Sources are abbreviated: `api/` is `src/apps/api/src/`, `web/` is `src/apps/web/src/`.

## The system

A browser records an interview with an elder in PCM chunks. It keeps an archive
in IndexedDB, uploads the chunks over HTTP and streams frames over a WebSocket for
realtime transcription. A NestJS API keeps everything in PostgreSQL and the chunk
bytes in a file store; the realtime runtime of a session lives in memory.
Transcript segments feed a question director during the interview and the memory
maintainer during and after it; a finished session is reconciled by a post-session
coordinator, and a second session opens with what was learnt in the first.

| Component | State it keeps | Operations | Interacts with |
| --- | --- | --- | --- |
| Project, consent, start (`api/project-foundation/project-foundation.service.ts`) | elder_project, consent_record, project_assignment, interview_session | create, consent, revoke, device check, discard, start | capture, audio object, AI policy |
| Capture generations (`session-capture.service.ts`) | session_capture_generation | confirm active, report interrupted, abandon empty, resume | gate of the project, realtime runtime |
| Finalization (`session-finalization.service.ts`) | session_finalization with its committed chunks; running advances in memory | freeze (stop, finalize interrupted), recover, advance | audio manifest, ASR drain of the runtime |
| Audio (`api/audio`) | audio_object, audio_chunk, bytes in the file store | upload, complete | session gate, commitment |
| Realtime (`api/realtime-transcription`) | runtimes in memory: producer, frame numbers, event ring, ASR stream | join, frame, pause, drain, expiry | capture, transcript ingestion |
| Transcript (`api/transcription`, speaker calibration and correction) | transcript_segment, speaker_mapping, role revision | ingest, calibrate, correct, remap | maintainer, question director |
| AI job coordinator (`api/ai-runtime`) | ai_job with frozen scopes, provider calls, decision traces | freeze, replay, call, write back, orphan termination | AI policy, everything AI |
| Working memory maintainer, P1 (`api/memory/memory-maintainer.runtime.ts`) | consumption, resolutions, threads; active runs in memory | wake, scan, select, run a batch, final flush | coordinator, post-session lanes |
| Long term memory, P2 to P4 (`api/memory`) | consolidation attempts, plans, entries, index | claim, propose, apply, recover, retrieve | maintainer, director context |
| Question runtime (`api/question-orchestration`, `api/question-evidence`, `api/question-bank`) | presentations, actual questions, rounds | round, publish, adopt, skip, reconcile | director, realtime notifier |
| Post-session coordination (`post-session-coordination.service.ts`) | opening attempts, lane jobs | reconcile completed, reconcile consumer | maintainer, question runtime |
| Retention, eligibility, drilldown | retention roots, eligibility of outputs | sweep, read | all AI outputs |
| Auth (`api/auth`) | user sessions, login throttle | login, logout, expiry | every request |
| Web capture (`web/audio`, `web/interview`, `web/realtime-transcription`) | IndexedDB archive, upload jobs, checkpoints, browser lock | record, deliver, acknowledge, recover | audio and session API, gateway |

What makes it hard: every operation is a transaction, but the interesting
operations are sequences of them (start, upload, stop, advance; select, freeze,
call, write back) in which other requests, other processes, crashes and stale
in-memory state come between any two; consent can be revoked at any of these
points; and much of the recovery is by scans and retries that must neither redo
nor forget.

What correctness means, component by component: a completed recording is exactly what
the client committed and nothing is dropped as empty that is not (session, capture,
audio, finalization); nothing records without consent (project); acknowledged audio is
durable (realtime); a segment is learnt from once, from fresh input, and every job ends
(maintainer, coordinator); a question is offered for the newest transcript only
(question runtime); a second session opens once its basis is terminal (post-session);
the archive is deleted only after the server has the chunk (web).

## Modules

| Module | Models | Built on |
| --- | --- | --- |
| `InterviewSession` | project gate, capture, audio, finalization of one session, and as much of the realtime runtime as they read | - |
| `EvidenceCustody` | the abstract promise about recorded chunks | refined by `InterviewSession` |
| `AudioDelivery` | recorders, local archive, delivery, freeze, completion and deletion of one session in the tabs of one browser | - |
| `RealtimeStream` | the page's transport, its sockets, the gateway's queues and the runtime with its window of events | - |
| `AsrAttempts` | the streaming ASR adapter with its attempts, and the ingestion of its results | - |
| `SpeakerRoles` | streams, calibration, the role of a segment, corrections and remaps, the paged transcript | - |
| `MemoryMaintainer` | maintainer runs and scans in several processes, with the coordinator's jobs and traces | - |
| `MemoryGate` | what may become memory: the gate with its two writers | - |
| `MemoryLayers` | consolidation jobs over slots: freeze, lease, commit, recovery | - |
| `MemoryRetrieval` | index passes and graph retrieval, await by await | - |
| `ContextSelection` | order, manifest and budget of the director's context, as an algorithm | - |
| `DirectorContext` | the frozen input of a generation, the context built from it, one evidence drilldown | - |
| `QuestionRuntime` | automatic, manual and opening requests of one session with presentation, job and trace | - |
| `PostSession` | the lanes of a completed session and the one opening of the next, in several processes | - |
| `NextSession` | who opens the next session of a project: browsers, tabs, the server's decision | - |
| `NewInterview` | the stored workflow that leads into an interview, its pages, calls and late answers | - |

`MCInterviewSession`, `MCAudioDelivery`, `MCMemoryMaintainer`, `MCQuestionRuntime` and
`MCPostSession` extend one module with what TLC needs: model values, symmetry, scan orders. Three MC modules
check several modules in one run whose parts share no state; the variable `part` says which of them a behaviour
is of, so the run explores the sum of the parts and not their product:
`MCMemoryStore` (extends `MemoryLayers`, instantiates `MemoryGate`), `MCLiveCall` (extends `RealtimeStream`,
instantiates `AsrAttempts`, `SpeakerRoles`, `NewInterview` and `NextSession`) and `MCQuestionInput` (extends
`DirectorContext`, instantiates `MemoryRetrieval` and `ContextSelection`).

The theorems are in `InterviewSession_proofs`, `AudioDelivery_proofs`, `RealtimeStream_proofs`,
`MemoryMaintainer_proofs`, `MemoryLayers_proofs`, `DirectorContext_proofs`, `QuestionRuntime_proofs` and
`PostSession_proofs`, each of which extends the module it is about. Some also instantiate a module beside theirs, with
variables of its own, and end with the theorems about it: `MemoryLayers_proofs` has `MemoryGate`, `PostSession_proofs`
`NextSession`, `DirectorContext_proofs` `SpeakerRoles`, `RealtimeStream_proofs` `AsrAttempts`, and
`InterviewSession_proofs` `NewInterview`.

Operators named `X_Y` next to an operator `X` are deliberate faults: `PROJECT.json`
lists under "mutants" which property each of them must break, which shows that the property depends on
that line of the code. They are used by nothing else.

### InterviewSession

One session with sequence number 1 of one project. Each database transaction of the
services is one action: all of them take advisory locks in the order request, project,
session, audio before they read what they decide on. Requests are not generated
by a client model: any request with any argument may come at any time, and one the
code rejects changes nothing and is no action. What a handler does outside of its transaction is
separate: `UploadRolledBack` is an upload whose file store write survived and whose
row did not; a realtime frame is `PersistFirstPcm`, the write of its generation's first PCM evidence,
and later `RecordFrame`, the acknowledgement, or `FrameDropped` when the lease of its producer has changed
hands in between, and `BuildRuntime` replaces the runtime under it; the advance of a finalization is `AdvanceToDrain` and
`AdvanceSettle` with the ASR drain between them. `Crash` forgets the runtime and
the advance.

| State | Code |
| --- | --- |
| `project`, `deleted`, `consent`, `assigned` | elder_project.status and deletedAt, the latest formal consent, the creator's project_assignment |
| `session`, `generation`, `captureStatus`, `timelineOffset`, `pcmAccepted` | interview_session.status, session_capture_generation rows |
| `audio`, `chunk`, `blob`, `manifest` | audio_object.status, audio_chunk rows, bytes in the store, what the manifest checksum covers |
| `committed`, `transcript`, `accepted` | session_finalization and its chunk rows |
| `runtimeGen`, `acked`, `owed`, `advance` | in memory: runtime, highest acknowledged frame, a frame that is durable and not yet acknowledged, running advance |
| `told` | history: a page has received an acknowledgement, from whichever runtime |

Facts of the code the model uses: only createProject makes an assignment, so there is
one actor; nothing lifts `restricted`; appendConsent is accepted on a restricted project and leaves it
restricted; only the latest valid consent can be revoked; a process runs one
advance of a session at a time (the `advances` map).

Left out: the AI policy revision, statusBeforeRestriction, audit and idempotency rows
(a replayed request answers from them and changes nothing modelled), the interruption of
producers after a revocation commits, chunk durations (chunk n covers [n, n + 1)),
and later sessions of the project.

### EvidenceCustody

Four actions say what a client is promised: a slot is filled once (`Hold`), a freeze
fixes a promise that contains what is held (`Freeze`), the session is sealed when what is
held is the promise (`Seal`) and given up only when nothing was held (`Void`).
`InterviewSession` maps its status to the phase (`CustodyPhase`), its commitment to the
promise and its chunk rows to what is held, and `RefinesCustody` is the claim that every
request, crash and advance is one of the four or no step at all.

### AudioDelivery

Every page is a tab of one browser with the workbench of the same session: it has its own
controller, delivery pump and recorders, and shares IndexedDB and the Web Lock with the
others. One IndexedDB transaction is one action, and so is one event of a recorder; a request is
a message that may be answered, lost, or answered without the answer arriving, and an upload the
page gave up may still arrive. `Crash` closes or reloads a page.

| State | Code |
| --- | --- |
| `archive`, `pending`, `nextNo` | archive-chunks, delivery-queue and session-state of the IndexedDB store |
| `requestId`, `job` | the upload job: chunkRequestIds; status, expectedChunkCount, completeRequestId, capture status |
| `checkpoint`, `receipt`, `lock` | capture checkpoint, deletion receipt, Web Lock of the session |
| `rec` | a MediaRecorder with its write chain (`chain`), `writeFailure` (`broken`) and core (`failing`, `stopping`) |
| `runtime`, `pump`, `end` | in memory of a page: the controller's runtime, the pump's active run, the ending it is busy with (stopAndFreeze, submitFrozenEnd, completeFrozenAudio) |
| `deleter` | LocalAudioArchiveService.delete between inspection, verification and transaction |
| `session`, `rows`, `committed`, `completedBy`, `answered`, `wire` | what the answers of the server depend on, and uploads under way |

A chunk is known by the recorder that made it, a request id by the page that generated it: a page
that has lost the race for an id is told from one that has won. The
server is the part of `InterviewSession` this client can see. Abstractions: the commands that start,
resume and report a capture are reduced to the session status, and with them the generations, pendingResume and
interruption reports; reading the archive and the job before a freeze is one step, as are
markUploading and the request, and markFailed and the failed job; delivery status, retry counts,
durations and checksums are left out (a chunk is its content), as are the loss of authority (401, 403),
an old page's cached copy of the job beyond its known request ids, and storage estimates.

The deletion of the archive is guarded three times (lock, server manifest, a second inspection in the
transaction), so no single fault of it loses a chunk; `NothingLost` is what all three are for.

### MemoryMaintainer

Every worker is an API process. A run of `reconcileSession` is a sequence of actions, each
one transaction or one call: `Select`, `Prepare`, `FreezeJob`, `BuildContext`, `CallProvider`,
`WriteBack`, `CloseTrace`, or `RecordUnjudged` for a final flush without enough
content. A scan is `ScanStart` (stale jobs), `ScanTraces`, and one `ScanVisit` per
session, which starts the session's run or joins the active one and waits for it; a run
that throws ends the scan (`Finish`). The world around them arrives, ages, is corrected,
consents and supersedes memory between any two steps, and `ReconcileRunning` is
`DecisionTraceService.reconcileRunning`, which at startup and every 30 s closes each trace that has been running for 30 s
and has no question attempt as unavailable, whatever its job is doing; maintainer traces have none. So a trace that is
closed may know nothing of a job that runs or has succeeded; what it may never do is claim an outcome the job does not have.

| State | Code |
| --- | --- |
| `arrived`, `elder`, `roleRev`, `aged`, `closed` | transcript_segment rows with their trusted role, interview_session |
| `consumedBy` | memory_working_consumption |
| `allowed`, `policyRev` | what AiPolicyService.assertAllowed reads |
| `memory` | the version of the current working resolutions of the project |
| `jobs` | ai_job rows with scope, frozen memory and decision trace |
| `run`, `scan` | the `active` map of a process |

A trigger is the record of what its hash is computed from: the batch, and for a rebase
the cancelled job and the memory it starts from. Abstractions: no code changes a
segment's text, so a batch is identified by its segments; overlap segments, resolutions in
review, the cap of 16 rebases (beyond the bound on jobs) and repairs of
missing traces (a job and its trace are one transaction) are left out; prepareAttempt's
reads are one step; the update of the trace itself does not fail on its own; the failure of a write back and the update that records it are one step; a worker has one scan at a time, startup or periodic; a
scan visits sessions in the order of `ScanOrder`, which the query leaves to the database.

### RealtimeStream

One capture generation between the page and the runtime. A connection has a causal queue of its own until its
join is done and then feeds the queue of the runtime; both are `lane`s, and a lane works on one message at a
time. The awaits of a handler divide it into actions: a join is `Take`, `JoinDecides`, `Create` or `Confirm`,
and `Ready`; a frame is `Take`, `FrameDecides`, `FeedTaken` or `FeedFails`. Other lanes go on in between.

| State | Code |
| --- | --- |
| `page` | RealtimeTranscriptionTransport: socket, next frame, unacknowledged frames, event cursor, reconnects |
| `down`, `conn` | messages on their way to the page, ConnectionState of every socket |
| `lane`, `task` | the causal queues and the handler each is in |
| `rt`, `current`, `mode` | SessionRuntime objects, the sessions map, what RealtimeAccessService answers |
| `fed`, `notices`, `faults` | history: what the adapter took; bounds |

A runtime is named after the connection that created it; its `log` is the list of all events it ever appended, of
which the code keeps the last `Window`. Left out: pause, metrics, heartbeats beyond the access check they make.

### AsrAttempts

Every `open` of the adapter is a session with attempts; a failed attempt is replaced by one with a voice and a
speaker stream of its own, and what was queued or being sent is inherited. `Send` and `SendDone`, `Deliver`,
`Ingest` and `Publish` are the moments between which a connection fails, a runtime is replaced or consent ends;
`Drain` asks for the end and `Drained` or `DrainFails` settles what is left as a coverage gap. `stored`,
`published`, `streams`, `slots` and `drain` are the rows and counters these handlers write.

### SpeakerRoles

Every operation is a transaction under the lock of the session and one action: a frame, a rotation of the stream,
begin, end and confirmation of a calibration, ingestion, a single correction, the preview of a remap, its
execution, and the next page of a reader. A preview stores what it saw (`previews`) and is executed on a session
that has moved on.

### MemoryGate

`evaluateMemoryGate` as operators over what a segment is (`segment`), what was accepted before (`rows`,
`boundaries`) and what may be cited (`evidence`), and its two writers: `FreezeP1`/`CommitP1` of the
maintainer, `FreezeP2`/`CommitP2` of the consolidation, with a correction or a change of policy between
freeze and commit. A maintainer job may rest what it writes only on segments that are new to it: `selectBatch` takes those
no commit has used (`consumed`), the contract refuses evidence from the overlap, and the commit consumes the batch. Rows of
before the gate (`Told`, `ToldBoundary`) were written by such a commit, so what they cite is consumed from the start. The wording rules of the gate are left out: a segment is ordinary prose, an explicit statement
only by what it cites.

### MemoryLayers

A job freezes its input, has a lease, calls the provider outside of any transaction, re-reads its authority and
commits all its slots at once (`Attempt` steps), or it is ended by a reconcile pass that read its trace in an earlier step
(`ReconcileRead`, `ReconcileApply`). `P1Writes` is the maintainer as the writer of working rows. `rows` are the
revisions of all slots with writer and predecessor; `frozen` is what a job read of them.

### MemoryRetrieval, ContextSelection, DirectorContext

`MemoryRetrieval` has one action per await of an index pass and of a retrieval, so that memories evolve, relations
are added and the model changes in the middle; the graph expansion is a recursive function checked against the
definition of a shortest path. `ContextSelection` is a pure algorithm: `Assemble` orders members and freezes the
manifest, `Select` fills the budgets; its plan is compared with the longest prefix that fits. `DirectorContext`
freezes transcript and questions (`PrepareLive`, `ReadForOpening`, `Freeze`), builds the context (`BuildContext`),
lets the director ask once for evidence and finishes; sentences are corrected
and analyses republished between any two of these. The drilldown is `RequestEvidence`, the search, whose outcome the
round keeps for a retry (`kept`) or which throws and leaves nothing, and then `TraceEvidence`, the transaction that tells the trace
of it and may fail (`EvidenceFails` is the failure of a call). After such a failure the retry is given a kept result that the trace never
tells: the code allows it, and `ResultIsKeptStep` says so instead of denying it.

### QuestionRuntime

An automatic request (named by the newest segment it drained), a manual one and an opening run their separate
transactions (freeze, begin, context, provider, publish, trace) against each other. The rows of a request are
`attempt`, `job` and `trace`; `display` is what the elder's screen shows; `buffered`, `timer` and `run` are in
memory and lost by a crash. A run that fails ends in transactions of their own, each of which may fail or be the last before
a crash: `CloseFailedTrace` (the catch blocks of prepare and complete), `RepairAttempt` (`recoverAttempt`), and for a request
somebody waits for `FailAttempt` and `FailAttemptJob`. Between the first two the trace says failed while the attempt still runs or
has answered. `torn` records the requests of which that was the last word, because the repair failed or the process died: if
such an attempt had answered no pass corrects its trace, since they only look for live attempts and running
jobs. Repairs and reconcile passes close what a run left (`old` is the age they ask for); `OrphanedJob` and
`OrphanedAttempt` are the two of them for an opening. Adoption, skip and rewording by the interviewer are left out.

### PostSession

Each process works on a lane and on the opening of the next session at most once at a time and again at every tick:
`LaneStart`, `LaneFreeze`, `LaneEnd` or `LaneReject`; the opening reads the lanes, freezes a context of the gate,
begins an attempt and hands it to the generation. `SweepContexts` and `Age` are the repair of what a dead process left; a
gate can be lost and given again, consent and evidence move.

### NextSession, NewInterview

`NextSession` has the attempt a browser stores per project, shared by its tabs; a request to create the next session
is answered, answered unheard, pointed to the open session or refused, and its stored answer stands. `NewInterview`
walks the workflow of a first interview (project, session, consent recording, consent, start, or discard) with the
record of the workflow in IndexedDB, the page's copy of it, calls under way of pages that were left, and the
server's idempotent answers (`made`). Lost answers, late arrivals and reloads are bounded by `budget`.

## Runs

The properties of a run, with what breaks each of them, are listed in `PROJECT.json`.

| Run | Instance | Question |
| --- | --- | --- |
| `interview_session` | 2 contents, 2 chunks, 3 generations, 1 frame, 1 crash | is the evidence of a session consistent under every interleaving, is only the latest generation live, is acknowledged audio never given up as empty |
| `frozen_completes` | 2 contents, 2 chunks, 2 generations, 1 crash, fair | does a frozen session complete in spite of a crash and revoked authority, and does every step keep the custody promise |
| `memory_races` | 2 processes, 1 session, 2 segments, 2 jobs, 1 trace closed by the reconcile timer | do overlapping batches consume a segment once, and do racing attempts keep one live job and one outcome per trigger |
| `memory_ends` | 1 process, 1 segment, 1 change of consent or role, 3 versions of memory, 2 jobs, 1 crash, 1 trace closed by the reconcile timer, fair | is a success fresh, does a retry repeat its input, does no trace claim what did not become of its job, does every job end |
| `audio_delivery` | 2 tabs, 2 chunks, 2 recorders | do two tabs that hand over ever record at once, drop a chunk the server has not, or send it under two ids |
| `audio_one_tab` | 1 tab, 2 chunks, 2 recorders, 1 failure or lost message, 1 crash, fair | is the frozen job the whole archive, does a clean checkpoint hide a lost chunk, is what is frozen completed |
| `question_runtime` | 2 events, 1 manual request, 1 opening, 2 runs | does one run of a presentation publish, does a manual intent stop the automatic run before it, do job and attempt agree between the transactions of a failing run, does a closed trace tell the outcome, or at most failed while its repair is due or lost, is what is buffered served |
| `memory_store` | layers: 2 slots, an online and a final mid job with its long job, 1 maintainer revision, 1 change of policy; gate: 2 segments, a fact and an episode, 1 maintainer job, 2 consolidations, 1 change | has a slot one history, are ends written once, does what is accepted rest on the elder and on one revision of its source |
| `live_call` | stream: 2 sockets, 2 frames, 1 reconnect, window 3, 1 notice, 1 fault; ASR: 2 opens, 3 attempts, 2 frames, 1 sentence, 2 faults; roles: 2 labels, 2 roles, 3 segments, 1 preview; first interview: 2 workflows, 5 requests, 1 lost, 6 visits, 1 page left; next: 3 tabs of 2 browsers, 3 sessions, 3 requests, 1 lost, 1 turn | do events arrive in order and once, is acknowledged audio fed, is PCM accounted for and what is drained ingested, do single corrections stand, does nothing discarded record, is there one open session |
| `question_input` | director: 2 sessions, 2 sentences, 1 correction, 1 analysis, 1 display, 1 generation; retrieval: 4 memories, a triangle of relations; selection: up to 3 members of 2 sections | are distances shortest, is the selection the longest prefix that fits, does a drilldown agree with the frozen context and keep its one outcome, over a retry and a failed trace |
| `post_session` | 2 processes, 1 lane, 2 gates, 1 fault, fair | is the next session opened once, does every lane, context and job end |
| `memory_traces` (violation) | 1 process, 1 segment, 1 job, 1 crash | does the trace of a stale job end as failed, as its test expects |

Why the bounds suffice: two contents tell a chunk from another one at the same
place, two chunks allow a hole and a short archive, two generations a resume and three
a resume of a resume, one frame tells accepted from not accepted, one crash falls between any two steps.
For the maintainer two segments give batches that overlap without being equal, two processes any race
between a run and a scan or another run, three versions of memory let what a job froze be superseded, two jobs a
failed attempt and its retry. The bound on jobs acts as a refused freeze. One trace closed by the reconcile timer meets
every stage of its job; the theorems about the traces hold for any number.
For the browser two tabs give every race of two controllers, two chunks an order
and a hole, two recorders a resume or a handover and the old recorder beside the new one. Messages are lost, and captures fail,
in the run of one tab: what a second tab adds, a repeated or late upload and an id that is there already, its own
uploads do without a loss. `audio_one_tab` has a single tab because `FrozenIsWhole` and `CleanMeansWritten` do not
hold with two (a second tab may freeze, or resume, while the first records or closes).
For questions two runs of each kind of request give every race of two. Two slots, one of them migrated, let a commit
write one slot and be refused on another; two processes and two gates give every pair of decisions about an
opening. In a stream a reconnect with a half-open connection needs two sockets, a window of three is left behind by a
replay, and a frame is sent again while another is under way. The theorems below hold for all of these bounds, so for
the safety properties they state the bounds are no limit.

Deadlock is checked for `InterviewSession`, where some request is always possible. It is switched off elsewhere: the
environment of those models is bounded and what it asked for comes to rest.

Fairness. `InterviewSession`: the client drives a frozen session on, because the
workbench (`web/interview/workbench-shell.tsx`, the effect on `stopping` and `processing`)
keeps uploading the committed chunks, completing the object and asking for recovery, and a running advance goes on
while its process lives; nothing is assumed of requests before the freeze. `MemoryMaintainer`: time passes, the
scan timer keeps firing and a scan or run that has begun goes on; neither wakes nor the post-session lane are
promised, because the contract forbids to rely on them. `AudioDelivery` (`audio_one_tab`): a recorder that was stopped
finishes its writes, an upload under way is answered, and an open page goes on with a run or
ending it has begun and begins the ending again after a failure: the workbench offers it as long as the
job is frozen and not complete. Nothing makes it record or resume, and `FrozenIsCompleted` promises nothing once a
capture has failed. `PostSession`: the timer of every process keeps
starting lane and opening and what has begun goes on (`LaneStart` and its successors, `OpeningStep`), a question generation ends, the sweep
runs and time passes. No other run assumes fairness.

## Findings

`memory_traces` shows a disagreement between a test and the code. `memory-maintainer-runtime.test.ts:1120-1129` leaves a frozen job behind
and expects that the scan which fails it as stale gives its trace the verdict `failed`. In a running API the reconciliation of running
traces (`decision-trace.service.ts:776-796`, at startup and every 30 s) closes a trace without an attempt as `unavailable` after 30 s,
long before the job is stale, and the scan leaves a closed trace alone. The trace of such a job ends as unavailable, which the contract
(`memory-maintainer-v1.2.md:121`) keeps for historical orphans.

Other behaviour a reviewer may want to discuss is listed as hazards without a property: a transcript is reported `not_started` although PCM
was accepted, when the runtime was lost; `completeObject` before the stop leaves a later commitment that can be neither
uploaded nor completed; one session whose run throws at each scan stops `reconcileAll` before the sessions behind it; a
second tab freezes the session of a tab that records on; a crash before `beginGenerationAttempt` leaves a running job
that no pass looks for; a failed read for the opening is swallowed; a mid job that is abandoned before its commit keeps a frozen
checkpoint.

## Proofs

Every theorem holds for all values of the constants under the named assumptions of its module or its statement, which say no more than that bounds
are naturals, that names that stand for "none" are no members of the sets they are used beside, that kinds of
requests or jobs do not overlap, and for the maintainer that a scan's order holds every session;
only `OneTab` says more, and it is named where it is used. No theorem assumes fairness, and none that
a set is finite.

**InterviewSession.** Each safety invariant and action property of `interview_session` and the refinement of
`EvidenceCustody`. The properties are not inductive by themselves. `Inv` adds to `TypeOK`: when the first
generation and the audio object begin and end (`StartInv`); that a started session's project is
active or restricted (`GateInv`), without which a confirmation could start to record
in a draft project; that every generation but the latest is interrupted and a live one belongs
to a session that streams or is interrupted (`CaptureInv`); that a finalization row and the session status agree, that a
processing session's manifest matches and that an advance runs only for a frozen
session (`FinalInv`), without which the second transaction of an advance could complete anything; and the
evidence invariants themselves, with the fact that a frame whose acknowledgement is owed or was given has left first
PCM evidence, which is all abandonEmpty can see of it (`EvidenceInv`, `FrameEvidence`). `InvStep` has one step per action and under it
one per conjunct the action disturbs. `CustodyStep` maps each step to a custody step or a stutter.

**MemoryMaintainer.** What a step may do to the jobs that exist (`Evolve`: they only gain an outcome once), what is true
of a job as long as it exists (`JobInv`: one live attempt per trigger, numbered without a gap, with the input of the first),
what is consumed (`ConsumptionInv`), and what a run in memory may rely on at each stage (`RunInv`, `OwnJob`: the job it
froze is still its own). A crash loses the last part and none of the others. Theorems: `OneLiveJob`, `RetriesKeepInput`,
`ExactConsumption`, `TrueTraces`, `OutcomesAreFinal`, `FreshSuccess`.

**AudioDelivery.** Three arguments. Delivery (`DeliveryInv`): whatever copy of a chunk or its request id exists, in a
run, on the wire or at the server, is the one that archive and job hold, and after the deletion the one the server
holds; from it `ChunksAreKept` and `OneRequest`. Recording (`CustodyInv`, as long as no capture failed): the one recorder that is not done holds the lock and
numbers its chunks from the end of the archive; from it `SingleRecorder`. The hypothesis is the code's: a core that fails slowly does
free a lock its page holds for the next recorder. One tab (`TabInv`, under the hypothesis `OneTab` of the two theorems it serves): the archive is
read and the job frozen when nobody is live any more (`FreezeInv`); recorders start one after the other and only the last can be
stopping (`OrderInv`, `StoppingInv`); every number it took is archived or in its chain unless a write failed (`TakenInv`), which is
what the clean checkpoint of its close relies on (`CleanInv`). Theorems: `FrozenJobIsWhole`, `CleanCheckpointIsWritten`. With two tabs both
properties are false: an ending asks for no lock, and a hazard of `PROJECT.json` says so.

**RealtimeStream.** The log of a runtime only grows and what is under way to the page is copied from it (`LogsOK`,
`DownOK`), a runtime is made once, by the one join of the connection it is named after (`ConnOK`, `LanesOK`, `TaskOK`), and
what the page applied is a prefix (`PageOK`). `StepKeeps` states once what a step owes these. Theorems: `SeenIsThePrefix`, `AcknowledgedIsFed`.

**AsrAttempts.** At most one attempt is current, and it is the one the runtime is bound to (`CurrentOK`), so what passes the
two checks of a result is stored and published (`ResultsOK`). Frames keep their order on the way through queue and sender
(`FramesOK`): what was not sent when an attempt ends is exactly what is above the last frame it sent, and becomes gaps; the session
that replaces another inherits its gaps (`AccountedFor`). Only one attempt is ever ending, and one begun after the drain
takes nothing (`EndingOK`), which is why the receipt of a drain speaks of everything. The hypothesis `AsrNumbers` is that
opens and attempts are counted from 1. Theorems: `AccountsForEveryFrame`, `DrainsWhatItIngested`.

**SpeakerRoles.** No segment is ahead of the session's revision (`NothingAhead`), segment ids are used in the order they are
drawn (`UsedInOrder`), so a new segment takes none that exists or was shown, and what the page shows at a
revision is what the segment had at it (`ReaderOK`). The hypothesis `DistinctIds` is that drawn ids differ and that there is at
least one voice. Theorems: `SingleCorrectionStands`, `ShownStaysCurrent`.

**MemoryLayers.** The rows of a slot are one chain (`History`), each with the job that wrote it (`Writers`), and a job is
whole or nothing (`JobInv`). Theorems: `SlotsAreChains`, `CommitsAreWhole`, `LongFollowsMid`, `EndsAreFinal`.

**MemoryGate.** A row cites segments, and the evidence of a source is of the revision every consolidation cites
(`CitesEvidence`); what a job froze is segments at a revision they had (`JobSound`). A commit compares these
revisions with the present ones, so what it cites is the present revision and the role it looks at is the present
role. Theorems: `SourcesHaveOneRevision`, `ElderStandsBehind`. The one hypothesis, `ToldSegments`, is that rows of before the gate
name segments.

**DirectorContext.** What is asked of a generation is decided when it freezes: `WorldOK` says that a question's evidence
was said in its session, `SnapshotOK` and `AttemptOK` that what was listed for a scope is covered by what is frozen for
it. Theorems: `InScopeEvidence` (a context is refused for want of evidence only because of a question of another
scope), `OneVersion`, `ResultStays`.

**QuestionRuntime.** One predicate on the three rows of a request (`RowsInv`) that no run, repair or crash breaks (a trace that differs from its attempt says failed, and its repair is due or lost), what a run
knows at each step (`RunInv`), the bound on its calls (`CountInv`) and which requests cannot exist yet (`UndrainedInv`). Theorems:
`OnePublication`, `Covered`, `TracesAgree`, `EndTogether`, `NoAutomaticOvertakes`.

**PostSession.** Work on an opening begins when every lane is over, and a lane that is over does not change: what a process read of the
lanes, and what a context froze of them, is what they ended with (`WorkOK`, `ContextOK`, `AttemptsOK`). Theorems: `OpenedOnce`,
`AnalysesComeFirst`, `OutcomesAreKept`.

**NextSession.** Sessions follow each other: all but the last are completed, each has a number of its own
(`FollowEachOther`), and a stored answer names the one session its request made (`AnswerOK`). The decision allows a further
session only after a completed one that is the last of all (`EligibleFollows`), which is the fact the steps rest on.
Theorems: `OneSessionOpen`, `OnePerRequest`, `AnswersAreKept`.

**NewInterview.** Each request id is drawn for one purpose (a project, the session of one project, a consent or its audio), and
everything that carries it, a stored workflow, a page's copy, a call under way or a thing at the server, is of that
purpose: `EntryInv` says that there is such an assignment and what follows for each of them (`Core`). So a start
names a session of the project its page was shown, and neither a lost nor a repeated nor a late call can turn into a start of
another. The hypothesis `EntryBounds` is that the bounds are naturals. Theorems: `DiscardedStaysUnrecorded`,
`FirstSessionIsOne`, `RequestsMakeOneThing`.

Three attempts failed for a good reason and changed a model. `OneRequest` could not be proved while a run of the delivery looked its
chunk up again; in the code it carries what it read, and so does the model now. A late upload after a deletion by another tab
is possible, so `DeliveryInv` speaks of the server's rows once the archive is gone (`Held`). The confirmation of a join
asks for access a second time, which the proof of `TaskOK` brought out and the model had left out.

Model-checked only:

* liveness, which is out of the prover's reach: `FrozenCompletes`, `JobsEnd`, `FrozenIsCompleted`, `EverythingEnds`;
* what a recursive definition computes: `DistanceIsShortest`, `SelectedIsLongestPrefix`.

## Not modelled, and the plan

`PROJECT.json` lists every component with what is left out of it. Without a module are the question bank (import and
publication of versions by one administrator), output eligibility and retention (a sweep by age, a filter of reads),
authentication (single row updates and clocks), HTTP, logging, CLI and database access, contracts and configuration, and the development
dispatcher. Parts of modelled components left out on purpose are the adoption, skip and rewording of questions, the content of
memory plans and the migration of old rows, commands of the capture controller other than its ending, pause of the realtime
path, and the wording rules of the memory gate.

Every other invariant and action property of the runs is stated by a theorem. `FrozenIsWhole` and
`CleanMeansWritten` can be extended to several tabs, and `OneRecorder` to captures that fail, only once the code itself holds the
lock there: an ending would have to ask for it, and a failing core to keep it until its recorder is done.
