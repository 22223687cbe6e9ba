--------------------------- MODULE MemoryMaintainer ---------------------------
(***************************************************************************)
(* The working memory maintainer (P1) and the AI job coordinator it runs   *)
(* on.  A worker is one API process: it selects a batch of unconsumed      *)
(* segments of a session, freezes a job for it, calls the provider twice   *)
(* at most and writes back, each in a transaction of its own with nothing  *)
(* locked in between.  A scan visits every session, retries what failed    *)
(* and terminalizes jobs that ran too long; Crash forgets a worker's runs  *)
(* and leaves its jobs running in the database.                            *)
(*                                                                         *)
(* A session has a project of its own; what other sessions of a project do *)
(* to the shared working memory is SupersedeMemory.  Nothing in the code   *)
(* changes a segment's text, so a batch is identified by its segments.     *)
(* A segment is one unit of useful characters.                             *)
(***************************************************************************)
EXTENDS Integers, Sequences, FiniteSets

CONSTANTS
  Workers,         \* API processes
  Sessions,        \* interview sessions
  ScanOrder,       \* the sessions in the order a scan reads them
  MaxSegments,     \* bound: segments of a session are 1 .. MaxSegments
  MaxBatch,        \* MAX_CONTEXT_SEGMENTS - overlapSegments
  BatchThreshold,  \* batchThreshold
  MinUseful,       \* minimumUsefulCharacters
  MaxDrift,        \* bound: role corrections, calibrations and later consents of a session
  MaxHistory,      \* bound: segments of a session and versions of its working memory together
  MaxJobs,         \* bound: jobs
  MaxReconciled,   \* bound: traces closed by the reconciliation of running traces
  MaxCrashes       \* bound: crashes of workers

ASSUME ScanAssumption ==
  /\ ScanOrder \in Seq(Sessions)
  /\ \A s \in Sessions : \E k \in 1 .. Len(ScanOrder) : ScanOrder[k] = s
ASSUME MaintainerBounds ==
  /\ {MaxSegments, MaxBatch, BatchThreshold, MinUseful} \subseteq Nat \ {0}
  /\ {MaxDrift, MaxHistory, MaxJobs, MaxReconciled, MaxCrashes} \subseteq Nat

VARIABLES
  arrived,     \* conversation segments of a session
  elder,       \* role revision at which a segment is trusted elder, -1 if it is not
  roleRev,     \* interview_session.speakerRoleRevision
  aged,        \* segments older than timeThresholdMs
  closed,      \* the session is completed
  consumedBy,  \* memory_working_consumption: the job that consumed a segment, 0 for none
  allowed,     \* AiPolicyService.assertAllowed accepts the session's project
  policyRev,   \* elder_project.aiPolicyRevision
  memory,      \* version of the current working resolutions, 0 while there are none
  jobs,        \* ai_job rows with their decision trace, in the order of creation
  run,         \* in memory: the reconcile of a session in a worker (active map)
  scan,        \* in memory: the scan of a worker
  crashes      \* crashes so far (bound)

sourceVars == <<arrived, elder, roleRev, aged, closed>>
policyVars == <<allowed, policyRev>>
workVars   == <<consumedBy, memory, jobs>>
vars == <<sourceVars, policyVars, workVars, run, scan, crashes>>

-----------------------------------------------------------------------------
(* Types *)

Segments == 1 .. MaxSegments
JobIds == 1 .. MaxJobs
Batches == SUBSET Segments

Live == {"running", "succeeded"}        \* with pending, which never outlives the freeze
JobStatus == {"running", "succeeded", "failed", "cancelled"}
FailureCode == {"none", "AI_POLICY_DRIFT", "AI_SESSION_WATERMARK_DRIFT", "AI_MEMORY_INPUT_DRIFT",
                "MEMORY_UNJUDGED", "FAILED"}
TraceStatus == {"running", "succeeded", "failed", "cancelled", "unavailable"}
Stage == {"idle", "select", "unjudged", "selected", "prepared", "frozen", "calling", "retrying",
          "answered", "closing"}

NoSource == [i \in {} |-> 0]

(* The stable identity of a job: the batch, and for a rebase the cancelled *)
(* job it follows and the memory it was rebased on; for an unjudged final  *)
(* flush the exact revisions it looked at.                                 *)
BatchTrigger(s, b) ==
  [session |-> s, batch |-> b, after |-> 0, memory |-> 0, source |-> NoSource, judged |-> TRUE]

Rebase(t, job, m) == [t EXCEPT !.after = job, !.memory = m]

UnjudgedTrigger(s, src) ==
  [session |-> s, batch |-> DOMAIN src, after |-> 0, memory |-> 0, source |-> src,
   judged |-> FALSE]

IdleRun == [stage |-> "idle", final |-> FALSE, trigger |-> BatchTrigger("none", {}), attempt |-> 0,
            memory |-> 0, job |-> 0, ok |-> TRUE]

IdleScan == [at |-> 0, joined |-> FALSE]
TraceStep == Len(ScanOrder) + 1

-----------------------------------------------------------------------------
Init ==
  /\ arrived = [s \in Sessions |-> 0]
  /\ elder = [s \in Sessions |-> [i \in Segments |-> -1]]
  /\ roleRev = [s \in Sessions |-> 0]
  /\ aged = [s \in Sessions |-> 0]
  /\ closed = [s \in Sessions |-> FALSE]
  /\ consumedBy = [s \in Sessions |-> [i \in Segments |-> 0]]
  /\ allowed = [s \in Sessions |-> TRUE]
  /\ policyRev = [s \in Sessions |-> 0]
  /\ memory = [s \in Sessions |-> 0]
  /\ jobs = <<>>
  /\ run = [w \in Workers |-> [s \in Sessions |-> IdleRun]]
  /\ scan = [w \in Workers |-> IdleScan]
  /\ crashes = 0

-----------------------------------------------------------------------------
(* What happens around the maintainer                                      *)

MoreHistory(s) == arrived[s] + memory[s] < MaxHistory

(* TranscriptIngestionService: a final conversation segment, whose role is *)
(* trusted when its speaker has been confirmed.                            *)
Arrive(s) ==
  /\ ~closed[s]
  /\ arrived[s] < MaxSegments /\ MoreHistory(s)
  /\ arrived' = [arrived EXCEPT ![s] = @ + 1]
  /\ \E r \in {-1, roleRev[s]} : elder' = [elder EXCEPT ![s][arrived[s] + 1] = r]
  /\ UNCHANGED <<roleRev, aged, closed, policyVars, workVars, run, scan, crashes>>

MayDrift(s) == roleRev[s] + policyRev[s] < MaxDrift

(* SpeakerCorrectionService.correctOne: to elder, or away from it *)
CorrectRole(s, i) ==
  /\ i <= arrived[s]
  /\ MayDrift(s)
  /\ roleRev' = [roleRev EXCEPT ![s] = @ + 1]
  /\ elder' = [elder EXCEPT ![s][i] = IF @ = -1 THEN roleRev[s] + 1 ELSE -1]
  /\ UNCHANGED <<arrived, aged, closed, policyVars, workVars, run, scan, crashes>>

(* SpeakerCalibrationService, action confirm: later segments are mapped *)
Calibrate(s) ==
  /\ ~closed[s]
  /\ MayDrift(s)
  /\ roleRev' = [roleRev EXCEPT ![s] = @ + 1]
  /\ UNCHANGED <<arrived, elder, aged, closed, policyVars, workVars, run, scan, crashes>>

(* The session completes; what has arrived is all there will be. *)
CompleteSession(s) ==
  /\ ~closed[s]
  /\ closed' = [closed EXCEPT ![s] = TRUE]
  /\ UNCHANGED <<arrived, elder, roleRev, aged, policyVars, workVars, run, scan, crashes>>

(* timeThresholdMs pass. *)
SegmentsAge(s) ==
  /\ aged[s] < arrived[s]
  /\ aged' = [aged EXCEPT ![s] = arrived[s]]
  /\ UNCHANGED <<arrived, elder, roleRev, closed, policyVars, workVars, run, scan, crashes>>

(* staleJobMs pass for a job that has not ended. *)
JobAges(j) ==
  /\ j <= Len(jobs)
  /\ jobs[j].status = "running" /\ ~jobs[j].overdue
  /\ jobs' = [jobs EXCEPT ![j].overdue = TRUE]
  /\ UNCHANGED <<sourceVars, policyVars, consumedBy, memory, run, scan, crashes>>

(* appendConsent and revokeConsent both take a policy revision; a revoked  *)
(* project stays restricted.                                               *)
ChangeConsent(s) ==
  /\ MayDrift(s)
  /\ policyRev' = [policyRev EXCEPT ![s] = @ + 1]
  /\ allowed' \in {allowed, [allowed EXCEPT ![s] = FALSE]}
  /\ UNCHANGED <<sourceVars, workVars, run, scan, crashes>>

(* A write back for another session of the project supersedes resolutions. *)
SupersedeMemory(s) ==
  /\ MoreHistory(s)
  /\ memory' = [memory EXCEPT ![s] = @ + 1]
  /\ UNCHANGED <<sourceVars, policyVars, consumedBy, jobs, run, scan, crashes>>

-----------------------------------------------------------------------------
(* Selection                                                               *)

Pending(s) == {i \in 1 .. arrived[s] : elder[s][i] # -1 /\ consumedBy[s][i] = 0}

(* The oldest pending segments, as many as fit into a context. *)
NewSegments(s) == {i \in Pending(s) : Cardinality({k \in Pending(s) : k <= i}) <= MaxBatch}

(* decideMemoryMaintainerTrigger gives a trigger kind. *)
TriggerReady(s, final) ==
  LET b == NewSegments(s) IN
  /\ Cardinality(b) >= MinUseful
  /\ \/ final
     \/ Cardinality(b) >= BatchThreshold
     \/ \E i \in b : i <= aged[s]

(* freezeUnjudgedSource and selectBatch read the same source. *)
Source(s) == [i \in NewSegments(s) |-> elder[s][i]]

(* terminalJobForSession finds a job. *)
LaneJobs(s) == {j \in 1 .. Len(jobs) : jobs[j].trigger.session = s}

-----------------------------------------------------------------------------
(* The in-memory run of a session: one at a time in a worker               *)

Put(w, s, r) == run' = [run EXCEPT ![w][s] = r]

(* The scan of w waits for the run of s. *)
Awaited(w, s) == scan[w].joined /\ ScanOrder[scan[w].at] = s

(* A run ends; when it threw, the scan that waits for it throws too. *)
Finish(w, s, ok) ==
  /\ Put(w, s, IdleRun)
  /\ scan' = IF ~Awaited(w, s) THEN scan
             ELSE IF ok /\ scan[w].at < Len(ScanOrder)
                    THEN [scan EXCEPT ![w] = [at |-> scan[w].at + 1, joined |-> FALSE]]
                    ELSE [scan EXCEPT ![w] = IdleScan]

Continue(w, s, r) == Put(w, s, r) /\ UNCHANGED scan

(* execute: a run that is active is joined, and its finalFlush stands. *)
Begin(w, s, final) ==
  /\ run[w][s].stage = "idle"
  /\ Continue(w, s, [IdleRun EXCEPT !.stage = "select", !.final = final])
  /\ UNCHANGED <<sourceVars, policyVars, workVars, crashes>>

(* wake, for a finalized segment *)
Wake(w, s) == arrived[s] > 0 /\ Begin(w, s, FALSE)

(* requestFinalFlush, from the lane of a completed session *)
RequestFinalFlush(w, s) == closed[s] /\ Begin(w, s, TRUE)

(* selectBatch, in one transaction *)
Select(w, s) ==
  /\ run[w][s].stage = "select"
  /\ CASE TriggerReady(s, run[w][s].final) ->
            Continue(w, s, [IdleRun EXCEPT !.stage = "selected",
                                           !.trigger = BatchTrigger(s, NewSegments(s))])
       [] ~TriggerReady(s, run[w][s].final) /\ run[w][s].final ->
            Continue(w, s, [IdleRun EXCEPT !.stage = "unjudged",
                                           !.trigger = UnjudgedTrigger(s, Source(s))])
       [] OTHER -> Finish(w, s, TRUE)
  /\ UNCHANGED <<sourceVars, policyVars, workVars, crashes>>

-----------------------------------------------------------------------------
(* The jobs                                                                *)

JobsOf(t) == {j \in 1 .. Len(jobs) : jobs[j].trigger = t}

(* The attempt of a trigger with the highest number, if there is any. *)
Latest(t) == {j \in JobsOf(t) : \A k \in JobsOf(t) : jobs[k].attempt <= jobs[j].attempt}

NewJob(t, attempt, m, status, code, trace) ==
  [trigger |-> t, attempt |-> attempt, memory |-> m, status |-> status, code |-> code,
   trace |-> trace, overdue |-> FALSE,
   policyRev |-> policyRev[t.session], roleRev |-> roleRev[t.session]]

Ended(j, status, code) == [jobs EXCEPT ![j].status = status, ![j].code = code]

(* ensureUnjudgedFinal, recordRejectedSystemJob and freezeUnjudgedSource *)
RecordUnjudged(w, s) ==
  LET t == run[w][s].trigger IN
  /\ run[w][s].stage = "unjudged"
  /\ IF \/ t.batch = {} /\ LaneJobs(s) # {}
        \/ JobsOf(t) # {}
       THEN Finish(w, s, TRUE) /\ UNCHANGED jobs
       ELSE IF t.source # Source(s) \/ Len(jobs) = MaxJobs
         THEN Finish(w, s, FALSE) /\ UNCHANGED jobs
         ELSE /\ jobs' = Append(jobs, NewJob(t, 1, 0, "cancelled", "MEMORY_UNJUDGED", "unavailable"))
              /\ Finish(w, s, TRUE)
  /\ UNCHANGED <<sourceVars, policyVars, consumedBy, memory, crashes>>

(* The trigger that comes after cancelled job k, rebased on the memory of  *)
(* now; job 0 stands for the batch itself.                                 *)
After(t, k, m) == IF k = 0 THEN t ELSE Rebase(t, k, m)

Drifted(j) == jobs[j].status = "cancelled" /\ jobs[j].code = "AI_MEMORY_INPUT_DRIFT"

(* The attempt after job k has drifted as well. *)
DriftedAfter(t, k, m) == {j \in Latest(After(t, k, m)) : j > k /\ Drifted(j)}

(* prepareAttempt follows the rebases of a batch from one drifted job to   *)
(* the next; these are the jobs it comes to.                               *)
RebaseChain(t, m) ==
  {k \in 0 .. Len(jobs) :
     \A C \in SUBSET (0 .. Len(jobs)) :
       0 \in C /\ (\A i \in C : DriftedAfter(t, i, m) \subseteq C) => k \in C}

RetryMemory_Current(j) == memory[jobs[j].trigger.session]

(* A retry freezes the memories of the attempt that failed. *)
RetryMemory(j) == jobs[j].memory

(* prepareAttempt: a first attempt of the trigger at the end of the chain, *)
(* or another one if its latest has failed.                                *)
Prepare(w, s) ==
  /\ run[w][s].stage = "selected"
  /\ \E k \in RebaseChain(run[w][s].trigger, memory[s]) :
       LET t == After(run[w][s].trigger, k, memory[s])
           prepared == [run[w][s] EXCEPT !.stage = "prepared", !.trigger = t]
       IN /\ DriftedAfter(run[w][s].trigger, k, memory[s]) = {}
          /\ \/ /\ JobsOf(t) = {}
                /\ Continue(w, s, [prepared EXCEPT !.attempt = 1, !.memory = memory[s]])
             \/ \E j \in Latest(t) :
                  IF jobs[j].status = "failed"
                    THEN Continue(w, s, [prepared EXCEPT !.attempt = jobs[j].attempt + 1,
                                                         !.memory = RetryMemory(j)])
                    ELSE Finish(w, s, TRUE)
  /\ UNCHANGED <<sourceVars, policyVars, workVars, crashes>>

(* A job of the trigger that is live, or that the same request created: it *)
(* is replayed, or found after AI_REQUEST_IDENTITY_CONFLICT.               *)
Replayed(r) ==
  \E j \in JobsOf(r.trigger) :
    \/ jobs[j].status \in Live
    \/ jobs[j].attempt = r.attempt /\ jobs[j].memory = r.memory

(* The frozen resolutions are still current. *)
MemoryCurrent(s, m) == m \in {0, memory[s]}

FollowsLatest_Unchecked(r) == TRUE

(* The request is unused: a first attempt has no predecessor, a retry      *)
(* follows the latest one.                                                 *)
FollowsLatest(r) == \A j \in JobsOf(r.trigger) : jobs[j].attempt < r.attempt

(* What freeze demands in its transaction besides: every segment is still  *)
(* trusted elder, every resolution still current.                          *)
FreezeAccepts(s, r) ==
  /\ FollowsLatest(r)
  /\ \A i \in r.trigger.batch : elder[s][i] # -1
  /\ MemoryCurrent(s, r.memory)
  /\ Len(jobs) < MaxJobs

(* freeze, with the memberships and the trace of afterFreeze.  A replay    *)
(* ends the run well, a refusal throws.                                    *)
FreezeJob(w, s) ==
  LET r == run[w][s] IN
  /\ r.stage = "prepared"
  /\ IF allowed[s] /\ ~Replayed(r) /\ FreezeAccepts(s, r)
       THEN /\ jobs' = Append(jobs, NewJob(r.trigger, r.attempt, r.memory, "running", "none",
                                           "running"))
            /\ Continue(w, s, [IdleRun EXCEPT !.stage = "frozen", !.job = Len(jobs) + 1])
       ELSE Finish(w, s, allowed[s] /\ Replayed(r)) /\ UNCHANGED jobs
  /\ UNCHANGED <<sourceVars, policyVars, consumedBy, memory, crashes>>

(* buildContext and attachReferences: a resolution superseded or a trace   *)
(* closed by now throws, outside of the try that would close the job.      *)
BuildContext(w, s) ==
  LET r == run[w][s] IN
  /\ r.stage = "frozen"
  /\ IF MemoryCurrent(s, jobs[r.job].memory) /\ jobs[r.job].trace = "running"
       THEN Continue(w, s, [r EXCEPT !.stage = "calling"])
       ELSE Finish(w, s, FALSE)
  /\ UNCHANGED <<sourceVars, policyVars, workVars, crashes>>

Close(w, s, ok) == Continue(w, s, [run[w][s] EXCEPT !.stage = "closing", !.ok = ok])

EndIfRunning(j, status, code) ==
  IF jobs[j].status = "running" THEN Ended(j, status, code) ELSE jobs

(* callProviderWithSameInputRetry: the policy is asked before each of the  *)
(* two calls; without an answer in time the job fails.                     *)
CallProvider(w, s) ==
  LET r == run[w][s] IN
  /\ r.stage \in {"calling", "retrying"}
  /\ \/ /\ allowed[s]
        /\ Continue(w, s, [r EXCEPT !.stage = "answered"])
        /\ UNCHANGED jobs
     \/ /\ allowed[s] /\ r.stage = "calling"
        /\ Continue(w, s, [r EXCEPT !.stage = "retrying"])
        /\ UNCHANGED jobs
     \/ /\ ~allowed[s]
        /\ jobs' = EndIfRunning(r.job, "cancelled", "AI_POLICY_DRIFT")
        /\ Close(w, s, FALSE)
     \/ /\ r.stage = "retrying"
        /\ jobs' = EndIfRunning(r.job, "failed", "FAILED")
        /\ Close(w, s, FALSE)
  /\ UNCHANGED <<sourceVars, policyVars, consumedBy, memory, crashes>>

PolicyDrift(s, j) == ~allowed[s] \/ policyRev[s] # jobs[j].policyRev

Drift_NoMemory(s, j) ==
  IF PolicyDrift(s, j) THEN "AI_POLICY_DRIFT"
  ELSE IF roleRev[s] # jobs[j].roleRev THEN "AI_SESSION_WATERMARK_DRIFT"
  ELSE "none"

(* findDrift for a running job; a change of a segment's role is a change   *)
(* of the session's role revision too.                                     *)
Drift(s, j) ==
  IF PolicyDrift(s, j) THEN "AI_POLICY_DRIFT"
  ELSE IF roleRev[s] # jobs[j].roleRev THEN "AI_SESSION_WATERMARK_DRIFT"
  ELSE IF ~MemoryCurrent(s, jobs[j].memory) THEN "AI_MEMORY_INPUT_DRIFT"
  ELSE "none"

Consume_Overwrites(s, j) ==
  consumedBy' = [consumedBy EXCEPT ![s] =
                   [i \in Segments |-> IF i \in jobs[j].trigger.batch THEN j ELSE @[i]]]

(* commitSnapshot: the unique index on the segment refuses a second        *)
(* consumption, and with it the whole write back.                          *)
Consume(s, j) ==
  /\ \A i \in jobs[j].trigger.batch : consumedBy[s][i] = 0
  /\ consumedBy' = [consumedBy EXCEPT ![s] =
                      [i \in Segments |-> IF i \in jobs[j].trigger.batch THEN j ELSE @[i]]]

Open_Always(j) == TRUE

(* Nothing has ended the job during its calls. *)
Open(j) == jobs[j].status = "running"

(* writeBack: nothing but a terminal job when it has drifted, everything   *)
(* or nothing otherwise; validation, gates and CAS may refuse the output.  *)
WriteBack(w, s) ==
  LET j == run[w][s].job IN
  /\ run[w][s].stage = "answered"
  /\ \/ /\ ~Open(j) \/ Drift(s, j) # "none"
        /\ jobs' = EndIfRunning(j, "cancelled", Drift(s, j))
        /\ Close(w, s, FALSE)
        /\ UNCHANGED <<consumedBy, memory>>
     \/ /\ Open(j) /\ Drift(s, j) = "none"
        /\ jobs' = Ended(j, "failed", "FAILED")
        /\ Close(w, s, FALSE)
        /\ UNCHANGED <<consumedBy, memory>>
     \/ /\ Open(j) /\ Drift(s, j) = "none"
        /\ Consume(s, j)
        /\ \E m \in {memory[s]} \cup IF MoreHistory(s) THEN {memory[s] + 1} ELSE {} :
             memory' = [memory EXCEPT ![s] = m]
        /\ jobs' = Ended(j, "succeeded", "none")
        /\ Close(w, s, TRUE)
  /\ UNCHANGED <<sourceVars, policyVars, crashes>>

(* The trace is finalized unless it has been closed already; then the run  *)
(* throws, and leaves trace and job as they are.                           *)
CloseTrace(w, s) ==
  LET r == run[w][s] IN
  /\ r.stage = "closing"
  /\ IF jobs[r.job].trace = "running"
       THEN /\ jobs' = [jobs EXCEPT ![r.job].trace = IF r.ok THEN "succeeded" ELSE "failed"]
            /\ Finish(w, s, r.ok)
       ELSE Finish(w, s, FALSE) /\ UNCHANGED jobs
  /\ UNCHANGED <<sourceVars, policyVars, consumedBy, memory, crashes>>

-----------------------------------------------------------------------------
(* The scan of a worker, at startup and every scanIntervalMs               *)

StaleJobs_AnyStatus == {j \in 1 .. Len(jobs) : jobs[j].overdue}

StaleJobs_FirstAttempts ==
  {j \in 1 .. Len(jobs) : jobs[j].overdue /\ jobs[j].status = "running" /\ jobs[j].attempt = 1}

(* What terminalizeStaleJobs finds *)
StaleJobs == {j \in 1 .. Len(jobs) : jobs[j].overdue /\ jobs[j].status = "running"}

(* reconcileAll begins with terminalizeStaleJobs. *)
ScanStart(w) ==
  /\ scan[w].at = 0
  /\ jobs' = [j \in 1 .. Len(jobs) |->
                IF j \in StaleJobs THEN [jobs[j] EXCEPT !.status = "failed", !.code = "FAILED"]
                ELSE jobs[j]]
  /\ scan' = [scan EXCEPT ![w] = [at |-> TraceStep, joined |-> FALSE]]
  /\ UNCHANGED <<sourceVars, policyVars, consumedBy, memory, run, crashes>>

(* memoryTraceTerminalProjection *)
Projection(j) ==
  IF jobs[j].trace # "running" \/ jobs[j].status = "running" THEN jobs[j].trace
  ELSE IF jobs[j].code = "MEMORY_UNJUDGED" THEN "unavailable"
  ELSE jobs[j].status

(* reconcileMemoryDecisionTraces; a job and its trace begin together, so   *)
(* its repairs of a missing trace are for older rows only.                 *)
ScanTraces(w) ==
  /\ scan[w].at = TraceStep
  /\ jobs' = [j \in 1 .. Len(jobs) |-> [jobs[j] EXCEPT !.trace = Projection(j)]]
  /\ scan' = [scan EXCEPT ![w] = [at |-> 1, joined |-> FALSE]]
  /\ UNCHANGED <<sourceVars, policyVars, consumedBy, memory, run, crashes>>

ReconciledTraces ==
  {j \in 1 .. Len(jobs) : jobs[j].trace = "unavailable" /\ jobs[j].code # "MEMORY_UNJUDGED"}

(* DecisionTraceService.reconcileRunning, in any process, at startup and   *)
(* every 30 s: a trace that has been running for longer than 30 s and      *)
(* belongs to no question attempt is closed as unavailable, whatever its   *)
(* job is doing.  Those 30 s may have passed whenever a trace is running;  *)
(* each trace is a transaction of its own.                                 *)
ReconcileRunning(j) ==
  /\ j <= Len(jobs)
  /\ jobs[j].trace = "running"
  /\ Cardinality(ReconciledTraces) < MaxReconciled
  /\ jobs' = [jobs EXCEPT ![j].trace = "unavailable"]
  /\ UNCHANGED <<sourceVars, policyVars, consumedBy, memory, run, scan, crashes>>

(* The next session of the scan: its run is started, or joined when one is *)
(* active already.                                                         *)
ScanVisit(w) ==
  /\ scan[w].at \in 1 .. Len(ScanOrder) /\ ~scan[w].joined
  /\ LET s == ScanOrder[scan[w].at] IN
     /\ scan' = [scan EXCEPT ![w].joined = TRUE]
     /\ IF run[w][s].stage = "idle"
          THEN Put(w, s, [IdleRun EXCEPT !.stage = "select"])
          ELSE UNCHANGED run
  /\ UNCHANGED <<sourceVars, policyVars, workVars, crashes>>

(* A worker dies with its runs and its scan. *)
Crash(w) ==
  /\ crashes < MaxCrashes
  /\ crashes' = crashes + 1
  /\ run' = [run EXCEPT ![w] = [s \in Sessions |-> IdleRun]]
  /\ scan' = [scan EXCEPT ![w] = IdleScan]
  /\ UNCHANGED <<sourceVars, policyVars, workVars>>

-----------------------------------------------------------------------------
RunStep(w, s) ==
  \/ Select(w, s)
  \/ RecordUnjudged(w, s)
  \/ Prepare(w, s)
  \/ FreezeJob(w, s)
  \/ BuildContext(w, s)
  \/ CallProvider(w, s)
  \/ WriteBack(w, s)
  \/ CloseTrace(w, s)

ScanStep(w) == ScanStart(w) \/ ScanTraces(w) \/ ScanVisit(w)

Environment ==
  \/ \E s \in Sessions :
       \/ Arrive(s) \/ Calibrate(s) \/ CompleteSession(s) \/ SegmentsAge(s)
       \/ ChangeConsent(s) \/ SupersedeMemory(s)
       \/ \E i \in Segments : CorrectRole(s, i)
  \/ \E j \in JobIds : JobAges(j)

Next ==
  \/ \E w \in Workers, s \in Sessions : RunStep(w, s) \/ Wake(w, s) \/ RequestFinalFlush(w, s)
  \/ \E w \in Workers : ScanStep(w) \/ Crash(w)
  \/ \E j \in JobIds : ReconcileRunning(j)
  \/ Environment

Spec == Init /\ [][Next]_vars

(* Time passes, the timer of the scan keeps firing and a run that has begun *)
(* goes on.  Neither wakes nor the post-session lane are promised.         *)
Fairness ==
  /\ WF_vars(\E j \in JobIds : JobAges(j))
  /\ \A w \in Workers : WF_vars(ScanStep(w))
  /\ \A w \in Workers, s \in Sessions : WF_vars(RunStep(w, s))

FairSpec == Spec /\ Fairness

-----------------------------------------------------------------------------
(* Properties                                                              *)

Triggers == [session : Sessions \cup {"none"}, batch : Batches, after : 0 .. MaxJobs,
             memory : 0 .. MaxHistory, source : UNION {[b -> 0 .. MaxDrift] : b \in Batches},
             judged : BOOLEAN]

JobRecords == [trigger : Triggers, attempt : JobIds, memory : 0 .. MaxHistory,
               status : JobStatus, code : FailureCode, trace : TraceStatus, overdue : BOOLEAN,
               policyRev : 0 .. MaxDrift, roleRev : 0 .. MaxDrift]

RunRecords == [stage : Stage, final : BOOLEAN, trigger : Triggers, attempt : 0 .. MaxJobs + 1,
               memory : 0 .. MaxHistory, job : 0 .. MaxJobs, ok : BOOLEAN]

(* Every variable holds a value its column or field can hold. *)
TypeOK ==
  /\ arrived \in [Sessions -> 0 .. MaxSegments]
  /\ elder \in [Sessions -> [Segments -> -1 .. MaxDrift]]
  /\ roleRev \in [Sessions -> 0 .. MaxDrift]
  /\ aged \in [Sessions -> 0 .. MaxSegments]
  /\ closed \in [Sessions -> BOOLEAN]
  /\ consumedBy \in [Sessions -> [Segments -> 0 .. MaxJobs]]
  /\ allowed \in [Sessions -> BOOLEAN] /\ policyRev \in [Sessions -> 0 .. MaxDrift]
  /\ memory \in [Sessions -> 0 .. MaxHistory]
  /\ jobs \in Seq(JobRecords)
  /\ Len(jobs) <= MaxJobs
  /\ run \in [Workers -> [Sessions -> RunRecords]]
  /\ scan \in [Workers -> [at : 0 .. TraceStep, joined : BOOLEAN]]
  /\ crashes \in 0 .. MaxCrashes

(* Whatever workers, retries and rebases do, a trigger has at most one job *)
(* that is running or has succeeded, and its attempts are numbered without *)
(* a gap, each but the last one failed (freeze, prepareAttempt; the index  *)
(* ai_job_working_memory_live_trigger_dedupe_key can never be hit).        *)
OneLiveJobPerTrigger ==
  \A j, k \in 1 .. Len(jobs) :
    j < k /\ jobs[j].trigger = jobs[k].trigger =>
      /\ jobs[j].status = "failed"
      /\ jobs[j].attempt < jobs[k].attempt
      /\ \E i \in 1 .. Len(jobs) :
           jobs[i].trigger = jobs[k].trigger /\ jobs[i].attempt = jobs[k].attempt - 1

(* A segment is consumed exactly by the one succeeded job that froze it    *)
(* (writeBack, commitSnapshot), however many batches it was selected for.  *)
ConsumedByItsJob ==
  /\ \A s \in Sessions, i \in Segments :
       consumedBy[s][i] # 0 =>
         /\ jobs[consumedBy[s][i]].status = "succeeded"
         /\ jobs[consumedBy[s][i]].trigger.session = s
         /\ i \in jobs[consumedBy[s][i]].trigger.batch
  /\ \A j \in 1 .. Len(jobs) :
       jobs[j].status = "succeeded" =>
         \A i \in jobs[j].trigger.batch : consumedBy[jobs[j].trigger.session][i] = j

(* All attempts of a trigger are given the same memories, so a retry       *)
(* answers the question the failed attempt was asked.                      *)
RetriesSameInput ==
  \A j, k \in 1 .. Len(jobs) :
    jobs[j].trigger = jobs[k].trigger => jobs[j].memory = jobs[k].memory

(* Whoever closes a decision trace, its run, a scan or the reconciliation  *)
(* of running traces, and however long ago the writer looked at the job: a *)
(* trace claims success only for a job that succeeded, and a failure only  *)
(* for a job that ended without success; of every other job it is still    *)
(* running or says that nothing is known.                                  *)
TraceTellsTheTruth ==
  \A j \in 1 .. Len(jobs) :
    /\ jobs[j].trace = "succeeded" => jobs[j].status = "succeeded"
    /\ jobs[j].trace \in {"failed", "cancelled"} => jobs[j].status \in {"failed", "cancelled"}

(* What memory-maintainer-runtime.test.ts:1120-1129 expects of a job that  *)
(* was frozen and left running: the scan that fails it as stale gives its  *)
(* trace, once it is closed, the verdict failed.                           *)
StaleTraceFails ==
  \A j \in 1 .. Len(jobs) :
    jobs[j].overdue /\ jobs[j].status = "failed" => jobs[j].trace \in {"running", "failed"}

(* A terminal job keeps its outcome and a finished trace its verdict: no   *)
(* late callback, retry or scan revives or rewrites it.                    *)
OutcomesStand ==
  [][\A j \in 1 .. Len(jobs) :
       /\ jobs[j].status # "running" => jobs'[j].status = jobs[j].status
       /\ jobs[j].trace # "running" => jobs'[j].trace = jobs[j].trace]_vars

(* A job succeeds only under the policy, the speaker roles and the memory  *)
(* it was frozen with, although all of them may change during its calls.   *)
SuccessIsFresh ==
  [][\A j \in 1 .. Len(jobs) :
       jobs[j].status = "running" /\ jobs'[j].status = "succeeded" =>
         LET s == jobs[j].trigger.session IN
         /\ allowed[s] /\ policyRev[s] = jobs[j].policyRev
         /\ roleRev[s] = jobs[j].roleRev
         /\ \A i \in jobs[j].trigger.batch : elder[s][i] # -1
         /\ MemoryCurrent(s, jobs[j].memory)]_vars

Running(j) == j <= Len(jobs) /\ jobs[j].status = "running"

(* A frozen job ends, whatever crashes, drifts or throws, and whoever has  *)
(* closed its trace: by its run, or as stale by a later scan.  A job runs  *)
(* once, so that time and again none is running says that each one ends.   *)
JobsEnd == []<>(\A j \in JobIds : ~Running(j))
=============================================================================
