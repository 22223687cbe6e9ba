--------------------------- MODULE QuestionRuntime ---------------------------
(***************************************************************************)
(* Question generation of one session: QuestionOrchestrationService runs   *)
(* an attempt, QuestionPresentationService owns what is displayed and      *)
(* DecisionTraceService keeps a trace per request and repairs what a run   *)
(* left behind.  Three kinds of request meet: an automatic one after new   *)
(* final segments, a manual one, and the opening of a second session.      *)
(* Each runs freeze, begin, context, provider, publish, trace as separate  *)
(* transactions, with nothing locked in between; a crash forgets the runs  *)
(* and the buffered segments.                                              *)
(*                                                                         *)
(* An automatic request is identified by the segments it drained; here by  *)
(* the newest of them.                                                     *)
(***************************************************************************)
EXTENDS Integers, FiniteSets

CONSTANTS
  MaxEvents,     \* bound: final segments, consent changes, crashes and failed calls together
  Manuals,       \* request ids of manual_next
  Openings,      \* request ids of second_session_opening
  MaxRuns        \* bound: requests with a job or an attempt

ASSUME QuestionBounds ==
  /\ {MaxEvents, MaxRuns} \subseteq Nat
  /\ Manuals \cap Openings = {}
  /\ (Manuals \cup Openings) \cap Nat = {}

VARIABLES
  segments,    \* final segments of the session so far
  policy,      \* assertAllowed: [allowed, rev]
  display,     \* question_display_state
  attempt,     \* question_generation_attempt by request
  job,         \* ai_job by request
  trace,       \* decision_trace by request
  buffered,    \* in memory: finalizedBuffer holds the newest segment
  timer,       \* in memory: a timer of scheduleAutomatic is armed
  run,         \* the run of a request: where it is, and what of its rows only it reads
  old,         \* requests past the age of recovery (30 s), hence past their deadline (8 s)
  torn,        \* history: requests closed as failed whose repair did not follow
  faults       \* crashes and failed calls so far (bound)

rowVars    == <<attempt, job, trace>>
bufferVars == <<buffered, timer>>
vars == <<segments, policy, display, rowVars, bufferVars, run, old, torn, faults>>

-----------------------------------------------------------------------------
(* Types *)

Segments == 1 .. MaxEvents
Requests == Segments \cup Manuals \cup Openings

Live == {"running"}
AttemptStatus == {"none", "running", "succeeded", "failed", "cancelled"}
Outcome == {"none", "published", "withheld", "stale_basis", "superseded_by_manual", "policy_blocked"}
JobStatus == {"none", "running", "succeeded", "failed"}
TraceStatus == {"none", "running", "succeeded", "stale", "cancelled", "failed"}
Step == {"idle", "frozen", "begun", "ready", "suggest", "listen", "committed",
         "unbuilt", "unmended", "broken", "closed", "report", "report_job"}

(* withheld: not_better, duplicate_filtered, not_applicable.  A job that   *)
(* was cancelled counts as failed, an unavailable trace too.               *)

(* mseq: the intent sequence a manual attempt took; basis: the revision a  *)
(* published attempt started from                                          *)
NoAttempt == [st |-> "none", mseq |-> 0, out |-> "none", basis |-> -1]

(* basis, mseq: manual intents at begin; seg, rev: the watermarks the job  *)
(* froze; calls: provider calls made                                       *)
NoRun == [at |-> "idle", basis |-> 0, mseq |-> 0, seg |-> 0, rev |-> 0, calls |-> 0]

Kind(r) == IF r \in Manuals THEN "manual" ELSE IF r \in Openings THEN "opening" ELSE "automatic"
MoreEvents == segments + policy.rev + faults < MaxEvents
InFlight == \E r \in Segments : run[r].at # "idle"

-----------------------------------------------------------------------------
Init ==
  /\ segments = 0
  /\ policy = [allowed |-> TRUE, rev |-> 0]
  /\ display = [rev |-> 0, vis |-> "none", mseq |-> 0]
  /\ attempt = [r \in Requests |-> NoAttempt]
  /\ job = [r \in Requests |-> "none"]
  /\ trace = [r \in Requests |-> "none"]
  /\ buffered = FALSE
  /\ timer = FALSE
  /\ run = [r \in Requests |-> NoRun]
  /\ old = {}
  /\ torn = {}
  /\ faults = 0

-----------------------------------------------------------------------------
(* What happens around the runtime                                         *)

(* RealtimeRuntimeService.notifyFinalized: the segment is committed, then  *)
(* buffered, and the timer of the session is replaced.                     *)
SegmentFinal ==
  /\ MoreEvents
  /\ segments' = segments + 1
  /\ buffered' = TRUE
  /\ timer' = TRUE
  /\ UNCHANGED <<policy, display, rowVars, run, torn, faults>>

(* appendConsent and revokeConsent both count the policy revision. *)
ChangeConsent ==
  /\ MoreEvents
  /\ policy' = [allowed |-> ~policy.allowed, rev |-> policy.rev + 1]
  /\ UNCHANGED <<segments, display, rowVars, bufferVars, run, torn, faults>>

(* The catch blocks have closed the trace, or tried to, and have yet to    *)
(* repair the attempt.                                                     *)
Mending(r) == run[r].at \in {"unmended", "closed"}
Unmended(r) == Mending(r) /\ trace[r] = "failed"

(* Runs, buffer and timers are memory of the process. *)
Crash ==
  /\ MoreEvents
  /\ faults' = faults + 1
  /\ buffered' = FALSE
  /\ timer' = FALSE
  /\ run' = [r \in Requests |-> NoRun]
  /\ torn' = torn \cup {r \in Requests : Unmended(r)}
  /\ UNCHANGED <<segments, policy, display, rowVars>>

-----------------------------------------------------------------------------
(* The end of a run: runAutomatic's finally block re-arms the timer when   *)
(* segments arrived meanwhile.                                             *)

(* Mutant: nothing is armed for the segments that arrived meanwhile. *)
End_NoRearm(r) == run' = [run EXCEPT ![r] = NoRun] /\ UNCHANGED bufferVars

End(r) ==
  /\ run' = [run EXCEPT ![r] = NoRun]
  /\ IF r \in Segments
     THEN timer' = (timer \/ buffered) /\ UNCHANGED buffered
     ELSE UNCHANGED bufferVars

Goto(r, step) ==
  /\ run' = [run EXCEPT ![r].at = step]
  /\ UNCHANGED bufferVars

-----------------------------------------------------------------------------
(* Starting a run: the presentation is read, the input frozen.  Nothing    *)
(* between the two reads matters that does not also between freeze and     *)
(* begin.                                                                  *)

Started == {q \in Requests : job[q] # "none" \/ attempt[q].st # "none"}

Frozen(r) ==
  /\ Cardinality(Started) < MaxRuns
  /\ job' = [job EXCEPT ![r] = "running"]
  /\ run' = [run EXCEPT ![r] =
       [@ EXCEPT !.at = "frozen", !.basis = display.rev, !.seg = segments, !.rev = policy.rev]]

(* The timer fires while a run is in flight: runAutomatic returns. *)
TimerWhileBusy ==
  /\ timer /\ InFlight
  /\ timer' = FALSE
  /\ UNCHANGED <<segments, policy, display, rowVars, buffered, run, torn, faults>>

(* ... or finds nothing to do, or a session that is not recording (now) *)
RunAutomaticIdle ==
  /\ timer /\ ~InFlight
  /\ timer' = FALSE
  /\ buffered' = FALSE
  /\ UNCHANGED <<segments, policy, display, rowVars, run, torn, faults>>

(* runAutomatic drains the buffer and runs; within AUTO_MIN_INTERVAL_MS of *)
(* the last run it only arms its timer again.                              *)
RunAutomatic ==
  /\ timer /\ ~InFlight
  /\ buffered
  /\ buffered' = FALSE
  /\ timer' = FALSE
  /\ IF policy.allowed
     THEN Frozen(segments)
     ELSE UNCHANGED <<job, run>>
  /\ UNCHANGED <<segments, policy, display, attempt, trace, torn, faults>>

LiveOfKind(k) == {q \in Requests : attempt[q].st \in Live /\ Kind(q) = k}

CancelPendingAutomatic ==
  /\ timer' = FALSE
  /\ buffered' = FALSE

(* A preparation that fails before an attempt exists                       *)

Consumed == \E o \in Openings : attempt[o].st # "none"

FailLive(j) == IF j = "running" THEN "failed" ELSE j

Abandoned(a) == [a EXCEPT !.st = "failed", !.out = "policy_blocked"]

(* recordSystemUnavailableAttempt: an opening attempt of the session is    *)
(* taken for the answer, whatever kind the command has.                    *)
RecordUnavailable(r) ==
  IF attempt[r].st # "none" \/ Consumed
  THEN UNCHANGED <<attempt, job, trace>>
  ELSE /\ job' = [job EXCEPT ![r] = FailLive(@)]
       /\ attempt' = [attempt EXCEPT ![r] = Abandoned(@)]
       /\ trace' = [trace EXCEPT ![r] = "running"]

(* coordinator.freeze throws for a blocked policy; it replays the job of a *)
(* run that crashed before its attempt, and the failure is recorded.       *)
Replays(r) == job[r] # "none"

Prepare(r) ==
  CASE ~policy.allowed -> UNCHANGED <<rowVars, run>>
    [] policy.allowed /\ ~Replays(r) -> Frozen(r) /\ UNCHANGED <<attempt, trace>>
    [] OTHER -> RecordUnavailable(r) /\ UNCHANGED run

(* requestManualNext, past assertManualAvailability (a refusal leaves only *)
(* a throttle record, which refuses the request for good): it drops the    *)
(* pending automatic run with the segments it was to use.                  *)
RequestManual(r) ==
  /\ run[r].at = "idle"
  /\ attempt[r].st = "none"
  /\ LiveOfKind("manual") = {}
  /\ CancelPendingAutomatic
  /\ Prepare(r)
  /\ UNCHANGED <<segments, policy, display, torn, faults>>

(* The same request again, when its attempt exists: nothing but the buffer *)
(* changes.                                                                *)
RepeatManual(r) ==
  /\ attempt[r].st # "none"
  /\ CancelPendingAutomatic
  /\ UNCHANGED <<segments, policy, display, rowVars, run, torn, faults>>

(* requestSecondSessionOpening: PostSessionCoordinationService calls it    *)
(* once for a job, and records a failure of its own for a job left behind. *)
RequestOpening(r) ==
  /\ run[r].at = "idle"
  /\ attempt[r].st = "none"
  /\ job[r] = "none"
  /\ Prepare(r)
  /\ UNCHANGED <<segments, policy, display, bufferVars, torn, faults>>

(* recordSecondSessionOpeningUnavailable: a rejected job, a failed attempt *)
(* and its closed trace                                                    *)
OpeningUnavailable(r) ==
  /\ run[r].at = "idle"
  /\ Cardinality(Started) < MaxRuns
  /\ attempt[r].st = "none"
  /\ job[r] # "running"
  /\ job' = [job EXCEPT ![r] = IF @ = "none" THEN "failed" ELSE @]
  /\ attempt' = [attempt EXCEPT ![r] = Abandoned(@)]
  /\ trace' = [trace EXCEPT ![r] = "failed"]
  /\ UNCHANGED <<segments, policy, display, bufferVars, run, torn, faults>>

(* journey or question bank throws after the freeze *)
PrepareFails(r) ==
  /\ run[r].at = "frozen"
  /\ RecordUnavailable(r)
  /\ End(r)
  /\ UNCHANGED <<segments, policy, display, torn, faults>>

-----------------------------------------------------------------------------
(* beginGenerationAttempt                                                  *)

(* Another manual attempt is less than MANUAL_MIN_INTERVAL_MS old. *)
MayBeTooSoon(r) == r \in Manuals /\ \E m \in Manuals : attempt[m].st # "none"

MayBegin(r) ==
  /\ ~(r \in Openings /\ Consumed)
  /\ policy.allowed
  /\ run[r].basis = display.rev
  /\ LiveOfKind(Kind(r)) = {}

(* createDecisionTraceForAttempt, in the same transaction *)
OpenTrace(r) == trace' = [trace EXCEPT ![r] = "running"]

Begin(r) ==
  /\ run[r].at = "frozen"
  /\ MayBegin(r)
  /\ LET m == IF r \in Manuals THEN display.mseq + 1 ELSE display.mseq
     IN /\ attempt' = [attempt EXCEPT ![r].st = "running",
                                      ![r].mseq = IF r \in Manuals THEN m ELSE 0]
        /\ display' = [display EXCEPT !.mseq = m]
        /\ run' = [run EXCEPT ![r].at = "begun", ![r].mseq = m]
  /\ OpenTrace(r)
  /\ UNCHANGED <<segments, policy, job, bufferVars, torn, faults>>

(* The conflict is thrown after discardUncalledJob. *)
BeginRefused(r) ==
  /\ run[r].at = "frozen"
  /\ ~MayBegin(r) \/ MayBeTooSoon(r)
  /\ job' = [job EXCEPT ![r] = IF @ = "running" THEN "none" ELSE @]
  /\ End(r)
  /\ UNCHANGED <<segments, policy, display, attempt, trace, torn, faults>>

-----------------------------------------------------------------------------
(* Context and provider; a run may find its eight seconds over at each of  *)
(* its steps, and does once its request is old.                            *)

(* evaluate: ask a director, or listen without one *)
JourneyDecides == {"ready", "listen"}

(* attachReferences, then the deadline *)
ContextFreezes(r) == trace[r] = "running" /\ r \notin old

BuildContext(r) ==
  /\ run[r].at = "begun"
  /\ ContextFreezes(r)
  /\ \E step \in JourneyDecides : Goto(r, step)
  /\ UNCHANGED <<segments, policy, display, rowVars, torn, faults>>

ContextFails(r) ==
  /\ run[r].at = "begun"
  /\ Goto(r, "unbuilt")
  /\ UNCHANGED <<segments, policy, display, rowVars, torn, faults>>

(* runQuestionDirectorEvidenceRound: the director answers, at once or after *)
(* one drilldown, or the round throws                                      *)
Answers == {"suggest", "listen", "fails"}

(* callProviderWithSameInputRetry: one of two calls *)
CallProvider(r) ==
  /\ run[r].at = "ready"
  /\ r \notin old
  /\ policy.allowed
  /\ \E answer \in Answers :
       LET n == run[r].calls + 1
           over == answer = "fails" /\ n = 2
       IN /\ job' = [job EXCEPT ![r] = IF over THEN FailLive(@) ELSE @]
          /\ run' = [run EXCEPT ![r].calls = n,
               ![r].at = IF answer # "fails" THEN answer ELSE IF over THEN "broken" ELSE "ready"]
  /\ UNCHANGED <<segments, policy, display, attempt, trace, bufferVars, torn, faults>>

(* no time left, or the policy turned before the call *)
ProviderRefused(r) ==
  /\ run[r].at = "ready"
  /\ job' = [job EXCEPT ![r] = FailLive(@)]
  /\ Goto(r, "broken")
  /\ UNCHANGED <<segments, policy, display, attempt, trace, torn, faults>>

-----------------------------------------------------------------------------
(* publishAttemptResult, inside coordinator.writeBack                      *)

Publishing(r) == run[r].at \in {"suggest", "listen"}

Drift(r) ==
  \/ job[r] # "running"
  \/ ~policy.allowed
  \/ policy.rev # run[r].rev
  \/ segments # run[r].seg

(* A drifted job is cancelled, a late one fails; the run throws. *)
PublishRefused(r) ==
  /\ Publishing(r)
  /\ job' = [job EXCEPT ![r] = FailLive(@)]
  /\ Goto(r, "broken")
  /\ UNCHANGED <<segments, policy, display, attempt, trace, torn, faults>>

MayWrite(r) ==
  /\ Publishing(r)
  /\ ~Drift(r)
  /\ r \notin old
  /\ attempt[r].st \in Live

(* Mutants: the fence forgets the manual intents, or the presentation. *)
Fence_NoIntent(r) == IF run[r].basis # display.rev THEN "stale_basis" ELSE "none"
Fence_NoBasis(r) ==
  IF r \in Segments /\ display.mseq # run[r].mseq THEN "superseded_by_manual" ELSE "none"

(* questionPublicationFence *)
Fence(r) ==
  IF r \in Segments /\ display.mseq # run[r].mseq THEN "superseded_by_manual"
  ELSE IF run[r].basis # display.rev THEN "stale_basis" ELSE "none"

Commit(r, status, outcome) ==
  /\ attempt' = [attempt EXCEPT ![r].st = status, ![r].out = outcome,
                                ![r].basis = IF outcome = "published" THEN run[r].basis ELSE @]
  /\ job' = [job EXCEPT ![r] = "succeeded"]
  /\ Goto(r, "committed")
  /\ UNCHANGED <<segments, policy, trace, torn, faults>>

PublishFenced(r) ==
  /\ MayWrite(r)
  /\ Fence(r) # "none"
  /\ Commit(r, "cancelled", Fence(r))
  /\ UNCHANGED display

(* canPublishCandidate: too similar to what was displayed or asked; for an *)
(* automatic candidate also too soon after, or no better than, the current *)
PublishGated(r) ==
  /\ MayWrite(r)
  /\ run[r].at = "suggest"
  /\ Fence(r) = "none"
  /\ Commit(r, "succeeded", "withheld")
  /\ UNCHANGED display

PublishCandidate(r) ==
  /\ MayWrite(r)
  /\ run[r].at = "suggest"
  /\ Fence(r) = "none"
  /\ display' = [display EXCEPT !.rev = @ + 1, !.vis = "visible"]
  /\ Commit(r, "succeeded", "published")

(* continue_listening: an automatic one leaves a visible question alone *)
PublishListening(r) ==
  /\ MayWrite(r)
  /\ run[r].at = "listen"
  /\ Fence(r) = "none"
  /\ IF r \in Segments /\ display.vis = "visible"
     THEN /\ Commit(r, "succeeded", "withheld")
          /\ UNCHANGED display
     ELSE /\ Commit(r, "succeeded", "published")
          /\ display' = [display EXCEPT !.rev = @ + 1, !.vis = "none"]

-----------------------------------------------------------------------------
(* Reading and withdrawing                                                 *)

(* currentByActorId, for a client or at the end of publishAttemptResult:   *)
(* the policy is read first, and withdrawPresentation does not read it     *)
(* again.  A slow reader may have seen any earlier revocation.  The row    *)
(* exists since the first attempt.                                         *)
Withdraw ==
  /\ policy.rev > 0
  /\ \E r \in Requests : attempt[r].st # "none"
  /\ display.vis # "withdrawn"
  /\ display' = [display EXCEPT !.rev = @ + 1, !.vis = "withdrawn"]
  /\ UNCHANGED <<segments, policy, rowVars, bufferVars, run, torn, faults>>

-----------------------------------------------------------------------------
(* The decision trace                                                      *)

TerminalTrace(t) == t \notin {"none", "running"}

(* Mutant: a stale result counts as an answer. *)
StatusFor_StaleSucceeds(outcome) ==
  CASE outcome = "superseded_by_manual" -> "cancelled"
    [] outcome = "policy_blocked" -> "failed"
    [] OTHER -> "succeeded"

(* traceStatusForPublication *)
StatusFor(outcome) ==
  CASE outcome = "superseded_by_manual" -> "cancelled"
    [] outcome = "stale_basis" -> "stale"
    [] outcome = "policy_blocked" -> "failed"
    [] OTHER -> "succeeded"

(* finalize: only a running trace (the context is frozen by now) *)
Finalize(r) ==
  /\ run[r].at = "committed"
  /\ IF trace[r] = "running"
     THEN trace' = [trace EXCEPT ![r] = StatusFor(attempt[r].out)] /\ End(r)
     ELSE Goto(r, "broken") /\ UNCHANGED trace
  /\ UNCHANGED <<segments, policy, display, attempt, job, torn, faults>>

(* The presentation cannot be read, or the trace not written. *)
FinalizeFails(r) ==
  /\ run[r].at = "committed"
  /\ MoreEvents
  /\ faults' = faults + 1
  /\ Goto(r, "broken")
  /\ UNCHANGED <<segments, policy, display, rowVars, torn>>

(* terminalizeAttemptFromTrace *)
FromTrace(a, t) ==
  CASE t = "succeeded" -> [a EXCEPT !.st = "succeeded", !.out = "published"]
    [] t = "stale" ->
         [a EXCEPT !.st = "cancelled", !.out = "stale_basis"]
    [] t = "cancelled" ->
         [a EXCEPT !.st = "cancelled", !.out = "superseded_by_manual"]
    [] OTHER -> [a EXCEPT !.st = "failed", !.out = "policy_blocked"]

(* terminalizeRunningJobFromAttempt *)
JobFromAttempt(j, a) ==
  IF j = "running" /\ a.st \notin Live
  THEN IF a.st = "failed" THEN "failed" ELSE "succeeded"
  ELSE j

(* traceMatchesAttempt *)
Matches(t, a) ==
  CASE a.st = "succeeded" -> t = "succeeded"
    [] a.st = "cancelled" -> t = (IF a.out = "stale_basis" THEN "stale" ELSE "cancelled")
    [] a.st = "failed" -> t = "failed"
    [] OTHER -> t = "running"

(* traceStatusFromAttempt *)
TraceOf(a) ==
  CASE a.out = "stale_basis" -> "stale"
    [] a.out # "stale_basis" /\ a.st # "running" -> a.st
    [] OTHER -> "running"

(* recoverAttempt: a terminal trace ends a live attempt and its job; an    *)
(* attempt of 30 s fails; otherwise the trace follows the attempt.         *)
Rows(r) == [a |-> attempt[r], j |-> job[r], t |-> trace[r]]

Recovered(x, stuck) ==
  LET kept == TerminalTrace(x.t) /\ x.a.st \in Live
      a1 == IF kept THEN FromTrace(x.a, x.t) ELSE x.a
      j1 == IF TerminalTrace(x.t) THEN JobFromAttempt(x.j, a1) ELSE x.j
      settled == TerminalTrace(x.t) /\ ~kept /\ Matches(x.t, a1) /\ j1 # "running"
      stale == stuck /\ a1.st \in Live
      a2 == IF stale THEN Abandoned(a1) ELSE a1
      j2 == IF stale THEN FailLive(j1) ELSE j1
  IN [a |-> a2, j |-> j2, t |-> IF kept \/ settled THEN x.t ELSE TraceOf(a2)]

Write(r, x) ==
  /\ attempt' = [attempt EXCEPT ![r] = x.a]
  /\ job' = [job EXCEPT ![r] = x.j]
  /\ trace' = [trace EXCEPT ![r] = x.t]

(* The catch blocks of prepare and complete: finalize('failed'), then      *)
(* recoverAttempt, each a transaction whose error is swallowed.            *)
CloseFailedTrace(r) ==
  /\ run[r].at \in {"unbuilt", "broken"}
  /\ \/ /\ trace' = [trace EXCEPT ![r] = IF @ = "running" THEN "failed" ELSE @]
        /\ UNCHANGED faults
     \/ /\ MoreEvents
        /\ faults' = faults + 1
        /\ UNCHANGED trace
  /\ run' = [run EXCEPT ![r] =
       [NoRun EXCEPT !.at = IF run[r].at = "unbuilt" THEN "unmended" ELSE "closed"]]
  /\ UNCHANGED <<segments, policy, display, attempt, job, bufferVars, torn>>

(* Nobody reports for prepare, nor for an automatic run. *)
AfterRepair(r) ==
  IF run[r].at = "closed" /\ r \notin Segments THEN Goto(r, "report") ELSE End(r)

RepairAttempt(r) ==
  /\ Mending(r)
  /\ Write(r, Recovered(Rows(r), r \in old))
  /\ AfterRepair(r)
  /\ UNCHANGED <<segments, policy, display, torn, faults>>

RepairFails(r) ==
  /\ Mending(r)
  /\ MoreEvents
  /\ faults' = faults + 1
  /\ torn' = IF Unmended(r) THEN torn \cup {r} ELSE torn
  /\ AfterRepair(r)
  /\ UNCHANGED <<segments, policy, display, rowVars>>

(* failAttempt, after complete: the attempt, then its job.                 *)
FailAttempt(r) ==
  /\ run[r].at = "report"
  /\ attempt' = [attempt EXCEPT ![r] = IF @.st \in Live THEN Abandoned(@) ELSE @]
  /\ Goto(r, "report_job")
  /\ UNCHANGED <<segments, policy, display, job, trace, torn, faults>>

FailAttemptJob(r) ==
  /\ run[r].at = "report_job"
  /\ job' = [job EXCEPT ![r] = IF attempt[r].st \in {"failed", "cancelled"} THEN FailLive(@) ELSE @]
  /\ End(r)
  /\ UNCHANGED <<segments, policy, display, attempt, trace, torn, faults>>

ReportFails(r) ==
  /\ run[r].at \in {"report", "report_job"}
  /\ MoreEvents
  /\ faults' = faults + 1
  /\ End(r)
  /\ UNCHANGED <<segments, policy, display, rowVars, torn>>

(* reconcileMissingAttempts and reconcileRunning, at start and every 30 s *)
Reconcile(r) ==
  /\ attempt[r].st # "none"
  /\ r \in old
  /\ \/ trace[r] = "running"
     \/ TerminalTrace(trace[r]) /\ (attempt[r].st \in Live \/ job[r] = "running")
  /\ Write(r, Recovered(Rows(r), TRUE))
  /\ UNCHANGED <<segments, policy, display, bufferVars, run, torn, faults>>

(* failOrphanedSecondSessionOpening, from PostSessionCoordinationService:  *)
(* the job, then the attempt                                               *)
OrphanedJob(r) ==
  /\ attempt[r].st \in Live
  /\ r \in old
  /\ job' = [job EXCEPT ![r] = FailLive(@)]
  /\ UNCHANGED <<segments, policy, display, attempt, trace, bufferVars, run, torn, faults>>

OrphanedAttempt(r) ==
  /\ attempt[r].st \in Live
  /\ r \in old
  /\ job[r] # "running"
  /\ attempt' = [attempt EXCEPT ![r] = Abandoned(@)]
  /\ UNCHANGED <<segments, policy, display, job, trace, bufferVars, run, torn, faults>>

-----------------------------------------------------------------------------
(* Specification                                                           *)

StartStep == \/ RunAutomatic
             \/ TimerWhileBusy
             \/ RunAutomaticIdle
             \/ \E r \in Manuals : RequestManual(r) \/ RepeatManual(r)
             \/ \E r \in Openings : RequestOpening(r) \/ OpeningUnavailable(r)

PrepareStep(r) ==
  \/ PrepareFails(r) \/ Begin(r) \/ BeginRefused(r)
  \/ BuildContext(r) \/ ContextFails(r) \/ CallProvider(r) \/ ProviderRefused(r)

PublishStep(r) ==
  \/ PublishRefused(r) \/ PublishFenced(r) \/ PublishGated(r) \/ PublishCandidate(r)
  \/ PublishListening(r)

TraceStep(r) ==
  \/ Finalize(r) \/ FinalizeFails(r)
  \/ CloseFailedTrace(r) \/ RepairAttempt(r) \/ RepairFails(r)
  \/ FailAttempt(r) \/ FailAttemptJob(r) \/ ReportFails(r)

Around ==
  \/ SegmentFinal \/ ChangeConsent \/ Crash \/ Withdraw
  \/ \E r \in Requests : Reconcile(r)
  \/ \E r \in Openings : OrphanedJob(r) \/ OrphanedAttempt(r)

(* The age of a request that nothing waits for any more is forgotten. *)
Unsettled(r) ==
  \/ run[r].at # "idle"
  \/ attempt[r].st \in Live
  \/ attempt[r].st # "none" /\ job[r] = "running"
  \/ trace[r] = "running"

Forget == old' = {r \in old : Unsettled(r)'}

GetsOld(r) ==
  /\ attempt[r].st # "none"
  /\ Unsettled(r)
  /\ r \notin old
  /\ old' = old \cup {r}
  /\ UNCHANGED <<segments, policy, display, rowVars, bufferVars, run, torn, faults>>

Next ==
  \/ /\ \/ Around
        \/ StartStep
        \/ \E r \in Requests : PrepareStep(r) \/ PublishStep(r) \/ TraceStep(r)
     /\ Forget
  \/ \E r \in Requests : GetsOld(r)

Spec == Init /\ [][Next]_vars

-----------------------------------------------------------------------------
(* Properties                                                              *)

AttemptRecords == [st : AttemptStatus, mseq : Nat, out : Outcome, basis : Int]
RunRecords ==
  [at : Step, basis : Nat, mseq : Nat, seg : 0 .. MaxEvents, rev : 0 .. MaxEvents, calls : 0 .. 2]

TypeOK ==
  /\ segments \in 0 .. MaxEvents
  /\ policy \in [allowed : BOOLEAN, rev : 0 .. MaxEvents]
  /\ display \in [rev : Nat, vis : {"none", "visible", "withdrawn"}, mseq : Nat]
  /\ attempt \in [Requests -> AttemptRecords]
  /\ job \in [Requests -> JobStatus]
  /\ trace \in [Requests -> TraceStatus]
  /\ buffered \in BOOLEAN
  /\ timer \in BOOLEAN
  /\ run \in [Requests -> RunRecords]
  /\ old \subseteq Requests
  /\ torn \subseteq Requests
  /\ faults \in 0 .. MaxEvents

Published(r) == attempt[r].out = "published"

(* Two runs that started from the same presentation never both change it:  *)
(* of the runs that saw one display revision the first to publish wins.    *)
OnePublicationPerBasis ==
  \A r, q \in Requests :
    r # q /\ Published(r) /\ Published(q) => attempt[r].basis # attempt[q].basis

(* The attempt and its job agree: a job succeeded exactly when its attempt *)
(* answered or gave way to another one, between any two transactions of a  *)
(* run that fails and whoever repairs it.                                  *)
EndedTogether ==
  \A r \in Requests :
    (job[r] = "succeeded") <=> attempt[r].st \in {"succeeded", "cancelled"}

(* A closed trace says what became of its attempt.  It may only say less:  *)
(* that the request failed, between a failed close and the repair that     *)
(* follows it, or after a crash or an error in place of that repair.       *)
TraceAgrees ==
  \A r \in Requests :
    TerminalTrace(trace[r]) =>
      \/ Matches(trace[r], attempt[r])
      \/ trace[r] = "failed" /\ (Mending(r) \/ r \in torn)

(* Final segments that wait for an automatic question have a timer, or a   *)
(* run that will arm one.                                                  *)
BufferCovered == buffered => timer \/ InFlight

(* Once a manual request has begun, no automatic question begun before it  *)
(* reaches the display, even when the manual one fails.                    *)
NoOvertaking ==
  [][\A r \in Segments :
       Published(r)' /\ ~Published(r) =>
         \A m \in Manuals : attempt[m].mseq <= run[r].mseq]_vars
=============================================================================
