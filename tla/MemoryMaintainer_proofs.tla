----------------------- MODULE MemoryMaintainer_proofs -----------------------
(***************************************************************************)
(* Theorems about MemoryMaintainer for every set of workers and sessions,  *)
(* every threshold and every value of the bounds.  The argument has three  *)
(* parts: what a step may do to the jobs that exist (Evolve), what is true *)
(* of a job while it exists (JobInv), and what a run in memory knows of    *)
(* its batch and its job (RunInv, OwnJob).  A run in memory is lost by a   *)
(* crash; nothing a job promises depends on it.                            *)
(***************************************************************************)
EXTENDS MemoryMaintainer, TLAPS

(* What the run of a session may rely on at each of its stages. *)
WithBatch == {"unjudged", "selected", "prepared"}
AtWork    == {"frozen", "calling", "retrying", "answered"}
Holding   == AtWork \cup {"closing"}

(* A retry has a failed predecessor whose memory it takes over. *)
HasPredecessor(r) ==
  \E j \in JobsOf(r.trigger) :
    /\ jobs[j].status = "failed"
    /\ jobs[j].attempt = r.attempt - 1
    /\ jobs[j].memory = r.memory

RunOK(r, s) ==
  /\ r.stage \in WithBatch =>
       r.trigger.session = s /\ r.trigger.batch \subseteq 1 .. arrived[s]
  /\ r.stage = "prepared" =>
       r.attempt \in JobIds \cup {MaxJobs + 1} /\ (r.attempt = 1 \/ HasPredecessor(r))
  /\ r.stage \in Holding =>
       r.job \in 1 .. Len(jobs) /\ jobs[r.job].trigger.session = s
  /\ r.stage \in AtWork => jobs[r.job].status # "succeeded"
  /\ r.stage = "closing" =>
       jobs[r.job].status \in IF r.ok THEN {"succeeded"} ELSE {"failed", "cancelled"}

RunInv == \A w \in Workers, s \in Sessions : RunOK(run[w][s], s)

(* No two runs, of one worker or of two, hold the same job. *)
OwnJob ==
  \A v, w \in Workers, s, t \in Sessions :
    /\ run[v][s].stage \in Holding /\ run[w][t].stage \in Holding
    /\ run[v][s].job = run[w][t].job
    => v = w /\ s = t

(* A job is about segments that have arrived; while it runs and the roles  *)
(* of its session have not changed, they are trusted elder.                *)
JobOK(j) ==
  LET t == jobs[j].trigger IN
  /\ t.session \in Sessions
  /\ t.batch \subseteq 1 .. arrived[t.session]
  /\ jobs[j].attempt <= j
  /\ jobs[j].roleRev <= roleRev[t.session]
  /\ jobs[j].status = "running" /\ jobs[j].roleRev = roleRev[t.session] =>
       \A i \in t.batch : elder[t.session][i] # -1
  /\ jobs[j].code = "MEMORY_UNJUDGED" => jobs[j].status = "cancelled"

JobInv == \A j \in 1 .. Len(jobs) : JobOK(j)

(* A consumption names a job that exists. *)
ConsumptionInv ==
  \A s \in Sessions, i \in Segments : consumedBy[s][i] \in 0 .. Len(jobs)

Inv ==
  /\ TypeOK /\ JobInv /\ RunInv /\ OwnJob /\ ConsumptionInv
  /\ OneLiveJobPerTrigger /\ RetriesSameInput /\ ConsumedByItsJob /\ TraceTellsTheTruth

-----------------------------------------------------------------------------
(* What a step may do                                                      *)

(* What is frozen with a job *)
SameInput(e, d) ==
  /\ e.trigger = d.trigger /\ e.attempt = d.attempt /\ e.memory = d.memory
  /\ e.policyRev = d.policyRev /\ e.roleRev = d.roleRev

(* A job that exists keeps its identity and its frozen input; its outcome  *)
(* and its trace are written once.                                         *)
Keeps(j) ==
  /\ SameInput(jobs'[j], jobs[j])
  /\ jobs[j].status # "running" =>
       jobs'[j].status = jobs[j].status /\ jobs'[j].code = jobs[j].code
  /\ jobs'[j].code = "MEMORY_UNJUDGED" => jobs[j].code = "MEMORY_UNJUDGED"
  /\ jobs[j].trace # "running" => jobs'[j].trace = jobs[j].trace

Evolve ==
  /\ Len(jobs) <= Len(jobs')
  /\ \A j \in 1 .. Len(jobs) : Keeps(j)

(* Segments only arrive; a segment's role changes with the role revision.  *)
SourceMoves ==
  \A s \in Sessions :
    /\ arrived[s] <= arrived'[s] /\ roleRev[s] <= roleRev'[s]
    /\ roleRev'[s] = roleRev[s] => \A i \in 1 .. arrived[s] : elder'[s][i] = elder[s][i]

-----------------------------------------------------------------------------
(* Lemmas about the operators                                              *)

(* The run that waits for nothing is a run. *)
LEMMA IdleRunType == IdleRun \in RunRecords
<1>1. NoSource \in [{} -> 0 .. MaxDrift] /\ {} \in Batches
  BY DEF NoSource, Batches
<1>2. NoSource \in UNION {[b -> 0 .. MaxDrift] : b \in Batches}
  BY <1>1
<1>3. BatchTrigger("none", {}) \in Triggers
  BY <1>1, <1>2, MaintainerBounds DEF BatchTrigger, Triggers
<1> QED
  BY <1>3, MaintainerBounds DEF IdleRun, RunRecords, Stage

(* Ended changes the outcome of one job and nothing else. *)
LEMMA EndedFacts ==
  ASSUME jobs \in Seq(JobRecords), NEW j \in 1 .. Len(jobs),
         NEW st \in JobStatus, NEW c \in FailureCode
  PROVE  /\ Ended(j, st, c) \in Seq(JobRecords)
         /\ Len(Ended(j, st, c)) = Len(jobs)
         /\ \A i \in 1 .. Len(jobs) : i # j => Ended(j, st, c)[i] = jobs[i]
         /\ Ended(j, st, c)[j].status = st /\ Ended(j, st, c)[j].code = c
         /\ SameInput(Ended(j, st, c)[j], jobs[j])
         /\ Ended(j, st, c)[j].trace = jobs[j].trace
<1> DEFINE e == [jobs[j] EXCEPT !.status = st, !.code = c]
<1>1. Len(jobs) \in Nat /\ jobs \in [1 .. Len(jobs) -> JobRecords]
  OBVIOUS
<1>2. e \in JobRecords
  BY <1>1 DEF JobRecords
<1>3. Ended(j, st, c) = [i \in 1 .. Len(jobs) |-> IF i = j THEN e ELSE jobs[i]]
  BY <1>1 DEF Ended, JobRecords
<1> HIDE DEF e
<1>4. [i \in 1 .. Len(jobs) |-> IF i = j THEN e ELSE jobs[i]] \in Seq(JobRecords)
  BY <1>1, <1>2
<1>5. Len([i \in 1 .. Len(jobs) |-> IF i = j THEN e ELSE jobs[i]]) = Len(jobs)
  BY <1>1
<1>6. /\ e.status = st /\ e.code = c /\ e.trace = jobs[j].trace
      /\ SameInput(e, jobs[j])
  BY <1>1 DEF e, JobRecords, SameInput
<1> QED
  BY <1>1, <1>3, <1>4, <1>5, <1>6

(* Put changes the run of one session in one worker. *)
LEMMA PutFacts ==
  ASSUME run \in [Workers -> [Sessions -> RunRecords]],
         NEW w \in Workers, NEW s \in Sessions, NEW r \in RunRecords, Put(w, s, r)
  PROVE  /\ run' \in [Workers -> [Sessions -> RunRecords]]
         /\ run'[w][s] = r
         /\ \A v \in Workers, t \in Sessions : v # w \/ t # s => run'[v][t] = run[v][t]
BY DEF Put

(* Finish forgets a run and lets the scan that waits for it go on or end.  *)
LEMMA FinishFacts ==
  ASSUME TypeOK, NEW w \in Workers, NEW s \in Sessions, NEW ok, Finish(w, s, ok)
  PROVE  /\ Put(w, s, IdleRun)
         /\ scan' \in [Workers -> [at : 0 .. TraceStep, joined : BOOLEAN]]
<1>1. Len(ScanOrder) \in Nat
  BY ScanAssumption
<1>2. scan[w] \in [at : 0 .. TraceStep, joined : BOOLEAN]
  BY DEF TypeOK
<1> QED
  BY <1>1, <1>2 DEF Finish, TypeOK, TraceStep, IdleScan

(* Appending a job leaves the earlier ones as they are. *)
LEMMA AppendFacts ==
  ASSUME jobs \in Seq(JobRecords), NEW e \in JobRecords
  PROVE  /\ Append(jobs, e) \in Seq(JobRecords)
         /\ Len(Append(jobs, e)) = Len(jobs) + 1
         /\ Append(jobs, e)[Len(jobs) + 1] = e
         /\ \A i \in 1 .. Len(jobs) : Append(jobs, e)[i] = jobs[i]
<1>1. Len(jobs) \in Nat
  OBVIOUS
<1> QED
  BY <1>1

(* Selected segments have arrived and are trusted elder; what a selection  *)
(* stores of them is a trigger.                                            *)
LEMMA SelectionFacts ==
  ASSUME TypeOK, NEW s \in Sessions
  PROVE  /\ NewSegments(s) \subseteq 1 .. arrived[s]
         /\ BatchTrigger(s, NewSegments(s)) \in Triggers
         /\ UnjudgedTrigger(s, Source(s)) \in Triggers
         /\ DOMAIN Source(s) = NewSegments(s)
<1>1. arrived[s] \in 0 .. MaxSegments /\ elder[s] \in [Segments -> -1 .. MaxDrift]
  BY DEF TypeOK
<1>2. MaxSegments \in Nat /\ MaxDrift \in Nat /\ MaxJobs \in Nat /\ MaxHistory \in Nat
  BY MaintainerBounds
<1>3. /\ NewSegments(s) \subseteq 1 .. arrived[s]
      /\ \A i \in NewSegments(s) : elder[s][i] # -1
  BY DEF NewSegments, Pending
<1>4. NewSegments(s) \in Batches
  BY <1>1, <1>2, <1>3 DEF Batches, Segments
<1>5. Source(s) \in [NewSegments(s) -> 0 .. MaxDrift]
  BY <1>1, <1>2, <1>3 DEF Source, Segments
<1>6. NoSource \in [{} -> 0 .. MaxDrift] /\ {} \in Batches
  BY DEF NoSource, Batches
<1>7. {NoSource, Source(s)} \subseteq UNION {[b -> 0 .. MaxDrift] : b \in Batches}
  BY <1>4, <1>5, <1>6
<1>8. BatchTrigger(s, NewSegments(s)) \in Triggers
  BY <1>2, <1>4, <1>7 DEF BatchTrigger, Triggers
<1>9. DOMAIN Source(s) = NewSegments(s)
  BY <1>5
<1>10. UnjudgedTrigger(s, Source(s)) \in Triggers
  BY <1>2, <1>4, <1>7, <1>9 DEF UnjudgedTrigger, Triggers
<1> QED
  BY <1>3, <1>8, <1>9, <1>10

(* A rebase is a trigger about the same batch. *)
LEMMA AfterFacts ==
  ASSUME NEW t \in Triggers, NEW k \in 0 .. MaxJobs, NEW m \in 0 .. MaxHistory
  PROVE  /\ After(t, k, m) \in Triggers
         /\ After(t, k, m).session = t.session /\ After(t, k, m).batch = t.batch
BY DEF After, Rebase, Triggers

(* A job is created as its trigger, its attempt and its memory say, under  *)
(* the policy and the roles of now.                                        *)
LEMMA NewJobFacts ==
  ASSUME TypeOK, NEW t \in Triggers, t.session \in Sessions, NEW n \in JobIds,
         NEW m \in 0 .. MaxHistory, NEW st \in JobStatus, NEW c \in FailureCode,
         NEW tr \in TraceStatus
  PROVE  /\ NewJob(t, n, m, st, c, tr) \in JobRecords
         /\ NewJob(t, n, m, st, c, tr).trigger = t
         /\ NewJob(t, n, m, st, c, tr).attempt = n
         /\ NewJob(t, n, m, st, c, tr).memory = m
         /\ NewJob(t, n, m, st, c, tr).status = st
         /\ NewJob(t, n, m, st, c, tr).code = c
         /\ NewJob(t, n, m, st, c, tr).trace = tr
         /\ NewJob(t, n, m, st, c, tr).roleRev = roleRev[t.session]
<1>1. policyRev[t.session] \in 0 .. MaxDrift /\ roleRev[t.session] \in 0 .. MaxDrift
  BY DEF TypeOK
<1> QED
  BY <1>1 DEF NewJob, JobRecords

-----------------------------------------------------------------------------
(* The jobs evolve                                                         *)

(* What holds of the jobs after every step. *)
JobsMove ==
  /\ jobs' \in Seq(JobRecords)
  /\ Len(jobs') <= MaxJobs
  /\ Evolve
  /\ TraceTellsTheTruth'

NoSuccess ==
  \A j \in 1 .. Len(jobs) : jobs'[j].status = "succeeded" => jobs[j].status = "succeeded"

(* The step of most actions: no job is added and none succeeds. *)
QuietJobs == JobsMove /\ Len(jobs') = Len(jobs) /\ NoSuccess

(* An action that leaves the jobs alone *)
LEMMA SameJobsQuiet == ASSUME Inv, UNCHANGED jobs PROVE QuietJobs
<1>1. jobs \in Seq(JobRecords) /\ Len(jobs) \in Nat /\ Len(jobs) <= MaxJobs
  BY DEF Inv, TypeOK
<1>2. \A j \in 1 .. Len(jobs) : Keeps(j)
  BY DEF Keeps, SameInput
<1>3. NoSuccess
  BY DEF NoSuccess
<1>4. TraceTellsTheTruth'
  BY DEF Inv, TraceTellsTheTruth
<1> QED
  BY <1>1, <1>2, <1>3, <1>4 DEF QuietJobs, JobsMove, Evolve

(* A job that still runs is ended as failed or cancelled. *)
LEMMA EndingIsQuiet ==
  ASSUME Inv, NEW j \in 1 .. Len(jobs), NEW st \in {"failed", "cancelled"},
         NEW c \in FailureCode \ {"MEMORY_UNJUDGED"},
         jobs' = EndIfRunning(j, st, c)
  PROVE  /\ QuietJobs
         /\ jobs[j].status # "succeeded" => jobs'[j].status \in {"failed", "cancelled"}
<1>1. CASE jobs[j].status = "running"
  <2>1. jobs \in Seq(JobRecords) /\ Len(jobs) \in Nat /\ Len(jobs) <= MaxJobs
    BY DEF Inv, TypeOK
  <2>2. /\ jobs' \in Seq(JobRecords) /\ Len(jobs') = Len(jobs)
        /\ \A i \in 1 .. Len(jobs) : i # j => jobs'[i] = jobs[i]
        /\ jobs'[j].status = st /\ jobs'[j].code = c /\ jobs'[j].trace = jobs[j].trace
        /\ SameInput(jobs'[j], jobs[j])
    <3>1. jobs' = Ended(j, st, c)
      BY <1>1 DEF EndIfRunning
    <3>2. st \in JobStatus /\ c \in FailureCode
      BY DEF JobStatus
    <3> QED
      BY <3>1, <3>2, <2>1, EndedFacts
  <2>3. ASSUME NEW i \in 1 .. Len(jobs) PROVE Keeps(i)
    <3>1. CASE i = j
      BY <1>1, <2>2, <3>1 DEF Keeps
    <3>2. CASE i # j
      BY <2>2, <3>2 DEF Keeps, SameInput
    <3> QED
      BY <3>1, <3>2
  <2>4. NoSuccess
    BY <2>2 DEF NoSuccess
  <2>5. TraceTellsTheTruth'
    BY <1>1, <2>1, <2>2 DEF Inv, TraceTellsTheTruth
  <2> QED
    BY <1>1, <2>1, <2>2, <2>3, <2>4, <2>5 DEF QuietJobs, JobsMove, Evolve
<1>2. CASE jobs[j].status # "running"
  <2>1. jobs' = jobs
    BY <1>2 DEF EndIfRunning
  <2>2. jobs[j] \in JobRecords
    BY DEF Inv, TypeOK
  <2> QED
    BY <1>2, <2>1, <2>2, SameJobsQuiet DEF JobRecords, JobStatus
<1> QED
  BY <1>1, <1>2

(* The age of a job is its own affair. *)
LEMMA JobAgesQuiet == ASSUME Inv, NEW j \in JobIds, JobAges(j) PROVE QuietJobs
<1>1. /\ jobs \in Seq(JobRecords) /\ Len(jobs) \in Nat /\ Len(jobs) <= MaxJobs
      /\ j \in 1 .. Len(jobs)
  BY DEF Inv, TypeOK, JobAges, JobIds
<1>2. jobs \in [1 .. Len(jobs) -> JobRecords]
  BY <1>1
<1> DEFINE e == [jobs[j] EXCEPT !.overdue = TRUE]
<1>3. e \in JobRecords
  BY <1>1, <1>2 DEF JobRecords
<1>4. jobs' = [i \in 1 .. Len(jobs) |-> IF i = j THEN e ELSE jobs[i]]
  BY <1>1, <1>2 DEF JobAges, JobRecords
<1>5. /\ e.status = jobs[j].status /\ e.code = jobs[j].code /\ e.trace = jobs[j].trace
      /\ SameInput(e, jobs[j])
  BY <1>1, <1>2 DEF JobRecords, SameInput
<1> HIDE DEF e
<1>6. /\ jobs' \in Seq(JobRecords) /\ Len(jobs') = Len(jobs)
      /\ \A i \in 1 .. Len(jobs) : jobs'[i] = IF i = j THEN e ELSE jobs[i]
  BY <1>1, <1>2, <1>3, <1>4
<1>7. ASSUME NEW i \in 1 .. Len(jobs) PROVE Keeps(i)
  BY <1>5, <1>6 DEF Keeps, SameInput
<1>8. NoSuccess /\ TraceTellsTheTruth'
  BY <1>1, <1>5, <1>6 DEF Inv, NoSuccess, TraceTellsTheTruth
<1> QED
  BY <1>1, <1>6, <1>7, <1>8 DEF QuietJobs, JobsMove, Evolve

(* A scan fails the jobs that are overdue. *)
LEMMA ScanStartQuiet ==
  ASSUME Inv, NEW w \in Workers, ScanStart(w)
  PROVE  QuietJobs /\ \A j \in 1 .. Len(jobs) : jobs[j].status # "running" =>
                        jobs'[j].status = jobs[j].status
<1>1. /\ jobs \in Seq(JobRecords) /\ Len(jobs) \in Nat /\ Len(jobs) <= MaxJobs
      /\ jobs \in [1 .. Len(jobs) -> JobRecords]
  BY DEF Inv, TypeOK
<1> DEFINE e(j) == [jobs[j] EXCEPT !.status = "failed", !.code = "FAILED"]
<1>2. ASSUME NEW j \in 1 .. Len(jobs)
      PROVE  /\ e(j) \in JobRecords
             /\ e(j).status = "failed" /\ e(j).code = "FAILED" /\ e(j).trace = jobs[j].trace
             /\ SameInput(e(j), jobs[j])
  BY <1>1 DEF JobRecords, JobStatus, FailureCode, SameInput
<1> HIDE DEF e
<1>3. jobs' = [j \in 1 .. Len(jobs) |-> IF j \in StaleJobs THEN e(j) ELSE jobs[j]]
  BY DEF ScanStart, e
<1>4. /\ jobs' \in Seq(JobRecords) /\ Len(jobs') = Len(jobs)
      /\ \A j \in 1 .. Len(jobs) : jobs'[j] = IF j \in StaleJobs THEN e(j) ELSE jobs[j]
  BY <1>1, <1>2, <1>3
<1>5. ASSUME NEW j \in 1 .. Len(jobs) PROVE Keeps(j)
  BY <1>2, <1>4 DEF Keeps, SameInput, StaleJobs
<1>6. NoSuccess /\ TraceTellsTheTruth'
  BY <1>1, <1>2, <1>4 DEF Inv, NoSuccess, TraceTellsTheTruth, StaleJobs
<1> QED
  BY <1>1, <1>4, <1>5, <1>6 DEF QuietJobs, JobsMove, Evolve, Keeps

(* A scan gives the trace of a job that has ended its verdict. *)
LEMMA ScanTracesQuiet == ASSUME Inv, NEW w \in Workers, ScanTraces(w) PROVE QuietJobs
<1>1. /\ jobs \in Seq(JobRecords) /\ Len(jobs) \in Nat /\ Len(jobs) <= MaxJobs
      /\ jobs \in [1 .. Len(jobs) -> JobRecords]
  BY DEF Inv, TypeOK
<1> DEFINE e(j) == [jobs[j] EXCEPT !.trace = Projection(j)]
<1>2. ASSUME NEW j \in 1 .. Len(jobs)
      PROVE  /\ e(j) \in JobRecords
             /\ e(j).status = jobs[j].status /\ e(j).code = jobs[j].code
             /\ e(j).trace = Projection(j)
             /\ SameInput(e(j), jobs[j])
  <2>1. Projection(j) \in TraceStatus
    BY <1>1 DEF Projection, JobRecords, JobStatus, TraceStatus
  <2> QED
    BY <1>1, <2>1 DEF JobRecords, SameInput
<1> HIDE DEF e
<1>3. jobs' = [j \in 1 .. Len(jobs) |-> e(j)]
  BY DEF ScanTraces, e
<1>4. /\ jobs' \in Seq(JobRecords) /\ Len(jobs') = Len(jobs)
      /\ \A j \in 1 .. Len(jobs) : jobs'[j] = e(j)
  BY <1>1, <1>2, <1>3
<1>5. ASSUME NEW j \in 1 .. Len(jobs) PROVE Keeps(j)
  BY <1>2, <1>4 DEF Keeps, SameInput, Projection
<1>6. NoSuccess /\ TraceTellsTheTruth'
  BY <1>1, <1>2, <1>4 DEF Inv, JobInv, JobOK, NoSuccess, TraceTellsTheTruth, Projection
<1> QED
  BY <1>1, <1>4, <1>5, <1>6 DEF QuietJobs, JobsMove, Evolve

(* A trace closed as unavailable says nothing of its job. *)
LEMMA ReconcileQuiet == ASSUME Inv, NEW j \in JobIds, ReconcileRunning(j) PROVE QuietJobs
<1>1. /\ jobs \in Seq(JobRecords) /\ Len(jobs) \in Nat /\ Len(jobs) <= MaxJobs
      /\ j \in 1 .. Len(jobs)
  BY DEF Inv, TypeOK, ReconcileRunning, JobIds
<1>2. jobs \in [1 .. Len(jobs) -> JobRecords] /\ jobs[j].trace = "running"
  BY <1>1 DEF ReconcileRunning
<1> DEFINE e == [jobs[j] EXCEPT !.trace = "unavailable"]
<1>3. e \in JobRecords
  BY <1>1, <1>2 DEF JobRecords, TraceStatus
<1>4. jobs' = [i \in 1 .. Len(jobs) |-> IF i = j THEN e ELSE jobs[i]]
  BY <1>1, <1>2 DEF ReconcileRunning, JobRecords
<1>5. /\ e.status = jobs[j].status /\ e.code = jobs[j].code /\ e.trace = "unavailable"
      /\ SameInput(e, jobs[j])
  BY <1>1, <1>2 DEF JobRecords, SameInput
<1> HIDE DEF e
<1>6. /\ jobs' \in Seq(JobRecords) /\ Len(jobs') = Len(jobs)
      /\ \A i \in 1 .. Len(jobs) : jobs'[i] = IF i = j THEN e ELSE jobs[i]
  BY <1>1, <1>2, <1>3, <1>4
<1>7. ASSUME NEW i \in 1 .. Len(jobs) PROVE Keeps(i)
  BY <1>2, <1>5, <1>6 DEF Keeps, SameInput
<1>8. NoSuccess /\ TraceTellsTheTruth'
  BY <1>1, <1>5, <1>6 DEF Inv, NoSuccess, TraceTellsTheTruth
<1> QED
  BY <1>1, <1>6, <1>7, <1>8 DEF QuietJobs, JobsMove, Evolve

(* A run that has no answer ends its job, if nothing else has. *)
LEMMA CallProviderQuiet ==
  ASSUME Inv, NEW w \in Workers, NEW s \in Sessions, CallProvider(w, s)
  PROVE  QuietJobs
<1>1. run[w][s].job \in 1 .. Len(jobs)
  BY DEF Inv, RunInv, RunOK, CallProvider, AtWork, Holding
<1>2. \/ UNCHANGED jobs
      \/ jobs' = EndIfRunning(run[w][s].job, "cancelled", "AI_POLICY_DRIFT")
      \/ jobs' = EndIfRunning(run[w][s].job, "failed", "FAILED")
  BY DEF CallProvider
<1>3. {"AI_POLICY_DRIFT", "FAILED"} \subseteq FailureCode \ {"MEMORY_UNJUDGED"}
  BY DEF FailureCode
<1> QED
  BY <1>1, <1>2, <1>3, SameJobsQuiet, EndingIsQuiet

(* A run closes its job's trace with the job's own outcome. *)
LEMMA CloseTraceQuiet ==
  ASSUME Inv, NEW w \in Workers, NEW s \in Sessions, CloseTrace(w, s)
  PROVE  QuietJobs
<1> DEFINE j == run[w][s].job
           v == IF run[w][s].ok THEN "succeeded" ELSE "failed"
           e == [jobs[j] EXCEPT !.trace = v]
<1>1. /\ jobs \in Seq(JobRecords) /\ Len(jobs) \in Nat /\ Len(jobs) <= MaxJobs
      /\ jobs \in [1 .. Len(jobs) -> JobRecords]
  BY DEF Inv, TypeOK
<1>2. /\ j \in 1 .. Len(jobs)
      /\ jobs[j].status \in IF run[w][s].ok THEN {"succeeded"} ELSE {"failed", "cancelled"}
  BY DEF Inv, RunInv, RunOK, CloseTrace, Holding
<1>3. CASE jobs[j].trace = "running"
  <2> HIDE DEF j, v
  <2>0. v \in TraceStatus
    BY DEF v, TraceStatus
  <2>1. /\ e \in JobRecords
        /\ e.status = jobs[j].status /\ e.code = jobs[j].code /\ e.trace = v
        /\ SameInput(e, jobs[j])
    BY <1>1, <1>2, <2>0 DEF JobRecords, SameInput
  <2>2. jobs' = [i \in 1 .. Len(jobs) |-> IF i = j THEN e ELSE jobs[i]]
    BY <1>1, <1>2, <1>3 DEF CloseTrace, JobRecords, j, v
  <2> HIDE DEF e
  <2>3. /\ jobs' \in Seq(JobRecords) /\ Len(jobs') = Len(jobs)
        /\ \A i \in 1 .. Len(jobs) : jobs'[i] = IF i = j THEN e ELSE jobs[i]
    BY <1>1, <2>1, <2>2
  <2>4. ASSUME NEW i \in 1 .. Len(jobs) PROVE Keeps(i)
    BY <1>3, <2>1, <2>3 DEF Keeps, SameInput
  <2>5. NoSuccess /\ TraceTellsTheTruth'
    BY <1>1, <1>2, <2>1, <2>3 DEF v, Inv, NoSuccess, TraceTellsTheTruth
  <2> QED
    BY <1>1, <2>3, <2>4, <2>5 DEF QuietJobs, JobsMove, Evolve
<1>4. CASE jobs[j].trace # "running"
  <2>1. UNCHANGED jobs
    BY <1>4 DEF CloseTrace
  <2> QED
    BY <2>1, SameJobsQuiet
<1> QED
  BY <1>3, <1>4

(* What a write back that succeeds does *)
Succeeds(w, s) ==
  LET j == run[w][s].job IN
  /\ run[w][s].stage = "answered"
  /\ Open(j) /\ Drift(s, j) = "none"
  /\ Consume(s, j)
  /\ jobs' = Ended(j, "succeeded", "none")
  /\ Close(w, s, TRUE)

(* A write back makes nothing but the run's own job succeed, and that one  *)
(* only from running.                                                      *)
LEMMA WriteBackMoves ==
  ASSUME Inv, NEW w \in Workers, NEW s \in Sessions, WriteBack(w, s)
  PROVE  /\ JobsMove /\ Len(jobs') = Len(jobs)
         /\ \/ NoSuccess /\ UNCHANGED <<consumedBy, memory>> /\ Close(w, s, FALSE)
               /\ jobs'[run[w][s].job].status \in {"failed", "cancelled"}
            \/ Succeeds(w, s)
               /\ jobs'[run[w][s].job].status = "succeeded"
               /\ \A i \in 1 .. Len(jobs) : i # run[w][s].job => jobs'[i] = jobs[i]
<1> DEFINE j == run[w][s].job
<1>1. /\ jobs \in Seq(JobRecords) /\ Len(jobs) \in Nat /\ Len(jobs) <= MaxJobs
  BY DEF Inv, TypeOK
<1>2. j \in 1 .. Len(jobs) /\ jobs[j].status # "succeeded"
  BY DEF Inv, RunInv, RunOK, WriteBack, AtWork, Holding
<1>3. CASE /\ \/ jobs' = EndIfRunning(j, "cancelled", Drift(s, j)) /\ Drift(s, j) # "none"
              \/ jobs' = EndIfRunning(j, "cancelled", Drift(s, j)) /\ ~Open(j)
              \/ jobs' = Ended(j, "failed", "FAILED") /\ Open(j)
           /\ UNCHANGED <<consumedBy, memory>> /\ Close(w, s, FALSE)
  <2>1. {Drift(s, j), "FAILED"} \subseteq FailureCode \ {"MEMORY_UNJUDGED"}
    BY DEF Drift, FailureCode
  <2>2. \/ jobs' = EndIfRunning(j, "cancelled", Drift(s, j))
        \/ jobs' = EndIfRunning(j, "failed", "FAILED")
    BY <1>3 DEF EndIfRunning, Open
  <2>3. QuietJobs /\ jobs'[j].status \in {"failed", "cancelled"}
    BY <1>2, <2>1, <2>2, EndingIsQuiet
  <2> QED
    BY <1>3, <2>3 DEF QuietJobs
<1>4. CASE Succeeds(w, s)
  <2>1. "succeeded" \in JobStatus /\ "none" \in FailureCode
    BY DEF JobStatus, FailureCode
  <2>2. jobs' = Ended(j, "succeeded", "none") /\ jobs[j].status = "running"
    BY <1>4 DEF Succeeds, Open
  <2>3. /\ jobs' \in Seq(JobRecords) /\ Len(jobs') = Len(jobs)
        /\ \A i \in 1 .. Len(jobs) : i # j => jobs'[i] = jobs[i]
        /\ jobs'[j].status = "succeeded" /\ jobs'[j].code = "none"
        /\ jobs'[j].trace = jobs[j].trace /\ SameInput(jobs'[j], jobs[j])
    BY <1>1, <1>2, <2>1, <2>2, EndedFacts
  <2>4. ASSUME NEW i \in 1 .. Len(jobs) PROVE Keeps(i)
    BY <2>2, <2>3 DEF Keeps, SameInput
  <2>5. TraceTellsTheTruth'
    BY <1>1, <1>2, <2>2, <2>3 DEF Inv, TraceTellsTheTruth
  <2> QED
    BY <1>1, <1>4, <2>3, <2>4, <2>5 DEF JobsMove, Evolve
<1> QED
  BY <1>3, <1>4 DEF WriteBack, Succeeds

(* The two ways a job is created: running, or recorded as unjudged *)
NewOutcomes == {<<"running", "none", "running">>, <<"cancelled", "MEMORY_UNJUDGED", "unavailable">>}

(* The job that is added, and that it leaves the others alone *)
Adds(t, n, m, o) ==
  /\ JobsMove /\ Len(jobs') = Len(jobs) + 1
  /\ \A i \in 1 .. Len(jobs) : jobs'[i] = jobs[i]
  /\ LET e == jobs'[Len(jobs) + 1] IN
     /\ e.trigger = t /\ e.attempt = n /\ e.memory = m
     /\ e.status = o[1] /\ e.code = o[2] /\ e.trace = o[3]
     /\ e.roleRev = roleRev[t.session]

(* A new job leaves the others alone and has not succeeded. *)
LEMMA AppendMoves ==
  ASSUME Inv, NEW t \in Triggers, t.session \in Sessions, NEW n \in JobIds,
         NEW m \in 0 .. MaxHistory, NEW o \in NewOutcomes, Len(jobs) # MaxJobs,
         jobs' = Append(jobs, NewJob(t, n, m, o[1], o[2], o[3]))
  PROVE  Adds(t, n, m, o)
<1> DEFINE e == NewJob(t, n, m, o[1], o[2], o[3])
<1>1. /\ TypeOK /\ jobs \in Seq(JobRecords) /\ Len(jobs) \in Nat /\ Len(jobs) < MaxJobs
      /\ MaxJobs \in Nat
  <2>1. TypeOK /\ jobs \in Seq(JobRecords) /\ Len(jobs) <= MaxJobs
    BY DEF Inv, TypeOK
  <2>2. MaxJobs \in Nat
    BY MaintainerBounds
  <2> QED
    BY <2>1, <2>2
<1>2. o[1] \in JobStatus /\ o[2] \in FailureCode /\ o[3] \in TraceStatus
  BY DEF NewOutcomes, JobStatus, FailureCode, TraceStatus
<1>3. /\ e \in JobRecords
      /\ e.trigger = t /\ e.attempt = n /\ e.memory = m
      /\ e.status = o[1] /\ e.code = o[2] /\ e.trace = o[3]
      /\ e.roleRev = roleRev[t.session]
  BY <1>1, <1>2, NewJobFacts
<1> HIDE DEF e
<1>4. jobs' = Append(jobs, e)
  BY DEF e
<1>5. /\ jobs' \in Seq(JobRecords) /\ Len(jobs') = Len(jobs) + 1
      /\ jobs'[Len(jobs) + 1] = e
      /\ \A i \in 1 .. Len(jobs) : jobs'[i] = jobs[i]
  BY <1>1, <1>3, <1>4, AppendFacts
<1>6. ASSUME NEW i \in 1 .. Len(jobs) PROVE Keeps(i)
  BY <1>5 DEF Keeps, SameInput
<1>7. TraceTellsTheTruth'
  <2> SUFFICES ASSUME NEW i \in 1 .. Len(jobs) + 1
               PROVE  /\ jobs'[i].trace = "succeeded" => jobs'[i].status = "succeeded"
                      /\ jobs'[i].trace \in {"failed", "cancelled"} =>
                           jobs'[i].status \in {"failed", "cancelled"}
    BY <1>5 DEF TraceTellsTheTruth
  <2>1. CASE i \in 1 .. Len(jobs)
    BY <1>5, <2>1 DEF Inv, TraceTellsTheTruth
  <2>2. CASE i = Len(jobs) + 1
    BY <1>3, <1>5, <2>2 DEF NewOutcomes
  <2> QED
    BY <1>1, <2>1, <2>2
<1>8. JobsMove
  BY <1>1, <1>5, <1>6, <1>7 DEF JobsMove, Evolve
<1> QED
  BY <1>3, <1>5, <1>8 DEF Adds

(* What recording an unjudged final flush adds to the jobs *)
Records(w, s) ==
  LET t == run[w][s].trigger IN
  /\ run[w][s].stage = "unjudged"
  /\ JobsOf(t) = {}
  /\ Len(jobs) # MaxJobs
  /\ jobs' = Append(jobs, NewJob(t, 1, 0, "cancelled", "MEMORY_UNJUDGED", "unavailable"))

(* What a freeze adds to the jobs *)
Freezes(w, s) ==
  LET r == run[w][s] IN
  /\ r.stage = "prepared" /\ ~Replayed(r) /\ FreezeAccepts(s, r)
  /\ jobs' = Append(jobs, NewJob(r.trigger, r.attempt, r.memory, "running", "none", "running"))

Unjudged == <<"cancelled", "MEMORY_UNJUDGED", "unavailable">>
Frozen == <<"running", "none", "running">>

(* An unjudged final flush is recorded as the first job of its trigger. *)
LEMMA RecordUnjudgedMoves ==
  ASSUME Inv, NEW w \in Workers, NEW s \in Sessions, RecordUnjudged(w, s)
  PROVE  \/ UNCHANGED jobs
         \/ Records(w, s) /\ Adds(run[w][s].trigger, 1, 0, Unjudged)
<1> DEFINE t == run[w][s].trigger
<1>1. UNCHANGED jobs \/ Records(w, s)
  BY DEF RecordUnjudged, Records
<1>2. CASE Records(w, s)
  <2>1. t.session \in Sessions
    BY <1>2 DEF Records, Inv, RunInv, RunOK, WithBatch
  <2>2. t \in Triggers
    BY DEF Inv, TypeOK, RunRecords
  <2>3. 1 \in JobIds /\ 0 \in 0 .. MaxHistory
    BY <1>2, MaintainerBounds DEF JobIds, Records, Inv, TypeOK
  <2>4. Unjudged \in NewOutcomes
    BY DEF NewOutcomes, Unjudged
  <2>5. jobs' = Append(jobs, NewJob(t, 1, 0, Unjudged[1], Unjudged[2], Unjudged[3]))
    BY <1>2 DEF Records, Unjudged
  <2> QED
    BY <1>2, <2>1, <2>2, <2>3, <2>4, <2>5, AppendMoves DEF Records
<1> QED
  BY <1>1, <1>2

(* The number of an attempt that is frozen never runs ahead of the jobs. *)
LEMMA FreezesNext ==
  ASSUME Inv, NEW w \in Workers, NEW s \in Sessions, Freezes(w, s)
  PROVE  run[w][s].attempt \in 1 .. Len(jobs) + 1
<1> DEFINE r == run[w][s]
<1>1. jobs \in Seq(JobRecords) /\ Len(jobs) \in Nat /\ MaxJobs \in Nat
  BY MaintainerBounds DEF Inv, TypeOK
<1>2. r.attempt = 1 \/ HasPredecessor(r)
  BY DEF Freezes, Inv, RunInv, RunOK
<1>3. ASSUME HasPredecessor(r) PROVE r.attempt \in 1 .. Len(jobs) + 1
  <2>1. PICK j \in 1 .. Len(jobs) : jobs[j].attempt = r.attempt - 1
    BY <1>3 DEF HasPredecessor, JobsOf
  <2>2. jobs[j] \in JobRecords /\ JobOK(j)
    BY <1>1 DEF Inv, JobInv
  <2>3. jobs[j].attempt \in 1 .. MaxJobs /\ jobs[j].attempt <= j
    BY <2>2 DEF JobOK, JobRecords, JobIds
  <2>4. r.attempt \in 0 .. MaxJobs + 1
    BY DEF Inv, TypeOK, RunRecords
  <2> QED
    BY <1>1, <2>1, <2>3, <2>4
<1> QED
  BY <1>1, <1>2, <1>3

(* A freeze adds the running attempt that its run has prepared. *)
LEMMA FreezeMoves ==
  ASSUME Inv, NEW w \in Workers, NEW s \in Sessions, FreezeJob(w, s)
  PROVE  \/ UNCHANGED jobs /\ Finish(w, s, allowed[s] /\ Replayed(run[w][s]))
         \/ /\ Freezes(w, s)
            /\ Continue(w, s, [IdleRun EXCEPT !.stage = "frozen", !.job = Len(jobs) + 1])
            /\ Adds(run[w][s].trigger, run[w][s].attempt, run[w][s].memory, Frozen)
<1> DEFINE r == run[w][s]
<1>1. \/ UNCHANGED jobs /\ Finish(w, s, allowed[s] /\ Replayed(r))
      \/ /\ Freezes(w, s)
         /\ Continue(w, s, [IdleRun EXCEPT !.stage = "frozen", !.job = Len(jobs) + 1])
  BY DEF FreezeJob, Freezes
<1>2. CASE /\ Freezes(w, s)
           /\ Continue(w, s, [IdleRun EXCEPT !.stage = "frozen", !.job = Len(jobs) + 1])
  <2>1. r.stage = "prepared" /\ Len(jobs) < MaxJobs
    BY <1>2 DEF Freezes, FreezeAccepts
  <2>2. r.trigger.session \in Sessions /\ (r.attempt = 1 \/ HasPredecessor(r))
    BY <2>1 DEF Inv, RunInv, RunOK, WithBatch
  <2>3. r.trigger \in Triggers /\ r.memory \in 0 .. MaxHistory
    BY DEF Inv, TypeOK, RunRecords
  <2>4. r.attempt \in JobIds
    <3>1. r.attempt \in 1 .. Len(jobs) + 1
      BY <1>2, FreezesNext
    <3>2. jobs \in Seq(JobRecords) /\ MaxJobs \in Nat
      BY MaintainerBounds DEF Inv, TypeOK
    <3> QED
      BY <2>1, <3>1, <3>2 DEF JobIds
  <2>5. Frozen \in NewOutcomes
    BY DEF NewOutcomes, Frozen
  <2>6. jobs' = Append(jobs, NewJob(r.trigger, r.attempt, r.memory,
                                    Frozen[1], Frozen[2], Frozen[3]))
    BY <1>2 DEF Freezes, Frozen
  <2>7. Len(jobs) # MaxJobs
    BY <2>1, MaintainerBounds DEF Inv, TypeOK
  <2>8. Adds(r.trigger, r.attempt, r.memory, Frozen)
    <3> HIDE DEF r
    <3> QED
      BY <2>2, <2>3, <2>4, <2>5, <2>6, <2>7, AppendMoves
  <2> QED
    BY <1>2, <2>8
<1> QED
  BY <1>1, <1>2

(* The steps that leave the jobs alone *)
LEMMA OtherStepsKeepJobs ==
  ASSUME \/ Environment /\ ~\E j \in JobIds : JobAges(j)
         \/ \E w \in Workers, s \in Sessions :
              Select(w, s) \/ Prepare(w, s) \/ BuildContext(w, s) \/ Wake(w, s) \/ RequestFinalFlush(w, s)
         \/ \E w \in Workers : ScanVisit(w) \/ Crash(w)
         \/ UNCHANGED vars
  PROVE  UNCHANGED jobs
BY DEF Environment, Arrive, Calibrate, CompleteSession, SegmentsAge, ChangeConsent,
       SupersedeMemory, CorrectRole, Select, Prepare, BuildContext, Wake, RequestFinalFlush, Begin,
       ScanVisit, Crash, vars, workVars

(* Every step keeps what is frozen with a job and an outcome once written. *)
LEMMA JobsMoveStep == Inv /\ [Next]_vars => JobsMove
<1> SUFFICES ASSUME Inv, [Next]_vars PROVE JobsMove
  OBVIOUS
<1>1. ASSUME NEW j \in JobIds, JobAges(j) PROVE JobsMove
  BY <1>1, JobAgesQuiet DEF QuietJobs
<1>2. ASSUME NEW w \in Workers, NEW s \in Sessions, RecordUnjudged(w, s) PROVE JobsMove
  BY <1>2, RecordUnjudgedMoves, SameJobsQuiet DEF QuietJobs, Adds
<1>3. ASSUME NEW w \in Workers, NEW s \in Sessions, FreezeJob(w, s) PROVE JobsMove
  BY <1>3, FreezeMoves, SameJobsQuiet DEF QuietJobs, Adds
<1>4. ASSUME NEW w \in Workers, NEW s \in Sessions, CallProvider(w, s) PROVE JobsMove
  BY <1>4, CallProviderQuiet DEF QuietJobs
<1>5. ASSUME NEW w \in Workers, NEW s \in Sessions, WriteBack(w, s) PROVE JobsMove
  BY <1>5, WriteBackMoves
<1>6. ASSUME NEW w \in Workers, NEW s \in Sessions, CloseTrace(w, s) PROVE JobsMove
  BY <1>6, CloseTraceQuiet DEF QuietJobs
<1>7. ASSUME NEW w \in Workers, ScanStart(w) \/ ScanTraces(w) PROVE JobsMove
  BY <1>7, ScanStartQuiet, ScanTracesQuiet DEF QuietJobs
<1>8. CASE UNCHANGED jobs
  BY <1>8, SameJobsQuiet DEF QuietJobs
<1>9. ASSUME NEW j \in JobIds, ReconcileRunning(j) PROVE JobsMove
  BY <1>9, ReconcileQuiet DEF QuietJobs
<1> QED
  BY <1>1, <1>2, <1>3, <1>4, <1>5, <1>6, <1>7, <1>8, <1>9, OtherStepsKeepJobs
     DEF Next, RunStep, ScanStep, Environment

-----------------------------------------------------------------------------
(* Type correctness                                                        *)

RunMap == [Workers -> [Sessions -> RunRecords]]
ScanMap == [Workers -> [at : 0 .. TraceStep, joined : BOOLEAN]]

(* A run that goes on with a record of its type keeps the types. *)
LEMMA ContinueType ==
  ASSUME TypeOK, NEW w \in Workers, NEW s \in Sessions, NEW r \in RunRecords, Continue(w, s, r)
  PROVE  run' \in RunMap /\ scan' \in ScanMap
BY PutFacts DEF Continue, TypeOK, RunMap, ScanMap

(* A run that finishes keeps the types. *)
LEMMA FinishType ==
  ASSUME TypeOK, NEW w \in Workers, NEW s \in Sessions, NEW ok, Finish(w, s, ok)
  PROVE  run' \in RunMap /\ scan' \in ScanMap
BY FinishFacts, PutFacts, IdleRunType DEF TypeOK, RunMap, ScanMap

(* The run that Prepare goes on with *)
LEMMA PreparedType ==
  ASSUME Inv, NEW w \in Workers, NEW s \in Sessions, NEW k \in 0 .. Len(jobs),
         NEW n \in 0 .. MaxJobs + 1, NEW m \in 0 .. MaxHistory
  PROVE  [run[w][s] EXCEPT !.stage = "prepared",
                           !.trigger = After(run[w][s].trigger, k, memory[s]),
                           !.attempt = n, !.memory = m] \in RunRecords
<1>1. run[w][s] \in RunRecords /\ memory[s] \in 0 .. MaxHistory
  BY DEF Inv, TypeOK
<1>2. k \in 0 .. MaxJobs
  BY MaintainerBounds DEF Inv, TypeOK
<1>3. After(run[w][s].trigger, k, memory[s]) \in Triggers
  BY <1>1, <1>2, AfterFacts DEF RunRecords
<1> QED
  BY <1>1, <1>3 DEF RunRecords, Stage

(* Every step keeps the types of what a worker holds in memory. *)
LEMMA RunTypeStep == Inv /\ [Next]_vars => run' \in RunMap /\ scan' \in ScanMap
<1> SUFFICES ASSUME Inv, [Next]_vars PROVE run' \in RunMap /\ scan' \in ScanMap
  OBVIOUS
<1>0. TypeOK /\ run \in RunMap /\ scan \in ScanMap
  BY DEF Inv, TypeOK, RunMap, ScanMap
<1> DEFINE Goal == run' \in RunMap /\ scan' \in ScanMap
<1>a. ASSUME NEW w \in Workers, NEW s \in Sessions
      PROVE  /\ run[w][s] \in RunRecords
             /\ \A r \in RunRecords : Continue(w, s, r) => Goal
             /\ \A ok : Finish(w, s, ok) => Goal
             /\ \A ok \in BOOLEAN : Close(w, s, ok) => Goal
  <2>1. run[w][s] \in RunRecords
    BY <1>0 DEF RunMap
  <2>2. \A ok \in BOOLEAN : [run[w][s] EXCEPT !.stage = "closing", !.ok = ok] \in RunRecords
    BY <2>1 DEF RunRecords, Stage
  <2> QED
    BY <1>0, <2>1, <2>2, ContinueType, FinishType DEF Close
<1> HIDE DEF Goal
<1>1. ASSUME NEW w \in Workers, NEW s \in Sessions, Select(w, s) PROVE Goal
  <2>1. /\ [IdleRun EXCEPT !.stage = "selected", !.trigger = BatchTrigger(s, NewSegments(s))]
             \in RunRecords
        /\ [IdleRun EXCEPT !.stage = "unjudged", !.trigger = UnjudgedTrigger(s, Source(s))]
             \in RunRecords
    BY <1>0, SelectionFacts, IdleRunType DEF RunRecords, Stage
  <2>2. \/ Continue(w, s, [IdleRun EXCEPT !.stage = "selected",
                                          !.trigger = BatchTrigger(s, NewSegments(s))])
        \/ Continue(w, s, [IdleRun EXCEPT !.stage = "unjudged",
                                          !.trigger = UnjudgedTrigger(s, Source(s))])
        \/ Finish(w, s, TRUE)
    BY <1>1, Zenon DEF Select
  <2> QED
    BY <1>a, <2>1, <2>2
<1>2. ASSUME NEW w \in Workers, NEW s \in Sessions, RecordUnjudged(w, s) PROVE Goal
  BY <1>2, <1>a DEF RecordUnjudged
<1>3. ASSUME NEW w \in Workers, NEW s \in Sessions, Prepare(w, s) PROVE Goal
  <2>1. PICK k \in RebaseChain(run[w][s].trigger, memory[s]) :
          LET t == After(run[w][s].trigger, k, memory[s])
              prepared == [run[w][s] EXCEPT !.stage = "prepared", !.trigger = t]
          IN \/ Continue(w, s, [prepared EXCEPT !.attempt = 1, !.memory = memory[s]])
             \/ \E j \in Latest(t) :
                  Continue(w, s, [prepared EXCEPT !.attempt = jobs[j].attempt + 1,
                                                  !.memory = RetryMemory(j)])
             \/ Finish(w, s, TRUE)
    BY <1>3 DEF Prepare
  <2>2. k \in 0 .. Len(jobs)
    BY DEF RebaseChain
  <2>3. 1 \in 0 .. MaxJobs + 1 /\ memory[s] \in 0 .. MaxHistory
    BY <1>0, MaintainerBounds DEF TypeOK
  <2>4. ASSUME NEW t, NEW j \in Latest(t)
        PROVE  jobs[j].attempt + 1 \in 0 .. MaxJobs + 1 /\ RetryMemory(j) \in 0 .. MaxHistory
    <3>1. jobs[j] \in JobRecords
      BY <1>0 DEF Latest, JobsOf, TypeOK
    <3> QED
      BY <3>1, MaintainerBounds DEF JobRecords, JobIds, RetryMemory
  <2> QED
    BY <1>a, <2>1, <2>2, <2>3, <2>4, PreparedType
<1>4. ASSUME NEW w \in Workers, NEW s \in Sessions, FreezeJob(w, s) PROVE Goal
  <2>1. CASE Finish(w, s, allowed[s] /\ Replayed(run[w][s]))
    BY <1>a, <2>1
  <2>2. CASE /\ Freezes(w, s)
             /\ Continue(w, s, [IdleRun EXCEPT !.stage = "frozen", !.job = Len(jobs) + 1])
    <3>1. Len(jobs) + 1 \in 0 .. MaxJobs
      BY <1>0, <2>2, MaintainerBounds DEF Freezes, FreezeAccepts, TypeOK
    <3>2. [IdleRun EXCEPT !.stage = "frozen", !.job = Len(jobs) + 1] \in RunRecords
      BY <3>1, IdleRunType DEF RunRecords, Stage
    <3> QED
      BY <1>a, <2>2, <3>2
  <2> QED
    BY <1>4, <2>1, <2>2, FreezeMoves
<1>5. ASSUME NEW w \in Workers, NEW s \in Sessions, BuildContext(w, s) PROVE Goal
  <2>1. [run[w][s] EXCEPT !.stage = "calling"] \in RunRecords
    BY <1>a DEF RunRecords, Stage
  <2> QED
    BY <1>5, <1>a, <2>1 DEF BuildContext
<1>6. ASSUME NEW w \in Workers, NEW s \in Sessions, CallProvider(w, s) PROVE Goal
  <2>1. /\ [run[w][s] EXCEPT !.stage = "answered"] \in RunRecords
        /\ [run[w][s] EXCEPT !.stage = "retrying"] \in RunRecords
    BY <1>a DEF RunRecords, Stage
  <2> QED
    BY <1>6, <1>a, <2>1 DEF CallProvider
<1>7. ASSUME NEW w \in Workers, NEW s \in Sessions, WriteBack(w, s) PROVE Goal
  BY <1>7, <1>a DEF WriteBack
<1>8. ASSUME NEW w \in Workers, NEW s \in Sessions, CloseTrace(w, s) PROVE Goal
  BY <1>8, <1>a DEF CloseTrace
<1>9. ASSUME NEW w \in Workers, NEW s \in Sessions, Wake(w, s) \/ RequestFinalFlush(w, s)
      PROVE  Goal
  <2>1. \A f \in BOOLEAN : [IdleRun EXCEPT !.stage = "select", !.final = f] \in RunRecords
    BY IdleRunType DEF RunRecords, Stage
  <2> QED
    BY <1>9, <1>a, <2>1 DEF Wake, RequestFinalFlush, Begin
<1>10. ASSUME NEW w \in Workers, ScanStart(w) \/ ScanTraces(w) PROVE Goal
  <2>1. \A n \in {1, TraceStep} : [at |-> n, joined |-> FALSE] \in [at : 0 .. TraceStep, joined : BOOLEAN]
    BY ScanAssumption DEF TraceStep
  <2>2. \E n \in {1, TraceStep} : scan' = [scan EXCEPT ![w] = [at |-> n, joined |-> FALSE]]
    BY <1>10 DEF ScanStart, ScanTraces
  <2>3. run' = run
    BY <1>10 DEF ScanStart, ScanTraces
  <2>4. scan' \in ScanMap
    BY <1>0, <2>1, <2>2 DEF ScanMap
  <2> QED
    BY <1>0, <2>3, <2>4 DEF Goal
<1>11. ASSUME NEW w \in Workers, ScanVisit(w) PROVE Goal
  <2> DEFINE s == ScanOrder[scan[w].at]
  <2>1. s \in Sessions
    BY <1>11, ScanAssumption DEF ScanVisit
  <2>2. [IdleRun EXCEPT !.stage = "select"] \in RunRecords
    BY IdleRunType DEF RunRecords, Stage
  <2>3. scan' \in ScanMap
    BY <1>0, <1>11 DEF ScanVisit, ScanMap
  <2>4. Put(w, s, [IdleRun EXCEPT !.stage = "select"]) \/ UNCHANGED run
    BY <1>11 DEF ScanVisit
  <2> HIDE DEF s
  <2> QED
    BY <1>0, <2>1, <2>2, <2>3, <2>4, PutFacts DEF RunMap, Goal
<1>12. ASSUME NEW w \in Workers, Crash(w) PROVE Goal
  <2>1. IdleScan \in [at : 0 .. TraceStep, joined : BOOLEAN]
    BY ScanAssumption DEF IdleScan, TraceStep
  <2> QED
    BY <1>0, <1>12, <2>1, IdleRunType DEF Crash, RunMap, ScanMap, Goal
<1>13. CASE Environment \/ UNCHANGED vars
  BY <1>0, <1>13 DEF Environment, Arrive, Calibrate, CompleteSession, SegmentsAge, ChangeConsent,
     SupersedeMemory, CorrectRole, JobAges, vars, Goal
<1>14. ASSUME NEW j \in JobIds, ReconcileRunning(j) PROVE Goal
  BY <1>0, <1>14 DEF ReconcileRunning, Goal
<1> QED
  BY <1>1, <1>2, <1>3, <1>4, <1>5, <1>6, <1>7, <1>8, <1>9, <1>10, <1>11, <1>12, <1>13, <1>14
     DEF Next, RunStep, ScanStep, Goal

SourceType ==
  /\ arrived \in [Sessions -> 0 .. MaxSegments]
  /\ elder \in [Sessions -> [Segments -> -1 .. MaxDrift]]
  /\ roleRev \in [Sessions -> 0 .. MaxDrift]
  /\ aged \in [Sessions -> 0 .. MaxSegments]
  /\ closed \in [Sessions -> BOOLEAN]
PolicyType ==
  /\ allowed \in [Sessions -> BOOLEAN] /\ policyRev \in [Sessions -> 0 .. MaxDrift]
WorkType ==
  /\ consumedBy \in [Sessions -> [Segments -> 0 .. MaxJobs]]
  /\ memory \in [Sessions -> 0 .. MaxHistory]

(* A run changes neither the session's source nor the policy, and only its *)
(* write back what is consumed and remembered.                             *)
LEMMA RunFrame ==
  ASSUME NEW w \in Workers, NEW s \in Sessions,
         RunStep(w, s) \/ Wake(w, s) \/ RequestFinalFlush(w, s)
  PROVE  /\ UNCHANGED <<sourceVars, policyVars, crashes>>
         /\ UNCHANGED <<consumedBy, memory>> \/ WriteBack(w, s)
<1>1. CASE Select(w, s)
  BY <1>1 DEF Select, workVars
<1>2. CASE RecordUnjudged(w, s)
  BY <1>2 DEF RecordUnjudged
<1>3. CASE Prepare(w, s)
  BY <1>3 DEF Prepare, workVars
<1>4. CASE FreezeJob(w, s)
  BY <1>4 DEF FreezeJob
<1>5. CASE BuildContext(w, s)
  BY <1>5 DEF BuildContext, workVars
<1>6. CASE CallProvider(w, s)
  BY <1>6 DEF CallProvider
<1>7. CASE WriteBack(w, s)
  BY <1>7 DEF WriteBack
<1>8. CASE CloseTrace(w, s)
  BY <1>8 DEF CloseTrace
<1>9. CASE Wake(w, s) \/ RequestFinalFlush(w, s)
  BY <1>9 DEF Wake, RequestFinalFlush, Begin, workVars
<1> QED
  BY <1>1, <1>2, <1>3, <1>4, <1>5, <1>6, <1>7, <1>8, <1>9 DEF RunStep

(* A scan changes nothing but jobs and what it holds in memory. *)
LEMMA ScanFrame ==
  ASSUME NEW w \in Workers, ScanStep(w)
  PROVE  UNCHANGED <<sourceVars, policyVars, consumedBy, memory, crashes>>
BY DEF ScanStep, ScanStart, ScanTraces, ScanVisit, workVars

(* A segment's role changes alone. *)
LEMMA ElderFacts ==
  ASSUME NEW R, elder \in [Sessions -> [Segments -> R]],
         NEW s \in Sessions, NEW i \in Segments, NEW r \in R,
         elder' = [elder EXCEPT ![s][i] = r]
  PROVE  /\ elder' \in [Sessions -> [Segments -> R]]
         /\ \A t \in Sessions, k \in Segments : t # s \/ k # i => elder'[t][k] = elder[t][k]
OBVIOUS

(* A step of the source that keeps its types and only moves it forward *)
SourceOK == SourceType' /\ SourceMoves

(* Every step keeps the types of the session's source and only moves it    *)
(* forward.                                                                *)
LEMMA SourceStep == Inv /\ [Next]_vars => SourceOK
<1> SUFFICES ASSUME Inv, [Next]_vars PROVE SourceOK
  OBVIOUS
<1>0. SourceType
  BY DEF Inv, TypeOK, SourceType
<1>b. MaxSegments \in Nat /\ MaxDrift \in Nat
  BY MaintainerBounds
<1>s. /\ \A s \in Sessions : arrived[s] \in 0 .. MaxSegments /\ roleRev[s] \in 0 .. MaxDrift
      /\ \A s \in Sessions : 1 .. arrived[s] \subseteq Segments
  BY <1>0, <1>b DEF SourceType, Segments
<1>1. ASSUME NEW s \in Sessions, Arrive(s) PROVE SourceOK
  <2>1. PICK r \in {-1, roleRev[s]} : elder' = [elder EXCEPT ![s][arrived[s] + 1] = r]
    BY <1>1 DEF Arrive
  <2>2. r \in -1 .. MaxDrift /\ arrived[s] + 1 \in Segments /\ arrived[s] + 1 \in 0 .. MaxSegments
    BY <1>b, <1>s, <1>1 DEF Arrive, Segments
  <2>3. arrived' = [arrived EXCEPT ![s] = @ + 1] /\ UNCHANGED <<roleRev, aged, closed>>
    BY <1>1 DEF Arrive
  <2>4. /\ elder' \in [Sessions -> [Segments -> -1 .. MaxDrift]]
        /\ \A t \in Sessions, k \in Segments :
             t # s \/ k # arrived[s] + 1 => elder'[t][k] = elder[t][k]
    BY <1>0, <2>1, <2>2, ElderFacts DEF SourceType
  <2>5. SourceType'
    BY <1>0, <2>2, <2>3, <2>4 DEF SourceType
  <2>6. \A t \in Sessions : arrived[t] <= arrived'[t] /\ roleRev[t] <= roleRev'[t]
    BY <1>0, <1>s, <2>3 DEF SourceType
  <2>7. \A t \in Sessions : \A i \in 1 .. arrived[t] : elder'[t][i] = elder[t][i]
    BY <1>s, <2>4
  <2> QED
    BY <2>5, <2>6, <2>7 DEF SourceOK, SourceMoves
<1>2. ASSUME NEW s \in Sessions, NEW i \in Segments, CorrectRole(s, i) PROVE SourceOK
  <2>1. roleRev[s] + 1 \in 0 .. MaxDrift
    <3>1. roleRev[s] + policyRev[s] < MaxDrift /\ policyRev[s] \in 0 .. MaxDrift
      BY <1>2 DEF CorrectRole, MayDrift, Inv, TypeOK
    <3> QED
      BY <1>b, <1>s, <3>1
  <2>2. PICK r \in -1 .. MaxDrift : elder' = [elder EXCEPT ![s][i] = r]
    <3> DEFINE v == IF elder[s][i] = -1 THEN roleRev[s] + 1 ELSE -1
    <3>1. v \in -1 .. MaxDrift
      BY <1>b, <2>1
    <3>2. elder' = [elder EXCEPT ![s][i] = v]
      BY <1>0, <1>2 DEF CorrectRole, SourceType
    <3> QED
      BY <3>1, <3>2
  <2>3. roleRev' = [roleRev EXCEPT ![s] = @ + 1] /\ UNCHANGED <<arrived, aged, closed>>
    BY <1>2 DEF CorrectRole
  <2>4. /\ elder' \in [Sessions -> [Segments -> -1 .. MaxDrift]]
        /\ \A t \in Sessions, k \in Segments : t # s \/ k # i => elder'[t][k] = elder[t][k]
    BY <1>0, <2>2, ElderFacts DEF SourceType
  <2>5. SourceType'
    BY <1>0, <2>1, <2>3, <2>4 DEF SourceType
  <2>6. \A t \in Sessions : /\ arrived[t] <= arrived'[t] /\ roleRev[t] <= roleRev'[t]
                            /\ roleRev'[t] = roleRev[t] => t # s
    BY <1>0, <1>s, <2>3 DEF SourceType
  <2> QED
    BY <1>s, <2>4, <2>5, <2>6 DEF SourceOK, SourceMoves
<1>3. ASSUME NEW s \in Sessions, Calibrate(s) PROVE SourceOK
  <2>1. roleRev[s] + 1 \in 0 .. MaxDrift
    <3>1. roleRev[s] + policyRev[s] < MaxDrift /\ policyRev[s] \in 0 .. MaxDrift
      BY <1>3 DEF Calibrate, MayDrift, Inv, TypeOK
    <3> QED
      BY <1>b, <1>s, <3>1
  <2>2. roleRev' = [roleRev EXCEPT ![s] = @ + 1] /\ UNCHANGED <<arrived, elder, aged, closed>>
    BY <1>3 DEF Calibrate
  <2>3. \A t \in Sessions : arrived[t] <= arrived'[t] /\ roleRev[t] <= roleRev'[t]
    BY <1>0, <1>s, <2>2 DEF SourceType
  <2> QED
    BY <1>0, <2>1, <2>2, <2>3 DEF SourceOK, SourceType, SourceMoves
<1>4. ASSUME NEW s \in Sessions, CompleteSession(s) \/ SegmentsAge(s) PROVE SourceOK
  <2>1. UNCHANGED <<arrived, elder, roleRev>>
    BY <1>4 DEF CompleteSession, SegmentsAge
  <2>2. closed' \in [Sessions -> BOOLEAN] /\ aged' \in [Sessions -> 0 .. MaxSegments]
    BY <1>0, <1>s, <1>4 DEF CompleteSession, SegmentsAge, SourceType
  <2> QED
    BY <1>0, <1>s, <2>1, <2>2 DEF SourceOK, SourceType, SourceMoves
<1>5. CASE UNCHANGED sourceVars
  BY <1>0, <1>s, <1>5 DEF SourceOK, SourceType, SourceMoves, sourceVars
<1>6. CASE Environment
  BY <1>1, <1>2, <1>3, <1>4, <1>5, <1>6 DEF Environment, ChangeConsent, SupersedeMemory, JobAges
<1> QED
  BY <1>5, <1>6, RunFrame, ScanFrame DEF Next, ReconcileRunning, Crash, vars

(* Every step keeps the types of the policy, of the consumption and of the *)
(* working memory.                                                         *)
LEMMA WorkStep == Inv /\ [Next]_vars => PolicyType' /\ WorkType' /\ crashes' \in 0 .. MaxCrashes
<1> DEFINE Goal == PolicyType' /\ WorkType' /\ crashes' \in 0 .. MaxCrashes
<1> SUFFICES ASSUME Inv, [Next]_vars PROVE Goal
  OBVIOUS
<1>0. PolicyType /\ WorkType /\ crashes \in 0 .. MaxCrashes
  BY DEF Inv, TypeOK, PolicyType, WorkType
<1>b. MaxDrift \in Nat /\ MaxHistory \in Nat /\ MaxCrashes \in Nat
  BY MaintainerBounds
<1>s. ASSUME NEW s \in Sessions
      PROVE  /\ arrived[s] \in Nat /\ roleRev[s] \in Nat
             /\ memory[s] \in 0 .. MaxHistory /\ policyRev[s] \in 0 .. MaxDrift
             /\ MoreHistory(s) => memory[s] + 1 \in 0 .. MaxHistory
             /\ MayDrift(s) => policyRev[s] + 1 \in 0 .. MaxDrift
  <2>1. /\ arrived[s] \in Nat /\ roleRev[s] \in Nat
        /\ memory[s] \in 0 .. MaxHistory /\ policyRev[s] \in 0 .. MaxDrift
    BY DEF Inv, TypeOK
  <2> QED
    BY <1>b, <2>1 DEF MoreHistory, MayDrift
<1>1. ASSUME NEW s \in Sessions, ChangeConsent(s) PROVE Goal
  <2>1. allowed' \in [Sessions -> BOOLEAN] /\ policyRev' \in [Sessions -> 0 .. MaxDrift]
    BY <1>0, <1>s, <1>1 DEF ChangeConsent, PolicyType
  <2> QED
    BY <1>0, <1>1, <2>1 DEF ChangeConsent, workVars, PolicyType, WorkType
<1>2. ASSUME NEW s \in Sessions, SupersedeMemory(s) PROVE Goal
  <2>1. memory' \in [Sessions -> 0 .. MaxHistory]
    BY <1>0, <1>s, <1>2 DEF SupersedeMemory, WorkType
  <2> QED
    BY <1>0, <1>2, <2>1 DEF SupersedeMemory, policyVars, PolicyType, WorkType
<1>3. ASSUME NEW w \in Workers, NEW s \in Sessions, WriteBack(w, s) PROVE Goal
  <2>1. consumedBy' \in [Sessions -> [Segments -> 0 .. MaxJobs]]
    <3> DEFINE j == run[w][s].job
    <3>1. j \in 0 .. MaxJobs
      BY DEF Inv, TypeOK, RunRecords
    <3>2. UNCHANGED consumedBy \/ Consume(s, j)
      BY <1>3 DEF WriteBack
    <3> HIDE DEF j
    <3>3. ASSUME Consume(s, j) PROVE consumedBy' \in [Sessions -> [Segments -> 0 .. MaxJobs]]
      <4>1. consumedBy[s] \in [Segments -> 0 .. MaxJobs]
        BY <1>0 DEF WorkType
      <4>2. [i \in Segments |-> IF i \in jobs[j].trigger.batch THEN j ELSE consumedBy[s][i]]
              \in [Segments -> 0 .. MaxJobs]
        BY <3>1, <4>1
      <4> QED
        BY <1>0, <3>3, <4>2 DEF Consume, WorkType
    <3> QED
      BY <1>0, <3>2, <3>3 DEF WorkType
  <2>2. memory' \in [Sessions -> 0 .. MaxHistory]
    <3>1. UNCHANGED memory \/ \E m \in 0 .. MaxHistory : memory' = [memory EXCEPT ![s] = m]
      BY <1>s, <1>3 DEF WriteBack
    <3> QED
      BY <1>0, <3>1 DEF WorkType
  <2>3. UNCHANGED <<policyVars, crashes>>
    BY <1>3 DEF WriteBack
  <2> QED
    BY <1>0, <2>1, <2>2, <2>3 DEF policyVars, PolicyType, WorkType
<1>4. ASSUME NEW w \in Workers, Crash(w) PROVE Goal
  <2>1. crashes' \in 0 .. MaxCrashes
    BY <1>0, <1>b, <1>4 DEF Crash
  <2> QED
    BY <1>0, <1>4, <2>1 DEF Crash, policyVars, workVars, PolicyType, WorkType
<1>5. CASE UNCHANGED <<policyVars, consumedBy, memory, crashes>>
  BY <1>0, <1>5 DEF policyVars, PolicyType, WorkType
<1> HIDE DEF Goal
<1>6. CASE Environment
  BY <1>1, <1>2, <1>5, <1>6 DEF Environment, Arrive, CorrectRole, Calibrate, CompleteSession,
     SegmentsAge, JobAges, workVars
<1> QED
  BY <1>3, <1>4, <1>5, <1>6, RunFrame, ScanFrame
     DEF Next, ReconcileRunning, vars, workVars

(* Every step keeps every variable in its type. *)
LEMMA TypeStep == Inv /\ [Next]_vars => TypeOK'
BY JobsMoveStep, RunTypeStep, SourceStep, WorkStep
   DEF TypeOK, JobsMove, RunMap, ScanMap, SourceOK, SourceType, PolicyType, WorkType

-----------------------------------------------------------------------------
(* The invariant is kept, part by part                                     *)

(* The steps as far as jobs are concerned: none is added and none succeeds, *)
(* one is recorded or frozen, or the job of a run succeeds.                *)
LEMMA StepKinds ==
  ASSUME Inv, [Next]_vars
  PROVE  \/ QuietJobs /\ UNCHANGED consumedBy
         \/ \E w \in Workers, s \in Sessions :
           /\ UNCHANGED sourceVars
           /\ \/ /\ UNCHANGED consumedBy /\ Records(w, s)
                 /\ Adds(run[w][s].trigger, 1, 0, Unjudged)
              \/ /\ UNCHANGED consumedBy /\ Freezes(w, s)
                 /\ Adds(run[w][s].trigger, run[w][s].attempt, run[w][s].memory, Frozen)
              \/ /\ Succeeds(w, s) /\ JobsMove /\ Len(jobs') = Len(jobs)
                 /\ jobs'[run[w][s].job].status = "succeeded"
                 /\ \A i \in 1 .. Len(jobs) : i # run[w][s].job => jobs'[i] = jobs[i]
<1> DEFINE Goal == \/ QuietJobs /\ UNCHANGED consumedBy
         \/ \E w \in Workers, s \in Sessions :
           /\ UNCHANGED sourceVars
           /\ \/ /\ UNCHANGED consumedBy /\ Records(w, s)
                 /\ Adds(run[w][s].trigger, 1, 0, Unjudged)
              \/ /\ UNCHANGED consumedBy /\ Freezes(w, s)
                 /\ Adds(run[w][s].trigger, run[w][s].attempt, run[w][s].memory, Frozen)
              \/ /\ Succeeds(w, s) /\ JobsMove /\ Len(jobs') = Len(jobs)
                 /\ jobs'[run[w][s].job].status = "succeeded"
                 /\ \A i \in 1 .. Len(jobs) : i # run[w][s].job => jobs'[i] = jobs[i]
<1>2. ASSUME NEW j \in JobIds, JobAges(j) PROVE Goal
  BY <1>2, JobAgesQuiet DEF JobAges
<1>3. ASSUME NEW w \in Workers, NEW s \in Sessions, RecordUnjudged(w, s) PROVE Goal
  BY <1>3, RecordUnjudgedMoves, SameJobsQuiet DEF RecordUnjudged
<1>4. ASSUME NEW w \in Workers, NEW s \in Sessions, FreezeJob(w, s) PROVE Goal
  BY <1>4, FreezeMoves, SameJobsQuiet DEF FreezeJob
<1>5. ASSUME NEW w \in Workers, NEW s \in Sessions, CallProvider(w, s) PROVE Goal
  BY <1>5, CallProviderQuiet DEF CallProvider
<1>6. ASSUME NEW w \in Workers, NEW s \in Sessions, WriteBack(w, s) PROVE Goal
  BY <1>6, WriteBackMoves, RunFrame DEF QuietJobs, RunStep
<1>7. ASSUME NEW w \in Workers, NEW s \in Sessions, CloseTrace(w, s) PROVE Goal
  BY <1>7, CloseTraceQuiet DEF CloseTrace
<1>8. ASSUME NEW w \in Workers, ScanStart(w) \/ ScanTraces(w) PROVE Goal
  BY <1>8, ScanStartQuiet, ScanTracesQuiet DEF ScanStart, ScanTraces
<1>9. ASSUME UNCHANGED <<jobs, consumedBy>> PROVE Goal
  BY <1>9, SameJobsQuiet
<1> HIDE DEF Goal
<1>10. ASSUME NEW w \in Workers, NEW s \in Sessions,
              Select(w, s) \/ Prepare(w, s) \/ BuildContext(w, s) \/ Wake(w, s) \/ RequestFinalFlush(w, s)
       PROVE  Goal
  BY <1>9, <1>10 DEF Select, Prepare, BuildContext, Wake, RequestFinalFlush, Begin, workVars
<1>11. ASSUME NEW w \in Workers, ScanVisit(w) \/ Crash(w) PROVE Goal
  BY <1>9, <1>11 DEF ScanVisit, Crash, workVars
<1>12. ASSUME Environment PROVE Goal
  BY <1>2, <1>9, <1>12 DEF Environment, workVars, Arrive, CorrectRole, Calibrate,
     CompleteSession, SegmentsAge, ChangeConsent, SupersedeMemory
<1>13. ASSUME UNCHANGED vars PROVE Goal
  BY <1>9, <1>13 DEF vars, workVars
<1>14. ASSUME NEW j \in JobIds, ReconcileRunning(j) PROVE Goal
  BY <1>14, ReconcileQuiet DEF ReconcileRunning, Goal
<1>15. Goal
  BY <1>3, <1>4, <1>5, <1>6, <1>7, <1>8, <1>10, <1>11, <1>12, <1>13, <1>14
     DEF Next, RunStep, ScanStep
<1> QED
  BY <1>15 DEF Goal

(* What is true of a job stays true of it, whatever becomes of its source. *)
LEMMA JobOKKept ==
  ASSUME Inv, JobsMove, SourceOK, NEW j \in 1 .. Len(jobs)
  PROVE  JobOK(j)'
<1> DEFINE s == jobs[j].trigger.session
<1>1. JobOK(j) /\ Keeps(j) /\ jobs[j] \in JobRecords
  BY DEF Inv, JobInv, JobsMove, Evolve, TypeOK
<1>2. jobs'[j].trigger = jobs[j].trigger /\ jobs'[j].attempt = jobs[j].attempt
      /\ jobs'[j].roleRev = jobs[j].roleRev
  BY <1>1 DEF Keeps, SameInput
<1>3. s \in Sessions
  BY <1>1 DEF JobOK
<1>4. /\ arrived[s] \in Nat /\ arrived'[s] \in Nat /\ arrived[s] <= arrived'[s]
      /\ roleRev[s] \in Nat /\ roleRev'[s] \in Nat /\ roleRev[s] <= roleRev'[s]
      /\ roleRev'[s] = roleRev[s] => \A i \in 1 .. arrived[s] : elder'[s][i] = elder[s][i]
  BY <1>3 DEF SourceOK, SourceType, SourceMoves, Inv, TypeOK
<1>5. jobs[j].roleRev \in Nat
  BY <1>1 DEF JobRecords
<1>6. jobs'[j].status = "running" => jobs[j].status = "running"
  BY <1>1 DEF Keeps
<1>7. jobs'[j].code = "MEMORY_UNJUDGED" => jobs'[j].status = "cancelled"
  BY <1>1 DEF Keeps, JobOK
<1>8. /\ jobs[j].trigger.batch \subseteq 1 .. arrived'[s]
      /\ jobs[j].roleRev <= roleRev'[s]
  BY <1>1, <1>4, <1>5 DEF JobOK
<1>9. ASSUME jobs'[j].status = "running", jobs[j].roleRev = roleRev'[s]
      PROVE  \A i \in jobs[j].trigger.batch : elder'[s][i] # -1
  BY <1>1, <1>4, <1>5, <1>6, <1>9 DEF JobOK
<1> QED
  BY <1>1, <1>2, <1>3, <1>7, <1>8, <1>9 DEF JobOK

(* What is true of every job stays true, of a new job as well. *)
LEMMA JobInvStep == ASSUME Inv, [Next]_vars PROVE JobInv'
<1>1. JobsMove /\ SourceOK
  BY JobsMoveStep, SourceStep
<1>2. \A j \in 1 .. Len(jobs) : JobOK(j)'
  BY <1>1, JobOKKept
<1>3. Len(jobs) \in Nat
  BY DEF Inv, TypeOK
<1> PICK k \in Nat : k = Len(jobs) + 1
  BY <1>3
<1>4. ASSUME NEW w \in Workers, NEW s \in Sessions,
             UNCHANGED <<arrived, roleRev, elder>>,
             NEW t, t = run[w][s].trigger, t.session = s, t.batch \subseteq 1 .. arrived[s],
             NEW n \in 1 .. Len(jobs) + 1, NEW m, NEW o \in NewOutcomes, Adds(t, n, m, o),
             o = Frozen => \A i \in t.batch : elder[s][i] # -1
      PROVE  JobOK(k)'
  <2> DEFINE e == jobs'[k]
  <2>1. /\ e.trigger = t /\ e.attempt = n /\ e.status = o[1] /\ e.code = o[2]
        /\ e.roleRev = roleRev[s] /\ Len(jobs') = Len(jobs) + 1
    BY <1>4 DEF Adds
  <2>2. roleRev[s] \in Nat
    BY DEF Inv, TypeOK
  <2>3. \/ o = Frozen /\ o[1] = "running" /\ o[2] = "none"
        \/ o[1] = "cancelled"
    BY DEF NewOutcomes, Frozen
  <2>4. /\ arrived' = arrived /\ roleRev' = roleRev /\ elder' = elder
        /\ e.trigger.session = s /\ e.trigger.batch = t.batch
    BY <1>4, <2>1
  <2>5. e.status = "running" => \A i \in t.batch : elder[s][i] # -1
    BY <1>4, <2>1, <2>3
  <2>6. e.code = "MEMORY_UNJUDGED" => e.status = "cancelled"
    BY <2>1, <2>3
  <2>7. e.attempt <= k /\ e.roleRev <= roleRev[s]
    BY <1>3, <1>4, <2>1, <2>2
  <2> QED
    BY <1>4, <2>4, <2>5, <2>6, <2>7 DEF JobOK
<1>5. ASSUME NEW w \in Workers, NEW s \in Sessions, Records(w, s),
             Adds(run[w][s].trigger, 1, 0, Unjudged), UNCHANGED <<arrived, roleRev, elder>>
      PROVE  JobOK(k)'
  <2>1. Unjudged \in NewOutcomes /\ Unjudged # Frozen /\ 1 \in 1 .. Len(jobs) + 1
    BY <1>3 DEF NewOutcomes, Unjudged, Frozen
  <2>2. run[w][s].trigger.session = s /\ run[w][s].trigger.batch \subseteq 1 .. arrived[s]
    BY <1>5 DEF Records, Inv, RunInv, RunOK, WithBatch
  <2> QED
    BY <1>4, <1>5, <2>1, <2>2
<1>6. ASSUME NEW w \in Workers, NEW s \in Sessions, Freezes(w, s),
             Adds(run[w][s].trigger, run[w][s].attempt, run[w][s].memory, Frozen),
             UNCHANGED <<arrived, roleRev, elder>>
      PROVE  JobOK(k)'
  <2>1. Frozen \in NewOutcomes
    BY DEF NewOutcomes, Frozen
  <2>2. /\ run[w][s].trigger.session = s /\ run[w][s].trigger.batch \subseteq 1 .. arrived[s]
        /\ \A i \in run[w][s].trigger.batch : elder[s][i] # -1
    BY <1>6 DEF Freezes, FreezeAccepts, Inv, RunInv, RunOK, WithBatch
  <2>3. run[w][s].attempt \in 1 .. Len(jobs) + 1
    BY <1>6, FreezesNext
  <2> QED
    BY <1>4, <1>6, <2>1, <2>2, <2>3
<1>7. CASE Len(jobs') = Len(jobs)
  BY <1>2, <1>7 DEF JobInv
<1>8. CASE Len(jobs') = Len(jobs) + 1 /\ JobOK(k)'
  BY <1>2, <1>3, <1>8 DEF JobInv
<1> QED
  BY <1>5, <1>6, <1>7, <1>8, StepKinds DEF QuietJobs, Adds, sourceVars

(* The consumption names jobs, and exactly those that succeeded. *)
LEMMA ConsumedStep == ASSUME Inv, [Next]_vars PROVE ConsumptionInv' /\ ConsumedByItsJob'
<1>1. JobsMove /\ Len(jobs) \in Nat /\ Len(jobs') \in Nat
  BY JobsMoveStep DEF JobsMove, Inv, TypeOK
<1>2. /\ Len(jobs) <= Len(jobs')
      /\ \A j \in 1 .. Len(jobs) :
           /\ jobs'[j].trigger = jobs[j].trigger
           /\ jobs[j].status = "succeeded" => jobs'[j].status = "succeeded"
  BY <1>1 DEF JobsMove, Evolve, Keeps, SameInput
<1>3. \A s \in Sessions, i \in Segments :
        /\ consumedBy[s][i] \in 0 .. Len(jobs)
        /\ consumedBy[s][i] # 0 =>
             /\ jobs[consumedBy[s][i]].status = "succeeded"
             /\ jobs[consumedBy[s][i]].trigger.session = s
             /\ i \in jobs[consumedBy[s][i]].trigger.batch
  BY DEF Inv, ConsumptionInv, ConsumedByItsJob
<1>4. \A j \in 1 .. Len(jobs) : jobs[j].status = "succeeded" =>
        \A i \in jobs[j].trigger.batch : consumedBy[jobs[j].trigger.session][i] = j
  BY DEF Inv, ConsumedByItsJob
<1>5. ASSUME UNCHANGED consumedBy, 
             \A j \in 1 .. Len(jobs') : jobs'[j].status = "succeeded" =>
               j <= Len(jobs) /\ jobs[j].status = "succeeded"
      PROVE  ConsumptionInv' /\ ConsumedByItsJob'
  <2>1. ConsumptionInv'
    BY <1>1, <1>2, <1>3, <1>5 DEF ConsumptionInv
  <2>2. ASSUME NEW s \in Sessions, NEW i \in Segments, consumedBy[s][i] # 0
        PROVE  /\ jobs'[consumedBy[s][i]].status = "succeeded"
               /\ jobs'[consumedBy[s][i]].trigger.session = s
               /\ i \in jobs'[consumedBy[s][i]].trigger.batch
    <3>1. consumedBy[s][i] \in 1 .. Len(jobs)
      BY <1>1, <1>3, <2>2
    <3> QED
      BY <1>2, <1>3, <2>2, <3>1
  <2>3. ASSUME NEW j \in 1 .. Len(jobs'), jobs'[j].status = "succeeded"
        PROVE  \A i \in jobs'[j].trigger.batch : consumedBy[jobs'[j].trigger.session][i] = j
    BY <1>1, <1>2, <1>4, <1>5, <2>3
  <2> QED
    BY <1>5, <2>1, <2>2, <2>3 DEF ConsumedByItsJob
<1>6. CASE QuietJobs /\ UNCHANGED consumedBy
  BY <1>5, <1>6 DEF QuietJobs, NoSuccess
<1>7. ASSUME UNCHANGED consumedBy, NEW t, NEW n, NEW m, NEW o \in {Frozen, Unjudged}, Adds(t, n, m, o)
      PROVE  ConsumptionInv' /\ ConsumedByItsJob'
  <2>1. jobs'[Len(jobs) + 1].status # "succeeded"
    BY <1>7 DEF Adds, Frozen, Unjudged
  <2>2. Len(jobs') = Len(jobs) + 1 /\ \A i \in 1 .. Len(jobs) : jobs'[i] = jobs[i]
    BY <1>7 DEF Adds
  <2> QED
    BY <1>1, <1>5, <1>7, <2>1, <2>2
<1>8. ASSUME NEW w \in Workers, NEW s \in Sessions, Succeeds(w, s), Len(jobs') = Len(jobs),
             jobs'[run[w][s].job].status = "succeeded",
             \A i \in 1 .. Len(jobs) : i # run[w][s].job => jobs'[i] = jobs[i]
      PROVE  ConsumptionInv' /\ ConsumedByItsJob'
  <2> DEFINE j == run[w][s].job
             b == jobs[j].trigger.batch
  <2>1. j \in 1 .. Len(jobs) /\ jobs[j].trigger.session = s
    BY <1>8 DEF Succeeds, Inv, RunInv, RunOK, AtWork, Holding
  <2>2. /\ \A i \in b : consumedBy[s][i] = 0
        /\ consumedBy' = [consumedBy EXCEPT ![s] =
                            [i \in Segments |-> IF i \in b THEN j ELSE @[i]]]
    BY <1>8 DEF Succeeds, Consume
  <2>3. jobs'[j].trigger = jobs[j].trigger /\ jobs[j].trigger.batch \subseteq Segments
    <3>1. jobs[j] \in JobRecords
      BY <2>1 DEF Inv, TypeOK
    <3> QED
      BY <1>2, <2>1, <3>1 DEF JobRecords, Triggers, Batches
  <2> HIDE DEF j, b
  <2>4. consumedBy \in [Sessions -> [Segments -> 0 .. MaxJobs]]
    BY DEF Inv, TypeOK
  <2>5. \A t \in Sessions, i \in Segments :
          consumedBy'[t][i] = IF t = s /\ i \in b THEN j ELSE consumedBy[t][i]
    BY <2>2, <2>4
  <2>6. ConsumptionInv'
    BY <1>1, <1>3, <1>8, <2>1, <2>5 DEF ConsumptionInv
  <2>7. ASSUME NEW t \in Sessions, NEW i \in Segments, consumedBy'[t][i] # 0
        PROVE  /\ jobs'[consumedBy'[t][i]].status = "succeeded"
               /\ jobs'[consumedBy'[t][i]].trigger.session = t
               /\ i \in jobs'[consumedBy'[t][i]].trigger.batch
    <3>1. CASE t = s /\ i \in b
      BY <1>8, <2>1, <2>3, <2>5, <3>1 DEF j, b
    <3>2. CASE ~(t = s /\ i \in b)
      <4>1. consumedBy'[t][i] = consumedBy[t][i] /\ consumedBy[t][i] \in 1 .. Len(jobs)
        BY <1>1, <1>3, <2>5, <2>7, <3>2
      <4> QED
        BY <1>2, <1>3, <2>7, <4>1
    <3> QED
      BY <3>1, <3>2
  <2>8. ASSUME NEW k \in 1 .. Len(jobs), jobs'[k].status = "succeeded"
        PROVE  \A i \in jobs'[k].trigger.batch : consumedBy'[jobs'[k].trigger.session][i] = k
    <3>1. CASE k = j
      BY <1>8, <2>1, <2>3, <2>5, <3>1 DEF b
    <3>2. CASE k # j
      <4>1. jobs'[k] = jobs[k]
        BY <1>8, <3>2 DEF j
      <4>2. JobOK(k) /\ jobs[k] \in JobRecords
        BY DEF Inv, JobInv, TypeOK
      <4>3. jobs[k].trigger.session \in Sessions /\ jobs[k].trigger.batch \subseteq Segments
        BY <4>2 DEF JobOK, JobRecords, Triggers, Batches
      <4>4. ASSUME NEW i \in jobs[k].trigger.batch
            PROVE  consumedBy[jobs[k].trigger.session][i] = k
        BY <1>4, <2>8, <4>1
      <4>5. ASSUME NEW i \in jobs[k].trigger.batch
            PROVE  ~(jobs[k].trigger.session = s /\ i \in b)
        BY <2>2, <4>4, <4>5
      <4> QED
        BY <2>5, <4>1, <4>3, <4>4, <4>5
    <3> QED
      BY <3>1, <3>2
  <2> QED
    BY <1>8, <2>6, <2>7, <2>8 DEF ConsumedByItsJob
<1> QED
  BY <1>6, <1>7, <1>8, StepKinds

(* Before a job is frozen, its trigger has failed attempts with smaller    *)
(* numbers only, the one before it among them, all about the same memory.  *)
LEMMA FreezesAfterFailures ==
  ASSUME Inv, NEW w \in Workers, NEW s \in Sessions, Freezes(w, s)
  PROVE  LET r == run[w][s] IN
         \A j \in JobsOf(r.trigger) :
           /\ jobs[j].status = "failed" /\ jobs[j].attempt < r.attempt
           /\ jobs[j].memory = r.memory
           /\ HasPredecessor(r)
<1> DEFINE r == run[w][s]
<1> SUFFICES ASSUME NEW j \in JobsOf(r.trigger)
             PROVE  /\ jobs[j].status = "failed" /\ jobs[j].attempt < r.attempt
                    /\ jobs[j].memory = r.memory
                    /\ HasPredecessor(r)
  OBVIOUS
<1>1. /\ r.stage = "prepared" /\ ~Replayed(r)
      /\ \A i \in JobsOf(r.trigger) : jobs[i].attempt < r.attempt
  BY DEF Freezes, FreezeAccepts, FollowsLatest
<1>2. r.attempt = 1 \/ HasPredecessor(r)
  BY <1>1 DEF Inv, RunInv, RunOK
<1>3. \A i \in JobsOf(r.trigger) :
        i \in 1 .. Len(jobs) /\ jobs[i].trigger = r.trigger /\ jobs[i].attempt \in Nat \ {0}
  <2>1. \A i \in 1 .. Len(jobs) : jobs[i] \in JobRecords
    BY DEF Inv, TypeOK
  <2> QED
    BY <2>1 DEF JobsOf, JobRecords, JobIds
<1>4. r.attempt # 1
  BY <1>1, <1>3
<1>5. PICK k \in JobsOf(r.trigger) :
        jobs[k].status = "failed" /\ jobs[k].attempt = r.attempt - 1 /\ jobs[k].memory = r.memory
  BY <1>2, <1>4 DEF HasPredecessor
<1>6. jobs[j].memory = r.memory
  BY <1>3, <1>5 DEF Inv, RetriesSameInput
<1>7. jobs[j].status = "failed"
  <2>1. CASE j < k
    BY <1>3, <2>1 DEF Inv, OneLiveJobPerTrigger
  <2>2. CASE j = k
    BY <1>5, <2>2
  <2>3. CASE k < j
    <3>1. jobs[k].attempt < jobs[j].attempt
      BY <1>3, <2>3 DEF Inv, OneLiveJobPerTrigger
    <3>2. r.attempt \in Nat
      BY DEF Inv, TypeOK, RunRecords
    <3> QED
      BY <1>1, <1>3, <1>5, <3>1, <3>2
  <2> QED
    BY <1>3, <2>1, <2>2, <2>3
<1> QED
  BY <1>1, <1>2, <1>4, <1>6, <1>7

(* The attempts of a trigger stay in order, live one at a time and about   *)
(* the same memory.                                                        *)
LEMMA AttemptsStep == ASSUME Inv, [Next]_vars PROVE OneLiveJobPerTrigger' /\ RetriesSameInput'
<1>1. JobsMove /\ Len(jobs) \in Nat /\ Len(jobs') \in Nat
  BY JobsMoveStep DEF JobsMove, Inv, TypeOK
<1>2. /\ Len(jobs) <= Len(jobs')
      /\ \A j \in 1 .. Len(jobs) :
           /\ jobs'[j].trigger = jobs[j].trigger /\ jobs'[j].attempt = jobs[j].attempt
           /\ jobs'[j].memory = jobs[j].memory
           /\ jobs[j].status = "failed" => jobs'[j].status = "failed"
  BY <1>1 DEF JobsMove, Evolve, Keeps, SameInput
<1>3. ASSUME NEW j \in 1 .. Len(jobs), NEW k \in 1 .. Len(jobs),
             jobs'[j].trigger = jobs'[k].trigger
      PROVE  /\ j < k => /\ jobs'[j].status = "failed"
                         /\ jobs'[j].attempt < jobs'[k].attempt
                         /\ \E i \in 1 .. Len(jobs') :
                              /\ jobs'[i].trigger = jobs'[k].trigger
                              /\ jobs'[i].attempt = jobs'[k].attempt - 1
             /\ jobs'[j].memory = jobs'[k].memory
  <2>1. jobs[j].trigger = jobs[k].trigger
    BY <1>2, <1>3
  <2>2. jobs[j].memory = jobs[k].memory
    BY <2>1 DEF Inv, RetriesSameInput
  <2>3. ASSUME j < k
        PROVE  /\ jobs[j].status = "failed" /\ jobs[j].attempt < jobs[k].attempt
               /\ \E i \in 1 .. Len(jobs) :
                    jobs[i].trigger = jobs[k].trigger /\ jobs[i].attempt = jobs[k].attempt - 1
    BY <2>1, <2>3 DEF Inv, OneLiveJobPerTrigger
  <2> QED
    BY <1>1, <1>2, <2>2, <2>3
<1>4. CASE Len(jobs') = Len(jobs)
  BY <1>3, <1>4 DEF OneLiveJobPerTrigger, RetriesSameInput
<1>5. ASSUME NEW t, NEW n, NEW m, NEW o, Adds(t, n, m, o),
             \A j \in 1 .. Len(jobs) : jobs[j].trigger = t =>
               /\ jobs[j].status = "failed" /\ jobs[j].attempt < n /\ jobs[j].memory = m
               /\ \E i \in 1 .. Len(jobs) : jobs[i].trigger = t /\ jobs[i].attempt = n - 1
      PROVE  OneLiveJobPerTrigger' /\ RetriesSameInput'
  <2> DEFINE z == Len(jobs) + 1
  <2>1. /\ Len(jobs') = z /\ jobs'[z].trigger = t /\ jobs'[z].attempt = n /\ jobs'[z].memory = m
    BY <1>5 DEF Adds
  <2>2. \A j \in 1 .. z : j \in 1 .. Len(jobs) \/ j = z
    BY <1>1
  <2>3. ASSUME NEW j \in 1 .. Len(jobs), jobs'[j].trigger = t
        PROVE  /\ jobs'[j].status = "failed" /\ jobs'[j].attempt < n /\ jobs'[j].memory = m
               /\ \E i \in 1 .. z : jobs'[i].trigger = t /\ jobs'[i].attempt = n - 1
    BY <1>1, <1>2, <1>5, <2>3
  <2> HIDE DEF z
  <2>4. z = Len(jobs) + 1
    BY DEF z
  <2>5. OneLiveJobPerTrigger'
    <3> SUFFICES ASSUME NEW j \in 1 .. z, NEW k \in 1 .. z, j < k,
                        jobs'[j].trigger = jobs'[k].trigger
                 PROVE  /\ jobs'[j].status = "failed"
                        /\ jobs'[j].attempt < jobs'[k].attempt
                        /\ \E i \in 1 .. z : /\ jobs'[i].trigger = jobs'[k].trigger
                                             /\ jobs'[i].attempt = jobs'[k].attempt - 1
      BY <2>1 DEF OneLiveJobPerTrigger
    <3>1. j \in 1 .. Len(jobs)
      BY <1>1, <2>2, <2>4
    <3>2. CASE k = z
      BY <2>1, <2>3, <3>1, <3>2
    <3>3. CASE k \in 1 .. Len(jobs)
      BY <1>3, <2>1, <3>1, <3>3
    <3> QED
      BY <2>2, <3>2, <3>3
  <2>6. RetriesSameInput'
    BY <1>3, <2>1, <2>2, <2>3 DEF RetriesSameInput
  <2> QED
    BY <2>5, <2>6
<1>6. ASSUME NEW w \in Workers, NEW s \in Sessions, Records(w, s),
             Adds(run[w][s].trigger, 1, 0, Unjudged)
      PROVE  OneLiveJobPerTrigger' /\ RetriesSameInput'
  <2>1. \A j \in 1 .. Len(jobs) : jobs[j].trigger # run[w][s].trigger
    BY <1>6 DEF Records, JobsOf
  <2> QED
    BY <1>5, <1>6, <2>1
<1>7. ASSUME NEW w \in Workers, NEW s \in Sessions, Freezes(w, s),
             Adds(run[w][s].trigger, run[w][s].attempt, run[w][s].memory, Frozen)
      PROVE  OneLiveJobPerTrigger' /\ RetriesSameInput'
  <2>1. \A j \in 1 .. Len(jobs) : jobs[j].trigger = run[w][s].trigger =>
          /\ jobs[j].status = "failed" /\ jobs[j].attempt < run[w][s].attempt
          /\ jobs[j].memory = run[w][s].memory
          /\ \E i \in 1 .. Len(jobs) : /\ jobs[i].trigger = run[w][s].trigger
                                       /\ jobs[i].attempt = run[w][s].attempt - 1
    BY <1>7, FreezesAfterFailures DEF JobsOf, HasPredecessor
  <2> QED
    BY <1>5, <1>7, <2>1
<1> QED
  BY <1>4, <1>6, <1>7, StepKinds DEF QuietJobs

-----------------------------------------------------------------------------
(* What the runs know stays true                                           *)

(* The jobs of the runs that are at work have not succeeded behind them.   *)
StillOpen(w, s) ==
  run[w][s].stage \in AtWork => jobs'[run[w][s].job].status # "succeeded"

(* Nothing succeeds but by the run that has the job.                       *)
LEMMA OthersStillOpen ==
  ASSUME Inv, [Next]_vars, NEW v \in Workers, NEW t \in Sessions
  PROVE  StillOpen(v, t) \/ Succeeds(v, t)
<1>1. \A w \in Workers, s \in Sessions : run[w][s].stage \in AtWork =>
        /\ run[w][s].stage \in Holding
        /\ run[w][s].job \in 1 .. Len(jobs) /\ jobs[run[w][s].job].status # "succeeded"
  BY DEF Inv, RunInv, RunOK, AtWork, Holding
<1>2. CASE NoSuccess
  BY <1>1, <1>2 DEF StillOpen, NoSuccess
<1>3. CASE \A i \in 1 .. Len(jobs) : jobs'[i] = jobs[i]
  BY <1>1, <1>3 DEF StillOpen
<1>4. ASSUME NEW w \in Workers, NEW s \in Sessions, Succeeds(w, s),
             \A i \in 1 .. Len(jobs) : i # run[w][s].job => jobs'[i] = jobs[i]
      PROVE  StillOpen(v, t) \/ Succeeds(v, t)
  <2>1. run[w][s].stage \in Holding
    BY <1>4 DEF Succeeds, AtWork, Holding
  <2>2. CASE v # w \/ t # s
    BY <1>1, <1>4, <2>1, <2>2 DEF StillOpen, Inv, OwnJob
  <2> QED
    BY <1>4, <2>2
<1> QED
  BY <1>2, <1>3, <1>4, StepKinds DEF QuietJobs, Adds

(* A run that is left alone knows what it knew. *)
LEMMA RunOKKept ==
  ASSUME Inv, JobsMove, SourceOK, NEW w \in Workers, NEW s \in Sessions,
         StillOpen(w, s), run'[w][s] = run[w][s]
  PROVE  RunOK(run[w][s], s)'
<1> PICK r : r = run[w][s]
  OBVIOUS
<1>1. RunOK(r, s) /\ r \in RunRecords
  BY DEF Inv, RunInv, TypeOK
<1>2. /\ Len(jobs) \in Nat /\ Len(jobs') \in Nat /\ Len(jobs) <= Len(jobs')
      /\ arrived[s] \in Nat /\ arrived'[s] \in Nat /\ arrived[s] <= arrived'[s]
  BY DEF Inv, TypeOK, JobsMove, Evolve, SourceOK, SourceType, SourceMoves
<1>3. \A j \in 1 .. Len(jobs) :
        /\ j \in 1 .. Len(jobs')
        /\ jobs'[j].trigger = jobs[j].trigger /\ jobs'[j].attempt = jobs[j].attempt
        /\ jobs'[j].memory = jobs[j].memory
        /\ jobs[j].status # "running" => jobs'[j].status = jobs[j].status
  BY <1>2 DEF JobsMove, Evolve, Keeps, SameInput
<1>4. r.stage \in WithBatch =>
        r.trigger.session = s /\ r.trigger.batch \subseteq 1 .. arrived'[s]
  BY <1>1, <1>2 DEF RunOK
<1>5. HasPredecessor(r) => HasPredecessor(r)'
  <2> SUFFICES ASSUME HasPredecessor(r)
               PROVE  \E j \in 1 .. Len(jobs') :
                        /\ jobs'[j].trigger = r.trigger /\ jobs'[j].status = "failed"
                        /\ jobs'[j].attempt = r.attempt - 1 /\ jobs'[j].memory = r.memory
    BY DEF HasPredecessor, JobsOf
  <2>1. PICK j \in 1 .. Len(jobs) :
          /\ jobs[j].trigger = r.trigger /\ jobs[j].status = "failed"
          /\ jobs[j].attempt = r.attempt - 1 /\ jobs[j].memory = r.memory
    BY DEF HasPredecessor, JobsOf
  <2> QED
    BY <1>3, <2>1
<1>6. r.stage \in Holding =>
        r.job \in 1 .. Len(jobs') /\ jobs'[r.job].trigger.session = s
  BY <1>1, <1>3 DEF RunOK
<1>7. r.stage \in AtWork => jobs'[r.job].status # "succeeded"
  BY DEF StillOpen
<1>8. r.stage = "closing" =>
        jobs'[r.job].status \in IF r.ok THEN {"succeeded"} ELSE {"failed", "cancelled"}
  <2> SUFFICES ASSUME r.stage = "closing"
               PROVE  jobs'[r.job].status \in IF r.ok THEN {"succeeded"} ELSE {"failed", "cancelled"}
    OBVIOUS
  <2>1. r.job \in 1 .. Len(jobs)
        /\ jobs[r.job].status \in IF r.ok THEN {"succeeded"} ELSE {"failed", "cancelled"}
    BY <1>1 DEF RunOK, Holding
  <2>2. jobs[r.job].status # "running"
    BY <2>1
  <2> QED
    BY <1>3, <2>1, <2>2
<1>9. RunOK(r, s)'
  BY <1>1, <1>4, <1>5, <1>6, <1>7, <1>8 DEF RunOK
<1> QED
  BY <1>9

(* A run whose job succeeds goes on to close it. *)
LEMMA SucceedingCloses ==
  ASSUME Inv, NEW w \in Workers, NEW s \in Sessions, Succeeds(w, s)
  PROVE  run'[w][s] # run[w][s]
<1> DEFINE r == [run[w][s] EXCEPT !.stage = "closing", !.ok = TRUE]
<1>1. run[w][s] \in RunRecords /\ run[w][s].stage = "answered"
  BY DEF Inv, TypeOK, Succeeds
<1>2. r \in RunRecords /\ r.stage = "closing"
  BY <1>1 DEF RunRecords, Stage
<1>3. Put(w, s, r)
  BY DEF Succeeds, Close, Continue
<1>4. run'[w][s] = r
  <2> HIDE DEF r
  <2> QED
    BY <1>2, <1>3, PutFacts DEF Inv, TypeOK
<1> QED
  BY <1>1, <1>2, <1>4

(* A run that does not move has no job that succeeds. *)
LEMMA UnmovedStillOpen ==
  ASSUME Inv, [Next]_vars, NEW w \in Workers, NEW s \in Sessions, run'[w][s] = run[w][s]
  PROVE  StillOpen(w, s)
BY OthersStillOpen, SucceedingCloses

(* A step of one run leaves the others what they know and what they hold.  *)
LEMMA OneRunMoves ==
  ASSUME Inv, [Next]_vars, NEW w \in Workers, NEW s \in Sessions,
         NEW r \in RunRecords, Put(w, s, r),
         RunOK(run[w][s], s)',
         r.stage \in Holding =>
           \/ run[w][s].stage \in Holding /\ r.job = run[w][s].job
           \/ r.job = Len(jobs) + 1
  PROVE  RunInv' /\ OwnJob'
<1>1. /\ run'[w][s] = r
      /\ \A v \in Workers, t \in Sessions : v # w \/ t # s => run'[v][t] = run[v][t]
  BY PutFacts DEF Inv, TypeOK
<1>2. RunInv'
  BY <1>1, RunOKKept, UnmovedStillOpen, JobsMoveStep, SourceStep DEF RunInv
<1>3. \A v \in Workers, t \in Sessions : run[v][t].stage \in Holding =>
        run[v][t].job \in 1 .. Len(jobs)
  BY DEF Inv, RunInv, RunOK
<1>4. Len(jobs) \in Nat
  BY DEF Inv, TypeOK
<1>5. OwnJob'
  <2> SUFFICES ASSUME NEW v \in Workers, NEW x \in Workers, NEW t \in Sessions, NEW y \in Sessions,
                      run'[v][t].stage \in Holding, run'[x][y].stage \in Holding,
                      run'[v][t].job = run'[x][y].job
               PROVE  v = x /\ t = y
    BY DEF OwnJob
  <2>1. CASE (v # w \/ t # s) /\ (x # w \/ y # s)
    BY <1>1, <2>1 DEF Inv, OwnJob
  <2>2. CASE (v # w \/ t # s) /\ (x = w /\ y = s)
    BY <1>1, <1>3, <1>4, <2>2 DEF Inv, OwnJob
  <2>3. CASE (v = w /\ t = s) /\ (x # w \/ y # s)
    BY <1>1, <1>3, <1>4, <2>3 DEF Inv, OwnJob
  <2> QED
    BY <2>1, <2>2, <2>3
<1> QED
  BY <1>2, <1>5

(* A step that only moves the source or the jobs keeps what the runs know. *)
LEMMA NoRunMoves ==
  ASSUME Inv, [Next]_vars, UNCHANGED run
  PROVE  RunInv' /\ OwnJob'
<1>1. RunInv'
  BY RunOKKept, UnmovedStillOpen, JobsMoveStep, SourceStep DEF RunInv
<1>2. OwnJob'
  BY DEF Inv, OwnJob
<1> QED
  BY <1>1, <1>2

(* A run that finishes knows nothing more. *)
LEMMA FinishingRun ==
  ASSUME Inv, [Next]_vars, NEW w \in Workers, NEW s \in Sessions, NEW ok, Finish(w, s, ok)
  PROVE  RunInv' /\ OwnJob'
<1>1. Put(w, s, IdleRun) /\ run'[w][s] = IdleRun
  BY FinishFacts, PutFacts, IdleRunType DEF Inv, TypeOK
<1>2. IdleRun.stage \notin WithBatch \cup Holding /\ IdleRun.stage # "prepared"
  BY DEF IdleRun, WithBatch, Holding, AtWork
<1>3. RunOK(run[w][s], s)'
  BY <1>1, <1>2 DEF RunOK, WithBatch, Holding, AtWork
<1> QED
  BY <1>1, <1>2, <1>3, IdleRunType, OneRunMoves

(* A run that goes on keeps the job it holds, if it holds one. *)
LEMMA ContinuingRun ==
  ASSUME Inv, [Next]_vars, NEW w \in Workers, NEW s \in Sessions, NEW r \in RunRecords,
         Continue(w, s, r), run'[w][s] = r => RunOK(run[w][s], s)',
         r.stage \in Holding => run[w][s].stage \in Holding /\ r.job = run[w][s].job
  PROVE  RunInv' /\ OwnJob'
<1>1. Put(w, s, r) /\ run'[w][s] = r
  BY PutFacts DEF Continue, Inv, TypeOK
<1> QED
  BY <1>1, OneRunMoves

(* Selection hands over segments that have arrived. *)
LEMMA SelectKeeps ==
  ASSUME Inv, [Next]_vars, NEW w \in Workers, NEW s \in Sessions, Select(w, s)
  PROVE  RunInv' /\ OwnJob'
<1>0. TypeOK /\ UNCHANGED arrived
  BY DEF Inv, Select, sourceVars
<1> DEFINE b == [IdleRun EXCEPT !.stage = "selected", !.trigger = BatchTrigger(s, NewSegments(s))]
           u == [IdleRun EXCEPT !.stage = "unjudged", !.trigger = UnjudgedTrigger(s, Source(s))]
<1>1. Continue(w, s, b) \/ Continue(w, s, u) \/ Finish(w, s, TRUE)
  BY Zenon DEF Select
<1>2. /\ b \in RunRecords /\ b.stage = "selected" /\ b.trigger = BatchTrigger(s, NewSegments(s))
      /\ u \in RunRecords /\ u.stage = "unjudged" /\ u.trigger = UnjudgedTrigger(s, Source(s))
  BY <1>0, SelectionFacts, IdleRunType DEF RunRecords, Stage
<1>3. \A r \in {b, u} : r.trigger.session = s /\ r.trigger.batch \subseteq 1 .. arrived[s]
  <2>1. /\ BatchTrigger(s, NewSegments(s)).session = s
        /\ BatchTrigger(s, NewSegments(s)).batch = NewSegments(s)
        /\ UnjudgedTrigger(s, Source(s)).session = s
        /\ UnjudgedTrigger(s, Source(s)).batch = DOMAIN Source(s)
    BY DEF BatchTrigger, UnjudgedTrigger
  <2>2. NewSegments(s) \subseteq 1 .. arrived[s] /\ DOMAIN Source(s) = NewSegments(s)
    BY <1>0, SelectionFacts
  <2> HIDE DEF b, u
  <2> QED
    BY <1>2, <2>1, <2>2
<1> HIDE DEF b, u
<1>4. \A r \in {b, u} : run'[w][s] = r => RunOK(run[w][s], s)'
  BY <1>0, <1>2, <1>3 DEF RunOK, Holding, AtWork
<1>5. \A r \in {b, u} : r.stage \notin Holding
  BY <1>2 DEF Holding, AtWork
<1> QED
  BY <1>1, <1>2, <1>4, <1>5, FinishingRun, ContinuingRun

(* What Prepare passes on to the freeze: a first attempt, or one after an  *)
(* attempt that has failed.                                                *)
LEMMA PrepareKeeps ==
  ASSUME Inv, [Next]_vars, NEW w \in Workers, NEW s \in Sessions, Prepare(w, s)
  PROVE  RunInv' /\ OwnJob'
<1>0. TypeOK /\ UNCHANGED <<arrived, jobs>> /\ run[w][s] \in RunRecords
  BY DEF Inv, TypeOK, Prepare, sourceVars, workVars
<1> DEFINE p(t, n, m) == [run[w][s] EXCEPT !.stage = "prepared", !.trigger = t, !.attempt = n,
                                           !.memory = m]
<1>1. PICK k \in RebaseChain(run[w][s].trigger, memory[s]) :
        LET t == After(run[w][s].trigger, k, memory[s]) IN
        \/ Continue(w, s, p(t, 1, memory[s]))
        \/ \E j \in Latest(t) : /\ jobs[j].status = "failed"
                                /\ Continue(w, s, p(t, jobs[j].attempt + 1, RetryMemory(j)))
        \/ Finish(w, s, TRUE)
  BY DEF Prepare
<1>2. k \in 0 .. Len(jobs)
  BY DEF RebaseChain
<1> DEFINE t == After(run[w][s].trigger, k, memory[s])
<1>3. t.session = s /\ t.batch \subseteq 1 .. arrived[s]
  <2>1. /\ run[w][s].trigger.session = s /\ run[w][s].trigger.batch \subseteq 1 .. arrived[s]
    BY DEF Prepare, Inv, RunInv, RunOK, WithBatch
  <2>2. k \in 0 .. MaxJobs
    BY <1>0, <1>2, MaintainerBounds DEF TypeOK
  <2>3. run[w][s].trigger \in Triggers /\ memory[s] \in 0 .. MaxHistory
    BY <1>0 DEF TypeOK, RunRecords
  <2> QED
    BY <2>1, <2>2, <2>3, AfterFacts
<1>4. ASSUME NEW n \in 1 .. MaxJobs + 1, NEW m \in 0 .. MaxHistory
      PROVE  /\ p(t, n, m) \in RunRecords /\ p(t, n, m).stage = "prepared"
             /\ p(t, n, m).trigger = t /\ p(t, n, m).attempt = n /\ p(t, n, m).memory = m
  <2>1. n \in 0 .. MaxJobs + 1
    BY MaintainerBounds
  <2>2. p(t, n, m) \in RunRecords
    BY <1>2, <2>1, PreparedType
  <2> QED
    BY <1>0, <2>2 DEF RunRecords
<1> HIDE DEF p, t
<1>5. ASSUME NEW n \in 1 .. MaxJobs + 1, NEW m \in 0 .. MaxHistory, Continue(w, s, p(t, n, m)),
             n = 1 \/ \E j \in JobsOf(t) : /\ jobs[j].status = "failed"
                                           /\ jobs[j].attempt = n - 1 /\ jobs[j].memory = m
      PROVE  RunInv' /\ OwnJob'
  <2> PICK r \in RunRecords : r = p(t, n, m)
    BY <1>4
  <2>1. /\ r.stage = "prepared" /\ r.trigger = t /\ r.attempt = n /\ r.memory = m
        /\ Continue(w, s, r)
    BY <1>4, <1>5
  <2>2. n = 1 \/ HasPredecessor(r)'
    BY <1>0, <1>5, <2>1 DEF HasPredecessor, JobsOf
  <2>3. r.attempt \in JobIds \cup {MaxJobs + 1}
    BY <2>1, MaintainerBounds DEF JobIds
  <2>4. RunOK(r, s)'
    BY <1>0, <1>3, <2>1, <2>2, <2>3 DEF RunOK, Holding, AtWork
  <2>5. run'[w][s] = r => RunOK(run[w][s], s)'
    BY <2>4
  <2> QED
    BY <2>1, <2>5, ContinuingRun DEF Holding, AtWork
<1>6. CASE Continue(w, s, p(t, 1, memory[s]))
  <2>1. 1 \in 1 .. MaxJobs + 1 /\ memory[s] \in 0 .. MaxHistory
    BY <1>0, MaintainerBounds DEF TypeOK
  <2> QED
    BY <1>5, <1>6, <2>1
<1>7. ASSUME NEW j \in Latest(t), jobs[j].status = "failed",
             Continue(w, s, p(t, jobs[j].attempt + 1, RetryMemory(j)))
      PROVE  RunInv' /\ OwnJob'
  <2>1. j \in JobsOf(t) /\ jobs[j] \in JobRecords
    BY <1>0 DEF Latest, JobsOf, TypeOK
  <2>2. PICK n \in 1 .. MaxJobs + 1, m \in 0 .. MaxHistory :
          n = jobs[j].attempt + 1 /\ jobs[j].attempt = n - 1 /\ m = jobs[j].memory
    <3>1. jobs[j].attempt \in 1 .. MaxJobs /\ jobs[j].memory \in 0 .. MaxHistory /\ MaxJobs \in Nat
      BY <2>1, MaintainerBounds DEF JobRecords, JobIds
    <3>2. jobs[j].attempt + 1 \in 1 .. MaxJobs + 1 /\ jobs[j].attempt = jobs[j].attempt + 1 - 1
      BY <3>1
    <3> QED
      BY <3>1, <3>2
  <2>3. Continue(w, s, p(t, n, m))
    BY <1>7, <2>2 DEF RetryMemory
  <2> QED
    BY <1>5, <1>7, <2>1, <2>2, <2>3
<1> QED
  BY <1>1, <1>6, <1>7, FinishingRun DEF t

(* A freeze hands its run the job it has just added. *)
LEMMA FreezeKeeps ==
  ASSUME Inv, [Next]_vars, NEW w \in Workers, NEW s \in Sessions, FreezeJob(w, s)
  PROVE  RunInv' /\ OwnJob'
<1>1. CASE Finish(w, s, allowed[s] /\ Replayed(run[w][s]))
  BY <1>1, FinishingRun
<1>2. CASE /\ Freezes(w, s)
           /\ Continue(w, s, [IdleRun EXCEPT !.stage = "frozen", !.job = Len(jobs) + 1])
           /\ Adds(run[w][s].trigger, run[w][s].attempt, run[w][s].memory, Frozen)
  <2> PICK r : r = [IdleRun EXCEPT !.stage = "frozen", !.job = Len(jobs) + 1]
    OBVIOUS
  <2>1. Len(jobs) \in Nat /\ Len(jobs) + 1 \in 0 .. MaxJobs
    BY <1>2, MaintainerBounds DEF Freezes, FreezeAccepts, Inv, TypeOK
  <2>2. r \in RunRecords /\ r.stage = "frozen" /\ r.job = Len(jobs) + 1
    BY <2>1, IdleRunType DEF RunRecords, Stage
  <2>3. Put(w, s, r) /\ run'[w][s] = r
    BY <1>2, <2>2, PutFacts DEF Continue, Inv, TypeOK
  <2>4. run[w][s].trigger.session = s
    BY <1>2 DEF Freezes, Inv, RunInv, RunOK, WithBatch
  <2>5. /\ r.job \in 1 .. Len(jobs') /\ jobs'[r.job].trigger.session = s
        /\ jobs'[r.job].status # "succeeded"
    BY <1>2, <2>1, <2>2, <2>4 DEF Adds, Frozen
  <2>6. RunOK(run[w][s], s)'
    BY <2>2, <2>3, <2>5 DEF RunOK, WithBatch, Holding, AtWork
  <2> QED
    BY <2>2, <2>3, <2>6, OneRunMoves
<1> QED
  BY <1>1, <1>2, FreezeMoves

(* A run that goes on with its job, which has not succeeded *)
LEMMA WorkingRun ==
  ASSUME Inv, [Next]_vars, NEW w \in Workers, NEW s \in Sessions, QuietJobs,
         NEW st \in {"calling", "retrying", "answered"}, run[w][s].stage \in AtWork,
         Continue(w, s, [run[w][s] EXCEPT !.stage = st])
  PROVE  RunInv' /\ OwnJob'
<1> PICK r : r = [run[w][s] EXCEPT !.stage = st]
  OBVIOUS
<1>1. run[w][s] \in RunRecords
  BY DEF Inv, TypeOK
<1>2. r \in RunRecords /\ r.stage = st /\ r.job = run[w][s].job
  BY <1>1 DEF RunRecords, Stage
<1>3. /\ run[w][s].stage \in Holding /\ r.job \in 1 .. Len(jobs)
      /\ jobs[r.job].trigger.session = s /\ jobs[r.job].status # "succeeded"
  BY <1>2 DEF Inv, RunInv, RunOK, Holding
<1>4. /\ r.job \in 1 .. Len(jobs') /\ jobs'[r.job].trigger.session = s
      /\ jobs'[r.job].status # "succeeded"
  BY <1>3 DEF QuietJobs, JobsMove, Evolve, Keeps, SameInput, NoSuccess
<1>5. run'[w][s] = r => RunOK(run[w][s], s)'
  BY <1>2, <1>4 DEF RunOK, WithBatch, Holding, AtWork
<1> QED
  BY <1>2, <1>3, <1>5, ContinuingRun

(* A run closes with its job's outcome. *)
LEMMA ClosingRun ==
  ASSUME Inv, [Next]_vars, NEW w \in Workers, NEW s \in Sessions, NEW ok \in BOOLEAN,
         run[w][s].stage \in AtWork, Close(w, s, ok),
         jobs'[run[w][s].job].status \in IF ok THEN {"succeeded"} ELSE {"failed", "cancelled"}
  PROVE  RunInv' /\ OwnJob'
<1> PICK r : r = [run[w][s] EXCEPT !.stage = "closing", !.ok = ok]
  OBVIOUS
<1>1. run[w][s] \in RunRecords
  BY DEF Inv, TypeOK
<1>2. r \in RunRecords /\ r.stage = "closing" /\ r.ok = ok /\ r.job = run[w][s].job
  BY <1>1 DEF RunRecords, Stage
<1>3. /\ run[w][s].stage \in Holding /\ r.job \in 1 .. Len(jobs)
      /\ jobs[r.job].trigger.session = s
  BY <1>2 DEF Inv, RunInv, RunOK, Holding
<1>4. Len(jobs) \in Nat /\ Len(jobs') \in Nat
  BY JobsMoveStep DEF JobsMove, Inv, TypeOK
<1>5. r.job \in 1 .. Len(jobs') /\ jobs'[r.job].trigger.session = s
  BY <1>3, <1>4, JobsMoveStep DEF JobsMove, Evolve, Keeps, SameInput
<1>6. run'[w][s] = r => RunOK(run[w][s], s)'
  BY <1>2, <1>5 DEF RunOK, WithBatch, Holding, AtWork
<1> QED
  BY <1>2, <1>3, <1>6, ContinuingRun DEF Close

(* The calls of the provider *)
LEMMA CallProviderKeeps ==
  ASSUME Inv, [Next]_vars, NEW w \in Workers, NEW s \in Sessions, CallProvider(w, s)
  PROVE  RunInv' /\ OwnJob'
<1>1. run[w][s].stage \in AtWork /\ QuietJobs
  BY CallProviderQuiet DEF CallProvider, AtWork
<1>2. \/ Continue(w, s, [run[w][s] EXCEPT !.stage = "answered"])
      \/ Continue(w, s, [run[w][s] EXCEPT !.stage = "retrying"])
      \/ /\ Close(w, s, FALSE)
         /\ \/ jobs' = EndIfRunning(run[w][s].job, "cancelled", "AI_POLICY_DRIFT")
            \/ jobs' = EndIfRunning(run[w][s].job, "failed", "FAILED")
  BY DEF CallProvider
<1>3. ASSUME Close(w, s, FALSE),
             \/ jobs' = EndIfRunning(run[w][s].job, "cancelled", "AI_POLICY_DRIFT")
             \/ jobs' = EndIfRunning(run[w][s].job, "failed", "FAILED")
      PROVE  RunInv' /\ OwnJob'
  <2>1. {"AI_POLICY_DRIFT", "FAILED"} \subseteq FailureCode \ {"MEMORY_UNJUDGED"}
    BY DEF FailureCode
  <2>2. run[w][s].job \in 1 .. Len(jobs) /\ jobs[run[w][s].job].status # "succeeded"
    BY <1>1 DEF Inv, RunInv, RunOK, AtWork, Holding
  <2>3. jobs'[run[w][s].job].status \in {"failed", "cancelled"}
    BY <1>3, <2>1, <2>2, EndingIsQuiet
  <2> QED
    BY <1>1, <1>3, <2>3, ClosingRun
<1> QED
  BY <1>1, <1>2, <1>3, WorkingRun

(* The write back *)
LEMMA WriteBackKeeps ==
  ASSUME Inv, [Next]_vars, NEW w \in Workers, NEW s \in Sessions, WriteBack(w, s)
  PROVE  RunInv' /\ OwnJob'
<1>1. run[w][s].stage \in AtWork
  BY DEF WriteBack, AtWork
<1> QED
  BY <1>1, WriteBackMoves, ClosingRun DEF Succeeds

(* A run that has only just begun knows nothing yet. *)
LEMMA BeginningRun ==
  ASSUME Inv, [Next]_vars, NEW w \in Workers, NEW s \in Sessions, NEW f \in BOOLEAN,
         Put(w, s, [IdleRun EXCEPT !.stage = "select", !.final = f])
  PROVE  RunInv' /\ OwnJob'
<1> PICK r : r = [IdleRun EXCEPT !.stage = "select", !.final = f]
  OBVIOUS
<1>1. r \in RunRecords /\ r.stage = "select"
  BY IdleRunType DEF RunRecords, Stage
<1>2. run'[w][s] = r
  BY <1>1, PutFacts DEF Inv, TypeOK
<1>3. RunOK(run[w][s], s)'
  BY <1>1, <1>2 DEF RunOK, WithBatch, Holding, AtWork
<1> QED
  BY <1>1, <1>3, OneRunMoves DEF Holding, AtWork

(* A crash forgets what the runs of a worker know. *)
LEMMA CrashKeeps ==
  ASSUME Inv, [Next]_vars, NEW w \in Workers, Crash(w)
  PROVE  RunInv' /\ OwnJob'
<1>1. \A v \in Workers, t \in Sessions :
        run'[v][t] = IF v = w THEN IdleRun ELSE run[v][t]
  BY DEF Crash, Inv, TypeOK
<1>2. IdleRun.stage = "idle"
  BY DEF IdleRun
<1>3. ASSUME NEW v \in Workers, NEW t \in Sessions PROVE RunOK(run[v][t], t)'
  <2>1. CASE v = w
    BY <1>1, <1>2, <2>1 DEF RunOK, WithBatch, Holding, AtWork
  <2>2. CASE v # w
    BY <1>1, <2>2, RunOKKept, UnmovedStillOpen, JobsMoveStep, SourceStep
  <2> QED
    BY <2>1, <2>2
<1>4. OwnJob'
  BY <1>1, <1>2 DEF Inv, OwnJob, Holding, AtWork
<1> QED
  BY <1>3, <1>4 DEF RunInv

(* Whatever step is taken, the runs know what they rely on. *)
LEMMA RunInvStep == ASSUME Inv, [Next]_vars PROVE RunInv' /\ OwnJob'
<1> DEFINE Goal == RunInv' /\ OwnJob'
<1> HIDE DEF Goal
<1>1. ASSUME NEW w \in Workers, NEW s \in Sessions, Select(w, s) \/ Prepare(w, s) \/ FreezeJob(w, s)
      PROVE  Goal
  BY <1>1, SelectKeeps, PrepareKeeps, FreezeKeeps DEF Goal
<1>2. ASSUME NEW w \in Workers, NEW s \in Sessions, RecordUnjudged(w, s) PROVE Goal
  BY <1>2, FinishingRun DEF RecordUnjudged, Goal
<1>3. ASSUME NEW w \in Workers, NEW s \in Sessions, BuildContext(w, s) PROVE Goal
  <2>1. QuietJobs /\ run[w][s].stage \in AtWork
    BY <1>3, SameJobsQuiet DEF BuildContext, workVars, AtWork
  <2>2. Continue(w, s, [run[w][s] EXCEPT !.stage = "calling"]) \/ Finish(w, s, FALSE)
    BY <1>3 DEF BuildContext
  <2> QED
    BY <2>1, <2>2, WorkingRun, FinishingRun DEF Goal
<1>4. ASSUME NEW w \in Workers, NEW s \in Sessions, CallProvider(w, s) \/ WriteBack(w, s)
      PROVE  Goal
  BY <1>4, CallProviderKeeps, WriteBackKeeps DEF Goal
<1>5. ASSUME NEW w \in Workers, NEW s \in Sessions, CloseTrace(w, s) PROVE Goal
  BY <1>5, FinishingRun DEF CloseTrace, Goal
<1>6. ASSUME NEW w \in Workers, NEW s \in Sessions, Wake(w, s) \/ RequestFinalFlush(w, s)
      PROVE  Goal
  BY <1>6, BeginningRun DEF Wake, RequestFinalFlush, Begin, Continue, Goal
<1>7. ASSUME NEW w \in Workers, ScanVisit(w) PROVE Goal
  <2>1. ScanOrder[scan[w].at] \in Sessions
    BY <1>7, ScanAssumption DEF ScanVisit
  <2>2. [IdleRun EXCEPT !.stage = "select"] = [IdleRun EXCEPT !.stage = "select", !.final = FALSE]
    BY IdleRunType DEF IdleRun, RunRecords
  <2> QED
    BY <1>7, <2>1, <2>2, BeginningRun, NoRunMoves DEF ScanVisit, Goal
<1>8. ASSUME NEW w \in Workers, Crash(w) PROVE Goal
  BY <1>8, CrashKeeps DEF Goal
<1>9. ASSUME UNCHANGED run PROVE Goal
  BY <1>9, NoRunMoves DEF Goal
<1>10. ASSUME Environment PROVE Goal
  BY <1>9, <1>10 DEF Environment, Arrive, CorrectRole, Calibrate, CompleteSession, SegmentsAge,
     ChangeConsent, SupersedeMemory, JobAges
<1>11. ASSUME NEW w \in Workers, ScanStart(w) \/ ScanTraces(w) PROVE Goal
  BY <1>9, <1>11 DEF ScanStart, ScanTraces
<1>12. ASSUME NEW j \in JobIds, ReconcileRunning(j) PROVE Goal
  BY <1>9, <1>12 DEF ReconcileRunning
<1>13. Goal
  BY <1>1, <1>2, <1>3, <1>4, <1>5, <1>6, <1>7, <1>8, <1>9, <1>10, <1>11, <1>12
     DEF Next, RunStep, ScanStep, vars
<1> QED
  BY <1>13 DEF Goal

-----------------------------------------------------------------------------
(* The theorems                                                            *)

(* At the start there are no jobs and no runs. *)
LEMMA InvInit == Init => Inv
<1> SUFFICES ASSUME Init PROVE Inv
  OBVIOUS
<1>1. TypeOK
  <2>1. /\ run \in [Workers -> [Sessions -> RunRecords]]
        /\ scan \in [Workers -> [at : 0 .. TraceStep, joined : BOOLEAN]]
    BY IdleRunType, ScanAssumption DEF Init, IdleScan, TraceStep
  <2>2. jobs \in Seq(JobRecords) /\ Len(jobs) = 0
    BY DEF Init
  <2> QED
    BY <2>1, <2>2, MaintainerBounds DEF Init, TypeOK
<1>2. Len(jobs) = 0 /\ \A w \in Workers, s \in Sessions : run[w][s] = IdleRun
  BY DEF Init
<1>3. RunInv /\ OwnJob
  BY <1>2 DEF RunInv, RunOK, OwnJob, IdleRun, WithBatch, Holding, AtWork
<1>4. ConsumptionInv /\ ConsumedByItsJob
  BY <1>2 DEF Init, ConsumptionInv, ConsumedByItsJob
<1> QED
  BY <1>1, <1>2, <1>3, <1>4
     DEF Inv, JobInv, OneLiveJobPerTrigger, RetriesSameInput, TraceTellsTheTruth

(* Every reachable state satisfies the invariant, for every number of      *)
(* workers and sessions.                                                   *)
THEOREM Invariance == Spec => []Inv
<1>1. Inv /\ [Next]_vars => Inv'
  BY TypeStep, JobInvStep, RunInvStep, ConsumedStep, AttemptsStep, JobsMoveStep DEF Inv, JobsMove
<1> QED
  BY InvInit, <1>1, PTL DEF Spec

(* Every variable of the maintainer holds a value of its type. *)
THEOREM TypeCorrect == Spec => []TypeOK
<1>1. Inv => TypeOK
  BY DEF Inv
<1> QED
  BY Invariance, <1>1, PTL

(* However many workers freeze, retry and rebase at once, a trigger has at *)
(* most one job that runs or has succeeded (freeze, prepareAttempt).       *)
THEOREM OneLiveJob == Spec => []OneLiveJobPerTrigger
<1>1. Inv => OneLiveJobPerTrigger
  BY DEF Inv
<1> QED
  BY Invariance, <1>1, PTL

(* A retry freezes the memories of the attempt it follows (prepareAttempt). *)
THEOREM RetriesKeepInput == Spec => []RetriesSameInput
<1>1. Inv => RetriesSameInput
  BY DEF Inv
<1> QED
  BY Invariance, <1>1, PTL

(* A segment is consumed exactly by the one succeeded job that froze it    *)
(* (writeBack, commitSnapshot).                                            *)
THEOREM ExactConsumption == Spec => []ConsumedByItsJob
<1>1. Inv => ConsumedByItsJob
  BY DEF Inv
<1> QED
  BY Invariance, <1>1, PTL

(* No decision trace claims a success that did not happen or a failure of  *)
(* a job that runs or succeeded, whoever closes it: the run (finalize), a  *)
(* scan (memoryTraceTerminalProjection) or reconcileRunning, which closes  *)
(* it under a job of any status.                                           *)
THEOREM TrueTraces == Spec => []TraceTellsTheTruth
<1>1. Inv => TraceTellsTheTruth
  BY DEF Inv
<1> QED
  BY Invariance, <1>1, PTL

(* No late callback, retry or scan revives a terminal job or rewrites its  *)
(* outcome or a finished trace.                                            *)
THEOREM OutcomesAreFinal == Spec => OutcomesStand
<1>1. Inv /\ [Next]_vars =>
        [\A j \in 1 .. Len(jobs) :
           /\ jobs[j].status # "running" => jobs'[j].status = jobs[j].status
           /\ jobs[j].trace # "running" => jobs'[j].trace = jobs[j].trace]_vars
  BY JobsMoveStep DEF JobsMove, Evolve, Keeps
<1> QED
  BY Invariance, <1>1, PTL DEF Spec, OutcomesStand

(* A job succeeds only under the policy, the roles and the memory it was   *)
(* frozen with (writeBack, findDrift), and none of its segments has lost   *)
(* its elder by then.                                                      *)
THEOREM FreshSuccess == Spec => SuccessIsFresh
<1> DEFINE Fresh(j) ==
      LET s == jobs[j].trigger.session IN
      /\ allowed[s] /\ policyRev[s] = jobs[j].policyRev
      /\ roleRev[s] = jobs[j].roleRev
      /\ \A i \in jobs[j].trigger.batch : elder[s][i] # -1
      /\ MemoryCurrent(s, jobs[j].memory)
<1>1. ASSUME Inv, [Next]_vars, NEW j \in 1 .. Len(jobs),
             jobs[j].status = "running", jobs'[j].status = "succeeded"
      PROVE  Fresh(j)
  <2>1. PICK w \in Workers, s \in Sessions : Succeeds(w, s) /\ run[w][s].job = j
    <3>1. ASSUME NEW t, NEW n, NEW m, NEW o, Adds(t, n, m, o) PROVE FALSE
      BY <1>1, <3>1 DEF Adds
    <3>2. ~NoSuccess
      BY <1>1 DEF NoSuccess
    <3>3. PICK w \in Workers, s \in Sessions :
            /\ Succeeds(w, s)
            /\ \A i \in 1 .. Len(jobs) : i # run[w][s].job => jobs'[i] = jobs[i]
      BY <1>1, <3>1, <3>2, StepKinds, Zenon DEF QuietJobs
    <3>4. run[w][s].job = j
      BY <1>1, <3>3
    <3> QED
      BY <3>3, <3>4
  <2>2. jobs[j].trigger.session = s
    BY <1>1, <2>1 DEF Succeeds, Inv, RunInv, RunOK, AtWork, Holding
  <2>3. Drift(s, j) = "none"
    BY <2>1 DEF Succeeds
  <2>4. /\ allowed[s] /\ policyRev[s] = jobs[j].policyRev
        /\ roleRev[s] = jobs[j].roleRev
        /\ MemoryCurrent(s, jobs[j].memory)
    BY <2>3 DEF Drift, PolicyDrift
  <2>5. \A i \in jobs[j].trigger.batch : elder[s][i] # -1
    BY <1>1, <2>2, <2>4 DEF Inv, JobInv, JobOK
  <2> QED
    BY <2>2, <2>4, <2>5
<1>2. Inv /\ [Next]_vars =>
        [\A j \in 1 .. Len(jobs) :
           jobs[j].status = "running" /\ jobs'[j].status = "succeeded" => Fresh(j)]_vars
  BY <1>1
<1> QED
  BY Invariance, <1>2, PTL DEF Spec, SuccessIsFresh

==============================================================================
