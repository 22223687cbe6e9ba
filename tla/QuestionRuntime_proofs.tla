------------------------ MODULE QuestionRuntime_proofs ------------------------
(***************************************************************************)
(* Theorems about QuestionRuntime for every number of segments, every set  *)
(* of manual requests and openings, and every bound.  The rows of one      *)
(* request (attempt, job, trace) are described by one predicate on their   *)
(* values, RowsOK, that no run, repair or crash can break; what is shown   *)
(* follows from it and from what a run knows at each of its steps.         *)
(***************************************************************************)
EXTENDS QuestionRuntime, TLAPS

(* The outcome of an attempt fits its status. *)
Fits(a) ==
  /\ a.st = "succeeded" <=> a.out \in {"published", "withheld"}
  /\ a.st = "cancelled" <=> a.out \in {"stale_basis", "superseded_by_manual"}
  /\ a.st = "failed" <=> a.out = "policy_blocked"

(* A job succeeded exactly when its attempt answered or gave way.          *)
Together(a, j) == j = "succeeded" <=> a.st \in {"succeeded", "cancelled"}

(* Only a trace closed as failed may differ from its attempt, and only     *)
(* while its repair has yet to come or was lost.                           *)
Honest(t, a, lost) ==
  TerminalTrace(t) => Matches(t, a) \/ (lost /\ t = "failed")

RowsOK(x, lost) ==
  /\ Fits(x.a)
  /\ Together(x.a, x.j)
  /\ (x.t = "none") <=> (x.a.st = "none")
  /\ Honest(x.t, x.a, lost)

Lost(r) == Mending(r) \/ r \in torn

RowsInv == \A r \in Requests : RowsOK(Rows(r), Lost(r))

(* What a run knows of its attempt at each of its steps *)
RunFits(z, a) ==
  /\ z.at = "frozen" => a.st = "none"
  /\ z.at \notin {"idle", "frozen"} => a.st # "none"
  /\ z.at = "committed" => a.st \in {"succeeded", "cancelled"}
  /\ z.at \in {"idle", "frozen", "begun"} => z.calls = 0
  /\ z.at = "ready" => z.calls < 2

RunInv == \A r \in Requests : RunFits(run[r], attempt[r])

(* The display counts what was published and what was asked by hand. *)
Counted(r) ==
  /\ attempt[r].mseq <= display.mseq
  /\ Published(r) => attempt[r].basis \in 0 .. display.rev - 1

CountInv == \A r \in Requests : Counted(r)

(* A segment that has not been drained belongs to no request. *)
Undrained(r) == r \in Segments /\ (r > segments \/ (r = segments /\ buffered))

UndrainedInv ==
  /\ buffered => segments # 0
  /\ \A r \in Requests : Undrained(r) => run[r].at = "idle" /\ attempt[r].st = "none"

Bounded == segments + policy.rev + faults <= MaxEvents

Inv ==
  /\ TypeOK /\ Bounded /\ RowsInv /\ RunInv /\ CountInv /\ UndrainedInv
  /\ OnePublicationPerBasis /\ BufferCovered

-----------------------------------------------------------------------------
(* Lemmas about the rows of one request                                    *)

RowRecords == [a : AttemptRecords, j : JobStatus, t : TraceStatus]

(* What a repair of x to y leaves alone: the claims of the attempt.  No    *)
(* repair publishes, and none takes back what was committed.               *)
KeepsClaims(y, x) ==
  /\ y.a.mseq = x.a.mseq /\ y.a.basis = x.a.basis
  /\ y.a.out = "published" => x.a.out = "published"
  /\ x.a.st # "none" => y.a.st # "none"
  /\ x.a.st \in {"succeeded", "cancelled"} => y.a.st = x.a.st

(* An abandoned attempt has failed. *)
LEMMA AbandonedFacts ==
  ASSUME NEW a \in AttemptRecords
  PROVE  /\ Abandoned(a) \in AttemptRecords
         /\ Fits(Abandoned(a))
         /\ Abandoned(a).st = "failed" /\ Abandoned(a).out = "policy_blocked"
         /\ Abandoned(a).mseq = a.mseq /\ Abandoned(a).basis = a.basis
BY DEF Abandoned, AttemptRecords, AttemptStatus, Outcome, Fits

(* The status a trace takes from an attempt describes it. *)
LEMMA TraceOfFacts ==
  ASSUME NEW a \in AttemptRecords, Fits(a), a.st # "none"
  PROVE  /\ TraceOf(a) \in TraceStatus \ {"none"}
         /\ TerminalTrace(TraceOf(a)) => Matches(TraceOf(a), a)
BY DEF TraceOf, AttemptRecords, AttemptStatus, Outcome, Fits, TraceStatus, TerminalTrace, Matches

(* A live attempt that is ended from its closed trace has failed.          *)
LEMMA FromTraceFacts ==
  ASSUME NEW a \in AttemptRecords, a.st \in Live, NEW t \in TraceStatus,
         TerminalTrace(t), Honest(t, a, TRUE)
  PROVE  t = "failed" /\ FromTrace(a, t) = Abandoned(a)
BY DEF Live, TerminalTrace, Honest, Matches, FromTrace, Abandoned, AttemptRecords, AttemptStatus

(* Recovered makes the rows of a request agree, whatever they were.        *)
LEMMA RecoveredFacts ==
  ASSUME NEW x \in RowRecords, RowsOK(x, TRUE), x.a.st # "none", NEW stuck \in BOOLEAN
  PROVE  /\ Recovered(x, stuck) \in RowRecords
         /\ RowsOK(Recovered(x, stuck), FALSE)
         /\ KeepsClaims(Recovered(x, stuck), x)
<1> DEFINE kept == TerminalTrace(x.t) /\ x.a.st \in Live
           a1 == IF kept THEN FromTrace(x.a, x.t) ELSE x.a
           j1 == IF TerminalTrace(x.t) THEN JobFromAttempt(x.j, a1) ELSE x.j
           settled == TerminalTrace(x.t) /\ ~kept /\ Matches(x.t, a1) /\ j1 # "running"
           stale == stuck /\ a1.st \in Live
           a2 == IF stale THEN Abandoned(a1) ELSE a1
           j2 == IF stale THEN FailLive(j1) ELSE j1
           t2 == IF kept \/ settled THEN x.t ELSE TraceOf(a2)
<1>0. /\ x.a \in AttemptRecords /\ x.j \in JobStatus /\ x.t \in TraceStatus
      /\ Fits(x.a) /\ Together(x.a, x.j) /\ Honest(x.t, x.a, TRUE)
      /\ x.t # "none"
  BY DEF RowRecords, RowsOK
<1>1. Recovered(x, stuck) = [a |-> a2, j |-> j2, t |-> t2]
  BY DEF Recovered
<1>2. kept => x.t = "failed" /\ a1 = Abandoned(x.a)
  BY <1>0, FromTraceFacts
<1>3. /\ a1 \in AttemptRecords /\ Fits(a1)
      /\ a1.st # "none"
      /\ a1.mseq = x.a.mseq /\ a1.basis = x.a.basis
      /\ a1.out = "published" => x.a.out = "published"
      /\ kept => a1.st = "failed"
      /\ ~kept => a1 = x.a
  <2>1. CASE kept
    BY <2>1, <1>0, <1>2, AbandonedFacts
  <2>2. CASE ~kept
    BY <2>2, <1>0
  <2> QED BY <2>1, <2>2
<1> HIDE DEF a1
<1>4. j1 \in JobStatus /\ Together(a1, j1)
  <2>1. CASE kept
    BY <2>1, <1>0, <1>3 DEF JobFromAttempt, JobStatus, Together, Live
  <2>2. CASE ~kept
    BY <2>2, <1>0, <1>3 DEF JobFromAttempt, JobStatus, Together, Live, AttemptRecords, AttemptStatus
  <2> QED BY <2>1, <2>2
<1> HIDE DEF j1
<1>5. /\ a2 \in AttemptRecords /\ Fits(a2)
      /\ a2.st # "none"
      /\ a2.mseq = a1.mseq /\ a2.basis = a1.basis
      /\ a2.out = "published" => a1.out = "published"
      /\ a1.st \notin Live => a2 = a1
      /\ stale => a2.st = "failed"
  <2>1. CASE stale
    BY <2>1, <1>3, AbandonedFacts
  <2>2. CASE ~stale
    BY <2>2, <1>3
  <2> QED BY <2>1, <2>2
<1>6. j2 \in JobStatus /\ Together(a2, j2)
  <2>1. CASE stale
    BY <2>1, <1>4, <1>5 DEF FailLive, JobStatus, Together, Live
  <2>2. CASE ~stale
    BY <2>2, <1>4
  <2> QED BY <2>1, <2>2
<1>7. settled => a2 = a1
  BY <1>0, <1>3, <1>5 DEF Matches, Live, TerminalTrace
<1>8. kept => a2 = a1 /\ a2.st = "failed"
  BY <1>3, <1>5 DEF Live
<1> HIDE DEF a2, j2, stale
<1>9. t2 \in TraceStatus \ {"none"} /\ (TerminalTrace(t2) => Matches(t2, a2))
  <2>1. CASE kept
    BY <2>1, <1>0, <1>2, <1>8 DEF Matches
  <2>2. CASE ~kept /\ settled
    BY <2>2, <1>0, <1>7
  <2>3. CASE ~kept /\ ~settled
    BY <2>3, <1>5, TraceOfFacts
  <2> QED BY <2>1, <2>2, <2>3
<1>10. x.a.st \in {"succeeded", "cancelled"} => a2 = x.a
  BY <1>3, <1>5 DEF Live
<1> HIDE DEF t2, kept, settled
<1> DEFINE y == [a |-> a2, j |-> j2, t |-> t2]
<1>11. y.a = a2 /\ y.j = j2 /\ y.t = t2
  OBVIOUS
<1>12. y \in RowRecords
  BY <1>5, <1>6, <1>9 DEF RowRecords
<1>13. Recovered(x, stuck) = y
  BY <1>1
<1> HIDE DEF y
<1>14. RowsOK(y, FALSE)
  BY <1>5, <1>6, <1>9, <1>11 DEF RowsOK, Honest
<1>15. KeepsClaims(y, x)
  BY <1>3, <1>5, <1>10, <1>11 DEF KeepsClaims
<1> QED BY <1>12, <1>13, <1>14, <1>15

(* A live attempt may be given up, whatever its trace says, once its job   *)
(* has not succeeded.                                                      *)
LEMMA AbandonFacts ==
  ASSUME NEW x \in RowRecords, NEW lost \in BOOLEAN, RowsOK(x, lost), x.a.st \in Live,
         NEW y, y = [x EXCEPT !.a = Abandoned(x.a)]
  PROVE  y \in RowRecords /\ RowsOK(y, lost) /\ KeepsClaims(y, x)
<1>1. /\ y.a = Abandoned(x.a) /\ y.j = x.j /\ y.t = x.t
      /\ x.a \in AttemptRecords /\ x.t # "none"
      /\ Together(x.a, x.j) /\ Honest(x.t, x.a, lost)
  BY DEF RowRecords, RowsOK, Live
<1>2. y \in RowRecords /\ KeepsClaims(y, x)
  BY <1>1, AbandonedFacts DEF RowRecords, KeepsClaims, Live
<1>3. RowsOK(y, lost)
  BY <1>1, AbandonedFacts DEF RowsOK, Together, Honest, Matches, TerminalTrace, Live
<1> QED BY <1>2, <1>3

-----------------------------------------------------------------------------
(* A step of one request                                                   *)

(* What a step may do to the rest of the state: the presentation and the   *)
(* intents are only counted up, the buffer is only drained.                *)
World ==
  /\ segments' = segments /\ policy' = policy
  /\ display' \in [rev : Nat, vis : {"none", "visible", "withdrawn"}, mseq : Nat]
  /\ display.rev <= display'.rev /\ display.mseq <= display'.mseq
  /\ torn \subseteq torn' /\ torn' \subseteq Requests
  /\ faults' = faults \/ (MoreEvents /\ faults' = faults + 1)
  /\ buffered' \in BOOLEAN /\ timer' \in BOOLEAN
  /\ buffered' => buffered
  /\ old' \subseteq old

(* The rows of r become x: they agree, they claim what the display counts, *)
(* and what they publish started from the presentation it replaces and,    *)
(* for an automatic request, knows of every manual intent.                 *)
Advance(r, x) ==
  /\ x \in RowRecords
  /\ RowsOK(x, Lost(r)')
  /\ attempt[r].st # "none" => x.a.st # "none"
  /\ x.a.mseq <= display'.mseq
  /\ x.a.out = "published" =>
       \/ Published(r) /\ x.a.basis = attempt[r].basis
       \/ /\ x.a.basis = display.rev /\ display.rev < display'.rev
          /\ r \in Segments => run[r].mseq = display.mseq

(* No automatic question passes a manual intent: what NoOvertaking says of *)
(* a step.                                                                 *)
NoOvertakingStep ==
  \A r \in Segments :
    Published(r)' /\ ~Published(r) => \A m \in Manuals : attempt[m].mseq <= run[r].mseq

(* After the step, the undrained segments still have someone.              *)
StillCovered(r, z) ==
  buffered' =>
    \/ timer'
    \/ r \in Segments /\ z.at # "idle"
    \/ \E q \in Segments : q # r /\ run[q].at # "idle"

(* The sets of request ids do not overlap. *)
LEMMA RequestSets ==
  /\ Segments \subseteq Requests /\ Manuals \subseteq Requests /\ Openings \subseteq Requests
  /\ Segments \cap Manuals = {} /\ Segments \cap Openings = {} /\ Manuals \cap Openings = {}
  /\ Segments \subseteq Nat /\ MaxEvents \in Nat
BY QuestionBounds DEF Requests, Segments

(* Writing the rows of r changes them and no other request's. *)
LEMMA WriteFacts ==
  ASSUME TypeOK, NEW r \in Requests, NEW x \in RowRecords, Write(r, x)
  PROVE  /\ attempt' \in [Requests -> AttemptRecords]
         /\ job' \in [Requests -> JobStatus]
         /\ trace' \in [Requests -> TraceStatus]
         /\ attempt'[r] = x.a /\ job'[r] = x.j /\ trace'[r] = x.t
         /\ \A q \in Requests : q # r =>
              attempt'[q] = attempt[q] /\ job'[q] = job[q] /\ trace'[q] = trace[q]
BY DEF TypeOK, Write, RowRecords

(* Whatever step of a request keeps to the three descriptions above keeps  *)
(* the invariant.                                                          *)
LEMMA StepKeeps ==
  ASSUME Inv, NEW r \in Requests, NEW x, NEW z \in RunRecords,
         World, Advance(r, x), Write(r, x),
         run' = [run EXCEPT ![r] = z], RunFits(z, x.a),
         ~Undrained(r)', StillCovered(r, z)
  PROVE  Inv' /\ NoOvertakingStep
<1> USE RequestSets
<1>0. x \in RowRecords /\ x.a \in AttemptRecords
  BY DEF Advance, RowRecords
<1>1. /\ attempt' \in [Requests -> AttemptRecords]
      /\ job' \in [Requests -> JobStatus]
      /\ trace' \in [Requests -> TraceStatus]
      /\ attempt'[r] = x.a /\ job'[r] = x.j /\ trace'[r] = x.t
      /\ \A q \in Requests : q # r =>
           attempt'[q] = attempt[q] /\ job'[q] = job[q] /\ trace'[q] = trace[q]
  BY <1>0, WriteFacts DEF Inv
<1>2. /\ run' \in [Requests -> RunRecords] /\ run'[r] = z
      /\ \A q \in Requests : q # r => run'[q] = run[q]
  BY DEF Inv, TypeOK
<1>3. /\ segments \in Nat /\ policy.rev \in Nat /\ faults \in Nat
      /\ display.rev \in Nat /\ display.mseq \in Nat
      /\ display'.rev \in Nat /\ display'.mseq \in Nat
  BY DEF Inv, TypeOK, World
<1>4. TypeOK' /\ Bounded'
  <2>1. Bounded' /\ faults' \in 0 .. MaxEvents
    BY <1>3 DEF Inv, Bounded, World, MoreEvents
  <2> QED BY <2>1, <1>1, <1>2 DEF Inv, TypeOK, World
<1>5. RowsInv'
  <2> SUFFICES ASSUME NEW q \in Requests PROVE RowsOK(Rows(q), Lost(q))'
    BY DEF RowsInv
  <2>1. CASE q = r
    BY <2>1, <1>1, <1>0 DEF Advance, RowsOK, Rows
  <2>2. CASE q # r
    <3>1. RowsOK(Rows(q), Lost(q)) /\ (Lost(q) => Lost(q)')
      BY <1>2, <2>2 DEF Inv, RowsInv, World, Lost, Mending
    <3>2. Rows(q)' = Rows(q)
      BY <2>2, <1>1 DEF Rows
    <3> QED BY <3>1, <3>2 DEF RowsOK, Honest
  <2> QED BY <2>1, <2>2
<1>6. RunInv'
  BY <1>1, <1>2 DEF Inv, RunInv, RunFits
<1>7. CountInv'
  <2> SUFFICES ASSUME NEW q \in Requests PROVE Counted(q)'
    BY DEF CountInv
  <2>0. Counted(q) /\ Counted(r) /\ attempt[q] \in AttemptRecords
    BY DEF Inv, CountInv, TypeOK
  <2>1. CASE q = r
    <3>1. attempt'[q].mseq <= display'.mseq
      BY <2>1, <1>1 DEF Advance
    <3>2. Published(q)' => attempt'[q].basis \in 0 .. display'.rev - 1
      BY <2>0, <2>1, <1>1, <1>3 DEF Advance, World, Counted, Published
    <3> QED BY <3>1, <3>2 DEF Counted
  <2>2. CASE q # r
    <3>1. attempt'[q] = attempt[q]
      BY <2>2, <1>1
    <3>2. attempt[q].mseq \in Nat
      BY <2>0 DEF AttemptRecords
    <3> QED BY <2>0, <3>1, <3>2, <1>3 DEF World, Counted, Published
  <2> QED BY <2>1, <2>2
<1>8. UndrainedInv'
  <2>1. \A q \in Requests : Undrained(q)' => Undrained(q)
    BY DEF Undrained, World
  <2>2. r \notin {q \in Requests : Undrained(q)'}
    BY <2>1
  <2> QED BY <2>1, <2>2, <1>1, <1>2 DEF Inv, UndrainedInv, World
<1>9. OnePublicationPerBasis'
  <2> SUFFICES ASSUME NEW p \in Requests, NEW q \in Requests, p # q,
                      Published(p)', Published(q)'
               PROVE  attempt'[p].basis # attempt'[q].basis
    BY DEF OnePublicationPerBasis
  <2>1. \A c \in Requests \ {r} : Published(c)' =>
          Published(c) /\ attempt'[c] = attempt[c] /\ attempt'[c].basis < display.rev
    BY <1>1, <1>3 DEF Published, Inv, CountInv, Counted
  <2>2. Published(r)' =>
          \/ Published(r) /\ attempt'[r].basis = attempt[r].basis
          \/ attempt'[r].basis = display.rev
    BY <1>1 DEF Published, Advance
  <2> QED BY <2>1, <2>2, <1>3 DEF Inv, OnePublicationPerBasis
<1>10. BufferCovered'
  BY <1>2 DEF StillCovered, BufferCovered, InFlight
<1>11. NoOvertakingStep
  <2> SUFFICES ASSUME NEW q \in Segments, Published(q)', ~Published(q), NEW m \in Manuals
               PROVE  attempt[m].mseq <= run[q].mseq
    BY DEF NoOvertakingStep
  <2>1. q = r
    BY <1>1 DEF Published
  <2>2. run[q].mseq = display.mseq
    BY <2>1, <1>1 DEF Advance, Published
  <2> QED BY <2>2 DEF Inv, CountInv, Counted
<1> QED BY <1>4, <1>5, <1>6, <1>7, <1>8, <1>9, <1>10, <1>11 DEF Inv

(* A repair, or a step that writes nothing, is an advance. *)
LEMMA KeepsAdvance ==
  ASSUME Inv, World, NEW r \in Requests, NEW x \in RowRecords,
         RowsOK(x, Lost(r)'), KeepsClaims(x, Rows(r))
  PROVE  Advance(r, x)
<1>1. /\ attempt[r].mseq \in Nat /\ attempt[r].mseq <= display.mseq
      /\ display.mseq \in Nat /\ display'.mseq \in Nat /\ display.mseq <= display'.mseq
  BY DEF Inv, TypeOK, AttemptRecords, World, CountInv, Counted
<1>2. Rows(r).a = attempt[r]
  BY DEF Rows
<1> QED BY <1>1, <1>2 DEF Advance, KeepsClaims, Published

(* The rows of a request are rows. *)
LEMMA RowsFacts ==
  ASSUME Inv, NEW r \in Requests
  PROVE  /\ Rows(r) \in RowRecords /\ RowsOK(Rows(r), Lost(r)) /\ Lost(r) \in BOOLEAN
         /\ Rows(r).a = attempt[r] /\ Rows(r).j = job[r] /\ Rows(r).t = trace[r]
         /\ run[r] \in RunRecords /\ RunFits(run[r], attempt[r])
         /\ NoRun \in RunRecords
<1>1. NoRun \in RunRecords
  BY RequestSets DEF NoRun, RunRecords, Step
<1> QED BY <1>1 DEF Inv, TypeOK, Rows, RowRecords, RowsInv, RunInv, Lost

(* A request that has started is not undrained. *)
LEMMA StartedIsDrained ==
  ASSUME Inv, World, NEW r \in Requests,
         run[r].at # "idle" \/ attempt[r].st # "none" \/ r \notin Segments
  PROVE  ~Undrained(r)'
BY DEF Inv, UndrainedInv, Undrained, World

(* A run that stays, or ends through End, leaves the buffer covered.       *)
LEMMA StayCovers ==
  ASSUME Inv, NEW r \in Requests, NEW z, UNCHANGED bufferVars,
         z.at # "idle" \/ run[r].at = "idle" \/ r \notin Segments
  PROVE  StillCovered(r, z)
BY DEF Inv, BufferCovered, InFlight, StillCovered, bufferVars

LEMMA EndCovers ==
  ASSUME Inv, NEW r \in Requests, End(r)
  PROVE  /\ run' = [run EXCEPT ![r] = NoRun]
         /\ StillCovered(r, NoRun)
         /\ buffered' = buffered /\ timer' \in BOOLEAN
<1>1. CASE r \in Segments
  <2>1. /\ run' = [run EXCEPT ![r] = NoRun]
        /\ timer' = (timer \/ buffered) /\ buffered' = buffered
    BY <1>1 DEF End
  <2>2. timer' \in BOOLEAN
    BY <2>1, Zenon
  <2> QED BY <2>1, <2>2 DEF StillCovered
<1>2. CASE r \notin Segments
  <2>1. run' = [run EXCEPT ![r] = NoRun] /\ UNCHANGED bufferVars
    BY <1>2 DEF End
  <2>2. timer' \in BOOLEAN /\ buffered' = buffered
    BY <2>1 DEF bufferVars, Inv, TypeOK
  <2> QED BY <1>2, <2>1, <2>2, StayCovers
<1> QED BY <1>1, <1>2

(* A step that touches a job and a run, and no attempt or trace.           *)
LEMMA JobStepKeeps ==
  ASSUME Inv, World, NEW r \in Requests, NEW j \in JobStatus, NEW z \in RunRecords,
         attempt' = attempt, trace' = trace, job' = [job EXCEPT ![r] = j],
         Together(attempt[r], j),
         run' = [run EXCEPT ![r] = z], RunFits(z, attempt[r]), Mending(r) => Mending(r)',
         ~Undrained(r)', StillCovered(r, z)
  PROVE  Inv' /\ NoOvertakingStep
<1> DEFINE x == [a |-> attempt[r], j |-> j, t |-> trace[r]]
<1>1. x.a = attempt[r] /\ x.j = j /\ x.t = trace[r] /\ x \in RowRecords
  BY RowsFacts DEF RowRecords, Inv, TypeOK
<1>2. Write(r, x)
  BY <1>1 DEF Write, Inv, TypeOK
<1> HIDE DEF x
<1>3. RowsOK(x, Lost(r)')
  BY <1>1, RowsFacts DEF RowsOK, Honest, World, Lost
<1>4. Advance(r, x)
  BY <1>1, <1>3, RowsFacts, KeepsAdvance DEF KeepsClaims
<1> QED BY <1>1, <1>2, <1>4, StepKeeps

(* A live job may fail; its attempt need not know. *)
LEMMA FailLiveFacts ==
  ASSUME NEW j \in JobStatus, NEW a, Together(a, j)
  PROVE  FailLive(j) \in JobStatus /\ Together(a, FailLive(j))
BY DEF FailLive, JobStatus, Together

(* A run moves on without a row being written, or its job fails.           *)
LEMMA GotoKeeps ==
  ASSUME Inv, World, NEW r \in Requests, run[r].at # "idle",
         attempt' = attempt, trace' = trace,
         NEW j \in {job[r], FailLive(job[r])}, job' = [job EXCEPT ![r] = j],
         NEW z \in RunRecords, run' = [run EXCEPT ![r] = z],
         RunFits(z, attempt[r]), StillCovered(r, z), Mending(r) => Mending(r)'
  PROVE  Inv' /\ NoOvertakingStep
<1>1. j \in JobStatus /\ Together(attempt[r], j)
  BY RowsFacts, FailLiveFacts DEF RowRecords, RowsOK
<1>2. ~Undrained(r)'
  BY StartedIsDrained
<1> QED BY <1>1, <1>2, JobStepKeeps

(* The world of a step that only runs, writes rows or drains.              *)
LEMMA WorldStays ==
  ASSUME Inv, UNCHANGED <<segments, policy, display, torn, faults>>,
         old' \subseteq old,
         buffered' \in BOOLEAN, timer' \in BOOLEAN, buffered' => buffered
  PROVE  World
BY DEF Inv, TypeOK, World

(* Forgetting an age takes requests out of the old ones. *)
LEMMA ForgetFacts ==
  ASSUME Forget PROVE old' \subseteq old
BY DEF Forget

LEMMA BufferStays ==
  ASSUME Inv, UNCHANGED bufferVars
  PROVE  buffered' \in BOOLEAN /\ timer' \in BOOLEAN /\ buffered' = buffered
BY DEF Inv, TypeOK, bufferVars

-----------------------------------------------------------------------------
(* The actions that start a run                                            *)

(* Freezing an input makes a job and the run of a request that has none.   *)
LEMMA FrozenKeeps ==
  ASSUME Inv, World, NEW r \in Requests, Frozen(r), UNCHANGED <<attempt, trace>>,
         run[r].at = "idle", attempt[r].st = "none", ~Undrained(r)',
         buffered' => timer' \/ InFlight
  PROVE  Inv' /\ NoOvertakingStep
<1> DEFINE z == [run[r] EXCEPT !.at = "frozen", !.basis = display.rev,
                               !.seg = segments, !.rev = policy.rev]
<1>1. run' = [run EXCEPT ![r] = z] /\ job' = [job EXCEPT ![r] = "running"]
  BY DEF Frozen
<1>2. /\ z \in RunRecords /\ z.at = "frozen" /\ z.calls = run[r].calls
  <2>1. run[r] \in RunRecords
    BY RowsFacts
  <2>2. display.rev \in Nat /\ segments \in 0 .. MaxEvents /\ policy.rev \in 0 .. MaxEvents
    BY DEF Inv, TypeOK
  <2>3. "frozen" \in Step
    BY DEF Step
  <2> QED BY <2>1, <2>2, <2>3 DEF RunRecords
<1> HIDE DEF z
<1>3. RunFits(z, attempt[r])
  BY <1>2, RowsFacts DEF RunFits
<1>4. "running" \in JobStatus /\ Together(attempt[r], "running")
  BY DEF JobStatus, Together, Live
<1>5. StillCovered(r, z)
  BY <1>2 DEF StillCovered, InFlight
<1>6. ~Mending(r)
  BY DEF Mending
<1> QED BY <1>1, <1>2, <1>3, <1>4, <1>5, <1>6, JobStepKeeps

LEMMA RunAutomaticKeeps ==
  ASSUME Inv, RunAutomatic, Forget PROVE Inv' /\ NoOvertakingStep
<1>1. segments \in Segments /\ segments \in Requests /\ Undrained(segments)
  BY RequestSets DEF Inv, TypeOK, UndrainedInv, Undrained, RunAutomatic, Segments
<1>2. PICK r \in Requests : r = segments
  BY <1>1
<1>3. run[r].at = "idle" /\ attempt[r].st = "none"
  BY <1>1, <1>2 DEF Inv, UndrainedInv
<1>4. World
  BY WorldStays, ForgetFacts DEF RunAutomatic
<1>5. ~Undrained(r)' /\ buffered' = FALSE
  BY <1>2, RequestSets DEF Undrained, RunAutomatic, Inv, TypeOK
<1>6. CASE policy.allowed
  <2>1. Frozen(r) /\ UNCHANGED <<attempt, trace>>
    BY <1>2, <1>6 DEF RunAutomatic
  <2> QED BY <2>1, <1>3, <1>4, <1>5, FrozenKeeps
<1>7. CASE ~policy.allowed
  <2>1. /\ run' = [run EXCEPT ![r] = run[r]]
        /\ job' = [job EXCEPT ![r] = job[r]]
        /\ attempt' = attempt /\ trace' = trace
    BY <1>7 DEF RunAutomatic, Inv, TypeOK
  <2>2. StillCovered(r, run[r])
    BY <1>5 DEF StillCovered
  <2>3. ~Mending(r)
    BY <1>3 DEF Mending
  <2> QED
    BY <1>4, <1>5, <2>1, <2>2, <2>3, RowsFacts, JobStepKeeps DEF RowRecords, RowsOK
<1> QED BY <1>6, <1>7

(* Recording that no answer is available leaves a failed attempt.          *)
LEMMA RecordFacts ==
  ASSUME Inv, World, NEW r \in Requests, RecordUnavailable(r), attempt[r].st = "none",
         ~Mending(r)
  PROVE  \E x \in RowRecords : Write(r, x) /\ Advance(r, x)
<1>1. CASE Consumed
  <2>1. Write(r, Rows(r))
    BY <1>1 DEF RecordUnavailable, Write, Rows, Inv, TypeOK
  <2>2. RowsOK(Rows(r), Lost(r)') /\ KeepsClaims(Rows(r), Rows(r))
    BY RowsFacts DEF RowsOK, Honest, World, KeepsClaims, Lost
  <2> QED BY <2>1, <2>2, RowsFacts, KeepsAdvance
<1>2. CASE ~Consumed
  <2> DEFINE x == [a |-> Abandoned(attempt[r]), j |-> FailLive(job[r]), t |-> "running"]
  <2>1. /\ x.a = Abandoned(attempt[r]) /\ x.j = FailLive(job[r]) /\ x.t = "running"
        /\ attempt[r] \in AttemptRecords /\ job[r] \in JobStatus
        /\ Together(attempt[r], job[r])
    BY RowsFacts DEF RowRecords, RowsOK
  <2>2. Write(r, x)
    BY <1>2, <2>1 DEF RecordUnavailable, Write
  <2> HIDE DEF x
  <2>3. Together(x.a, x.j) /\ x.j \in JobStatus
    BY <2>1, AbandonedFacts DEF Together, FailLive, JobStatus, Live
  <2>4. x \in RowRecords
    BY <2>1, <2>3, AbandonedFacts DEF RowRecords, TraceStatus, x
  <2>5. RowsOK(x, Lost(r)')
    BY <2>1, <2>3, AbandonedFacts DEF RowsOK, Honest, TerminalTrace
  <2>6. KeepsClaims(x, Rows(r))
    BY <2>1, RowsFacts, AbandonedFacts DEF KeepsClaims
  <2> QED BY <2>2, <2>4, <2>5, <2>6, KeepsAdvance
<1> QED BY <1>1, <1>2

(* Prepare freezes, records a failure or does nothing. *)
LEMMA PrepareKeeps ==
  ASSUME Inv, World, NEW r \in Requests, Prepare(r),
         run[r].at = "idle", attempt[r].st = "none", r \notin Segments,
         buffered' => timer' \/ InFlight
  PROVE  Inv' /\ NoOvertakingStep
<1>1. ~Undrained(r)' /\ RunFits(run[r], Rows(r).a)
  BY StartedIsDrained, RowsFacts
<1>2. /\ run = [run EXCEPT ![r] = run[r]]
      /\ StillCovered(r, run[r])
  BY DEF Inv, TypeOK, StillCovered, InFlight
<1>0. ~Mending(r)
  BY DEF Mending
<1>3. CASE ~policy.allowed
  <2>1. /\ UNCHANGED <<attempt, trace, run>>
        /\ job' = [job EXCEPT ![r] = job[r]]
    BY <1>3 DEF Prepare, rowVars, Inv, TypeOK
  <2> QED BY <2>1, <1>0, <1>1, <1>2, RowsFacts, JobStepKeeps DEF RowRecords, RowsOK
<1>4. CASE policy.allowed /\ ~Replays(r)
  BY <1>1, <1>4, FrozenKeeps DEF Prepare
<1>5. CASE policy.allowed /\ Replays(r)
  <2>1. RecordUnavailable(r) /\ run' = run
    BY <1>5 DEF Prepare
  <2>2. PICK x \in RowRecords : Write(r, x) /\ Advance(r, x)
    BY <1>0, <2>1, RecordFacts
  <2>3. RunFits(run[r], x.a)
    BY RowsFacts DEF RunFits
  <2> QED BY <2>1, <2>2, <2>3, <1>1, <1>2, RowsFacts, StepKeeps
<1> QED BY <1>3, <1>4, <1>5

LEMMA RequestManualKeeps ==
  ASSUME Inv, NEW r \in Manuals, RequestManual(r), Forget PROVE Inv' /\ NoOvertakingStep
<1>1. World /\ buffered' = FALSE
  BY WorldStays, ForgetFacts DEF RequestManual, CancelPendingAutomatic
<1> QED BY <1>1, RequestSets, PrepareKeeps DEF RequestManual

LEMMA RequestOpeningKeeps ==
  ASSUME Inv, NEW r \in Openings, RequestOpening(r), Forget PROVE Inv' /\ NoOvertakingStep
<1>1. World /\ (buffered' => timer' \/ InFlight)
  BY WorldStays, ForgetFacts, BufferStays
     DEF RequestOpening, Inv, BufferCovered, bufferVars
<1> QED BY <1>1, RequestSets, PrepareKeeps DEF RequestOpening

LEMMA RepeatManualKeeps ==
  ASSUME Inv, NEW r \in Manuals, RepeatManual(r), Forget PROVE Inv' /\ NoOvertakingStep
<1>1. World /\ buffered' = FALSE /\ UNCHANGED <<attempt, job, trace, run>>
  BY WorldStays, ForgetFacts DEF RepeatManual, CancelPendingAutomatic, rowVars
<1>2. ~Undrained(r)' /\ StillCovered(r, run[r])
  BY <1>1, RequestSets, StartedIsDrained DEF StillCovered
<1>3. run' = [run EXCEPT ![r] = run[r]] /\ job' = [job EXCEPT ![r] = job[r]]
  BY <1>1 DEF Inv, TypeOK
<1>4. Mending(r)' <=> Mending(r)
  BY <1>1 DEF Mending
<1> QED
  BY <1>1, <1>2, <1>3, <1>4, RequestSets, RowsFacts, JobStepKeeps DEF RowRecords, RowsOK

LEMMA OpeningUnavailableKeeps ==
  ASSUME Inv, NEW r \in Openings, OpeningUnavailable(r), Forget PROVE Inv' /\ NoOvertakingStep
<1>1. r \in Requests /\ r \notin Segments
  BY RequestSets
<1>2. World /\ UNCHANGED bufferVars /\ run' = run
  BY WorldStays, ForgetFacts, BufferStays DEF OpeningUnavailable
<1> DEFINE j == IF job[r] = "none" THEN "failed" ELSE job[r]
           x == [a |-> Abandoned(attempt[r]), j |-> j, t |-> "failed"]
<1>3. /\ x.a = Abandoned(attempt[r]) /\ x.j = j /\ x.t = "failed"
      /\ attempt[r] \in AttemptRecords /\ job[r] \in JobStatus
      /\ Together(attempt[r], job[r])
      /\ attempt[r].st = "none" /\ job[r] # "running" /\ run[r].at = "idle"
  BY <1>1, RowsFacts DEF RowRecords, RowsOK, OpeningUnavailable
<1>4. Write(r, x)
  BY <1>3 DEF OpeningUnavailable, Write
<1>5. j = "failed"
  BY <1>3 DEF JobStatus, Together
<1> HIDE DEF x, j
<1>6. x \in RowRecords
  BY <1>1, <1>3, <1>5, AbandonedFacts DEF RowRecords, TraceStatus, JobStatus, x
<1>7. RowsOK(x, Lost(r)')
  BY <1>3, <1>5, AbandonedFacts DEF RowsOK, Honest, Together, Live, Matches
<1>8. KeepsClaims(x, Rows(r))
  BY <1>1, <1>3, RowsFacts, AbandonedFacts DEF KeepsClaims
<1>9. /\ run' = [run EXCEPT ![r] = run[r]] /\ RunFits(run[r], x.a)
      /\ ~Undrained(r)' /\ StillCovered(r, run[r])
  BY <1>1, <1>2, <1>3, RowsFacts, StartedIsDrained, StayCovers DEF Inv, TypeOK, RunFits
<1> QED BY <1>1, <1>2, <1>4, <1>6, <1>7, <1>8, <1>9, RowsFacts, KeepsAdvance, StepKeeps

LEMMA PrepareFailsKeeps ==
  ASSUME Inv, NEW r \in Requests, PrepareFails(r), Forget PROVE Inv' /\ NoOvertakingStep
<1>1. /\ run' = [run EXCEPT ![r] = NoRun] /\ StillCovered(r, NoRun)
      /\ buffered' = buffered /\ timer' \in BOOLEAN
  BY EndCovers DEF PrepareFails
<1>2. World
  BY <1>1, WorldStays, ForgetFacts DEF PrepareFails, Inv, TypeOK
<1>3. run[r].at = "frozen" /\ attempt[r].st = "none" /\ ~Undrained(r)'
  BY <1>2, RowsFacts, StartedIsDrained DEF PrepareFails, RunFits
<1>4. PICK x \in RowRecords : Write(r, x) /\ Advance(r, x)
  BY <1>2, <1>3, RecordFacts DEF PrepareFails, Mending
<1>5. RunFits(NoRun, x.a)
  BY DEF RunFits, NoRun
<1> QED BY <1>1, <1>2, <1>3, <1>4, <1>5, RowsFacts, StepKeeps

-----------------------------------------------------------------------------
(* beginGenerationAttempt, context and provider                            *)

LEMMA BeginKeeps ==
  ASSUME Inv, NEW r \in Requests, Begin(r), Forget PROVE Inv' /\ NoOvertakingStep
<1> DEFINE m == IF r \in Manuals THEN display.mseq + 1 ELSE display.mseq
           k == IF r \in Manuals THEN m ELSE 0
           a == [attempt[r] EXCEPT !.st = "running", !.mseq = k]
           z == [run[r] EXCEPT !.at = "begun", !.mseq = m]
           x == [a |-> a, j |-> job[r], t |-> "running"]
<1>0. /\ run[r] \in RunRecords /\ RunFits(run[r], attempt[r]) /\ run[r].at = "frozen"
      /\ attempt[r] \in AttemptRecords /\ job[r] \in JobStatus
      /\ Fits(attempt[r]) /\ Together(attempt[r], job[r])
  BY RowsFacts DEF RowRecords, RowsOK, Begin
<1>1. /\ display \in [rev : Nat, vis : {"none", "visible", "withdrawn"}, mseq : Nat]
      /\ m \in Nat /\ display.mseq <= m /\ k \in Nat /\ k <= m
  BY DEF Inv, TypeOK
<1>2. /\ attempt' = [attempt EXCEPT ![r] = a] /\ trace' = [trace EXCEPT ![r] = "running"]
      /\ run' = [run EXCEPT ![r] = z] /\ display' = [display EXCEPT !.mseq = m]
      /\ job' = [job EXCEPT ![r] = job[r]] /\ UNCHANGED bufferVars
      /\ segments' = segments /\ policy' = policy /\ torn' = torn /\ faults' = faults
  BY <1>0 DEF Begin, OpenTrace, Inv, TypeOK
<1>3. display'.mseq = m /\ World
  BY <1>1, <1>2, BufferStays, ForgetFacts DEF World, Inv, TypeOK
<1> HIDE DEF m, k
<1>4. /\ z \in RunRecords /\ z.at = "begun" /\ z.calls = 0
  BY <1>0, <1>1 DEF RunRecords, Step, RunFits
<1>5. /\ a \in AttemptRecords /\ a.st = "running" /\ a.out = attempt[r].out
      /\ a.mseq <= m /\ a.basis = attempt[r].basis
  BY <1>0, <1>1 DEF AttemptRecords, AttemptStatus
<1> HIDE DEF a, z
<1>6. x.a = a /\ x.j = job[r] /\ x.t = "running" /\ x \in RowRecords
  BY <1>0, <1>5 DEF RowRecords, TraceStatus
<1>7. Write(r, x)
  BY <1>2 DEF Write
<1> HIDE DEF x
<1>8. attempt[r].st = "none"
  BY <1>0 DEF RunFits
<1>9. RowsOK(x, Lost(r)')
  BY <1>0, <1>5, <1>6, <1>8
     DEF RowsOK, Honest, TerminalTrace, Fits, Together, Live, AttemptRecords, Outcome
<1>10. Advance(r, x)
  BY <1>0, <1>3, <1>5, <1>6, <1>8, <1>9 DEF Advance, Fits
<1>11. RunFits(z, x.a)
  BY <1>4, <1>5, <1>6 DEF RunFits
<1>12. ~Undrained(r)' /\ StillCovered(r, z)
  BY <1>0, <1>2, <1>3, <1>4, StartedIsDrained, StayCovers
<1> QED BY <1>2, <1>3, <1>4, <1>7, <1>10, <1>11, <1>12, StepKeeps

LEMMA BeginRefusedKeeps ==
  ASSUME Inv, NEW r \in Requests, BeginRefused(r), Forget PROVE Inv' /\ NoOvertakingStep
<1>1. /\ run' = [run EXCEPT ![r] = NoRun] /\ StillCovered(r, NoRun)
      /\ buffered' = buffered /\ timer' \in BOOLEAN
  BY EndCovers DEF BeginRefused
<1>2. World
  BY <1>1, WorldStays, ForgetFacts DEF BeginRefused, Inv, TypeOK
<1>3. run[r].at = "frozen" /\ attempt[r].st = "none" /\ ~Undrained(r)'
  BY <1>2, RowsFacts, StartedIsDrained DEF BeginRefused, RunFits
<1> DEFINE j == IF job[r] = "running" THEN "none" ELSE job[r]
<1>4. j \in JobStatus /\ Together(attempt[r], j)
  BY <1>3, RowsFacts DEF RowRecords, RowsOK, Together, JobStatus
<1>5. job' = [job EXCEPT ![r] = j] /\ attempt' = attempt /\ trace' = trace
  BY DEF BeginRefused, Inv, TypeOK
<1>6. RunFits(NoRun, attempt[r])
  BY DEF RunFits, NoRun
<1>7. ~Mending(r)
  BY <1>3 DEF Mending
<1> HIDE DEF j
<1> QED BY <1>1, <1>2, <1>3, <1>4, <1>5, <1>6, <1>7, RowsFacts, JobStepKeeps

(* Goto keeps what a run has read. *)
LEMMA GotoFacts ==
  ASSUME Inv, NEW r \in Requests, NEW step \in Step \ {"idle", "frozen", "begun", "ready"},
         run[r].at # "idle", Goto(r, step)
  PROVE  \E z \in RunRecords :
           /\ run' = [run EXCEPT ![r] = z] /\ z.at = step
           /\ StillCovered(r, z) /\ UNCHANGED bufferVars
<1> DEFINE z == [run[r] EXCEPT !.at = step]
<1>1. run' = [run EXCEPT ![r] = z] /\ UNCHANGED bufferVars
  BY DEF Goto
<1>2. z \in RunRecords /\ z.at = step
  BY RowsFacts DEF RunRecords
<1> HIDE DEF z
<1>3. StillCovered(r, z)
  BY <1>1, <1>2, StayCovers
<1> QED BY <1>1, <1>2, <1>3

LEMMA BuildContextKeeps ==
  ASSUME Inv, NEW r \in Requests, BuildContext(r), Forget PROVE Inv' /\ NoOvertakingStep
<1>1. PICK step \in {"ready", "listen"} : Goto(r, step)
  BY DEF BuildContext, JourneyDecides
<1> DEFINE z == [run[r] EXCEPT !.at = step]
<1>2. /\ run' = [run EXCEPT ![r] = z] /\ UNCHANGED bufferVars
      /\ run[r].at = "begun" /\ job' = [job EXCEPT ![r] = job[r]]
      /\ attempt' = attempt /\ trace' = trace
  BY <1>1 DEF Goto, BuildContext, rowVars, Inv, TypeOK
<1>3. z \in RunRecords /\ z.at = step /\ z.calls = 0
  BY <1>2, RowsFacts DEF RunRecords, Step, RunFits
<1> HIDE DEF z
<1>4. RunFits(z, attempt[r])
  BY <1>2, <1>3, RowsFacts DEF RunFits
<1>5. World
  BY <1>2, WorldStays, BufferStays, ForgetFacts DEF BuildContext
<1>6. StillCovered(r, z)
  BY <1>2, <1>3, StayCovers
<1>7. ~Mending(r)
  BY <1>2 DEF Mending
<1> QED BY <1>2, <1>3, <1>4, <1>5, <1>6, <1>7, GotoKeeps

LEMMA ContextFailsKeeps ==
  ASSUME Inv, NEW r \in Requests, ContextFails(r), Forget PROVE Inv' /\ NoOvertakingStep
<1>1. /\ Goto(r, "unbuilt") /\ run[r].at = "begun" /\ job' = [job EXCEPT ![r] = job[r]]
      /\ attempt' = attempt /\ trace' = trace
  BY DEF ContextFails, rowVars, Inv, TypeOK
<1>2. PICK z \in RunRecords : /\ run' = [run EXCEPT ![r] = z] /\ z.at = "unbuilt"
                              /\ StillCovered(r, z) /\ UNCHANGED bufferVars
  BY <1>1, GotoFacts DEF Step
<1>3. World
  BY <1>2, WorldStays, BufferStays, ForgetFacts DEF ContextFails
<1>4. RunFits(z, attempt[r])
  BY <1>1, <1>2, RowsFacts DEF RunFits
<1>5. ~Mending(r)
  BY <1>1 DEF Mending
<1> QED BY <1>1, <1>2, <1>3, <1>4, <1>5, GotoKeeps

LEMMA CallProviderKeeps ==
  ASSUME Inv, NEW r \in Requests, CallProvider(r), Forget PROVE Inv' /\ NoOvertakingStep
<1> DEFINE n == run[r].calls + 1
<1>1. PICK answer \in Answers :
        LET over == answer = "fails" /\ n = 2
        IN /\ job' = [job EXCEPT ![r] = IF over THEN FailLive(@) ELSE @]
           /\ run' = [run EXCEPT ![r].calls = n,
                ![r].at = IF answer # "fails" THEN answer ELSE IF over THEN "broken" ELSE "ready"]
  BY DEF CallProvider
<1> DEFINE over == answer = "fails" /\ n = 2
           step == IF answer # "fails" THEN answer ELSE IF over THEN "broken" ELSE "ready"
           j == IF over THEN FailLive(job[r]) ELSE job[r]
           z == [run[r] EXCEPT !.calls = n, !.at = step]
<1>2. /\ run[r].at = "ready" /\ attempt' = attempt /\ trace' = trace
      /\ job' = [job EXCEPT ![r] = j] /\ run' = [run EXCEPT ![r] = z]
      /\ UNCHANGED bufferVars
  BY <1>1 DEF CallProvider, Inv, TypeOK
<1>3. n \in 1 .. 2 /\ run[r] \in RunRecords /\ RunFits(run[r], attempt[r])
  BY <1>2, RowsFacts DEF RunRecords, RunFits
<1>4. step \in {"suggest", "listen", "broken", "ready"} /\ (step = "ready" => n < 2)
  BY <1>3 DEF Answers
<1>0. n \in 0 .. 2 /\ step \in Step
  BY <1>3, <1>4 DEF Step
<1> HIDE DEF n, step
<1>5. z \in RunRecords /\ z.at = step /\ z.calls = n
  BY <1>3, <1>0 DEF RunRecords
<1> HIDE DEF z
<1>6. RunFits(z, attempt[r])
  BY <1>2, <1>3, <1>4, <1>5 DEF RunFits
<1>7. World /\ StillCovered(r, z)
  BY <1>2, <1>4, <1>5, WorldStays, BufferStays, ForgetFacts, StayCovers DEF CallProvider
<1>8. ~Mending(r)
  BY <1>2 DEF Mending
<1> QED BY <1>2, <1>5, <1>6, <1>7, <1>8, GotoKeeps

(* The run breaks off with its job failed. *)
LEMMA BreakKeeps ==
  ASSUME Inv, NEW r \in Requests, run[r].at \in {"ready", "suggest", "listen"},
         job' = [job EXCEPT ![r] = FailLive(@)], Goto(r, "broken"),
         UNCHANGED <<segments, policy, display, attempt, trace, torn, faults>>, Forget
  PROVE  Inv' /\ NoOvertakingStep
<1>1. PICK z \in RunRecords : /\ run' = [run EXCEPT ![r] = z] /\ z.at = "broken"
                              /\ StillCovered(r, z) /\ UNCHANGED bufferVars
  BY GotoFacts DEF Step
<1>2. World
  BY <1>1, WorldStays, BufferStays, ForgetFacts
<1>3. RunFits(z, attempt[r])
  BY <1>1, RowsFacts DEF RunFits
<1>4. job' = [job EXCEPT ![r] = FailLive(job[r])]
  BY DEF Inv, TypeOK
<1>5. ~Mending(r)
  BY DEF Mending
<1> QED BY <1>1, <1>2, <1>3, <1>4, <1>5, GotoKeeps

LEMMA ProviderRefusedKeeps ==
  ASSUME Inv, NEW r \in Requests, ProviderRefused(r), Forget PROVE Inv' /\ NoOvertakingStep
BY BreakKeeps DEF ProviderRefused

LEMMA PublishRefusedKeeps ==
  ASSUME Inv, NEW r \in Requests, PublishRefused(r), Forget PROVE Inv' /\ NoOvertakingStep
BY BreakKeeps DEF PublishRefused, Publishing

-----------------------------------------------------------------------------
(* publishAttemptResult                                                    *)

(* A commit ends the attempt with an outcome that fits; when it publishes, *)
(* the presentation is the one the run started from and moves on.          *)
LEMMA CommitKeeps ==
  ASSUME Inv, NEW r \in Requests, NEW status, NEW outcome,
         MayWrite(r), Commit(r, status, outcome), Forget,
         \/ status = "cancelled" /\ outcome \in {"stale_basis", "superseded_by_manual"}
         \/ status = "succeeded" /\ outcome \in {"published", "withheld"},
         display' \in [rev : Nat, vis : {"none", "visible", "withdrawn"}, mseq : Nat],
         display'.mseq = display.mseq, display.rev <= display'.rev,
         outcome = "published" => Fence(r) = "none" /\ display.rev < display'.rev
  PROVE  Inv' /\ NoOvertakingStep
<1> DEFINE b == IF outcome = "published" THEN run[r].basis ELSE attempt[r].basis
           a == [attempt[r] EXCEPT !.st = status, !.out = outcome, !.basis = b]
           x == [a |-> a, j |-> "succeeded", t |-> trace[r]]
<1>0. /\ run[r] \in RunRecords /\ run[r].at \in {"suggest", "listen"}
      /\ attempt[r] \in AttemptRecords /\ trace[r] \in TraceStatus
      /\ attempt[r].st = "running" /\ Honest(trace[r], attempt[r], r \in torn)
      /\ trace[r] # "none"
  BY RowsFacts DEF RowRecords, RowsOK, MayWrite, Publishing, Live, Lost, Mending
<1>1. /\ attempt' = [attempt EXCEPT ![r] = a] /\ job' = [job EXCEPT ![r] = "succeeded"]
      /\ trace' = [trace EXCEPT ![r] = trace[r]] /\ Goto(r, "committed")
      /\ segments' = segments /\ policy' = policy /\ torn' = torn /\ faults' = faults
  <2>1. attempt' = [attempt EXCEPT ![r].st = status, ![r].out = outcome,
          ![r].basis = IF outcome = "published" THEN run[r].basis ELSE @]
    BY DEF Commit
  <2>2. attempt' = [attempt EXCEPT ![r] = a]
    BY <2>1 DEF Inv, TypeOK
  <2>3. trace = [trace EXCEPT ![r] = trace[r]]
    BY DEF Inv, TypeOK
  <2> HIDE DEF a
  <2> QED BY <2>2, <2>3 DEF Commit
<1>2. PICK z \in RunRecords : /\ run' = [run EXCEPT ![r] = z] /\ z.at = "committed"
                              /\ StillCovered(r, z) /\ UNCHANGED bufferVars
  BY <1>0, <1>1, GotoFacts DEF Step
<1>3. World
  BY <1>1, <1>2, BufferStays, ForgetFacts DEF World, Inv, TypeOK
<1>4. status \in AttemptStatus /\ outcome \in Outcome /\ b \in Int
  BY <1>0 DEF AttemptStatus, Outcome, AttemptRecords, RunRecords
<1> HIDE DEF b
<1>5. /\ a \in AttemptRecords /\ a.st = status /\ a.out = outcome /\ a.basis = b
      /\ a.mseq = attempt[r].mseq
  BY <1>0, <1>4 DEF AttemptRecords
<1> HIDE DEF a
<1>6. x.a = a /\ x.j = "succeeded" /\ x.t = trace[r] /\ x \in RowRecords
  BY <1>0, <1>5 DEF RowRecords, JobStatus
<1>7. Write(r, x)
  BY <1>1 DEF Write
<1> HIDE DEF x
<1>8. Honest(trace[r], a, Lost(r)')
  BY <1>0, <1>1 DEF Honest, Matches, TerminalTrace, Lost
<1>9. RowsOK(x, Lost(r)')
  BY <1>0, <1>5, <1>6, <1>8 DEF RowsOK, Fits, Together, Live
<1>10. x.a.mseq <= display'.mseq
  BY <1>0, <1>5, <1>6 DEF Inv, CountInv, Counted
<1>11. x.a.out = "published" =>
         /\ x.a.basis = display.rev /\ display.rev < display'.rev
         /\ r \in Segments => run[r].mseq = display.mseq
  BY <1>5, <1>6 DEF Fence, b
<1>12. Advance(r, x)
  BY <1>5, <1>6, <1>9, <1>10, <1>11 DEF Advance
<1>13. RunFits(z, x.a)
  BY <1>2, <1>5, <1>6 DEF RunFits
<1>14. ~Undrained(r)'
  BY <1>0, <1>3, StartedIsDrained
<1> QED BY <1>2, <1>3, <1>7, <1>12, <1>13, <1>14, StepKeeps

(* The presentation's revision is counted up. *)
LEMMA DisplayFacts ==
  ASSUME Inv
  PROVE  /\ display \in [rev : Nat, vis : {"none", "visible", "withdrawn"}, mseq : Nat]
         /\ \A v \in {"none", "visible", "withdrawn"} :
              LET d == [display EXCEPT !.rev = @ + 1, !.vis = v]
              IN /\ d \in [rev : Nat, vis : {"none", "visible", "withdrawn"}, mseq : Nat]
                 /\ d.mseq = display.mseq /\ display.rev < d.rev /\ display.rev <= d.rev
<1>1. display \in [rev : Nat, vis : {"none", "visible", "withdrawn"}, mseq : Nat]
  BY DEF Inv, TypeOK
<1> DEFINE k == display.rev + 1
<1>2. k \in Nat /\ display.rev < k /\ display.rev <= k
  BY <1>1
<1> HIDE DEF k
<1>3. \A v \in {"none", "visible", "withdrawn"} :
        LET d == [display EXCEPT !.rev = k, !.vis = v]
        IN /\ d \in [rev : Nat, vis : {"none", "visible", "withdrawn"}, mseq : Nat]
           /\ d.mseq = display.mseq /\ d.rev = k
  BY <1>1, <1>2
<1> QED BY <1>1, <1>2, <1>3 DEF k

LEMMA PublishFencedKeeps ==
  ASSUME Inv, NEW r \in Requests, PublishFenced(r), Forget PROVE Inv' /\ NoOvertakingStep
<1>1. /\ Fence(r) \in {"stale_basis", "superseded_by_manual"}
      /\ display' = display /\ MayWrite(r) /\ Commit(r, "cancelled", Fence(r))
      /\ display.rev <= display.rev
  BY DisplayFacts DEF PublishFenced, Fence
<1>2. PICK outcome \in {"stale_basis", "superseded_by_manual"} : outcome = Fence(r)
  BY <1>1
<1> QED BY <1>1, <1>2, DisplayFacts, CommitKeeps

LEMMA PublishGatedKeeps ==
  ASSUME Inv, NEW r \in Requests, PublishGated(r), Forget PROVE Inv' /\ NoOvertakingStep
<1>1. display.rev <= display.rev
  BY DisplayFacts
<1> QED BY <1>1, DisplayFacts, CommitKeeps DEF PublishGated

LEMMA PublishCandidateKeeps ==
  ASSUME Inv, NEW r \in Requests, PublishCandidate(r), Forget PROVE Inv' /\ NoOvertakingStep
BY DisplayFacts, CommitKeeps DEF PublishCandidate

LEMMA PublishListeningKeeps ==
  ASSUME Inv, NEW r \in Requests, PublishListening(r), Forget PROVE Inv' /\ NoOvertakingStep
<1>1. CASE r \in Segments /\ display.vis = "visible"
  <2>1. display.rev <= display.rev
    BY DisplayFacts
  <2> QED BY <1>1, <2>1, DisplayFacts, CommitKeeps DEF PublishListening
<1>2. CASE ~(r \in Segments /\ display.vis = "visible")
  BY <1>2, DisplayFacts, CommitKeeps DEF PublishListening
<1> QED BY <1>1, <1>2

-----------------------------------------------------------------------------
(* The decision trace                                                      *)

(* The run of a request that has failed goes through these. *)
Closing == {z \in RunRecords : z.at \in {"unmended", "closed", "report", "report_job"}}

(* A step that only writes the rows of r as a repair may, and lets its run *)
(* stay, close or end.                                                     *)
LEMMA RepairKeeps ==
  ASSUME Inv, World, NEW r \in Requests, attempt[r].st # "none",
         NEW x \in RowRecords, Write(r, x), RowsOK(x, Lost(r)'), KeepsClaims(x, Rows(r)),
         NEW z \in {run[r], NoRun} \cup Closing, run' = [run EXCEPT ![r] = z], StillCovered(r, z)
  PROVE  Inv' /\ NoOvertakingStep
<1>1. ~Undrained(r)'
  BY StartedIsDrained
<1>2. z \in RunRecords /\ RunFits(z, x.a)
  BY RowsFacts DEF RunFits, KeepsClaims, NoRun, Closing
<1> QED BY <1>1, <1>2, KeepsAdvance, StepKeeps

LEMMA FinalizeKeeps ==
  ASSUME Inv, NEW r \in Requests, Finalize(r), Forget PROVE Inv' /\ NoOvertakingStep
<1>0. /\ run[r].at = "committed" /\ attempt[r].st \in {"succeeded", "cancelled"}
      /\ attempt[r] \in AttemptRecords /\ job[r] \in JobStatus
      /\ Fits(attempt[r]) /\ Together(attempt[r], job[r])
  BY RowsFacts DEF RowRecords, RowsOK, Finalize, RunFits
<1>1. CASE trace[r] = "running"
  <2> DEFINE t == StatusFor(attempt[r].out)
             x == [a |-> attempt[r], j |-> job[r], t |-> t]
  <2>1. /\ run' = [run EXCEPT ![r] = NoRun] /\ StillCovered(r, NoRun)
        /\ buffered' = buffered /\ timer' \in BOOLEAN
    BY <1>1, EndCovers DEF Finalize
  <2>2. World /\ torn' = torn
    BY <2>1, WorldStays, ForgetFacts DEF Finalize, Inv, TypeOK
  <2>3. t \in TraceStatus \ {"none"} /\ Matches(t, attempt[r])
    BY <1>0 DEF StatusFor, TraceStatus, Matches, Fits, AttemptRecords, Outcome
  <2>4. /\ attempt' = [attempt EXCEPT ![r] = attempt[r]] /\ job' = [job EXCEPT ![r] = job[r]]
        /\ trace' = [trace EXCEPT ![r] = t]
    BY <1>1 DEF Finalize, Inv, TypeOK
  <2> HIDE DEF t
  <2>5. x.a = attempt[r] /\ x.j = job[r] /\ x.t = t /\ x \in RowRecords
    BY <1>0, <2>3 DEF RowRecords
  <2>6. Write(r, x)
    BY <2>4 DEF Write
  <2> HIDE DEF x
  <2>7. RowsOK(x, Lost(r)')
    BY <1>0, <2>3, <2>5 DEF RowsOK, Honest
  <2>8. KeepsClaims(x, Rows(r))
    BY <2>5, RowsFacts DEF KeepsClaims
  <2> QED BY <1>0, <2>1, <2>2, <2>5, <2>6, <2>7, <2>8, RepairKeeps
<1>2. CASE trace[r] # "running"
  <2>1. /\ Goto(r, "broken") /\ attempt' = attempt /\ trace' = trace
        /\ job' = [job EXCEPT ![r] = job[r]]
    BY <1>2 DEF Finalize, Inv, TypeOK
  <2>2. PICK z \in RunRecords : /\ run' = [run EXCEPT ![r] = z] /\ z.at = "broken"
                                /\ StillCovered(r, z) /\ UNCHANGED bufferVars
    BY <1>0, <2>1, GotoFacts DEF Step
  <2>3. World
    BY <2>2, WorldStays, BufferStays, ForgetFacts DEF Finalize
  <2>4. RunFits(z, attempt[r])
    BY <1>0, <2>2 DEF RunFits
  <2>5. ~Mending(r)
    BY <1>0 DEF Mending
  <2> QED BY <1>0, <2>1, <2>2, <2>3, <2>4, <2>5, GotoKeeps
<1> QED BY <1>1, <1>2

LEMMA FinalizeFailsKeeps ==
  ASSUME Inv, NEW r \in Requests, FinalizeFails(r), Forget PROVE Inv' /\ NoOvertakingStep
<1>1. /\ run[r].at = "committed" /\ Goto(r, "broken") /\ attempt' = attempt /\ trace' = trace
      /\ job' = [job EXCEPT ![r] = job[r]]
  BY DEF FinalizeFails, rowVars, Inv, TypeOK
<1>2. PICK z \in RunRecords : /\ run' = [run EXCEPT ![r] = z] /\ z.at = "broken"
                              /\ StillCovered(r, z) /\ UNCHANGED bufferVars
  BY <1>1, GotoFacts DEF Step
<1>3. World
  BY <1>2, BufferStays, ForgetFacts DEF FinalizeFails, World, Inv, TypeOK
<1>4. RunFits(z, attempt[r])
  BY <1>1, <1>2, RowsFacts DEF RunFits
<1>5. ~Mending(r)
  BY <1>1 DEF Mending
<1> QED BY <1>1, <1>2, <1>3, <1>4, <1>5, GotoKeeps

(* Closing a trace as failed leaves its repair owed. *)
LEMMA CloseFailedTraceKeeps ==
  ASSUME Inv, NEW r \in Requests, CloseFailedTrace(r), Forget PROVE Inv' /\ NoOvertakingStep
<1> DEFINE step == IF run[r].at = "unbuilt" THEN "unmended" ELSE "closed"
           z == [NoRun EXCEPT !.at = step]
           t == trace'[r]
           x == [a |-> attempt[r], j |-> job[r], t |-> t]
<1>1. /\ run' = [run EXCEPT ![r] = z] /\ UNCHANGED bufferVars
      /\ attempt' = attempt /\ job' = job
      /\ run[r].at \in {"unbuilt", "broken"} /\ attempt[r].st # "none"
  BY RowsFacts DEF CloseFailedTrace, RunFits
<1>2. /\ trace' = [trace EXCEPT ![r] = t]
      /\ t \in {trace[r], "failed"} /\ (t # trace[r] => trace[r] = "running")
  BY DEF CloseFailedTrace, Inv, TypeOK
<1>3. step \in {"unmended", "closed"} /\ z.at = step /\ z \in Closing
  BY RowsFacts DEF NoRun, RunRecords, Step, Closing
<1>4. StillCovered(r, z)
  BY <1>1, <1>3, StayCovers
<1>5. World
  BY <1>1, BufferStays, ForgetFacts DEF CloseFailedTrace, World, Inv, TypeOK
<1>6. Lost(r)'
  BY <1>1, <1>3 DEF Lost, Mending, Inv, TypeOK
<1> HIDE DEF z, t
<1>7. x.a = attempt[r] /\ x.j = job[r] /\ x.t = t /\ x \in RowRecords
  BY <1>2, RowsFacts DEF RowRecords, TraceStatus
<1>8. Write(r, x)
  BY <1>1, <1>2 DEF Write, Inv, TypeOK
<1> HIDE DEF x
<1>9. RowsOK(x, Lost(r)')
  BY <1>1, <1>2, <1>6, <1>7, RowsFacts DEF RowsOK, Honest
<1>10. KeepsClaims(x, Rows(r))
  BY <1>7, RowsFacts DEF KeepsClaims
<1> QED BY <1>1, <1>3, <1>4, <1>5, <1>7, <1>8, <1>9, <1>10, RepairKeeps

(* After the repair the run reports, or ends. *)
LEMMA AfterRepairFacts ==
  ASSUME Inv, NEW r \in Requests, AfterRepair(r)
  PROVE  \E z \in {NoRun} \cup Closing :
           /\ run' = [run EXCEPT ![r] = z] /\ StillCovered(r, z)
           /\ buffered' = buffered /\ timer' \in BOOLEAN
<1>1. CASE run[r].at = "closed" /\ r \notin Segments
  <2>1. PICK z \in RunRecords : /\ run' = [run EXCEPT ![r] = z] /\ z.at = "report"
                                /\ StillCovered(r, z) /\ UNCHANGED bufferVars
    BY <1>1, GotoFacts DEF AfterRepair, Step
  <2> QED BY <2>1, BufferStays DEF Closing
<1>2. CASE ~(run[r].at = "closed" /\ r \notin Segments)
  BY <1>2, EndCovers DEF AfterRepair
<1> QED BY <1>1, <1>2

LEMMA RepairAttemptKeeps ==
  ASSUME Inv, NEW r \in Requests, RepairAttempt(r), Forget PROVE Inv' /\ NoOvertakingStep
<1>1. PICK z \in {NoRun} \cup Closing :
        /\ run' = [run EXCEPT ![r] = z] /\ StillCovered(r, z)
        /\ buffered' = buffered /\ timer' \in BOOLEAN
  BY AfterRepairFacts DEF RepairAttempt
<1>2. World
  BY <1>1, WorldStays, ForgetFacts DEF RepairAttempt, Inv, TypeOK
<1>3. /\ Rows(r) \in RowRecords /\ RowsOK(Rows(r), TRUE)
      /\ Rows(r).a = attempt[r] /\ attempt[r].st # "none"
  BY RowsFacts DEF RowsOK, Honest, RepairAttempt, Mending, RunFits
<1> DEFINE stuck == r \in old
           x == Recovered(Rows(r), stuck)
<1>4. stuck \in BOOLEAN /\ Write(r, x)
  BY DEF RepairAttempt
<1> HIDE DEF stuck
<1>5. x \in RowRecords /\ RowsOK(x, FALSE) /\ KeepsClaims(x, Rows(r))
  BY <1>3, <1>4, RecoveredFacts
<1> HIDE DEF x
<1>6. RowsOK(x, Lost(r)')
  BY <1>5 DEF RowsOK, Honest
<1> QED BY <1>1, <1>2, <1>3, <1>4, <1>5, <1>6, RepairKeeps

(* A repair that fails is marked where the trace needs it. *)
LEMMA RepairFailsKeeps ==
  ASSUME Inv, NEW r \in Requests, RepairFails(r), Forget PROVE Inv' /\ NoOvertakingStep
<1>1. PICK z \in {NoRun} \cup Closing :
        /\ run' = [run EXCEPT ![r] = z] /\ StillCovered(r, z)
        /\ buffered' = buffered /\ timer' \in BOOLEAN
  BY AfterRepairFacts DEF RepairFails
<1>2. World
  BY <1>1, ForgetFacts DEF RepairFails, World, Inv, TypeOK
<1>3. /\ attempt[r].st # "none" /\ Write(r, Rows(r)) /\ Mending(r)
      /\ trace[r] = "failed" => r \in torn'
  BY RowsFacts DEF RepairFails, Mending, Unmended, RunFits, Write, Rows, rowVars, Inv, TypeOK
<1>4. RowsOK(Rows(r), Lost(r)')
  BY <1>3, RowsFacts DEF RowsOK, Honest, Lost
<1>5. KeepsClaims(Rows(r), Rows(r))
  BY DEF KeepsClaims
<1> QED BY <1>1, <1>2, <1>3, <1>4, <1>5, RowsFacts, RepairKeeps

(* failAttempt gives up the attempt, if it is still live, ... *)
LEMMA FailAttemptKeeps ==
  ASSUME Inv, NEW r \in Requests, FailAttempt(r), Forget PROVE Inv' /\ NoOvertakingStep
<1>1. PICK z \in RunRecords : /\ run' = [run EXCEPT ![r] = z] /\ z.at = "report_job"
                              /\ StillCovered(r, z) /\ UNCHANGED bufferVars
  BY GotoFacts DEF FailAttempt, Step
<1>2. World
  BY <1>1, WorldStays, BufferStays, ForgetFacts DEF FailAttempt
<1>3. /\ attempt[r].st # "none" /\ z \in Closing /\ ~Mending(r)
      /\ torn' = torn
  BY <1>1, RowsFacts DEF FailAttempt, RunFits, Closing, Mending
<1>4. RowsOK(Rows(r), Lost(r)')
  BY <1>3, RowsFacts DEF RowsOK, Honest, Lost
<1> DEFINE x == IF attempt[r].st \in Live THEN [Rows(r) EXCEPT !.a = Abandoned(attempt[r])]
                ELSE Rows(r)
<1>5. Write(r, x)
  BY RowsFacts DEF FailAttempt, Write, Rows, Inv, TypeOK
<1>6. x \in RowRecords /\ RowsOK(x, Lost(r)') /\ KeepsClaims(x, Rows(r))
  <2>1. CASE attempt[r].st \in Live
    <3>1. Lost(r)' \in BOOLEAN
      BY DEF Lost
    <3> QED BY <2>1, <3>1, <1>4, RowsFacts, AbandonFacts
  <2>2. CASE attempt[r].st \notin Live
    BY <2>2, <1>4, RowsFacts DEF KeepsClaims
  <2> QED BY <2>1, <2>2
<1> HIDE DEF x
<1> QED BY <1>1, <1>2, <1>3, <1>5, <1>6, RepairKeeps

(* ... and then its job.                                                   *)
LEMMA FailAttemptJobKeeps ==
  ASSUME Inv, NEW r \in Requests, FailAttemptJob(r), Forget PROVE Inv' /\ NoOvertakingStep
<1>1. /\ run' = [run EXCEPT ![r] = NoRun] /\ StillCovered(r, NoRun)
      /\ buffered' = buffered /\ timer' \in BOOLEAN
  BY EndCovers DEF FailAttemptJob
<1>2. World
  BY <1>1, WorldStays, ForgetFacts DEF FailAttemptJob, Inv, TypeOK
<1> DEFINE j == IF attempt[r].st \in {"failed", "cancelled"} THEN FailLive(job[r]) ELSE job[r]
<1>3. /\ job' = [job EXCEPT ![r] = j] /\ attempt' = attempt /\ trace' = trace
      /\ j \in {job[r], FailLive(job[r])}
  BY DEF FailAttemptJob, Inv, TypeOK
<1> HIDE DEF j
<1>4. run[r].at # "idle" /\ ~Mending(r) /\ RunFits(NoRun, attempt[r])
  BY DEF FailAttemptJob, Mending, RunFits, NoRun
<1> QED BY <1>1, <1>2, <1>3, <1>4, RowsFacts, GotoKeeps

LEMMA ReportFailsKeeps ==
  ASSUME Inv, NEW r \in Requests, ReportFails(r), Forget PROVE Inv' /\ NoOvertakingStep
<1>1. /\ run' = [run EXCEPT ![r] = NoRun] /\ StillCovered(r, NoRun)
      /\ buffered' = buffered /\ timer' \in BOOLEAN
  BY EndCovers DEF ReportFails
<1>2. World
  BY <1>1, ForgetFacts DEF ReportFails, World, Inv, TypeOK
<1>3. /\ job' = [job EXCEPT ![r] = job[r]] /\ attempt' = attempt /\ trace' = trace
  BY DEF ReportFails, rowVars, Inv, TypeOK
<1>4. run[r].at # "idle" /\ ~Mending(r) /\ RunFits(NoRun, attempt[r])
  BY DEF ReportFails, Mending, RunFits, NoRun
<1> QED BY <1>1, <1>2, <1>3, <1>4, RowsFacts, GotoKeeps

(* A reconciler step meets no run's buffer. *)
LEMMA RowsOnly ==
  ASSUME Inv, NEW r \in Requests, attempt[r].st # "none",
         UNCHANGED <<segments, policy, display, bufferVars, run, torn, faults>>, Forget
  PROVE  /\ World /\ torn' = torn
         /\ run' = [run EXCEPT ![r] = run[r]] /\ StillCovered(r, run[r])
<1>1. UNCHANGED bufferVars /\ buffered' = buffered /\ timer' = timer
  BY DEF bufferVars
<1>2. StillCovered(r, run[r])
  BY <1>1 DEF Inv, BufferCovered, InFlight, StillCovered
<1> QED BY <1>1, <1>2, WorldStays, BufferStays, ForgetFacts DEF Inv, TypeOK

LEMMA ReconcileKeeps ==
  ASSUME Inv, NEW r \in Requests, Reconcile(r), Forget PROVE Inv' /\ NoOvertakingStep
<1>1. /\ World /\ torn' = torn
      /\ run' = [run EXCEPT ![r] = run[r]] /\ StillCovered(r, run[r])
  BY RowsOnly DEF Reconcile
<1>2. Rows(r) \in RowRecords /\ RowsOK(Rows(r), TRUE) /\ Rows(r).a.st # "none"
  BY RowsFacts DEF RowsOK, Honest, Reconcile
<1> DEFINE x == Recovered(Rows(r), TRUE)
<1>3. x \in RowRecords /\ RowsOK(x, FALSE) /\ KeepsClaims(x, Rows(r)) /\ Write(r, x)
  BY <1>2, RecoveredFacts DEF Reconcile
<1> HIDE DEF x
<1>4. RowsOK(x, Lost(r)')
  BY <1>3 DEF RowsOK, Honest
<1> QED BY <1>1, <1>3, <1>4, RepairKeeps DEF Reconcile

LEMMA OrphanedJobKeeps ==
  ASSUME Inv, NEW r \in Openings, OrphanedJob(r), Forget PROVE Inv' /\ NoOvertakingStep
<1>0. r \in Requests /\ attempt[r].st = "running"
  BY RequestSets DEF OrphanedJob, Live
<1>1. /\ World
      /\ run' = [run EXCEPT ![r] = run[r]] /\ StillCovered(r, run[r])
  BY <1>0, RowsOnly DEF OrphanedJob
<1>2. /\ job' = [job EXCEPT ![r] = FailLive(job[r])] /\ attempt' = attempt /\ trace' = trace
      /\ ~Undrained(r)' /\ (Mending(r) => Mending(r)')
  BY <1>0, <1>1, StartedIsDrained DEF OrphanedJob, Mending, Inv, TypeOK
<1>3. FailLive(job[r]) \in JobStatus /\ Together(attempt[r], FailLive(job[r]))
  BY <1>0, RowsFacts, FailLiveFacts DEF RowRecords, RowsOK
<1> QED BY <1>0, <1>1, <1>2, <1>3, RowsFacts, JobStepKeeps

LEMMA OrphanedAttemptKeeps ==
  ASSUME Inv, NEW r \in Openings, OrphanedAttempt(r), Forget PROVE Inv' /\ NoOvertakingStep
<1>0. r \in Requests /\ attempt[r].st = "running"
  BY RequestSets DEF OrphanedAttempt, Live
<1>1. /\ World /\ torn' = torn
      /\ run' = [run EXCEPT ![r] = run[r]] /\ StillCovered(r, run[r])
  BY <1>0, RowsOnly DEF OrphanedAttempt
<1> DEFINE x == [Rows(r) EXCEPT !.a = Abandoned(attempt[r])]
<1>2. Write(r, x)
  BY <1>0, RowsFacts DEF OrphanedAttempt, Write, Rows, Inv, TypeOK
<1>3. x \in RowRecords /\ RowsOK(x, Lost(r)) /\ KeepsClaims(x, Rows(r))
  BY <1>0, RowsFacts, AbandonFacts DEF Live
<1> HIDE DEF x
<1>4. Lost(r)' <=> Lost(r)
  BY <1>1 DEF Lost, Mending, OrphanedAttempt
<1>5. RowsOK(x, Lost(r)')
  BY <1>3, <1>4 DEF RowsOK, Honest
<1> QED BY <1>0, <1>1, <1>2, <1>3, <1>5, RepairKeeps

-----------------------------------------------------------------------------
(* Steps of no request                                                     *)

(* What is said of the rows and of the display survives any step that      *)
(* writes no row and only counts the display up.                           *)
LEMMA RowsStay ==
  ASSUME Inv, UNCHANGED <<attempt, job, trace>>, \A r \in Requests : Lost(r) => Lost(r)',
         display'.rev \in Nat, display'.mseq = display.mseq, display.rev <= display'.rev
  PROVE  RowsInv' /\ CountInv' /\ OnePublicationPerBasis' /\ NoOvertakingStep
<1>1. RowsInv'
  BY DEF Inv, RowsInv, Rows, RowsOK, Honest
<1>2. CountInv'
  <2> SUFFICES ASSUME NEW r \in Requests PROVE Counted(r)'
    BY DEF CountInv
  <2>1. Counted(r) /\ display.rev \in Nat /\ attempt' = attempt
    BY DEF Inv, CountInv, TypeOK
  <2> QED BY <2>1 DEF Counted, Published
<1>3. OnePublicationPerBasis'
  BY DEF Inv, OnePublicationPerBasis, Published
<1>4. NoOvertakingStep
  BY DEF NoOvertakingStep, Published
<1> QED BY <1>1, <1>2, <1>3, <1>4

LEMMA SegmentFinalKeeps ==
  ASSUME Inv, SegmentFinal, Forget PROVE Inv' /\ NoOvertakingStep
<1>1. RowsInv' /\ CountInv' /\ OnePublicationPerBasis' /\ NoOvertakingStep
  BY DisplayFacts, RowsStay DEF SegmentFinal, rowVars, Lost, Mending
<1>2. /\ segments \in Nat /\ policy.rev \in Nat /\ faults \in Nat
      /\ segments' = segments + 1 /\ UNCHANGED <<policy, faults, run, attempt>>
  BY DEF Inv, TypeOK, SegmentFinal, rowVars
<1>3. Bounded' /\ segments' \in 0 .. MaxEvents
  BY <1>2, RequestSets DEF Inv, Bounded, SegmentFinal, MoreEvents
<1>4. TypeOK'
  BY <1>3, ForgetFacts DEF Inv, TypeOK, SegmentFinal, rowVars
<1>5. RunInv'
  BY <1>2 DEF Inv, RunInv
<1>6. UndrainedInv'
  <2>1. \A r \in Requests : Undrained(r)' => Undrained(r)
    BY <1>2, RequestSets DEF Undrained
  <2>2. segments' # 0
    BY <1>2
  <2> QED BY <1>2, <2>1, <2>2 DEF Inv, UndrainedInv
<1>7. BufferCovered'
  BY DEF BufferCovered, SegmentFinal
<1> QED BY <1>1, <1>3, <1>4, <1>5, <1>6, <1>7 DEF Inv

LEMMA ChangeConsentKeeps ==
  ASSUME Inv, ChangeConsent, Forget PROVE Inv' /\ NoOvertakingStep
<1>1. RowsInv' /\ CountInv' /\ OnePublicationPerBasis' /\ NoOvertakingStep
  BY DisplayFacts, RowsStay DEF ChangeConsent, rowVars, Lost, Mending
<1>2. /\ segments \in Nat /\ policy.rev \in Nat /\ faults \in Nat
      /\ policy'.rev = policy.rev + 1 /\ policy'.allowed \in BOOLEAN
      /\ policy' = [allowed |-> policy'.allowed, rev |-> policy'.rev]
      /\ UNCHANGED <<segments, display, attempt, job, trace, buffered, timer, run, torn, faults>>
  BY DEF Inv, TypeOK, ChangeConsent, rowVars, bufferVars
<1>3. Bounded' /\ policy'.rev \in 0 .. MaxEvents
  BY <1>2, RequestSets DEF Inv, Bounded, ChangeConsent, MoreEvents
<1>4. TypeOK'
  BY <1>2, <1>3, ForgetFacts DEF Inv, TypeOK
<1>5. RunInv' /\ UndrainedInv' /\ BufferCovered'
  BY <1>2 DEF Inv, RunInv, UndrainedInv, Undrained, BufferCovered, InFlight
<1> QED BY <1>1, <1>3, <1>4, <1>5 DEF Inv

(* A crash forgets the runs and the buffer together; the rows stay.        *)
LEMMA CrashKeeps ==
  ASSUME Inv, Crash, Forget PROVE Inv' /\ NoOvertakingStep
<1>0. /\ UNCHANGED <<attempt, job, trace, display>>
      /\ torn' = torn \cup {r \in Requests : Unmended(r)}
  BY DEF Crash, rowVars
<1>1. RowsInv'
  <2> SUFFICES ASSUME NEW r \in Requests PROVE RowsOK(Rows(r), Lost(r))'
    BY DEF RowsInv
  <2>1. RowsOK(Rows(r), Lost(r)) /\ Rows(r)' = Rows(r)
    BY <1>0, RowsFacts DEF Rows
  <2>2. Lost(r) /\ trace[r] = "failed" => Lost(r)'
    BY <1>0 DEF Lost, Unmended
  <2> QED BY <2>1, <2>2, RowsFacts DEF RowsOK, Honest
<1>7. CountInv' /\ OnePublicationPerBasis' /\ NoOvertakingStep
  BY <1>0 DEF Inv, CountInv, Counted, Published, OnePublicationPerBasis, NoOvertakingStep
<1>2. /\ segments \in Nat /\ policy.rev \in Nat /\ faults \in Nat
      /\ faults' = faults + 1 /\ buffered' = FALSE /\ timer' = FALSE
      /\ run' = [r \in Requests |-> NoRun]
      /\ UNCHANGED <<segments, policy, display, attempt, job, trace>>
      /\ torn' \subseteq Requests
  BY DEF Inv, TypeOK, Crash, rowVars
<1>3. Bounded' /\ faults' \in 0 .. MaxEvents
  BY <1>2, RequestSets DEF Inv, Bounded, Crash, MoreEvents
<1>4. run' \in [Requests -> RunRecords]
  BY <1>2, RowsFacts
<1>5. TypeOK'
  BY <1>2, <1>3, <1>4, ForgetFacts DEF Inv, TypeOK
<1>6. RunInv' /\ UndrainedInv' /\ BufferCovered'
  BY <1>2 DEF Inv, RunInv, RunFits, NoRun, UndrainedInv, Undrained, BufferCovered
<1> QED BY <1>1, <1>3, <1>5, <1>6, <1>7 DEF Inv

LEMMA WithdrawKeeps ==
  ASSUME Inv, Withdraw, Forget PROVE Inv' /\ NoOvertakingStep
<1>1. /\ display' \in [rev : Nat, vis : {"none", "visible", "withdrawn"}, mseq : Nat]
      /\ display'.mseq = display.mseq /\ display.rev <= display'.rev
      /\ UNCHANGED <<segments, policy, attempt, job, trace, buffered, timer, run, torn, faults>>
  BY DisplayFacts DEF Withdraw, rowVars, bufferVars
<1>2. RowsInv' /\ CountInv' /\ OnePublicationPerBasis' /\ NoOvertakingStep
  BY <1>1, RowsStay DEF Lost, Mending
<1>3. TypeOK' /\ Bounded'
  BY <1>1, ForgetFacts DEF Inv, TypeOK, Bounded
<1>4. RunInv' /\ UndrainedInv' /\ BufferCovered'
  BY <1>1 DEF Inv, RunInv, UndrainedInv, Undrained, BufferCovered, InFlight
<1> QED BY <1>2, <1>3, <1>4 DEF Inv

(* The timer fires: nothing is drained, or all of it.                      *)
LEMMA TimerKeeps ==
  ASSUME Inv, TimerWhileBusy \/ RunAutomaticIdle, Forget PROVE Inv' /\ NoOvertakingStep
<1>1. /\ UNCHANGED <<segments, policy, display, attempt, job, trace, run, torn, faults>>
      /\ timer' = FALSE /\ buffered' \in BOOLEAN
      /\ buffered' => buffered /\ InFlight
  <2>1. CASE TimerWhileBusy
    BY <2>1 DEF TimerWhileBusy, rowVars, Inv, TypeOK
  <2>2. CASE RunAutomaticIdle
    BY <2>2 DEF RunAutomaticIdle, rowVars
  <2> QED BY <2>1, <2>2
<1>2. RowsInv' /\ CountInv' /\ OnePublicationPerBasis' /\ NoOvertakingStep
  BY <1>1, DisplayFacts, RowsStay DEF Lost, Mending
<1>3. TypeOK' /\ Bounded'
  BY <1>1, ForgetFacts DEF Inv, TypeOK, Bounded
<1>4. RunInv' /\ UndrainedInv' /\ BufferCovered'
  BY <1>1 DEF Inv, RunInv, UndrainedInv, Undrained, BufferCovered, InFlight
<1> QED BY <1>2, <1>3, <1>4 DEF Inv

(* A request grows old: only the clock has moved. *)
LEMMA ClockKeeps ==
  ASSUME Inv, (\E r \in Requests : GetsOld(r)) \/ UNCHANGED vars PROVE Inv' /\ NoOvertakingStep
<1>1. /\ UNCHANGED <<segments, policy, display, attempt, job, trace, buffered, timer, run, torn, faults>>
      /\ old' \subseteq Requests
  BY DEF GetsOld, vars, rowVars, bufferVars, Inv, TypeOK
<1>2. RowsInv' /\ CountInv' /\ OnePublicationPerBasis' /\ NoOvertakingStep
  BY <1>1, DisplayFacts, RowsStay DEF Lost, Mending
<1>3. TypeOK' /\ Bounded'
  BY <1>1 DEF Inv, TypeOK, Bounded
<1>4. RunInv' /\ UndrainedInv' /\ BufferCovered'
  BY <1>1 DEF Inv, RunInv, UndrainedInv, Undrained, BufferCovered, InFlight
<1> QED BY <1>2, <1>3, <1>4 DEF Inv

-----------------------------------------------------------------------------
(* The theorems                                                            *)

LEMMA InitInv ==
  ASSUME Init PROVE Inv
<1>1. NoAttempt \in AttemptRecords /\ NoRun \in RunRecords
  BY RequestSets DEF NoAttempt, AttemptRecords, AttemptStatus, Outcome, NoRun, RunRecords, Step
<1>2. TypeOK /\ Bounded
  <2>1. /\ policy \in [allowed : BOOLEAN, rev : 0 .. MaxEvents] /\ policy.rev = 0
        /\ display \in [rev : Nat, vis : {"none", "visible", "withdrawn"}, mseq : Nat]
    BY RequestSets DEF Init
  <2>2. attempt \in [Requests -> AttemptRecords] /\ run \in [Requests -> RunRecords]
    BY <1>1 DEF Init
  <2>3. job \in [Requests -> JobStatus] /\ trace \in [Requests -> TraceStatus]
    BY DEF Init, JobStatus, TraceStatus
  <2>4. segments \in 0 .. MaxEvents /\ faults \in 0 .. MaxEvents /\ Bounded
    BY <2>1, RequestSets DEF Init, Bounded
  <2>5. buffered \in BOOLEAN /\ timer \in BOOLEAN /\ old \subseteq Requests /\ torn \subseteq Requests
    BY DEF Init
  <2> QED BY <2>1, <2>2, <2>3, <2>4, <2>5 DEF TypeOK
<1>3. RowsInv
  BY DEF Init, RowsInv, RowsOK, Rows, Fits, Together, Live, Honest, TerminalTrace, NoAttempt
<1>4. RunInv /\ CountInv /\ UndrainedInv /\ OnePublicationPerBasis /\ BufferCovered
  BY DEF Init, RunInv, RunFits, CountInv, Counted, Published, UndrainedInv,
         OnePublicationPerBasis, BufferCovered, NoAttempt, NoRun
<1> QED BY <1>2, <1>3, <1>4 DEF Inv

LEMMA NextKeeps ==
  ASSUME Inv, [Next]_vars PROVE Inv' /\ NoOvertakingStep
<1>1. CASE Around /\ Forget
  BY <1>1, SegmentFinalKeeps, ChangeConsentKeeps, CrashKeeps, WithdrawKeeps, ReconcileKeeps,
     OrphanedJobKeeps, OrphanedAttemptKeeps DEF Around
<1>2. CASE StartStep /\ Forget
  BY <1>2, RunAutomaticKeeps, TimerKeeps, RequestManualKeeps, RepeatManualKeeps,
     RequestOpeningKeeps, OpeningUnavailableKeeps DEF StartStep
<1>3. ASSUME NEW r \in Requests, PrepareStep(r), Forget PROVE Inv' /\ NoOvertakingStep
  BY <1>3, PrepareFailsKeeps, BeginKeeps, BeginRefusedKeeps, BuildContextKeeps, ContextFailsKeeps,
     CallProviderKeeps, ProviderRefusedKeeps DEF PrepareStep
<1>4. ASSUME NEW r \in Requests, PublishStep(r), Forget PROVE Inv' /\ NoOvertakingStep
  BY <1>4, PublishRefusedKeeps, PublishFencedKeeps, PublishGatedKeeps, PublishCandidateKeeps,
     PublishListeningKeeps DEF PublishStep
<1>5. ASSUME NEW r \in Requests, TraceStep(r), Forget PROVE Inv' /\ NoOvertakingStep
  BY <1>5, FinalizeKeeps, FinalizeFailsKeeps, CloseFailedTraceKeeps, RepairAttemptKeeps,
     RepairFailsKeeps, FailAttemptKeeps, FailAttemptJobKeeps, ReportFailsKeeps DEF TraceStep
<1>6. CASE (\E r \in Requests : GetsOld(r)) \/ UNCHANGED vars
  BY <1>6, ClockKeeps
<1> QED BY <1>1, <1>2, <1>3, <1>4, <1>5, <1>6 DEF Next

(* The invariant holds in every state of every behaviour. *)
THEOREM Invariance == Spec => []Inv
<1>1. Init => Inv
  BY InitInv
<1>2. Inv /\ [Next]_vars => Inv'
  BY NextKeeps
<1> QED BY <1>1, <1>2, PTL DEF Spec

(* Every variable of a session's question generation stays within its      *)
(* type, the number of provider calls of a run among them.                 *)
THEOREM TypeCorrect == Spec => []TypeOK
<1>1. Inv => TypeOK
  BY DEF Inv
<1> QED BY <1>1, Invariance, PTL

(* Of all the runs that read one presentation revision, at most one        *)
(* publishes, whatever was published, withdrawn or crashed in between.     *)
THEOREM OnePublication == Spec => []OnePublicationPerBasis
<1>1. Inv => OnePublicationPerBasis
  BY DEF Inv
<1> QED BY <1>1, Invariance, PTL

(* Final segments that wait are never without a timer or a run.            *)
THEOREM Covered == Spec => []BufferCovered
<1>1. Inv => BufferCovered
  BY DEF Inv
<1> QED BY <1>1, Invariance, PTL

(* A closed trace tells what became of the attempt, through every crash,   *)
(* repair and reconciliation; where it does not, it says failed, and its   *)
(* repair has yet to come or was lost.                                     *)
THEOREM TracesAgree == Spec => []TraceAgrees
<1>1. Inv => TraceAgrees
  BY DEF Inv, RowsInv, RowsOK, Rows, Honest, Lost, TraceAgrees
<1> QED BY <1>1, Invariance, PTL

(* A job succeeded exactly when its attempt answered or gave way, whoever  *)
(* ended them and in however many transactions.                            *)
THEOREM EndTogether == Spec => []EndedTogether
<1>1. Inv => EndedTogether
  BY DEF Inv, RowsInv, RowsOK, Rows, Together, EndedTogether
<1> QED BY <1>1, Invariance, PTL

(* No automatic question passes a manual request that has begun after it.  *)
THEOREM NoAutomaticOvertakes == Spec => NoOvertaking
<1>1. Inv /\ [Next]_vars => [NoOvertakingStep]_vars
  BY NextKeeps
<1>2. [NoOvertakingStep]_vars =>
        [\A r \in Segments :
           Published(r)' /\ ~Published(r) =>
             \A m \in Manuals : attempt[m].mseq <= run[r].mseq]_vars
  BY DEF NoOvertakingStep
<1> QED BY <1>1, <1>2, Invariance, PTL DEF Spec, NoOvertaking

==============================================================================
