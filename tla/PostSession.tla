----------------------------- MODULE PostSession -----------------------------
(***************************************************************************)
(* What follows a completed session: its two analysis lanes, and the one   *)
(* opening suggestion of the next session, which waits for both lanes and  *)
(* for the calibration gate of that session.                               *)
(*                                                                         *)
(* A process works on a lane or on the next session at most once at a      *)
(* time, and starts again at every tick; other processes do the same.      *)
(* Each step below is one transaction.  Requests are identified by the     *)
(* completed session, the lane or the gate, so a repeated step finds the   *)
(* job of the first one.  The memory lane is the one of a process whose    *)
(* maintainer is off.  What the frozen evidence says is two counters: the  *)
(* lists of memories and questions, and the revisions of policy and roles. *)
(***************************************************************************)
EXTENDS Integers, FiniteSets

CONSTANTS
  Procs,      \* API processes
  Lanes,      \* the analyses of a completed session
  MaxGates,   \* bound: calibration gates that are ever resolved
  MaxFaults   \* bound: crashes, lost gates and moves

ASSUME NameAssumption == "opening" \notin Lanes /\ "nobody" \notin Procs
ASSUME BoundAssumption == MaxGates \in Nat /\ MaxFaults \in Nat

VARIABLES
  lanes,    \* the job of every lane
  gate,     \* identity of the resolved calibration gate, 0 when there is none
  gates,    \* identities given so far
  consent,  \* the latest consent: covered, other (another text) or revoked
  evidence, \* what a freeze would read now
  contexts, \* the context job of every gate, with its snapshot when it succeeded
  jobs,     \* the question job of every gate
  attempts, \* the opening attempts of the next session
  work,     \* what every process is in the middle of
  faults    \* crashes, lost gates and moves so far
vars == <<lanes, gate, gates, consent, evidence, contexts, jobs, attempts, work, faults>>

Gates == 1 .. MaxGates
Nothing == [st |-> "none"]
Idle == [ph |-> "idle"]
Live(j) == j.st = "running"
Terminal(j) == j.st \in {"succeeded", "unjudged", "failed", "cancelled"}
Orphaned(j) == Live(j) /\ j.old

Init ==
  /\ lanes = [l \in Lanes |-> Nothing]
  /\ gate = 0 /\ gates = 0 /\ consent = "covered"
  /\ evidence = [ids |-> 0, rev |-> 0]
  /\ contexts = [g \in Gates |-> Nothing]
  /\ jobs = [g \in Gates |-> Nothing]
  /\ attempts = {}
  /\ work = [p \in Procs |-> [x \in Lanes \cup {"opening"} |-> Idle]]
  /\ faults = 0

Allowed == consent # "revoked"
Running == [st |-> "running", old |-> FALSE]
Ended(j, st) == [st |-> st]
Turn(p, x, ph) == work' = [work EXCEPT ![p][x] = ph]

Failed(j) == IF Live(j) THEN Ended(j, "failed") ELSE j

----------------------------------------------------------------------------
(* A lane.                                                                  *)

\* Fault: a job that exists ends the work, however long it has been running.
LaneStart_Returns(p, l) ==
  /\ work[p][l] = Idle /\ lanes[l] = Nothing /\ Turn(p, l, [ph |-> "freeze"])
  /\ UNCHANGED <<lanes, gate, gates, consent, evidence, contexts, jobs, attempts, faults>>

\* runLane: the job is looked up first, and an orphaned one is ended.
LaneStart(p, l) ==
  /\ work[p][l] = Idle
  /\ \/ /\ lanes[l] = Nothing /\ Turn(p, l, [ph |-> "freeze"]) /\ UNCHANGED lanes
     \/ /\ Orphaned(lanes[l]) /\ lanes' = [lanes EXCEPT ![l] = Failed(@)] /\ UNCHANGED work
  /\ UNCHANGED <<gate, gates, consent, evidence, contexts, jobs, attempts, faults>>

\* freeze, or its refusal; a job that another process froze is a replay, which ends the work.
LaneFreeze(p, l) ==
  /\ work[p][l].ph = "freeze"
  /\ IF lanes[l] = Nothing /\ Allowed
     THEN lanes' = [lanes EXCEPT ![l] = Running] /\ Turn(p, l, [ph |-> "call"])
     ELSE Turn(p, l, IF lanes[l] = Nothing THEN [ph |-> "reject"] ELSE Idle) /\ UNCHANGED lanes
  /\ UNCHANGED <<gate, gates, consent, evidence, contexts, jobs, attempts, faults>>

Answered(j, st) == IF Live(j) THEN Ended(j, st) ELSE j

\* extract and reconcileActualQuestions: an answer, nothing that could be judged, or a failure.
LaneOutcomes == IF Allowed THEN {"succeeded", "unjudged", "failed"} ELSE {"cancelled"}

LaneEnd(p, l) ==
  /\ work[p][l].ph = "call"
  /\ \E st \in LaneOutcomes : lanes' = [lanes EXCEPT ![l] = Answered(@, st)]
  /\ Turn(p, l, Idle)
  /\ UNCHANGED <<gate, gates, consent, evidence, contexts, jobs, attempts, faults>>

\* recordRejectedSystemJob looks again under its locks.
Rejected(j, code) == IF j = Nothing THEN [st |-> "cancelled", code |-> code] ELSE j

LaneReject(p, l) ==
  /\ work[p][l].ph = "reject"
  /\ lanes' = [lanes EXCEPT ![l] = Rejected(@, "lane")]
  /\ Turn(p, l, Idle)
  /\ UNCHANGED <<gate, gates, consent, evidence, contexts, jobs, attempts, faults>>

----------------------------------------------------------------------------
(* The opening of the next session.                                         *)

LaneTerminal(l) == Terminal(lanes[l])

Unavailable(g, ctx, code) == [ph |-> "reject", g |-> g, ctx |-> ctx, code |-> code]
RequestOf(g) == {a \in attempts : a.g = g}
\* The catch of reconcileConsumer: an attempt of the request ends it, else it is to be recorded.
Caught(g, ctx, code) == IF RequestOf(g) # {} THEN Idle ELSE Unavailable(g, ctx, code)

\* failStaleOpeningJobsWithoutAttempt: the question jobs of the gates that have a snapshot.
Swept == [g \in Gates |-> IF contexts[g].st = "succeeded" /\ Orphaned(jobs[g]) THEN Failed(jobs[g]) ELSE jobs[g]]
StaleAttempt(a) == a.st = "running" /\ a.old
OpeningReady == attempts = {} /\ gate # 0 /\ \A l \in Lanes : LaneTerminal(l)

\* reconcileConsumer up to the consent: what the steps below work with is read here.
OpeningStart(p) ==
  /\ work[p]["opening"] = Idle
  /\ \/ /\ ~OpeningReady /\ ~\E a \in attempts : StaleAttempt(a)
        /\ Swept # jobs /\ jobs' = Swept /\ UNCHANGED work
     \/ \E a \in attempts :
          /\ StaleAttempt(a)
          /\ jobs' = [Swept EXCEPT ![a.g] = Failed(@)]
          /\ Turn(p, "opening", [ph |-> "close", g |-> a.g])
     \/ /\ OpeningReady
        /\ jobs' = Swept
        /\ Turn(p, "opening", IF consent # "covered" THEN Unavailable(gate, FALSE, "consent")
                              ELSE [ph |-> "context", g |-> gate, of |-> lanes])
  /\ UNCHANGED <<lanes, gate, gates, consent, evidence, contexts, attempts, faults>>

\* create: the first request of a gate freezes what the lists hold; a repeated one must hold the same.
ContextFreeze(p) ==
  LET w == work[p]["opening"]
      c == contexts[w.g]
      next(ph) == [ph |-> ph, g |-> w.g]
  IN  /\ w.ph = "context"
      /\ IF ~Allowed
         THEN Turn(p, "opening", Caught(w.g, FALSE, "policy")) /\ UNCHANGED contexts
         ELSE IF c = Nothing
         THEN /\ contexts' = [contexts EXCEPT ![w.g] = [st |-> "running", old |-> FALSE, has |-> evidence, of |-> w.of]]
              /\ Turn(p, "opening", next("snapshot"))
         ELSE /\ Turn(p, "opening", IF c.has.ids = evidence.ids /\ c.st = "succeeded" THEN next("look")
                                    ELSE Caught(w.g, FALSE, "replay"))
              /\ UNCHANGED contexts
      /\ UNCHANGED <<lanes, gate, gates, consent, evidence, jobs, attempts, faults>>

\* The snapshot and the end of its job are one transaction.
ContextWrite(p) ==
  LET w == work[p]["opening"]
      c == contexts[w.g]
      fresh == Allowed /\ c.has = evidence
      st == IF fresh THEN "succeeded" ELSE "cancelled"
  IN  /\ w.ph = "snapshot"
      /\ contexts' = [contexts EXCEPT ![w.g] = IF Live(@) THEN [@ EXCEPT !.st = st] ELSE @]
      /\ Turn(p, "opening", IF Live(c) /\ fresh THEN [ph |-> "look", g |-> w.g] ELSE Caught(w.g, FALSE, "drift"))
      /\ UNCHANGED <<lanes, gate, gates, consent, evidence, jobs, attempts, faults>>

\* The question job of the gate, when an earlier run froze one.
Look(p) ==
  LET w == work[p]["opening"]
      j == jobs[w.g]
  IN  /\ w.ph = "look"
      /\ jobs' = IF Orphaned(j) THEN [jobs EXCEPT ![w.g] = Failed(@)] ELSE jobs
      /\ Turn(p, "opening",
           IF j = Nothing THEN [ph |-> "question", g |-> w.g]
           ELSE IF Live(j) /\ ~j.old THEN Idle
           ELSE Unavailable(w.g, TRUE, IF "code" \in DOMAIN j THEN j.code ELSE "restarted"))
      /\ UNCHANGED <<lanes, gate, gates, consent, evidence, contexts, attempts, faults>>

\* readForOpening: the snapshot still holds what it froze.
Eligible(g) == contexts[g].st = "succeeded" /\ Allowed /\ contexts[g].has = evidence
Readable(g) == /\ Eligible(g)
               /\ \A l \in Lanes : contexts[g].of[l].st = lanes[l].st

\* Fault: another gate of the session is another opening.
Consumed_ByGate(g) == RequestOf(g) # {}
Consumed(g) == attempts # {}

Attempt(g, st, p) == [g |-> g, st |-> st, owner |-> p, old |-> FALSE]
Nobody == "nobody"

\* recordSystemUnavailableAttempt: ends the job of the request with its attempt.
Recorded(g, ph) ==
  LET j == jobs[g]
      bound == ~Consumed(g) /\ j.st \in {"running", "failed", "cancelled"}
  IN  /\ attempts' = IF bound THEN attempts \cup {Attempt(g, "unavailable", Nobody)} ELSE attempts
      /\ jobs' = IF bound THEN [jobs EXCEPT ![g] = Failed(@)] ELSE jobs

\* prepare, up to its freeze; a replayed job without an attempt is recorded as unavailable.
QuestionFreeze(p) ==
  LET w == work[p]["opening"]
      g == w.g
  IN  /\ w.ph = "question"
      /\ \/ /\ ~Readable(g)
            /\ Turn(p, "opening", Caught(g, TRUE, "context")) /\ UNCHANGED <<jobs, attempts>>
         \/ /\ Readable(g) /\ jobs[g] = Nothing
            /\ jobs' = [jobs EXCEPT ![g] = Running]
            /\ Turn(p, "opening", [ph |-> "begin", g |-> g]) /\ UNCHANGED attempts
         \/ /\ Readable(g) /\ jobs[g] # Nothing
            /\ Recorded(g, "replay")
            /\ Turn(p, "opening", IF RequestOf(g) = {} /\ Consumed(g) THEN Unavailable(g, TRUE, "replay") ELSE Idle)
      /\ UNCHANGED <<lanes, gate, gates, consent, evidence, contexts, faults>>

\* beginGenerationAttempt; its refusal deletes the job that was not called.
Begin(p) ==
  LET w == work[p]["opening"]
      g == w.g
      discarded == [jobs EXCEPT ![g] = IF Live(@) THEN Nothing ELSE @]
  IN  /\ w.ph = "begin"
      /\ \/ /\ RequestOf(g) = {} /\ ~Consumed(g) /\ Allowed
            /\ attempts' = attempts \cup {Attempt(g, "running", p)}
            /\ Turn(p, "opening", Idle) /\ UNCHANGED jobs
         \/ /\ jobs' = discarded  \* also when what is shown has changed
            /\ Turn(p, "opening", Caught(g, TRUE, "begin")) /\ UNCHANGED attempts
         \/ /\ Recorded(g, "preparation")
            /\ Turn(p, "opening", IF RequestOf(g) = {} /\ Consumed(g) THEN Unavailable(g, TRUE, "preparation") ELSE Idle)
      /\ UNCHANGED <<lanes, gate, gates, consent, evidence, contexts, faults>>

\* recordSecondSessionOpeningUnavailable: its errors are swallowed.
Reject(p) ==
  LET w == work[p]["opening"]
      j == jobs[w.g]
      conflict == "code" \in DOMAIN j /\ j.code # w.code
      refused == (w.ctx /\ ~Readable(w.g)) \/ conflict
  IN  /\ w.ph = "reject"
      /\ jobs' = IF refused THEN jobs ELSE [jobs EXCEPT ![w.g] = Rejected(@, w.code)]
      /\ Turn(p, "opening", IF refused THEN Idle ELSE [ph |-> "record", g |-> w.g])
      /\ UNCHANGED <<lanes, gate, gates, consent, evidence, contexts, attempts, faults>>

Record(p) ==
  /\ work[p]["opening"].ph = "record"
  /\ Recorded(work[p]["opening"].g, "unavailable")
  /\ Turn(p, "opening", Idle)
  /\ UNCHANGED <<lanes, gate, gates, consent, evidence, contexts, faults>>

----------------------------------------------------------------------------
(* The generation of the attempt, and of an attempt nobody works on.        *)

EndAttempt(a, st) == attempts' = (attempts \ {a}) \cup {[a EXCEPT !.st = st, !.owner = Nobody]}

\* Attempt and job end together, if the job still runs.
Publish(a) ==
  /\ a.st = "running" /\ a.owner # Nobody /\ Live(jobs[a.g])
  /\ EndAttempt(a, "succeeded")
  /\ jobs' = [jobs EXCEPT ![a.g] = Ended(@, "succeeded")]
  /\ UNCHANGED <<lanes, gate, gates, consent, evidence, contexts, work, faults>>

\* failAttempt after a failed generation or publication, first half.
Fail(a) ==
  /\ a.st = "running" /\ a.owner # Nobody
  /\ EndAttempt(a, "failed")
  /\ Turn(a.owner, "opening", IF work[a.owner]["opening"] = Idle THEN [ph |-> "close", g |-> a.g] ELSE work[a.owner]["opening"])
  /\ UNCHANGED <<lanes, gate, gates, consent, evidence, contexts, jobs, faults>>

\* failAttempt: the attempt, when it still runs, and then its job.
Close(p) ==
  LET w == work[p]["opening"]
  IN  /\ w.ph = "close"
      /\ \/ \E a \in RequestOf(w.g) : a.st = "running" /\ EndAttempt(a, "failed") /\ UNCHANGED <<jobs, work>>
         \/ /\ \A a \in RequestOf(w.g) : a.st # "running"
            /\ jobs' = [jobs EXCEPT ![w.g] = Failed(@)]
            /\ Turn(p, "opening", Idle) /\ UNCHANGED attempts
      /\ UNCHANGED <<lanes, gate, gates, consent, evidence, contexts, faults>>

\* failStaleContextJobsWithoutSnapshot, at every tick of any process.
SweepContexts ==
  /\ \E g \in Gates : Orphaned(contexts[g])
  /\ contexts' = [g \in Gates |-> IF Orphaned(contexts[g]) THEN [contexts[g] EXCEPT !.st = "failed"] ELSE contexts[g]]
  /\ UNCHANGED <<lanes, gate, gates, consent, evidence, jobs, attempts, work, faults>>

----------------------------------------------------------------------------
(* The world.                                                               *)

\* ORPHAN_GRACE_MS pass.
Aged(j) == IF Live(j) THEN [j EXCEPT !.old = TRUE] ELSE j
Age ==
  /\ lanes' = [l \in Lanes |-> Aged(lanes[l])]
  /\ contexts' = [g \in Gates |-> Aged(contexts[g])]
  /\ jobs' = [g \in Gates |-> Aged(jobs[g])]
  /\ attempts' = {Aged(a) : a \in attempts}
  /\ UNCHANGED <<gate, gates, consent, evidence, work, faults>>

Fault == faults < MaxFaults /\ faults' = faults + 1

\* Calibration is resolved, or begun again, or a new voice has none yet.
MoveGate ==
  /\ IF gate = 0
     THEN gates < MaxGates /\ gates' = gates + 1 /\ gate' = gates + 1 /\ UNCHANGED faults
     ELSE Fault /\ gate' = 0 /\ UNCHANGED gates
  /\ UNCHANGED <<lanes, consent, evidence, contexts, jobs, attempts, work>>

\* Memories or questions change; roles are corrected; the consent is revoked or given again.
Move ==
  /\ Fault
  /\ \/ evidence' = [evidence EXCEPT !.ids = @ + 1] /\ UNCHANGED consent
     \/ /\ evidence' = [evidence EXCEPT !.rev = @ + 1]
        /\ consent' \in {"covered", "other", "revoked"}
  /\ UNCHANGED <<lanes, gate, gates, contexts, jobs, attempts, work>>

Crash(p) ==
  /\ Fault
  /\ work' = [work EXCEPT ![p] = [x \in DOMAIN @ |-> Idle]]
  /\ attempts' = {[a EXCEPT !.owner = IF @ = p THEN Nobody ELSE @] : a \in attempts}
  /\ UNCHANGED <<lanes, gate, gates, consent, evidence, contexts, jobs>>

LaneStep(p) == \E l \in Lanes : LaneStart(p, l) \/ LaneFreeze(p, l) \/ LaneEnd(p, l) \/ LaneReject(p, l)
OpeningStep(p) == OpeningStart(p) \/ ContextFreeze(p) \/ ContextWrite(p) \/ Look(p) \/ QuestionFreeze(p)
                  \/ Begin(p) \/ Reject(p) \/ Record(p) \/ Close(p)
Generation == \E a \in attempts : Publish(a) \/ Fail(a)

Next ==
  \/ \E p \in Procs : LaneStep(p) \/ OpeningStep(p) \/ Crash(p)
  \/ Generation \/ SweepContexts \/ Age \/ MoveGate \/ Move

Spec == Init /\ [][Next]_vars
\* The timer of every process ticks, the grace passes, and providers answer or time out.
FairSpec ==
  /\ Spec
  /\ \A p \in Procs, l \in Lanes : WF_vars(LaneStart(p, l) \/ LaneFreeze(p, l) \/ LaneEnd(p, l) \/ LaneReject(p, l))
  /\ \A p \in Procs : WF_vars(OpeningStep(p))
  /\ WF_vars(Generation) /\ WF_vars(SweepContexts) /\ WF_vars(Age)

----------------------------------------------------------------------------
Codes == {"lane", "consent", "policy", "replay", "drift", "restarted", "context", "begin", "preparation"}
JobRecords ==
  {Nothing} \cup [st : {"running"}, old : BOOLEAN]
  \cup [st : {"succeeded", "unjudged", "failed", "cancelled"}]
  \cup [st : {"cancelled"}, code : Codes]
ContextRecords ==
  {Nothing}
  \cup [st : {"running", "succeeded", "failed", "cancelled"}, old : BOOLEAN,
        has : [ids : Nat, rev : Nat], of : [Lanes -> JobRecords]]
AttemptRecords ==
  [g : 1 .. gates, st : {"running", "succeeded", "failed", "unavailable"},
   owner : Procs \cup {Nobody}, old : BOOLEAN]
LaneWork == {Idle} \cup [ph : {"freeze", "call", "reject"}]
OpeningWork ==
  {Idle} \cup [ph : {"context"}, g : 1 .. gates, of : [Lanes -> JobRecords]]
  \cup [ph : {"snapshot", "look", "question", "begin", "record", "close"}, g : 1 .. gates]
  \cup [ph : {"reject"}, g : 1 .. gates, ctx : BOOLEAN, code : Codes]

\* Jobs and attempts are what their handlers know, and work is about a gate that was given.
TypeOK ==
  /\ lanes \in [Lanes -> JobRecords]
  /\ gates \in 0 .. MaxGates /\ gate \in 0 .. gates
  /\ consent \in {"covered", "other", "revoked"} /\ evidence \in [ids : Nat, rev : Nat]
  /\ contexts \in [Gates -> ContextRecords] /\ jobs \in [Gates -> JobRecords]
  /\ attempts \subseteq AttemptRecords
  /\ work \in [Procs -> [Lanes \cup {"opening"} -> LaneWork \cup OpeningWork]]
  /\ \A p \in Procs : work[p]["opening"] \in OpeningWork
  /\ faults \in 0 .. MaxFaults

\* The next session is opened once, whatever gates, processes and restarts come in between.
OneOpening == Cardinality(attempts) <= 1

\* No context is frozen and no opening is attempted before both analyses are over, and what the
\* snapshot says of their outcome is what they ended with.
AnalysisFirst ==
  /\ (attempts # {} \/ \E g \in Gates : contexts[g] # Nothing) => \A l \in Lanes : Terminal(lanes[l])
  /\ \A g \in Gates : contexts[g] # Nothing => \A l \in Lanes : contexts[g].of[l].st = lanes[l].st

\* An outcome stands: a lane or an attempt that has ended is not changed by a late answer, a scan or
\* another process.
OutcomesStand ==
  [][/\ \A l \in Lanes : Terminal(lanes[l]) => lanes'[l] = lanes[l]
     /\ \A a \in attempts : a.st # "running" => \E b \in attempts' : b.g = a.g /\ b.st = a.st]_vars

\* Every lane ends and no job is left running, whatever crashes and is refused.
EverythingEnds ==
  /\ \A l \in Lanes : <>Terminal(lanes[l])
  /\ \A g \in Gates : []<>(~Live(contexts[g]) /\ ~Live(jobs[g]))

=============================================================================
