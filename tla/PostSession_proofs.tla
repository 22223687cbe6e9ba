-------------------------- MODULE PostSession_proofs --------------------------
(***************************************************************************)
(* Theorems about PostSession for every number of processes, lanes, gates  *)
(* and faults.  One argument carries them: the work on an opening begins   *)
(* when every lane is over, a lane that is over does not change, so what  *)
(* a process read of the lanes at its start, and what a context froze of   *)
(* them, is what they ended with, however late it is used.                 *)
(***************************************************************************)
EXTENDS PostSession, FiniteSetTheorems, TLAPS

LanesOver == \A l \in Lanes : Terminal(lanes[l])

(* An opening that is worked on *)
WorkOK(w) == w # Idle => LanesOver /\ (w.ph = "context" => w.of = lanes)

ContextOK(c) == c # Nothing => LanesOver /\ c.of = lanes

AttemptsOK(A) == (\A a, b \in A : a = b) /\ (A # {} => LanesOver)

Inv ==
  /\ TypeOK
  /\ \A p \in Procs : WorkOK(work[p]["opening"])
  /\ \A g \in Gates : ContextOK(contexts[g])
  /\ AttemptsOK(attempts)

(* What OutcomesStand says of a step *)
LanesStand == \A l \in Lanes : Terminal(lanes[l]) => lanes'[l] = lanes[l]
AttemptsStand(A) == \A a \in attempts : a.st # "running" => \E b \in A : b.g = a.g /\ b.st = a.st

Conclusion == Inv' /\ LanesStand /\ AttemptsStand(attempts')

-----------------------------------------------------------------------------
(* Lemmas about the operators                                              *)

LEMMA JobFacts ==
  /\ Nothing \in JobRecords /\ Running \in JobRecords
  /\ \A j \in JobRecords : Failed(j) \in JobRecords /\ Aged(j) \in JobRecords
  /\ \A j \in JobRecords : Terminal(j) => Failed(j) = j /\ Aged(j) = j /\ j # Nothing
  /\ \A j \in JobRecords, s \in {"succeeded", "unjudged", "failed", "cancelled"} :
       Answered(j, s) \in JobRecords /\ (Terminal(j) => Answered(j, s) = j)
  /\ \A j \in JobRecords, c \in Codes :
       Rejected(j, c) \in JobRecords /\ (Terminal(j) => Rejected(j, c) = j)
<1>1. Nothing \in JobRecords /\ Running \in JobRecords
  BY DEF JobRecords, Nothing, Running
<1>2. ASSUME NEW s \in {"succeeded", "unjudged", "failed", "cancelled"}
      PROVE  [st |-> s] \in JobRecords
  BY DEF JobRecords
<1>3. ASSUME NEW j \in JobRecords PROVE Failed(j) \in JobRecords
  BY <1>2 DEF Failed, Ended
<1>4. ASSUME NEW j \in JobRecords PROVE Aged(j) \in JobRecords
  <2>1. CASE Live(j)
    <3>1. j \in [st : {"running"}, old : BOOLEAN]
      BY <2>1 DEF JobRecords, Nothing, Live
    <3>2. [j EXCEPT !.old = TRUE] \in [st : {"running"}, old : BOOLEAN]
      BY <3>1
    <3> QED BY <2>1, <3>2 DEF Aged, JobRecords
  <2>2. CASE ~Live(j)
    BY <2>2 DEF Aged
  <2> QED BY <2>1, <2>2
<1>5. \A j \in JobRecords : Terminal(j) => ~Live(j) /\ j # Nothing
  BY DEF Terminal, Live, Nothing
<1>6. ASSUME NEW j \in JobRecords, NEW c \in Codes PROVE Rejected(j, c) \in JobRecords
  <2>1. [st |-> "cancelled", code |-> c] \in [st : {"cancelled"}, code : Codes]
    OBVIOUS
  <2> QED BY <2>1 DEF Rejected, JobRecords
<1> QED BY <1>1, <1>2, <1>3, <1>4, <1>5, <1>6 DEF Failed, Aged, Answered, Rejected, Ended

LEMMA GateFacts ==
  ASSUME TypeOK
  PROVE  gates \in Nat /\ 1 .. gates \subseteq Gates
BY BoundAssumption DEF TypeOK, Gates

(* The turn of a process *)
LEMMA TurnFacts ==
  ASSUME TypeOK, NEW p \in Procs, NEW x \in Lanes \cup {"opening"},
         NEW w \in LaneWork \cup OpeningWork, Turn(p, x, w)
  PROVE  /\ work' \in [Procs -> [Lanes \cup {"opening"} -> LaneWork \cup OpeningWork]]
         /\ work'[p][x] = w
         /\ \A q \in Procs, y \in Lanes \cup {"opening"} :
              q # p \/ y # x => work'[q][y] = work[q][y]
BY DEF Turn, TypeOK

(* A step on the opening *)
LEMMA OpeningKeeps ==
  ASSUME Inv, NEW p \in Procs, NEW w \in OpeningWork, Turn(p, "opening", w), WorkOK(w),
         jobs' \in [Gates -> JobRecords],
         contexts' \in [Gates -> ContextRecords], \A g \in Gates : ContextOK(contexts'[g]),
         attempts' \subseteq AttemptRecords, AttemptsOK(attempts'), AttemptsStand(attempts'),
         UNCHANGED <<lanes, gate, gates, consent, evidence, faults>>
  PROVE  Conclusion
<1>1. /\ work' \in [Procs -> [Lanes \cup {"opening"} -> LaneWork \cup OpeningWork]]
      /\ work'[p]["opening"] = w
      /\ \A q \in Procs : q # p => work'[q]["opening"] = work[q]["opening"]
  <2>1. TypeOK /\ w \in LaneWork \cup OpeningWork /\ "opening" \in Lanes \cup {"opening"}
    BY DEF Inv
  <2>2. /\ work' \in [Procs -> [Lanes \cup {"opening"} -> LaneWork \cup OpeningWork]]
        /\ work'[p]["opening"] = w
        /\ \A q \in Procs, y \in Lanes \cup {"opening"} :
             q # p \/ y # "opening" => work'[q][y] = work[q][y]
    BY <2>1, TurnFacts
  <2> QED BY <2>1, <2>2
<1>2. \A q \in Procs : work'[q]["opening"] \in OpeningWork /\ WorkOK(work'[q]["opening"])
  BY <1>1 DEF Inv, TypeOK
<1>3. OpeningWork' = OpeningWork /\ AttemptRecords' = AttemptRecords /\ LanesOver' = LanesOver
  BY DEF OpeningWork, AttemptRecords, LanesOver, Terminal
<1>4. TypeOK'
  BY <1>1, <1>2, <1>3 DEF Inv, TypeOK
<1>5. /\ \A q \in Procs : WorkOK(work[q]["opening"])'
      /\ \A g \in Gates : ContextOK(contexts[g])'
      /\ AttemptsOK(attempts)'
  BY <1>2, <1>3 DEF WorkOK, ContextOK, AttemptsOK
<1> QED BY <1>4, <1>5 DEF Conclusion, Inv, LanesStand

(* A step on a lane: one that is over stays as it is, and once all are     *)
(* over nothing that was read of them changes.                             *)
LEMMA LaneKeeps ==
  ASSUME Inv, NEW p \in Procs, NEW l \in Lanes, NEW j \in JobRecords,
         lanes' = [lanes EXCEPT ![l] = j], Terminal(lanes[l]) => j = lanes[l],
         UNCHANGED work \/ \E w \in LaneWork : Turn(p, l, w),
         UNCHANGED <<gate, gates, consent, evidence, contexts, jobs, attempts, faults>>
  PROVE  Conclusion
<1> DEFINE Others ==
        /\ work' \in [Procs -> [Lanes \cup {"opening"} -> LaneWork \cup OpeningWork]]
        /\ \A q \in Procs : work'[q]["opening"] = work[q]["opening"]
<1>1. Others
  <2>1. CASE UNCHANGED work
    BY <2>1 DEF Inv, TypeOK
  <2>2. ASSUME NEW w \in LaneWork, Turn(p, l, w) PROVE Others
    <3>1. TypeOK /\ w \in LaneWork \cup OpeningWork /\ l \in Lanes \cup {"opening"}
      BY DEF Inv
    <3>2. /\ work' \in [Procs -> [Lanes \cup {"opening"} -> LaneWork \cup OpeningWork]]
          /\ \A q \in Procs, y \in Lanes \cup {"opening"} :
               q # p \/ y # l => work'[q][y] = work[q][y]
      BY <2>2, <3>1, TurnFacts
    <3>3. l # "opening"
      BY NameAssumption
    <3> QED BY <3>2, <3>3
  <2> QED BY <2>1, <2>2
<1>2. /\ lanes' \in [Lanes -> JobRecords]
      /\ LanesStand
      /\ LanesOver => lanes' = lanes
  BY DEF Inv, TypeOK, LanesStand, LanesOver
<1>3. OpeningWork' = OpeningWork /\ AttemptRecords' = AttemptRecords
  BY DEF OpeningWork, AttemptRecords
<1>4. LanesOver => LanesOver'
  BY <1>2 DEF LanesOver, Terminal
<1>5. TypeOK'
  BY <1>1, <1>2, <1>3 DEF Inv, TypeOK
<1>6. /\ \A q \in Procs : WorkOK(work[q]["opening"])'
      /\ \A g \in Gates : ContextOK(contexts[g])'
      /\ AttemptsOK(attempts)'
  BY <1>1, <1>2, <1>4 DEF Inv, WorkOK, ContextOK, AttemptsOK
<1> QED BY <1>2, <1>5, <1>6 DEF Conclusion, Inv, AttemptsStand

(* The actions on a lane *)
LEMMA LaneKept == ASSUME Inv, NEW p \in Procs, LaneStep(p) PROVE Conclusion
<1> PICK l \in Lanes : LaneStart(p, l) \/ LaneFreeze(p, l) \/ LaneEnd(p, l) \/ LaneReject(p, l)
  BY DEF LaneStep
<1>0. lanes \in [Lanes -> JobRecords] /\ lanes[l] \in JobRecords
  BY DEF Inv, TypeOK
<1>1. Idle \in LaneWork /\ \A ph \in {"freeze", "call", "reject"} : [ph |-> ph] \in LaneWork
  BY DEF LaneWork
<1>2. Live(lanes[l]) => ~Terminal(lanes[l])
  BY DEF Live, Terminal
<1>3. CASE LaneStart(p, l)
  <2>1. CASE lanes[l] = Nothing /\ Turn(p, l, [ph |-> "freeze"]) /\ UNCHANGED lanes
    <3>1. lanes' = [lanes EXCEPT ![l] = Nothing]
      BY <1>0, <2>1
    <3> QED BY <1>0, <1>1, <1>3, <2>1, <3>1, LaneKeeps DEF LaneStart
  <2>2. CASE Orphaned(lanes[l]) /\ lanes' = [lanes EXCEPT ![l] = Failed(@)] /\ UNCHANGED work
    <3>1. Failed(lanes[l]) \in JobRecords /\ ~Terminal(lanes[l])
      BY <1>0, <1>2, <2>2, JobFacts DEF Orphaned
    <3>2. lanes' = [lanes EXCEPT ![l] = Failed(lanes[l])]
      BY <2>2
    <3> QED BY <1>3, <2>2, <3>1, <3>2, LaneKeeps DEF LaneStart
  <2> QED BY <1>3, <2>1, <2>2 DEF LaneStart
<1>4. CASE LaneFreeze(p, l)
  <2>1. CASE lanes[l] = Nothing /\ Allowed
    <3>1. Running \in JobRecords /\ ~Terminal(lanes[l])
      BY <1>0, <2>1, JobFacts
    <3> QED BY <1>1, <1>4, <2>1, <3>1, LaneKeeps DEF LaneFreeze
  <2>2. CASE ~(lanes[l] = Nothing /\ Allowed)
    <3>1. /\ \E w \in LaneWork : Turn(p, l, w)
          /\ lanes' = [lanes EXCEPT ![l] = lanes[l]]
      BY <1>0, <1>1, <1>4, <2>2 DEF LaneFreeze
    <3> QED BY <1>0, <1>4, <3>1, LaneKeeps DEF LaneFreeze
  <2> QED BY <2>1, <2>2
<1>5. CASE LaneEnd(p, l)
  <2> PICK st \in LaneOutcomes : lanes' = [lanes EXCEPT ![l] = Answered(@, st)]
    BY <1>5 DEF LaneEnd
  <2>1. lanes' = [lanes EXCEPT ![l] = Answered(lanes[l], st)]
    OBVIOUS
  <2>2. Answered(lanes[l], st) \in JobRecords /\ (Terminal(lanes[l]) => Answered(lanes[l], st) = lanes[l])
    BY <1>0, JobFacts DEF LaneOutcomes
  <2> QED BY <1>1, <1>5, <2>1, <2>2, LaneKeeps DEF LaneEnd
<1>6. CASE LaneReject(p, l)
  <2>1. lanes' = [lanes EXCEPT ![l] = Rejected(lanes[l], "lane")]
    BY <1>6 DEF LaneReject
  <2>2. /\ Rejected(lanes[l], "lane") \in JobRecords
        /\ Terminal(lanes[l]) => Rejected(lanes[l], "lane") = lanes[l]
    <3>1. "lane" \in Codes
      BY DEF Codes
    <3> QED BY <1>0, <3>1, JobFacts
  <2> QED BY <1>1, <1>6, <2>1, <2>2, LaneKeeps DEF LaneReject
<1> QED BY <1>3, <1>4, <1>5, <1>6

-----------------------------------------------------------------------------
(* The steps of an opening                                                 *)

Ahead(w) == w \in OpeningWork /\ WorkOK(w)

(* What a step turns to: once the lanes are over, any phase that read nothing of them *)
LEMMA AheadFacts ==
  ASSUME LanesOver, NEW g \in 1 .. gates
  PROVE  /\ Ahead(Idle)
         /\ \A ph \in {"snapshot", "look", "question", "begin", "record", "close"} :
              Ahead([ph |-> ph, g |-> g])
         /\ \A ctx \in BOOLEAN, code \in Codes :
              Ahead(Unavailable(g, ctx, code)) /\ Ahead(Caught(g, ctx, code))
<1>1. Ahead(Idle)
  BY DEF Ahead, WorkOK, OpeningWork
<1>2. ASSUME NEW ph \in {"snapshot", "look", "question", "begin", "record", "close"}
      PROVE  Ahead([ph |-> ph, g |-> g])
  BY DEF Ahead, WorkOK, OpeningWork
<1>3. ASSUME NEW ctx \in BOOLEAN, NEW code \in Codes PROVE Ahead(Unavailable(g, ctx, code))
  <2>1. Unavailable(g, ctx, code) \in [ph : {"reject"}, g : 1 .. gates, ctx : BOOLEAN, code : Codes]
    BY DEF Unavailable
  <2>2. Unavailable(g, ctx, code).ph # "context"
    BY DEF Unavailable
  <2> QED BY <2>1, <2>2 DEF Ahead, WorkOK, OpeningWork
<1> QED BY <1>1, <1>2, <1>3 DEF Caught

(* What is known of a process that works on an opening *)
LEMMA WorkFacts ==
  ASSUME Inv, NEW p \in Procs
  PROVE  LET w == work[p]["opening"]
         IN  /\ Ahead(w)
             /\ "ph" \in DOMAIN w
             /\ w # Idle => LanesOver /\ w.g \in 1 .. gates /\ w.g \in Gates
             /\ w.ph = "context" => w.of = lanes /\ w.of \in [Lanes -> JobRecords]
             /\ w.ph = "reject" => w.ctx \in BOOLEAN /\ w.code \in Codes
<1> DEFINE w == work[p]["opening"]
<1>1. w \in OpeningWork /\ WorkOK(w) /\ 1 .. gates \subseteq Gates
  BY GateFacts DEF Inv, TypeOK
<1> HIDE DEF w
<1>2. /\ w # Idle => LanesOver /\ w.g \in 1 .. gates
      /\ "ph" \in DOMAIN w
      /\ w.ph = "context" => w.of \in [Lanes -> JobRecords] /\ w # Idle
      /\ w.ph = "reject" => w.ctx \in BOOLEAN /\ w.code \in Codes
  BY <1>1 DEF WorkOK, OpeningWork, Idle
<1>3. w.ph = "context" => w.of = lanes
  BY <1>1, <1>2 DEF WorkOK
<1> QED BY <1>1, <1>2, <1>3 DEF Ahead, w

(* What stays when a step leaves it alone *)
LEMMA Same ==
  ASSUME Inv
  PROVE  /\ jobs \in [Gates -> JobRecords]
         /\ contexts \in [Gates -> ContextRecords] /\ \A g \in Gates : ContextOK(contexts[g])
         /\ attempts \subseteq AttemptRecords /\ AttemptsOK(attempts) /\ AttemptsStand(attempts)
BY DEF Inv, TypeOK, AttemptsStand

(* An attempt is recorded only when there is none: another request has not *)
(* consumed the opening.                                                   *)
LEMMA RecordedFacts ==
  ASSUME Inv, LanesOver, NEW g \in 1 .. gates, g \in Gates, NEW ph, Recorded(g, ph)
  PROVE  /\ jobs' \in [Gates -> JobRecords]
         /\ attempts' \subseteq AttemptRecords /\ AttemptsOK(attempts') /\ AttemptsStand(attempts')
<1>1. CASE attempts = {}
  <2> DEFINE a == Attempt(g, "unavailable", Nobody)
  <2>1. a \in AttemptRecords
    BY DEF Attempt, AttemptRecords
  <2> HIDE DEF a
  <2>2. attempts' = attempts \/ attempts' = {a}
    BY <1>1 DEF Recorded, a
  <2>3. Failed(jobs[g]) \in JobRecords
    BY Same, JobFacts
  <2>4. jobs' \in [Gates -> JobRecords]
    BY <2>3, Same DEF Recorded
  <2> QED BY <1>1, <2>1, <2>2, <2>4 DEF AttemptsOK, AttemptsStand
<1>2. CASE attempts # {}
  <2>1. attempts' = attempts /\ jobs' = jobs
    BY <1>2 DEF Recorded, Consumed
  <2> QED BY <2>1, Same
<1> QED BY <1>1, <1>2

LEMMA SweptFacts == ASSUME Inv PROVE Swept \in [Gates -> JobRecords]
BY Same, JobFacts DEF Swept

(* The attempts and the contexts stay *)
LEMMA JobsKeep ==
  ASSUME Inv, NEW p \in Procs, NEW w, Ahead(w), Turn(p, "opening", w),
         jobs' \in [Gates -> JobRecords],
         UNCHANGED <<lanes, gate, gates, consent, evidence, contexts, attempts, faults>>
  PROVE  Conclusion
<1>1. /\ contexts' \in [Gates -> ContextRecords] /\ \A g \in Gates : ContextOK(contexts'[g])
      /\ attempts' \subseteq AttemptRecords /\ AttemptsOK(attempts') /\ AttemptsStand(attempts')
  BY Same
<1> QED BY <1>1, OpeningKeeps DEF Ahead

LEMMA StayTurn ==
  ASSUME Inv, NEW p \in Procs, UNCHANGED work
  PROVE  Turn(p, "opening", work[p]["opening"])
BY DEF Inv, TypeOK, Turn

LEMMA OpeningStartKept == ASSUME Inv, NEW p \in Procs, OpeningStart(p) PROVE Conclusion
<1>1. CASE jobs' = Swept /\ UNCHANGED work
  <2>1. Ahead(work[p]["opening"]) /\ Turn(p, "opening", work[p]["opening"])
    BY <1>1, StayTurn, WorkFacts
  <2> QED BY <1>1, <2>1, SweptFacts, JobsKeep DEF OpeningStart
<1>2. ASSUME NEW a \in attempts, jobs' = [Swept EXCEPT ![a.g] = Failed(@)],
             Turn(p, "opening", [ph |-> "close", g |-> a.g])
      PROVE  Conclusion
  <2>1. a \in AttemptRecords /\ LanesOver
    BY Same DEF AttemptsOK
  <2>2. a.g \in 1 .. gates /\ a.g \in Gates
    BY <2>1, GateFacts DEF AttemptRecords, Inv
  <2>3. Ahead([ph |-> "close", g |-> a.g])
    BY <2>1, <2>2, AheadFacts
  <2>4. jobs' \in [Gates -> JobRecords]
    BY <1>2, <2>2, SweptFacts, JobFacts
  <2> QED BY <1>2, <2>3, <2>4, JobsKeep DEF OpeningStart
<1>3. CASE /\ OpeningReady
           /\ jobs' = Swept
           /\ Turn(p, "opening", IF consent # "covered" THEN Unavailable(gate, FALSE, "consent")
                                 ELSE [ph |-> "context", g |-> gate, of |-> lanes])
  <2>1. LanesOver /\ gate \in 1 .. gates
    BY <1>3 DEF OpeningReady, LaneTerminal, LanesOver, Inv, TypeOK
  <2>2. Ahead(Unavailable(gate, FALSE, "consent"))
    BY <2>1, AheadFacts DEF Codes
  <2>3. Ahead([ph |-> "context", g |-> gate, of |-> lanes])
    <3>1. lanes \in [Lanes -> JobRecords]
      BY DEF Inv, TypeOK
    <3>2. [ph |-> "context", g |-> gate, of |-> lanes] \in [ph : {"context"}, g : 1 .. gates, of : [Lanes -> JobRecords]]
      BY <2>1, <3>1
    <3> QED BY <2>1, <3>2 DEF Ahead, WorkOK, OpeningWork
  <2> QED BY <1>3, <2>2, <2>3, SweptFacts, JobsKeep DEF OpeningStart
<1> QED BY <1>1, <1>2, <1>3 DEF OpeningStart

LEMMA ContextFreezeKept == ASSUME Inv, NEW p \in Procs, ContextFreeze(p) PROVE Conclusion
<1> DEFINE w == work[p]["opening"]
<1>1. /\ w.ph = "context" /\ w # Idle /\ w.of = lanes /\ w.of \in [Lanes -> JobRecords]
      /\ LanesOver /\ w.g \in 1 .. gates /\ w.g \in Gates
  <2>1. w.ph = "context" /\ w # Idle
    BY DEF ContextFreeze, Idle
  <2> QED BY <2>1, WorkFacts
<1>2. /\ \A ph \in {"snapshot", "look"} : Ahead([ph |-> ph, g |-> w.g])
      /\ Ahead(Caught(w.g, FALSE, "policy")) /\ Ahead(Caught(w.g, FALSE, "replay"))
  BY <1>1, AheadFacts DEF Codes
<1>3. jobs' = jobs /\ attempts' = attempts /\ UNCHANGED <<lanes, gate, gates, consent, evidence, faults>>
  BY DEF ContextFreeze
<1>4. /\ jobs' \in [Gates -> JobRecords]
      /\ attempts' \subseteq AttemptRecords /\ AttemptsOK(attempts') /\ AttemptsStand(attempts')
  BY <1>3, Same
<1>5. CASE UNCHANGED contexts
  <2>1. \E x : Ahead(x) /\ Turn(p, "opening", x)
    BY <1>2, <1>5 DEF ContextFreeze
  <2> QED BY <1>3, <1>4, <1>5, <2>1, JobsKeep
<1>6. CASE /\ contexts' = [contexts EXCEPT ![w.g] = [st |-> "running", old |-> FALSE, has |-> evidence, of |-> w.of]]
           /\ Turn(p, "opening", [ph |-> "snapshot", g |-> w.g])
  <2> DEFINE c == [st |-> "running", old |-> FALSE, has |-> evidence, of |-> w.of]
  <2>1. c \in ContextRecords
    <3>1. evidence \in [ids : Nat, rev : Nat]
      BY DEF Inv, TypeOK
    <3> QED BY <1>1, <3>1 DEF ContextRecords
  <2>2. ContextOK(c)
    BY <1>1 DEF ContextOK
  <2> HIDE DEF c
  <2>3. contexts' \in [Gates -> ContextRecords] /\ \A g \in Gates : ContextOK(contexts'[g])
    BY <1>1, <1>6, <2>1, <2>2, Same DEF c
  <2> QED BY <1>2, <1>3, <1>4, <1>6, <2>3, OpeningKeeps DEF Ahead
<1> QED BY <1>5, <1>6 DEF ContextFreeze

LEMMA ContextWriteKept == ASSUME Inv, NEW p \in Procs, ContextWrite(p) PROVE Conclusion
<1> DEFINE w == work[p]["opening"]
           c == contexts[w.g]
<1>1. w # Idle /\ LanesOver /\ w.g \in 1 .. gates /\ w.g \in Gates
  <2>1. w.ph = "snapshot" /\ w # Idle
    BY DEF ContextWrite, Idle
  <2> QED BY <2>1, WorkFacts
<1>2. Ahead([ph |-> "look", g |-> w.g]) /\ Ahead(Caught(w.g, FALSE, "drift"))
  BY <1>1, AheadFacts DEF Codes
<1>3. PICK x : Ahead(x) /\ Turn(p, "opening", x)
  BY <1>2 DEF ContextWrite
<1>4. jobs' = jobs /\ attempts' = attempts /\ UNCHANGED <<lanes, gate, gates, consent, evidence, faults>>
  BY DEF ContextWrite
<1>5. PICK st \in {"succeeded", "cancelled"} :
        contexts' = [contexts EXCEPT ![w.g] = IF Live(@) THEN [@ EXCEPT !.st = st] ELSE @]
  BY DEF ContextWrite
<1>6. c \in ContextRecords /\ ContextOK(c)
  BY <1>1, Same
<1>7. contexts'[w.g] \in ContextRecords /\ ContextOK(contexts'[w.g])
  <2> HIDE DEF w, c
  <2>1. contexts'[w.g] = IF Live(c) THEN [c EXCEPT !.st = st] ELSE c
    BY <1>1, <1>5, Same DEF c
  <2>2. CASE Live(c)
    <3>1. c # Nothing
      BY <2>2 DEF Live, Nothing
    <3>2. c \in [st : {"running", "succeeded", "failed", "cancelled"}, old : BOOLEAN,
                 has : [ids : Nat, rev : Nat], of : [Lanes -> JobRecords]]
      BY <1>6, <3>1 DEF ContextRecords
    <3>3. /\ [c EXCEPT !.st = st] \in [st : {"running", "succeeded", "failed", "cancelled"}, old : BOOLEAN,
                 has : [ids : Nat, rev : Nat], of : [Lanes -> JobRecords]]
          /\ [c EXCEPT !.st = st].of = c.of
      BY <3>2
    <3> QED BY <1>6, <2>1, <2>2, <3>1, <3>3 DEF ContextRecords, ContextOK
  <2> QED BY <1>6, <2>1, <2>2
<1>8. contexts' \in [Gates -> ContextRecords] /\ \A g \in Gates : ContextOK(contexts'[g])
  BY <1>5, <1>7, Same
<1> QED BY <1>3, <1>4, <1>8, Same, OpeningKeeps DEF Ahead

LEMMA CodeFacts ==
  ASSUME NEW j \in JobRecords, "code" \in DOMAIN j
  PROVE  j.code \in Codes
BY DEF JobRecords, Nothing

(* What every step after the context knows *)
LEMMA PhaseFacts ==
  ASSUME Inv, NEW p \in Procs,
         work[p]["opening"].ph \in {"look", "question", "begin", "reject", "record", "close"}
  PROVE  LET g == work[p]["opening"].g
         IN  /\ LanesOver /\ g \in 1 .. gates /\ g \in Gates
             /\ jobs[g] \in JobRecords /\ Failed(jobs[g]) \in JobRecords
             /\ Ahead(Idle)
             /\ \A ph \in {"question", "begin", "record"} : Ahead([ph |-> ph, g |-> g])
             /\ \A ctx \in BOOLEAN, code \in Codes :
                  Ahead(Unavailable(g, ctx, code)) /\ Ahead(Caught(g, ctx, code))
<1>1. work[p]["opening"] # Idle
  BY DEF Idle
<1> QED BY <1>1, WorkFacts, AheadFacts, Same, JobFacts

LEMMA LookKept == ASSUME Inv, NEW p \in Procs, Look(p) PROVE Conclusion
<1> DEFINE w == work[p]["opening"]
           j == jobs[w.g]
           code == IF "code" \in DOMAIN j THEN j.code ELSE "restarted"
<1>1. w.ph = "look"
  BY DEF Look
<1>2. /\ LanesOver /\ w.g \in Gates /\ j \in JobRecords /\ Failed(j) \in JobRecords
      /\ Ahead(Idle) /\ Ahead([ph |-> "question", g |-> w.g])
      /\ \A c \in Codes : Ahead(Unavailable(w.g, TRUE, c))
  BY <1>1, PhaseFacts
<1>3. code \in Codes
  BY <1>2, CodeFacts DEF Codes
<1>4. Ahead(Unavailable(w.g, TRUE, code))
  BY <1>2, <1>3
<1>5. \E x : Ahead(x) /\ Turn(p, "opening", x)
  BY <1>2, <1>4 DEF Look
<1>6. jobs' \in [Gates -> JobRecords]
  BY <1>2, Same DEF Look
<1>7. UNCHANGED <<lanes, gate, gates, consent, evidence, contexts, attempts, faults>>
  BY DEF Look
<1> QED BY <1>5, <1>6, <1>7, JobsKeep

(* A step that leaves the contexts alone *)
LEMMA AttemptsKeep ==
  ASSUME Inv, NEW p \in Procs, NEW w, Ahead(w), Turn(p, "opening", w),
         jobs' \in [Gates -> JobRecords],
         attempts' \subseteq AttemptRecords, AttemptsOK(attempts'), AttemptsStand(attempts'),
         UNCHANGED <<lanes, gate, gates, consent, evidence, contexts, faults>>
  PROVE  Conclusion
<1>1. contexts' \in [Gates -> ContextRecords] /\ \A g \in Gates : ContextOK(contexts'[g])
  BY Same
<1> QED BY <1>1, OpeningKeeps DEF Ahead

LEMMA QuestionFreezeKept == ASSUME Inv, NEW p \in Procs, QuestionFreeze(p) PROVE Conclusion
<1> DEFINE g == work[p]["opening"].g
<1>1. work[p]["opening"].ph = "question" /\ UNCHANGED <<lanes, gate, gates, consent, evidence, contexts, faults>>
  BY DEF QuestionFreeze
<1>2. /\ LanesOver /\ g \in 1 .. gates /\ g \in Gates
      /\ Ahead(Idle) /\ Ahead([ph |-> "begin", g |-> g])
      /\ Ahead(Caught(g, TRUE, "context")) /\ Ahead(Unavailable(g, TRUE, "replay"))
  BY <1>1, PhaseFacts DEF Codes
<1>3. CASE Turn(p, "opening", Caught(g, TRUE, "context")) /\ UNCHANGED <<jobs, attempts>>
  BY <1>1, <1>2, <1>3, Same, JobsKeep
<1>4. CASE /\ jobs' = [jobs EXCEPT ![g] = Running]
           /\ Turn(p, "opening", [ph |-> "begin", g |-> g]) /\ UNCHANGED attempts
  <2>1. jobs' \in [Gates -> JobRecords]
    BY <1>2, <1>4, Same, JobFacts
  <2> QED BY <1>1, <1>2, <1>4, <2>1, JobsKeep
<1>5. CASE /\ Recorded(g, "replay")
           /\ Turn(p, "opening", IF RequestOf(g) = {} /\ Consumed(g) THEN Unavailable(g, TRUE, "replay") ELSE Idle)
  <2>1. \E x : Ahead(x) /\ Turn(p, "opening", x)
    BY <1>2, <1>5
  <2>2. /\ jobs' \in [Gates -> JobRecords]
        /\ attempts' \subseteq AttemptRecords /\ AttemptsOK(attempts') /\ AttemptsStand(attempts')
    BY <1>2, <1>5, RecordedFacts
  <2> QED BY <1>1, <2>1, <2>2, AttemptsKeep
<1> QED BY <1>3, <1>4, <1>5 DEF QuestionFreeze

LEMMA BeginKept == ASSUME Inv, NEW p \in Procs, Begin(p) PROVE Conclusion
<1> DEFINE g == work[p]["opening"].g
<1>1. work[p]["opening"].ph = "begin" /\ UNCHANGED <<lanes, gate, gates, consent, evidence, contexts, faults>>
  BY DEF Begin
<1>2. /\ LanesOver /\ g \in 1 .. gates /\ g \in Gates /\ Ahead(Idle)
      /\ Ahead(Caught(g, TRUE, "begin")) /\ Ahead(Unavailable(g, TRUE, "preparation"))
  BY <1>1, PhaseFacts DEF Codes
<1>3. CASE /\ ~Consumed(g) /\ attempts' = attempts \cup {Attempt(g, "running", p)}
           /\ Turn(p, "opening", Idle) /\ UNCHANGED jobs
  <2> DEFINE a == Attempt(g, "running", p)
  <2>1. a \in AttemptRecords
    BY <1>2 DEF Attempt, AttemptRecords
  <2> HIDE DEF a
  <2>2. attempts = {} /\ attempts' = {a}
    BY <1>3 DEF Consumed, a
  <2>3. attempts' \subseteq AttemptRecords /\ AttemptsOK(attempts') /\ AttemptsStand(attempts')
    BY <1>2, <2>1, <2>2 DEF AttemptsOK, AttemptsStand
  <2> QED BY <1>1, <1>2, <1>3, <2>3, Same, AttemptsKeep
<1>4. CASE /\ jobs' = [jobs EXCEPT ![g] = IF Live(@) THEN Nothing ELSE @]
           /\ Turn(p, "opening", Caught(g, TRUE, "begin")) /\ UNCHANGED attempts
  <2>1. jobs' \in [Gates -> JobRecords]
    BY <1>2, <1>4, Same, JobFacts
  <2> QED BY <1>1, <1>2, <1>4, <2>1, JobsKeep
<1>5. CASE /\ Recorded(g, "preparation")
           /\ Turn(p, "opening", IF RequestOf(g) = {} /\ Consumed(g) THEN Unavailable(g, TRUE, "preparation") ELSE Idle)
  <2>1. \E x : Ahead(x) /\ Turn(p, "opening", x)
    BY <1>2, <1>5
  <2>2. /\ jobs' \in [Gates -> JobRecords]
        /\ attempts' \subseteq AttemptRecords /\ AttemptsOK(attempts') /\ AttemptsStand(attempts')
    BY <1>2, <1>5, RecordedFacts
  <2> QED BY <1>1, <2>1, <2>2, AttemptsKeep
<1> QED BY <1>3, <1>4, <1>5 DEF Begin

LEMMA RejectKept == ASSUME Inv, NEW p \in Procs, Reject(p) PROVE Conclusion
<1> DEFINE w == work[p]["opening"]
<1>1. w.ph = "reject" /\ UNCHANGED <<lanes, gate, gates, consent, evidence, contexts, attempts, faults>>
  BY DEF Reject
<1>2. w.g \in Gates /\ jobs[w.g] \in JobRecords /\ Ahead(Idle) /\ Ahead([ph |-> "record", g |-> w.g])
  BY <1>1, PhaseFacts
<1>3. Rejected(jobs[w.g], w.code) \in JobRecords
  BY <1>1, <1>2, WorkFacts, JobFacts
<1>4. jobs' \in [Gates -> JobRecords]
  BY <1>2, <1>3, Same DEF Reject
<1>5. \E x : Ahead(x) /\ Turn(p, "opening", x)
  BY <1>2 DEF Reject
<1> QED BY <1>1, <1>4, <1>5, JobsKeep

LEMMA RecordKept == ASSUME Inv, NEW p \in Procs, Record(p) PROVE Conclusion
<1> DEFINE g == work[p]["opening"].g
<1>1. /\ work[p]["opening"].ph = "record" /\ Turn(p, "opening", Idle) /\ Recorded(g, "unavailable")
      /\ UNCHANGED <<lanes, gate, gates, consent, evidence, contexts, faults>>
  BY DEF Record
<1>2. LanesOver /\ g \in 1 .. gates /\ g \in Gates /\ Ahead(Idle)
  BY <1>1, PhaseFacts
<1>3. /\ jobs' \in [Gates -> JobRecords]
      /\ attempts' \subseteq AttemptRecords /\ AttemptsOK(attempts') /\ AttemptsStand(attempts')
  BY <1>1, <1>2, RecordedFacts
<1> QED BY <1>1, <1>2, <1>3, AttemptsKeep

-----------------------------------------------------------------------------
(* The attempt                                                             *)

(* The attempt is the only one, so ending it leaves one, of the same request *)
LEMMA EndFacts ==
  ASSUME Inv, NEW a \in attempts, a.st = "running",
         NEW st \in {"succeeded", "failed"}, EndAttempt(a, st)
  PROVE  attempts' \subseteq AttemptRecords /\ AttemptsOK(attempts') /\ AttemptsStand(attempts')
<1>1. a \in AttemptRecords /\ attempts = {a} /\ LanesOver
  BY Same DEF AttemptsOK
<1> DEFINE b == [a EXCEPT !.st = st, !.owner = Nobody]
<1>2. b \in AttemptRecords
  BY <1>1 DEF AttemptRecords
<1>3. attempts' = {b}
  BY <1>1 DEF EndAttempt
<1> HIDE DEF b
<1> QED BY <1>1, <1>2, <1>3 DEF AttemptsOK, AttemptsStand

LEMMA AttemptFacts ==
  ASSUME Inv, NEW a \in attempts
  PROVE  /\ a \in AttemptRecords /\ LanesOver
         /\ a.g \in 1 .. gates /\ a.g \in Gates /\ a.owner \in Procs \cup {Nobody}
<1>1. a \in AttemptRecords /\ LanesOver
  BY Same DEF AttemptsOK
<1> QED BY <1>1, GateFacts DEF AttemptRecords, Inv

LEMMA CloseKept == ASSUME Inv, NEW p \in Procs, Close(p) PROVE Conclusion
<1> DEFINE g == work[p]["opening"].g
<1>1. work[p]["opening"].ph = "close" /\ UNCHANGED <<lanes, gate, gates, consent, evidence, contexts, faults>>
  BY DEF Close
<1>2. g \in Gates /\ Failed(jobs[g]) \in JobRecords /\ Ahead(Idle)
  BY <1>1, PhaseFacts
<1>3. ASSUME NEW a \in attempts, a.st = "running", EndAttempt(a, "failed"), UNCHANGED <<jobs, work>>
      PROVE  Conclusion
  <2>1. Ahead(work[p]["opening"]) /\ Turn(p, "opening", work[p]["opening"])
    BY <1>3, StayTurn, WorkFacts
  <2>2. attempts' \subseteq AttemptRecords /\ AttemptsOK(attempts') /\ AttemptsStand(attempts')
    BY <1>3, EndFacts
  <2> QED BY <1>1, <1>3, <2>1, <2>2, Same, AttemptsKeep
<1>4. CASE jobs' = [jobs EXCEPT ![g] = Failed(@)] /\ Turn(p, "opening", Idle) /\ UNCHANGED attempts
  <2>1. jobs' \in [Gates -> JobRecords]
    BY <1>2, <1>4, Same
  <2> QED BY <1>1, <1>2, <1>4, <2>1, JobsKeep
<1> QED BY <1>3, <1>4 DEF Close, RequestOf

LEMMA PublishKept == ASSUME Inv, NEW a \in attempts, Publish(a) PROVE Conclusion
<1>1. a.owner \in Procs /\ a.g \in Gates
  BY AttemptFacts DEF Publish
<1>2. Ahead(work[a.owner]["opening"]) /\ Turn(a.owner, "opening", work[a.owner]["opening"])
  BY <1>1, StayTurn, WorkFacts DEF Publish
<1>3. attempts' \subseteq AttemptRecords /\ AttemptsOK(attempts') /\ AttemptsStand(attempts')
  BY EndFacts DEF Publish
<1>4. [st |-> "succeeded"] \in JobRecords
  BY DEF JobRecords
<1>5. jobs' = [jobs EXCEPT ![a.g] = [st |-> "succeeded"]]
  BY DEF Publish, Ended
<1>6. jobs' \in [Gates -> JobRecords]
  BY <1>1, <1>4, <1>5, Same
<1>7. UNCHANGED <<lanes, gate, gates, consent, evidence, contexts, faults>>
  BY DEF Publish
<1> QED BY <1>1, <1>2, <1>3, <1>6, <1>7, AttemptsKeep

LEMMA FailKept == ASSUME Inv, NEW a \in attempts, Fail(a) PROVE Conclusion
<1>1. a.owner \in Procs /\ a.g \in 1 .. gates /\ LanesOver
  BY AttemptFacts DEF Fail
<1>2. Ahead(work[a.owner]["opening"]) /\ Ahead([ph |-> "close", g |-> a.g])
  BY <1>1, WorkFacts, AheadFacts
<1>3. PICK x : Ahead(x) /\ Turn(a.owner, "opening", x)
  BY <1>2 DEF Fail
<1>4. attempts' \subseteq AttemptRecords /\ AttemptsOK(attempts') /\ AttemptsStand(attempts')
  BY EndFacts DEF Fail
<1>5. jobs' = jobs /\ UNCHANGED <<lanes, gate, gates, consent, evidence, contexts, faults>>
  BY DEF Fail
<1> QED BY <1>1, <1>3, <1>4, <1>5, Same, AttemptsKeep

-----------------------------------------------------------------------------
(* The world                                                               *)

(* Time, faults and moves leave what was read of the lanes, and who consumed *)
(* the opening.                                                            *)
LEMMA WorldKeeps ==
  ASSUME Inv, TypeOK', LanesStand,
         \A q \in Procs : work'[q]["opening"] = work[q]["opening"] \/ work'[q]["opening"] = Idle,
         \A g \in Gates : \/ contexts'[g] = contexts[g]
                          \/ contexts[g] # Nothing /\ contexts'[g].of = contexts[g].of,
         \A a, b \in attempts' : a = b, attempts' # {} => attempts # {},
         AttemptsStand(attempts')
  PROVE  Conclusion
<1>1. LanesOver => LanesOver' /\ lanes' = lanes
  <2>1. lanes \in [Lanes -> JobRecords] /\ lanes' \in [Lanes -> JobRecords]
    BY DEF Inv, TypeOK
  <2>2. LanesOver => \A l \in Lanes : lanes'[l] = lanes[l]
    BY DEF LanesStand, LanesOver
  <2> QED BY <2>1, <2>2 DEF LanesOver, Terminal
<1>2. \A q \in Procs : WorkOK(work[q]["opening"])'
  BY <1>1 DEF Inv, WorkOK
<1>3. \A g \in Gates : ContextOK(contexts[g])'
  BY <1>1 DEF Inv, ContextOK
<1>4. AttemptsOK(attempts)'
  BY <1>1 DEF Inv, AttemptsOK
<1> QED BY <1>2, <1>3, <1>4 DEF Conclusion, Inv

LEMMA ContextFacts ==
  ASSUME NEW c \in ContextRecords, Live(c)
  PROVE  /\ Aged(c) \in ContextRecords /\ Aged(c).of = c.of
         /\ [c EXCEPT !.st = "failed"] \in ContextRecords /\ [c EXCEPT !.st = "failed"].of = c.of
         /\ c # Nothing
<1>1. c # Nothing
  BY DEF Live, Nothing
<1>2. c \in [st : {"running", "succeeded", "failed", "cancelled"}, old : BOOLEAN,
             has : [ids : Nat, rev : Nat], of : [Lanes -> JobRecords]]
  BY <1>1 DEF ContextRecords
<1>3. /\ [c EXCEPT !.st = "failed"] \in ContextRecords /\ [c EXCEPT !.st = "failed"].of = c.of
      /\ [c EXCEPT !.old = TRUE] \in ContextRecords /\ [c EXCEPT !.old = TRUE].of = c.of
  BY <1>2 DEF ContextRecords
<1> QED BY <1>1, <1>3 DEF Aged

LEMMA SweepKept == ASSUME Inv, SweepContexts PROVE Conclusion
<1>1. UNCHANGED <<lanes, gate, gates, consent, evidence, jobs, attempts, work, faults>>
  BY DEF SweepContexts
<1>2. ASSUME NEW g \in Gates
      PROVE  /\ contexts'[g] \in ContextRecords
             /\ contexts'[g] = contexts[g] \/ (contexts[g] # Nothing /\ contexts'[g].of = contexts[g].of)
  <2>1. contexts[g] \in ContextRecords
    BY Same
  <2>2. contexts'[g] = IF Orphaned(contexts[g]) THEN [contexts[g] EXCEPT !.st = "failed"] ELSE contexts[g]
    BY DEF SweepContexts
  <2> QED BY <2>1, <2>2, ContextFacts DEF Orphaned
<1>3. contexts' \in [Gates -> ContextRecords]
  BY <1>2 DEF SweepContexts
<1>4. TypeOK'
  BY <1>1, <1>3 DEF Inv, TypeOK, OpeningWork, AttemptRecords
<1>5. LanesStand /\ AttemptsStand(attempts')
  BY <1>1 DEF LanesStand, AttemptsStand
<1>6. (\A a, b \in attempts' : a = b) /\ (attempts' # {} => attempts # {})
  BY <1>1 DEF Inv, AttemptsOK
<1> QED BY <1>1, <1>2, <1>4, <1>5, <1>6, WorldKeeps

LEMMA AgeKept == ASSUME Inv, Age PROVE Conclusion
<1>1. UNCHANGED <<gate, gates, consent, evidence, work, faults>>
  BY DEF Age
<1>2. lanes' \in [Lanes -> JobRecords] /\ jobs' \in [Gates -> JobRecords] /\ LanesStand
  BY JobFacts DEF Age, Inv, TypeOK, LanesStand
<1>3. ASSUME NEW g \in Gates
      PROVE  /\ contexts'[g] \in ContextRecords
             /\ contexts'[g] = contexts[g] \/ (contexts[g] # Nothing /\ contexts'[g].of = contexts[g].of)
  <2>1. contexts[g] \in ContextRecords /\ contexts'[g] = Aged(contexts[g])
    BY Same DEF Age
  <2> QED BY <2>1, ContextFacts DEF Aged
<1>4. contexts' \in [Gates -> ContextRecords]
  BY <1>3 DEF Age
<1>5. \A a \in attempts : Aged(a) \in AttemptRecords /\ Aged(a).g = a.g /\ Aged(a).st = a.st
  BY DEF Inv, TypeOK, AttemptRecords, Aged
<1>6. attempts' = {Aged(a) : a \in attempts}
  BY DEF Age
<1>7. attempts' \subseteq AttemptRecords /\ AttemptsStand(attempts')
  BY <1>5, <1>6 DEF AttemptsStand
<1>8. (\A a, b \in attempts' : a = b) /\ (attempts' # {} => attempts # {})
  BY <1>6 DEF Inv, AttemptsOK
<1>9. TypeOK'
  BY <1>1, <1>2, <1>4, <1>7 DEF Inv, TypeOK, OpeningWork, AttemptRecords
<1> QED BY <1>1, <1>2, <1>3, <1>7, <1>8, <1>9, WorldKeeps

LEMMA MoveGateKept == ASSUME Inv, MoveGate PROVE Conclusion
<1>1. UNCHANGED <<lanes, consent, evidence, contexts, jobs, attempts, work>>
  BY DEF MoveGate
<1>2. gates' \in 0 .. MaxGates /\ gate' \in 0 .. gates' /\ gates <= gates' /\ faults' \in 0 .. MaxFaults
  BY BoundAssumption DEF MoveGate, Fault, Inv, TypeOK
<1>3. gates \in Nat /\ gates' \in Nat
  BY <1>2, GateFacts DEF Inv
<1>4. 1 .. gates \subseteq 1 .. gates'
  BY <1>2, <1>3
<1>5. OpeningWork \subseteq OpeningWork' /\ AttemptRecords \subseteq AttemptRecords'
  BY <1>4 DEF OpeningWork, AttemptRecords
<1>6. TypeOK'
  <2>1. /\ attempts' \subseteq AttemptRecords'
        /\ \A p \in Procs : work'[p]["opening"] \in OpeningWork'
    BY <1>1, <1>5 DEF Inv, TypeOK
  <2>2. work' \in [Procs -> [Lanes \cup {"opening"} -> LaneWork \cup OpeningWork']]
    <3>1. work \in [Procs -> [Lanes \cup {"opening"} -> LaneWork \cup OpeningWork]]
      BY DEF Inv, TypeOK
    <3> QED BY <1>1, <1>5, <3>1
  <2> QED BY <1>1, <1>2, <2>1, <2>2 DEF Inv, TypeOK
<1>7. LanesStand /\ AttemptsStand(attempts')
  BY <1>1 DEF LanesStand, AttemptsStand
<1>8. (\A a, b \in attempts' : a = b) /\ (attempts' # {} => attempts # {})
  BY <1>1 DEF Inv, AttemptsOK
<1> QED BY <1>1, <1>6, <1>7, <1>8, WorldKeeps

LEMMA MoveKept == ASSUME Inv, Move PROVE Conclusion
<1>1. UNCHANGED <<lanes, gate, gates, contexts, jobs, attempts, work>>
  BY DEF Move
<1>2. /\ faults' \in 0 .. MaxFaults /\ evidence' \in [ids : Nat, rev : Nat]
      /\ consent' \in {"covered", "other", "revoked"}
  BY BoundAssumption DEF Move, Fault, Inv, TypeOK
<1>3. TypeOK'
  BY <1>1, <1>2 DEF Inv, TypeOK, OpeningWork, AttemptRecords
<1>4. LanesStand /\ AttemptsStand(attempts')
  BY <1>1 DEF LanesStand, AttemptsStand
<1>5. (\A a, b \in attempts' : a = b) /\ (attempts' # {} => attempts # {})
  BY <1>1 DEF Inv, AttemptsOK
<1> QED BY <1>1, <1>3, <1>4, <1>5, WorldKeeps

LEMMA CrashKept == ASSUME Inv, NEW p \in Procs, Crash(p) PROVE Conclusion
<1>1. UNCHANGED <<lanes, gate, gates, consent, evidence, contexts, jobs>> /\ faults' \in 0 .. MaxFaults
  BY BoundAssumption DEF Crash, Fault, Inv, TypeOK
<1> DEFINE Left(a) == [a EXCEPT !.owner = IF @ = p THEN Nobody ELSE @]
<1>2. \A a \in attempts : Left(a) \in AttemptRecords /\ Left(a).g = a.g /\ Left(a).st = a.st
  BY DEF Inv, TypeOK, AttemptRecords
<1>3. attempts' = {Left(a) : a \in attempts}
  BY DEF Crash
<1> HIDE DEF Left
<1>4. attempts' \subseteq AttemptRecords /\ AttemptsStand(attempts')
  BY <1>2, <1>3 DEF AttemptsStand
<1>5. (\A a, b \in attempts' : a = b) /\ (attempts' # {} => attempts # {})
  BY <1>3 DEF Inv, AttemptsOK
<1>6. /\ work' \in [Procs -> [Lanes \cup {"opening"} -> LaneWork \cup OpeningWork]]
      /\ \A q \in Procs : work'[q]["opening"] = work[q]["opening"] \/ work'[q]["opening"] = Idle
  <2>1. work' = [work EXCEPT ![p] = [x \in Lanes \cup {"opening"} |-> Idle]]
    BY DEF Crash, Inv, TypeOK
  <2>2. Idle \in LaneWork \cup OpeningWork
    BY DEF LaneWork
  <2> QED BY <2>1, <2>2 DEF Inv, TypeOK
<1>7. \A q \in Procs : work'[q]["opening"] \in OpeningWork
  BY <1>6 DEF Inv, TypeOK, OpeningWork
<1>8. TypeOK'
  BY <1>1, <1>4, <1>6, <1>7 DEF Inv, TypeOK, OpeningWork, AttemptRecords
<1>9. LanesStand
  BY <1>1 DEF LanesStand
<1> QED BY <1>1, <1>4, <1>5, <1>6, <1>8, <1>9, WorldKeeps

-----------------------------------------------------------------------------
(* The theorems                                                            *)

LEMMA InitInv == Init => Inv
<1> SUFFICES ASSUME Init PROVE Inv
  OBVIOUS
<1>1. /\ Nothing \in JobRecords /\ Nothing \in ContextRecords
      /\ Idle \in LaneWork /\ Idle \in OpeningWork
  BY DEF JobRecords, ContextRecords, LaneWork, OpeningWork
<1>2. TypeOK
  BY <1>1, BoundAssumption DEF Init, TypeOK
<1>3. \A p \in Procs : work[p]["opening"] = Idle
  BY DEF Init
<1> QED BY <1>2, <1>3 DEF Init, Inv, WorkOK, ContextOK, AttemptsOK

LEMMA StepKeeps == ASSUME Inv, [Next]_vars PROVE Conclusion
<1>1. ASSUME NEW p \in Procs, OpeningStep(p) PROVE Conclusion
  BY <1>1, OpeningStartKept, ContextFreezeKept, ContextWriteKept, LookKept, QuestionFreezeKept,
     BeginKept, RejectKept, RecordKept, CloseKept DEF OpeningStep
<1>2. ASSUME NEW p \in Procs, LaneStep(p) \/ Crash(p) PROVE Conclusion
  BY <1>2, LaneKept, CrashKept
<1>3. CASE Generation
  BY <1>3, PublishKept, FailKept DEF Generation
<1>4. CASE SweepContexts \/ Age \/ MoveGate \/ Move
  BY <1>4, SweepKept, AgeKept, MoveGateKept, MoveKept
<1>5. CASE UNCHANGED vars
  <2>1. Inv'
    BY <1>5 DEF vars, Inv, TypeOK, OpeningWork, AttemptRecords, WorkOK, ContextOK, AttemptsOK, LanesOver, Terminal
  <2> QED BY <1>5, <2>1 DEF vars, Conclusion, LanesStand, AttemptsStand
<1> QED BY <1>1, <1>2, <1>3, <1>4, <1>5 DEF Next

(* The invariant: what a process or a context knows of the lanes is what   *)
(* they ended with, and the opening is consumed by one attempt             *)
(* (post-session-coordination, second-session-opening).                    *)
THEOREM Invariance == Spec => []Inv
<1>1. Inv /\ [Next]_vars => Inv'
  BY StepKeeps DEF Conclusion
<1> QED BY <1>1, InitInv, PTL DEF Spec

(* Every variable keeps its type: jobs, contexts and attempts are of the   *)
(* forms the handlers know, and all work is about a gate that was given.   *)
THEOREM TypeCorrect == Spec => []TypeOK
<1>1. Inv => TypeOK
  BY DEF Inv
<1> QED BY <1>1, Invariance, PTL

(* The next session is opened by one attempt at most: whatever gates,      *)
(* processes, refusals and restarts come between, a second request finds   *)
(* the opening consumed under the transaction that would record it.        *)
THEOREM OpenedOnce == Spec => []OneOpening
<1>1. ASSUME Inv PROVE OneOpening
  <2>1. CASE attempts = {}
    BY <2>1, FS_EmptySet DEF OneOpening
  <2>2. ASSUME NEW a \in attempts PROVE OneOpening
    <3>1. attempts = {a}
      BY <1>1, <2>2 DEF Inv, AttemptsOK
    <3>2. Cardinality({a}) = 1
      BY FS_Singleton
    <3> QED BY <3>1, <3>2 DEF OneOpening
  <2> QED BY <2>1, <2>2
<1> QED BY <1>1, Invariance, PTL

(* No context is frozen and no opening is attempted before every analysis  *)
(* of the session is over, and what the context says of their outcome is   *)
(* what they ended with, although both are read long before they are used. *)
THEOREM AnalysesComeFirst == Spec => []AnalysisFirst
<1>1. Inv => AnalysisFirst
  BY DEF Inv, AttemptsOK, ContextOK, LanesOver, AnalysisFirst
<1> QED BY <1>1, Invariance, PTL

(* An outcome stands: no late answer, scan, crash or other process changes *)
(* a lane or an attempt that has ended.                                    *)
THEOREM OutcomesAreKept == Spec => OutcomesStand
<1>1. Inv /\ [Next]_vars => [/\ \A l \in Lanes : Terminal(lanes[l]) => lanes'[l] = lanes[l]
                             /\ \A a \in attempts : a.st # "running" => \E b \in attempts' : b.g = a.g /\ b.st = a.st]_vars
  BY StepKeeps DEF Conclusion, LanesStand, AttemptsStand
<1> QED BY <1>1, Invariance, PTL DEF Spec, OutcomesStand

-----------------------------------------------------------------------------
(* NextSession: the session that the opening is for is itself made once.   *)
(* The theorems hold for every set of tabs and browsers and every bound.   *)
CONSTANTS Tabs, Browser, LastSession, MaxRequests, MaxLost, MaxTurns
VARIABLES sessions, available, answers, attempt, tab, drawn, lost, turns, repeatConsent

Repeat == INSTANCE NextSession WITH consent <- repeatConsent

(* The sessions of a project follow each other: all but the last one are   *)
(* completed, and each has a number of its own.                            *)
FollowEachOther(S) ==
  /\ \E last \in S : \A s \in S : s = last \/ (s.no < last.no /\ s.status = "completed")
  /\ \A s, o \in S : s.no = o.no => s = o

SessionRecords == [no : Nat \ {0}, status : {"open", "completed", "failed"}, by : {0} \cup Repeat!Requests]
AttemptsMade == {Repeat!NoAttempt} \cup [req : Repeat!Requests, basis : Nat \ {0}]
TabRecords == [at : {"home", "calling", "prepare"}, basis : Nat, call : AttemptsMade, session : Nat]

RepeatTypeOK ==
  /\ sessions \subseteq SessionRecords
  /\ repeatConsent \in {"covered", "consent_reauthorization_required", "consent_unavailable"}
  /\ answers \in [Repeat!Requests -> Nat]
  /\ attempt \in [Repeat!Browsers -> AttemptsMade]
  /\ tab \in [Tabs -> TabRecords]
  /\ \A t \in Tabs : tab[t].at = "calling" => tab[t].call # Repeat!NoAttempt
  /\ drawn \in Nat

(* A stored answer names the session its request made.                     *)
AnswerOK(r) ==
  /\ \A s \in sessions : s.by = r => s.no = answers[r]
  /\ answers[r] # 0 => \E s \in sessions : s.by = r

RepeatInv ==
  /\ RepeatTypeOK
  /\ FollowEachOther(sessions)
  /\ \A r \in Repeat!Requests : AnswerOK(r)
  /\ \A s \in sessions : s.by = 0 => s.no = 1

AnswersStand == \A r \in Repeat!Requests : answers[r] # 0 => answers'[r] = answers[r]

OneSessionPerRequest == \A s, o \in sessions : s.by = o.by => s = o

LEMMA StoredAttempts ==
  /\ Repeat!NoAttempt \in AttemptsMade
  /\ \A a \in AttemptsMade : a # Repeat!NoAttempt => a.req \in Repeat!Requests /\ a.basis \in Nat \ {0}
  /\ \A n \in Nat : Repeat!Home(n) \in TabRecords /\ Repeat!Preparing(n) \in TabRecords
  /\ \A a \in AttemptsMade : Repeat!Calling(a) \in TabRecords
  /\ \A n \in Nat : Repeat!Home(n).at = "home" /\ Repeat!Preparing(n).at = "prepare"
  /\ \A a \in AttemptsMade : Repeat!Calling(a).at = "calling" /\ Repeat!Calling(a).call = a
BY DEF AttemptsMade, TabRecords, Repeat!NoAttempt, Repeat!Home, Repeat!Calling, Repeat!Preparing

(* The last of the completed sessions is the one with the highest number;  *)
(* when another session may be opened it is the last of all.               *)
LEMMA EligibleFollows ==
  ASSUME RepeatTypeOK, FollowEachOther(sessions), Repeat!Decision = "eligible"
  PROVE  /\ Repeat!Basis \in Nat \ {0}
         /\ \A s \in sessions : s.no <= Repeat!Basis /\ s.status = "completed"
         /\ \E s \in sessions : s.no = Repeat!Basis
<1>1. /\ ~(Repeat!Completed # {} /\ \E s \in sessions : s.status = "failed" /\ \A o \in Repeat!Completed : o.no < s.no)
      /\ Repeat!Open = {} /\ Repeat!Completed # {}
  BY DEF Repeat!Decision
<1>2. PICK last \in sessions : \A s \in sessions : s = last \/ (s.no < last.no /\ s.status = "completed")
  BY DEF FollowEachOther
<1>3. last.no \in Nat \ {0} /\ last.status \in {"open", "completed", "failed"}
  BY DEF RepeatTypeOK, SessionRecords
<1>4. last.status = "completed"
  <2>1. last.status # "open"
    BY <1>1 DEF Repeat!Open
  <2>2. last.status # "failed"
    <3>1. SUFFICES ASSUME last.status = "failed" PROVE \A o \in Repeat!Completed : o.no < last.no
      BY <1>1
    <3> QED BY <1>2, <3>1 DEF Repeat!Completed
  <2> QED BY <1>3, <2>1, <2>2
<1>5. last \in Repeat!Completed /\ \A s \in sessions : s.no \in Nat /\ s.no <= last.no
  BY <1>2, <1>3, <1>4 DEF Repeat!Completed, RepeatTypeOK, SessionRecords
<1>6. Repeat!LastOf(Repeat!Completed) = last
  <2>1. \A s \in Repeat!Completed : (\A o \in Repeat!Completed : o.no <= s.no) => s = last
    BY <1>2, <1>3, <1>5 DEF Repeat!Completed
  <2>2. \A o \in Repeat!Completed : o.no <= last.no
    BY <1>5 DEF Repeat!Completed
  <2> QED BY <1>5, <2>1, <2>2 DEF Repeat!LastOf
<1>7. Repeat!Basis = last.no
  BY <1>6 DEF Repeat!Basis
<1> QED BY <1>2, <1>3, <1>4, <1>5, <1>7

(* A request that was never answered makes the session after the last one. *)
LEMMA MakesOne ==
  ASSUME RepeatInv, NEW r \in Repeat!Requests, answers[r] = 0, Repeat!Decision = "eligible",
         sessions' = sessions \cup {[no |-> Repeat!Basis + 1, status |-> "open", by |-> r]},
         answers' = [answers EXCEPT ![r] = Repeat!Basis + 1]
  PROVE  /\ sessions' \subseteq SessionRecords /\ answers' \in [Repeat!Requests -> Nat]
         /\ FollowEachOther(sessions')
         /\ \A q \in Repeat!Requests : AnswerOK(q)'
         /\ \A s \in sessions' : s.by = 0 => s.no = 1
         /\ AnswersStand
<1> DEFINE new == [no |-> Repeat!Basis + 1, status |-> "open", by |-> r]
<1>1. /\ Repeat!Basis \in Nat \ {0}
      /\ \A s \in sessions : s.no <= Repeat!Basis /\ s.status = "completed"
  BY EligibleFollows DEF RepeatInv
<1> HIDE DEF new
<1>2. /\ new \in SessionRecords /\ new.no = Repeat!Basis + 1 /\ new.by = r /\ new.status = "open"
      /\ sessions' = sessions \cup {new}
  BY <1>1 DEF new, SessionRecords
<1>3. sessions \subseteq SessionRecords /\ answers \in [Repeat!Requests -> Nat] /\ r # 0
  BY DEF RepeatInv, RepeatTypeOK, Repeat!Requests
<1>4. sessions' \subseteq SessionRecords /\ answers' \in [Repeat!Requests -> Nat]
  BY <1>1, <1>2, <1>3
<1>5. FollowEachOther(sessions')
  <2>1. \A s \in sessions : s.no < new.no
    BY <1>1, <1>2, <1>3 DEF SessionRecords
  <2>2. \A s, o \in sessions' : s.no = o.no => s = o
    BY <1>2, <1>3, <2>1 DEF RepeatInv, FollowEachOther, SessionRecords
  <2> QED BY <1>1, <1>2, <2>1, <2>2 DEF FollowEachOther
<1>6. \A s \in sessions : s.by # r
  <2>1. \A s \in sessions : s.by = r => s.no = 0
    BY DEF RepeatInv, AnswerOK
  <2> QED BY <1>3, <2>1 DEF SessionRecords
<1>7. ASSUME NEW q \in Repeat!Requests PROVE AnswerOK(q)'
  <2>1. CASE q = r
    BY <1>2, <1>3, <1>6, <2>1 DEF AnswerOK
  <2>2. CASE q # r
    BY <1>2, <1>3, <2>2 DEF RepeatInv, AnswerOK
  <2> QED BY <2>1, <2>2
<1>8. \A s \in sessions' : s.by = 0 => s.no = 1
  BY <1>2, <1>3 DEF RepeatInv
<1>9. AnswersStand
  BY <1>3 DEF AnswersStand
<1> QED BY <1>4, <1>5, <1>7, <1>8, <1>9

(* What the tabs and the browsers do when the server's rows stay.          *)
LEMMA RowsStay ==
  ASSUME RepeatInv, UNCHANGED <<sessions, answers>>
  PROVE  /\ sessions' \subseteq SessionRecords /\ answers' \in [Repeat!Requests -> Nat]
         /\ FollowEachOther(sessions')
         /\ \A q \in Repeat!Requests : AnswerOK(q)'
         /\ \A s \in sessions' : s.by = 0 => s.no = 1
         /\ AnswersStand
BY DEF RepeatInv, RepeatTypeOK, FollowEachOther, AnswerOK, AnswersStand

LEMMA TabStep ==
  ASSUME RepeatInv, NEW t \in Tabs, MaxRequests \in Nat,
         \/ Repeat!Creates(t) \/ Repeat!CreatesUnheard(t) \/ Repeat!PointsToOpen(t) \/ Repeat!Refuses(t)
         \/ Repeat!Loads(t) \/ Repeat!StartsNext(t) \/ Repeat!Reloads(t)
  PROVE  RepeatInv' /\ AnswersStand
<1> DEFINE Rows == /\ sessions' \subseteq SessionRecords /\ answers' \in [Repeat!Requests -> Nat]
                   /\ FollowEachOther(sessions')
                   /\ \A q \in Repeat!Requests : AnswerOK(q)'
                   /\ \A s \in sessions' : s.by = 0 => s.no = 1
                   /\ AnswersStand
           Shows(x) == x \in TabRecords /\ (x.at = "calling" => x.call # Repeat!NoAttempt)
           call == tab[t].call
           b == Browser[t]
<1>0. /\ tab[t] \in TabRecords /\ call \in AttemptsMade /\ b \in Repeat!Browsers /\ attempt[b] \in AttemptsMade
      /\ drawn \in Nat
      /\ tab[t].at = "calling" => call \in AttemptsMade /\ call # Repeat!NoAttempt
                                  /\ call.req \in Repeat!Requests /\ call.basis \in Nat \ {0}
  <2>1. tab[t] \in TabRecords /\ b \in Repeat!Browsers /\ drawn \in Nat
    BY DEF RepeatInv, RepeatTypeOK, Repeat!Browsers
  <2>2. call \in AttemptsMade
    BY <2>1 DEF TabRecords
  <2>3. attempt[b] \in AttemptsMade /\ (tab[t].at = "calling" => call # Repeat!NoAttempt)
    BY <2>1 DEF RepeatInv, RepeatTypeOK
  <2> QED BY <2>1, <2>2, <2>3, StoredAttempts
<1>1. ASSUME Rows, NEW x, Shows(x), tab' = [tab EXCEPT ![t] = x], drawn' \in Nat, repeatConsent' = repeatConsent,
             NEW a \in AttemptsMade, attempt' = attempt \/ attempt' = [attempt EXCEPT ![b] = a]
      PROVE  RepeatInv' /\ AnswersStand
  <2>1. attempt' \in [Repeat!Browsers -> AttemptsMade]
    BY <1>0, <1>1 DEF RepeatInv, RepeatTypeOK
  <2>2. tab' \in [Tabs -> TabRecords] /\ \A u \in Tabs : tab'[u].at = "calling" => tab'[u].call # Repeat!NoAttempt
    BY <1>1 DEF RepeatInv, RepeatTypeOK
  <2> QED BY <1>1, <2>1, <2>2 DEF RepeatInv, RepeatTypeOK
<1>2. UNCHANGED <<sessions, answers>> => Rows
  BY RowsStay
<1>3. ASSUME tab[t].at = "calling", Repeat!Decision = "eligible", Repeat!Basis = call.basis, ~Repeat!Replayed(call),
             sessions' = sessions \cup {[no |-> call.basis + 1, status |-> "open", by |-> call.req]},
             answers' = [answers EXCEPT ![call.req] = call.basis + 1]
      PROVE  Rows
  BY <1>0, <1>3, MakesOne DEF Repeat!Replayed
<1>4. Shows(Repeat!Home(0)) /\ \A n \in Nat : Shows(Repeat!Home(n)) /\ Shows(Repeat!Preparing(n))
  BY StoredAttempts
<1>5. \A a \in AttemptsMade : a # Repeat!NoAttempt => Shows(Repeat!Calling(a))
  BY StoredAttempts
<1> HIDE DEF Rows, Shows, call, b
<1>6. CASE Repeat!Creates(t)
  <2>1. CASE Repeat!Replayed(call)
    <3>1. answers[call.req] \in Nat
      BY <1>0, <1>6 DEF RepeatInv, RepeatTypeOK, Repeat!Creates
    <3>2. /\ tab' = [tab EXCEPT ![t] = Repeat!Preparing(answers[call.req])]
          /\ UNCHANGED <<sessions, answers, drawn, repeatConsent>> /\ attempt' = [attempt EXCEPT ![b] = Repeat!NoAttempt]
      BY <1>6, <2>1 DEF Repeat!Creates, Repeat!server, Repeat!Answered, Repeat!Forgets, call, b
    <3> QED BY <1>0, <1>1, <1>2, <1>4, <3>1, <3>2, StoredAttempts
  <2>2. CASE ~Repeat!Replayed(call)
    <3>1. /\ tab[t].at = "calling" /\ Repeat!Decision = "eligible" /\ Repeat!Basis = call.basis
          /\ sessions' = sessions \cup {[no |-> call.basis + 1, status |-> "open", by |-> call.req]}
          /\ answers' = [answers EXCEPT ![call.req] = call.basis + 1]
          /\ tab' = [tab EXCEPT ![t] = Repeat!Preparing(call.basis + 1)]
          /\ UNCHANGED <<drawn, repeatConsent>> /\ attempt' = [attempt EXCEPT ![b] = Repeat!NoAttempt]
      BY <1>6, <2>2 DEF Repeat!Creates, Repeat!Answered, Repeat!Forgets, call, b
    <3>2. Rows /\ call.basis + 1 \in Nat
      BY <1>0, <1>3, <2>2, <3>1
    <3> QED BY <1>0, <1>1, <1>4, <3>1, <3>2, StoredAttempts
  <2> QED BY <2>1, <2>2
<1>7. CASE Repeat!CreatesUnheard(t)
  <2>1. /\ tab[t].at = "calling" /\ tab' = [tab EXCEPT ![t] = Repeat!Home(0)]
        /\ UNCHANGED <<drawn, repeatConsent>> /\ attempt' = [attempt EXCEPT ![b] = call]
    BY <1>7 DEF Repeat!CreatesUnheard, Repeat!server, Repeat!Answered, Repeat!Remembers, call, b
  <2>2. Rows
    <3>1. CASE ~Repeat!Replayed(call) /\ Repeat!Decision = "eligible" /\ Repeat!Basis = call.basis /\ call.basis < LastSession
      <4>1. /\ sessions' = sessions \cup {[no |-> call.basis + 1, status |-> "open", by |-> call.req]}
            /\ answers' = [answers EXCEPT ![call.req] = call.basis + 1]
        BY <1>7, <3>1 DEF Repeat!CreatesUnheard, call
      <4> QED BY <1>3, <2>1, <3>1, <4>1
    <3>2. CASE ~(~Repeat!Replayed(call) /\ Repeat!Decision = "eligible" /\ Repeat!Basis = call.basis /\ call.basis < LastSession)
      <4>1. UNCHANGED <<sessions, answers>>
        BY <1>7, <3>2 DEF Repeat!CreatesUnheard, Repeat!server, call
      <4> QED BY <1>2, <4>1
    <3> QED BY <3>1, <3>2
  <2> QED BY <1>0, <1>1, <1>4, <2>1, <2>2
<1>8. CASE Repeat!PointsToOpen(t)
  <2>1. Repeat!Open # {}
    BY <1>8 DEF Repeat!PointsToOpen, Repeat!Decision, RepeatInv, RepeatTypeOK
  <2>2. PICK s \in sessions : s.status = "open"
    BY <2>1 DEF Repeat!Open
  <2>3. Repeat!LastOf(Repeat!Open) = s
    <3>1. Repeat!Open = {s}
      BY <2>2 DEF RepeatInv, FollowEachOther, Repeat!Open
    <3>2. s.no <= s.no
      BY DEF RepeatInv, RepeatTypeOK, SessionRecords
    <3> QED BY <3>1, <3>2 DEF Repeat!LastOf
  <2>4. s.no \in Nat
    BY DEF RepeatInv, RepeatTypeOK, SessionRecords
  <2>5. /\ tab' = [tab EXCEPT ![t] = Repeat!Preparing(s.no)]
        /\ UNCHANGED <<sessions, answers, drawn, repeatConsent>> /\ attempt' = [attempt EXCEPT ![b] = Repeat!NoAttempt]
    BY <1>8, <2>3 DEF Repeat!PointsToOpen, Repeat!server, Repeat!Answered, Repeat!Forgets, b
  <2> QED BY <1>0, <1>1, <1>2, <1>4, <2>4, <2>5, StoredAttempts
<1>9. CASE Repeat!Refuses(t) \/ Repeat!Reloads(t)
  <2>1. /\ tab' = [tab EXCEPT ![t] = Repeat!Home(0)] /\ UNCHANGED <<sessions, answers, drawn, repeatConsent>>
        /\ attempt' = attempt \/ attempt' = [attempt EXCEPT ![b] = Repeat!NoAttempt]
    BY <1>9 DEF Repeat!Refuses, Repeat!Reloads, Repeat!server, Repeat!Answered, Repeat!Forgets, b
  <2> QED BY <1>0, <1>1, <1>2, <1>4, <2>1, StoredAttempts
<1>10. CASE Repeat!Loads(t)
  <2> DEFINE x == IF attempt[b] # Repeat!NoAttempt THEN Repeat!Calling(attempt[b]) ELSE Repeat!Home(Repeat!Basis)
  <2>1. tab' = [tab EXCEPT ![t] = x] /\ UNCHANGED <<sessions, answers, drawn, attempt, repeatConsent>>
    BY <1>10 DEF Repeat!Loads, Repeat!server, Repeat!Answered, b
  <2>2. Repeat!Basis \in Nat
    <3>1. CASE Repeat!Decision = "eligible"
      BY <3>1, EligibleFollows DEF RepeatInv
    <3>2. CASE Repeat!Decision # "eligible"
      BY <3>2 DEF Repeat!Basis
    <3> QED BY <3>1, <3>2
  <2>3. Shows(x)
    BY <1>0, <1>4, <1>5, <2>2
  <2> QED BY <1>0, <1>1, <1>2, <2>1, <2>3
<1>11. CASE Repeat!StartsNext(t)
  <2>1. CASE attempt[b] # Repeat!NoAttempt
    <3>1. tab' = [tab EXCEPT ![t] = Repeat!Calling(attempt[b])] /\ UNCHANGED <<sessions, answers, drawn, attempt, repeatConsent>>
      BY <1>11, <2>1 DEF Repeat!StartsNext, Repeat!server, Repeat!Answered, b
    <3> QED BY <1>0, <1>1, <1>2, <1>5, <2>1, <3>1
  <2>2. CASE attempt[b] = Repeat!NoAttempt
    <3> DEFINE a == [req |-> drawn + 1, basis |-> tab[t].basis]
    <3>1. /\ tab[t].basis # 0 /\ drawn < MaxRequests /\ drawn' = drawn + 1
          /\ attempt' = [attempt EXCEPT ![b] = a] /\ tab' = [tab EXCEPT ![t] = Repeat!Calling(a)]
          /\ UNCHANGED <<sessions, answers, repeatConsent>>
      BY <1>11, <2>2 DEF Repeat!StartsNext, Repeat!server, Repeat!Answered, Repeat!Remembers, b
    <3>2. a \in AttemptsMade /\ a # Repeat!NoAttempt
      BY <1>0, <3>1 DEF AttemptsMade, TabRecords, Repeat!NoAttempt, Repeat!Requests
    <3>3. drawn' \in Nat
      BY <1>0, <3>1
    <3> HIDE DEF a
    <3> QED BY <1>0, <1>1, <1>2, <1>5, <3>1, <3>2, <3>3
  <2> QED BY <2>1, <2>2
<1> QED BY <1>6, <1>7, <1>8, <1>9, <1>10, <1>11

LEMMA RepeatStep == ASSUME MaxRequests \in Nat, RepeatInv, [Repeat!Next]_Repeat!vars PROVE RepeatInv' /\ AnswersStand
<1>1. ASSUME NEW status \in {"completed", "failed"}, Repeat!Ends(status) PROVE RepeatInv' /\ AnswersStand
  <2>1. PICK s \in sessions : s.status = "open" /\ sessions' = (sessions \ {s}) \cup {[s EXCEPT !.status = status]}
    BY <1>1 DEF Repeat!Ends, Repeat!Open
  <2>2. UNCHANGED <<answers, attempt, tab, drawn, repeatConsent>>
    BY <1>1 DEF Repeat!Ends
  <2> DEFINE e == [s EXCEPT !.status = status]
  <2>3. e \in SessionRecords /\ e.no = s.no /\ e.by = s.by /\ e.status = status
    BY <1>1 DEF RepeatInv, RepeatTypeOK, SessionRecords
  <2> HIDE DEF e
  <2>4. sessions' = (sessions \ {s}) \cup {e}
    BY <2>1 DEF e
  <2>5. sessions' \subseteq SessionRecords
    BY <2>3, <2>4 DEF RepeatInv, RepeatTypeOK
  <2>6. FollowEachOther(sessions')
    <3>1. PICK last \in sessions : \A o \in sessions : o = last \/ (o.no < last.no /\ o.status = "completed")
      BY DEF RepeatInv, FollowEachOther
    <3>2. s = last
      BY <2>1, <3>1
    <3>3. \A o, q \in sessions' : o.no = q.no => o = q
      BY <2>3, <2>4 DEF RepeatInv, FollowEachOther
    <3> QED BY <2>3, <2>4, <3>1, <3>2, <3>3 DEF FollowEachOther
  <2>7. \A r \in Repeat!Requests : AnswerOK(r)'
    <3> SUFFICES ASSUME NEW r \in Repeat!Requests PROVE AnswerOK(r)'
      OBVIOUS
    <3>1. \A o \in sessions' : \E q \in sessions : o.by = q.by /\ o.no = q.no
      BY <2>3, <2>4
    <3>2. \A q \in sessions : \E o \in sessions' : o.by = q.by
      BY <2>3, <2>4
    <3> QED BY <2>2, <3>1, <3>2 DEF RepeatInv, AnswerOK
  <2>8. \A o \in sessions' : o.by = 0 => o.no = 1
    BY <2>3, <2>4 DEF RepeatInv
  <2> QED BY <2>2, <2>5, <2>6, <2>7, <2>8 DEF RepeatInv, RepeatTypeOK, AnswersStand
<1>2. CASE Repeat!Turns \/ UNCHANGED Repeat!vars
  BY <1>2, RowsStay DEF Repeat!Turns, Repeat!vars, Repeat!server, RepeatInv, RepeatTypeOK
<1> QED BY <1>1, <1>2, TabStep DEF Repeat!Next

LEMMA RepeatInit == ASSUME Repeat!Init PROVE RepeatInv
<1>1. RepeatTypeOK
  BY StoredAttempts DEF Repeat!Init, RepeatTypeOK, SessionRecords, Repeat!Home
<1>2. FollowEachOther(sessions)
  BY DEF Repeat!Init, FollowEachOther
<1>3. \A r \in Repeat!Requests : AnswerOK(r)
  BY DEF Repeat!Init, AnswerOK, Repeat!Requests
<1>4. \A s \in sessions : s.by = 0 => s.no = 1
  BY DEF Repeat!Init
<1> QED BY <1>1, <1>2, <1>3, <1>4 DEF RepeatInv

(* A project has at most one open session, and no two of one number,       *)
(* whatever tabs, browsers, repeated requests and stored attempts ask for  *)
(* the next one.                                                           *)
THEOREM OneSessionOpen ==
  ASSUME MaxRequests \in Nat PROVE Repeat!Spec => []Repeat!OneOpenSession
<1>1. ASSUME RepeatInv PROVE Repeat!OneOpenSession
  <2>1. PICK last \in sessions : \A s \in sessions : s = last \/ (s.no < last.no /\ s.status = "completed")
    BY <1>1 DEF RepeatInv, FollowEachOther
  <2>2. \A s, o \in sessions : s.no = o.no => s = o
    BY <1>1 DEF RepeatInv, FollowEachOther
  <2>3. \A s, o \in Repeat!Open : s = o
    BY <2>1 DEF Repeat!Open
  <2> QED BY <2>2, <2>3 DEF Repeat!OneOpenSession
<1> QED BY <1>1, RepeatInit, RepeatStep, PTL DEF Repeat!Spec

(* A request makes one session at most: however often it is sent again, by *)
(* whichever tab of its browser, and whatever answers were lost.           *)
THEOREM OnePerRequest ==
  ASSUME MaxRequests \in Nat PROVE Repeat!Spec => []OneSessionPerRequest
<1>1. ASSUME RepeatInv PROVE OneSessionPerRequest
  <2>1. \A s, o \in sessions : s.no = o.no => s = o
    BY <1>1 DEF RepeatInv, FollowEachOther
  <2>2. \A s, o \in sessions : s.by = o.by => s.no = o.no
    BY <1>1 DEF RepeatInv, RepeatTypeOK, SessionRecords, AnswerOK
  <2> QED BY <2>1, <2>2 DEF OneSessionPerRequest
<1> QED BY <1>1, RepeatInit, RepeatStep, PTL DEF Repeat!Spec

(* A stored answer is not taken back: a repetition is answered the same.   *)
THEOREM AnswersAreKept ==
  ASSUME MaxRequests \in Nat PROVE Repeat!Spec => [][AnswersStand]_Repeat!vars
BY RepeatInit, RepeatStep, PTL DEF Repeat!Spec

==============================================================================
