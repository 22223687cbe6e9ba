-------------------------- MODULE MemoryLayers_proofs --------------------------
(***************************************************************************)
(* Theorems about MemoryLayers for every set of keys and jobs and every    *)
(* bound.  The rows of a slot form one chain because whoever adds a row    *)
(* compares, in the transaction that adds it, what it read with the        *)
(* current row; a job is whole because its rows, its checkpoint and its    *)
(* end are one transaction, which only a running job reaches.              *)
(***************************************************************************)
EXTENDS MemoryLayers, TLAPS

Top(r) == \A s \in RowsOf(r.key) : s.rev <= r.rev

(* The rows of every slot are one chain with a last row *)
History ==
  /\ OneHistoryPerSlot
  /\ \A r \in rows : r.rev = r.base + 1
  /\ \A k \in Keys : ~Absent(k) => \E r \in RowsOf(k) : Top(r)

(* Who writes which layer *)
Writers ==
  \A r \in rows : /\ r.layer = "mid" => r.by \in Mid
                  /\ r.layer = "long" => r.by \in Jobs \ Mid
                  /\ r.by = P1 => r.layer = "working"

JobInv(j) ==
  /\ job[j] = "running" => stage[j] \in {"frozen", "planned"}
  /\ pc[j] = "ending" => ending[j] # None
  /\ pc[j] \in {"planned", "checked"} => DOMAIN plan[j] # {}
  /\ \A k \in DOMAIN frozen[j].basis : ~Absent(k)
  /\ IsLong(j) => \A k \in DOMAIN frozen[j].basis :
       \E s \in rows : s.key = k /\ s.by = MidOf(j) /\ s.rev = frozen[j].basis[k]

Inv ==
  /\ TypeOK /\ History /\ Writers /\ CommitIsWhole /\ LongOverItsMid
  /\ \A j \in Jobs : JobInv(j)

Stays(j) == job[j] \in Ended => job'[j] = job[j] /\ stage'[j] = stage[j]

Conclusion == Inv' /\ \A j \in Jobs : Stays(j)

-----------------------------------------------------------------------------
(* The rows                                                                *)

LEMMA CurrentFacts ==
  ASSUME TypeOK, History, NEW k \in Keys, ~Absent(k)
  PROVE  /\ Current(k) \in rows /\ Current(k) \in Row /\ Current(k).key = k
         /\ Current(k).rev \in Nat \ {0}
         /\ \A s \in RowsOf(k) : s.rev <= Current(k).rev
<1>1. \E r \in RowsOf(k) : \A s \in RowsOf(k) : s.rev <= r.rev
  BY DEF History, Top, RowsOf
<1>2. Current(k) \in RowsOf(k) /\ \A s \in RowsOf(k) : s.rev <= Current(k).rev
  BY <1>1 DEF Current
<1>3. Current(k) \in rows /\ Current(k).key = k
  BY <1>2 DEF RowsOf
<1>4. Current(k) \in Row /\ Current(k).rev = Current(k).base + 1
  BY <1>3 DEF TypeOK, History
<1> HIDE DEF Current
<1>5. Current(k).rev \in Nat \ {0}
  BY <1>4 DEF Row
<1> QED BY <1>2, <1>3, <1>4, <1>5

(* A row that follows the current one of its slot, or is the first *)
Follows(r) ==
  /\ r \in Row /\ r.rev = r.base + 1
  /\ r.base = IF Absent(r.key) THEN 0 ELSE Current(r.key).rev

LEMMA HistoryKept ==
  ASSUME TypeOK, History, NEW N, \A r \in N : Follows(r),
         \A r, s \in N : r.key = s.key => r = s, rows' = rows \cup N
  PROVE  History'
<1>1. rows \subseteq Row /\ \A r \in rows : r.rev \in Nat /\ r.base \in Nat /\ r.key \in Keys
  BY DEF TypeOK, Row
<1>2. \A r \in N : r.rev \in Nat /\ r.base \in Nat /\ r.key \in Keys /\ r.rev = r.base + 1
  BY DEF Follows, Row
<1>3. \A r \in N, s \in rows : s.key = r.key => s.rev < r.rev
  <2> SUFFICES ASSUME NEW r \in N, NEW s \in rows, s.key = r.key PROVE s.rev < r.rev
    OBVIOUS
  <2>1. s \in RowsOf(r.key) /\ ~Absent(r.key) /\ r.key \in Keys
    BY <1>2 DEF RowsOf, Absent
  <2>2. s.rev <= Current(r.key).rev /\ Current(r.key).rev \in Nat
    BY <2>1, CurrentFacts
  <2>3. r.rev = Current(r.key).rev + 1
    BY <1>2, <2>1 DEF Follows
  <2> HIDE DEF Current
  <2> QED BY <1>1, <2>2, <2>3
<1>4. OneHistoryPerSlot'
  <2> SUFFICES ASSUME NEW r \in rows', NEW s \in rows', r.key = s.key, r.rev = s.rev PROVE r = s
    BY <1>1, <1>2 DEF OneHistoryPerSlot, RowsOf, History
  <2>1. CASE r \in rows /\ s \in rows
    BY <1>1, <2>1 DEF History, OneHistoryPerSlot, RowsOf
  <2>2. CASE r \in N /\ s \in N
    BY <2>2
  <2>3. CASE r \in N /\ s \in rows
    BY <1>1, <1>2, <1>3, <2>3
  <2>4. CASE r \in rows /\ s \in N
    BY <1>1, <1>2, <1>3, <2>4
  <2> QED BY <2>1, <2>2, <2>3, <2>4
<1>5. \A r \in rows' : r.rev = r.base + 1
  BY <1>2 DEF History
<1>6. ASSUME NEW k \in Keys, ~Absent(k)' PROVE \E r \in RowsOf(k)' : Top(r)'
  <2>1. CASE \E r \in N : r.key = k
    <3> PICK r \in N : r.key = k
      BY <2>1
    <3>1. \A s \in rows' : s.key = k => s.rev <= r.rev
      BY <1>1, <1>2, <1>3
    <3>2. r \in RowsOf(k)' /\ Top(r)'
      BY <3>1 DEF RowsOf, Top
    <3> QED BY <3>2
  <2>2. CASE ~\E r \in N : r.key = k
    <3>1. RowsOf(k)' = RowsOf(k)
      BY <2>2 DEF RowsOf
    <3>2. PICK r \in RowsOf(k) : Top(r)
      BY <1>6, <3>1 DEF Absent, History
    <3>3. r.key = k
      BY DEF RowsOf
    <3>4. Top(r)'
      BY <3>1, <3>2, <3>3 DEF Top
    <3> QED BY <3>1, <3>4
  <2> QED BY <2>1, <2>2
<1> QED BY <1>4, <1>5, <1>6 DEF History

-----------------------------------------------------------------------------
(* The jobs                                                                *)

LEMMA JobFacts ==
  ASSUME LayersAssumption
  PROVE  /\ P1 \notin Jobs /\ Migration \notin Jobs
         /\ \A f \in Final : f \in Mid /\ f \in Jobs /\ Long(f) \in Jobs /\ IsLong(Long(f)) /\ MidOf(Long(f)) = f
         /\ \A m \in Mid : m \in Jobs /\ ~IsLong(m)
         /\ \A j \in Jobs : IsLong(j) => j \in Jobs \ Mid /\ MidOf(j) \in Final /\ j = Long(MidOf(j))
         /\ None \notin Keys
<1>1. \A f \in Final : Long(f) # P1 /\ Long(f) # Migration /\ MidOf(Long(f)) = f
  BY DEF Long, P1, Migration, MidOf
<1>2. P1 \notin Mid /\ Migration \notin Mid /\ None \notin Keys /\ \A f \in Final : Long(f) \notin Mid
  BY DEF LayersAssumption, P1, Migration, None
<1> QED BY <1>1, <1>2 DEF Jobs, Mid, IsLong

(* The variables of the other jobs *)
OthersStay(j) ==
  /\ \A i \in Jobs \ {j} :
       /\ job'[i] = job[i] /\ stage'[i] = stage[i] /\ pc'[i] = pc[i] /\ ending'[i] = ending[i]
       /\ plan'[i] = plan[i] /\ frozen'[i] = frozen[i] /\ last'[i] = last[i]
  /\ \A m \in Mid \ {j} : checkpoint'[m] = checkpoint[m]

(* A step of one job that adds no row *)
LEMMA JobKeeps ==
  ASSUME Inv, NEW j \in Jobs, TypeOK', rows' = rows, OthersStay(j), JobInv(j)', Stays(j),
         job'[j] = "succeeded" <=> job[j] = "succeeded", last'[j] = last[j],
         j \in Mid => (checkpoint'[j] = "committed" <=> checkpoint[j] = "committed")
  PROVE  Conclusion
<1>1. History' /\ Writers' /\ LongOverItsMid'
  BY DEF Inv, History, OneHistoryPerSlot, Top, RowsOf, Absent, Writers, LongOverItsMid
<1>2. CommitIsWhole'
  BY DEF Inv, CommitIsWhole, OthersStay, Stays, Ended
<1>3. \A i \in Jobs \ {j} : JobInv(i)'
  BY DEF Inv, JobInv, OthersStay, Absent, RowsOf
<1>4. \A i \in Jobs : Stays(i)
  BY DEF Stays, OthersStay
<1> QED BY <1>1, <1>2, <1>3, <1>4 DEF Inv, Conclusion

(* A step of an attempt that stores nothing *)
LEMMA StepKeeps ==
  ASSUME Inv, NEW j \in Jobs, UNCHANGED <<rows, policy, scope, job, stage, lease, checkpoint, frozen, last>>,
         NEW l \in {"idle", "gate", "calling", "planned", "checked", "ending"},
         NEW e \in {None, "failed", "cancelled", "unavailable"},
         pc' = [pc EXCEPT ![j] = l], ending' = [ending EXCEPT ![j] = e], UNCHANGED <<plan, rec>>,
         l = "ending" => e # None,
         l \in {"planned", "checked"} => pc[j] \in {"planned", "checked"}
  PROVE  Conclusion
<1>1. TypeOK'
  BY DEF Inv, TypeOK
<1>2. OthersStay(j) /\ Stays(j)
  BY DEF Inv, TypeOK, OthersStay, Stays
<1>3. pc'[j] = l /\ ending'[j] = e
  BY DEF Inv, TypeOK
<1>4. JobInv(j)'
  BY <1>3 DEF Inv, JobInv, Absent, RowsOf
<1> QED BY <1>1, <1>2, <1>4, JobKeeps

LEMMA EndKeeps ==
  ASSUME Inv, NEW j \in Jobs, NEW e \in {"failed", "cancelled", "unavailable"}, EndAs(j, e),
         UNCHANGED <<rows, policy, scope, job, stage, lease, checkpoint, frozen, last, plan, rec>>
  PROVE  Conclusion
<1>1. e # None
  BY DEF None
<1> QED BY <1>1, StepKeeps DEF EndAs, Goto

LEMMA GateKept == ASSUME Inv, NEW j \in Jobs, Gate(j) PROVE Conclusion
<1>1. CASE EndAs(j, "cancelled")
  BY <1>1, EndKeeps DEF Gate, durable
<1>2. CASE Goto(j, "calling") /\ UNCHANGED ending
  <2>1. ending' = [ending EXCEPT ![j] = ending[j]] /\ ending[j] \in {None, "failed", "cancelled", "unavailable"}
    BY <1>2 DEF Inv, TypeOK
  <2> QED BY <1>2, <2>1, StepKeeps DEF Gate, durable, Goto
<1> QED BY <1>1, <1>2 DEF Gate

LEMMA ReadAuthorityKept == ASSUME Inv, NEW j \in Jobs, ReadAuthority(j) PROVE Conclusion
<1>1. CASE EndAs(j, "cancelled")
  BY <1>1, EndKeeps DEF ReadAuthority, durable
<1>2. CASE Goto(j, "checked") /\ UNCHANGED ending
  <2>1. ending' = [ending EXCEPT ![j] = ending[j]] /\ ending[j] \in {None, "failed", "cancelled", "unavailable"}
    BY <1>2 DEF Inv, TypeOK
  <2>2. pc[j] = "planned"
    BY DEF ReadAuthority
  <2> QED BY <1>2, <2>1, <2>2, StepKeeps DEF ReadAuthority, durable, Goto
<1> QED BY <1>1, <1>2 DEF ReadAuthority

LEMMA ProviderFailsKept == ASSUME Inv, NEW j \in Jobs, ProviderFails(j) PROVE Conclusion
<1> PICK e \in {"failed", "cancelled", "unavailable"} : EndAs(j, e)
  BY DEF ProviderFails
<1> QED BY EndKeeps DEF ProviderFails, durable

LEMMA ProviderAnswersKept == ASSUME Inv, NEW j \in Jobs, ProviderAnswers(j) PROVE Conclusion
<1>1. UNCHANGED <<rows, policy, scope, job, lease, checkpoint, frozen, last, rec>>
  BY DEF ProviderAnswers
<1>2. CASE EndAs(j, "unavailable") /\ UNCHANGED <<plan, stage>>
  BY <1>1, <1>2, EndKeeps
<1>3. ASSUME TraceWritable(j), NEW p \in Plans(j), plan' = [plan EXCEPT ![j] = p],
             TraceAdvances(j), Goto(j, "planned"), UNCHANGED ending
      PROVE  Conclusion
  <2>1. p \in Planned /\ DOMAIN p # {}
    <3> PICK S \in (SUBSET Keys) \ {{}} : p \in [S -> {"existing", "new"}]
      BY DEF Plans
    <3>1. DOMAIN p = S /\ S # {}
      OBVIOUS
    <3>2. [S -> {"existing", "new"}] \in {[T -> {"existing", "new"}] : T \in SUBSET Keys}
      OBVIOUS
    <3>3. p \in Planned
      BY <3>2, Zenon DEF Planned
    <3> QED BY <3>1, <3>3
  <2>2. TypeOK'
    BY <1>1, <1>3, <2>1 DEF Inv, TypeOK, TraceAdvances, Goto
  <2>3. OthersStay(j)
    BY <1>1, <1>3 DEF Inv, TypeOK, OthersStay, TraceAdvances, Goto
  <2>4. job[j] = "running" /\ stage'[j] = "planned" /\ pc'[j] = "planned" /\ plan'[j] = p
    BY <1>3 DEF Inv, TypeOK, TraceWritable, TraceAdvances, Goto
  <2>5. JobInv(j)' /\ Stays(j)
    BY <1>1, <2>1, <2>4 DEF Inv, JobInv, Stays, Ended, Absent, RowsOf
  <2> QED BY <1>1, <2>2, <2>3, <2>5, JobKeeps
<1> QED BY <1>2, <1>3 DEF ProviderAnswers

LEMMA TerminalizeKept == ASSUME Inv, NEW j \in Jobs, Terminalize(j) PROVE Conclusion
<1>1. pc[j] = "ending" /\ ending[j] \in {"failed", "cancelled", "unavailable"}
  BY DEF Terminalize, Inv, JobInv, TypeOK
<1>2. NoKeys \in Planned
  <2>1. NoKeys \in [{} -> {"existing", "new"}]
    BY DEF NoKeys
  <2> QED BY <2>1 DEF Planned
<1>3. /\ pc' = [pc EXCEPT ![j] = "idle"] /\ plan' = [plan EXCEPT ![j] = NoKeys]
      /\ ending' = [ending EXCEPT ![j] = None]
      /\ UNCHANGED <<rows, policy, scope, lease, checkpoint, frozen, last, rec>>
  BY DEF Terminalize, Goto
<1>4. CASE StoresEnd(j) /\ job' = [job EXCEPT ![j] = ending[j]] /\ TraceEnds(j)
  <2>1. TypeOK'
    BY <1>1, <1>2, <1>3, <1>4 DEF Inv, TypeOK, TraceEnds, Ended
  <2>2. OthersStay(j)
    BY <1>3, <1>4 DEF Inv, TypeOK, OthersStay, TraceEnds
  <2>3. job[j] = "running" /\ job'[j] \in {"failed", "cancelled", "unavailable"} /\ pc'[j] = "idle"
    BY <1>1, <1>3, <1>4 DEF Inv, TypeOK, StoresEnd
  <2>4. JobInv(j)' /\ Stays(j)
    BY <1>3, <2>3 DEF Inv, JobInv, Stays, Ended, Absent, RowsOf
  <2> QED BY <1>3, <2>1, <2>2, <2>3, <2>4, JobKeeps
<1>5. CASE UNCHANGED <<job, stage>>
  <2>1. TypeOK'
    BY <1>2, <1>3, <1>5 DEF Inv, TypeOK
  <2>2. OthersStay(j) /\ Stays(j)
    BY <1>3, <1>5 DEF Inv, TypeOK, OthersStay, Stays
  <2>3. pc'[j] = "idle"
    BY <1>3 DEF Inv, TypeOK
  <2>4. JobInv(j)'
    BY <1>3, <1>5, <2>3 DEF Inv, JobInv, Absent, RowsOf
  <2> QED BY <1>3, <1>5, <2>1, <2>2, <2>4, JobKeeps
<1> QED BY <1>4, <1>5 DEF Terminalize

LEMMA LeaseEndsKept == ASSUME Inv, NEW j \in Jobs, LeaseEnds(j) PROVE Conclusion
<1>1. UNCHANGED <<rows, policy, scope, job, stage, checkpoint, frozen, plan, last, pc, ending, rec>>
  BY DEF LeaseEnds
<1>2. TypeOK'
  BY DEF LeaseEnds, Inv, TypeOK
<1>3. OthersStay(j) /\ Stays(j) /\ JobInv(j)'
  BY <1>1 DEF OthersStay, Stays, Inv, JobInv, Absent, RowsOf
<1> QED BY <1>1, <1>2, <1>3, JobKeeps

LEMMA ReconcileReadKept == ASSUME Inv, NEW j \in Jobs, ReconcileRead(j) PROVE Conclusion
<1>1. UNCHANGED <<rows, policy, scope, job, stage, lease, checkpoint, frozen, plan, last, pc, ending>>
  BY DEF ReconcileRead, durable
<1>2. stage[j] \in {"frozen", "planned"}
  BY DEF ReconcileRead, Stale, Inv, JobInv
<1>3. TypeOK'
  BY <1>1, <1>2 DEF ReconcileRead, Inv, TypeOK
<1>4. OthersStay(j) /\ Stays(j) /\ JobInv(j)'
  BY <1>1 DEF OthersStay, Stays, Inv, JobInv, Absent, RowsOf
<1> QED BY <1>1, <1>3, <1>4, JobKeeps

LEMMA ReconcileApplyKept == ASSUME Inv, NEW j \in Jobs, ReconcileApply(j) PROVE Conclusion
<1>1. UNCHANGED <<rows, policy, scope, lease, checkpoint, frozen, plan, last, pc, ending>>
  BY DEF ReconcileApply
<1>2. rec' \in [Jobs -> {None, "frozen", "planned"}]
  BY DEF ReconcileApply, Inv, TypeOK
<1>3. CASE RecoveryMatches(j) /\ Repairs(j)
  <2>1. TypeOK'
    BY <1>1, <1>2, <1>3 DEF Inv, TypeOK, Repairs, TraceEnds, Ended
  <2>2. OthersStay(j)
    BY <1>1, <1>3 DEF Inv, TypeOK, OthersStay, Repairs, TraceEnds
  <2>3. job[j] = "running" /\ job'[j] = "unavailable"
    BY <1>3 DEF Inv, TypeOK, RecoveryMatches, Repairs
  <2>4. JobInv(j)' /\ Stays(j)
    BY <1>1, <2>3 DEF Inv, JobInv, Stays, Ended, Absent, RowsOf
  <2> QED BY <1>1, <2>1, <2>2, <2>3, <2>4, JobKeeps
<1>4. CASE UNCHANGED <<job, stage>>
  <2>1. TypeOK'
    BY <1>1, <1>2, <1>4 DEF Inv, TypeOK
  <2>2. OthersStay(j) /\ Stays(j) /\ JobInv(j)'
    BY <1>1, <1>4 DEF OthersStay, Stays, Inv, JobInv, Absent, RowsOf
  <2> QED BY <1>1, <1>4, <2>1, <2>2, JobKeeps
<1> QED BY <1>3, <1>4 DEF ReconcileApply

-----------------------------------------------------------------------------
(* Freezing                                                                *)

(* A job that was never frozen begins with the revisions of some slots *)
LEMMA FreezeFacts ==
  ASSUME Inv, NEW j \in Jobs, job[j] = None, NEW S, S \subseteq Keys,
         FreezeBasis(j, RevisionsOf(S)), \A k \in S : ~Absent(k),
         checkpoint' \in [Mid -> {None, "frozen", "committed"}],
         \A m \in Mid \ {j} : checkpoint'[m] = checkpoint[m],
         j \in Mid => (checkpoint'[j] = "committed" <=> checkpoint[j] = "committed"),
         IsLong(j) => \A k \in S : \E s \in rows : s.key = k /\ s.by = MidOf(j) /\ s.rev = Current(k).rev
  PROVE  Conclusion
<1> DEFINE b == RevisionsOf(S)
<1>1. UNCHANGED <<rows, policy, scope, plan, last, ending, rec>>
  BY DEF FreezeBasis
<1>2. DOMAIN b = S /\ IsBasis(b) /\ \A k \in S : b[k] = Current(k).rev
  <2>1. \A k \in S : Current(k).rev \in Nat
    BY CurrentFacts DEF Inv
  <2> HIDE DEF Current
  <2> QED BY <2>1 DEF RevisionsOf, IsBasis
<1> HIDE DEF b
<1>3. /\ DOMAIN frozen' = Jobs
      /\ frozen'[j] = FrozenOn(b)
      /\ \A i \in Jobs \ {j} : frozen'[i] = frozen[i]
  BY DEF FreezeBasis, Inv, TypeOK, b
<1>4. frozen'[j].basis = b /\ frozen'[j].policy = policy /\ frozen'[j].scope = scope
  BY <1>3 DEF FrozenOn
<1>5. \A i \in Jobs : IsBasis(frozen'[i].basis) /\ {frozen'[i].policy, frozen'[i].scope} \subseteq 0..MaxPolicy
  BY <1>2, <1>3, <1>4 DEF Inv, TypeOK
<1>6. /\ job' = [job EXCEPT ![j] = "running"] /\ stage' = [stage EXCEPT ![j] = "frozen"]
      /\ lease' = [lease EXCEPT ![j] = "live"] /\ pc' = [pc EXCEPT ![j] = "gate"]
  BY DEF FreezeBasis, TraceCreated
<1>7. TypeOK'
  BY <1>1, <1>3, <1>5, <1>6 DEF Inv, TypeOK
<1>8. OthersStay(j)
  BY <1>1, <1>3, <1>6 DEF Inv, TypeOK, OthersStay
<1>9. job'[j] = "running" /\ stage'[j] = "frozen" /\ pc'[j] = "gate"
  BY <1>6 DEF Inv, TypeOK
<1>10. JobInv(j)' /\ Stays(j)
  BY <1>1, <1>2, <1>4, <1>9 DEF JobInv, Stays, Ended, None, Absent, RowsOf
<1>11. job'[j] = "succeeded" <=> job[j] = "succeeded"
  BY <1>9 DEF None
<1> QED BY <1>1, <1>7, <1>8, <1>10, <1>11, JobKeeps

LEMMA FreezeMidKept == ASSUME Inv, NEW m \in Mid, FreezeMid(m) PROVE Conclusion
<1>1. m \in Jobs /\ ~IsLong(m) /\ job[m] = None
  BY JobFacts, LayersAssumption DEF FreezeMid
<1>2. checkpoint' = [checkpoint EXCEPT ![m] = "frozen"]
  BY DEF FreezeMid
<1>3. checkpoint[m] # "committed"
  BY <1>1 DEF Inv, CommitIsWhole, None
<1>4. PICK S \in (SUBSET Working) \ {{}} : FreezeBasis(m, RevisionsOf(S))
  BY DEF FreezeMid
<1>5. S \subseteq Keys /\ \A k \in S : ~Absent(k)
  BY DEF Working
<1>6. /\ checkpoint' \in [Mid -> {None, "frozen", "committed"}]
      /\ \A i \in Mid \ {m} : checkpoint'[i] = checkpoint[i]
      /\ checkpoint'[m] = "frozen"
  BY <1>2 DEF Inv, TypeOK
<1> QED BY <1>1, <1>3, <1>4, <1>5, <1>6, FreezeFacts

(* The source of a long job is the row its final mid committed last *)
LEMMA FreezeLongKept == ASSUME Inv, NEW f \in Final, FreezeLong(f) PROVE Conclusion
<1> DEFINE j == Long(f)
           S == LongSources(f)
<1>1. f \in Mid /\ f \in Jobs /\ j \in Jobs /\ IsLong(j) /\ MidOf(j) = f /\ j \notin Mid
  BY JobFacts, LayersAssumption DEF IsLong
<1>2. job[f] = "succeeded" /\ job[j] = None /\ Current(last[f]).by = f
      /\ FreezeBasis(j, RevisionsOf(S)) /\ checkpoint' = checkpoint
  BY DEF FreezeLong, LongWakePending
<1>3. PICK r \in rows : r.by = f /\ r.key = last[f]
  BY <1>1, <1>2 DEF Inv, CommitIsWhole
<1>4. last[f] \in Keys /\ ~Absent(last[f])
  BY <1>3 DEF Inv, TypeOK, Row, Absent, RowsOf
<1>5. Current(last[f]) \in rows /\ Current(last[f]).key = last[f]
  BY <1>4, CurrentFacts DEF Inv
<1>6. S = {last[f]}
  BY DEF LongSources
<1> HIDE DEF j, S
<1>7. S \subseteq Keys /\ \A k \in S : ~Absent(k)
  BY <1>4, <1>6
<1>8. \A k \in S : \E s \in rows : s.key = k /\ s.by = MidOf(j) /\ s.rev = Current(k).rev
  <2> SUFFICES ASSUME NEW k \in S PROVE \E s \in rows : s.key = k /\ s.by = MidOf(j) /\ s.rev = Current(k).rev
    OBVIOUS
  <2>1. k = last[f]
    BY <1>6
  <2> HIDE DEF Current
  <2> QED BY <1>1, <1>2, <1>5, <2>1
<1>9. checkpoint' \in [Mid -> {None, "frozen", "committed"}]
  BY <1>2 DEF Inv, TypeOK
<1> QED BY <1>1, <1>2, <1>7, <1>8, <1>9, FreezeFacts

-----------------------------------------------------------------------------
(* Adding rows                                                             *)

(* What a step that only adds rows of a writer that is no job leaves *)
LEMMA P1WritesKept == ASSUME Inv, NEW k \in Keys, P1Writes(k) PROVE Conclusion
<1> DEFINE rev == IF Absent(k) THEN 0 ELSE Current(k).rev
           r == [key |-> k, rev |-> rev + 1, layer |-> "working", by |-> P1, base |-> rev]
<1>1. UNCHANGED <<policy, scope, job, stage, lease, checkpoint, frozen, plan, last, pc, ending, rec>>
  BY DEF P1Writes
<1>2. rev \in Nat
  BY CurrentFacts DEF Inv
<1>3. rows' = rows \cup {r}
  BY DEF P1Writes
<1> HIDE DEF Current
<1>4. Follows(r)
  BY <1>2 DEF Follows, Row
<1>5. r \in Row /\ r.by = P1 /\ r.layer = "working"
  BY <1>4 DEF Follows
<1> HIDE DEF r
<1>6. History'
  <2> DEFINE N == {r}
  <2>1. (\A x \in N : Follows(x)) /\ (\A x, y \in N : x.key = y.key => x = y) /\ rows' = rows \cup N
    BY <1>3, <1>4
  <2> HIDE DEF N
  <2> QED BY <2>1, HistoryKept DEF Inv
<1>7. TypeOK'
  BY <1>1, <1>3, <1>5 DEF Inv, TypeOK
<1>8. Writers'
  BY <1>3, <1>5 DEF Inv, Writers
<1>9. CommitIsWhole'
  <2>1. \A j \in Jobs : {s \in rows : s.by = j}' = {s \in rows : s.by = j}
    BY <1>3, <1>5, JobFacts, LayersAssumption
  <2> QED BY <1>1, <2>1 DEF Inv, CommitIsWhole
<1>10. LongOverItsMid'
  BY <1>3, <1>5 DEF Inv, LongOverItsMid
<1>11. \A j \in Jobs : JobInv(j)' /\ Stays(j)
  BY <1>1, <1>3 DEF Inv, JobInv, Stays, Absent, RowsOf
<1> QED BY <1>6, <1>7, <1>8, <1>9, <1>10, <1>11 DEF Inv, Conclusion

(* The rows of a commit follow the current ones: a slot planned as new has no *)
(* row at all, one that exists has not moved since the job froze it; and a    *)
(* long row follows the row of its final mid.                                 *)
LEMMA NewRowFacts ==
  ASSUME Inv, NEW j \in Jobs, SlotsHold(j), NEW k \in DOMAIN plan[j], ~BreaksSlotIndex(j, k)
  PROVE  LET r == NewRow(j, k)
         IN  /\ Follows(r) /\ r.key = k /\ r.by = j
             /\ r.layer = IF IsLong(j) THEN "long" ELSE "mid"
             /\ IsLong(j) => \E s \in rows : s.key = k /\ s.by = MidOf(j) /\ s.rev = r.base
<1> DEFINE r == NewRow(j, k)
           base == IF plan[j][k] = "new" THEN 0 ELSE frozen[j].basis[k]
<1>1. k \in Keys /\ plan[j][k] \in {"existing", "new"}
  <2>1. plan[j] \in Planned
    BY DEF Inv, TypeOK
  <2>2. PICK S \in SUBSET Keys : plan[j] \in [S -> {"existing", "new"}]
    BY <2>1 DEF Planned
  <2> QED BY <2>2
<1>2. AuthorityHolds(j, k) /\ IdentityHolds(j, k)
  BY DEF SlotsHold
<1>3. base \in Nat /\ base = IF Absent(k) THEN 0 ELSE Current(k).rev
  <2>1. CASE plan[j][k] = "new"
    BY <2>1 DEF BreaksSlotIndex
  <2>2. CASE plan[j][k] = "existing"
    <3>1. k \in DOMAIN frozen[j].basis /\ Current(k).rev = frozen[j].basis[k]
      BY <1>2, <2>2 DEF AuthorityHolds
    <3>2. ~Absent(k) /\ frozen[j].basis[k] \in Nat
      BY <3>1 DEF Inv, JobInv, TypeOK, IsBasis
    <3> HIDE DEF Current
    <3> QED BY <2>2, <3>1, <3>2
  <2> QED BY <1>1, <2>1, <2>2
<1>4. r = [key |-> k, rev |-> base + 1, layer |-> IF IsLong(j) THEN "long" ELSE "mid", by |-> j, base |-> base]
  BY DEF NewRow
<1> HIDE DEF Current, r
<1>5. r \in Row
  BY <1>1, <1>3, <1>4 DEF Row
<1>6. Follows(r)
  BY <1>3, <1>4, <1>5 DEF Follows
<1>7. ASSUME IsLong(j) PROVE \E s \in rows : s.key = k /\ s.by = MidOf(j) /\ s.rev = r.base
  <2>1. PICK s \in RowsOf(k) : s.layer = "mid"
    BY <1>2, <1>7 DEF IdentityHolds
  <2>2. s \in rows /\ s.by \in Mid /\ s.by # P1
    BY <2>1, JobFacts, LayersAssumption DEF RowsOf, Inv, Writers
  <2>3. plan[j][k] # "new"
    BY <1>2, <2>2 DEF AuthorityHolds, HasAuthority
  <2>4. k \in DOMAIN frozen[j].basis /\ base = frozen[j].basis[k]
    BY <1>1, <1>2, <2>3 DEF AuthorityHolds
  <2>5. \E t \in rows : t.key = k /\ t.by = MidOf(j) /\ t.rev = frozen[j].basis[k]
    BY <1>7, <2>4 DEF Inv, JobInv
  <2> QED BY <1>4, <2>4, <2>5
<1> QED BY <1>4, <1>6, <1>7 DEF r

LEMMA CommitSlotsKept ==
  ASSUME Inv, NEW j \in Jobs, pc[j] = "checked", MayCommit(j), SlotsHold(j),
         \A k \in DOMAIN plan[j] : ~BreaksSlotIndex(j, k), CommitSlots(j),
         UNCHANGED <<policy, scope, lease, frozen, rec>>
  PROVE  Conclusion
<1> DEFINE N == NewRows(j)
<1>1. job[j] = "running" /\ DOMAIN plan[j] # {}
  BY DEF MayCommit, Inv, JobInv
<1>2. \A r \in N : /\ Follows(r) /\ r.key \in DOMAIN plan[j] /\ r = NewRow(j, r.key) /\ r.by = j
                   /\ r.layer = IF IsLong(j) THEN "long" ELSE "mid"
                   /\ IsLong(j) => \E s \in rows : s.key = r.key /\ s.by = MidOf(j) /\ s.rev = r.base
  BY NewRowFacts DEF NewRows
<1>3. \A k \in DOMAIN plan[j] : \E r \in N : r.key = k
  BY NewRowFacts DEF NewRows
<1>4. rows' = rows \cup N
  BY DEF CommitSlots
<1> HIDE DEF N
<1>5. \A r \in N : r \in Row
  BY <1>2 DEF Follows
<1>6. History'
  <2>1. \A r, s \in N : r.key = s.key => r = s
    BY <1>2
  <2> QED BY <1>2, <1>4, <2>1, HistoryKept DEF Inv
<1>7. PICK k \in DOMAIN plan[j] : last' = [last EXCEPT ![j] = k]
  BY DEF CommitSlots, Projects
<1>8. k \in Keys
  BY <1>3, <1>5 DEF Row
<1>9. /\ job' = [job EXCEPT ![j] = "succeeded"] /\ stage' = [stage EXCEPT ![j] = "committed"]
      /\ pc' = [pc EXCEPT ![j] = "idle"] /\ plan' = [plan EXCEPT ![j] = NoKeys] /\ ending' = ending
      /\ checkpoint' = IF IsLong(j) THEN checkpoint ELSE [checkpoint EXCEPT ![j] = "committed"]
  BY DEF CommitSlots, Goto
<1>10. NoKeys \in Planned
  <2>1. NoKeys \in [{} -> {"existing", "new"}]
    BY DEF NoKeys
  <2> QED BY <2>1 DEF Planned
<1>11. checkpoint' \in [Mid -> {None, "frozen", "committed"}]
  BY <1>9 DEF Inv, TypeOK
<1>12. TypeOK'
  <2>1. rows' \subseteq Row
    BY <1>4, <1>5 DEF Inv, TypeOK
  <2>2. last' \in [Jobs -> Keys \cup {None}]
    BY <1>7, <1>8 DEF Inv, TypeOK
  <2>3. /\ job' \in [Jobs -> {None, "running"} \cup Ended]
        /\ stage' \in [Jobs -> {None, "frozen", "planned", "committed", "terminal"}]
        /\ pc' \in [Jobs -> {"idle", "gate", "calling", "planned", "checked", "ending"}]
        /\ plan' \in [Jobs -> Planned]
    BY <1>9, <1>10 DEF Inv, TypeOK, Ended
  <2> QED BY <1>9, <1>11, <2>1, <2>2, <2>3 DEF Inv, TypeOK
<1>13. /\ job'[j] = "succeeded" /\ stage'[j] = "committed" /\ pc'[j] = "idle" /\ last'[j] = k
       /\ OthersStay(j)
  BY <1>7, <1>9 DEF Inv, TypeOK, OthersStay
<1>14. Writers'
  BY <1>2, <1>4, JobFacts, LayersAssumption DEF Inv, Writers, IsLong
<1>15. CommitIsWhole'
  <2>1. \A i \in Jobs \ {j} : {r \in rows : r.by = i}' = {r \in rows : r.by = i}
    BY <1>2, <1>4
  <2>2. \A i \in Jobs \ {j} :
          /\ job'[i] = job[i] /\ stage'[i] = stage[i] /\ last'[i] = last[i]
          /\ i \in Mid => checkpoint'[i] = checkpoint[i]
    BY <1>13 DEF OthersStay
  <2>3. PICK r \in N : r.key = k
    BY <1>3
  <2>4. r \in rows' /\ r.by = j
    BY <1>2, <1>4, <2>3
  <2>5. j \in Mid => checkpoint'[j] = "committed"
    BY <1>9, JobFacts, LayersAssumption DEF Inv, TypeOK
  <2> QED BY <1>13, <2>1, <2>2, <2>3, <2>4, <2>5 DEF Inv, CommitIsWhole
<1>16. LongOverItsMid'
  <2> SUFFICES ASSUME NEW r \in rows', r.layer = "long"
               PROVE  \E s \in rows' : s.key = r.key /\ s.by = MidOf(r.by) /\ s.rev = r.base
    BY DEF LongOverItsMid
  <2>1. CASE r \in rows
    BY <1>4, <2>1 DEF Inv, LongOverItsMid
  <2>2. CASE r \in N
    BY <1>2, <1>4, <2>2
  <2> QED BY <1>4, <2>1, <2>2
<1>17. \A i \in Jobs \ {j} : JobInv(i)' /\ Stays(i)
  BY <1>4, <1>13 DEF OthersStay, Inv, JobInv, Stays, Absent, RowsOf
<1>18. JobInv(j)' /\ Stays(j)
  BY <1>1, <1>4, <1>13 DEF Inv, JobInv, Stays, Ended, Absent, RowsOf
<1> QED BY <1>6, <1>12, <1>14, <1>15, <1>16, <1>17, <1>18 DEF Inv, Conclusion

LEMMA CommitKept == ASSUME Inv, NEW j \in Jobs, Commit(j) PROVE Conclusion
<1>1. pc[j] = "checked" /\ UNCHANGED <<policy, scope, lease, frozen, rec>>
  BY DEF Commit
<1>2. CASE \E e \in {"cancelled", "unavailable"} :
             EndAs(j, e) /\ UNCHANGED <<rows, job, stage, checkpoint, plan, last>>
  BY <1>1, <1>2, EndKeeps
<1>3. CASE /\ MayCommit(j) /\ SlotsHold(j)
           /\ \A k \in DOMAIN plan[j] : ~BreaksSlotIndex(j, k)
           /\ CommitSlots(j)
  BY <1>1, <1>3, CommitSlotsKept
<1> QED BY <1>2, <1>3 DEF Commit

-----------------------------------------------------------------------------
(* The world                                                               *)

(* Steps that leave rows, jobs and what they froze *)
LEMMA WorldKeeps ==
  ASSUME Inv, TypeOK', UNCHANGED <<rows, job, stage, checkpoint, frozen, last>>,
         \A j \in Jobs : \/ pc'[j] = pc[j] /\ plan'[j] = plan[j] /\ ending'[j] = ending[j]
                         \/ pc'[j] = "idle"
  PROVE  Conclusion
<1>1. History' /\ Writers' /\ CommitIsWhole' /\ LongOverItsMid'
  BY DEF Inv, History, OneHistoryPerSlot, Top, RowsOf, Absent, Writers, CommitIsWhole, LongOverItsMid
<1>2. \A j \in Jobs : JobInv(j)' /\ Stays(j)
  BY DEF Inv, JobInv, Stays, Absent, RowsOf
<1> QED BY <1>1, <1>2 DEF Inv, Conclusion

LEMMA ConsentKept == ASSUME Inv, ConsentChanges \/ DeletionScopeMoves PROVE Conclusion
<1>1. UNCHANGED <<rows, job, stage, lease, checkpoint, frozen, plan, last, pc, ending, rec>>
  BY DEF ConsentChanges, DeletionScopeMoves
<1>2. policy' \in 0..MaxPolicy /\ scope' \in 0..MaxPolicy
  BY LayersAssumption DEF ConsentChanges, DeletionScopeMoves, Inv, TypeOK
<1>3. TypeOK'
  BY <1>1, <1>2 DEF Inv, TypeOK
<1> QED BY <1>1, <1>3, WorldKeeps

LEMMA CrashKept == ASSUME Inv, Crash PROVE Conclusion
<1>1. NoKeys \in Planned
  <2>1. NoKeys \in [{} -> {"existing", "new"}]
    BY DEF NoKeys
  <2> QED BY <2>1 DEF Planned
<1>2. TypeOK'
  BY <1>1 DEF Crash, durable, Inv, TypeOK
<1> QED BY <1>2, WorldKeeps DEF Crash, durable

-----------------------------------------------------------------------------
(* The theorems                                                            *)

LEMMA InitInv == Init => Inv
<1> SUFFICES ASSUME Init PROVE Inv
  OBVIOUS
<1>1. NoKeys \in Planned /\ DOMAIN NoKeys = {} /\ IsBasis(NoKeys)
  <2>1. NoKeys \in [{} -> {"existing", "new"}] /\ DOMAIN NoKeys = {}
    BY DEF NoKeys
  <2> QED BY <2>1 DEF Planned, IsBasis
<1>2. \A r \in rows : /\ r \in Row /\ r.rev = 1 /\ r.base = 0 /\ r.layer = "working" /\ r.by = Migration
                      /\ \A s \in rows : s.key = r.key => s = r
  BY LayersAssumption DEF Init, Row
<1>3. History
  BY <1>2 DEF History, OneHistoryPerSlot, RowsOf, Absent, Top
<1>4. Writers
  BY <1>2, JobFacts, LayersAssumption DEF Writers
<1>5. \A j \in Jobs : frozen[j].basis = NoKeys /\ frozen[j].policy = 0 /\ frozen[j].scope = 0
  BY DEF Init
<1>6. TypeOK
  <2>1. rows \subseteq Row /\ policy \in 0..MaxPolicy /\ scope \in 0..MaxPolicy
    BY <1>2, LayersAssumption DEF Init
  <2>2. /\ DOMAIN frozen = Jobs
        /\ \A j \in Jobs : IsBasis(frozen[j].basis) /\ {frozen[j].policy, frozen[j].scope} \subseteq 0..MaxPolicy
    BY <1>1, <1>5, LayersAssumption DEF Init
  <2> QED BY <1>1, <2>1, <2>2 DEF Init, TypeOK
<1>7. CommitIsWhole /\ LongOverItsMid
  BY <1>2, JobFacts, LayersAssumption DEF Init, CommitIsWhole, LongOverItsMid, None
<1>8. \A j \in Jobs : JobInv(j)
  BY <1>1, <1>5 DEF Init, JobInv, None
<1> QED BY <1>3, <1>4, <1>6, <1>7, <1>8 DEF Inv

LEMMA NextKeeps == ASSUME Inv, [Next]_vars PROVE Conclusion
<1>1. ASSUME NEW j \in Jobs, Attempt(j) PROVE Conclusion
  BY <1>1, GateKept, ProviderFailsKept, ProviderAnswersKept, ReadAuthorityKept, CommitKept, TerminalizeKept
  DEF Attempt
<1>2. ASSUME NEW j \in Jobs, LeaseEnds(j) \/ ReconcileRead(j) \/ ReconcileApply(j) PROVE Conclusion
  BY <1>2, LeaseEndsKept, ReconcileReadKept, ReconcileApplyKept
<1>3. ASSUME NEW m \in Mid, FreezeMid(m) PROVE Conclusion
  BY <1>3, FreezeMidKept
<1>4. ASSUME NEW f \in Final, FreezeLong(f) PROVE Conclusion
  BY <1>4, FreezeLongKept
<1>5. ASSUME NEW k \in Keys, P1Writes(k) PROVE Conclusion
  BY <1>5, P1WritesKept
<1>6. CASE ConsentChanges \/ DeletionScopeMoves \/ Crash
  BY <1>6, ConsentKept, CrashKept
<1>7. CASE UNCHANGED vars
  <2>1. TypeOK'
    BY <1>7 DEF vars, Inv, TypeOK
  <2> QED BY <1>7, <2>1, WorldKeeps DEF vars
<1> QED BY <1>1, <1>2, <1>3, <1>4, <1>5, <1>6, <1>7 DEF Next

(* The invariant: the rows of a slot are one chain with a last row, every  *)
(* job wrote all of its rows or none, and a long job froze rows that its   *)
(* final mid had committed (memory-p2-persistence.repository.ts).          *)
THEOREM Invariance == Spec => []Inv
<1>1. Inv /\ [Next]_vars => Inv'
  BY NextKeeps DEF Conclusion
<1> QED BY <1>1, InitInv, PTL DEF Spec

(* Every variable keeps its type; a job that ends ends with a status, also *)
(* when it is ended by a repair.                                           *)
THEOREM TypeCorrect == Spec => []TypeOK
<1>1. Inv => TypeOK
  BY DEF Inv
<1> QED BY <1>1, Invariance, PTL

(* Every revision of a slot has one predecessor and one successor, however *)
(* many consolidations and maintainer runs work on it at once: the commit  *)
(* compares the frozen revision with the current one in its transaction.   *)
THEOREM SlotsAreChains == Spec => []OneHistoryPerSlot
<1>1. Inv => OneHistoryPerSlot
  BY DEF Inv, History
<1> QED BY <1>1, Invariance, PTL

(* A succeeded job has all of its slots and a committed checkpoint, any    *)
(* other has none, whatever crash, lease or repair came in between.        *)
THEOREM CommitsAreWhole == Spec => []CommitIsWhole
<1>1. Inv => CommitIsWhole
  BY DEF Inv
<1> QED BY <1>1, Invariance, PTL

(* A long revision directly follows the revision its final mid committed:  *)
(* what another writer put in between refuses the long job.                *)
THEOREM LongFollowsMid == Spec => []LongOverItsMid
<1>1. Inv => LongOverItsMid
  BY DEF Inv
<1> QED BY <1>1, Invariance, PTL

(* The end of a job is written once: no late attempt and no repair that    *)
(* decided earlier changes it or its trace.                                *)
THEOREM EndsAreFinal == Spec => EndedStays
<1>1. Inv /\ [Next]_vars => [\A j \in Jobs : job[j] \in Ended => job'[j] = job[j] /\ stage'[j] = stage[j]]_vars
  BY NextKeeps DEF Conclusion, Stays
<1> QED BY <1>1, Invariance, PTL DEF Spec, EndedStays

-----------------------------------------------------------------------------
(* MemoryGate: what may become a row at all.  The theorems hold for every  *)
(* set of segments, slots and jobs and every bound.                        *)
CONSTANTS Segments, FactSlots, EpisodeSlots, Told, ToldBoundary, P1Jobs, P2Jobs, MaxChanges
VARIABLES segment, gateRows, evidence, boundaries, consumed, gatePolicy, gateJob

Elder == INSTANCE MemoryGate WITH rows <- gateRows, policy <- gatePolicy, job <- gateJob

(* The slots of before the gate name segments.                             *)
ToldSegments == \A k \in Elder!Slots : Told[k] = 0 \/ Told[k] \in Segments

(* Rows have a revision, and rest on segments.                             *)
RowSound(r) ==
  /\ r.slot \in Elder!Slots /\ r.rev \in Nat \ {0}
  /\ Elder!SourcesOf(r) \subseteq Segments

(* The evidence of a source is of the revision the consolidations cite.    *)
CitesEvidence(r, ev) ==
  r.layer = "mid" => \A c \in r.claims : \A s \in DOMAIN c.cites :
                       c.cites[s] \in Nat \ {0} /\ ev[s].rev = c.cites[s]

HasTop(R) == R = {} \/ \E r \in R : \A s \in R : s.rev <= r.rev

(* What a job froze are segments and their revisions.                      *)
JobSound(j) ==
  /\ gateJob[j].at # "none" => gateJob[j].new \subseteq gateJob[j].segs /\ gateJob[j].segs \subseteq Segments
  /\ gateJob[j].at # "none" => \A s \in gateJob[j].segs : gateJob[j].revs[s] \in Nat \ {0}

GateInv ==
  /\ DOMAIN segment = Segments /\ \A s \in Segments : segment[s].rev \in Nat \ {0}
  /\ \A r \in gateRows : RowSound(r) /\ CitesEvidence(r, evidence)
  /\ \A k \in Elder!Slots : HasTop(Elder!RowsOf(k))
  /\ gateJob = [j \in Elder!Jobs |-> gateJob[j]] /\ \A j \in Elder!Jobs : JobSound(j)
  /\ \A s \in Segments : evidence[s] = Elder!Uncited \/ evidence[s].rev \in Nat \ {0}

GateConclusion == GateInv' /\ Elder!WrittenOnTheElderStep

LEMMA HighestRow ==
  ASSUME GateInv, NEW k \in Elder!Slots, ~Elder!Absent(k)
  PROVE  Elder!Current(k) \in gateRows /\ Elder!Current(k).slot = k
         /\ \A s \in Elder!RowsOf(k) : s.rev <= Elder!Current(k).rev
<1>1. \E r \in Elder!RowsOf(k) : \A s \in Elder!RowsOf(k) : s.rev <= r.rev
  BY DEF GateInv, HasTop, Elder!Absent
<1>2. Elder!Current(k) \in Elder!RowsOf(k) /\ \A s \in Elder!RowsOf(k) : s.rev <= Elder!Current(k).rev
  BY <1>1 DEF Elder!Current
<1> QED BY <1>2 DEF Elder!RowsOf

(* What a row of the slot adds to the sources is a segment.                *)
LEMMA SourceFacts ==
  ASSUME GateInv
  PROVE  /\ Elder!FactSources \subseteq Segments
         /\ \A k \in Elder!Slots : ~Elder!Absent(k) => Elder!SourcesOf(Elder!Current(k)) \subseteq Segments
<1>1. \A k \in Elder!Slots : ~Elder!Absent(k) => Elder!SourcesOf(Elder!Current(k)) \subseteq Segments
  BY HighestRow DEF GateInv, RowSound
<1> QED BY <1>1 DEF Elder!FactSources, Elder!CurrentRows

(* Rows on slots of their own, each the next of its slot, keep a last row  *)
(* in every slot.                                                          *)
LEMMA NextRows ==
  ASSUME GateInv, NEW N,
         \A r \in N : RowSound(r),
         \A r \in N : \A s \in Elder!RowsOf(r.slot) : s.rev <= r.rev,
         \A r, s \in N : r.slot = s.slot => r = s,
         gateRows' = gateRows \cup N
  PROVE  \A k \in Elder!Slots : HasTop(Elder!RowsOf(k)')
<1> SUFFICES ASSUME NEW k \in Elder!Slots PROVE HasTop(Elder!RowsOf(k)')
  OBVIOUS
<1>1. Elder!RowsOf(k)' = Elder!RowsOf(k) \cup {r \in N : r.slot = k}
  BY DEF Elder!RowsOf
<1>2. HasTop(Elder!RowsOf(k))
  BY DEF GateInv
<1>3. CASE {r \in N : r.slot = k} = {}
  BY <1>1, <1>2, <1>3
<1>4. ASSUME NEW r \in N, r.slot = k PROVE HasTop(Elder!RowsOf(k)')
  <2>1. {s \in N : s.slot = k} = {r}
    BY <1>4
  <2>2. r.rev <= r.rev
    BY <1>4 DEF RowSound
  <2> QED BY <1>1, <1>4, <2>1, <2>2 DEF HasTop
<1> QED BY <1>3, <1>4

(* What the gate lets be written rests on the elder.                       *)
LEMMA WritableRests ==
  ASSUME NEW c, Elder!Writable(c) PROVE \A s \in c.cites : segment[s].role = "elder"
BY DEF Elder!Writable, Elder!Refusals, Elder!EligibilityRefusals

(* A step that adds no row and leaves evidence and boundaries.             *)
LEMMA NothingWritten ==
  ASSUME GateInv, UNCHANGED <<gateRows, evidence, boundaries>>,
         DOMAIN segment' = Segments /\ \A s \in Segments : segment'[s].rev \in Nat \ {0},
         gateJob' = [j \in Elder!Jobs |-> gateJob'[j]], \A j \in Elder!Jobs : JobSound(j)'
  PROVE  GateConclusion
<1>1. GateInv'
  BY DEF GateInv, RowSound, CitesEvidence, HasTop, Elder!RowsOf, Elder!SourcesOf
<1>2. Elder!WrittenOnTheElderStep
  <2>1. Elder!NewClaims = {}
    BY DEF Elder!NewClaims
  <2>2. boundaries' \ boundaries = {}
    OBVIOUS
  <2> QED BY <2>1, <2>2 DEF Elder!WrittenOnTheElderStep
<1> QED BY <1>1, <1>2 DEF GateConclusion

LEMMA WorldMoves ==
  ASSUME GateInv, Elder!ChangePolicy \/ \E s \in Segments : Elder!CorrectSegment(s)
  PROVE  GateConclusion
<1>1. UNCHANGED <<gateRows, evidence, boundaries, gateJob>>
  BY DEF Elder!ChangePolicy, Elder!CorrectSegment
<1>2. DOMAIN segment' = Segments /\ \A s \in Segments : segment'[s].rev \in Nat \ {0}
  BY DEF GateInv, Elder!ChangePolicy, Elder!CorrectSegment
<1> QED BY <1>1, <1>2, NothingWritten DEF GateInv, JobSound

LEMMA JobFreezes ==
  ASSUME GateInv, NEW j \in Elder!Jobs, NEW new, NEW segs, new \subseteq segs, segs \subseteq Segments, NEW mems,
         Elder!FreezeAs(j, new, segs, mems)
  PROVE  GateConclusion
<1>1. UNCHANGED <<segment, gateRows, evidence, boundaries>>
  BY DEF Elder!FreezeAs
<1>2. gateJob' = [i \in Elder!Jobs |-> gateJob'[i]]
  BY DEF Elder!FreezeAs, GateInv
<1>3. ASSUME NEW i \in Elder!Jobs PROVE JobSound(i)'
  <2>1. CASE i = j
    <3>1. gateJob'[i].new = new /\ gateJob'[i].segs = segs /\ gateJob'[i].revs = [s \in segs |-> segment[s].rev]
      BY <2>1 DEF Elder!FreezeAs, GateInv
    <3> QED BY <3>1 DEF JobSound, GateInv
  <2>2. CASE i # j
    <3>1. gateJob'[i] = gateJob[i]
      BY <2>2 DEF Elder!FreezeAs, GateInv
    <3> QED BY <3>1 DEF JobSound, GateInv
  <2> QED BY <2>1, <2>2
<1> QED BY <1>1, <1>2, <1>3, NothingWritten DEF GateInv

LEMMA FreezeSteps ==
  ASSUME GateInv, \/ \E j \in P1Jobs : Elder!FreezeP1(j)
                  \/ \E j \in P2Jobs : Elder!FreezeP2(j)
  PROVE  GateConclusion
<1>1. ASSUME NEW j \in P1Jobs, Elder!FreezeP1(j) PROVE GateConclusion
  <2>1. PICK latest \in Elder!PendingElder, from \in Segments :
          LET new == {s \in Elder!PendingElder : s <= latest}
              overlap == {s \in Segments : from <= s /\ \A t \in new : s < t}
          IN  Elder!FreezeAs(j, new, new \cup overlap, [k \in Elder!Working |-> Elder!Current(k).rev])
    BY <1>1 DEF Elder!FreezeP1
  <2> DEFINE new == {s \in Elder!PendingElder : s <= latest}
             segs == new \cup {s \in Segments : from <= s /\ \A t \in new : s < t}
  <2>2. new \subseteq segs /\ segs \subseteq Segments
    BY DEF Elder!PendingElder
  <2>3. Elder!FreezeAs(j, new, segs, [k \in Elder!Working |-> Elder!Current(k).rev])
    BY <2>1
  <2> HIDE DEF new, segs
  <2> QED BY <2>2, <2>3, JobFreezes DEF Elder!Jobs
<1>2. ASSUME NEW j \in P2Jobs, Elder!FreezeP2(j) PROVE GateConclusion
  <2>1. PICK S \in (SUBSET {k \in Elder!Working : Elder!Current(k).by = Elder!Legacy}) \ {{}} :
          Elder!FreezeAs(j, {}, UNION {Elder!SourcesOf(Elder!Current(k)) : k \in S}, [k \in S |-> Elder!Current(k).rev])
    BY <1>2 DEF Elder!FreezeP2
  <2>2. \A k \in S : k \in Elder!Slots /\ ~Elder!Absent(k)
    BY DEF Elder!Working
  <2>3. UNION {Elder!SourcesOf(Elder!Current(k)) : k \in S} \subseteq Segments
    BY <2>2, SourceFacts
  <2> QED BY <2>1, <2>3, JobFreezes DEF Elder!Jobs
<1> QED BY <1>1, <1>2

(* The jobs after one of them has ended.                                   *)
LEMMA JobEnds ==
  ASSUME GateInv, NEW j \in Elder!Jobs, gateJob[j].at = "frozen", Elder!Ends(j)
  PROVE  gateJob' = [i \in Elder!Jobs |-> gateJob'[i]] /\ \A i \in Elder!Jobs : JobSound(i)'
<1>1. gateJob' = [i \in Elder!Jobs |-> gateJob'[i]]
  BY DEF Elder!Ends, GateInv
<1>2. \A i \in Elder!Jobs : /\ gateJob'[i].new = gateJob[i].new /\ gateJob'[i].segs = gateJob[i].segs /\ gateJob'[i].revs = gateJob[i].revs
                            /\ gateJob'[i].at # "none" => gateJob[i].at # "none"
  BY DEF Elder!Ends, GateInv
<1> QED BY <1>1, <1>2 DEF JobSound, GateInv

LEMMA JobFails ==
  ASSUME GateInv, NEW j \in Elder!Jobs, Elder!Fail(j)
  PROVE  GateConclusion
BY JobEnds, NothingWritten DEF Elder!Fail, GateInv

-----------------------------------------------------------------------------
(* Evidence of an operation: its own, or what the fact it corrects rests on. *)
LEMMA EvidenceIsSegments ==
  ASSUME GateInv, NEW j \in Elder!Jobs, gateJob[j].at = "frozen", NEW op \in Elder!P1Operations(j)
  PROVE  Elder!GatedEvidence(j, op) \subseteq Segments
<1>1. gateJob[j].segs \subseteq Segments /\ op.cites \subseteq gateJob[j].segs
  BY DEF GateInv, JobSound, Elder!P1Operations
<1>2. Elder!InScope(j) \subseteq Segments
  BY <1>1, SourceFacts DEF Elder!InScope
<1> QED BY <1>1, <1>2 DEF Elder!GatedEvidence

(* A revision of the maintainer: the next of its slot, and what is new in  *)
(* it rests on the elder's present words.                                  *)
RowWritten(j, r) ==
  /\ RowSound(r)
  /\ \A s \in Elder!RowsOf(r.slot) : s.rev <= r.rev
  /\ \A c \in r.claims : \/ c \in UNION {o.claims : o \in gateRows}
                         \/ /\ c.by = j
                            /\ \A s \in DOMAIN c.cites :
                                 segment[s].role = "elder" /\ (s \in gateJob[j].segs => c.cites[s] = segment[s].rev)

LEMMA RowOfP1 ==
  ASSUME GateInv, NEW j \in Elder!Jobs, gateJob[j].at = "frozen", Elder!AuthorityReadable(j),
         NEW op \in Elder!P1Operations(j), Elder!Writable(Elder!CandidateP1(j, op)), Elder!FitsSlot(op)
  PROVE  /\ RowWritten(j, Elder!NewRowP1(j, op))
         /\ Elder!NewRowP1(j, op).slot = op.slot /\ Elder!NewRowP1(j, op).layer = "working"
<1> DEFINE cited == Elder!GatedEvidence(j, op)
           new == [by |-> j, n |-> 1, cites |-> [s \in cited |-> Elder!CitesP1(j, s)]]
           prior == IF op.targeted THEN Elder!Current(op.slot) ELSE [rev |-> 0, claims |-> {}]
           row == Elder!NewRowP1(j, op)
<1>1. cited \subseteq Segments
  BY EvidenceIsSegments
<1>2. \A s \in cited : segment[s].role = "elder"
  BY WritableRests DEF Elder!CandidateP1
<1>3. \A s \in cited : s \in gateJob[j].segs => Elder!CitesP1(j, s) = segment[s].rev
  BY DEF Elder!CitesP1, Elder!AuthorityReadable, Elder!SourcesUnchanged
<1>4. op.slot \in Elder!Slots /\ (op.targeted => op.slot \in DOMAIN gateJob[j].mems)
  BY DEF Elder!P1Operations
<1>5. op.targeted => ~Elder!Absent(op.slot)
  BY <1>4 DEF Elder!AuthorityReadable, Elder!ContextCurrent, Elder!Working
<1>6. /\ prior.rev \in Nat /\ \A s \in Elder!RowsOf(op.slot) : s.rev <= prior.rev
      /\ \A c \in prior.claims : c \in UNION {o.claims : o \in gateRows} /\ DOMAIN c.cites \subseteq Segments
  <2>1. CASE op.targeted
    <3>1. prior = Elder!Current(op.slot) /\ prior \in gateRows /\ \A s \in Elder!RowsOf(op.slot) : s.rev <= prior.rev
      BY <1>4, <1>5, <2>1, HighestRow
    <3> HIDE DEF prior
    <3> QED BY <3>1 DEF GateInv, RowSound, Elder!SourcesOf
  <2>2. CASE ~op.targeted
    BY <2>2 DEF Elder!FitsSlot, Elder!Absent
  <2> QED BY <2>1, <2>2
<1>7. /\ row.slot = op.slot /\ row.rev = prior.rev + 1 /\ row.layer = "working"
      /\ row.claims \subseteq prior.claims \cup {new}
  BY DEF Elder!NewRowP1
<1>8. new.by = j /\ DOMAIN new.cites = cited /\ \A s \in cited : new.cites[s] = Elder!CitesP1(j, s)
  OBVIOUS
<1> HIDE DEF cited, new, prior, row
<1>9. RowSound(row)
  <2>1. \A c \in row.claims : DOMAIN c.cites \subseteq Segments
    BY <1>1, <1>6, <1>7, <1>8
  <2> QED BY <1>4, <1>6, <1>7, <2>1 DEF RowSound, Elder!SourcesOf
<1>10. \A s \in Elder!RowsOf(row.slot) : s.rev <= row.rev
  BY <1>6, <1>7 DEF Elder!RowsOf, GateInv, RowSound
<1>11. RowWritten(j, row)
  BY <1>2, <1>3, <1>6, <1>7, <1>8, <1>9, <1>10 DEF RowWritten
<1> QED BY <1>7, <1>11 DEF row

LEMMA CommitP1Keeps ==
  ASSUME GateInv, NEW j \in P1Jobs, Elder!CommitP1(j)
  PROVE  GateConclusion
<1> DEFINE allowed == {op \in Elder!P1Operations(j) : Elder!Writable(Elder!CandidateP1(j, op)) /\ Elder!FitsSlot(op)}
           opens == {cites \in SUBSET gateJob[j].new : Elder!Writable(Elder!CandidateBoundary(cites))}
<1>1. /\ gateJob[j].at = "frozen" /\ Elder!AuthorityReadable(j) /\ Elder!Ends(j)
      /\ UNCHANGED <<segment, evidence, gatePolicy>>
  BY DEF Elder!CommitP1
<1>2. PICK ops \in {{}} \cup {{op} : op \in allowed} \cup {{op, other} : op, other \in allowed},
           opened \in {{}} \cup {{cites} : cites \in opens} :
        /\ \A op, other \in ops : op.slot = other.slot => op = other
        /\ gateRows' = gateRows \cup {Elder!NewRowP1(j, op) : op \in ops}
        /\ boundaries' = boundaries \cup opened
  BY DEF Elder!CommitP1
<1>3. j \in Elder!Jobs
  BY DEF Elder!Jobs
<1> DEFINE N == {Elder!NewRowP1(j, op) : op \in ops}
<1>4. ops \subseteq allowed /\ opened \subseteq opens
  BY <1>2
<1>5. \A op \in ops : /\ RowWritten(j, Elder!NewRowP1(j, op))
                      /\ Elder!NewRowP1(j, op).slot = op.slot /\ Elder!NewRowP1(j, op).layer = "working"
  BY <1>1, <1>3, <1>4, RowOfP1
<1>6. \A r \in N : RowWritten(j, r) /\ r.layer = "working"
  BY <1>5
<1>7. \A r, s \in N : r.slot = s.slot => r = s
  BY <1>2, <1>5
<1>8. gateRows' = gateRows \cup N
  BY <1>2
<1> HIDE DEF N, allowed
<1>9. GateInv'
  <2>1. \A k \in Elder!Slots : HasTop(Elder!RowsOf(k)')
    <3>1. (\A r \in N : RowSound(r)) /\ \A r \in N : \A s \in Elder!RowsOf(r.slot) : s.rev <= r.rev
      BY <1>6 DEF RowWritten
    <3> QED BY <1>7, <1>8, <3>1, NextRows
  <2>2. \A r \in gateRows' : RowSound(r) /\ CitesEvidence(r, evidence)
    BY <1>6, <1>8 DEF GateInv, RowWritten, CitesEvidence
  <2>3. gateJob' = [i \in Elder!Jobs |-> gateJob'[i]] /\ \A i \in Elder!Jobs : JobSound(i)'
    BY <1>1, <1>3, JobEnds
  <2>4. \A r \in gateRows' : RowSound(r)' /\ CitesEvidence(r, evidence)'
    BY <1>1, <2>2 DEF RowSound, CitesEvidence, Elder!SourcesOf
  <2>5. /\ DOMAIN segment' = Segments /\ \A s \in Segments : segment'[s].rev \in Nat \ {0}
        /\ \A s \in Segments : evidence'[s] = Elder!Uncited \/ evidence'[s].rev \in Nat \ {0}
    BY <1>1 DEF GateInv
  <2> QED BY <2>1, <2>3, <2>4, <2>5 DEF GateInv
<1>10. Elder!WrittenOnTheElderStep
  <2>1. ASSUME NEW c \in Elder!NewClaims
        PROVE  \A s \in DOMAIN c.cites :
                 segment[s].role = "elder" /\ (s \in gateJob[c.by].segs => c.cites[s] = segment[s].rev)
    <3>1. PICK r \in N : c \in r.claims /\ c \notin UNION {o.claims : o \in gateRows}
      BY <1>8 DEF Elder!NewClaims
    <3> QED BY <1>6, <3>1 DEF RowWritten
  <2>2. ASSUME NEW b \in boundaries' \ boundaries, NEW s \in b PROVE segment[s].role = "elder"
    <3>1. Elder!Writable(Elder!CandidateBoundary(b))
      BY <1>2, <1>4
    <3>2. Elder!CandidateBoundary(b).cites = b
      BY DEF Elder!CandidateBoundary
    <3> QED BY <3>1, <3>2, WritableRests
  <2> QED BY <2>1, <2>2 DEF Elder!WrittenOnTheElderStep
<1> QED BY <1>9, <1>10 DEF GateConclusion

-----------------------------------------------------------------------------
(* A consolidation writes one row, of the revisions its evidence is of.    *)
LEMMA CommitP2Keeps ==
  ASSUME GateInv, NEW j \in P2Jobs, Elder!CommitP2(j)
  PROVE  GateConclusion
<1>1. gateJob[j].at = "frozen" /\ Elder!Ends(j) /\ UNCHANGED <<segment, boundaries, gatePolicy>>
  BY DEF Elder!CommitP2
<1>2. PICK k \in Elder!Slots, status \in Elder!Statuses, parts \in (SUBSET ((SUBSET gateJob[j].segs) \ {{}})) \ {{}} :
        /\ Elder!TargetHolds(j, k) /\ Elder!Writable(Elder!CandidateP2(j, k, status, parts))
        /\ \A s \in UNION parts : segment[s].rev = gateJob[j].revs[s] /\ Elder!EvidenceServes(j, s)
        /\ gateRows' = gateRows \cup {Elder!NewRowP2(j, k, status, parts)}
        /\ evidence' = [s \in Segments |->
             IF s \in UNION parts THEN [rev |-> gateJob[j].revs[s], order |-> Elder!Order(j, s)] ELSE evidence[s]]
  BY DEF Elder!CommitP2
<1>3. j \in Elder!Jobs
  BY DEF Elder!Jobs
<1> DEFINE row == Elder!NewRowP2(j, k, status, parts)
           used == UNION parts
<1>4. used \subseteq gateJob[j].segs /\ gateJob[j].segs \subseteq Segments
      /\ \A s \in used : gateJob[j].revs[s] \in Nat \ {0} /\ segment[s].rev = gateJob[j].revs[s]
  BY <1>1, <1>2, <1>3 DEF GateInv, JobSound
<1>5. /\ row.slot = k /\ row.rev = IF Elder!Absent(k) THEN 1 ELSE Elder!Current(k).rev + 1
      /\ \A c \in row.claims : /\ c.by = j /\ DOMAIN c.cites \subseteq used
                               /\ \A s \in DOMAIN c.cites : c.cites[s] = gateJob[j].revs[s]
  BY DEF Elder!NewRowP2
<1>6. \A s \in used : segment[s].role = "elder"
  BY <1>2, WritableRests DEF Elder!CandidateP2
<1>7. \A s \in used : evidence'[s].rev = gateJob[j].revs[s]
  BY <1>2, <1>4
<1>8. \A s \in Segments : evidence[s] # Elder!Uncited => evidence'[s].rev = evidence[s].rev
  BY <1>2 DEF Elder!EvidenceServes
<1>9. \A s \in Segments : evidence'[s] = Elder!Uncited \/ evidence'[s].rev \in Nat \ {0}
  BY <1>2, <1>4 DEF GateInv
<1>10. gateRows' = gateRows \cup {row}
  BY <1>2
<1> HIDE DEF row, used
<1>11. \A s \in Elder!RowsOf(k) : s.rev \in Nat /\ s.rev <= row.rev
  BY <1>5, HighestRow DEF GateInv, RowSound, Elder!Absent, Elder!RowsOf
<1>12. RowSound(row)
  <2>1. row.rev \in Nat \ {0}
    BY <1>5, HighestRow DEF GateInv, RowSound
  <2> QED BY <1>4, <1>5, <2>1 DEF RowSound, Elder!SourcesOf
<1>13. CitesEvidence(row, evidence')
  BY <1>4, <1>5, <1>7 DEF CitesEvidence
<1>14. ASSUME NEW r \in gateRows PROVE CitesEvidence(r, evidence')
  <2>1. ASSUME r.layer = "mid", NEW c \in r.claims, NEW s \in DOMAIN c.cites
        PROVE  c.cites[s] \in Nat \ {0} /\ evidence'[s].rev = c.cites[s]
    <3>1. c.cites[s] \in Nat \ {0} /\ evidence[s].rev = c.cites[s]
      BY <2>1 DEF GateInv, CitesEvidence
    <3>2. s \in Segments
      BY DEF GateInv, RowSound, Elder!SourcesOf
    <3>3. evidence[s] # Elder!Uncited
      BY <3>1 DEF Elder!Uncited
    <3> QED BY <1>8, <3>1, <3>2, <3>3
  <2> QED BY <2>1 DEF CitesEvidence
<1>15. GateInv'
  <2>1. \A i \in Elder!Slots : HasTop(Elder!RowsOf(i)')
    <3> DEFINE N == {row}
    <3>1. /\ \A r \in N : RowSound(r)
          /\ \A r \in N : \A s \in Elder!RowsOf(r.slot) : s.rev <= r.rev
          /\ \A r, s \in N : r.slot = s.slot => r = s
          /\ gateRows' = gateRows \cup N
      BY <1>5, <1>10, <1>11, <1>12
    <3> HIDE DEF N
    <3> QED BY <3>1, NextRows
  <2>2. \A r \in gateRows' : RowSound(r) /\ CitesEvidence(r, evidence')
    BY <1>10, <1>12, <1>13, <1>14 DEF GateInv
  <2>3. gateJob' = [i \in Elder!Jobs |-> gateJob'[i]] /\ \A i \in Elder!Jobs : JobSound(i)'
    BY <1>1, <1>3, JobEnds
  <2> QED BY <1>1, <1>9, <2>1, <2>2, <2>3 DEF GateInv, RowSound, Elder!SourcesOf
<1>16. Elder!WrittenOnTheElderStep
  <2>1. ASSUME NEW c \in Elder!NewClaims
        PROVE  \A s \in DOMAIN c.cites :
                 segment[s].role = "elder" /\ (s \in gateJob[c.by].segs => c.cites[s] = segment[s].rev)
    <3>1. c \in row.claims
      BY <1>10 DEF Elder!NewClaims
    <3> QED BY <1>4, <1>5, <1>6, <3>1
  <2>2. boundaries' \ boundaries = {}
    BY <1>1
  <2> QED BY <2>1, <2>2 DEF Elder!WrittenOnTheElderStep
<1> QED BY <1>15, <1>16 DEF GateConclusion

LEMMA GateInit == ASSUME ToldSegments, Elder!Init PROVE GateInv
<1>1. ASSUME NEW r \in gateRows PROVE RowSound(r) /\ r.rev = 1 /\ r.layer = "working"
  <2>1. PICK k \in Elder!Slots : /\ Told[k] # 0 /\ r.slot = k /\ r.rev = 1 /\ r.layer = "working"
                                 /\ r.claims = {[by |-> Elder!Legacy, n |-> 1, cites |-> [s \in {Told[k]} |-> 1]]}
    <3>1. gateRows = {[slot |-> i, rev |-> 1, layer |-> "working", by |-> Elder!Legacy, status |-> "current",
                       claims |-> {[by |-> Elder!Legacy, n |-> 1, cites |-> [s \in {Told[i]} |-> 1]]}] :
                         i \in {k \in Elder!Slots : Told[k] # 0}}
      BY DEF Elder!Init
    <3> QED BY <3>1
  <2>2. \A c \in r.claims : DOMAIN c.cites = {Told[k]}
    BY <2>1
  <2> QED BY <2>1, <2>2 DEF RowSound, Elder!SourcesOf, ToldSegments
<1>2. \A k \in Elder!Slots : HasTop(Elder!RowsOf(k))
  <2> SUFFICES ASSUME NEW k \in Elder!Slots, NEW r \in Elder!RowsOf(k) PROVE HasTop(Elder!RowsOf(k))
    BY DEF HasTop
  <2>1. \A s \in Elder!RowsOf(k) : s.rev = 1
    BY <1>1 DEF Elder!RowsOf
  <2> QED BY <2>1 DEF HasTop
<1>3. DOMAIN segment = Segments /\ \A s \in Segments : segment[s].rev \in Nat \ {0}
  BY DEF Elder!Init
<1>4. gateJob = [j \in Elder!Jobs |-> gateJob[j]] /\ \A j \in Elder!Jobs : JobSound(j)
  BY DEF Elder!Init, JobSound, Elder!NotFrozen
<1> QED BY <1>1, <1>2, <1>3, <1>4 DEF GateInv, CitesEvidence, Elder!Init

LEMMA GateStep == ASSUME GateInv, [Elder!Next]_Elder!vars PROVE GateInv' /\ [Elder!WrittenOnTheElderStep]_Elder!vars
<1>1. CASE UNCHANGED Elder!vars
  <2>1. GateConclusion
    BY <1>1, NothingWritten DEF Elder!vars, GateInv, JobSound
  <2> QED BY <2>1 DEF GateConclusion
<1>2. CASE Elder!Next
  <2>1. GateConclusion
    BY <1>2, WorldMoves, FreezeSteps, CommitP1Keeps, CommitP2Keeps, JobFails DEF Elder!Next, Elder!Jobs
  <2> QED BY <2>1 DEF GateConclusion
<1> QED BY <1>1, <1>2

(* Whatever was corrected between a job's freeze and its writes, no claim  *)
(* and no boundary is made on a segment that is the interviewer's by now,  *)
(* and what a job cites of its own is the present revision.                *)
THEOREM ElderStandsBehind ==
  ASSUME ToldSegments PROVE Elder!Spec => [][Elder!WrittenOnTheElderStep]_Elder!vars
BY GateInit, GateStep, PTL DEF Elder!Spec

(* All consolidations cite one revision of a source, the one its row of    *)
(* evidence names, however often the source was corrected between them.    *)
THEOREM SourcesHaveOneRevision ==
  ASSUME ToldSegments PROVE Elder!Spec => []Elder!OneRevisionPerSource
<1>1. GateInv => Elder!OneRevisionPerSource
  BY DEF GateInv, CitesEvidence, Elder!OneRevisionPerSource
<1> QED BY <1>1, GateInit, GateStep, PTL DEF Elder!Spec

==============================================================================
