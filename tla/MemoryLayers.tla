---------------------------- MODULE MemoryLayers ----------------------------
(***************************************************************************)
(* The layered memory of apps/api/src/memory/memory-p2-*.ts: a consolidation *)
(* job freezes a checkpoint over working memories (a "mid" job, online or at *)
(* the end of a session) or over the revision a final mid job committed (a   *)
(* "long" job), asks the provider for a plan outside every transaction,      *)
(* re-reads its authority and commits all planned slots in one serializable  *)
(* transaction.  A 30 second lease bounds an attempt; a crash loses it, and  *)
(* a reconcile pass looks for running jobs whose lease is over.              *)
(*                                                                           *)
(* The maintainer of MemoryMaintainer.tla appears here as the writer of      *)
(* working rows (P1Writes).  Manifests, claims and evidence are abstracted   *)
(* to the revision of every slot a job froze; consent to the policy revision *)
(* a job was frozen under; the deletion scope to a digest that may move.     *)
(***************************************************************************)
EXTENDS Naturals, FiniteSets

CONSTANTS Keys,        \* canonical keys of one project: its memory slots
          Migrated,    \* keys whose working row the P2 migration gave an authority
          Online,      \* mid triggers of a semantic park or a capacity checkpoint
          Final,       \* mid triggers of a session's final flush
          MaxRevision, \* bound on the working revisions of a slot
          MaxPolicy    \* bound on consent and deletion-scope changes together

Mid     == Online \cup Final
Long(f) == <<"long", f>>
Jobs    == Mid \cup {Long(f) : f \in Final}
IsLong(j) == j \notin Mid
MidOf(j)  == j[2]

ASSUME LayersAssumption ==
  /\ Migrated \subseteq Keys
  /\ Online \cap Final = {}
  /\ \A f \in Final : Long(f) \notin Mid
  /\ <<"migration">> \notin Mid /\ <<"p1">> \notin Mid /\ "none" \notin Keys
  /\ MaxRevision \in Nat \ {0} /\ MaxPolicy \in Nat

Ended == {"succeeded", "failed", "cancelled", "unavailable"}

VARIABLES
  rows,       \* memory_resolution rows: the revisions of every slot, with writer and predecessor
  policy,     \* elder_project.ai_policy_revision
  scope,      \* the deletion-scope digest the authoritative reader returns
  job,        \* ai_job.status
  stage,      \* decision_trace.stage of the job's trace
  lease,      \* recovery lease of the job: none, live or over
  checkpoint, \* memory_evolution_checkpoint.lifecycle_status of a mid job
  frozen,     \* what a job froze: slot revisions, policy and deletion scope
  plan,       \* the validated plan: slot |-> new or existing; in memory
  last,       \* projection.target_layer_revision_id: the last slot a job committed
  pc,         \* where the in-memory attempt is
  ending,     \* the terminal status the attempt is about to store
  rec         \* the trace stage a reconcile pass read before it decided, or none
vars == <<rows, policy, scope, job, stage, lease, checkpoint, frozen, plan, last, pc, ending, rec>>
durable == <<rows, policy, scope, job, stage, lease, checkpoint, frozen, last>>

None == "none"
\* The writers of a row that are not jobs of this module.
Migration == <<"migration">>
P1        == <<"p1">>
NoKeys == [k \in {} |-> 0]

RowsOf(k)   == {r \in rows : r.key = k}
\* The current row: each writer supersedes the one it read, so it has the highest revision.
Current(k)  == CHOOSE r \in RowsOf(k) : \A s \in RowsOf(k) : s.rev <= r.rev
Absent(k)   == RowsOf(k) = {}
\* Rows P1 writes carry no memory_resolution_authority; migrated and P2 rows do.
HasAuthority(r) == r.by # P1
Working == {k \in Keys : ~Absent(k) /\ Current(k).layer = "working"}

Init ==
  /\ rows = {[key |-> k, rev |-> 1, layer |-> "working", by |-> Migration, base |-> 0] : k \in Migrated}
  /\ policy = 0 /\ scope = 0
  /\ job = [j \in Jobs |-> None]
  /\ stage = [j \in Jobs |-> None]
  /\ lease = [j \in Jobs |-> None]
  /\ checkpoint = [m \in Mid |-> None]
  /\ frozen = [j \in Jobs |-> [basis |-> NoKeys, policy |-> 0, scope |-> 0]]
  /\ plan = [j \in Jobs |-> NoKeys]
  /\ last = [j \in Jobs |-> None]
  /\ pc = [j \in Jobs |-> "idle"]
  /\ ending = [j \in Jobs |-> None]
  /\ rec = [j \in Jobs |-> None]

----------------------------------------------------------------------------
(* The world around the consolidation.                                      *)

\* The maintainer evolves a working slot or opens a new one; the unique index on
\* the slot refuses a key whose current row belongs to another layer.
P1Writes(k) ==
  LET rev == IF Absent(k) THEN 0 ELSE Current(k).rev
  IN  /\ Absent(k) \/ k \in Working
      /\ rev < MaxRevision
      /\ rows' = rows \cup {[key |-> k, rev |-> rev + 1, layer |-> "working", by |-> P1, base |-> rev]}
      /\ UNCHANGED <<policy, scope, job, stage, lease, checkpoint, frozen, plan, last, pc, ending, rec>>

ConsentChanges ==
  /\ policy + scope < MaxPolicy
  /\ policy' = policy + 1
  /\ UNCHANGED <<rows, scope, job, stage, lease, checkpoint, frozen, plan, last, pc, ending, rec>>

DeletionScopeMoves ==
  /\ policy + scope < MaxPolicy
  /\ scope' = scope + 1
  /\ UNCHANGED <<rows, policy, job, stage, lease, checkpoint, frozen, plan, last, pc, ending, rec>>

\* The lease lasts 30 seconds from the freeze and is never renewed.
LeaseEnds(j) ==
  /\ lease[j] = "live"
  /\ lease' = [lease EXCEPT ![j] = "over"]
  /\ UNCHANGED <<rows, policy, scope, job, stage, checkpoint, frozen, plan, last, pc, ending, rec>>

\* The process stops: attempts, plans and pending decisions of a reconcile pass are gone.
Crash ==
  /\ \E j \in Jobs : pc[j] # "idle" \/ rec[j] # None
  /\ pc' = [j \in Jobs |-> "idle"]
  /\ plan' = [j \in Jobs |-> NoKeys]
  /\ ending' = [j \in Jobs |-> None]
  /\ rec' = [j \in Jobs |-> None]
  /\ UNCHANGED durable

----------------------------------------------------------------------------
(* Freezing: job, checkpoint (of a mid), projection, lease and running trace *)
(* in the coordinator's freeze transaction.                                  *)

\* The trace of a job: created with it, advanced by the attempt, ended with the job.  A write
\* wants the job still running and its authorities as they were read.
TraceCreated(j) == stage' = [stage EXCEPT ![j] = "frozen"]
TraceWritable(j) == job[j] = "running"
TraceAdvances(j) == stage' = [stage EXCEPT ![j] = "planned"]
TraceEnds(j) == stage' = [stage EXCEPT ![j] = "terminal"]

FrozenOn(basis) == [basis |-> basis, policy |-> policy, scope |-> scope]

FreezeBasis(j, basis) ==
  /\ job' = [job EXCEPT ![j] = "running"]
  /\ TraceCreated(j)
  /\ lease' = [lease EXCEPT ![j] = "live"]
  /\ frozen' = [frozen EXCEPT ![j] = FrozenOn(basis)]
  /\ pc' = [pc EXCEPT ![j] = "gate"]
  /\ UNCHANGED <<rows, policy, scope, plan, last, ending, rec>>

RevisionsOf(S) == [k \in S |-> Current(k).rev]

\* Every row that becomes material of a job has an authority.
Material(S) == \A k \in S : HasAuthority(Current(k))

\* A snapshot holds working rows; each must still be current and have an authority.
FreezeMid(m) ==
  /\ job[m] = None
  /\ \E S \in (SUBSET Working) \ {{}} : Material(S) /\ FreezeBasis(m, RevisionsOf(S))
  /\ checkpoint' = [checkpoint EXCEPT ![m] = "frozen"]

\* A long candidate: its final mid is committed and no long projection names the
\* checkpoint, whatever became of an earlier one.
LongWakePending(f) == job[f] = "succeeded" /\ checkpoint[f] = "committed" /\ job[Long(f)] = None

LongSources(f) == {last[f]}

\* The source of a long job is the one revision its mid's projection names; the
\* freeze refuses it when another writer superseded it since.
FreezeLong(f) ==
  /\ LongWakePending(f)
  /\ Current(last[f]).by = f
  /\ FreezeBasis(Long(f), RevisionsOf(LongSources(f)))
  /\ UNCHANGED checkpoint

----------------------------------------------------------------------------
(* The attempt, in the process that froze the job.                          *)

Goto(j, l) == pc' = [pc EXCEPT ![j] = l]
EndAs(j, status) ==
  /\ Goto(j, "ending")
  /\ ending' = [ending EXCEPT ![j] = status]

Gate(j) ==
  /\ pc[j] = "gate"
  /\ IF job[j] = "running" /\ policy = frozen[j].policy /\ scope = frozen[j].scope
     THEN Goto(j, "calling") /\ UNCHANGED ending
     ELSE EndAs(j, "cancelled")
  /\ UNCHANGED durable
  /\ UNCHANGED <<plan, rec>>

\* The provider fails, is aborted, answers after the deadline or with an invalid plan.
ProviderFails(j) ==
  /\ pc[j] = "calling"
  /\ \E status \in {"cancelled", "failed", "unavailable"} : EndAs(j, status)
  /\ UNCHANGED durable
  /\ UNCHANGED <<plan, rec>>

\* A plan evolves slots of the basis and opens new ones; a long plan as well.
Plans(j) ==
  UNION {[S -> {"existing", "new"}] : S \in (SUBSET Keys) \ {{}}}

ValidPlan(j, p) == \A k \in DOMAIN p : p[k] = "existing" => k \in DOMAIN frozen[j].basis

\* The accepted answer advances the trace, which is refused once the job has ended.
ProviderAnswers(j) ==
  /\ pc[j] = "calling"
  /\ IF TraceWritable(j) /\ stage[j] = "frozen"
     THEN /\ \E p \in Plans(j) : ValidPlan(j, p) /\ plan' = [plan EXCEPT ![j] = p]
          /\ TraceAdvances(j)
          /\ Goto(j, "planned")
          /\ UNCHANGED ending
     ELSE EndAs(j, "unavailable") /\ UNCHANGED <<plan, stage>>
  /\ UNCHANGED <<rows, policy, scope, job, lease, checkpoint, frozen, last, rec>>

\* The second reading of the authority looks at the job and its projection only:
\* neither the project's policy nor the slots are read again before the commit.
ReadAuthority(j) ==
  /\ pc[j] = "planned"
  /\ IF job[j] = "running" THEN Goto(j, "checked") /\ UNCHANGED ending ELSE EndAs(j, "cancelled")
  /\ UNCHANGED durable
  /\ UNCHANGED <<plan, rec>>

\* Mutant: the frozen revision is not compared with the current one.
AuthorityHolds_NoCompare(j, k) ==
  IF plan[j][k] = "new"
  THEN ~ \E r \in RowsOf(k) : HasAuthority(r)
  ELSE k \in DOMAIN frozen[j].basis /\ HasAuthority(Current(k))

\* The authority of a slot and the revision the plan expects of it.
AuthorityHolds(j, k) ==
  IF plan[j][k] = "new"
  THEN ~ \E r \in RowsOf(k) : HasAuthority(r)
  ELSE /\ k \in DOMAIN frozen[j].basis
       /\ HasAuthority(Current(k))
       /\ Current(k).rev = frozen[j].basis[k]

\* A long revision extends the identity a mid revision of the slot created.
IdentityHolds(j, k) == IsLong(j) => \E r \in RowsOf(k) : r.layer = "mid"

\* The job is still the running one and its lease the live one, under the policy
\* and the deletion scope it was frozen with.
MayCommit(j) ==
  /\ job[j] = "running"
  /\ lease[j] = "live"
  /\ policy = frozen[j].policy
  /\ scope = frozen[j].scope

\* A slot P1 opened without an authority is not seen by the authority lookup: the
\* new row breaks the unique index of the slot.
BreaksSlotIndex(j, k) == plan[j][k] = "new" /\ ~Absent(k)

SlotsHold(j) ==
  \A k \in DOMAIN plan[j] : AuthorityHolds(j, k) /\ IdentityHolds(j, k)

NewRow(j, k) ==
  LET base == IF plan[j][k] = "new" THEN 0 ELSE frozen[j].basis[k]
  IN  [key |-> k, rev |-> base + 1, layer |-> IF IsLong(j) THEN "long" ELSE "mid", by |-> j, base |-> base]

NewRows(j) == {NewRow(j, k) : k \in DOMAIN plan[j]}

\* The projection's target is the last slot of the plan, in the order the provider listed them.
Projects(j) == \E k \in DOMAIN plan[j] : last' = [last EXCEPT ![j] = k]

\* All planned slots in one transaction; the last of them becomes the projection's target.
CommitSlots(j) ==
  /\ rows' = rows \cup NewRows(j) /\ Projects(j)
  /\ checkpoint' = IF IsLong(j) THEN checkpoint ELSE [checkpoint EXCEPT ![j] = "committed"]
  /\ job' = [job EXCEPT ![j] = "succeeded"]
  /\ stage' = [stage EXCEPT ![j] = "committed"]
  /\ Goto(j, "idle")
  /\ plan' = [plan EXCEPT ![j] = NoKeys]
  /\ UNCHANGED ending

\* A lost comparison is a rebase: the job ends cancelled.  Any other error of the
\* transaction ends it unavailable.
Commit(j) ==
  /\ pc[j] = "checked"
  /\ \/ /\ MayCommit(j) /\ SlotsHold(j)
        /\ \A k \in DOMAIN plan[j] : ~BreaksSlotIndex(j, k)
        /\ CommitSlots(j)
     \/ /\ MayCommit(j) /\ ~SlotsHold(j)
        /\ EndAs(j, "cancelled")
        /\ UNCHANGED <<rows, job, stage, checkpoint, plan, last>>
     \/ /\ \/ ~MayCommit(j)
           \/ \E k \in DOMAIN plan[j] : BreaksSlotIndex(j, k)
        /\ EndAs(j, "unavailable")
        /\ UNCHANGED <<rows, job, stage, checkpoint, plan, last>>
  /\ UNCHANGED <<policy, scope, lease, frozen, rec>>

\* Mutant: the end is stored whatever the job's status is.
StoresEnd_Overwrites(j) == TRUE

\* The attempt stores its end while its lease lasts and nobody ended the job; else
\* it throws, and the job is left to a repair.
StoresEnd(j) == job[j] = "running" /\ lease[j] = "live"

Terminalize(j) ==
  /\ pc[j] = "ending"
  /\ IF StoresEnd(j)
     THEN job' = [job EXCEPT ![j] = ending[j]] /\ TraceEnds(j)
     ELSE UNCHANGED <<job, stage>>
  /\ Goto(j, "idle")
  /\ plan' = [plan EXCEPT ![j] = NoKeys]
  /\ ending' = [ending EXCEPT ![j] = None]
  /\ UNCHANGED <<rows, policy, scope, lease, checkpoint, frozen, last, rec>>

----------------------------------------------------------------------------
(* Recovery: a pass reads one stale job, decides, and applies the decision    *)
(* in a second transaction that compares what it read.                        *)

CheckpointOf(j) == IF IsLong(j) THEN checkpoint[MidOf(j)] ELSE checkpoint[j]

Stale(j) == job[j] = "running" /\ lease[j] = "over"

\* An authority whose checkpoint is not committed reads as unavailable retention:
\* the pass preserves the job.
Recoverable(j) == CheckpointOf(j) = "committed"

ReconcileRead(j) ==
  /\ Stale(j) /\ rec[j] = None
  /\ Recoverable(j)
  /\ rec' = [rec EXCEPT ![j] = stage[j]]
  /\ UNCHANGED durable
  /\ UNCHANGED <<plan, pc, ending>>

\* The decision still matches what it was taken on.
RecoveryMatches(j) == job[j] = "running" /\ stage[j] = rec[j]

\* The repair ends job and trace together.
Repairs(j) == job' = [job EXCEPT ![j] = "unavailable"] /\ TraceEnds(j)

ReconcileApply(j) ==
  /\ rec[j] # None
  /\ IF RecoveryMatches(j)
     THEN Repairs(j)
     ELSE UNCHANGED <<job, stage>>
  /\ rec' = [rec EXCEPT ![j] = None]
  /\ UNCHANGED <<rows, policy, scope, lease, checkpoint, frozen, plan, last, pc, ending>>

----------------------------------------------------------------------------
Attempt(j) ==
  \/ Gate(j) \/ ProviderFails(j) \/ ProviderAnswers(j)
  \/ ReadAuthority(j) \/ Commit(j) \/ Terminalize(j)

Next ==
  \/ \E k \in Keys : P1Writes(k)
  \/ ConsentChanges \/ DeletionScopeMoves \/ Crash
  \/ \E m \in Mid : FreezeMid(m)
  \/ \E f \in Final : FreezeLong(f)
  \/ \E j \in Jobs : Attempt(j) \/ LeaseEnds(j) \/ ReconcileRead(j) \/ ReconcileApply(j)

Spec == Init /\ [][Next]_vars

----------------------------------------------------------------------------
(* Properties.                                                              *)

\* What a job froze: the revision of some slots.
IsBasis(b) == DOMAIN b \subseteq Keys /\ \A k \in DOMAIN b : b[k] \in Nat
Planned == UNION {[S -> {"existing", "new"}] : S \in SUBSET Keys}
Row == [key : Keys, rev : Nat, layer : {"working", "mid", "long"},
        by : {Migration, P1} \cup Jobs, base : Nat]

\* Every variable holds values of its kind; a mid that froze has a checkpoint (freezeCheckpoint
\* of memory-p2-persistence.repository.ts writes both in one transaction).
TypeOK ==
  /\ rows \subseteq Row
  /\ policy \in 0..MaxPolicy /\ scope \in 0..MaxPolicy
  /\ job \in [Jobs -> {None, "running"} \cup Ended]
  /\ stage \in [Jobs -> {None, "frozen", "planned", "committed", "terminal"}]
  /\ lease \in [Jobs -> {None, "live", "over"}]
  /\ checkpoint \in [Mid -> {None, "frozen", "committed"}]
  /\ DOMAIN frozen = Jobs
  /\ \A j \in Jobs : IsBasis(frozen[j].basis) /\ {frozen[j].policy, frozen[j].scope} \subseteq 0..MaxPolicy
  /\ plan \in [Jobs -> Planned]
  /\ pc \in [Jobs -> {"idle", "gate", "calling", "planned", "checked", "ending"}]
  /\ ending \in [Jobs -> {None, "failed", "cancelled", "unavailable"}]
  /\ rec \in [Jobs -> {None, "frozen", "planned"}]
  /\ last \in [Jobs -> Keys \cup {None}]

\* Whatever two consolidations and the maintainer do to a slot between a freeze and
\* a commit, every revision of the slot has one predecessor and one successor: no
\* writer builds on a row another one already superseded (the compare of
\* commitLayerRevision with the frozen resolution).
OneHistoryPerSlot ==
  \A k \in Keys : \A r, s \in RowsOf(k) :
    /\ r.rev = s.rev => r = s
    /\ r.base > 0 => r.base = r.rev - 1

\* A job that ended succeeded has all of its slots, and a job that ended otherwise, or
\* was abandoned by a crash or a lost lease, has none; a mid's checkpoint says the same.
CommitIsWhole ==
  \A j \in Jobs :
    LET written == {r \in rows : r.by = j}
    IN  /\ job[j] = "succeeded" <=> written # {}
        /\ job[j] = "succeeded" => /\ stage[j] = "committed"
                                   /\ \E r \in written : r.key = last[j]
        /\ j \in Mid => (checkpoint[j] = "committed" <=> job[j] = "succeeded")

\* Long memory is made of what its final mid committed: a long revision of a slot
\* directly follows the revision of that mid, with nothing written in between.
LongOverItsMid ==
  \A r \in rows : r.layer = "long" =>
    \E s \in rows : s.key = r.key /\ s.by = MidOf(r.by) /\ s.rev = r.base

\* The end of a job is written once: neither a late attempt nor a reconcile pass that
\* decided earlier changes a job another one ended.
EndedStays ==
  [][\A j \in Jobs : job[j] \in Ended => job'[j] = job[j] /\ stage'[j] = stage[j]]_vars

=============================================================================
