----------------------------- MODULE MemoryGate -----------------------------
(***************************************************************************)
(* The gate between what a model proposes and what becomes memory:           *)
(* evaluateMemoryGate of memory-gate-correction.service.ts, with the two     *)
(* writers that ask it.  A maintainer job (P1) proposes working revisions and *)
(* boundaries, a consolidation job (P2) proposes mid revisions; each reads    *)
(* the authority of its evidence inside the transaction that writes, while    *)
(* segments are corrected and consent changes since the job was frozen.       *)
(*                                                                           *)
(* One session of one project.  The revision of a segment stands for its text *)
(* and role revisions, a claim for what it cites; threads, values and         *)
(* manifests are left out, as is what MemoryLayers.tla says about leases.     *)
(***************************************************************************)
EXTENDS Naturals, FiniteSets

CONSTANTS
  Segments,      \* final conversation segments, numbered in transcript order
  FactSlots, EpisodeSlots, \* canonical keys, by the semantic kind they are used with
  Told,          \* slot -> segment its row of before the gate cites, 0 if it has none
  ToldBoundary,  \* segments an accepted boundary of before the gate cites
  P1Jobs, P2Jobs, \* maintainer and consolidation jobs
  MaxChanges     \* bound: corrections of segments and changes of consent, together

Slots == FactSlots \cup EpisodeSlots
Jobs == P1Jobs \cup P2Jobs
KindOf(k) == IF k \in FactSlots THEN "fact" ELSE "episode"

VARIABLES
  segment,    \* segment -> [rev, role], the role trusted now
  rows,       \* memory_resolution rows with their claims
  evidence,   \* memory_evidence_authority: segment -> [rev, order], or Uncited
  boundaries, \* accepted boundaries, each the segments it cites
  consumed,   \* memory_working_consumption: the segments a maintainer commit has used as new
  policy,     \* the project's policy revision; consent is valid while it is 0
  job         \* what a job froze, and how far it is
vars == <<segment, rows, evidence, boundaries, consumed, policy, job>>

Uncited == [rev |-> 0, order |-> 0]
NotFrozen == [at |-> "none", new |-> {}, segs |-> {}, revs |-> [s \in {} |-> 0], mems |-> [k \in {} |-> 0], policy |-> 0]

\* The job that wrote a row of before the gate; it consumed what the row cites.
Legacy == 0

----------------------------------------------------------------------------
(* Rows, claims and what they make acceptable.                              *)

RowsOf(k) == {r \in rows : r.slot = k}
Absent(k) == RowsOf(k) = {}
Current(k) == CHOOSE r \in RowsOf(k) : \A s \in RowsOf(k) : s.rev <= r.rev
CurrentRows == {Current(k) : k \in {k \in Slots : ~Absent(k)}}
Working == {k \in Slots : ~Absent(k) /\ Current(k).layer = "working"}

SourcesOf(r) == UNION {DOMAIN c.cites : c \in r.claims}

\* A segment counts as an explicit statement of fact once a current fact rests on it.
FactSources == UNION {SourcesOf(r) : r \in {r \in CurrentRows : KindOf(r.slot) = "fact"}}
BoundarySources == UNION boundaries

\* classifyMemoryGateEvidenceRole; the text of a segment is never read.
EvidenceRole(s) ==
  IF segment[s].role # "elder" THEN "interviewer_suggestion"
  ELSE IF s \in FactSources THEN "explicit_fact_statement"
  ELSE IF s \in BoundarySources THEN "boundary_activation_intent"
  ELSE "elder_story_context"

\* P2 does not look at boundaries.
EvidenceRoleP2(s) ==
  IF EvidenceRole(s) = "boundary_activation_intent" THEN "elder_story_context" ELSE EvidenceRole(s)

----------------------------------------------------------------------------
(* evaluateMemoryGate.  A candidate with a refusal mutates nothing; without   *)
(* one it is accepted, or written for review when it is uncertain or disputed. *)
(* The order of the reasons is left out: only whether there is one matters.   *)

\* Mutant: evidence of the interviewer is eligible.
EligibilityRefusals_AnyRole(c) == IF c.cites = {} THEN {"EVIDENCE_MISSING"} ELSE {}

EligibilityRefusals(c) ==
  IF c.cites = {} THEN {"EVIDENCE_MISSING"}
  ELSE IF \E s \in c.cites : segment[s].role # "elder" THEN {"EVIDENCE_NOT_ELIGIBLE"} ELSE {}

Creates(c) == c.operation \in {"create", "activate"}

TransitionRefusals(c) ==
  IF Creates(c) THEN IF c.expected # 0 THEN {"ILLEGAL_TRANSITION"} ELSE {}
  ELSE IF c.expected = 0 THEN {"UNKNOWN_AUTHORITY"}
  ELSE IF c.expected # c.revision THEN {"REVISION_MISMATCH"} ELSE {}

KindRefusals(c) ==
  CASE c.kind = "fact" -> IF "explicit_fact_statement" \in c.roles THEN {}
                          ELSE {"FACT_EXPLICIT_ELDER_EVIDENCE_REQUIRED"}
    [] c.kind = "boundary" -> IF "boundary_activation_intent" \in c.roles THEN {}
                              ELSE {"BOUNDARY_EXPLICIT_INTENT_REQUIRED"}
    [] c.kind = "episode" -> {}

\* A disputed state keeps at least two claims; the validated proposal has the rest of its shape.
ShapeRefusals(c) == IF c.status = "disputed" /\ c.claims < 2 THEN {"AMBIGUOUS_CORRECTION"} ELSE {}

Refusals(c) ==
  EligibilityRefusals(c) \cup TransitionRefusals(c) \cup KindRefusals(c) \cup ShapeRefusals(c)

Writable(c) == Refusals(c) = {}

\* An uncertain revision is written like a current one, only marked for review.
Statuses == {"current", "disputed"}

OperationOf(expected, status) ==
  IF expected = 0 THEN "create" ELSE IF status = "disputed" THEN "mark_disputed" ELSE "correct"

----------------------------------------------------------------------------
(* The world around the jobs.                                                *)

Changes ==
  policy + Cardinality({c \in Segments \X (1..MaxChanges) : c[2] < segment[c[1]].rev})

\* A correction of the text keeps the role; a remap of the speaker moves it.
CorrectSegment(s) ==
  /\ Changes < MaxChanges
  /\ \E role \in {"elder", "interviewer"} :
       segment' = [segment EXCEPT ![s] = [rev |-> @.rev + 1, role |-> role]]
  /\ UNCHANGED <<rows, evidence, boundaries, consumed, policy, job>>

ChangePolicy ==
  /\ Changes < MaxChanges
  /\ policy' = policy + 1
  /\ UNCHANGED <<segment, rows, evidence, boundaries, consumed, job>>

FreezeAs(j, new, segs, mems) ==
  /\ job[j] = NotFrozen
  /\ job' = [job EXCEPT ![j] = [at |-> "frozen", new |-> new, segs |-> segs, revs |-> [s \in segs |-> segment[s].rev],
                                mems |-> mems, policy |-> policy]]
  /\ UNCHANGED <<segment, rows, evidence, boundaries, consumed, policy>>

\* The elder's segments no maintainer commit has used yet.
PendingElder == {s \in Segments \ consumed : segment[s].role = "elder"}

\* A maintainer job takes the first pending segments as new, the last few segments before them
\* as overlap, whoever speaks, and every working row as its context.
FreezeP1(j) ==
  \E latest \in PendingElder, from \in Segments :
    LET new == {s \in PendingElder : s <= latest}
        overlap == {s \in Segments : from <= s /\ \A t \in new : s < t}
    IN  /\ \E t \in new : from <= t
        /\ FreezeAs(j, new, new \cup overlap, [k \in Working |-> Current(k).rev])

\* A consolidation freezes working rows that have an authority, with the segments they cite.
FreezeP2(j) ==
  \E S \in (SUBSET {k \in Working : Current(k).by = Legacy}) \ {{}} :
    FreezeAs(j, {}, UNION {SourcesOf(Current(k)) : k \in S}, [k \in S |-> Current(k).rev])

Ends(j) == job' = [job EXCEPT ![j].at = "ended"]

----------------------------------------------------------------------------
(* P1: readGateRuntimeAuthority, the gate over every operation and boundary, *)
(* then the writes, all in one transaction.                                  *)

\* Each frozen segment still has the revision the job read.
SourcesUnchanged(j) == \A s \in job[j].segs : segment[s].rev = job[j].revs[s]

\* A row of evidence written for an older revision makes its segment stale for good.
EvidenceFresh(j) == \A s \in job[j].segs : evidence[s] # Uncited => evidence[s].rev = segment[s].rev

ContextCurrent(j) ==
  \A k \in DOMAIN job[j].mems : k \in Working /\ Current(k).rev = job[j].mems[k]

AuthorityReadable(j) == /\ policy = job[j].policy
                        /\ SourcesUnchanged(j) /\ EvidenceFresh(j) /\ ContextCurrent(j)

\* Sources of current facts are in scope besides the job's own, as long as an elder is trusted
\* for them; nothing compares their text with the one the fact was accepted on.
InScope(j) == job[j].segs \cup {s \in FactSources : segment[s].role = "elder"}

\* A correction of a fact that names no accepted source is given those of the fact it corrects.
GatedEvidence(j, op) ==
  LET own == IF op.slot \in FactSlots /\ op.targeted THEN SourcesOf(Current(op.slot)) \cap InScope(j) ELSE {}
  IN  IF op.slot \in FactSlots /\ op.cites \cap FactSources = {} /\ own # {} THEN own ELSE op.cites

\* What a maintainer may propose: a new slot, or a revision of one in its context, on new
\* segments only.  A disputed revision names claims its target already has.
P1Operations(j) ==
  {op \in [slot : Slots, targeted : BOOLEAN, status : Statuses,
           cites : (SUBSET job[j].new) \ {{}}] :
     op.targeted <=> op.slot \in DOMAIN job[j].mems}

CandidateP1(j, op) ==
  LET cites == GatedEvidence(j, op)
      expected == IF op.targeted THEN job[j].mems[op.slot] ELSE 0
  IN  [kind |-> KindOf(op.slot), operation |-> OperationOf(expected, op.status), status |-> op.status,
       cites |-> cites, roles |-> {EvidenceRole(s) : s \in cites}, expected |-> expected,
       revision |-> IF op.targeted THEN Current(op.slot).rev ELSE 0,
       claims |-> IF op.status = "disputed" /\ op.targeted THEN Cardinality(Current(op.slot).claims) ELSE 1]

\* A claim of a source of its own job cites the frozen revision; one taken over from a fact
\* cites the input the fact was accepted on.
CitesP1(j, s) ==
  IF s \in job[j].segs THEN job[j].revs[s]
  ELSE (CHOOSE c \in UNION {r.claims : r \in {r \in CurrentRows : KindOf(r.slot) = "fact"}} :
          s \in DOMAIN c.cites).cites[s]

NewRowP1(j, op) ==
  LET new == [by |-> j, n |-> 1, cites |-> [s \in GatedEvidence(j, op) |-> CitesP1(j, s)]]
      prior == IF op.targeted THEN Current(op.slot) ELSE [rev |-> 0, claims |-> {}]
  IN  [slot |-> op.slot, rev |-> prior.rev + 1, layer |-> "working", by |-> j, status |-> op.status,
       claims |-> IF op.status = "disputed" THEN prior.claims ELSE prior.claims \cup {new}]

\* The unique index refuses a new row of a slot that has a current one.
FitsSlot(op) == op.targeted \/ Absent(op.slot)

\* activate: a boundary opens on eligible evidence of explicit intent.  Its evidence is new, and
\* what an accepted boundary cites was consumed with it: the gate never lets one through.
CandidateBoundary(cites) ==
  [kind |-> "boundary", operation |-> "activate", status |-> "current", cites |-> cites,
   roles |-> {EvidenceRole(s) : s \in cites}, expected |-> 0, revision |-> 0, claims |-> 1]

\* The operations of an answer are on different slots; its boundaries come with them, and one
\* refusal refuses the answer.  The new segments are consumed, whatever was written; the unique
\* index refuses one that already was.
CommitP1(j) ==
  /\ job[j].at = "frozen" /\ AuthorityReadable(j)
  /\ job[j].new \cap consumed = {} /\ consumed' = consumed \cup job[j].new
  /\ LET allowed == {op \in P1Operations(j) : Writable(CandidateP1(j, op)) /\ FitsSlot(op)}
         opens == {cites \in SUBSET job[j].new : Writable(CandidateBoundary(cites))}
     IN  \E ops \in {{}} \cup {{op} : op \in allowed} \cup {{op, other} : op, other \in allowed},
            opened \in {{}} \cup {{cites} : cites \in opens} :
           /\ \A op, other \in ops : op.slot = other.slot => op = other
           /\ rows' = rows \cup {NewRowP1(j, op) : op \in ops}
           /\ boundaries' = boundaries \cup opened
  /\ Ends(j)
  /\ UNCHANGED <<segment, evidence, policy>>

\* A stale authority or a refused candidate fails the whole transaction; nothing is written.
Fail(j) ==
  /\ job[j].at = "frozen"
  /\ Ends(j)
  /\ UNCHANGED <<segment, rows, evidence, boundaries, consumed, policy>>

----------------------------------------------------------------------------
(* P2: assertGateForCommit and createClaims.                                *)

\* The position of a segment among those the job froze.
Order(j, s) == Cardinality({t \in job[j].segs : t <= s})

\* Mutant: a row of evidence serves whatever revision of its segment is cited.
EvidenceServes_AnyRevision(j, s) == evidence[s] # Uncited => evidence[s].order = Order(j, s)

\* The row of evidence is created by the first claim that cites a segment; a later claim has to
\* agree with it on the revision and on the position in its job's membership.
EvidenceServes(j, s) ==
  evidence[s] # Uncited => evidence[s] = [rev |-> job[j].revs[s], order |-> Order(j, s)]

CandidateP2(j, k, status, parts) ==
  LET cites == UNION parts
      expected == IF k \in DOMAIN job[j].mems THEN job[j].mems[k] ELSE 0
  IN  [kind |-> KindOf(k), operation |-> OperationOf(expected, status), status |-> status,
       cites |-> cites, roles |-> {EvidenceRoleP2(s) : s \in cites}, expected |-> expected,
       revision |-> IF expected # 0 THEN Current(k).rev ELSE 0, claims |-> Cardinality(parts)]

\* A slot not in the basis has no authority, and no current row the index would refuse.
TargetHolds(j, k) ==
  IF k \in DOMAIN job[j].mems THEN Current(k).rev = job[j].mems[k] ELSE Absent(k)

NewRowP2(j, k, status, parts) ==
  [slot |-> k, rev |-> IF Absent(k) THEN 1 ELSE Current(k).rev + 1, layer |-> "mid", by |-> j,
   status |-> status,
   claims |-> {[by |-> j, n |-> 1, cites |-> [s \in p |-> job[j].revs[s]]] : p \in parts}]

CommitP2(j) ==
  /\ job[j].at = "frozen" /\ policy = job[j].policy
  /\ \E k \in Slots, status \in Statuses,
        parts \in (SUBSET ((SUBSET job[j].segs) \ {{}})) \ {{}} :
       /\ Cardinality(parts) <= 2
       /\ TargetHolds(j, k) /\ Writable(CandidateP2(j, k, status, parts))
       /\ \A s \in UNION parts : segment[s].rev = job[j].revs[s] /\ EvidenceServes(j, s)
       /\ rows' = rows \cup {NewRowP2(j, k, status, parts)}
       /\ evidence' = [s \in Segments |->
            IF s \in UNION parts THEN [rev |-> job[j].revs[s], order |-> Order(j, s)] ELSE evidence[s]]
  /\ Ends(j)
  /\ UNCHANGED <<segment, boundaries, consumed, policy>>

----------------------------------------------------------------------------
Init ==
  /\ segment = [s \in Segments |-> [rev |-> 1, role |-> "elder"]]
  /\ rows = {[slot |-> k, rev |-> 1, layer |-> "working", by |-> Legacy, status |-> "current",
              claims |-> {[by |-> Legacy, n |-> 1, cites |-> [s \in {Told[k]} |-> 1]]}] :
                k \in {k \in Slots : Told[k] # 0}}
  /\ evidence = [s \in Segments |-> Uncited]
  /\ boundaries = IF ToldBoundary = {} THEN {} ELSE {ToldBoundary}
  /\ consumed = ({Told[k] : k \in Slots} \ {0}) \cup ToldBoundary
  /\ policy = 0
  /\ job = [j \in Jobs |-> NotFrozen]

Next ==
  \/ ChangePolicy \/ \E s \in Segments : CorrectSegment(s)
  \/ \E j \in P1Jobs : FreezeP1(j) \/ CommitP1(j) \/ Fail(j)
  \/ \E j \in P2Jobs : FreezeP2(j) \/ CommitP2(j) \/ Fail(j)

Spec == Init /\ [][Next]_vars

----------------------------------------------------------------------------
(* Properties.                                                              *)

NewClaims == (UNION {r.claims : r \in rows'}) \ UNION {r.claims : r \in rows}

\* Whatever was corrected between a job's freeze and its writes, what it writes rests on what
\* the elder is trusted to have said then: no claim and no boundary is made on a segment that is
\* the interviewer's by now, and a claim of the job's own segments cites their present revision.
WrittenOnTheElderStep ==
  /\ \A c \in NewClaims : \A s \in DOMAIN c.cites :
       segment[s].role = "elder" /\ (s \in job[c.by].segs => c.cites[s] = segment[s].rev)
  /\ \A b \in boundaries' \ boundaries : \A s \in b : segment[s].role = "elder"
\* All consolidations agree on the words behind a source: their claims cite one revision of it,
\* the one its row of evidence names.
OneRevisionPerSource ==
  \A r \in rows : r.layer = "mid" =>
    \A c \in r.claims : \A s \in DOMAIN c.cites : evidence[s].rev = c.cites[s]
=============================================================================
