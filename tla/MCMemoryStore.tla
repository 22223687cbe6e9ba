---------------------------- MODULE MCMemoryStore ----------------------------
(* MemoryLayers and MemoryGate share no state here and are checked in one run: *)
(* part says which of them a behaviour is of.  Layers: a migrated slot, one     *)
(* that is not, an online and a final mid job that may freeze the same row, and *)
(* the long job of the final one.  Gate: a maintainer job and two               *)
(* consolidations, one fact and one episode of before the gate, and an accepted *)
(* boundary.                                                                    *)
EXTENDS MemoryLayers

CONSTANTS k1, k2, o1, f1, fact, episode

VARIABLES part, segment, gateRows, evidence, boundaries, consumed, gatePolicy, gateJob
gateVars == <<segment, gateRows, evidence, boundaries, consumed, gatePolicy, gateJob>>

ToldBefore == [k \in {fact, episode} |-> IF k = fact THEN 1 ELSE 2]
Elder == INSTANCE MemoryGate WITH
  Segments <- 1 .. 3, FactSlots <- {fact}, EpisodeSlots <- {episode}, Told <- ToldBefore, ToldBoundary <- {2},
  P1Jobs <- {1}, P2Jobs <- {2, 3}, MaxChanges <- 1,
  rows <- gateRows, policy <- gatePolicy, job <- gateJob

Unused == 0
StoreInit ==
  /\ Init
  /\ \/ part = "layers" /\ segment = Unused /\ gateRows = Unused /\ evidence = Unused
                        /\ boundaries = Unused /\ consumed = Unused /\ gatePolicy = Unused /\ gateJob = Unused
     \/ part = "gate" /\ Elder!Init

\* A step A of one part.
L(A) == part = "layers" /\ A /\ UNCHANGED <<part, gateVars>>
G(A) == part = "gate" /\ A /\ UNCHANGED <<part, vars>>

StoreNext ==
  \/ \E k \in Keys : L(P1Writes(k))
  \/ L(ConsentChanges) \/ L(DeletionScopeMoves) \/ L(Crash)
  \/ \E m \in Mid : L(FreezeMid(m))
  \/ \E f \in Final : L(FreezeLong(f))
  \/ \E j \in Jobs : L(Attempt(j)) \/ L(LeaseEnds(j)) \/ L(ReconcileRead(j)) \/ L(ReconcileApply(j))
  \/ G(Elder!ChangePolicy)
  \/ \E s \in 1 .. 3 : G(Elder!CorrectSegment(s))
  \/ G(Elder!FreezeP1(1)) \/ G(Elder!CommitP1(1))
  \/ \E j \in {2, 3} : G(Elder!FreezeP2(j)) \/ G(Elder!CommitP2(j))
  \/ \E j \in 1 .. 3 : G(Elder!Fail(j))

storeVars == <<part, vars, gateVars>>
StoreSpec == StoreInit /\ [][StoreNext]_storeVars

-----------------------------------------------------------------------------
\* What a job writes rests on what the elder is trusted to have said by then.
WrittenOnTheElder == [][part = "gate" => Elder!WrittenOnTheElderStep]_storeVars
\* All consolidations cite one revision of a source, the one its row of evidence names.
OneRevisionPerSource == part = "gate" => Elder!OneRevisionPerSource
=============================================================================
