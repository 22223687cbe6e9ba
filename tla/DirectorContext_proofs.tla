------------------------- MODULE DirectorContext_proofs -------------------------
(***************************************************************************)
(* Theorems about DirectorContext for every number of sessions, sentences, *)
(* corrections, analyses and generations.  What is asked about a generation *)
(* is decided when its input is frozen: a listed question of the scope is   *)
(* eligible then, so its evidence is among what is frozen; and a drill-down *)
(* is answered only when its rows agree with that.                          *)
(***************************************************************************)
EXTENDS DirectorContext, FiniteSetTheorems, WellFoundedInduction, TLAPS

(* Evidence is part of what an analysis was made from, and that was said in *)
(* its session.                                                            *)
QuestionOK(q, s) ==
  /\ q.evidence \subseteq DOMAIN q.basis
  /\ \A g \in DOMAIN q.basis : g \in Segments /\ g[1] = s /\ g \in Spoken(s)

WorldOK ==
  /\ session \in Sessions
  /\ sentences \in [Sessions -> Nat]
  /\ DOMAIN asked = Sessions
  /\ \A s \in Sessions : QuestionOK(asked[s], s)

(* The listed questions of a scope have their evidence among the segments *)
Covered(questions, scope, segments) ==
  \A s \in DOMAIN questions : s \in scope => questions[s].evidence \subseteq DOMAIN segments

SnapshotOK(s) == s.taken => DOMAIN s.questions \subseteq Sessions /\ Covered(s.questions, s.scope, s.segments)

ResultOK(a) ==
  \A g \in DOMAIN a.result :
    /\ g[1] \in a.scope
    /\ g \in DOMAIN a.context.transcript => a.result[g] = a.context.transcript[g]

AttemptOK(a, s) ==
  /\ a.at = "freeze" =>
       /\ DOMAIN a.listed \subseteq Sessions
       /\ a.opening => s.taken /\ a.listed = s.questions /\ a.scope = s.scope
  /\ a.at = "build" => Covered(a.listed, a.scope, a.segments)
  /\ (a.at = "failed" /\ a.why = "P4_ACTUAL_QUESTION_EVIDENCE_OUTSIDE_FROZEN_INPUT")
       => \E q \in DOMAIN a.questions : q \notin a.scope
  /\ Asking(a) =>
       /\ DOMAIN a = {"at", "call", "scope", "context", "searched", "kept", "result", "traced"}
       /\ ResultOK(a)
       /\ a.call \in {1, 2}
       /\ a.traced \in {"none", a.kept}
       /\ ~a.searched => a.kept = "none"
       /\ a.at = "ask" /\ a.searched => a.call = 2
       /\ a.at = "trace" => a.searched /\ a.kept # "none" /\ a.traced = "none"
       /\ a.at = "told" => a.searched /\ (a.traced = "result" \/ a.call = 2)

Inv == WorldOK /\ SnapshotOK(snapshot) /\ AttemptOK(attempt, snapshot)

Conclusion == Inv' /\ ResultIsKeptStep

-----------------------------------------------------------------------------
(* The world                                                               *)

LEMMA SpokenFacts ==
  ASSUME NEW s \in Sessions, sentences \in [Sessions -> Nat], sentences' \in [Sessions -> Nat],
         sentences[s] <= sentences'[s]
  PROVE  Spoken(s) \subseteq Spoken(s)'
BY DEF Spoken

LEMMA IdleOK == ASSUME NEW s PROVE AttemptOK(Idle, s) /\ ~Asking(Idle)
BY DEF AttemptOK, Idle, Asking

(* A step of the interview leaves the generation and its snapshot *)
LEMMA WorldKeeps ==
  ASSUME Inv, WorldOK', UNCHANGED <<snapshot, attempt>>
  PROVE  Conclusion
BY DEF Inv, AttemptOK, Asking, Conclusion, ResultIsKeptStep

LEMMA SpeakKept == ASSUME Inv, Speak PROVE Conclusion
<1>1. session \in Sessions /\ sentences \in [Sessions -> Nat]
  BY DEF Inv, WorldOK
<1>2. sentences' \in [Sessions -> Nat] /\ \A s \in Sessions : sentences[s] <= sentences'[s]
  BY <1>1 DEF Speak
<1>3. \A s \in Sessions : QuestionOK(asked[s], s)'
  BY <1>1, <1>2, SpokenFacts DEF Speak, Inv, WorldOK, QuestionOK
<1> QED BY <1>1, <1>2, <1>3, WorldKeeps DEF Speak, Inv, WorldOK

LEMMA OtherKept ==
  ASSUME Inv, \/ Display
              \/ \E g \in Segments : Correct(g)
              \/ \E d \in 1..MaxShown : WithdrawDisplay(d)
  PROVE  Conclusion
<1>1. UNCHANGED <<session, sentences, asked, snapshot, attempt>>
  BY DEF Display, Correct, WithdrawDisplay
<1>2. WorldOK'
  BY <1>1 DEF Inv, WorldOK, QuestionOK, Spoken
<1> QED BY <1>1, <1>2, WorldKeeps

LEMMA EligibleFacts ==
  ASSUME NEW scope
  PROVE  /\ DOMAIN EligibleSegments(scope) \subseteq Segments
         /\ \A g \in DOMAIN EligibleSegments(scope) : g[1] \in scope /\ g \in Spoken(g[1]) /\ g \in trusted
         /\ \A g \in Segments : g[1] \in scope /\ g \in Spoken(g[1]) /\ g \in trusted
                                  => g \in DOMAIN EligibleSegments(scope)
BY DEF EligibleSegments

LEMMA PublishKept == ASSUME Inv, NEW s \in Sessions, PublishActualQuestion(s) PROVE Conclusion
<1> DEFINE basis == EligibleSegments({s})
<1>1. PICK evidence \in SUBSET DOMAIN basis :
        asked' = [asked EXCEPT ![s] = [rev |-> analyses + 1, evidence |-> evidence, basis |-> basis]]
  BY DEF PublishActualQuestion
<1>2. UNCHANGED <<session, sentences, snapshot, attempt>>
  BY DEF PublishActualQuestion
<1>3. \A g \in DOMAIN basis : g \in Segments /\ g[1] = s /\ g \in Spoken(s)
  BY EligibleFacts
<1> HIDE DEF basis
<1>4. asked'[s].evidence = evidence /\ asked'[s].basis = basis /\ DOMAIN asked' = Sessions
  BY <1>1 DEF Inv, WorldOK
<1>5. QuestionOK(asked[s], s)'
  BY <1>2, <1>3, <1>4 DEF QuestionOK, Spoken
<1>6. \A t \in Sessions : t # s => QuestionOK(asked[t], t)'
  BY <1>1, <1>2 DEF Inv, WorldOK, QuestionOK, Spoken
<1>7. WorldOK'
  BY <1>2, <1>4, <1>5, <1>6 DEF Inv, WorldOK
<1> QED BY <1>2, <1>7, WorldKeeps

LEMMA NextSessionKept == ASSUME Inv, NextSession PROVE Conclusion
<1>1. UNCHANGED <<sentences, asked>> /\ session' = session + 1 /\ session < LastSession
      /\ snapshot' = NoSnapshot /\ attempt' = Idle
  BY DEF NextSession
<1>2. WorldOK'
  BY <1>1, BoundAssumption DEF Inv, WorldOK, QuestionOK, Spoken, Sessions
<1>3. SnapshotOK(snapshot')
  BY <1>1 DEF SnapshotOK, NoSnapshot
<1> QED BY <1>1, <1>2, <1>3, IdleOK DEF Inv, Conclusion, ResultIsKeptStep, SnapshotOK, Covered

-----------------------------------------------------------------------------
(* What a generation freezes                                               *)

LEMMA EvidenceIsEligible ==
  ASSUME WorldOK, NEW s \in Sessions, IsEligible(asked[s]), NEW scope, s \in scope
  PROVE  asked[s].evidence \subseteq DOMAIN EligibleSegments(scope)
<1>1. QuestionOK(asked[s], s)
  BY DEF WorldOK
<1>2. \A g \in DOMAIN asked[s].basis : g \in Segments /\ g[1] = s /\ g \in Spoken(s) /\ g \in trusted
  BY <1>1 DEF QuestionOK, IsEligible
<1>3. \A g \in DOMAIN asked[s].basis : g \in DOMAIN EligibleSegments(scope)
  BY <1>2, EligibleFacts
<1> QED BY <1>1, <1>3 DEF QuestionOK

LEMMA ListFacts ==
  /\ DOMAIN ListActualAsked \subseteq Sessions
  /\ \A s \in DOMAIN ListActualAsked : IsEligible(asked[s]) /\ ListActualAsked[s] = asked[s]
BY DEF ListActualAsked

(* A step of the generation leaves the world and the snapshot *)
LEMMA AttemptKeeps ==
  ASSUME Inv, UNCHANGED <<world, snapshot>>, AttemptOK(attempt', snapshot), ResultIsKeptStep
  PROVE  Conclusion
BY DEF Inv, Conclusion, world, WorldOK, QuestionOK, Spoken

LEMMA FreezeOpeningKept == ASSUME Inv, NEW c \in BOOLEAN, FreezeOpeningContext(c) PROVE Conclusion
<1> DEFINE scope == IF c THEN {session - 1, session} ELSE {session - 1}
<1>1. UNCHANGED <<world, attempts, attempt>> /\ ~snapshot.taken
      /\ snapshot' = [taken |-> TRUE, scope |-> scope,
                      segments |-> EligibleSegments(scope), questions |-> ListActualAsked]
  BY DEF FreezeOpeningContext
<1> HIDE DEF scope
<1>2. Covered(ListActualAsked, scope, EligibleSegments(scope))
  BY ListFacts, EvidenceIsEligible DEF Covered, Inv
<1>3. SnapshotOK(snapshot')
  BY <1>1, <1>2, ListFacts DEF SnapshotOK
<1>4. WorldOK'
  BY <1>1 DEF Inv, world, WorldOK, QuestionOK, Spoken
<1>5. AttemptOK(attempt', snapshot')
  BY <1>1 DEF Inv, AttemptOK
<1>6. ResultIsKeptStep
  BY <1>1 DEF Inv, AttemptOK, Asking, ResultIsKeptStep
<1> QED BY <1>1, <1>3, <1>4, <1>5, <1>6 DEF Inv, Conclusion

LEMMA PrepareKept == ASSUME Inv, PrepareLive \/ ReadForOpening PROVE Conclusion
<1>1. UNCHANGED <<world, snapshot>> /\ attempt = Idle
  BY DEF PrepareLive, ReadForOpening
<1>2. ResultIsKeptStep
  BY <1>1, IdleOK DEF ResultIsKeptStep
<1>3. CASE PrepareLive
  <2> DEFINE a == [at |-> "freeze", opening |-> FALSE, scope |-> {session},
                   listed |-> ListActualAsked, presented |-> current]
  <2>1. attempt' = a
    BY <1>3 DEF PrepareLive
  <2>2. AttemptOK(a, snapshot)
    BY ListFacts DEF AttemptOK, Asking
  <2> QED BY <1>1, <1>2, <2>1, <2>2, AttemptKeeps
<1>4. CASE ReadForOpening
  <2> DEFINE a == [at |-> "freeze", opening |-> TRUE, scope |-> snapshot.scope,
                   listed |-> snapshot.questions, presented |-> current]
             b == [at |-> "failed", why |-> "AI_OPENING_CONTEXT_ACTUAL_QUESTION_DRIFT"]
  <2>1. (attempt' = a \/ attempt' = b) /\ snapshot.taken
    BY <1>4 DEF ReadForOpening
  <2>2. DOMAIN snapshot.questions \subseteq Sessions
    BY <2>1 DEF Inv, SnapshotOK
  <2>3. AttemptOK(a, snapshot) /\ AttemptOK(b, snapshot)
    BY <2>1, <2>2 DEF AttemptOK, Asking
  <2> QED BY <1>1, <1>2, <2>1, <2>3, AttemptKeeps
<1> QED BY <1>3, <1>4

LEMMA FreezeKept == ASSUME Inv, Freeze PROVE Conclusion
<1> DEFINE now == EligibleSegments(attempt.scope)
           segments == IF attempt.opening
                       THEN [g \in DOMAIN now \cap DOMAIN snapshot.segments |-> now[g]] ELSE now
           a == [at |-> "build", opening |-> attempt.opening, scope |-> attempt.scope,
                 listed |-> attempt.listed, presented |-> attempt.presented, segments |-> segments]
           b == [at |-> "failed", why |-> "AI_CONTEXT_SNAPSHOT_SEGMENT_DRIFT"]
           c == [at |-> "failed", why |-> "AI_ACTUAL_QUESTION_SCOPE_INELIGIBLE"]
<1>1. UNCHANGED <<world, snapshot>> /\ attempt.at = "freeze"
  BY DEF Freeze
<1>2. \/ attempt' = b \/ attempt' = c
      \/ attempt' = a /\ ~SegmentDrift(attempt.opening, segments) /\ StillAskable(attempt.listed)
  BY DEF Freeze
<1>3. ResultIsKeptStep
  BY <1>1 DEF ResultIsKeptStep, Asking
<1>4. AttemptOK(b, snapshot) /\ AttemptOK(c, snapshot)
  BY DEF AttemptOK, Asking
<1>5. ASSUME ~SegmentDrift(attempt.opening, segments), StillAskable(attempt.listed)
      PROVE  Covered(attempt.listed, attempt.scope, segments)
  <2>1. CASE ~attempt.opening
    <3>1. DOMAIN attempt.listed \subseteq Sessions
      BY <1>1 DEF Inv, AttemptOK
    <3>2. \A s \in DOMAIN attempt.listed : asked[s] = attempt.listed[s] /\ IsEligible(asked[s])
      BY <1>5 DEF StillAskable
    <3>3. Covered(attempt.listed, attempt.scope, now)
      BY <3>1, <3>2, EvidenceIsEligible DEF Covered, Inv
    <3> QED BY <2>1, <3>3
  <2>2. CASE attempt.opening
    <3>1. segments = snapshot.segments
      BY <1>5, <2>2 DEF SegmentDrift
    <3>2. snapshot.taken /\ attempt.listed = snapshot.questions /\ attempt.scope = snapshot.scope
      BY <1>1, <2>2 DEF Inv, AttemptOK
    <3>3. Covered(snapshot.questions, snapshot.scope, snapshot.segments)
      BY <3>2 DEF Inv, SnapshotOK
    <3> HIDE DEF segments
    <3> QED BY <3>1, <3>2, <3>3
  <2> QED BY <2>1, <2>2
<1> HIDE DEF segments
<1>6. Covered(attempt.listed, attempt.scope, segments) => AttemptOK(a, snapshot)
  BY DEF AttemptOK, Asking
<1> QED BY <1>1, <1>2, <1>3, <1>4, <1>5, <1>6, AttemptKeeps

LEMMA BuildKept == ASSUME Inv, BuildContext PROVE Conclusion
<1> DEFINE a == [at |-> "failed", why |-> "P4_ACTUAL_QUESTION_EVIDENCE_OUTSIDE_FROZEN_INPUT",
                 scope |-> attempt.scope, questions |-> attempt.listed]
           b == [at |-> "failed", why |-> "P4_CURRENT_PRESENTATION_UNAVAILABLE"]
           shows == [transcript |-> RecentTranscript(attempt.segments),
                     questions |-> attempt.listed, displayed |-> ActiveShown, presented |-> attempt.presented]
           c == [at |-> "ask", call |-> 1, scope |-> attempt.scope, context |-> shows,
                 searched |-> FALSE, kept |-> "none", result |-> <<>>, traced |-> "none"]
<1>1. UNCHANGED <<world, snapshot>> /\ attempt.at = "build"
  BY DEF BuildContext
<1>2. \/ attempt' = a /\ ~EvidenceInsideFrozenInput(attempt.listed, attempt.segments)
      \/ attempt' = b \/ attempt' = c
  BY DEF BuildContext
<1>3. ResultIsKeptStep
  BY <1>1 DEF ResultIsKeptStep, Asking
<1>4. ~EvidenceInsideFrozenInput(attempt.listed, attempt.segments) => \E s \in DOMAIN attempt.listed : s \notin attempt.scope
  BY <1>1 DEF Inv, AttemptOK, Covered, EvidenceInsideFrozenInput
<1>5. (\E s \in DOMAIN attempt.listed : s \notin attempt.scope) => AttemptOK(a, snapshot)
  BY DEF AttemptOK, Asking
<1>6. AttemptOK(b, snapshot)
  BY DEF AttemptOK, Asking
<1> HIDE DEF shows
<1>7. AttemptOK(c, snapshot)
  BY DEF AttemptOK, Asking, ResultOK
<1> QED BY <1>1, <1>2, <1>3, <1>4, <1>5, <1>6, <1>7, AttemptKeeps

-----------------------------------------------------------------------------
(* The director                                                            *)

(* A step that says only where the call is keeps what was found *)
LEMMA CallKeeps ==
  ASSUME Inv, Asking(attempt), NEW l \in {"ask", "told", "erred", "answered", "gave_up"},
         NEW c \in {attempt.call, 2}, UNCHANGED <<world, snapshot>>,
         DOMAIN attempt' = DOMAIN attempt, attempt'.at = l, attempt'.call = c,
         \A x \in {"scope", "context", "searched", "kept", "result", "traced"} : attempt'[x] = attempt[x],
         l = "ask" /\ attempt.searched => c = 2,
         l = "told" => attempt.searched /\ (attempt.traced = "result" \/ c = 2)
  PROVE  Conclusion
<1>1. /\ attempt'.scope = attempt.scope /\ attempt'.context = attempt.context
      /\ attempt'.searched = attempt.searched /\ attempt'.result = attempt.result
      /\ attempt'.traced = attempt.traced /\ attempt'.kept = attempt.kept
  OBVIOUS
<1>2. AttemptOK(attempt', snapshot)
  BY <1>1 DEF Inv, AttemptOK, Asking, ResultOK
<1>3. ResultIsKeptStep
  BY <1>1 DEF Inv, AttemptOK, ResultIsKeptStep
<1> QED BY <1>2, <1>3, AttemptKeeps

LEMMA FieldFacts ==
  ASSUME Inv, Asking(attempt)
  PROVE  /\ DOMAIN attempt = {"at", "call", "scope", "context", "searched", "kept", "result", "traced"}
         /\ attempt.call \in {1, 2} /\ attempt.traced \in {"none", attempt.kept}
         /\ ~attempt.searched => attempt.kept = "none"
         /\ attempt.at = "ask" /\ attempt.searched => attempt.call = 2
         /\ attempt.at = "trace" => attempt.searched /\ attempt.kept # "none" /\ attempt.traced = "none"
         /\ attempt.at = "told" => attempt.searched /\ (attempt.traced = "result" \/ attempt.call = 2)
BY DEF Inv, AttemptOK

LEMMA CallKept ==
  ASSUME Inv, \/ Answer \/ CallFails \/ EvidenceFails
  PROVE  Conclusion
<1>1. Asking(attempt) /\ UNCHANGED <<world, snapshot>>
  BY DEF Answer, CallFails, EvidenceFails, Asking
<1>2. CASE \E l \in {"answered", "gave_up"} : attempt' = [attempt EXCEPT !.at = l]
  <2>1. PICK l \in {"answered", "gave_up"} : attempt' = [attempt EXCEPT !.at = l]
    BY <1>2
  <2> QED BY <1>1, <2>1, FieldFacts, CallKeeps
<1>3. CASE attempt' = [attempt EXCEPT !.at = "ask", !.call = 2]
  BY <1>1, <1>3, FieldFacts, CallKeeps
<1> QED BY <1>2, <1>3 DEF Answer, CallFails, EvidenceFails

(* A search gives rows of the scope that agree with the context, or an error *)
LEMMA SearchedKept ==
  ASSUME Inv, attempt.at = "ask", ~attempt.searched, UNCHANGED <<world, snapshot>>,
         attempt' = Searched(UNION {Spoken(s) : s \in attempt.scope})
  PROVE  Conclusion
<1> DEFINE rows == UNION {Spoken(s) : s \in attempt.scope}
           found == [g \in rows |-> revision[g]]
<1>1. \A g \in rows : g[1] \in attempt.scope
  BY DEF Spoken
<1> HIDE DEF rows
<1>2. Asking(attempt)
  BY DEF Asking
<1>3. CASE ScopeKnown /\ SourcesUnchanged(rows)
  <2>1. attempt' = [attempt EXCEPT !.at = "trace", !.searched = TRUE, !.kept = "result", !.result = found]
    BY <1>3 DEF Searched, rows
  <2>2. \A g \in rows : g \in DOMAIN attempt.context.transcript => revision[g] = attempt.context.transcript[g]
    BY <1>3 DEF SourcesUnchanged
  <2>3. DOMAIN found = rows /\ \A g \in rows : found[g] = revision[g]
    OBVIOUS
  <2> HIDE DEF found
  <2>4. /\ DOMAIN attempt' = DOMAIN attempt /\ attempt'.at = "trace" /\ attempt'.scope = attempt.scope
        /\ attempt'.context = attempt.context /\ attempt'.result = found /\ attempt'.kept = "result"
        /\ attempt'.searched /\ attempt'.call = attempt.call /\ attempt'.traced = attempt.traced
    BY <1>2, <2>1, FieldFacts
  <2>5. ResultOK(attempt')
    BY <1>1, <2>2, <2>3, <2>4 DEF ResultOK
  <2>6. AttemptOK(attempt', snapshot) /\ ResultIsKeptStep
    BY <1>2, <2>4, <2>5, FieldFacts DEF AttemptOK, Asking, ResultIsKeptStep
  <2> QED BY <2>6, AttemptKeeps
<1>4. CASE ~(ScopeKnown /\ SourcesUnchanged(rows))
  <2>1. attempt' = [attempt EXCEPT !.at = "trace", !.searched = TRUE, !.kept = "error"]
    BY <1>4 DEF Searched, rows
  <2>2. /\ DOMAIN attempt' = DOMAIN attempt /\ attempt'.at = "trace" /\ attempt'.scope = attempt.scope
        /\ attempt'.context = attempt.context /\ attempt'.result = attempt.result /\ attempt'.kept = "error"
        /\ attempt'.searched /\ attempt'.call = attempt.call /\ attempt'.traced = attempt.traced
    BY <1>2, <2>1, FieldFacts
  <2>3. ResultOK(attempt')
    BY <1>2, <2>2 DEF Inv, AttemptOK, ResultOK
  <2>4. AttemptOK(attempt', snapshot) /\ ResultIsKeptStep
    BY <1>2, <2>2, <2>3, FieldFacts DEF AttemptOK, Asking, ResultIsKeptStep
  <2> QED BY <2>4, AttemptKeeps
<1> QED BY <1>3, <1>4

(* A search that throws uses the round up and leaves nothing *)
LEMMA ThrewKept ==
  ASSUME Inv, attempt.at = "ask", ~attempt.searched, UNCHANGED <<world, snapshot>>,
         attempt' = SearchThrew
  PROVE  Conclusion
<1>1. Asking(attempt)
  BY DEF Asking
<1>2. /\ DOMAIN attempt' = DOMAIN attempt /\ attempt'.at = "erred" /\ attempt'.scope = attempt.scope
      /\ attempt'.context = attempt.context /\ attempt'.result = attempt.result
      /\ attempt'.kept = attempt.kept /\ attempt'.searched
      /\ attempt'.call = attempt.call /\ attempt'.traced = attempt.traced
  BY <1>1, FieldFacts DEF SearchThrew
<1>3. AttemptOK(attempt', snapshot) /\ ResultIsKeptStep
  BY <1>1, <1>2, FieldFacts DEF Inv, AttemptOK, Asking, ResultOK, ResultIsKeptStep
<1> QED BY <1>3, AttemptKeeps

LEMMA RequestKept == ASSUME Inv, RequestEvidence PROVE Conclusion
<1>1. attempt.at = "ask" /\ Asking(attempt) /\ UNCHANGED <<world, snapshot>>
  BY DEF RequestEvidence, Asking
<1>2. CASE attempt' = [attempt EXCEPT !.at = "erred"]
  BY <1>1, <1>2, FieldFacts, CallKeeps
<1>3. CASE attempt.searched /\ attempt' = [attempt EXCEPT !.at = "told"]
  BY <1>1, <1>3, FieldFacts, CallKeeps
<1>4. CASE ~attempt.searched /\ attempt' = Searched(UNION {Spoken(s) : s \in attempt.scope})
  BY <1>1, <1>4, SearchedKept
<1>5. CASE ~attempt.searched /\ attempt' = SearchThrew
  BY <1>1, <1>5, ThrewKept
<1> QED BY <1>2, <1>3, <1>4, <1>5 DEF RequestEvidence

(* The trace is told of what is kept, or stays without it *)
LEMMA TraceKept == ASSUME Inv, TraceEvidence PROVE Conclusion
<1>1. attempt.at = "trace" /\ Asking(attempt) /\ UNCHANGED <<world, snapshot>>
  BY DEF TraceEvidence, Asking
<1>2. CASE attempt' = [attempt EXCEPT !.at = "erred"]
  BY <1>1, <1>2, FieldFacts, CallKeeps
<1>3. CASE attempt' = [attempt EXCEPT !.at = IF attempt.kept = "result" THEN "told" ELSE "erred",
                                      !.traced = attempt.kept]
  <2>1. /\ DOMAIN attempt' = DOMAIN attempt /\ attempt'.at \in {"told", "erred"}
        /\ attempt'.scope = attempt.scope /\ attempt'.context = attempt.context
        /\ attempt'.result = attempt.result /\ attempt'.kept = attempt.kept
        /\ attempt'.searched = attempt.searched /\ attempt'.call = attempt.call
        /\ attempt'.traced = attempt.kept /\ (attempt'.at = "told" => attempt.kept = "result")
    BY <1>1, <1>3, FieldFacts
  <2>2. AttemptOK(attempt', snapshot) /\ ResultIsKeptStep
    BY <1>1, <2>1, FieldFacts DEF Inv, AttemptOK, Asking, ResultOK, ResultIsKeptStep
  <2> QED BY <1>1, <2>2, AttemptKeeps
<1> QED BY <1>2, <1>3 DEF TraceEvidence

LEMMA FinishKept == ASSUME Inv, Finish PROVE Conclusion
<1>1. attempt' = Idle /\ UNCHANGED <<world, snapshot>>
  BY DEF Finish
<1> QED BY <1>1, IdleOK, AttemptKeeps DEF ResultIsKeptStep

-----------------------------------------------------------------------------
(* The theorems                                                            *)

LEMMA InitInv == Init => Inv
<1> SUFFICES ASSUME Init PROVE Inv
  OBVIOUS
<1>1. WorldOK
  <2>1. DOMAIN NoQuestion.basis = {} /\ NoQuestion.evidence = {}
    BY DEF NoQuestion
  <2>2. session \in Sessions /\ sentences \in [Sessions -> Nat] /\ DOMAIN asked = Sessions
    BY BoundAssumption DEF Init, Sessions
  <2>3. \A s \in Sessions : asked[s] = NoQuestion
    BY DEF Init
  <2> QED BY <2>1, <2>2, <2>3 DEF WorldOK, QuestionOK
<1>2. SnapshotOK(snapshot)
  BY DEF Init, SnapshotOK, NoSnapshot
<1> QED BY <1>1, <1>2, IdleOK DEF Init, Inv

LEMMA NextKeeps == ASSUME Inv, [Next]_vars PROVE Conclusion
<1>1. CASE UNCHANGED vars
  <2>1. UNCHANGED <<world, snapshot, attempt>>
    BY <1>1 DEF vars
  <2>2. WorldOK'
    BY <2>1 DEF Inv, world, WorldOK, QuestionOK, Spoken
  <2> QED BY <2>1, <2>2, WorldKeeps
<1>2. ASSUME NEW s \in Sessions, PublishActualQuestion(s) PROVE Conclusion
  BY <1>2, PublishKept
<1>3. ASSUME NEW c \in BOOLEAN, FreezeOpeningContext(c) PROVE Conclusion
  BY <1>3, FreezeOpeningKept
<1> QED BY <1>1, <1>2, <1>3, SpeakKept, NextSessionKept, OtherKept, PrepareKept, FreezeKept, BuildKept,
           CallKept, RequestKept, TraceKept, FinishKept DEF Next

(* The invariant: what a generation and its snapshot froze holds the       *)
(* evidence of every question of their scope, and what a drill-down found  *)
(* agrees with the context (question-orchestration, interview-context).    *)
THEOREM Invariance == Spec => []Inv
<1>1. Inv /\ [Next]_vars => Inv'
  BY NextKeeps DEF Conclusion
<1> QED BY <1>1, InitInv, PTL DEF Spec

(* A context is refused for want of evidence only because of a question of *)
(* another scope: corrections and republished analyses between the listing, *)
(* the freeze and the build never take away the evidence of one in scope.  *)
THEOREM InScopeEvidence == Spec => []InScopeEvidenceIsFrozen
<1>1. Inv => InScopeEvidenceIsFrozen
  BY DEF Inv, AttemptOK, InScopeEvidenceIsFrozen, OutsideFrozenInput
<1> QED BY <1>1, Invariance, PTL

(* The director is never given two versions of one sentence, nor a sentence *)
(* outside the scope of its generation.                                    *)
THEOREM OneVersion == Spec => []DrilldownAgrees
<1>1. Inv => DrilldownAgrees
  BY DEF Inv, AttemptOK, Asking, ResultOK, DrilldownAgrees
<1> QED BY <1>1, Invariance, PTL

(* The outcome of the one search of a generation stays its outcome through *)
(* failed trace writes, retries and refused second rounds; a trace that was *)
(* told of it tells that outcome for good, and only a retry is given a      *)
(* result that no trace tells.                                             *)
THEOREM ResultStays == Spec => ResultIsKept
<1>1. Inv /\ [Next]_vars => [ResultIsKeptStep]_vars
  BY NextKeeps DEF Conclusion
<1> QED BY <1>1, Invariance, PTL DEF Spec, ResultIsKept

----------------------------------------------------------------------------
(***************************************************************************)
(* Theorems about SpeakerRoles for every number of segments, streams,      *)
(* calibrations, corrections and remaps: the roles the director reads.     *)
(* The frames of the audio order the segments, so that what was heard last *)
(* and what comes first are defined; a revision is stamped once on a       *)
(* segment, and so it stands for the role it came with.                    *)
(***************************************************************************)
CONSTANTS Labels, Speakers, Drawn, MaxAudio, MaxVoices, MaxCalibrations, MaxRoleRevision, Remaps
VARIABLES audio, voices, calibrations, mappings, segs, roleRevision, remaps, reader

Role == INSTANCE SpeakerRoles WITH
  Roles <- Speakers, Ids <- Drawn, MaxStreams <- MaxVoices, MaxAttempts <- MaxCalibrations,
  MaxRevision <- MaxRoleRevision, Previews <- Remaps,
  streams <- voices, attempts <- calibrations, revision <- roleRevision, previews <- remaps

(* No segment id is drawn twice, and the bounds are numbers.               *)
DistinctIds ==
  /\ Drawn \in Seq(Nat \ {0})
  /\ \A k, n \in 1 .. Len(Drawn) : Drawn[k] = Drawn[n] => k = n
  /\ MaxAudio \in Nat /\ MaxVoices \in Nat \ {0} /\ MaxCalibrations \in Nat /\ MaxRoleRevision \in Nat

SomeRole == Speakers \cup {Role!NoRole}
SegmentRecords ==
  [stream : 1 .. MaxVoices, label : Labels, from : Int, to : Int, of : Int, original : SomeRole,
   corrected : SomeRole \cup {"none"}, revision : Nat, single : Int]
CalibrationRecords ==
  [stream : 1 .. MaxVoices, start : Int, end : Int, st : {"collecting", "ended", "confirmed"}]

RolesTypeOK ==
  /\ audio \in 0 .. MaxAudio
  /\ voices \in Seq(Nat) /\ Len(voices) \in 1 .. MaxVoices
  /\ calibrations \in Seq(CalibrationRecords) /\ Len(calibrations) <= MaxCalibrations
  /\ mappings \in [1 .. MaxVoices -> [Labels -> SomeRole]]
  /\ segs \in [Role!Segments -> {Role!NoSegment} \cup SegmentRecords]
  /\ roleRevision \in 0 .. MaxRoleRevision
  /\ remaps = [p \in Remaps |-> remaps[p]]
  /\ \A p \in Remaps : /\ remaps[p].st \in {"none", "active", "executed"}
                       /\ remaps[p].st = "active" => remaps[p].role \in Speakers

(* Nothing is ahead of the audio, and no segment ahead of the session's    *)
(* revision.                                                               *)
NothingAhead ==
  /\ \A s \in 1 .. Len(voices) : voices[s] <= audio
  /\ \A i \in Role!Stored : segs[i].from \in 0 .. audio /\ segs[i].revision <= roleRevision

(* The ids are used in the order they are drawn.                           *)
UsedInOrder ==
  /\ IsFiniteSet(Role!Stored)
  /\ Role!Stored = {Drawn[k] : k \in 1 .. Cardinality(Role!Stored)}
  /\ Cardinality(Role!Stored) <= Len(Drawn)

(* What was shown is a segment, as it was at a revision it has had.        *)
ReaderOK ==
  LET item == reader.item IN
  item.id # 0 =>
    /\ item.id \in Role!Stored
    /\ item.revision \in Nat /\ item.revision <= segs[item.id].revision
    /\ segs[item.id].revision = item.revision => Role!Effective(segs[item.id]) = item.role

RolesInv == RolesTypeOK /\ NothingAhead /\ UsedInOrder /\ ReaderOK
RolesConclusion == RolesInv' /\ Role!SingleStandsStep

LEMMA LeastOf ==
  ASSUME NEW S \in SUBSET Nat, S # {}
  PROVE  \E m \in S : \A n \in S : m <= n
<1> DEFINE R == OpToRel(<, Nat)
<1>1. IsWellFoundedOn(R, Nat)
  BY NatLessThanWellFounded
<1>2. \A a, b \in Nat : <<a, b>> \in R <=> a < b
  BY DEF OpToRel
<1> HIDE DEF R
<1>3. PICK m \in S : \A k \in S : ~(<<k, m>> \in R)
  BY <1>1, WFMin, Zenon
<1>4. \A k \in S : m <= k
  <2> TAKE k \in S
  <2>1. m \in Nat /\ k \in Nat /\ ~(k < m)
    BY <1>2, <1>3
  <2> QED BY <2>1
<1> QED BY <1>4

LEMMA SameCardinality ==
  ASSUME NEW S PROVE Role!Cardinality(S) = Cardinality(S)
BY DEF Role!Cardinality, Cardinality

LEMMA GreatestOf ==
  ASSUME NEW n \in Nat, NEW S \in SUBSET (0 .. n), S # {}
  PROVE  Role!Max(S) \in S
<1> DEFINE T == {n - k : k \in S}
<1>1. T \in SUBSET Nat /\ T # {}
  <2>1. \A k \in S : k \in Int /\ k <= n
    OBVIOUS
  <2>2. PICK k \in S : TRUE
    OBVIOUS
  <2>3. n - k \in T
    BY <2>2
  <2>4. T \subseteq Nat
    BY <2>1
  <2> QED BY <2>3, <2>4
<1>2. PICK m \in T : \A k \in T : m <= k
  BY <1>1, LeastOf
<1>3. PICK x \in S : m = n - x
  OBVIOUS
<1>4. \A y \in S : x >= y
  <2> TAKE y \in S
  <2>1. n - y \in T
    OBVIOUS
  <2>2. m <= n - y
    BY <1>2, <2>1
  <2> QED BY <2>2, <1>3
<1> QED BY <1>4 DEF Role!Max

(* A segment is one by its stream, and keeps it.                           *)
LEMMA StoredFacts ==
  ASSUME DistinctIds, RolesInv
  PROVE  /\ Role!Stored \subseteq Role!Segments /\ Role!Segments \subseteq Nat \ {0}
         /\ \A i \in Role!Segments : i \in Role!Stored <=> segs[i] \in SegmentRecords
<1>1. Role!NoSegment.stream = 0 /\ \A g \in SegmentRecords : g.stream # 0
  BY DEF Role!NoSegment, SegmentRecords
<1>2. Role!Segments \subseteq Nat \ {0}
  BY DEF Role!Segments, Role!Range, DistinctIds
<1> QED BY <1>1, <1>2 DEF Role!Stored, RolesInv, RolesTypeOK

(* A step that leaves the segments and the page on the screen alone.       *)
LEMMA RolesKeep ==
  ASSUME DistinctIds, RolesInv, RolesTypeOK', UNCHANGED <<segs, reader>>, audio' >= audio, roleRevision' >= roleRevision,
         \A s \in 1 .. Len(voices') : voices'[s] <= audio'
  PROVE  RolesConclusion
<1>1. Role!Stored' = Role!Stored
  BY DEF Role!Stored
<1>2. NothingAhead'
  <2>1. \A i \in Role!Stored : segs[i].from \in 0 .. audio /\ segs[i].revision <= roleRevision /\ segs[i].revision \in Nat
    BY StoredFacts DEF RolesInv, NothingAhead, SegmentRecords
  <2>2. audio \in Nat /\ audio' \in Nat /\ roleRevision \in Nat /\ roleRevision' \in Nat
    BY DEF RolesInv, RolesTypeOK, DistinctIds
  <2> QED BY <1>1, <2>1, <2>2 DEF NothingAhead
<1>3. UsedInOrder' /\ ReaderOK'
  BY <1>1 DEF RolesInv, UsedInOrder, ReaderOK, Role!Effective
<1>4. Role!SingleStandsStep
  BY DEF Role!SingleStandsStep
<1> QED BY <1>2, <1>3, <1>4 DEF RolesConclusion, RolesInv

LEMMA FrameStep ==
  ASSUME DistinctIds, RolesInv, Role!Frame \/ Role!Rotate
  PROVE  RolesConclusion
<1>1. CASE Role!Frame
  <2>1. RolesTypeOK'
    BY <1>1 DEF Role!Frame, RolesInv, RolesTypeOK, DistinctIds
  <2> QED BY <1>1, <2>1, RolesKeep DEF Role!Frame, RolesInv, RolesTypeOK, NothingAhead
<1>2. CASE Role!Rotate
  <2>1. /\ voices' = Append(voices, audio) /\ audio \in Nat /\ voices \in Seq(Nat)
        /\ Len(voices) \in 1 .. MaxVoices /\ Len(voices) < MaxVoices
    BY <1>2 DEF Role!Rotate, Role!Active, RolesInv, RolesTypeOK
  <2>2. /\ voices' \in Seq(Nat) /\ Len(voices') = Len(voices) + 1
        /\ \A s \in 1 .. Len(voices') : voices'[s] = IF s = Len(voices) + 1 THEN audio ELSE voices[s]
    BY <2>1
  <2>3. Len(voices') \in 1 .. MaxVoices
    BY <2>1, <2>2 DEF DistinctIds
  <2>4. RolesTypeOK'
    BY <1>2, <2>2, <2>3 DEF Role!Rotate, RolesInv, RolesTypeOK
  <2>5. \A s \in 1 .. Len(voices') : voices'[s] <= audio'
    BY <1>2, <2>1, <2>2 DEF Role!Rotate, RolesInv, NothingAhead
  <2> QED BY <1>2, <2>4, <2>5, RolesKeep DEF Role!Rotate, RolesInv, RolesTypeOK
<1> QED BY <1>1, <1>2

LEMMA CalibrationStep ==
  ASSUME DistinctIds, RolesInv,
         Role!BeginCalibration \/ \E k \in DOMAIN calibrations : Role!EndCalibration(k)
  PROVE  RolesConclusion
<1>1. /\ calibrations \in Seq(CalibrationRecords) /\ Len(calibrations) <= MaxCalibrations /\ audio \in Int
      /\ Len(voices) \in 1 .. MaxVoices
  BY DEF RolesInv, RolesTypeOK
<1>2. CASE Role!BeginCalibration
  <2>1. [stream |-> Len(voices), start |-> audio, end |-> -1, st |-> "collecting"] \in CalibrationRecords
    BY <1>1 DEF CalibrationRecords
  <2>2. calibrations' \in Seq(CalibrationRecords) /\ Len(calibrations') <= MaxCalibrations
    BY <1>1, <1>2, <2>1 DEF Role!BeginCalibration, Role!Active, Role!Boundary, Role!Open, DistinctIds
  <2>3. RolesTypeOK'
    BY <1>2, <2>2 DEF Role!BeginCalibration, RolesInv, RolesTypeOK
  <2> QED BY <1>2, <2>3, RolesKeep DEF Role!BeginCalibration, RolesInv, RolesTypeOK, NothingAhead
<1>3. ASSUME NEW k \in DOMAIN calibrations, Role!EndCalibration(k) PROVE RolesConclusion
  <2>1. calibrations' = [calibrations EXCEPT ![k] = [calibrations[k] EXCEPT !.st = "ended", !.end = audio]]
    BY <1>3 DEF Role!EndCalibration, Role!Resolved
  <2>2. [calibrations[k] EXCEPT !.st = "ended", !.end = audio] \in CalibrationRecords
    <3>1. calibrations[k] \in CalibrationRecords
      BY <1>1
    <3> QED BY <1>1, <3>1 DEF CalibrationRecords
  <2>3. calibrations' \in Seq(CalibrationRecords) /\ Len(calibrations') = Len(calibrations)
    BY <1>1, <1>3, <2>1, <2>2
  <2>4. RolesTypeOK'
    BY <1>1, <1>3, <2>3 DEF Role!EndCalibration, RolesInv, RolesTypeOK
  <2> QED BY <1>3, <2>4, RolesKeep DEF Role!EndCalibration, RolesInv, RolesTypeOK, NothingAhead
<1> QED BY <1>2, <1>3

(* A confirmation gives each label it names one of the two roles.          *)
LEMMA ConfirmStep ==
  ASSUME DistinctIds, RolesInv, NEW k \in DOMAIN calibrations, Role!ConfirmCalibration(k)
  PROVE  RolesConclusion
<1>1. /\ calibrations \in Seq(CalibrationRecords) /\ Len(calibrations) <= MaxCalibrations /\ audio \in Int
      /\ Len(voices) \in 1 .. MaxVoices /\ mappings \in [1 .. MaxVoices -> [Labels -> SomeRole]]
      /\ roleRevision \in 0 .. MaxRoleRevision
  BY DEF RolesInv, RolesTypeOK
<1>2. calibrations' = [calibrations EXCEPT ![k] = [calibrations[k] EXCEPT !.st = "confirmed", !.end = audio]]
  BY DEF Role!ConfirmCalibration, Role!Resolved
<1>3. [calibrations[k] EXCEPT !.st = "confirmed", !.end = audio] \in CalibrationRecords
  <2>1. calibrations[k] \in CalibrationRecords
    BY <1>1
  <2> QED BY <1>1, <2>1 DEF CalibrationRecords
<1>4. calibrations' \in Seq(CalibrationRecords) /\ Len(calibrations') = Len(calibrations)
  BY <1>1, <1>2, <1>3
<1>5. mappings' \in [1 .. MaxVoices -> [Labels -> SomeRole]]
  <2>1. PICK label \in Role!Injection(Speakers, Role!Observed(k)) :
          mappings' = [mappings EXCEPT ![Len(voices)] =
            [l \in Labels |-> IF l \in Role!Range(label) THEN Role!AntiFunction(label)[l] ELSE mappings[Len(voices)][l]]]
    BY DEF Role!ConfirmCalibration, Role!Active
  <2>2. \A l \in Role!Range(label) : Role!AntiFunction(label)[l] \in Speakers
    <3> TAKE l \in Role!Range(label)
    <3>1. DOMAIN label = Speakers
      BY DEF Role!Injection
    <3>2. PICK r \in Speakers : label[r] = l
      BY <3>1 DEF Role!Range
    <3>3. Role!AntiFunction(label)[l] = CHOOSE s \in Speakers : label[s] = l
      BY <3>1 DEF Role!AntiFunction, Role!Inverse
    <3> QED BY <3>2, <3>3
  <2>3. \A l \in Labels : mappings[Len(voices)][l] \in SomeRole
    BY <1>1
  <2>4. [l \in Labels |-> IF l \in Role!Range(label) THEN Role!AntiFunction(label)[l] ELSE mappings[Len(voices)][l]]
           \in [Labels -> SomeRole]
    BY <2>2, <2>3 DEF SomeRole
  <2> QED BY <1>1, <2>1, <2>4
<1>6. roleRevision' = roleRevision + 1 /\ roleRevision' \in 0 .. MaxRoleRevision
  BY <1>1 DEF Role!ConfirmCalibration, DistinctIds
<1>7. RolesTypeOK'
  BY <1>1, <1>4, <1>5, <1>6 DEF Role!ConfirmCalibration, RolesInv, RolesTypeOK
<1> QED BY <1>1, <1>6, <1>7, RolesKeep DEF Role!ConfirmCalibration, RolesInv, RolesTypeOK, NothingAhead

LEMMA PreviewStep ==
  ASSUME DistinctIds, RolesInv, NEW p \in Remaps, Role!Preview(p)
  PROVE  RolesConclusion
<1>1. PICK q \in {x \in {remaps'[p]} : x.st = "active" /\ x.role \in Speakers} :
        remaps' = [remaps EXCEPT ![p] = q]
  <2>1. PICK i, j \in Role!Stored, role \in Speakers :
          remaps' = [remaps EXCEPT ![p] =
            [[st |-> "active", stream |-> segs[i].stream, label |-> segs[i].label, first |-> i, last |-> j,
              role |-> role, members |-> {}] EXCEPT !.members =
               Role!Membership([st |-> "active", stream |-> segs[i].stream, label |-> segs[i].label, first |-> i,
                                last |-> j, role |-> role, members |-> {}])]]
    BY DEF Role!Preview
  <2> DEFINE q == [[st |-> "active", stream |-> segs[i].stream, label |-> segs[i].label, first |-> i, last |-> j,
              role |-> role, members |-> {}] EXCEPT !.members =
               Role!Membership([st |-> "active", stream |-> segs[i].stream, label |-> segs[i].label, first |-> i,
                                last |-> j, role |-> role, members |-> {}])]
  <2>2. q.st = "active" /\ q.role = role
    OBVIOUS
  <2> HIDE DEF q
  <2>3. remaps' = [remaps EXCEPT ![p] = q] /\ remaps = [x \in Remaps |-> remaps[x]]
    BY <2>1 DEF q, RolesInv, RolesTypeOK
  <2>4. remaps'[p] = q
    BY <2>3
  <2> QED BY <2>2, <2>3, <2>4
<1>2. RolesTypeOK'
  BY <1>1 DEF Role!Preview, RolesInv, RolesTypeOK
<1> QED BY <1>2, RolesKeep DEF Role!Preview, RolesInv, RolesTypeOK, NothingAhead

(* The next id drawn is of no segment yet.                                 *)
LEMMA NextIsNew ==
  ASSUME DistinctIds, RolesInv, Role!Stored # Role!Segments
  PROVE  LET n == Cardinality(Role!Stored) + 1 IN
         /\ n \in 1 .. Len(Drawn) /\ Drawn[n] \in Role!Segments \ Role!Stored
         /\ Role!Stored \cup {Drawn[n]} = {Drawn[k] : k \in 1 .. n}
         /\ Cardinality(Role!Stored \cup {Drawn[n]}) = n /\ IsFiniteSet(Role!Stored \cup {Drawn[n]})
<1> DEFINE c == Cardinality(Role!Stored)
<1>1. IsFiniteSet(Role!Stored) /\ Role!Stored = {Drawn[k] : k \in 1 .. c} /\ c <= Len(Drawn)
  BY DEF RolesInv, UsedInOrder
<1>2. c \in Nat
  BY <1>1, FS_CardinalityType
<1> HIDE DEF c
<1>3. Role!Segments = {Drawn[k] : k \in 1 .. Len(Drawn)} /\ Len(Drawn) \in Nat
  BY DEF Role!Segments, Role!Range, DistinctIds
<1>4. c # Len(Drawn)
  BY <1>1, <1>3
<1>5. c + 1 \in 1 .. Len(Drawn)
  BY <1>1, <1>2, <1>3, <1>4
<1>6. Drawn[c + 1] \notin Role!Stored
  <2> SUFFICES ASSUME NEW k \in 1 .. c, Drawn[k] = Drawn[c + 1] PROVE FALSE
    BY <1>1
  <2>1. k \in 1 .. Len(Drawn) /\ k # c + 1
    BY <1>2, <1>5
  <2> QED BY <2>1, <1>5 DEF DistinctIds
<1>7. Role!Stored \cup {Drawn[c + 1]} = {Drawn[k] : k \in 1 .. c + 1}
  <2>1. 1 .. c + 1 = (1 .. c) \cup {c + 1}
    BY <1>2
  <2> QED BY <1>1, <2>1
<1>8. Cardinality(Role!Stored \cup {Drawn[c + 1]}) = c + 1 /\ IsFiniteSet(Role!Stored \cup {Drawn[c + 1]})
  BY <1>1, <1>2, <1>6, FS_AddElement DEF c
<1> QED BY <1>3, <1>5, <1>6, <1>7, <1>8 DEF c

(* A sentence begins after the ones before it, within the audio.           *)
LEMMA HeardFacts ==
  ASSUME DistinctIds, RolesInv
  PROVE  Role!Heard(Len(voices)) \in 0 .. audio
<1>1. audio \in Nat /\ voices \in Seq(Nat) /\ Len(voices) \in 1 .. Len(voices)
  BY DEF RolesInv, RolesTypeOK
<1>2. voices[Len(voices)] \in 0 .. audio
  BY <1>1 DEF RolesInv, NothingAhead
<1> DEFINE S == {segs[i].from : i \in {j \in Role!Stored : segs[j].stream = Len(voices)}} \cup {voices[Len(voices)]}
<1>3. S \in SUBSET (0 .. audio) /\ S # {}
  BY <1>2 DEF RolesInv, NothingAhead
<1>4. Role!Max(S) \in S
  BY <1>1, <1>3, GreatestOf
<1> QED BY <1>3, <1>4 DEF Role!Heard

LEMMA DuringFacts ==
  ASSUME DistinctIds, RolesInv, NEW s, NEW from, NEW to
  PROVE  Role!Max(Role!During(s, from, to) \cup {0}) \in Int
<1>1. Len(calibrations) \in Nat /\ DOMAIN calibrations = 1 .. Len(calibrations)
  BY DEF RolesInv, RolesTypeOK
<1> DEFINE S == Role!During(s, from, to) \cup {0}
<1>2. S \in SUBSET (0 .. Len(calibrations)) /\ S # {}
  BY <1>1 DEF Role!During, Role!OfStream
<1>3. Role!Max(S) \in S
  BY <1>1, <1>2, GreatestOf
<1> QED BY <1>2, <1>3

LEMMA IngestStep ==
  ASSUME DistinctIds, RolesInv, NEW label \in Labels, Role!Ingest(label)
  PROVE  RolesConclusion
<1> DEFINE n == Cardinality(Role!Stored) + 1
           i == Drawn[n]
<1>1. /\ n \in 1 .. Len(Drawn) /\ i \in Role!Segments \ Role!Stored
      /\ Role!Stored \cup {i} = {Drawn[k] : k \in 1 .. n}
      /\ Cardinality(Role!Stored \cup {i}) = n /\ IsFiniteSet(Role!Stored \cup {i})
  <2>1. Role!Stored # Role!Segments
    BY DEF Role!Ingest
  <2> QED BY <2>1, NextIsNew
<1>2. PICK from \in Role!Heard(Len(voices)) .. audio - 1 : \E t \in from + 1 .. audio :
        segs' = [segs EXCEPT ![i] =
             [stream |-> Len(voices), label |-> label, from |-> from, to |-> t,
              of |-> Role!Max(Role!During(Len(voices), from, t) \cup {0}),
              original |-> mappings[Len(voices)][label],
              corrected |-> "none", revision |-> roleRevision, single |-> -1]]
  <2>1. Role!Active = Len(voices) /\ Role!Never = -1
    BY DEF Role!Active, Role!Never
  <2>2. PICK from \in Role!Heard(Role!Active) .. audio - 1 : \E t \in from + 1 .. audio :
        segs' = [segs EXCEPT ![i] =
             [stream |-> Role!Active, label |-> label, from |-> from, to |-> t,
              of |-> Role!Max(Role!During(Role!Active, from, t) \cup {0}),
              original |-> mappings[Role!Active][label],
              corrected |-> "none", revision |-> roleRevision, single |-> Role!Never]]
    BY SameCardinality DEF Role!Ingest
  <2> QED BY <2>1, <2>2
<1>20. PICK to \in from + 1 .. audio :
        segs' = [segs EXCEPT ![i] =
             [stream |-> Len(voices), label |-> label, from |-> from, to |-> to,
              of |-> Role!Max(Role!During(Len(voices), from, to) \cup {0}),
              original |-> mappings[Len(voices)][label],
              corrected |-> "none", revision |-> roleRevision, single |-> -1]]
  BY <1>2
<1> DEFINE new == [stream |-> Len(voices), label |-> label, from |-> from, to |-> to,
              of |-> Role!Max(Role!During(Len(voices), from, to) \cup {0}),
              original |-> mappings[Len(voices)][label],
              corrected |-> "none", revision |-> roleRevision, single |-> -1]
<1>3. /\ UNCHANGED <<audio, voices, calibrations, mappings, roleRevision, remaps, reader>>
  BY DEF Role!Ingest
<1>4. /\ audio \in Nat /\ Len(voices) \in 1 .. MaxVoices /\ roleRevision \in 0 .. MaxRoleRevision
      /\ mappings \in [1 .. MaxVoices -> [Labels -> SomeRole]] /\ segs \in [Role!Segments -> {Role!NoSegment} \cup SegmentRecords]
      /\ roleRevision \in Nat
  BY DEF RolesInv, RolesTypeOK, DistinctIds
<1>5. from \in 0 .. audio /\ to \in Int
  BY <1>4, HeardFacts
<1>6. new \in SegmentRecords
  <2>1. Role!Max(Role!During(Len(voices), from, to) \cup {0}) \in Int
    BY DuringFacts
  <2>2. mappings[Len(voices)][label] \in SomeRole
    BY <1>4
  <2> QED BY <1>4, <1>5, <2>1, <2>2 DEF SegmentRecords
<1>7. new.from = from /\ new.revision = roleRevision
  OBVIOUS
<1> HIDE DEF n, i, new
<1>8. segs' = [segs EXCEPT ![i] = new]
  BY <1>20 DEF new
<1>9. segs' \in [Role!Segments -> {Role!NoSegment} \cup SegmentRecords] /\ segs'[i] = new
      /\ \A j \in Role!Segments : j # i => segs'[j] = segs[j]
  BY <1>1, <1>4, <1>6, <1>8
<1>10. RolesTypeOK'
  BY <1>3, <1>9 DEF RolesInv, RolesTypeOK
<1>11. Role!Stored' = Role!Stored \cup {i}
  <2>1. new # Role!NoSegment
    <3>1. Role!NoSegment.stream = 0 /\ new.stream # 0
      BY <1>6 DEF Role!NoSegment, SegmentRecords
    <3> QED BY <3>1
  <2> QED BY <1>1, <1>9, <2>1 DEF Role!Stored
<1>12. NothingAhead'
  BY <1>1, <1>3, <1>4, <1>5, <1>7, <1>9, <1>11, StoredFacts DEF RolesInv, NothingAhead
<1>13. UsedInOrder'
  <2>1. Cardinality(Role!Stored') = n /\ IsFiniteSet(Role!Stored') /\ n <= Len(Drawn)
    BY <1>1, <1>11
  <2> QED BY <1>1, <1>11, <2>1 DEF UsedInOrder
<1>14. ReaderOK'
  BY <1>1, <1>3, <1>9, <1>11, StoredFacts DEF RolesInv, ReaderOK, Role!Effective
<1>15. Role!SingleStandsStep
  BY <1>1, <1>9, StoredFacts DEF Role!SingleStandsStep
<1> QED BY <1>10, <1>12, <1>13, <1>14, <1>15 DEF RolesConclusion, RolesInv

(* A correction gives the segments it changes the next revision.           *)
LEMMA CorrectionKeeps ==
  ASSUME DistinctIds, RolesInv, NEW I \in SUBSET Role!Stored, roleRevision < MaxRoleRevision,
         roleRevision' = roleRevision + 1, UNCHANGED <<audio, voices, calibrations, mappings, reader>>,
         segs' \in [Role!Segments -> {Role!NoSegment} \cup SegmentRecords],
         \A i \in Role!Segments \ I : segs'[i] = segs[i],
         \A i \in I : segs'[i] \in SegmentRecords /\ segs'[i].from = segs[i].from /\ segs'[i].revision = roleRevision + 1,
         remaps' = [p \in Remaps |-> remaps'[p]],
         \A p \in Remaps : /\ remaps'[p].st \in {"none", "active", "executed"}
                           /\ remaps'[p].st = "active" => remaps'[p].role \in Speakers
  PROVE  RolesInv'
<1>1. roleRevision \in Nat /\ roleRevision' \in 0 .. MaxRoleRevision
  BY DEF RolesInv, RolesTypeOK, DistinctIds
<1>2. RolesTypeOK'
  BY <1>1 DEF RolesInv, RolesTypeOK
<1>3. Role!Stored' = Role!Stored
  <2>1. \A g \in SegmentRecords : g # Role!NoSegment
    <3>1. Role!NoSegment.stream = 0 /\ \A g \in SegmentRecords : g.stream # 0
      BY DEF Role!NoSegment, SegmentRecords
    <3> QED BY <3>1
  <2> QED BY <2>1, StoredFacts DEF Role!Stored
<1>4. \A i \in Role!Stored : segs[i].revision \in Nat /\ segs[i].revision <= roleRevision /\ segs[i].from \in 0 .. audio
  BY StoredFacts DEF RolesInv, NothingAhead, SegmentRecords
<1>5. NothingAhead'
  <2>1. \A i \in Role!Stored : segs'[i].from \in 0 .. audio /\ segs'[i].revision <= roleRevision + 1
    BY <1>1, <1>4, StoredFacts
  <2> QED BY <1>3, <2>1 DEF RolesInv, NothingAhead
<1>6. UsedInOrder'
  BY <1>3 DEF RolesInv, UsedInOrder
<1>7. ReaderOK'
  <2> DEFINE item == reader.item
  <2> SUFFICES ASSUME item.id # 0
               PROVE  /\ item.id \in Role!Stored' /\ item.revision \in Nat /\ item.revision <= segs'[item.id].revision
                      /\ segs'[item.id].revision = item.revision => Role!Effective(segs'[item.id]) = item.role
    BY DEF ReaderOK
  <2>1. /\ item.id \in Role!Stored /\ item.revision \in Nat /\ item.revision <= segs[item.id].revision
        /\ segs[item.id].revision = item.revision => Role!Effective(segs[item.id]) = item.role
    BY DEF RolesInv, ReaderOK
  <2>2. item.id \in Role!Stored' /\ item.id \in Role!Segments
    BY <1>3, <2>1, StoredFacts
  <2>3. CASE item.id \in I
    BY <1>1, <1>4, <2>1, <2>2, <2>3
  <2>4. CASE item.id \notin I
    BY <2>1, <2>2, <2>4
  <2> QED BY <2>3, <2>4
<1> QED BY <1>2, <1>5, <1>6, <1>7 DEF RolesInv

CorrectedTo(g, role, rev) == [g EXCEPT !.corrected = role, !.revision = rev, !.single = rev]

LEMMA CorrectedFacts ==
  ASSUME NEW g \in SegmentRecords, NEW role \in SomeRole, NEW rev \in Nat
  PROVE  LET x == CorrectedTo(g, role, rev) IN
         x \in SegmentRecords /\ x.from = g.from /\ x.revision = rev /\ x.single = rev
<1> DEFINE y == [g EXCEPT !.corrected = role, !.revision = rev]
<1>1. y \in SegmentRecords /\ y.from = g.from /\ y.revision = rev
  BY DEF SegmentRecords
<1>2. CorrectedTo(g, role, rev) = [y EXCEPT !.single = rev]
  BY DEF CorrectedTo
<1> HIDE DEF y
<1>3. LET x == [y EXCEPT !.single = rev] IN x \in SegmentRecords /\ x.from = y.from /\ x.revision = y.revision /\ x.single = rev
  BY <1>1 DEF SegmentRecords
<1> QED BY <1>1, <1>2, <1>3

LEMMA CorrectOneStep ==
  ASSUME DistinctIds, RolesInv, NEW role \in Speakers, Role!CorrectOne(role)
  PROVE  RolesConclusion
<1> DEFINE i == reader.item.id
           g == [segs[i] EXCEPT !.corrected = role, !.revision = roleRevision + 1, !.single = roleRevision + 1]
<1>1. /\ i \in Role!Stored /\ i \in Role!Segments /\ segs[i] \in SegmentRecords
  <2>1. i \in Role!Stored
    BY DEF Role!CorrectOne, RolesInv, ReaderOK
  <2> QED BY <2>1, StoredFacts
<1>2. segs' = [segs EXCEPT ![i] = g]
  BY DEF Role!CorrectOne
<1>3. roleRevision \in Nat /\ segs \in [Role!Segments -> {Role!NoSegment} \cup SegmentRecords]
  BY DEF RolesInv, RolesTypeOK, DistinctIds
<1>4. g \in SegmentRecords /\ g.from = segs[i].from /\ g.revision = roleRevision + 1 /\ g.single = roleRevision + 1
  <2> HIDE DEF i
  <2>1. segs[i] \in SegmentRecords /\ roleRevision + 1 \in Nat /\ role \in SomeRole
    BY <1>1, <1>3 DEF SomeRole
  <2>2. g = CorrectedTo(segs[i], role, roleRevision + 1)
    BY DEF CorrectedTo
  <2> HIDE DEF g
  <2> QED BY <2>1, <2>2, CorrectedFacts
<1> HIDE DEF i, g
<1>5. /\ segs' \in [Role!Segments -> {Role!NoSegment} \cup SegmentRecords] /\ segs'[i] = g
      /\ \A j \in Role!Segments \ {i} : segs'[j] = segs[j]
  BY <1>1, <1>2, <1>3, <1>4
<1>6. /\ roleRevision < MaxRoleRevision /\ roleRevision' = roleRevision + 1
      /\ UNCHANGED <<audio, voices, calibrations, mappings, reader, remaps>>
  BY DEF Role!CorrectOne
<1>7. /\ remaps' = [p \in Remaps |-> remaps'[p]]
      /\ \A p \in Remaps : /\ remaps'[p].st \in {"none", "active", "executed"}
                           /\ remaps'[p].st = "active" => remaps'[p].role \in Speakers
  BY <1>6 DEF RolesInv, RolesTypeOK
<1>8. {i} \in SUBSET Role!Stored /\ \A j \in {i} : segs'[j] \in SegmentRecords /\ segs'[j].from = segs[j].from /\ segs'[j].revision = roleRevision + 1
  BY <1>1, <1>4, <1>5
<1>9. RolesInv'
  BY <1>5, <1>6, <1>7, <1>8, CorrectionKeeps
<1>10. Role!SingleStandsStep
  <2>1. Role!Individual(segs'[i])
    BY <1>4, <1>5 DEF Role!Individual
  <2> QED BY <1>5, <2>1, StoredFacts DEF Role!SingleStandsStep
<1> QED BY <1>9, <1>10 DEF RolesConclusion

(* A remap leaves out what is an individual correction when it executes.   *)
LEMMA ExecuteStep ==
  ASSUME DistinctIds, RolesInv, NEW p \in Remaps, Role!Execute(p)
  PROVE  RolesConclusion
<1> DEFINE q == remaps[p]
           I == Role!Included(q.members)
<1>1. /\ q.st = "active" /\ q.members = Role!Membership(q) /\ roleRevision < MaxRoleRevision
      /\ segs' = [i \in Role!Segments |-> IF i \in I THEN Role!Stamped(segs[i], q.role, roleRevision + 1) ELSE segs[i]]
      /\ roleRevision' = roleRevision + 1 /\ remaps' = [remaps EXCEPT ![p] = [st |-> "executed"]]
      /\ UNCHANGED <<audio, voices, calibrations, mappings, reader>>
  BY DEF Role!Execute, Role!Fresh
<1>2. \A i \in I : i \in Role!Stored /\ ~Role!Individual(segs[i])
  <2> TAKE i \in I
  <2>1. PICK mem \in Role!Membership(q) : mem.id = i /\ ~mem.excluded
    BY <1>1 DEF Role!Included
  <2>2. PICK j \in Role!Candidates(q) : mem = [id |-> j, excluded |-> Role!Individual(segs[j]), revision |-> segs[j].revision]
    BY <2>1 DEF Role!Membership
  <2> QED BY <2>1, <2>2 DEF Role!Candidates
<1>3. roleRevision \in Nat /\ segs \in [Role!Segments -> {Role!NoSegment} \cup SegmentRecords] /\ q.role \in Speakers
  BY <1>1 DEF RolesInv, RolesTypeOK, DistinctIds
<1> HIDE DEF I
<1>4. \A i \in I : LET g == Role!Stamped(segs[i], q.role, roleRevision + 1) IN
                     g \in SegmentRecords /\ g.from = segs[i].from /\ g.revision = roleRevision + 1
  <2> TAKE i \in I
  <2>1. segs[i] \in SegmentRecords
    BY <1>2, StoredFacts
  <2>2. q.role \in SomeRole /\ roleRevision + 1 \in Nat
    BY <1>3 DEF SomeRole
  <2> HIDE DEF q
  <2> QED BY <2>1, <2>2 DEF Role!Stamped, SegmentRecords
<1> HIDE DEF q
<1>5. I \in SUBSET Role!Stored /\ Role!Stored \subseteq Role!Segments
  BY <1>2, StoredFacts
<1>6. /\ segs' \in [Role!Segments -> {Role!NoSegment} \cup SegmentRecords]
      /\ \A i \in Role!Segments \ I : segs'[i] = segs[i]
      /\ \A i \in I : segs'[i] \in SegmentRecords /\ segs'[i].from = segs[i].from /\ segs'[i].revision = roleRevision + 1
  BY <1>1, <1>3, <1>4, <1>5
<1>7. /\ remaps' = [x \in Remaps |-> remaps'[x]]
      /\ \A x \in Remaps : /\ remaps'[x].st \in {"none", "active", "executed"}
                           /\ remaps'[x].st = "active" => remaps'[x].role \in Speakers
  <2>1. remaps = [x \in Remaps |-> remaps[x]]
        /\ \A x \in Remaps : /\ remaps[x].st \in {"none", "active", "executed"}
                             /\ remaps[x].st = "active" => remaps[x].role \in Speakers
    BY DEF RolesInv, RolesTypeOK
  <2>2. \A x \in Remaps : remaps'[x] = IF x = p THEN [st |-> "executed"] ELSE remaps[x]
    BY <1>1, <2>1
  <2>3. remaps' = [x \in Remaps |-> remaps'[x]]
    BY <1>1, <2>1
  <2> QED BY <2>1, <2>2, <2>3
<1>8. RolesInv'
  BY <1>1, <1>5, <1>6, <1>7, CorrectionKeeps
<1>9. Role!SingleStandsStep
  BY <1>2, <1>5, <1>6 DEF Role!SingleStandsStep
<1> QED BY <1>8, <1>9 DEF RolesConclusion

(* Segments have a first one in the order of their start and their id.     *)
LEMMA FirstOf ==
  ASSUME DistinctIds, RolesInv, NEW S \in SUBSET Role!Stored, S # {}
  PROVE  \E x \in S : \A y \in S : Role!Before(x, y)
<1>1. \A i \in S : segs[i].from \in Nat /\ i \in Nat
  BY StoredFacts DEF RolesInv, RolesTypeOK, NothingAhead
<1> DEFINE starts == {segs[i].from : i \in S}
<1>2. starts \in SUBSET Nat /\ starts # {}
  BY <1>1
<1>3. PICK f \in starts : \A n \in starts : f <= n
  BY <1>2, LeastOf
<1> DEFINE firsts == {i \in S : segs[i].from = f}
<1>4. firsts \in SUBSET Nat /\ firsts # {}
  BY <1>1, <1>3
<1>5. PICK x \in firsts : \A n \in firsts : x <= n
  BY <1>4, LeastOf
<1>6. \A y \in S : f <= segs[y].from /\ segs[y].from \in Nat /\ f \in Nat
  BY <1>1, <1>3
<1>7. \A y \in S : Role!Before(x, y)
  BY <1>5, <1>6 DEF Role!Before
<1> QED BY <1>5, <1>7

LEMMA ReadStep ==
  ASSUME DistinctIds, RolesInv, Role!ReadPage
  PROVE  RolesConclusion
<1> DEFINE rest == {i \in Role!Stored : Role!Conversation(i) /\ Role!After(i, reader.after)}
           first == CHOOSE x \in rest : \A y \in rest : Role!Before(x, y)
<1>1. /\ rest # {} /\ reader'.item = Role!Shown(first)
      /\ UNCHANGED <<audio, voices, calibrations, mappings, segs, roleRevision, remaps>>
  BY DEF Role!ReadPage
<1>2. first \in rest
  <2>1. \E x \in rest : \A y \in rest : Role!Before(x, y)
    BY <1>1, FirstOf
  <2> QED BY <2>1
<1> HIDE DEF rest, first
<1>3. first \in Role!Stored
  BY <1>2 DEF rest
<1>4. Role!Stored' = Role!Stored
  BY <1>1 DEF Role!Stored
<1>5. RolesTypeOK' /\ NothingAhead' /\ UsedInOrder'
  BY <1>1, <1>4 DEF RolesInv, RolesTypeOK, NothingAhead, UsedInOrder
<1>6. ReaderOK'
  <2>1. reader'.item.id = first /\ reader'.item.revision = segs[first].revision /\ reader'.item.role = Role!Effective(segs[first])
    BY <1>1 DEF Role!Shown
  <2>2. segs[first].revision \in Nat /\ segs'[first] = segs[first]
    BY <1>1, <1>3, StoredFacts DEF SegmentRecords
  <2> QED BY <1>3, <1>4, <2>1, <2>2 DEF ReaderOK
<1>7. Role!SingleStandsStep
  BY <1>1 DEF Role!SingleStandsStep
<1> QED BY <1>5, <1>6, <1>7 DEF RolesConclusion, RolesInv

LEMMA RolesInit == ASSUME DistinctIds, Role!Init PROVE RolesInv
<1>1. Role!Stored = {}
  BY DEF Role!Init, Role!Stored
<1>2. RolesTypeOK
  <2>1. voices = <<0>> /\ calibrations = <<>>
    BY DEF Role!Init
  <2>2. voices \in Seq(Nat) /\ Len(voices) = 1 /\ calibrations \in Seq(CalibrationRecords) /\ Len(calibrations) = 0
    BY <2>1
  <2> QED BY <2>2 DEF Role!Init, RolesTypeOK, DistinctIds, SomeRole, Role!NoPreview
<1>3. NothingAhead
  BY <1>1 DEF Role!Init, NothingAhead
<1>4. UsedInOrder
  BY <1>1, FS_EmptySet DEF UsedInOrder, DistinctIds
<1>5. ReaderOK
  BY DEF Role!Init, Role!NoReader, ReaderOK
<1> QED BY <1>2, <1>3, <1>4, <1>5 DEF RolesInv

LEMMA RolesStep ==
  ASSUME DistinctIds, RolesInv, [Role!Next]_Role!vars
  PROVE  RolesInv' /\ [Role!SingleStandsStep]_Role!vars
<1>1. CASE Role!Next
  <2>1. RolesConclusion
    BY <1>1, FrameStep, CalibrationStep, ConfirmStep, PreviewStep, IngestStep, CorrectOneStep, ExecuteStep, ReadStep
       DEF Role!Next
  <2> QED BY <2>1 DEF RolesConclusion
<1>2. CASE UNCHANGED Role!vars
  <2>1. RolesTypeOK' /\ UNCHANGED <<segs, reader>>
    BY <1>2 DEF Role!vars, RolesInv, RolesTypeOK
  <2>2. RolesConclusion
    BY <1>2, <2>1, RolesKeep DEF Role!vars, RolesInv, RolesTypeOK, NothingAhead
  <2> QED BY <2>2 DEF RolesConclusion
<1> QED BY <1>1, <1>2

(* Roles, streams, calibrations, segments and remaps keep their types, and *)
(* no revision is ahead of the session's.                                  *)
THEOREM RolesTypeCorrect ==
  ASSUME DistinctIds PROVE Role!Spec => []Role!TypeOK
<1>1. ASSUME RolesInv PROVE Role!TypeOK
  <2>1. \A i \in Role!Stored : segs[i].revision <= roleRevision /\ Role!Effective(segs[i]) \in SomeRole
    BY <1>1, StoredFacts DEF RolesInv, NothingAhead, Role!Effective, SegmentRecords
  <2> QED BY <1>1, <2>1 DEF RolesInv, RolesTypeOK, Role!TypeOK, Role!Active, SomeRole
<1> QED BY <1>1, RolesInit, RolesStep, PTL DEF Role!Spec

(* A correction of one segment is only undone by another one: neither a    *)
(* remap, whenever it was previewed, nor a calibration changes its role.   *)
THEOREM SingleCorrectionStands ==
  ASSUME DistinctIds PROVE Role!Spec => [][Role!SingleStandsStep]_Role!vars
BY RolesInit, RolesStep, PTL DEF Role!Spec

(* What an interviewer corrects still has the role the page showed: the    *)
(* revision alone tells when somebody changed it since.                    *)
THEOREM ShownStaysCurrent ==
  ASSUME DistinctIds PROVE Role!Spec => []Role!ShownIsCurrent
<1>1. RolesInv => Role!ShownIsCurrent
  BY DEF RolesInv, ReaderOK, Role!ShownIsCurrent
<1> QED BY <1>1, RolesInit, RolesStep, PTL DEF Role!Spec
==============================================================================
