---- MODULE DirectorContext ----
(***************************************************************************)
(* What the question director is shown: the transcript and the published   *)
(* actual questions a generation freezes, the displayed questions it reads  *)
(* afterwards, the P4 context built of them, and the one evidence          *)
(* drill-down a director may ask for before it answers.  The sessions of a *)
(* project follow each other; corrections, new sentences, analyses and     *)
(* displays go on between two steps of a generation.                       *)
(***************************************************************************)
EXTENDS Integers, FiniteSets, Sequences

CONSTANTS
    LastSession,    \* bound: the sessions are 1..LastSession, one after the other
    MaxSegments,    \* bound: conversation sentences of one session
    Recent,         \* how many frozen sentences a context shows (40 in the code)
    MaxEdits,       \* bound: corrections of sentences
    MaxAnalyses,    \* bound: analyses published
    MaxShown,       \* bound: questions displayed
    MaxAttempts     \* bound: generations

ASSUME BoundAssumption == LastSession \in Nat \ {0} /\ MaxSegments \in Nat

VARIABLES
    session,        \* the session that is open; the earlier ones are finalized
    sentences,      \* session -> how many conversation sentences it has
    revision,       \* segment -> its text and role revision
    trusted,        \* the segments whose effective speaker role is elder or interviewer
    asked,          \* session -> its current published actual question, or NoQuestion
    analyses,       \* analyses published
    shown,          \* display snapshots of the open session, in display order
    withdrawn,      \* the snapshots whose retention is over
    current,        \* the snapshot presented now, 0 for none
    snapshot,       \* the context snapshot of the open session's opening, or NoSnapshot
    attempts,       \* generations begun
    attempt         \* the generation under way, or Idle

world == <<session, sentences, revision, trusted, asked, analyses, shown, withdrawn, current>>
vars == <<world, snapshot, attempts, attempt>>

Sessions == 1..LastSession
Segments == Sessions \X (1..MaxSegments)
NoQuestion == [rev |-> 0, evidence |-> {}, basis |-> <<>>]
NoSnapshot == [taken |-> FALSE]
Idle == [at |-> "idle"]

Spoken(s) == {<<s, i>> : i \in 1..sentences[s]}

-----------------------------------------------------------------------------
(* What may be used. *)

\* A published analysis may be used while none of the segments it was made from
\* has been corrected since.
IsEligible(q) ==
    /\ q # NoQuestion
    /\ \A g \in DOMAIN q.basis : revision[g] = q.basis[g] /\ g \in trusted

\* The project's actual questions, whichever session they were asked in.
ListActualAsked == [s \in {t \in Sessions : IsEligible(asked[t])} |-> asked[s]]

\* Conversation sentences of the scope with a trusted role, at their revisions.
EligibleSegments(scope) ==
    [g \in {h \in Segments : h[1] \in scope /\ h \in Spoken(h[1]) /\ h \in trusted} |-> revision[g]]

\* The order segments are frozen in: by session, then by time.
Later(g, h) == g[1] > h[1] \/ (g[1] = h[1] /\ g[2] > h[2])

\* The last Recent of the frozen segments.
RecentTranscript(segments) ==
    [g \in {h \in DOMAIN segments :
               Cardinality({k \in DOMAIN segments : Later(k, h)}) < Recent} |-> segments[g]]

-----------------------------------------------------------------------------
(* The interview goes on. *)

Init ==
    /\ session = 1
    /\ sentences = [s \in Sessions |-> 0]
    /\ revision = [g \in Segments |-> 1]
    /\ trusted = {}
    /\ asked = [s \in Sessions |-> NoQuestion]
    /\ analyses = 0
    /\ shown = <<>> /\ withdrawn = {} /\ current = 0
    /\ snapshot = NoSnapshot
    /\ attempts = 0
    /\ attempt = Idle

\* A final sentence arrives, its role trusted or not yet known.
Speak ==
    /\ sentences[session] < MaxSegments
    /\ sentences' = [sentences EXCEPT ![session] = @ + 1]
    /\ \E known \in BOOLEAN :
         trusted' = IF known THEN trusted \cup {<<session, sentences[session] + 1>>} ELSE trusted
    /\ UNCHANGED <<session, revision, asked, analyses, shown, withdrawn, current,
                   snapshot, attempts, attempt>>

Edits == Cardinality({g \in Segments : revision[g] > 1})

\* A correction gives a sentence another revision and may change whether its role is known.
Correct(g) ==
    /\ g \in Spoken(g[1]) /\ revision[g] = 1 /\ Edits < MaxEdits
    /\ revision' = [revision EXCEPT ![g] = @ + 1]
    /\ trusted' \in {trusted \ {g}, trusted \cup {g}}
    /\ UNCHANGED <<session, sentences, asked, analyses, shown, withdrawn, current,
                   snapshot, attempts, attempt>>

\* The session is finalized and the next one is open.
NextSession ==
    /\ session < LastSession
    /\ session' = session + 1
    /\ shown' = <<>> /\ current' = 0 /\ withdrawn' = {}
    /\ snapshot' = NoSnapshot
    /\ attempt' = Idle
    /\ UNCHANGED <<sentences, revision, trusted, asked, analyses, attempts>>

\* The analysis of a finalized session publishes an actual question with evidence
\* in that session, in place of the session's earlier analysis.
PublishActualQuestion(s) ==
    /\ s < session /\ analyses < MaxAnalyses
    /\ analyses' = analyses + 1
    /\ LET basis == EligibleSegments({s}) IN
       \E evidence \in SUBSET DOMAIN basis :
          /\ evidence # {}
          /\ asked' = [asked EXCEPT ![s] = [rev |-> analyses + 1, evidence |-> evidence,
                                            basis |-> basis]]
    /\ UNCHANGED <<session, sentences, revision, trusted, shown, withdrawn, current,
                   snapshot, attempts, attempt>>

\* Another writer displays a question, or a displayed one is withdrawn.
Display ==
    /\ Len(shown) < MaxShown
    /\ shown' = Append(shown, Len(shown) + 1)
    /\ current' = Len(shown) + 1
    /\ UNCHANGED <<session, sentences, revision, trusted, asked, analyses, withdrawn,
                   snapshot, attempts, attempt>>

WithdrawDisplay(d) ==
    /\ d \in 1..Len(shown) /\ d \notin withdrawn
    /\ withdrawn' = withdrawn \cup {d}
    /\ current' = IF current = d THEN 0 ELSE current
    /\ UNCHANGED <<session, sentences, revision, trusted, asked, analyses, shown,
                   snapshot, attempts, attempt>>

\* The post-session gate freezes the opening context: the finalized session, and the
\* open one too when its calibration was confirmed; all questions of the project.
FreezeOpeningContext(confirmed) ==
    /\ session > 1 /\ ~snapshot.taken
    /\ LET scope == IF confirmed THEN {session - 1, session} ELSE {session - 1}
       IN  snapshot' = [taken |-> TRUE, scope |-> scope,
                        segments |-> EligibleSegments(scope), questions |-> ListActualAsked]
    /\ UNCHANGED <<world, attempts, attempt>>

-----------------------------------------------------------------------------
(* A generation. *)

\* A manual or automatic request lists the project's questions and looks at what is presented.
PrepareLive ==
    /\ attempt = Idle /\ attempts < MaxAttempts
    /\ attempts' = attempts + 1
    /\ attempt' = [at |-> "freeze", opening |-> FALSE, scope |-> {session},
                   listed |-> ListActualAsked, presented |-> current]
    /\ UNCHANGED <<world, snapshot>>

\* The opening reads its snapshot, whose questions must still be there.
ReadForOpening ==
    /\ attempt = Idle /\ attempts < MaxAttempts /\ snapshot.taken
    /\ attempts' = attempts + 1
    /\ attempt' = IF DOMAIN snapshot.questions \subseteq DOMAIN ListActualAsked
                     /\ \A s \in DOMAIN snapshot.questions : snapshot.questions[s] = asked[s]
                  THEN [at |-> "freeze", opening |-> TRUE, scope |-> snapshot.scope,
                        listed |-> snapshot.questions, presented |-> current]
                  ELSE [at |-> "failed", why |-> "AI_OPENING_CONTEXT_ACTUAL_QUESTION_DRIFT"]
    /\ UNCHANGED <<world, snapshot>>

\* The freeze looks at every listed question again: its analysis must still be the
\* published one and eligible.
StillAskable(listed) ==
    \A s \in DOMAIN listed : asked[s] = listed[s] /\ IsEligible(asked[s])

\* What the opening froze must be exactly what its snapshot froze.
SegmentDrift(opening, segments) == opening /\ segments # snapshot.segments

Freeze ==
    /\ attempt.at = "freeze"
    /\ LET now == EligibleSegments(attempt.scope)
           segments == IF attempt.opening
                       THEN [g \in DOMAIN now \cap DOMAIN snapshot.segments |-> now[g]] ELSE now
       IN  attempt' =
             IF SegmentDrift(attempt.opening, segments)
             THEN [at |-> "failed", why |-> "AI_CONTEXT_SNAPSHOT_SEGMENT_DRIFT"]
             ELSE IF ~StillAskable(attempt.listed)
             THEN [at |-> "failed", why |-> "AI_ACTUAL_QUESTION_SCOPE_INELIGIBLE"]
             ELSE [at |-> "build", opening |-> attempt.opening, scope |-> attempt.scope,
                   listed |-> attempt.listed, presented |-> attempt.presented,
                   segments |-> segments]
    /\ UNCHANGED <<world, snapshot, attempts>>

\* Every piece of evidence of every frozen question must be a frozen segment.
EvidenceInsideFrozenInput(questions, segments) ==
    \A s \in DOMAIN questions : questions[s].evidence \subseteq DOMAIN segments

\* The displayed questions are read now, outside the freeze: the active ones, and
\* the presented one must still be active.
ActiveShown == {d \in 1..Len(shown) : d \notin withdrawn}

BuildContext ==
    /\ attempt.at = "build"
    /\ attempt' =
         IF ~EvidenceInsideFrozenInput(attempt.listed, attempt.segments)
         THEN [at |-> "failed", why |-> "P4_ACTUAL_QUESTION_EVIDENCE_OUTSIDE_FROZEN_INPUT",
               scope |-> attempt.scope, questions |-> attempt.listed]
         ELSE IF attempt.presented # 0 /\ attempt.presented \notin ActiveShown
         THEN [at |-> "failed", why |-> "P4_CURRENT_PRESENTATION_UNAVAILABLE"]
         ELSE [at |-> "ask", call |-> 1, scope |-> attempt.scope,
               context |-> [transcript |-> RecentTranscript(attempt.segments),
                            questions |-> attempt.listed, displayed |-> ActiveShown,
                            presented |-> attempt.presented],
               searched |-> FALSE, kept |-> "none", result |-> <<>>, traced |-> "none"]
    /\ UNCHANGED <<world, snapshot, attempts>>

-----------------------------------------------------------------------------
(* The director's answer and its one drill-down. *)

\* The director answers, and the round ends with what it was shown.
Answer ==
    /\ attempt.at \in {"ask", "told"}
    /\ attempt' = [attempt EXCEPT !.at = "answered"]
    /\ UNCHANGED <<world, snapshot, attempts>>

\* A call fails or times out: the same input is called once more, the drill-down
\* already made is kept for it.
CallFails ==
    /\ attempt.at \in {"ask", "told"}
    /\ attempt' = IF attempt.call = 1 THEN [attempt EXCEPT !.at = "ask", !.call = 2]
                  ELSE [attempt EXCEPT !.at = "gave_up"]
    /\ UNCHANGED <<world, snapshot, attempts>>

\* The scope must hold the open session, and every session of it must be one the
\* context shows a sentence of.
ScopeKnown ==
    /\ session \in attempt.scope
    /\ attempt.scope \subseteq {g[1] : g \in DOMAIN attempt.context.transcript}

\* (Fault.) Rows are checked for themselves only.
SourcesUnchanged_Unfenced(rows) == rows \subseteq trusted

\* A row without a trusted role, or one that differs from what the context shows,
\* refuses the whole search.
SourcesUnchanged(rows) ==
    \A g \in rows :
        /\ g \in trusted
        /\ g \in DOMAIN attempt.context.transcript => revision[g] = attempt.context.transcript[g]

\* The search uses the round up before it starts.  What it answers, rows or an error,
\* is kept for a retry before the trace is told of it; a search that throws leaves nothing.
Searched(rows) ==
    IF ScopeKnown /\ SourcesUnchanged(rows)
    THEN [attempt EXCEPT !.at = "trace", !.searched = TRUE, !.kept = "result",
                         !.result = [g \in rows |-> revision[g]]]
    ELSE [attempt EXCEPT !.at = "trace", !.searched = TRUE, !.kept = "error"]

SearchThrew == [attempt EXCEPT !.at = "erred", !.searched = TRUE]

\* (Fault.) The round is forgotten between the two calls: the service refuses its
\* second request, and the refusal is kept and traced as the outcome.
RequestEvidence_Fresh ==
    /\ attempt.at = "ask"
    /\ \/ session \notin attempt.scope /\ attempt' = [attempt EXCEPT !.at = "erred"]
       \/ /\ session \in attempt.scope
          /\ attempt' = IF attempt.searched THEN [attempt EXCEPT !.at = "trace", !.kept = "error"]
                        ELSE Searched(UNION {Spoken(s) : s \in attempt.scope})
    /\ UNCHANGED <<world, snapshot, attempts>>

\* The director asks to search the transcript.  The first request is run over the rows
\* as they are now; a retry that asks the same is given the kept outcome again, one that
\* asks something else, or that has nothing kept, is refused.  A scope without the open
\* session is refused before anything is searched.
RequestEvidence ==
    /\ attempt.at = "ask"
    /\ \/ session \notin attempt.scope /\ attempt' = [attempt EXCEPT !.at = "erred"]
       \/ /\ session \in attempt.scope /\ ~attempt.searched
          /\ attempt' \in {Searched(UNION {Spoken(s) : s \in attempt.scope}), SearchThrew}
       \/ /\ session \in attempt.scope /\ attempt.searched
          /\ \/ attempt.kept = "result" /\ attempt' = [attempt EXCEPT !.at = "told"]
             \/ attempt' = [attempt EXCEPT !.at = "erred"]
    /\ UNCHANGED <<world, snapshot, attempts>>

\* The outcome is attached to the running trace, in a transaction of its own.  When that
\* fails, or the trace was closed meanwhile, the call fails and the outcome stays kept.
TraceEvidence ==
    /\ attempt.at = "trace"
    /\ \/ attempt' = [attempt EXCEPT !.at = IF attempt.kept = "result" THEN "told" ELSE "erred",
                                     !.traced = attempt.kept]
       \/ attempt' = [attempt EXCEPT !.at = "erred"]
    /\ UNCHANGED <<world, snapshot, attempts>>

\* An error of the drill-down fails the call like any other.
EvidenceFails ==
    /\ attempt.at = "erred"
    /\ attempt' = IF attempt.call = 1 THEN [attempt EXCEPT !.at = "ask", !.call = 2]
                  ELSE [attempt EXCEPT !.at = "gave_up"]
    /\ UNCHANGED <<world, snapshot, attempts>>

\* The generation is over, for good or bad.
Finish ==
    /\ attempt.at \in {"answered", "gave_up", "failed"}
    /\ attempt' = Idle
    /\ UNCHANGED <<world, snapshot, attempts>>

Next ==
    \/ Speak \/ NextSession \/ Display
    \/ \E g \in Segments : Correct(g)
    \/ \E s \in Sessions : PublishActualQuestion(s)
    \/ \E d \in 1..MaxShown : WithdrawDisplay(d)
    \/ \E confirmed \in BOOLEAN : FreezeOpeningContext(confirmed)
    \/ PrepareLive \/ ReadForOpening \/ Freeze \/ BuildContext
    \/ Answer \/ CallFails \/ RequestEvidence \/ TraceEvidence \/ EvidenceFails \/ Finish

Spec == Init /\ [][Next]_vars

-----------------------------------------------------------------------------
(* Properties. *)

OutsideFrozenInput ==
    attempt.at = "failed" /\ attempt.why = "P4_ACTUAL_QUESTION_EVIDENCE_OUTSIDE_FROZEN_INPUT"

\* A context is refused for want of evidence only because of a question asked in a
\* session outside the generation's scope, never because a sentence of the scope
\* was corrected or a question republished between the listing, the freeze and the
\* build (ActualAskedReader.list, freezeActualQuestions, buildP4ActualQuestionInputs).
InScopeEvidenceIsFrozen ==
    OutsideFrozenInput => \E s \in DOMAIN attempt.questions : s \notin attempt.scope

\* The director is never given two versions of one sentence: what a drill-down
\* returned agrees with the frozen context on every sentence both hold, although
\* sentences are corrected between the freeze and the search, and it only holds
\* sentences of the generation's own scope (readAndValidateTranscript).
DrilldownAgrees ==
    attempt.at \in {"told", "answered"} =>
        \A g \in DOMAIN attempt.result :
            /\ g[1] \in attempt.scope
            /\ g \in DOMAIN attempt.context.transcript =>
                 attempt.result[g] = attempt.context.transcript[g]

Asking(a) == a.at \in {"ask", "trace", "told", "erred", "answered", "gave_up"}

\* The outcome of the one search of a generation stays its outcome: neither what has
\* been said and corrected since, nor a failed write of the trace, nor the retry's own
\* request, which the drill-down service would refuse as a second round, replaces it.
\* A trace that was told of it tells that outcome and goes on doing so.  The first call
\* is told only what the trace tells; a retry may be told a kept result that no trace
\* tells, when its write had failed (runQuestionDirectorEvidenceRound, roundState).
ResultIsKeptStep ==
    Asking(attempt) /\ Asking(attempt') =>
        /\ attempt.searched => attempt'.kept = attempt.kept /\ attempt'.result = attempt.result
        /\ attempt.traced # "none" => attempt'.traced = attempt.traced
        /\ attempt'.traced \in {"none", attempt'.kept}
        /\ attempt'.at = "told" => attempt'.traced = "result" \/ attempt'.call = 2
ResultIsKept == [][ResultIsKeptStep]_vars

====
