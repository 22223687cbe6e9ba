--------------------------- MODULE MCQuestionInput ---------------------------
(* What a question is made from, checked in one run: DirectorContext, and the  *)
(* retrieval and the selection that share no state with it.  part says which   *)
(* of them a behaviour is of; the latter two use the same variables.           *)
(* Retrieval: four memories, one of them of another session, and a triangle of *)
(* relations, one of them undirected.  Selection: up to three members of two   *)
(* sections, some equal, some too long.                                        *)
EXTENDS DirectorContext

VARIABLES part, v1, v2, v3, v4, v5, v6, v7, v8
inputVars == <<v1, v2, v3, v4, v5, v6, v7, v8>>

MCRelations ==
    {[type |-> "BRANCH", src |-> 1, dst |-> 2], [type |-> "BRANCH", src |-> 1, dst |-> 3],
     [type |-> "RELATED", src |-> 3, dst |-> 2]}
Retrieval == INSTANCE MemoryRetrieval WITH
    Memories <- 1..4, Sessions <- {"s1"}, LongOnes <- {1, 2, 3}, OriginOf <- <<"s1", "s1", "s1", "s0">>,
    ThreadOnes <- {1}, Relations <- MCRelations, Limits <- [depth |-> 2, edges |-> 3, candidates |-> 2],
    MaxScore <- 1, MaxDrift <- 1, MaxRelations <- 3, MaxIndexes <- 1,
    revision <- v1, readable <- v2, relations <- v3, embeddings <- v4, model <- v5,
    indexes <- v6, index <- v7, retrieval <- v8

Selection == INSTANCE ContextSelection WITH
    Ids <- 1..2, UsedSections <- {"recent_transcript", "displayed"}, Contents <- {"a", "b", "long"},
    Oversized <- {"long"}, MaxMembers <- 3, MaxOrder <- 0, MaxCost <- 1, MaxCapacity <- 2,
    input <- v1, context <- v2, selection <- v3

Unused == 0
InputInit ==
    /\ Init
    /\ \/ /\ part = "director"
          /\ v1 = Unused /\ v2 = Unused /\ v3 = Unused /\ v4 = Unused
          /\ v5 = Unused /\ v6 = Unused /\ v7 = Unused /\ v8 = Unused
       \/ part = "retrieval" /\ Retrieval!Init
       \/ /\ part = "selection" /\ Selection!Init
          /\ v4 = Unused /\ v5 = Unused /\ v6 = Unused /\ v7 = Unused /\ v8 = Unused

\* A step A of one part.
D(A) == part = "director" /\ A /\ UNCHANGED <<part, inputVars>>
R(A) == part = "retrieval" /\ A /\ UNCHANGED <<part, vars>>
S(A) == part = "selection" /\ A /\ UNCHANGED <<part, vars, v4, v5, v6, v7, v8>>

InputNext ==
    \/ D(Speak) \/ D(NextSession) \/ D(Display)
    \/ \E g \in Segments : D(Correct(g))
    \/ \E s \in Sessions : D(PublishActualQuestion(s))
    \/ \E d \in 1..MaxShown : D(WithdrawDisplay(d))
    \/ \E confirmed \in BOOLEAN : D(FreezeOpeningContext(confirmed))
    \/ D(PrepareLive) \/ D(ReadForOpening) \/ D(Freeze) \/ D(BuildContext)
    \/ D(Answer) \/ D(CallFails) \/ D(RequestEvidence) \/ D(TraceEvidence)
    \/ D(EvidenceFails) \/ D(Finish)
    \/ \E m \in 1..4 : R(Retrieval!Evolve(m)) \/ R(Retrieval!Withdraw(m))
    \/ \E r \in MCRelations : R(Retrieval!CreateGraphRelation(r))
    \/ R(Retrieval!DeployModel)
    \/ R(Retrieval!StartIndex) \/ R(Retrieval!IndexEmbed) \/ R(Retrieval!IndexWrite) \/ R(Retrieval!EndIndex)
    \/ R(Retrieval!StartRetrieval("s1")) \/ R(Retrieval!EmbedQuery("s1")) \/ R(Retrieval!ListEmbeddings("s1"))
    \/ R(Retrieval!Expand("s1")) \/ R(Retrieval!Answer("s1")) \/ R(Retrieval!Leave("s1"))
    \/ S(Selection!Assemble) \/ S(Selection!Select)

allVars == <<part, vars, inputVars>>
InputSpec == InputInit /\ [][InputNext]_allVars

-----------------------------------------------------------------------------
\* The distance of a hit is its shortest path under the request's limits (expandGraph).
DistanceIsShortest == part = "retrieval" => Retrieval!DistanceIsShortest
\* What is selected is the longest beginning of the policy order that fits the capacity
\* (ContextSelection's property of that name).
SelectedIsLongestPrefix == part = "selection" => Selection!SelectedIsLongestPrefix
=============================================================================
