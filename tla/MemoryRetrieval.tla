---- MODULE MemoryRetrieval ----
(***************************************************************************)
(* The retrieval layer (P3): long and mid memories are indexed into        *)
(* derived embeddings, related by an append-only graph, and retrieved for  *)
(* a session by meaning and by graph distance.  Every await of the code is *)
(* a step here, so memories evolve, relations are added and the embedding  *)
(* model changes in the middle of an index pass or of a retrieval.         *)
(***************************************************************************)
EXTENDS Integers, FiniteSets, SequencesExt

CONSTANTS
    Memories,       \* layer identities, a set of naturals: their ids are ordered
    Sessions,       \* the sessions of the one project
    LongOnes,       \* the identities whose current layer is long; the rest are mid
    OriginOf,       \* identity -> the session it comes from
    ThreadOnes,     \* the identities that originate in the active thread
    Relations,      \* the relations that may come to exist
    Limits,         \* [depth, edges, candidates]: a request's configuration
    MaxScore,       \* semantic scores are 0 (below the threshold) .. MaxScore
    MaxDrift,       \* bound: evolutions, withdrawals and deployments together
    MaxRelations,   \* bound: relations in the graph
    MaxIndexes      \* bound: index passes started

VARIABLES
    revision,       \* identity -> its current revision
    readable,       \* the identities whose current revision P2 lets be read
    relations,      \* rows of memory_graph_relation, append-only
    embeddings,     \* rows of memory_embedding; ofRevision and byModel are what was embedded, by what
    model,          \* the model the provider answers with
    indexes,        \* index passes started
    index,          \* the running index pass, or NoIndex
    retrieval       \* session -> its retrieval

vars == <<revision, readable, relations, embeddings, model, indexes, index, retrieval>>

\* The alphabetical order in which the query and the code sort the types.
RelationTypes == <<"BRANCH", "CONTINUATION", "RELATED", "RESUME">>
TypeRank(t) == CHOOSE i \in DOMAIN RelationTypes : RelationTypes[i] = t

NoIndex == [at |-> "none"]
NoRetrieval == [at |-> "idle"]

-----------------------------------------------------------------------------
(* Sources and neighbours. *)

\* What P2 lets anyone read: identity -> current revision.
ReadSources == [m \in readable |-> revision[m]]

\* A long memory is for every session, a mid memory for the session it comes from.
IsReadableScope(m, s) == m \in LongOnes \/ OriginOf[m] = s

ScopedSources(s) ==
    [m \in {n \in readable : IsReadableScope(n, s)} |-> revision[m]]

\* A directed relation is followed from its source, RELATED both ways.
Touches(r, m) == r.src = m \/ (r.type = "RELATED" /\ r.dst = m)
NeighborIn(r, m) == IF r.src = m THEN r.dst ELSE r.src

\* Lexicographic order of two triples of numbers.
Before3(a, b) ==
    \/ a[1] < b[1]
    \/ a[1] = b[1] /\ (a[2] < b[2] \/ (a[2] = b[2] /\ a[3] < b[3]))

\* The rows the limited query returns: ordered by type, source and target, then cut.
ListGraphNeighbors(m, limit) ==
    LET row(r) == <<TypeRank(r.type), r.src, r.dst>>
        all == SetToSortSeq({r \in relations : Touches(r, m)},
                            LAMBDA a, b : Before3(row(a), row(b)))
    IN  SubSeq(all, 1, IF Len(all) < limit THEN Len(all) ELSE limit)

\* The order in which the expansion looks at them.
InNeighborOrder(rows, m) ==
    SetToSortSeq(ToSet(rows),
        LAMBDA a, b : Before3(<<TypeRank(a.type), NeighborIn(a, m), a.src>>,
                              <<TypeRank(b.type), NeighborIn(b, m), b.src>>))

-----------------------------------------------------------------------------
(* Candidates. *)

\* (Fault.) The last path found sets the distance.
Merge_Last(cands, m, score, distance) ==
    LET old == IF m \in DOMAIN cands THEN cands[m] ELSE [score |-> 0, distance |-> 0]
        new == [score |-> IF score > old.score THEN score ELSE old.score,
                distance |-> IF distance # 0 THEN distance ELSE old.distance]
    IN  [n \in DOMAIN cands \cup {m} |-> IF n = m THEN new ELSE cands[n]]

\* One candidate: its best score (0: none), its least distance (0: none).
\* Found by meaning and by graph when both are there.
Merge(cands, m, score, distance) ==
    LET old == IF m \in DOMAIN cands THEN cands[m] ELSE [score |-> 0, distance |-> 0]
        new == [score |-> IF score > old.score THEN score ELSE old.score,
                distance |-> IF distance # 0 /\ (old.distance = 0 \/ distance < old.distance)
                             THEN distance ELSE old.distance]
    IN  [n \in DOMAIN cands \cup {m} |-> IF n = m THEN new ELSE cands[n]]

FoundByBoth(c) == c.score > 0 /\ c.distance > 0

\* Both ways first, then the higher score, the shorter distance, mid before
\* long, and the smaller id.
Outranks(cands, m, n) ==
    LET key(k) == <<IF FoundByBoth(cands[k]) THEN 0 ELSE 1,
                    MaxScore - cands[k].score,
                    IF cands[k].distance = 0 THEN Limits.depth + 1 ELSE cands[k].distance>>
        level(k) == IF k \in LongOnes THEN 1 ELSE 0
    IN  \/ Before3(key(m), key(n))
        \/ key(m) = key(n) /\ (level(m) < level(n) \/ (level(m) = level(n) /\ m < n))

TopCandidates(cands) ==
    {m \in DOMAIN cands :
        Cardinality({n \in DOMAIN cands : n # m /\ Outranks(cands, n, m)}) < Limits.candidates}

-----------------------------------------------------------------------------
(* Memories, relations and the deployed model change around P3. *)

Drifted == MapThenSumSet(LAMBDA m : revision[m] - 1, Memories)
             + Cardinality(Memories \ readable) + model - 1

Init ==
    /\ revision = [m \in Memories |-> 1]
    /\ readable = Memories
    /\ relations = {}
    /\ embeddings = {}
    /\ model = 1
    /\ indexes = 0
    /\ index = NoIndex
    /\ retrieval = [s \in Sessions |-> NoRetrieval]

Evolve(m) ==
    /\ m \in readable /\ Drifted < MaxDrift
    /\ revision' = [revision EXCEPT ![m] = @ + 1]
    /\ UNCHANGED <<readable, relations, embeddings, model, indexes, index, retrieval>>

Withdraw(m) ==
    /\ m \in readable /\ Drifted < MaxDrift
    /\ readable' = readable \ {m}
    /\ UNCHANGED <<revision, relations, embeddings, model, indexes, index, retrieval>>

\* A relation is inserted once; a replay of the insert finds the row.
CreateGraphRelation(r) ==
    /\ r.src # r.dst
    /\ Cardinality(relations) < MaxRelations
    /\ relations' = relations \cup {r}
    /\ UNCHANGED <<revision, readable, embeddings, model, indexes, index, retrieval>>

DeployModel ==
    /\ Drifted < MaxDrift
    /\ model' = model + 1
    /\ UNCHANGED <<revision, readable, relations, embeddings, indexes, index, retrieval>>

-----------------------------------------------------------------------------
(* The index pass. *)

\* The caller names the version it expects; the sources are read once.
StartIndex ==
    /\ index = NoIndex /\ indexes < MaxIndexes
    /\ indexes' = indexes + 1
    /\ index' = [at |-> "embed", version |-> model, sources |-> ReadSources, left |-> readable]
    /\ UNCHANGED <<revision, readable, relations, embeddings, model, retrieval>>

\* The provider's answer must come from the version the pass was asked for.
AssertEmbeddingResult(version, by) == by = version

IndexEmbed ==
    /\ index.at = "embed" /\ index.left # {}
    /\ LET m == CHOOSE n \in index.left : \A k \in index.left : n <= k
       IN  index' = IF AssertEmbeddingResult(index.version, model)
                    THEN [at |-> "embedded", version |-> index.version,
                          sources |-> index.sources, left |-> index.left,
                          of |-> m, by |-> model]
                    ELSE NoIndex
    /\ UNCHANGED <<revision, readable, relations, embeddings, model, indexes, retrieval>>

\* A memory that moved during the call is skipped.
SameCurrentContent(m) == m \in readable /\ revision[m] = index.sources[m]

\* The row the pass writes is keyed by the revision it read at the start.
IndexedRow(m) ==
    [mem |-> m, rev |-> index.sources[m], version |-> index.version,
     ofRevision |-> index.sources[m], byModel |-> index.by]

UpsertEmbedding(rows, row) ==
    {r \in rows : <<r.mem, r.rev, r.version>> # <<row.mem, row.rev, row.version>>} \cup {row}

IndexWrite ==
    /\ index.at = "embedded"
    /\ embeddings' = IF SameCurrentContent(index.of)
                     THEN UpsertEmbedding(embeddings, IndexedRow(index.of)) ELSE embeddings
    /\ index' = [at |-> "embed", version |-> index.version,
                 sources |-> index.sources, left |-> index.left \ {index.of}]
    /\ UNCHANGED <<revision, readable, relations, model, indexes, retrieval>>

\* The pass ends, or the provider or the process fails in the middle of it.
EndIndex ==
    /\ index.at # "none"
    /\ index' = NoIndex
    /\ UNCHANGED <<revision, readable, relations, embeddings, model, indexes, retrieval>>

-----------------------------------------------------------------------------
(* A retrieval. *)

StartRetrieval(s) ==
    /\ retrieval[s].at = "idle"
    /\ retrieval' = [retrieval EXCEPT ![s] =
          [at |-> "embed", sources |-> ScopedSources(s)]]
    /\ UNCHANGED <<revision, readable, relations, embeddings, model, indexes, index>>

EmbedQuery(s) ==
    /\ retrieval[s].at = "embed"
    /\ retrieval' = [retrieval EXCEPT ![s] =
          [at |-> "list", sources |-> retrieval[s].sources, by |-> model]]
    /\ UNCHANGED <<revision, readable, relations, embeddings, model, indexes, index>>

\* An embedding counts when it is of the revision read and of the query's model.
IsCurrentEmbedding(e, sources, by) ==
    /\ e.mem \in DOMAIN sources
    /\ e.rev = sources[e.mem]
    /\ e.version = by

\* Semantic hits seed the graph, and so does every memory of the active thread.
\* "since" and "whole" are history: the graph at this moment, and that no row
\* was cut by the budget.
ListEmbeddings(s) ==
    LET q == retrieval[s]
        usable == {e \in embeddings : IsCurrentEmbedding(e, q.sources, q.by)}
    IN  /\ q.at = "list"
        /\ \E score \in [usable -> 0..MaxScore] :
             LET hits == {e \in usable : score[e] > 0}
                 seeds == {e.mem : e \in hits} \cup (ThreadOnes \cap DOMAIN q.sources)
             IN  retrieval' = [retrieval EXCEPT ![s] =
                   [at |-> "expand", sources |-> q.sources, by |-> q.by, hits |-> hits,
                    cands |-> [m \in {e.mem : e \in hits} |->
                                 [score |-> score[CHOOSE e \in hits : e.mem = m],
                                  distance |-> 0]],
                    seeds |-> seeds,
                    queue |-> [i \in 1..Cardinality(seeds) |->
                                 [mem |-> SetToSortSeq(seeds, <)[i], distance |-> 0]],
                    visited |-> <<>>, budget |-> Limits.edges,
                    since |-> relations, whole |-> TRUE]]
        /\ UNCHANGED <<revision, readable, relations, embeddings, model, indexes, index>>

\* A queue item beyond the depth or already visited as near is passed over.
PassedOver(q, item) ==
    \/ item.distance >= Limits.depth
    \/ item.mem \in DOMAIN q.visited /\ q.visited[item.mem] <= item.distance

\* A neighbour that was pushed or visited nearer is not queued again.
Queued(q, m, distance) ==
    /\ distance < Limits.depth
    /\ m \in DOMAIN q.visited => distance < q.visited[m]

Expand(s) ==
    LET q == retrieval[s] IN
    /\ q.at = "expand" /\ q.queue # <<>> /\ q.budget > 0
    /\ LET item == Head(q.queue)
           next == item.distance + 1
           rows == ListGraphNeighbors(item.mem, q.budget)
           seen == [m \in DOMAIN q.visited \cup {item.mem} |->
                      IF m = item.mem THEN item.distance ELSE q.visited[m]]
           known == SelectSeq(InNeighborOrder(rows, item.mem),
                              LAMBDA r : NeighborIn(r, item.mem) \in DOMAIN q.sources)
           push == SelectSeq([i \in DOMAIN known |-> [mem |-> NeighborIn(known[i], item.mem),
                                                      distance |-> next]],
                             LAMBDA i : Queued([q EXCEPT !.visited = seen], i.mem, next))
       IN  retrieval' = [retrieval EXCEPT ![s] =
             IF PassedOver(q, item) THEN [q EXCEPT !.queue = Tail(@)]
             ELSE [q EXCEPT !.queue = Tail(@) \o push,
                            !.visited = seen,
                            !.budget = @ - Len(rows),
                            !.whole = @ /\ Len(rows) = Cardinality({r \in relations : Touches(r, item.mem)}),
                            !.cands = FoldLeft(LAMBDA c, r : Merge(c, NeighborIn(r, item.mem), 0, next),
                                               @, known)]]
    /\ UNCHANGED <<revision, readable, relations, embeddings, model, indexes, index>>

\* The expansion is over when the queue is empty or the budget is spent.
Answer(s) ==
    LET q == retrieval[s] IN
    /\ q.at = "expand" /\ (q.queue = <<>> \/ q.budget = 0)
    /\ retrieval' = [retrieval EXCEPT ![s] =
          [at |-> "answered", sources |-> q.sources, by |-> q.by, hits |-> q.hits,
           cands |-> q.cands, seeds |-> q.seeds, since |-> q.since,
           whole |-> q.whole /\ q.queue = <<>>,
           answer |-> TopCandidates(q.cands)]]
    /\ UNCHANGED <<revision, readable, relations, embeddings, model, indexes, index>>

\* The caller takes the answer, or the provider or the database fails under it.
Leave(s) ==
    /\ retrieval[s].at # "idle"
    /\ retrieval' = [retrieval EXCEPT ![s] = NoRetrieval]
    /\ UNCHANGED <<revision, readable, relations, embeddings, model, indexes, index>>

Next ==
    \/ \E m \in Memories : Evolve(m) \/ Withdraw(m)
    \/ \E r \in Relations : CreateGraphRelation(r)
    \/ DeployModel
    \/ StartIndex \/ IndexEmbed \/ IndexWrite \/ EndIndex
    \/ \E s \in Sessions :
         \/ StartRetrieval(s) \/ EmbedQuery(s) \/ ListEmbeddings(s)
         \/ Expand(s) \/ Answer(s) \/ Leave(s)

Spec == Init /\ [][Next]_vars

-----------------------------------------------------------------------------
(* Properties. *)

\* The memories a walk of exactly k relations from the seeds ends in, every
\* memory of it readable by the requester.
Reached[k \in 0..Limits.depth, rels \in SUBSET Relations,
        seeds \in SUBSET Memories, open \in SUBSET Memories] ==
    IF k = 0 THEN seeds
    ELSE {n \in open : \E r \in rels, m \in Reached[k - 1, rels, seeds, open] :
             Touches(r, m) /\ NeighborIn(r, m) = n}

Within(k, rels, seeds, open) == UNION {Reached[j, rels, seeds, open] : j \in 1..k}

\* The graph distance of an answer is a shortest walk: a memory is given
\* distance d only when the graph as it is now has a walk of at most d relations
\* from a seed, and when no row was cut by the edge budget every memory within
\* d relations of a seed in the graph as the expansion found it is given at most
\* d (expandGraph: one query per node, other transactions add relations between
\* two queries).
DistanceIsShortest ==
    \A s \in Sessions : retrieval[s].at = "answered" =>
        LET q == retrieval[s] IN \A d \in 1..Limits.depth :
          /\ {m \in DOMAIN q.cands : q.cands[m].distance = d}
               \subseteq Within(d, relations, q.seeds, DOMAIN q.sources)
          /\ q.whole =>
               \A m \in Within(d, q.since, q.seeds, DOMAIN q.sources) :
                 m \in DOMAIN q.cands /\ q.cands[m].distance \in 1..d

====
