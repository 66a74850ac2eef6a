---------------------------- MODULE MetricGraph ----------------------------
(***************************************************************************)
(* The metric graph in Neo4j, a derived index over the metric tables, and  *)
(* the search_metrics tool.  A sync reads the three tables one after the   *)
(* other and then replaces the graph in one transaction; a search reads    *)
(* the graph in four.  Nothing keeps syncs, searches and the admin's       *)
(* writes apart.                                                           *)
(***************************************************************************)
EXTENDS MetricCatalog

CONSTANTS
    Syncer,   \* one element per POST /metric-graph/sync
    Searcher, \* one element per call of search_metrics
    Limit,    \* the tool's argument "limit"
    MaxBusy   \* bound: how many of the requests turn up in one behaviour

ASSUME LimitAssumption == Limit \in Nat \ {0} /\ MaxBusy \in Nat

VARIABLES
    graph,  \* the nodes and edges in Neo4j
    index,  \* whether the fulltext index exists
    sync,   \* the sync requests
    find,   \* the searches
    mirror  \* history: the last rebuild saw the tables as they still are

graphVars == <<graph, index, sync, find, mirror>>
allVars == <<rows, spent, edit, deleted, excused, graph, index, sync, find, mirror>>

Edge == Id \X Id
EmptyGraph == [nodes |-> {}, edges |-> {}]

SyncPhase == {"new", "indexing", "atomic", "derived", "composite", "rebuild",
              "done"}
FindPhase == {"new", "expand", "nodes", "edges", "fallback", "more", "done"}

GraphTypeOK ==
    /\ CatalogTypeOK
    /\ graph.nodes \subseteq Id /\ graph.edges \subseteq Edge
    /\ index \in BOOLEAN /\ mirror \in BOOLEAN
    /\ \A s \in Syncer : /\ sync[s].pc \in SyncPhase /\ sync[s].clean \in BOOLEAN
                         /\ \A id \in Id : sync[s].read[id] \in RowsOf(id) \cup {None}
    /\ \A f \in Searcher : /\ find[f].pc \in FindPhase /\ find[f].steady \in BOOLEAN
                           /\ find[f].seeds \cup find[f].ids \cup find[f].nodes \subseteq Id
                           /\ find[f].edges \subseteq Edge
                           /\ find[f].parts \in Nat

\* A request that does not run has read nothing.
Idle(phase) == [pc |-> phase, read |-> [id \in Id |-> None], clean |-> TRUE]

NoFind(phase) ==
    [pc |-> phase, seeds |-> {}, ids |-> {}, nodes |-> {}, edges |-> {},
     steady |-> TRUE, parts |-> 0]

GraphInit ==
    \E busy \in SUBSET (Editor \cup Syncer \cup Searcher) :
        LET Starts(r) == IF r \in busy THEN "new" ELSE "done"
        IN  /\ Cardinality(busy) <= MaxBusy
            /\ CatalogInit
            /\ edit = [e \in Editor |-> [pc |-> Starts(e), id |-> None]]
            /\ sync = [s \in Syncer |-> Idle(Starts(s))]
            /\ find = [f \in Searcher |-> NoFind(Starts(f))]
            /\ graph = EmptyGraph
            /\ index = FALSE
            /\ mirror = FALSE

-----------------------------------------------------------------------------
(* Sync.                                                                   *)

EdgesOf(read) ==
    {e \in Edge : read[e[1]] # None /\ \E k \in DOMAIN read[e[1]] : read[e[1]][k] = e[2]}

\* A row becomes a node, a reference an edge if MATCH finds both ends.
GraphOf(read) ==
    LET nodes == {id \in Id : read[id] # None}
    IN  [nodes |-> nodes,
         edges |-> {e \in EdgesOf(read) : e[1] \in nodes /\ e[2] \in nodes}]

Advance(s, from, to) ==
    /\ sync[s].pc = from
    /\ sync' = [sync EXCEPT ![s].pc = to]
    /\ UNCHANGED catVars /\ UNCHANGED <<graph, find, mirror>>

\* connect() and ensure_indexes(): two statements, each its own transaction.
DropIndex(s)   == Advance(s, "new", "indexing") /\ index' = FALSE
CreateIndex(s) == Advance(s, "indexing", "atomic") /\ index' = TRUE

\* One list call: the snapshot takes over the rows of one table.
ReadTable(s, from, to, table) ==
    /\ sync[s].pc = from
    /\ sync' = [sync EXCEPT
         ![s].pc = to,
         ![s].read = [id \in Id |-> IF id \in table THEN rows[id] ELSE @[id]],
         ![s].clean = IF from = "atomic" THEN TRUE ELSE @]
    /\ UNCHANGED catVars /\ UNCHANGED <<graph, index, find, mirror>>

ReadTables(s) ==
    \/ ReadTable(s, "atomic", "derived", Atomic)
    \/ ReadTable(s, "derived", "composite", Derived)
    \/ ReadTable(s, "composite", "rebuild", Composite)

\* Mutant: what a sync no longer finds stays in the graph.
RebuildOver(s) ==
    /\ sync[s].pc = "rebuild"
    /\ graph' = [nodes |-> graph.nodes \cup GraphOf(sync[s].read).nodes,
                 edges |-> graph.edges \cup GraphOf(sync[s].read).edges]
    /\ sync' = [sync EXCEPT ![s] = Idle("done")]
    /\ mirror' = sync[s].clean
    /\ find' = [f \in Searcher |-> [find[f] EXCEPT !.steady = FALSE]]
    /\ UNCHANGED catVars /\ UNCHANGED index

Rebuild(s) ==
    /\ sync[s].pc = "rebuild"
    /\ graph' = GraphOf(sync[s].read)
    /\ sync' = [sync EXCEPT ![s] = Idle("done")]
    /\ mirror' = sync[s].clean
    /\ find' = [f \in Searcher |-> [find[f] EXCEPT !.steady = FALSE]]
    /\ UNCHANGED catVars /\ UNCHANGED index

\* Neo4j or PostgreSQL fails: a structured 500, and no more steps.
SyncFails(s) ==
    /\ sync[s].pc \notin {"new", "done"}
    /\ sync' = [sync EXCEPT ![s] = Idle("done")]
    /\ UNCHANGED catVars /\ UNCHANGED <<graph, index, find, mirror>>

-----------------------------------------------------------------------------
(* search_metrics over the graph.                                          *)

Near(ids) ==
    ids \cup {id \in Id : \E e \in graph.edges :
                 \/ e[1] = id /\ e[2] \in ids
                 \/ e[2] = id /\ e[1] \in ids}

Put(f, record) ==
    /\ find' = [find EXCEPT ![f] = record]
    /\ UNCHANGED catVars /\ UNCHANGED <<graph, index, sync, mirror>>

\* Fulltext, or CONTAINS when it finds nothing; at most "limit" seeds.
Seed(f) ==
    /\ find[f].pc = "new" /\ index
    /\ \E seeds \in SUBSET graph.nodes :
        /\ seeds # {} /\ Cardinality(seeds) <= Limit
        /\ Put(f, [find[f] EXCEPT !.pc = "expand", !.seeds = seeds, !.steady = TRUE])

\* Mutant: one hop.
ExpandOnce(f) ==
    /\ find[f].pc = "expand"
    /\ Put(f, [find[f] EXCEPT !.pc = "nodes", !.ids = find[f].seeds \cup
                 Near(find[f].seeds \cap graph.nodes)])

\* Everything within two hops of a seed, in either direction, and the seeds.
Expand(f) ==
    /\ find[f].pc = "expand"
    /\ Put(f, [find[f] EXCEPT !.pc = "nodes", !.ids = find[f].seeds \cup
                 Near(Near(find[f].seeds \cap graph.nodes))])

\* No node any more: no text, and the tool falls back.
LoadNodes(f) ==
    LET nodes == find[f].ids \cap graph.nodes
    IN  /\ find[f].pc = "nodes"
        /\ Put(f, [find[f] EXCEPT !.pc = "edges", !.nodes = nodes])

LoadEdges(f) ==
    /\ find[f].pc = "edges"
    /\ Put(f, [find[f] EXCEPT
         !.pc = IF find[f].nodes = {} THEN "fallback" ELSE "done",
         !.edges = {e \in graph.edges : e[1] \in find[f].ids /\ e[2] \in find[f].ids}])

-----------------------------------------------------------------------------
(* _format_graph_subgraph_for_llm: what the text mentions.                 *)

\* A derived metric below a composite, and the atomic metric below that.
ChainBelow(nodes, edges, id) ==
    {d \in nodes : <<id, d>> \in edges}

Chains(nodes, edges, tops) ==
    LET first == UNION {ChainBelow(nodes, edges, id) : id \in tops}
    IN  tops \cup first \cup UNION {ChainBelow(nodes, edges, id) : id \in first \cap Derived}

\* Composite chains, then the derived metrics not yet visited, then the atomic.
Shown(nodes, edges) ==
    LET one   == Chains(nodes, edges, nodes \cap Composite)
        two   == one \cup Chains(nodes, edges, (nodes \cap Derived) \ one)
    IN  two \cup ((nodes \cap Atomic) \ two)

-----------------------------------------------------------------------------
(* The fallback to the tables.                                             *)

\* No seed, no index, or Neo4j does not answer.
FallBack(f) ==
    /\ find[f].pc \in {"new", "expand", "nodes", "edges"}
    /\ Put(f, [find[f] EXCEPT !.pc = "fallback", !.nodes = {}, !.edges = {}])

SearchAtomic(f) ==
    /\ find[f].pc = "fallback"
    /\ \E hits \in SUBSET ListAtomic :
        /\ Cardinality(hits) <= Limit
        /\ Put(f, [find[f] EXCEPT !.pc = "more", !.parts = Cardinality(hits),
             !.ids = hits \cup UNION {DerivedOf(a) : a \in hits}])

\* The atomic search is the one call of the tool that may fail it.
SearchBreaks(f) ==
    /\ find[f].pc = "fallback"
    /\ Put(f, [find[f] EXCEPT !.pc = "done"])

\* limit=max(2, args.limit - len(result_parts)), if there is room at all.
SearchDerived(f) ==
    /\ find[f].pc = "more"
    /\ \E hits \in SUBSET ListDerived :
        /\ Cardinality(hits) <= IF find[f].parts >= Limit THEN 0
                                ELSE IF Limit > find[f].parts + 2
                                THEN Limit - find[f].parts ELSE 2
        /\ Put(f, [find[f] EXCEPT !.pc = "done", !.ids = @ \cup hits,
                     !.parts = @ + Cardinality(hits)])

-----------------------------------------------------------------------------

\* A write to the tables makes what syncs have read, and the graph, stale.
CatalogStep ==
    /\ CatalogNext
    /\ IF rows' = rows
       THEN UNCHANGED <<sync, mirror>>
       ELSE /\ sync' = [s \in Syncer |-> [sync[s] EXCEPT !.clean = FALSE]]
            /\ mirror' = FALSE
    /\ UNCHANGED <<graph, index, find>>

SyncStep(s) ==
    \/ DropIndex(s) \/ CreateIndex(s) \/ ReadTables(s) \/ Rebuild(s) \/ SyncFails(s)

FindStep(f) ==
    \/ Seed(f) \/ Expand(f) \/ LoadNodes(f) \/ LoadEdges(f)
    \/ FallBack(f) \/ SearchAtomic(f) \/ SearchBreaks(f)
    \/ SearchDerived(f)

GraphNext ==
    \/ CatalogStep
    \/ \E s \in Syncer : SyncStep(s)
    \/ \E f \in Searcher : FindStep(f)

GraphSpec == GraphInit /\ [][GraphNext]_allVars

-----------------------------------------------------------------------------

\* After a sync that no write overlapped, and until the next write, the graph
\* is the image of the tables: deleted metrics are gone from it, and a
\* reference to a deleted metric has no edge (metric_graph_store.py:204-303).
GraphMirrors == mirror => graph = GraphOf(rows)

\* The text of a search names the metrics that were loaded and no others, even
\* when nodes and edges come from two different graphs; and unless a sync came
\* between the reads, everything a hit is built from reaches the LLM: the text
\* names every metric below a seed (metric_graph_store.py:416, "2-hop
\* expansion"; metric_tools.py:168-297).
SearchIsShown ==
    \A f \in Searcher : find[f].pc = "done" /\ find[f].nodes # {} =>
        LET shown == Shown(find[f].nodes, find[f].edges)
        IN  /\ shown = find[f].nodes
            /\ find[f].steady =>
                  Chains(graph.nodes, graph.edges, find[f].seeds) \subseteq shown
=============================================================================
