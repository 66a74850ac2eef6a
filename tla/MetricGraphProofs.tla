------------------------- MODULE MetricGraphProofs -------------------------
(***************************************************************************)
(* Proofs that a deleted metric comes back only through a PUT that had     *)
(* found it, that an undisturbed sync makes the graph the image of the     *)
(* tables, and that a search shows what it found, for all sets of metrics  *)
(* and any number of requests; at the end, that the types hold.            *)
(***************************************************************************)
EXTENDS MetricGraph, FiniteSetTheorems, TLAPS

Editing == {"found", "checked"}

(* The tables and the requests have their shapes.                          *)
CatalogShape ==
    /\ DOMAIN rows = Id /\ rows = [id \in Id |-> rows[id]]
    /\ DOMAIN edit = Editor
    /\ \A e \in Editor : DOMAIN edit[e] = {"pc", "id"}
    /\ deleted \subseteq spent

(* Every row has an id that was handed out.                                *)
RowsAreSpent == \A id \in Id : Exists(id) => id \in spent

(* A PUT on its way has an id that was handed out; if it was deleted since *)
(* the PUT found it, that is excused.                                      *)
EditsAreExcused ==
    \A e \in Editor : edit[e].pc \in Editing =>
        /\ edit[e].id \in Id \cap spent
        /\ edit[e].id \in deleted => edit[e].id \in excused

DeletedInv ==
    /\ CatalogShape
    /\ RowsAreSpent
    /\ EditsAreExcused
    /\ deleted \subseteq Id
    /\ DeletedStaysDeleted

LEMMA CatalogInitial == CatalogInit => DeletedInv
  BY DEF CatalogInit, DeletedInv, CatalogShape, RowsAreSpent, EditsAreExcused, DeletedStaysDeleted,
         Exists, Editing, NoEdit, Answered

(* A request that ends, and one that looks its metric up.                  *)
LEMMA Arrives ==
    ASSUME DeletedInv, NEW e \in Editor, Arrive(e), UNCHANGED <<rows, spent, deleted, excused>>
    PROVE  DeletedInv'
  BY DEF Arrive, Answered, DeletedInv, CatalogShape, RowsAreSpent, EditsAreExcused,
         DeletedStaysDeleted, Exists, Editing

LEMMA Looks ==
    ASSUME DeletedInv, NEW e \in Editor, NEW id \in Id, Look(e, id),
           UNCHANGED <<rows, spent, deleted, excused>>
    PROVE  DeletedInv'
  BY DEF Look, Answered, DeletedInv, CatalogShape, RowsAreSpent, EditsAreExcused,
         DeletedStaysDeleted, Exists, Editing

LEMMA Posts ==
    ASSUME DeletedInv, NEW id \in Id, NEW row, rows' = [rows EXCEPT ![id] = row],
           Fresh(id), UNCHANGED <<edit, deleted, excused>>
    PROVE  DeletedInv'
  BY DEF Fresh, DeletedInv, CatalogShape, RowsAreSpent, EditsAreExcused, DeletedStaysDeleted,
         Exists, Editing

LEMMA Puts ==
    ASSUME DeletedInv, NEW e \in Editor, NEW row, edit[e].pc \in Editing,
           rows' = [rows EXCEPT ![edit[e].id] = row],
           Arrive(e), UNCHANGED <<spent, deleted, excused>>
    PROVE  DeletedInv'
  BY DEF Arrive, Answered, DeletedInv, CatalogShape, RowsAreSpent, EditsAreExcused,
         DeletedStaysDeleted, Exists, Editing

LEMMA Removes ==
    ASSUME DeletedInv, NEW ids \in SUBSET Id, Remove(ids)
    PROVE  DeletedInv'
  BY DEF Remove, DeletedInv, CatalogShape, RowsAreSpent, EditsAreExcused, DeletedStaysDeleted,
         Exists, Editing

LEMMA CatalogPreserves == DeletedInv /\ [CatalogNext]_catVars => DeletedInv'
  <1> SUFFICES ASSUME DeletedInv, [CatalogNext]_catVars
               PROVE  DeletedInv'
    OBVIOUS
  <1>i. Atomic \subseteq Id /\ Derived \subseteq Id /\ Composite \subseteq Id
    BY DEF Id
  <1>1. CASE UNCHANGED catVars
    BY <1>1 DEF catVars, DeletedInv, CatalogShape, RowsAreSpent, EditsAreExcused,
                DeletedStaysDeleted, Exists
  <1>2. ASSUME NEW id \in Atomic, PostAtomic(id) PROVE DeletedInv'
    BY <1>2, <1>i, Posts DEF PostAtomic, UpsertAtomic
  <1>3. ASSUME NEW id \in Derived, PostDerived(id) PROVE DeletedInv'
    BY <1>3, <1>i, Posts DEF PostDerived, UpsertDerived
  <1>4. ASSUME NEW id \in Composite, PostComposite(id) PROVE DeletedInv'
    BY <1>4, <1>i, Posts DEF PostComposite, UpsertComposite
  <1>5. ASSUME NEW id \in Id, DeleteAtomic(id) \/ DeleteDerived(id) \/ DeleteComposite(id)
        PROVE  DeletedInv'
    BY <1>5, Removes DEF DeleteAtomic, DeleteDerived, DeleteComposite
  <1>6. CASE BatchDeleteDerived(Derived)
    BY <1>6, <1>i, Removes DEF BatchDeleteDerived
  <1>7. ASSUME NEW e \in Editor, NEW id \in Id,
               FindAtomic(e, id) \/ FindDerived(e, id) \/ FindComposite(e, id)
        PROVE  DeletedInv'
    BY <1>7, Looks DEF FindAtomic, FindDerived, FindComposite
  <1>8. ASSUME NEW e \in Editor, PutAtomic(e) PROVE DeletedInv'
    <2>1. /\ edit[e].pc \in Editing /\ Arrive(e) /\ UNCHANGED <<spent, deleted, excused>>
          /\ rows' = [rows EXCEPT ![edit[e].id] = <<>>]
      BY <1>8 DEF PutAtomic, UpsertAtomic, Editing
    <2> QED
      BY <2>1, Puts
  <1>9. ASSUME NEW e \in Editor, CheckDerived(e) \/ CheckComposite(e) PROVE DeletedInv'
    <2>1. /\ edit[e].pc = "found" /\ UNCHANGED <<rows, spent, deleted, excused>>
          /\ edit' = [edit EXCEPT ![e].pc = "checked"] \/ Arrive(e)
      BY <1>9 DEF CheckDerived, CheckComposite
    <2>2. CASE Arrive(e)
      BY <2>1, <2>2, Arrives
    <2>3. CASE edit' = [edit EXCEPT ![e].pc = "checked"]
      BY <2>1, <2>3 DEF DeletedInv, CatalogShape, RowsAreSpent, EditsAreExcused,
                        DeletedStaysDeleted, Exists, Editing
    <2> QED
      BY <2>1, <2>2, <2>3
  <1>10. ASSUME NEW e \in Editor, PutDerived(e) \/ PutComposite(e) PROVE DeletedInv'
    BY <1>10, Puts DEF PutDerived, PutComposite, UpsertDerived, UpsertComposite, Editing
  <1> QED
    BY <1>1, <1>2, <1>3, <1>4, <1>5, <1>6, <1>7, <1>8, <1>9, <1>10, <1>i DEF CatalogNext

-----------------------------------------------------------------------------
(* The sync requests have their shapes, and what they read is a table.     *)
SyncShape ==
    /\ DOMAIN sync = Syncer
    /\ \A s \in Syncer : /\ DOMAIN sync[s] = {"pc", "read", "clean"}
                         /\ sync[s].clean \in BOOLEAN
                         /\ sync[s].read = [id \in Id |-> sync[s].read[id]]

(* A sync that no write has overlapped has read the rows as they are.      *)
CleanReads ==
    \A s \in Syncer : sync[s].clean =>
        /\ sync[s].pc \in {"derived", "composite", "rebuild"} =>
              \A id \in Atomic : sync[s].read[id] = rows[id]
        /\ sync[s].pc \in {"composite", "rebuild"} =>
              \A id \in Derived : sync[s].read[id] = rows[id]
        /\ sync[s].pc = "rebuild" => \A id \in Composite : sync[s].read[id] = rows[id]

MirrorInv ==
    /\ SyncShape
    /\ CleanReads
    /\ GraphMirrors

GraphInv == DeletedInv /\ MirrorInv

LEMMA GraphInitial == GraphInit => GraphInv
  <1> SUFFICES ASSUME GraphInit
               PROVE  GraphInv
    OBVIOUS
  <1>1. DeletedInv
    BY CatalogInitial DEF GraphInit
  <1>2. PICK busy : /\ sync = [s \in Syncer |-> Idle(IF s \in busy THEN "new" ELSE "done")]
                    /\ mirror = FALSE
    BY DEF GraphInit
  <1>3. \A s \in Syncer : /\ DOMAIN sync[s] = {"pc", "read", "clean"}
                          /\ sync[s].clean = TRUE
                          /\ sync[s].pc \in {"new", "done"}
                          /\ sync[s].read = [id \in Id |-> None]
    BY <1>2 DEF Idle
  <1>4. \A s \in Syncer : sync[s].read = [id \in Id |-> sync[s].read[id]]
    BY <1>3
  <1> QED
    BY <1>1, <1>2, <1>3, <1>4 DEF GraphInv, MirrorInv, SyncShape, CleanReads, GraphMirrors

(* Writes to the tables.                                                   *)
LEMMA CatalogStepKeeps ==
    ASSUME GraphInv, CatalogStep
    PROVE  GraphInv'
  <1>1. DeletedInv'
    BY CatalogPreserves DEF CatalogStep, GraphInv
  <1>2. CASE rows' = rows
    <2>1. UNCHANGED <<rows, sync, mirror, graph>>
      BY <1>2 DEF CatalogStep
    <2> QED
      BY <1>1, <2>1
      DEF GraphInv, MirrorInv, SyncShape, CleanReads, GraphMirrors, GraphOf, EdgesOf
  <1>3. CASE rows' # rows
    <2>1. /\ sync' = [s \in Syncer |-> [sync[s] EXCEPT !.clean = FALSE]]
          /\ mirror' = FALSE
      BY <1>3 DEF CatalogStep
    <2>2. SyncShape
      BY DEF GraphInv, MirrorInv
    <2>3. \A s \in Syncer : /\ DOMAIN sync'[s] = {"pc", "read", "clean"}
                            /\ sync'[s].clean = FALSE
                            /\ sync'[s].read = sync[s].read
      BY <2>1, <2>2 DEF SyncShape
    <2>4. SyncShape'
      BY <2>1, <2>2, <2>3 DEF SyncShape
    <2> QED
      BY <1>1, <2>1, <2>3, <2>4 DEF GraphInv, MirrorInv, CleanReads, GraphMirrors
  <1> QED
    BY <1>2, <1>3

(* A sync that moves on without reading or writing.                        *)
LEMMA SyncMoves ==
    ASSUME GraphInv, NEW s \in Syncer, NEW from, NEW to \in {"indexing", "atomic"},
           Advance(s, from, to)
    PROVE  GraphInv'
  <1>1. UNCHANGED <<rows, spent, edit, deleted, excused, graph, mirror>>
    BY DEF Advance, catVars
  <1>2. DeletedInv'
    BY <1>1 DEF GraphInv, DeletedInv, CatalogShape, RowsAreSpent, EditsAreExcused,
                DeletedStaysDeleted, Exists
  <1>3. SyncShape
    BY DEF GraphInv, MirrorInv
  <1>4. /\ DOMAIN sync' = Syncer
        /\ \A t \in Syncer \ {s} : sync'[t] = sync[t]
        /\ DOMAIN sync'[s] = {"pc", "read", "clean"}
        /\ sync'[s].pc = to
        /\ sync'[s].read = sync[s].read
        /\ sync'[s].clean = sync[s].clean
    BY <1>3 DEF Advance, SyncShape
  <1>5. SyncShape'
    BY <1>3, <1>4 DEF SyncShape
  <1>6. CleanReads' /\ GraphMirrors'
    BY <1>1, <1>4 DEF GraphInv, MirrorInv, CleanReads, GraphMirrors, GraphOf, EdgesOf
  <1> QED
    BY <1>2, <1>5, <1>6 DEF GraphInv, MirrorInv

(* A sync that ends, by failure or by the rebuild.                         *)
LEMMA SyncEnds ==
    ASSUME GraphInv, NEW s \in Syncer, sync' = [sync EXCEPT ![s] = Idle("done")],
           UNCHANGED catVars, GraphMirrors'
    PROVE  GraphInv'
  <1>1. UNCHANGED <<rows, spent, edit, deleted, excused>>
    BY DEF catVars
  <1>2. DeletedInv'
    BY <1>1 DEF GraphInv, DeletedInv, CatalogShape, RowsAreSpent, EditsAreExcused,
                DeletedStaysDeleted, Exists
  <1>3. SyncShape
    BY DEF GraphInv, MirrorInv
  <1>4. /\ DOMAIN sync' = Syncer
        /\ \A t \in Syncer \ {s} : sync'[t] = sync[t]
        /\ DOMAIN sync'[s] = {"pc", "read", "clean"}
        /\ sync'[s].pc = "done"
        /\ sync'[s].read = [id \in Id |-> None]
        /\ sync'[s].clean = TRUE
    BY <1>3 DEF SyncShape, Idle
  <1>5. sync'[s].read = [id \in Id |-> sync'[s].read[id]]
    BY <1>4
  <1>6. SyncShape'
    BY <1>3, <1>4, <1>5 DEF SyncShape
  <1>7. CleanReads'
    BY <1>1, <1>4 DEF GraphInv, MirrorInv, CleanReads
  <1> QED
    BY <1>2, <1>6, <1>7 DEF GraphInv, MirrorInv

(* One more table has been read: the others are as clean as before.        *)
LEMMA SyncReads ==
    ASSUME GraphInv, NEW s \in Syncer, ReadTables(s)
    PROVE  GraphInv'
  <1> USE CatalogAssumption
  <1>1. UNCHANGED <<rows, spent, edit, deleted, excused, graph, mirror>>
    BY DEF ReadTables, ReadTable, catVars
  <1>2. DeletedInv'
    BY <1>1 DEF GraphInv, DeletedInv, CatalogShape, RowsAreSpent, EditsAreExcused,
                DeletedStaysDeleted, Exists
  <1>3. SyncShape /\ CleanReads /\ GraphMirrors
    BY DEF GraphInv, MirrorInv
  <1>4. PICK from, to, table :
          /\ <<from, to, table>> \in {<<"atomic", "derived", Atomic>>,
                                      <<"derived", "composite", Derived>>,
                                      <<"composite", "rebuild", Composite>>}
          /\ ReadTable(s, from, to, table)
    BY DEF ReadTables
  <1>5. /\ sync[s].pc = from
        /\ DOMAIN sync' = Syncer
        /\ \A t \in Syncer \ {s} : sync'[t] = sync[t]
        /\ DOMAIN sync'[s] = {"pc", "read", "clean"}
        /\ sync'[s].pc = to
        /\ sync'[s].read = [id \in Id |-> IF id \in table THEN rows[id] ELSE sync[s].read[id]]
        /\ sync'[s].clean = IF from = "atomic" THEN TRUE ELSE sync[s].clean
    BY <1>3, <1>4 DEF ReadTable, SyncShape
  <1>6. sync'[s].read = [id \in Id |-> sync'[s].read[id]]
    BY <1>5
  <1>7. SyncShape'
    <2>1. sync'[s].clean \in BOOLEAN
      BY <1>3, <1>5 DEF SyncShape
    <2>2. \A t \in Syncer : /\ DOMAIN sync'[t] = {"pc", "read", "clean"}
                            /\ sync'[t].clean \in BOOLEAN
                            /\ sync'[t].read = [id \in Id |-> sync'[t].read[id]]
      BY <2>1, <1>3, <1>5, <1>6 DEF SyncShape
    <2> QED
      BY <2>2, <1>5 DEF SyncShape
  <1>8. \A id \in Id : sync'[s].read[id] = IF id \in table THEN rows[id] ELSE sync[s].read[id]
    BY <1>5
  <1>9. CleanReads'
    <2>1. \A t \in Syncer \ {s} : sync'[t].clean =>
            /\ sync'[t].pc \in {"derived", "composite", "rebuild"} =>
                  \A id \in Atomic : sync'[t].read[id] = rows'[id]
            /\ sync'[t].pc \in {"composite", "rebuild"} =>
                  \A id \in Derived : sync'[t].read[id] = rows'[id]
            /\ sync'[t].pc = "rebuild" => \A id \in Composite : sync'[t].read[id] = rows'[id]
      BY <1>1, <1>3, <1>5 DEF CleanReads
    <2>2. CASE from = "atomic"
      <3>1. to = "derived" /\ table = Atomic
        BY <2>2, <1>4
      <3> QED
        BY <2>1, <2>2, <3>1, <1>1, <1>5, <1>8 DEF CleanReads, Id
    <2>3. CASE from = "derived"
      <3>1. to = "composite" /\ table = Derived
        BY <2>3, <1>4
      <3> QED
        BY <2>1, <2>3, <3>1, <1>1, <1>3, <1>5, <1>8 DEF CleanReads, Id
    <2>4. CASE from = "composite"
      <3>1. to = "rebuild" /\ table = Composite
        BY <2>4, <1>4
      <3> QED
        BY <2>1, <2>4, <3>1, <1>1, <1>3, <1>5, <1>8 DEF CleanReads, Id
    <2> QED
      BY <2>2, <2>3, <2>4, <1>4
  <1>10. GraphMirrors'
    BY <1>1, <1>3 DEF GraphMirrors, GraphOf, EdgesOf
  <1> QED
    BY <1>2, <1>7, <1>9, <1>10 DEF GraphInv, MirrorInv

(* A clean rebuild writes the image of the rows.                           *)
LEMMA RebuildMirrors ==
    ASSUME GraphInv, NEW s \in Syncer, Rebuild(s)
    PROVE  GraphMirrors'
  <1>1. /\ sync[s].pc = "rebuild" /\ graph' = GraphOf(sync[s].read)
        /\ mirror' = sync[s].clean /\ rows' = rows
    BY DEF Rebuild, catVars
  <1>2. SyncShape /\ CleanReads /\ CatalogShape
    BY DEF GraphInv, MirrorInv, DeletedInv
  <1>3. ASSUME sync[s].clean PROVE sync[s].read = rows
    <2>1. \A id \in Id : sync[s].read[id] = rows[id]
      BY <1>1, <1>2, <1>3 DEF CleanReads, Id
    <2>2. [id \in Id |-> sync[s].read[id]] = [id \in Id |-> rows[id]]
      BY <2>1
    <2> QED
      BY <2>2, <1>2 DEF SyncShape, CatalogShape
  <1>4. graph' = GraphOf(sync[s].read) /\ (mirror' => sync[s].read = rows')
    BY <1>1, <1>3
  <1> QED
    BY <1>4 DEF GraphMirrors, GraphOf, EdgesOf

LEMMA GraphPreserves == GraphInv /\ [GraphNext]_allVars => GraphInv'
  <1> SUFFICES ASSUME GraphInv, [GraphNext]_allVars
               PROVE  GraphInv'
    OBVIOUS
  <1>1. ASSUME UNCHANGED <<rows, spent, edit, deleted, excused, graph, sync, mirror>>
        PROVE  GraphInv'
    <2>1. DeletedInv'
      BY <1>1 DEF GraphInv, DeletedInv, CatalogShape, RowsAreSpent, EditsAreExcused,
                  DeletedStaysDeleted, Exists
    <2> QED
      BY <1>1, <2>1
      DEF GraphInv, MirrorInv, SyncShape, CleanReads, GraphMirrors, GraphOf, EdgesOf
  <1>2. CASE UNCHANGED allVars
    BY <1>1, <1>2 DEF allVars
  <1>3. CASE CatalogStep
    BY <1>3, CatalogStepKeeps
  <1>4. ASSUME NEW s \in Syncer, DropIndex(s) \/ CreateIndex(s) PROVE GraphInv'
    BY <1>4, SyncMoves DEF DropIndex, CreateIndex
  <1>5. ASSUME NEW s \in Syncer, ReadTables(s) PROVE GraphInv'
    BY <1>5, SyncReads
  <1>6. ASSUME NEW s \in Syncer, Rebuild(s) PROVE GraphInv'
    <2>1. sync' = [sync EXCEPT ![s] = Idle("done")] /\ UNCHANGED catVars
      BY <1>6 DEF Rebuild
    <2> QED
      BY <2>1, <1>6, RebuildMirrors, SyncEnds
  <1>7. ASSUME NEW s \in Syncer, SyncFails(s) PROVE GraphInv'
    <2>1. /\ sync' = [sync EXCEPT ![s] = Idle("done")] /\ UNCHANGED catVars
          /\ UNCHANGED <<rows, graph, mirror>>
      BY <1>7 DEF SyncFails, catVars
    <2>2. GraphMirrors'
      BY <2>1 DEF GraphInv, MirrorInv, GraphMirrors, GraphOf, EdgesOf
    <2> QED
      BY <2>1, <2>2, SyncEnds
  <1>8. ASSUME NEW f \in Searcher, FindStep(f) PROVE GraphInv'
    <2>1. UNCHANGED <<rows, spent, edit, deleted, excused, graph, sync, mirror>>
      BY <1>8 DEF FindStep, Seed, Expand, LoadNodes, LoadEdges, FallBack, SearchAtomic,
                  SearchBreaks, SearchDerived, Put, catVars
    <2> QED
      BY <2>1, <1>1
  <1> QED
    BY <1>2, <1>3, <1>4, <1>5, <1>6, <1>7, <1>8 DEF GraphNext, SyncStep

-----------------------------------------------------------------------------
(* Searches: what is written out of what was loaded.                       *)

(* The text is made from the loaded nodes and leaves none of them out,     *)
(* whatever edges come with them.                                          *)
LEMMA ShownIsLoaded ==
    ASSUME NEW nodes \in SUBSET Id, NEW edges
    PROVE  Shown(nodes, edges) = nodes
  <1>1. \A tops \in SUBSET nodes : /\ tops \subseteq Chains(nodes, edges, tops)
                                   /\ Chains(nodes, edges, tops) \subseteq nodes
    BY DEF Chains, ChainBelow
  <1>2. /\ nodes \cap Composite \subseteq Chains(nodes, edges, nodes \cap Composite)
        /\ Chains(nodes, edges, nodes \cap Composite) \subseteq nodes
    BY <1>1
  <1> DEFINE one == Chains(nodes, edges, nodes \cap Composite)
             rest == (nodes \cap Derived) \ one
  <1>3. rest \subseteq Chains(nodes, edges, rest) /\ Chains(nodes, edges, rest) \subseteq nodes
    BY <1>1
  <1>4. Shown(nodes, edges) = LET two == one \cup Chains(nodes, edges, rest)
                              IN  two \cup ((nodes \cap Atomic) \ two)
    BY DEF Shown
  <1> HIDE DEF one, rest
  <1>5. nodes \cap Composite \subseteq one /\ one \subseteq nodes
    BY <1>2 DEF one
  <1>6. nodes \cap Derived \subseteq one \cup rest
    BY DEF rest
  <1> QED
    BY <1>3, <1>4, <1>5, <1>6 DEF Id

(* A chain goes down two edges and stays within two hops.                  *)
LEMMA ChainsAreNear ==
    ASSUME graph.nodes \subseteq Id, NEW seeds \in SUBSET graph.nodes
    PROVE  /\ Chains(graph.nodes, graph.edges, seeds) \subseteq graph.nodes
           /\ Chains(graph.nodes, graph.edges, seeds)
                 \subseteq seeds \cup Near(Near(seeds \cap graph.nodes))
  <1> DEFINE Below(id) == ChainBelow(graph.nodes, graph.edges, id)
  <1>1. \A ids : ids \subseteq Near(ids)
    BY DEF Near
  <1>2. ASSUME NEW ids, NEW id \in ids PROVE Below(id) \subseteq Near(ids) /\ Below(id) \subseteq graph.nodes
    <2>1. ASSUME NEW d \in Below(id) PROVE d \in Near(ids) /\ d \in graph.nodes
      <3>1. d \in graph.nodes /\ <<id, d>> \in graph.edges
        BY <2>1 DEF ChainBelow
      <3>2. \E e \in graph.edges : e[2] = d /\ e[1] \in ids
        BY <3>1, <1>2
      <3> QED
        BY <3>1, <3>2 DEF Near
    <2> QED
      BY <2>1
  <1> DEFINE first == UNION {Below(id) : id \in seeds}
             second == UNION {Below(id) : id \in first \cap Derived}
  <1>3. first \subseteq Near(seeds) /\ first \subseteq graph.nodes
    BY <1>2
  <1>4. second \subseteq Near(Near(seeds)) /\ second \subseteq graph.nodes
    BY <1>2, <1>3
  <1>5. Chains(graph.nodes, graph.edges, seeds) = seeds \cup first \cup second
    BY DEF Chains
  <1>6. seeds \cap graph.nodes = seeds
    OBVIOUS
  <1> HIDE DEF first, second
  <1> QED
    BY <1>1, <1>3, <1>4, <1>5, <1>6

FindField == {"pc", "seeds", "ids", "nodes", "edges", "steady", "parts"}

(* The searches have their shape and load only metrics.                    *)
FindShape ==
    /\ graph.nodes \subseteq Id
    /\ DOMAIN find = Searcher
    /\ \A f \in Searcher : DOMAIN find[f] = FindField /\ find[f].nodes \subseteq Id

(* As long as no sync replaces the graph a search has found all of it that *)
(* is near its seeds.                                                      *)
SteadyReads ==
    \A f \in Searcher : find[f].steady =>
        /\ find[f].pc \in {"expand", "nodes", "edges"} \/ find[f].nodes # {} =>
              find[f].seeds \subseteq graph.nodes
        /\ find[f].pc \in {"nodes", "edges"} \/ find[f].nodes # {} =>
              find[f].ids = find[f].seeds \cup Near(Near(find[f].seeds \cap graph.nodes))
        /\ find[f].pc = "edges" \/ find[f].nodes # {} =>
              find[f].nodes = find[f].ids \cap graph.nodes

(* Nothing is loaded before the nodes are.                                 *)
LoadedLate ==
    \A f \in Searcher : find[f].pc \notin {"edges", "done"} => find[f].nodes = {}

FindInv == FindShape /\ SteadyReads /\ LoadedLate

LEMMA FindInitial == GraphInit => FindInv
  <1> SUFFICES ASSUME GraphInit
               PROVE  FindInv
    OBVIOUS
  <1>1. PICK busy : /\ find = [f \in Searcher |-> NoFind(IF f \in busy THEN "new" ELSE "done")]
                    /\ graph = EmptyGraph
    BY DEF GraphInit
  <1>2. \A f \in Searcher : /\ DOMAIN find[f] = FindField
                            /\ find[f].pc \in {"new", "done"}
                            /\ find[f].nodes = {}
    BY <1>1 DEF NoFind, FindField
  <1> QED
    BY <1>1, <1>2 DEF FindInv, FindShape, SteadyReads, LoadedLate, EmptyGraph

(* A step of one search leaves the others alone.                           *)
LEMMA FindPuts ==
    ASSUME FindInv, NEW f \in Searcher, NEW record, Put(f, record)
    PROVE  /\ graph' = graph
           /\ DOMAIN find' = Searcher
           /\ find'[f] = record
           /\ \A g \in Searcher \ {f} : find'[g] = find[g]
  BY DEF Put, FindInv, FindShape

(* So it keeps the invariant if it does for the search itself.             *)
LEMMA FindKeeps ==
    ASSUME FindInv, NEW f \in Searcher, NEW record, Put(f, record),
           DOMAIN record = FindField, record.nodes \subseteq Id,
           record.pc \notin {"edges", "done"} => record.nodes = {},
           record.steady =>
             /\ record.pc \in {"expand", "nodes", "edges"} \/ record.nodes # {} =>
                   record.seeds \subseteq graph.nodes
             /\ record.pc \in {"nodes", "edges"} \/ record.nodes # {} =>
                   record.ids = record.seeds \cup Near(Near(record.seeds \cap graph.nodes))
             /\ record.pc = "edges" \/ record.nodes # {} => record.nodes = record.ids \cap graph.nodes
    PROVE  FindInv'
  <1>1. /\ graph' = graph
        /\ DOMAIN find' = Searcher
        /\ find'[f] = record
        /\ \A g \in Searcher \ {f} : find'[g] = find[g]
    BY FindPuts
  <1>2. FindShape'
    BY <1>1 DEF FindInv, FindShape
  <1>3. SteadyReads'
    BY <1>1 DEF FindInv, SteadyReads, Near
  <1>4. LoadedLate'
    BY <1>1 DEF FindInv, LoadedLate
  <1> QED
    BY <1>2, <1>3, <1>4 DEF FindInv

LEMMA FindSteps ==
    ASSUME FindInv, NEW f \in Searcher, FindStep(f)
    PROVE  FindInv'
  <1>a. /\ DOMAIN find[f] = FindField /\ find[f].nodes \subseteq Id /\ graph.nodes \subseteq Id
        /\ find[f].pc \notin {"edges", "done"} => find[f].nodes = {}
        /\ find[f].steady =>
             /\ find[f].pc \in {"expand", "nodes", "edges"} \/ find[f].nodes # {} =>
                   find[f].seeds \subseteq graph.nodes
             /\ find[f].pc \in {"nodes", "edges"} \/ find[f].nodes # {} =>
                   find[f].ids = find[f].seeds \cup Near(Near(find[f].seeds \cap graph.nodes))
             /\ find[f].pc = "edges" \/ find[f].nodes # {} =>
                   find[f].nodes = find[f].ids \cap graph.nodes
    BY DEF FindInv, FindShape, SteadyReads, LoadedLate
  <1>1. CASE Seed(f)
    <2>1. PICK seeds \in SUBSET graph.nodes :
            Put(f, [find[f] EXCEPT !.pc = "expand", !.seeds = seeds, !.steady = TRUE])
      BY <1>1 DEF Seed
    <2>2. find[f].pc = "new"
      BY <1>1 DEF Seed
    <2> QED
      BY <2>1, <2>2, <1>a, FindKeeps DEF FindField
  <1>2. CASE Expand(f)
    <2> DEFINE near == find[f].seeds \cup Near(Near(find[f].seeds \cap graph.nodes))
    <2>1. /\ find[f].pc = "expand"
          /\ Put(f, [find[f] EXCEPT !.pc = "nodes", !.ids = near])
      BY <1>2 DEF Expand
    <2> HIDE DEF near
    <2>2. LET r == [find[f] EXCEPT !.pc = "nodes", !.ids = near]
          IN  /\ DOMAIN r = FindField /\ r.pc = "nodes" /\ r.ids = near /\ r.seeds = find[f].seeds
              /\ r.nodes = find[f].nodes /\ r.steady = find[f].steady
      BY <1>a DEF FindField
    <2> QED
      BY <2>1, <2>2, <1>a, FindKeeps DEF near
  <1>3. CASE LoadNodes(f)
    <2> DEFINE nodes == find[f].ids \cap graph.nodes
    <2>1. /\ find[f].pc = "nodes"
          /\ Put(f, [find[f] EXCEPT !.pc = "edges", !.nodes = nodes])
      BY <1>3 DEF LoadNodes
    <2>2. LET r == [find[f] EXCEPT !.pc = "edges", !.nodes = nodes]
          IN  /\ DOMAIN r = FindField /\ r.pc = "edges" /\ r.nodes = nodes
              /\ r.seeds = find[f].seeds /\ r.ids = find[f].ids /\ r.steady = find[f].steady
      BY <1>a DEF FindField
    <2> QED
      BY <2>1, <2>2, <1>a, FindKeeps
  <1>4. CASE LoadEdges(f)
    <2>1. PICK pc, edges :
            /\ find[f].pc = "edges" /\ pc \in {"fallback", "done"}
            /\ pc = "fallback" => find[f].nodes = {}
            /\ Put(f, [find[f] EXCEPT !.pc = pc, !.edges = edges])
      BY <1>4 DEF LoadEdges
    <2>2. LET r == [find[f] EXCEPT !.pc = pc, !.edges = edges]
          IN  /\ DOMAIN r = FindField /\ r.pc = pc /\ r.nodes = find[f].nodes
              /\ r.seeds = find[f].seeds /\ r.ids = find[f].ids /\ r.steady = find[f].steady
      BY <1>a DEF FindField
    <2> QED
      BY <2>1, <2>2, <1>a, FindKeeps
  <1>5. CASE FallBack(f)
    <2>1. Put(f, [find[f] EXCEPT !.pc = "fallback", !.nodes = {}, !.edges = {}])
      BY <1>5 DEF FallBack
    <2> QED
      BY <2>1, <1>a, FindKeeps DEF FindField
  <1>6. ASSUME NEW record, Put(f, record), find[f].pc \in {"fallback", "more"},
               DOMAIN record = FindField, record.nodes = find[f].nodes,
               record.pc \in {"more", "done"}
        PROVE  FindInv'
    BY <1>6, <1>a, FindKeeps
  <1>7. CASE SearchAtomic(f)
    <2>1. PICK hits :
            Put(f, [find[f] EXCEPT !.pc = "more", !.parts = Cardinality(hits),
                      !.ids = hits \cup UNION {DerivedOf(a) : a \in hits}])
      BY <1>7 DEF SearchAtomic
    <2>2. LET r == [find[f] EXCEPT !.pc = "more", !.parts = Cardinality(hits),
                      !.ids = hits \cup UNION {DerivedOf(a) : a \in hits}]
          IN  DOMAIN r = FindField /\ r.nodes = find[f].nodes /\ r.pc = "more"
      BY <1>a DEF FindField
    <2> QED
      BY <2>1, <2>2, <1>6, <1>7 DEF SearchAtomic
  <1>8. CASE SearchBreaks(f)
    <2>1. LET r == [find[f] EXCEPT !.pc = "done"]
          IN  DOMAIN r = FindField /\ r.nodes = find[f].nodes /\ r.pc = "done"
      BY <1>a DEF FindField
    <2> QED
      BY <2>1, <1>6, <1>8 DEF SearchBreaks
  <1>9. CASE SearchDerived(f)
    <2>1. PICK hits :
            Put(f, [find[f] EXCEPT !.pc = "done", !.ids = @ \cup hits,
                      !.parts = @ + Cardinality(hits)])
      BY <1>9 DEF SearchDerived
    <2>2. LET r == [find[f] EXCEPT !.pc = "done", !.ids = @ \cup hits,
                      !.parts = @ + Cardinality(hits)]
          IN  DOMAIN r = FindField /\ r.nodes = find[f].nodes /\ r.pc = "done"
      BY <1>a DEF FindField
    <2> QED
      BY <2>1, <2>2, <1>6, <1>9 DEF SearchDerived
  <1> QED
    BY <1>1, <1>2, <1>3, <1>4, <1>5, <1>7, <1>8, <1>9 DEF FindStep

(* A rebuild unsettles every search; nothing else touches graph and find.  *)
LEMMA FindPreserves == FindInv /\ [GraphNext]_allVars => FindInv'
  <1> SUFFICES ASSUME FindInv, [GraphNext]_allVars
               PROVE  FindInv'
    OBVIOUS
  <1>1. ASSUME UNCHANGED <<graph, find>> PROVE FindInv'
    BY <1>1 DEF FindInv, FindShape, SteadyReads, LoadedLate, Near
  <1>2. ASSUME NEW s \in Syncer, Rebuild(s) PROVE FindInv'
    <2>1. /\ graph' = GraphOf(sync[s].read)
          /\ find' = [f \in Searcher |-> [find[f] EXCEPT !.steady = FALSE]]
      BY <1>2 DEF Rebuild
    <2>2. graph'.nodes \subseteq Id
      BY <2>1 DEF GraphOf
    <2>3. \A f \in Searcher : /\ DOMAIN find'[f] = FindField
                              /\ find'[f].pc = find[f].pc
                              /\ find'[f].nodes = find[f].nodes
                              /\ find'[f].steady = FALSE
      BY <2>1 DEF FindInv, FindShape, FindField
    <2> QED
      BY <2>1, <2>2, <2>3 DEF FindInv, FindShape, SteadyReads, LoadedLate
  <1>3. ASSUME NEW f \in Searcher, FindStep(f) PROVE FindInv'
    BY <1>3, FindSteps
  <1>4. CASE UNCHANGED allVars
    BY <1>1, <1>4 DEF allVars
  <1>5. CASE CatalogStep
    BY <1>1, <1>5 DEF CatalogStep
  <1>6. ASSUME NEW s \in Syncer,
               DropIndex(s) \/ CreateIndex(s) \/ ReadTables(s) \/ SyncFails(s)
        PROVE  FindInv'
    BY <1>1, <1>6 DEF DropIndex, CreateIndex, ReadTables, SyncFails, Advance, ReadTable
  <1> QED
    BY <1>2, <1>3, <1>4, <1>5, <1>6 DEF GraphNext, SyncStep

(* What a steady search shows has everything below its seeds.              *)
LEMMA FoundIsShown == FindInv => SearchIsShown
  <1> SUFFICES ASSUME FindInv
               PROVE  SearchIsShown
    OBVIOUS
  <1>1. \A f \in Searcher : Shown(find[f].nodes, find[f].edges) = find[f].nodes
    BY ShownIsLoaded DEF FindInv, FindShape
  <1>2. ASSUME NEW f \in Searcher, find[f].nodes # {}, find[f].steady
        PROVE  Chains(graph.nodes, graph.edges, find[f].seeds)
                  \subseteq Shown(find[f].nodes, find[f].edges)
    <2>1. /\ find[f].seeds \subseteq graph.nodes
          /\ find[f].ids = find[f].seeds \cup Near(Near(find[f].seeds \cap graph.nodes))
          /\ find[f].nodes = find[f].ids \cap graph.nodes
      BY <1>2 DEF FindInv, SteadyReads
    <2>2. graph.nodes \subseteq Id /\ find[f].nodes \subseteq Id
      BY DEF FindInv, FindShape
    <2>3. Chains(graph.nodes, graph.edges, find[f].seeds) \subseteq find[f].nodes
      BY <2>1, <2>2, ChainsAreNear
    <2>4. Shown(find[f].nodes, find[f].edges) = find[f].nodes
      BY <2>2, ShownIsLoaded
    <2> QED
      BY <2>3, <2>4
  <1> QED
    BY <1>1, <1>2 DEF SearchIsShown

-----------------------------------------------------------------------------
(* The strengthening holds in every reachable state.                       *)
THEOREM GraphInvariant == GraphSpec => []GraphInv
  <1>1. GraphInit => GraphInv
    BY GraphInitial
  <1>2. GraphInv /\ [GraphNext]_allVars => GraphInv'
    BY GraphPreserves
  <1> QED
    BY <1>1, <1>2, PTL DEF GraphSpec

(* A metric that the admin deleted comes back only through a PUT that had  *)
(* found it before (metric_routes.py, the update methods of the stores).   *)
THEOREM DeletedStaysDeletedAlways == GraphSpec => []DeletedStaysDeleted
  <1>1. GraphInv => DeletedStaysDeleted
    BY DEF GraphInv, DeletedInv
  <1> QED
    BY <1>1, GraphInvariant, PTL

(* After a sync that no write overlapped, and until the next write, the    *)
(* graph is the image of the tables (sync_from_postgres).                  *)
THEOREM GraphMirrorsAlways == GraphSpec => []GraphMirrors
  <1>1. GraphInv => GraphMirrors
    BY DEF GraphInv, MirrorInv
  <1> QED
    BY <1>1, GraphInvariant, PTL

(* The invariant of the searches holds in every reachable state.           *)
THEOREM FindInvariant == GraphSpec => []FindInv
  <1>1. GraphInit => FindInv
    BY FindInitial
  <1>2. FindInv /\ [GraphNext]_allVars => FindInv'
    BY FindPreserves
  <1> QED
    BY <1>1, <1>2, PTL DEF GraphSpec

(* The text of a search names the metrics that were loaded and no others,  *)
(* and, in an undisturbed graph, every metric below a seed                 *)
(* (search_subgraph and _format_graph_subgraph_for_llm).                   *)
THEOREM SearchIsAlwaysShown == GraphSpec => []SearchIsShown
  <1>1. FindInv => SearchIsShown
    BY FoundIsShown
  <1> QED
    BY <1>1, FindInvariant, PTL
-----------------------------------------------------------------------------
(* Types                                                                   *)

LEMMA AtomicRow ==
    ASSUME NEW id \in Atomic
    PROVE  <<>> \in RowsOf(id)
  BY DEF RowsOf, Id

(* Reports are about ids that were handed out, whatever is written.        *)
LEMMA CatalogTypesStep ==
    ASSUME DeletedInv, CatalogTypeOK, [CatalogNext]_catVars
    PROVE  CatalogTypeOK'
  <1> HIDE DEF CatalogTypeOK
  <1>i. Atomic \subseteq Id /\ Derived \subseteq Id /\ Composite \subseteq Id
    BY DEF Id
  <1>s. /\ DOMAIN rows = Id /\ DOMAIN edit = Editor
        /\ \A e \in Editor : DOMAIN edit[e] = {"pc", "id"}
        /\ deleted \subseteq spent /\ RowsAreSpent
    BY DEF DeletedInv, CatalogShape
  <1>1. CASE UNCHANGED catVars
    BY <1>1 DEF catVars, CatalogTypeOK
  <1>2. ASSUME NEW id \in Id, NEW row \in RowsOf(id), rows' = [rows EXCEPT ![id] = row],
               Fresh(id), UNCHANGED <<edit, deleted, excused>>
        PROVE  CatalogTypeOK'
    <2>1. \A x \in Id : rows'[x] = IF x = id THEN row ELSE rows[x]
      BY <1>2, <1>s
    <2>2. \A x \in Id : rows'[x] \in RowsOf(x) \cup {None}
      BY <1>2, <2>1 DEF CatalogTypeOK
    <2> QED
      BY <1>2, <2>2 DEF Fresh, CatalogTypeOK
  <1>3. ASSUME NEW id \in Atomic, PostAtomic(id) PROVE CatalogTypeOK'
    BY <1>2, <1>3, <1>i, AtomicRow DEF PostAtomic, UpsertAtomic
  <1>4. ASSUME NEW id \in Derived, PostDerived(id) PROVE CatalogTypeOK'
    BY <1>2, <1>4, <1>i DEF PostDerived, UpsertDerived
  <1>5. ASSUME NEW id \in Composite, PostComposite(id) PROVE CatalogTypeOK'
    BY <1>2, <1>5, <1>i DEF PostComposite, UpsertComposite
  <1>6. ASSUME NEW ids \in SUBSET Id, Remove(ids) PROVE CatalogTypeOK'
    <2> DEFINE gone == {id \in ids : Exists(id)}
    <2>1. /\ gone \subseteq ids /\ \A id \in gone : Exists(id)
          /\ rows' = [id \in Id |-> IF id \in gone THEN None ELSE rows[id]]
          /\ deleted' = deleted \cup gone
          /\ excused' = excused \cup
               {id \in gone : \E e \in Editor :
                   edit[e].id = id /\ edit[e].pc \in {"found", "checked"}}
          /\ UNCHANGED <<spent, edit>>
      BY <1>6 DEF Remove
    <2> HIDE DEF gone
    <2>2. \A x \in Id : rows'[x] \in RowsOf(x) \cup {None}
      BY <2>1 DEF CatalogTypeOK
    <2>3. gone \subseteq spent
      BY <2>1, <1>s DEF RowsAreSpent
    <2> QED
      BY <1>s, <2>1, <2>2, <2>3 DEF CatalogTypeOK
  <1>7. ASSUME NEW id \in Id, DeleteAtomic(id) \/ DeleteDerived(id) \/ DeleteComposite(id)
        PROVE  CatalogTypeOK'
    BY <1>6, <1>7 DEF DeleteAtomic, DeleteDerived, DeleteComposite
  <1>8. CASE BatchDeleteDerived(Derived)
    BY <1>6, <1>8, <1>i DEF BatchDeleteDerived
  <1>9. ASSUME NEW e \in Editor, NEW record,
               edit' = [edit EXCEPT ![e] = record],
               record.pc \in {"new", "found", "checked", "done"}, record.id \in Id \cup {None},
               \A x \in Id : rows'[x] \in RowsOf(x) \cup {None},
               UNCHANGED <<spent, deleted, excused>>
        PROVE  CatalogTypeOK'
    <2>1. \A x \in Editor : edit'[x] = IF x = e THEN record ELSE edit[x]
      BY <1>9, <1>s
    <2> QED
      BY <1>9, <2>1 DEF CatalogTypeOK
  <1>10. Answered.pc = "done" /\ Answered.id = None
    BY DEF Answered
  <1>11. ASSUME NEW e \in Editor, NEW id \in Id,
                FindAtomic(e, id) \/ FindDerived(e, id) \/ FindComposite(e, id)
         PROVE  CatalogTypeOK'
    <2>1. /\ Look(e, id) /\ UNCHANGED <<rows, spent, deleted, excused>>
          /\ \A x \in Id : rows'[x] \in RowsOf(x) \cup {None}
      BY <1>11 DEF FindAtomic, FindDerived, FindComposite, CatalogTypeOK
    <2>2. CASE Exists(id)
      BY <1>9, <2>1, <2>2 DEF Look
    <2>3. CASE ~Exists(id)
      BY <1>9, <1>10, <2>1, <2>3 DEF Look
    <2> QED
      BY <2>2, <2>3
  <1>12. ASSUME NEW e \in Editor, NEW id \in Id, NEW row \in RowsOf(id), Arrive(e),
                rows' = [rows EXCEPT ![id] = row], UNCHANGED <<spent, deleted, excused>>
         PROVE  CatalogTypeOK'
    <2>1. \A x \in Id : rows'[x] = IF x = id THEN row ELSE rows[x]
      BY <1>12, <1>s
    <2>2. \A x \in Id : rows'[x] \in RowsOf(x) \cup {None}
      BY <1>12, <2>1 DEF CatalogTypeOK
    <2> QED
      BY <1>9, <1>10, <1>12, <2>2 DEF Arrive
  <1>13. ASSUME NEW e \in Editor, PutAtomic(e) PROVE CatalogTypeOK'
    BY <1>12, <1>13, <1>i, AtomicRow DEF PutAtomic, UpsertAtomic
  <1>14. ASSUME NEW e \in Editor, PutDerived(e) PROVE CatalogTypeOK'
    BY <1>12, <1>14, <1>i DEF PutDerived, UpsertDerived
  <1>15. ASSUME NEW e \in Editor, PutComposite(e) PROVE CatalogTypeOK'
    BY <1>12, <1>15, <1>i DEF PutComposite, UpsertComposite
  <1>16. ASSUME NEW e \in Editor, CheckDerived(e) \/ CheckComposite(e) PROVE CatalogTypeOK'
    <2>1. /\ UNCHANGED <<rows, spent, deleted, excused>>
          /\ edit' = [edit EXCEPT ![e].pc = "checked"] \/ Arrive(e)
          /\ \A x \in Id : rows'[x] \in RowsOf(x) \cup {None}
      BY <1>16 DEF CheckDerived, CheckComposite, CatalogTypeOK
    <2>2. CASE Arrive(e)
      BY <1>9, <1>10, <2>1, <2>2 DEF Arrive
    <2>3. CASE edit' = [edit EXCEPT ![e].pc = "checked"]
      <3>1. /\ [edit[e] EXCEPT !.pc = "checked"].pc = "checked"
            /\ [edit[e] EXCEPT !.pc = "checked"].id = edit[e].id
        BY <1>s
      <3> QED
        BY <1>9, <2>1, <2>3, <3>1 DEF CatalogTypeOK
    <2> QED
      BY <2>1, <2>2, <2>3
  <1> QED
    BY <1>1, <1>3, <1>4, <1>5, <1>7, <1>8, <1>11, <1>13, <1>14, <1>15, <1>16, <1>i DEF CatalogNext

(* What a sync has read, and where it is.                                  *)
SyncTyped(r) ==
    /\ r.pc \in SyncPhase /\ r.clean \in BOOLEAN
    /\ \A id \in Id : r.read[id] \in RowsOf(id) \cup {None}

(* What a search has found, and where it is.                               *)
FindTyped(r) ==
    /\ r.pc \in FindPhase /\ r.steady \in BOOLEAN
    /\ r.seeds \subseteq Id /\ r.ids \subseteq Id /\ r.nodes \subseteq Id
    /\ r.edges \subseteq Edge
    /\ r.parts \in Nat

GraphTyped ==
    /\ graph.nodes \subseteq Id /\ graph.edges \subseteq Edge
    /\ index \in BOOLEAN /\ mirror \in BOOLEAN

TypesInv ==
    /\ GraphInv
    /\ FindInv
    /\ CatalogTypeOK
    /\ GraphTyped
    /\ \A s \in Syncer : SyncTyped(sync[s])
    /\ \A f \in Searcher : FindTyped(find[f])

LEMMA TypesInitial == GraphInit => TypesInv
  <1> SUFFICES ASSUME GraphInit
               PROVE  TypesInv
    OBVIOUS
  <1>1. GraphInv /\ FindInv
    BY GraphInitial, FindInitial
  <1>2. PICK busy :
          /\ sync = [s \in Syncer |-> Idle(IF s \in busy THEN "new" ELSE "done")]
          /\ find = [f \in Searcher |-> NoFind(IF f \in busy THEN "new" ELSE "done")]
          /\ graph = EmptyGraph /\ index = FALSE /\ mirror = FALSE
    BY DEF GraphInit
  <1>3. CatalogTypeOK
    BY DEF GraphInit, CatalogInit, CatalogTypeOK, NoEdit, Answered
  <1>4. GraphTyped
    BY <1>2 DEF GraphTyped, EmptyGraph
  <1>5. ASSUME NEW s \in Syncer PROVE SyncTyped(sync[s])
    BY <1>2 DEF Idle, SyncTyped, SyncPhase
  <1>6. ASSUME NEW f \in Searcher PROVE FindTyped(find[f])
    BY <1>2 DEF NoFind, FindTyped, FindPhase
  <1> QED
    BY <1>1, <1>3, <1>4, <1>5, <1>6 DEF TypesInv

(* A step of one sync, and of one search, leaves the others alone.         *)
LEMMA SyncTypesKept ==
    ASSUME TypesInv, NEW s \in Syncer, NEW record, SyncTyped(record),
           sync' = [sync EXCEPT ![s] = record]
    PROVE  \A x \in Syncer : SyncTyped(sync'[x])
  <1>1. DOMAIN sync = Syncer
    BY DEF TypesInv, GraphInv, MirrorInv, SyncShape
  <1>2. \A x \in Syncer : sync'[x] = IF x = s THEN record ELSE sync[x]
    BY <1>1
  <1> HIDE DEF SyncTyped
  <1> QED
    BY <1>2 DEF TypesInv

LEMMA FindTypesKept ==
    ASSUME TypesInv, NEW f \in Searcher, NEW record, FindTyped(record), Put(f, record)
    PROVE  \A x \in Searcher : FindTyped(find'[x])
  <1>1. \A x \in Searcher : find'[x] = IF x = f THEN record ELSE find[x]
    BY FindPuts DEF TypesInv
  <1> HIDE DEF FindTyped
  <1> QED
    BY <1>1 DEF TypesInv

(* A read row is a row, and a rebuilt graph is over metrics.               *)
LEMMA SyncTypesStep ==
    ASSUME TypesInv, NEW s \in Syncer, SyncStep(s)
    PROVE  /\ \A x \in Syncer : SyncTyped(sync'[x])
           /\ GraphTyped'
  <1>s. /\ DOMAIN sync[s] = {"pc", "read", "clean"} /\ DOMAIN sync = Syncer
        /\ SyncTyped(sync[s]) /\ GraphTyped
    BY DEF TypesInv, GraphInv, MirrorInv, SyncShape
  <1>1. ASSUME NEW from, NEW to \in SyncPhase, Advance(s, from, to), index' \in BOOLEAN
        PROVE  /\ \A x \in Syncer : SyncTyped(sync'[x])
               /\ GraphTyped'
    <2> DEFINE record == [sync[s] EXCEPT !.pc = to]
    <2>1. SyncTyped(record)
      BY <1>s DEF SyncTyped
    <2>2. sync' = [sync EXCEPT ![s] = record] /\ UNCHANGED <<graph, mirror>>
      BY <1>1 DEF Advance
    <2> HIDE DEF record
    <2> QED
      BY <1>1, <1>s, <2>1, <2>2, SyncTypesKept DEF GraphTyped
  <1>2. CASE DropIndex(s) \/ CreateIndex(s)
    BY <1>1, <1>2 DEF DropIndex, CreateIndex, SyncPhase
  <1>3. ASSUME NEW from, NEW to \in SyncPhase, NEW table, ReadTable(s, from, to, table)
        PROVE  /\ \A x \in Syncer : SyncTyped(sync'[x])
               /\ GraphTyped'
    <2> DEFINE read == [id \in Id |-> IF id \in table THEN rows[id] ELSE sync[s].read[id]]
               clean == IF from = "atomic" THEN TRUE ELSE sync[s].clean
               record == [sync[s] EXCEPT !.pc = to, !.read = read, !.clean = clean]
    <2>1. \A id \in Id : read[id] \in RowsOf(id) \cup {None}
      BY <1>s DEF TypesInv, CatalogTypeOK, SyncTyped
    <2>2. clean \in BOOLEAN
      BY <1>s DEF SyncTyped
    <2>3. sync' = [sync EXCEPT ![s] = record]
      BY <1>3 DEF ReadTable
    <2> HIDE DEF read, clean
    <2>4. SyncTyped(record)
      BY <1>s, <2>1, <2>2 DEF SyncTyped
    <2> HIDE DEF record
    <2> QED
      BY <1>3, <1>s, <2>3, <2>4, SyncTypesKept DEF ReadTable, GraphTyped
  <1>4. CASE ReadTables(s)
    BY <1>3, <1>4 DEF ReadTables, SyncPhase
  <1>5. SyncTyped(Idle("done"))
    BY DEF Idle, SyncTyped, SyncPhase
  <1>6. CASE Rebuild(s)
    <2>1. /\ sync' = [sync EXCEPT ![s] = Idle("done")] /\ graph' = GraphOf(sync[s].read)
          /\ mirror' = sync[s].clean /\ index' = index
      BY <1>6 DEF Rebuild
    <2>2. graph'.nodes \subseteq Id /\ graph'.edges \subseteq Edge
      BY <2>1 DEF GraphOf, EdgesOf
    <2> QED
      BY <1>5, <1>s, <2>1, <2>2, SyncTypesKept DEF GraphTyped, SyncTyped
  <1>7. CASE SyncFails(s)
    BY <1>5, <1>7, <1>s, SyncTypesKept DEF SyncFails, GraphTyped
  <1> QED
    BY <1>2, <1>4, <1>6, <1>7 DEF SyncStep

(* A search finds metrics, and counts finitely many.                       *)
LEMMA FindTypesStep ==
    ASSUME TypesInv, NEW f \in Searcher, FindStep(f)
    PROVE  \A x \in Searcher : FindTyped(find'[x])
  <1>s. /\ DOMAIN find[f] = FindField /\ FindTyped(find[f])
        /\ graph.nodes \subseteq Id /\ graph.edges \subseteq Edge
    BY DEF TypesInv, FindInv, FindShape, GraphTyped
  <1>n. \A ids \in SUBSET Id : Near(ids) \subseteq Id
    BY DEF Near
  <1>c. \A hits \in SUBSET Id : Cardinality(hits) \in Nat
    BY CatalogAssumption, FS_Subset, FS_CardinalityType
  <1>1. CASE Seed(f)
    <2>1. PICK seeds \in SUBSET graph.nodes :
            Put(f, [find[f] EXCEPT !.pc = "expand", !.seeds = seeds, !.steady = TRUE])
      BY <1>1 DEF Seed
    <2>2. FindTyped([find[f] EXCEPT !.pc = "expand", !.seeds = seeds, !.steady = TRUE])
      BY <1>s DEF FindTyped, FindField, FindPhase
    <2> QED
      BY <2>1, <2>2, FindTypesKept
  <1>2. CASE Expand(f)
    <2> DEFINE near == find[f].seeds \cup Near(Near(find[f].seeds \cap graph.nodes))
    <2>1. Put(f, [find[f] EXCEPT !.pc = "nodes", !.ids = near])
      BY <1>2 DEF Expand
    <2>2. near \subseteq Id
      BY <1>n, <1>s DEF FindTyped
    <2> HIDE DEF near
    <2>3. FindTyped([find[f] EXCEPT !.pc = "nodes", !.ids = near])
      BY <1>s, <2>2 DEF FindTyped, FindField, FindPhase
    <2> QED
      BY <2>1, <2>3, FindTypesKept
  <1>3. CASE LoadNodes(f)
    <2> DEFINE nodes == find[f].ids \cap graph.nodes
    <2>1. Put(f, [find[f] EXCEPT !.pc = "edges", !.nodes = nodes])
      BY <1>3 DEF LoadNodes
    <2>2. FindTyped([find[f] EXCEPT !.pc = "edges", !.nodes = nodes])
      BY <1>s DEF FindTyped, FindField, FindPhase
    <2> QED
      BY <2>1, <2>2, FindTypesKept
  <1>4. CASE LoadEdges(f)
    <2>1. PICK pc \in {"fallback", "done"}, edges \in SUBSET graph.edges :
            Put(f, [find[f] EXCEPT !.pc = pc, !.edges = edges])
      BY <1>4 DEF LoadEdges
    <2>2. FindTyped([find[f] EXCEPT !.pc = pc, !.edges = edges])
      BY <1>s DEF FindTyped, FindField, FindPhase
    <2> QED
      BY <2>1, <2>2, FindTypesKept
  <1>5. CASE FallBack(f)
    <2>1. FindTyped([find[f] EXCEPT !.pc = "fallback", !.nodes = {}, !.edges = {}])
      BY <1>s DEF FindTyped, FindField, FindPhase
    <2> QED
      BY <1>5, <2>1, FindTypesKept DEF FallBack
  <1>6. CASE SearchAtomic(f)
    <2>1. PICK hits \in SUBSET ListAtomic :
            Put(f, [find[f] EXCEPT !.pc = "more", !.parts = Cardinality(hits),
                      !.ids = hits \cup UNION {DerivedOf(a) : a \in hits}])
      BY <1>6 DEF SearchAtomic
    <2> DEFINE parts == Cardinality(hits)
               ids == hits \cup UNION {DerivedOf(a) : a \in hits}
    <2>2. hits \subseteq Id
      BY DEF ListAtomic, Id
    <2>3. parts \in Nat
      BY <1>c, <2>2
    <2>4. \A a \in hits : DerivedOf(a) \subseteq Id
      BY DEF DerivedOf, ListDerived, Id
    <2>5. ids \subseteq Id
      BY <2>2, <2>4
    <2> HIDE DEF parts, ids
    <2>6. FindTyped([find[f] EXCEPT !.pc = "more", !.parts = parts, !.ids = ids])
      BY <1>s, <2>3, <2>5 DEF FindTyped, FindField, FindPhase
    <2> QED
      BY <2>1, <2>6, FindTypesKept DEF parts, ids
  <1>7. CASE SearchBreaks(f)
    <2>1. FindTyped([find[f] EXCEPT !.pc = "done"])
      BY <1>s DEF FindTyped, FindField, FindPhase
    <2> QED
      BY <1>7, <2>1, FindTypesKept DEF SearchBreaks
  <1>8. CASE SearchDerived(f)
    <2>1. PICK hits \in SUBSET ListDerived :
            Put(f, [find[f] EXCEPT !.pc = "done", !.ids = @ \cup hits,
                      !.parts = @ + Cardinality(hits)])
      BY <1>8 DEF SearchDerived
    <2> DEFINE more == Cardinality(hits)
    <2>2. hits \subseteq Id
      BY DEF ListDerived, Id
    <2>3. more \in Nat
      BY <1>c, <2>2
    <2> HIDE DEF more
    <2>4. FindTyped([find[f] EXCEPT !.pc = "done", !.ids = @ \cup hits, !.parts = @ + more])
      BY <1>s, <2>2, <2>3 DEF FindTyped, FindField, FindPhase
    <2> QED
      BY <2>1, <2>4, FindTypesKept DEF more
  <1> QED
    BY <1>1, <1>2, <1>3, <1>4, <1>5, <1>6, <1>7, <1>8 DEF FindStep

LEMMA TypesStep == TypesInv /\ [GraphNext]_allVars => TypesInv'
  <1> SUFFICES ASSUME TypesInv, [GraphNext]_allVars
               PROVE  TypesInv'
    OBVIOUS
  <1>s. GraphInv' /\ FindInv' /\ DeletedInv
    BY GraphPreserves, FindPreserves DEF TypesInv, GraphInv
  <1>c. [CatalogNext]_catVars
    BY DEF GraphNext, CatalogStep, SyncStep, DropIndex, CreateIndex, Advance, ReadTables, ReadTable,
           Rebuild, SyncFails, FindStep, Seed, Expand, LoadNodes, LoadEdges, FallBack, SearchAtomic,
           SearchBreaks, SearchDerived, Put, allVars, catVars
  <1>t. CatalogTypeOK'
    BY <1>c, <1>s, CatalogTypesStep DEF TypesInv
  <1> HIDE DEF SyncTyped, FindTyped
  <1>1. CASE UNCHANGED allVars
    BY <1>1, <1>s, <1>t DEF allVars, TypesInv, GraphTyped
  <1>2. CASE CatalogStep
    <2>1. UNCHANGED <<graph, index, find>> /\ mirror' \in BOOLEAN
      BY <1>2 DEF CatalogStep, TypesInv, GraphTyped
    <2>2. ASSUME NEW s \in Syncer PROVE SyncTyped(sync'[s])
      <3>1. SyncTyped(sync[s]) /\ DOMAIN sync = Syncer /\ DOMAIN sync[s] = {"pc", "read", "clean"}
        BY DEF TypesInv, GraphInv, MirrorInv, SyncShape
      <3>2. sync'[s] = sync[s] \/ sync'[s] = [sync[s] EXCEPT !.clean = FALSE]
        BY <1>2 DEF CatalogStep
      <3> QED
        BY <3>1, <3>2 DEF SyncTyped
    <2> QED
      BY <1>s, <1>t, <2>1, <2>2 DEF TypesInv, GraphTyped
  <1>3. ASSUME NEW s \in Syncer, SyncStep(s) PROVE TypesInv'
    <2>1. /\ \A x \in Syncer : SyncTyped(sync'[x])
          /\ GraphTyped'
      BY <1>3, SyncTypesStep
    <2>2. ASSUME NEW f \in Searcher PROVE FindTyped(find'[f])
      <3>1. FindTyped(find[f]) /\ DOMAIN find = Searcher /\ DOMAIN find[f] = FindField
        BY DEF TypesInv, FindInv, FindShape
      <3>2. find'[f] = find[f] \/ find'[f] = [find[f] EXCEPT !.steady = FALSE]
        BY <1>3 DEF SyncStep, DropIndex, CreateIndex, Advance, ReadTables, ReadTable, Rebuild, SyncFails
      <3> QED
        BY <3>1, <3>2 DEF FindTyped, FindField
    <2> QED
      BY <1>s, <1>t, <2>1, <2>2 DEF TypesInv
  <1>4. ASSUME NEW f \in Searcher, FindStep(f) PROVE TypesInv'
    <2>1. UNCHANGED <<graph, index, sync, mirror>>
      BY <1>4 DEF FindStep, Seed, Expand, LoadNodes, LoadEdges, FallBack, SearchAtomic,
                  SearchBreaks, SearchDerived, Put
    <2>2. \A x \in Searcher : FindTyped(find'[x])
      BY <1>4, FindTypesStep
    <2> QED
      BY <1>s, <1>t, <2>1, <2>2 DEF TypesInv, GraphTyped
  <1> QED
    BY <1>1, <1>2, <1>3, <1>4 DEF GraphNext

(* Requests, tables, graph and searches keep to the metrics that were      *)
(* handed out, and every deletion that a PUT may undo was a deletion       *)
(* (metric_routes.py, sync_from_postgres, search_subgraph).                *)
THEOREM GraphTypesHold == GraphSpec => []GraphTypeOK
  <1>1. GraphInit => TypesInv
    BY TypesInitial
  <1>2. TypesInv /\ [GraphNext]_allVars => TypesInv'
    BY TypesStep
  <1>3. TypesInv => GraphTypeOK
    BY DEF TypesInv, GraphTyped, SyncTyped, FindTyped, GraphTypeOK
  <1> QED
    BY <1>1, <1>2, <1>3, PTL DEF GraphSpec
=============================================================================
