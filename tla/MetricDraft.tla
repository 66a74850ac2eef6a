---------------------------- MODULE MetricDraft ----------------------------
(***************************************************************************)
(* The draft of extracted metrics that the admin page shows and imports.   *)
(*                                                                         *)
(* POST /extract checks that no extraction runs, awaits the list of        *)
(* tables, and hands a job to an executor with one thread.  That thread    *)
(* reads and replaces the draft while the event loop serves clears and     *)
(* imports.  An import creates metrics one await at a time and then        *)
(* records the names it created, which hides them on the page.  Draft and  *)
(* names are saved in a file each, which a restart loads.                  *)
(***************************************************************************)
EXTENDS MetricEngine

CONSTANTS
    AtomicName, DerivedName, CompositeName, \* names, by the type the LLM gives them
    TableSeq,         \* the tables, in the order of list_all_tables
    Results(_),       \* per table: what extract_entities can make of the LLM's answers
    Extractor,        \* POST /extract requests that may be open at a time
    Importer,         \* POST /draft/import requests that may be open at a time
    MaxCalls,         \* bound: requests and crashes in a behaviour
    None

VARIABLES
    draft, imported,          \* in memory: the draft, the names imported from it
    diskDraft, diskImported,  \* the two files
    status,                   \* _extract_state["status"]
    queue, worker,            \* the executor: its queue, the job in its thread
    ask,                      \* the extraction requests
    imp,                      \* the imports
    rows,                     \* the metrics in the stores, in order of creation
    calls,                    \* how many requests and crashes there have been
    seen                      \* histories, see NoHistory

draftVars == <<draft, imported, diskDraft, diskImported, status, queue, worker,
               ask, imp, rows, calls, seen>>

Name == AtomicName \cup DerivedName \cup CompositeName
Table == Range(TableSeq)
Job == [tables : (SUBSET Table) \ {{}}, full : BOOLEAN]

Field == {"known", "unknown", "absent"}
Node == [kind : {"entity"}, name : Name, field : Field, len : Nat]
Edge == [kind : {"relation"}, src : Name, tgt : Name, exact : BOOLEAN, len : Nat]
DraftEntity == [name : Name, table : Table, field : Field]
DraftRelation == [src : Name, tgt : Name, exact : BOOLEAN]
Draft == [ents : Seq(DraftEntity), rels : Seq(DraftRelation)]

ASSUME DraftAssumption ==
    /\ MaxCalls \in Nat
    /\ AtomicName \cap DerivedName = {}
    /\ CompositeName \cap (AtomicName \cup DerivedName) = {}
    /\ None \notin Draft

\* A table is listed once (the store keys it by database and name), and
\* extract_entities keys its metrics by name.
ASSUME ResultsAssumption ==
    /\ TableSeq \in Seq(Table) /\ IsInjective(TableSeq)
    /\ \A t \in Table : \A r \in Results(t) :
        /\ r.nodes \in Seq(Node) /\ r.edges \in Seq(Edge)
        /\ \A i, j \in DOMAIN r.nodes : r.nodes[i].name = r.nodes[j].name => i = j

NoWork == [pc |-> "idle", job |-> None, result |-> EmptyDraft, base |-> EmptyDraft, removed |-> {}]
NoAsk == [pc |-> "new", job |-> None]
NoImport == [pc |-> "new", draft |-> EmptyDraft, todo |-> <<>>, ids |-> <<>>,
             atomics |-> <<>>, deriveds |-> <<>>]

NoHistory ==
    [fresh   |-> {},    \* names the last extraction of their tables delivered
     stale   |-> {},    \* names hidden by an import that an extraction overtook
     cleared |-> {},    \* entities a clear removed, not extracted since
     undone  |-> {},    \* those of them that an extraction was about to write back
     made    |-> {},    \* names imported from the draft as it is
     loose   |-> {},    \* names whose import failed, overlapped or was forgotten
     twice   |-> {},    \* names imported again from the same draft
     mixed   |-> FALSE, \* an import linked a metric other than its own
     doubled |-> FALSE] \* two requests were past the check before one had started

Busy == {i \in Importer : imp[i].pc # "new"}
Pending == queue # <<>> \/ worker.pc # "idle"
EntSet(d) == IF d = None THEN {} ELSE {<<d.ents[i].name, d.ents[i].table>> : i \in DOMAIN d.ents}
Existing == IF draft = None THEN EmptyDraft ELSE draft

\* The page shows what is not imported.
Visible == NamesOf(WithoutEntities(Existing, imported).ents)

\* A dict from names to the positions of their rows.
IsIds(f) ==
    /\ DOMAIN f \subseteq Name
    /\ \A n \in DOMAIN f : f[n] \in DOMAIN rows /\ rows[f[n]].name = n

DraftTypeOK ==
    /\ draft \in Draft \cup {None} /\ diskDraft \in Draft \cup {None}
    /\ imported \in SUBSET Name /\ diskImported \in SUBSET Name
    /\ status \in {"idle", "running", "done", "error"}
    /\ queue \in Seq(Job)
    /\ worker \in [pc : {"idle", "extract", "merge", "names", "saveNames", "assign", "saveDraft"},
                   job : Job \cup {None}, result : Draft, base : Draft, removed : SUBSET Name]
    /\ worker.pc # "idle" => worker.job \in Job
    /\ ask \in [Extractor -> [pc : {"new", "listing"}, job : Job \cup {None}]]
    /\ \A i \in Importer :
        /\ imp[i].pc \in {"new", "atomics", "deriveds", "create"}
        /\ imp[i].draft \in Draft /\ imp[i].todo \in Seq(DraftEntity)
        /\ IsIds(imp[i].ids) /\ IsIds(imp[i].atomics) /\ IsIds(imp[i].deriveds)
    /\ rows \in Seq([name : Name, refs : Seq(1..Len(rows))])

\* Extraction and validation of the tables of a job, the results given.
Extraction(tables, results) ==
    Validate(Gather(At(TableSeq, {i \in DOMAIN TableSeq : TableSeq[i] \in tables}), results))

ResultsOf(tables) ==
    {results \in [tables -> UNION {Results(t) : t \in tables}] :
        \A t \in tables : results[t] \in Results(t)}

\* The server starts without files, or with the draft of an earlier extraction.
DraftInit ==
    /\ diskDraft \in {None} \cup {Extraction(Table, results) : results \in ResultsOf(Table)}
    /\ diskImported = {}
    /\ draft = diskDraft /\ imported = diskImported
    /\ status = "idle" /\ queue = <<>> /\ worker = NoWork
    /\ ask = [e \in Extractor |-> NoAsk]
    /\ imp = [i \in Importer |-> NoImport]
    /\ rows = <<>> /\ calls = 0
    /\ seen = NoHistory

-----------------------------------------------------------------------------
(* POST /extract.                                                          *)

Call == calls < MaxCalls /\ calls' = calls + 1

\* Mutant: nobody asks whether an extraction runs.
CheckNothing(e) ==
    /\ ask[e].pc = "new" /\ Call
    /\ \E job \in Job : /\ job.full => job.tables = Table
                        /\ ask' = [ask EXCEPT ![e] = [pc |-> "listing", job |-> job]]
    /\ UNCHANGED <<draft, imported, diskDraft, diskImported, status, queue, worker,
                   imp, rows, seen>>

\* 409 while one runs; then the list of tables is awaited.
Check(e) ==
    /\ ask[e].pc = "new" /\ status # "running" /\ Call
    /\ \E job \in Job : /\ job.full => job.tables = Table
                        /\ ask' = [ask EXCEPT ![e] = [pc |-> "listing", job |-> job]]
    /\ UNCHANGED <<draft, imported, diskDraft, diskImported, status, queue, worker,
                   imp, rows, seen>>

\* No table, a table that is not known, or the list fails.
Refuse(e) ==
    /\ ask[e].pc = "listing"
    /\ ask' = [ask EXCEPT ![e] = NoAsk]
    /\ UNCHANGED <<draft, imported, diskDraft, diskImported, status, queue, worker,
                   imp, rows, calls, seen>>

\* The status is not looked at again.
Start(e) ==
    /\ ask[e].pc = "listing"
    /\ ask' = [ask EXCEPT ![e] = NoAsk]
    /\ status' = "running"
    /\ queue' = Append(queue, ask[e].job)
    /\ seen' = [seen EXCEPT !.doubled =
                  (@ /\ Pending) \/ \E x \in Extractor \ {e} : ask[x].pc = "listing"]
    /\ UNCHANGED <<draft, imported, diskDraft, diskImported, worker, imp, rows,
                   calls>>

-----------------------------------------------------------------------------
(* _run_extract_blocking, in its thread.                                   *)

Take ==
    /\ worker.pc = "idle" /\ queue # <<>>
    /\ worker' = [worker EXCEPT !.pc = "extract", !.job = Head(queue)]
    /\ queue' = Tail(queue)
    /\ UNCHANGED <<draft, imported, diskDraft, diskImported, status, ask, imp, rows,
                   calls, seen>>

\* Each table in a thread of its own; the results in the order of the tables.
Extract ==
    /\ worker.pc = "extract"
    /\ \E results \in ResultsOf(worker.job.tables) :
        worker' = [worker EXCEPT !.pc = "merge",
                     !.result = Extraction(worker.job.tables, results)]
    /\ UNCHANGED <<draft, imported, diskDraft, diskImported, status, queue, ask, imp, rows,
                   calls, seen>>

\* One table fails them all.
ExtractFails ==
    /\ worker.pc = "extract"
    /\ worker' = NoWork
    /\ status' = "error"
    /\ UNCHANGED <<draft, imported, diskDraft, diskImported, queue, ask, imp, rows,
                   calls, seen>>

\* Mutant: what the tables had before stays in the draft.
MergeAppending ==
    /\ worker.pc = "merge"
    /\ worker' = [worker EXCEPT !.pc = "names",
         !.base = IF worker.job.full THEN worker.result ELSE Extend(Existing, worker.result),
         !.removed = IF worker.job.full THEN Name ELSE RemovedNames(Existing, worker.job.tables)]
    /\ UNCHANGED <<draft, imported, diskDraft, diskImported, status, queue, ask, imp, rows,
                   calls, seen>>

\* A full extraction replaces the draft, one of some tables theirs.
Merge ==
    /\ worker.pc = "merge"
    /\ worker' = [worker EXCEPT !.pc = "names",
         !.base = IF worker.job.full THEN worker.result
                  ELSE Extend(WithoutTables(Existing, worker.job.tables), worker.result),
         !.removed = IF worker.job.full THEN Name ELSE RemovedNames(Existing, worker.job.tables)]
    /\ UNCHANGED <<draft, imported, diskDraft, diskImported, status, queue, ask, imp, rows,
                   calls, seen>>

\* Mutant: the names that are extracted anew stay imported.
ForgetNothing ==
    /\ worker.pc = "names"
    /\ imported' = IF worker.job.full THEN {} ELSE imported
    /\ worker' = [worker EXCEPT !.pc = IF imported' = imported THEN "assign" ELSE "saveNames"]
    /\ seen' = [seen EXCEPT !.stale = @ \ worker.removed]
    /\ UNCHANGED <<draft, diskDraft, diskImported, status, queue, ask, imp, rows,
                   calls>>

ForgetNames ==
    /\ worker.pc = "names"
    /\ imported' = imported \ worker.removed
    /\ worker' = [worker EXCEPT !.pc =
         IF worker.job.full \/ (worker.removed # {} /\ imported # {}) THEN "saveNames" ELSE "assign"]
    /\ seen' = [seen EXCEPT !.stale = @ \ worker.removed]
    /\ UNCHANGED <<draft, diskDraft, diskImported, status, queue, ask, imp, rows,
                   calls>>

SaveNames ==
    /\ worker.pc = "saveNames"
    /\ diskImported' = imported
    /\ worker' = [worker EXCEPT !.pc = "assign"]
    /\ UNCHANGED <<draft, imported, diskDraft, status, queue, ask, imp, rows,
                   calls, seen>>

Assign ==
    LET kept == NamesOf(WithoutTables(worker.base, worker.job.tables).ents)
        new  == NamesOf(worker.result.ents) \ kept
    IN  /\ worker.pc = "assign"
        /\ draft' = worker.base
        /\ worker' = [worker EXCEPT !.pc = "saveDraft"]
        /\ seen' = [seen EXCEPT
             !.fresh = (@ \ worker.removed) \cup new,
             !.cleared = @ \ EntSet(worker.result),
             !.made = @ \ worker.removed]
        /\ UNCHANGED <<imported, diskDraft, diskImported, status, queue, ask, imp, rows,
                       calls>>

\* Mutant: a status the page does not know.
SaveDraftUnnamed ==
    /\ worker.pc = "saveDraft"
    /\ diskDraft' = worker.base
    /\ status' = "finished"
    /\ worker' = NoWork
    /\ UNCHANGED <<draft, imported, diskImported, queue, ask, imp, rows,
                   calls, seen>>

\* It saves the draft it has built, whatever the draft is by now.
SaveDraft ==
    /\ worker.pc = "saveDraft"
    /\ diskDraft' = worker.base
    /\ status' = "done"
    /\ worker' = NoWork
    /\ UNCHANGED <<draft, imported, diskImported, queue, ask, imp, rows,
                   calls, seen>>

-----------------------------------------------------------------------------
(* _clear_draft, without an await.                                         *)

\* What the worker holds of the removed entities it will write back.
Remembered(gone) ==
    IF worker.pc \in {"names", "saveNames", "assign", "saveDraft"}
    THEN gone \cap EntSet(worker.base) ELSE {}

\* Mutant: the file is left alone.
ClearMemory(remaining, names, gone) ==
    /\ draft # None /\ Call
    /\ draft' = remaining /\ diskDraft' = IF remaining = None THEN diskDraft ELSE remaining
    /\ imported' = imported \ names /\ diskImported' = imported'
    /\ seen' = [seen EXCEPT !.cleared = @ \cup gone, !.undone = @ \cup Remembered(gone),
                            !.fresh = @ \ names, !.made = @ \ names, !.stale = @ \ names]
    /\ UNCHANGED <<status, queue, worker, ask, imp, rows>>

Clear(remaining, names, gone) ==
    /\ draft # None /\ Call
    /\ draft' = remaining /\ diskDraft' = remaining
    /\ imported' = imported \ names
    /\ diskImported' = IF names # {} /\ imported # {} THEN imported' ELSE diskImported
    /\ seen' = [seen EXCEPT !.cleared = @ \cup gone, !.undone = @ \cup Remembered(gone),
                            !.fresh = @ \ names, !.made = @ \ names, !.stale = @ \ names]
    /\ UNCHANGED <<status, queue, worker, ask, imp, rows>>

ClearAll == Clear(None, Name, EntSet(draft))

\* A draft without entities and relations is no draft.
ClearTables ==
    \E tables \in (SUBSET Table) \ {{}} :
        LET remaining == WithoutTables(Existing, tables)
        IN  Clear(IF remaining = EmptyDraft THEN None ELSE remaining,
                  RemovedNames(Existing, tables), EntSet(draft) \ EntSet(remaining))

-----------------------------------------------------------------------------
(* POST /draft/import.                                                     *)

Named(ents, names) == At(ents, {i \in DOMAIN ents : ents[i].name \in names})

Ordered(d, names) ==
    Named(d.ents, names \cap AtomicName)
    \o Named(d.ents, names \cap DerivedName)
    \o Named(d.ents, names \cap CompositeName)

\* The page offers what is visible.
Begin(i) ==
    /\ imp[i].pc = "new" /\ draft # None /\ Call
    /\ \E selected \in (SUBSET Visible) \ {{}} :
        /\ imp' = [imp EXCEPT ![i] = [NoImport EXCEPT
             !.pc = "atomics", !.draft = draft, !.todo = Ordered(draft, selected)]]
        /\ seen' = [seen EXCEPT !.loose = @ \cup
             (selected \cap ((IF worker.pc \in {"saveNames", "assign"} THEN seen.made ELSE {})
                             \cup UNION {NamesOf(imp[x].todo) \cup DOMAIN imp[x].ids : x \in Busy}))]
    /\ UNCHANGED <<draft, imported, diskDraft, diskImported, status, queue, worker, ask, rows>>

\* {m.name: m.id} over lists of rows: the last row of a name wins.  Atomic
\* metrics are listed newest first, derived ones by ids that are random.
RowsNamed(n) == {k \in DOMAIN rows : rows[k].name = n}
Configured(names) == {n \in names : RowsNamed(n) # {}}
Oldest(names) == [n \in Configured(names) |-> Min(RowsNamed(n))]
AnyRow(names) ==
    {ids \in [Configured(names) -> DOMAIN rows] : \A n \in DOMAIN ids : ids[n] \in RowsNamed(n)}

\* The two lists share a try: if the first fails the second is not read.
ListExisting(i) ==
    /\ \/ /\ imp[i].pc = "atomics"
          /\ \/ imp' = [imp EXCEPT ![i].pc = "deriveds", ![i].atomics = Oldest(AtomicName)]
             \/ imp' = [imp EXCEPT ![i].pc = "create"]
       \/ /\ imp[i].pc = "deriveds"
          /\ \/ \E ids \in AnyRow(DerivedName) :
                   imp' = [imp EXCEPT ![i].pc = "create", ![i].deriveds = ids]
             \/ imp' = [imp EXCEPT ![i].pc = "create"]
    /\ UNCHANGED <<draft, imported, diskDraft, diskImported, status, queue, worker, ask, rows,
                   calls, seen>>

Known(names, known) == At(names, {k \in DOMAIN names : names[k] \in known})

\* Mutant: what is configured already comes before what is imported with it.
ConfiguredFirst(ids, configured, names) ==
    LET found == Known(names, DOMAIN ids \cup DOMAIN configured)
    IN  [k \in DOMAIN found |->
           IF found[k] \in DOMAIN configured THEN configured[found[k]] ELSE ids[found[k]]]

\* References by name: created by this import, else configured before it.
Resolve(ids, configured, names) ==
    LET found == Known(names, DOMAIN ids \cup DOMAIN configured)
    IN  [k \in DOMAIN found |->
           IF found[k] \in DOMAIN ids THEN ids[found[k]] ELSE configured[found[k]]]

\* The first atomic metric of a derived one, the first two operands of a composite.
RefsFor(m, name) ==
    IF name \in AtomicName THEN <<>>
    ELSE IF name \in DerivedName
    THEN LET links == Links(m.draft, name, AtomicName)
         IN  Resolve(m.ids, m.atomics, SubSeq(links, 1, IF links = <<>> THEN 0 ELSE 1))
    ELSE LET found == Resolve(m.ids, m.deriveds, Links(m.draft, name, DerivedName))
         IN  IF Len(found) < 2 THEN found ELSE SubSeq(found, 1, 2)

Needed(name) == IF name \in AtomicName THEN 0 ELSE IF name \in DerivedName THEN 1 ELSE 2

\* A field is asked of atomic and derived metrics.
Importable(m, e) ==
    /\ Len(RefsFor(m, e.name)) = Needed(e.name)
    /\ e.name \in CompositeName \/ e.field # "absent"

Skip(i) ==
    /\ imp[i].pc = "create" /\ imp[i].todo # <<>>
    /\ ~ Importable(imp[i], Head(imp[i].todo))
    /\ imp' = [imp EXCEPT ![i].todo = Tail(@)]
    /\ UNCHANGED <<draft, imported, diskDraft, diskImported, status, queue, worker, ask, rows,
                   calls, seen>>

Create(i) ==
    /\ imp[i].pc = "create" /\ imp[i].todo # <<>>
    /\ Importable(imp[i], Head(imp[i].todo))
    /\ LET m    == imp[i]
           n    == Head(m.todo).name
           refs == RefsFor(m, n)
       IN  /\ rows' = Append(rows, [name |-> n, refs |-> refs])
           /\ imp' = [imp EXCEPT ![i].todo = Tail(@),
                        ![i].ids = [x \in DOMAIN @ \cup {n} |->
                                      IF x = n THEN Len(rows) + 1 ELSE @[x]]]
           /\ seen' = [seen EXCEPT
                !.made = IF m.draft = draft THEN @ \cup {n} ELSE @,
                !.twice = IF m.draft = draft /\ n \in seen.made \ DOMAIN m.ids
                          THEN @ \cup {n} ELSE @,
                !.mixed = @ \/ \E k \in DOMAIN refs :
                                 /\ rows[refs[k]].name \in DOMAIN m.ids
                                 /\ m.ids[rows[refs[k]].name] # refs[k]]
    /\ UNCHANGED <<draft, imported, diskDraft, diskImported, status, queue, worker, ask,
                   calls>>

\* create_... raises: the request ends, and no name is recorded.
CreateFails(i) ==
    /\ imp[i].pc = "create" /\ imp[i].todo # <<>>
    /\ Importable(imp[i], Head(imp[i].todo))
    /\ imp' = [imp EXCEPT ![i] = NoImport]
    /\ seen' = [seen EXCEPT !.loose = @ \cup DOMAIN imp[i].ids]
    /\ UNCHANGED <<draft, imported, diskDraft, diskImported, status, queue, worker, ask, rows,
                   calls>>

\* Mutant: no name is recorded.
RecordNothing(i) ==
    /\ imp[i].pc = "create" /\ imp[i].todo = <<>>
    /\ imp' = [imp EXCEPT ![i] = NoImport]
    /\ UNCHANGED <<draft, imported, diskDraft, diskImported, status, queue, worker, ask, rows,
                   calls, seen>>

\* Recorded against the draft as it is now, whichever the import has read.
Record(i) ==
    LET names == DOMAIN imp[i].ids
        overtaken == imp[i].draft # draft \/ worker.pc \in {"saveNames", "assign"}
    IN  /\ imp[i].pc = "create" /\ imp[i].todo = <<>>
        /\ imp' = [imp EXCEPT ![i] = NoImport]
        /\ imported' = imported \cup names
        /\ diskImported' = IF names # {} THEN imported' ELSE diskImported
        /\ seen' = [seen EXCEPT !.fresh = IF overtaken THEN @ ELSE @ \ names,
                                !.stale = IF overtaken THEN @ \cup names ELSE @]
        /\ UNCHANGED <<draft, diskDraft, status, queue, worker, ask, rows, calls>>

-----------------------------------------------------------------------------
(* A crash, and the start of the next process, which loads the files.      *)

\* A file that is being written is torn and loads as if there were none.  A
\* crash in the middle of a full clear leaves the names without a draft.
Crash ==
    /\ Call
    /\ \E loaded \in {diskDraft, None}, names \in {diskImported, {}} :
        /\ loaded = None => diskDraft = None \/ worker.pc = "saveDraft" \/ draft # None
        /\ names # diskImported => worker.pc = "saveNames"
        /\ draft' = loaded /\ diskDraft' = loaded
        /\ imported' = names /\ diskImported' = names
        /\ seen' = [seen EXCEPT
             !.fresh = {},
             !.stale = IF loaded = None \/ worker.pc # "idle" THEN @ \cup names ELSE @,
             !.loose = @ \cup (seen.made \ names) \cup UNION {DOMAIN imp[i].ids : i \in Busy},
             !.doubled = FALSE]
    /\ status' = "idle" /\ queue' = <<>> /\ worker' = NoWork
    /\ ask' = [e \in Extractor |-> NoAsk]
    /\ imp' = [i \in Importer |-> NoImport]
    /\ UNCHANGED rows

-----------------------------------------------------------------------------

WorkerStep ==
    \/ Take \/ Extract \/ ExtractFails \/ Merge \/ ForgetNames \/ SaveNames
    \/ Assign \/ SaveDraft

DraftNext ==
    \/ \E e \in Extractor : Check(e) \/ Refuse(e) \/ Start(e)
    \/ WorkerStep
    \/ ClearAll \/ ClearTables
    \/ \E i \in Importer :
        Begin(i) \/ ListExisting(i) \/ Skip(i) \/ Create(i) \/ CreateFails(i) \/ Record(i)
    \/ Crash

DraftSpec == DraftInit /\ [][DraftNext]_draftVars

-----------------------------------------------------------------------------

\* What an extraction has just delivered is on the page: a name is hidden only
\* because it was imported since, or because an import that the extraction
\* overtook recorded it late (metric_graph_routes.py:229-246, 421).
FreshIsVisible == seen.fresh \cap imported \subseteq seen.stale

\* Extracting a table again replaces what it had: no metric of a table is in the
\* draft twice, to be shown, and imported, twice (metric_graph_routes.py:236-239).
EntitiesOnce ==
    \A i, j \in DOMAIN Existing.ents :
        /\ Existing.ents[i].name = Existing.ents[j].name
        /\ Existing.ents[i].table = Existing.ents[j].table
        => i = j

\* What the admin cleared stays away, also after a restart; only a clear that
\* falls between the worker's read of the draft and its save is undone
\* (metric_graph_routes.py:236-247, 334-385).
ClearedStaysCleared == seen.cleared \cap EntSet(draft) \subseteq seen.undone

\* No metric is imported twice from one extraction, unless its import failed,
\* ran beside another one or beside the extraction's write, or a crash forgot
\* it (metric_graph_routes.py:232, 421; draft.py:303-387).
NotImportedTwice == seen.twice \subseteq seen.loose

\* A metric imported together with the one it is derived from refers to that
\* one, not to an older metric of the same name (draft.py:338-341, 369-373).
SiblingsLinked == ~ seen.mixed

\* A status of "running" is never left behind: a job is queued or under way
\* that will replace it.  Were it left, every later request would be refused
\* until a restart.  Conversely, while an extraction is under way the status says
\* so, unless two requests passed the check before either had started
\* (metric_graph_routes.py:249-252, 266-312).
StatusIsTrue ==
    /\ status = "running" => Pending
    /\ Pending /\ ~ seen.doubled => status = "running"
=============================================================================
