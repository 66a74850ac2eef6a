---------------------------- MODULE VectorStore ----------------------------
(***************************************************************************)
(* A PostgreSQL table with an embedding column, and the tools, commands    *)
(* and endpoints that call its store: the agent memory, the schema store,  *)
(* or a store of atomic or derived metrics, which all go about their       *)
(* tables in the same way.                                                 *)
(*                                                                         *)
(* Every store call opens a connection of its own in a worker thread and   *)
(* first ensures the table: when the column's dimension is not that of     *)
(* the caller's model it clears all embeddings and alters the column.  An  *)
(* advisory lock is held from the reading of the dimension to the ALTER,   *)
(* not to the commit; until the commit others read the old dimension, and  *)
(* wait when they touch the table.                                         *)
(*                                                                         *)
(* A row is Absent, "embedded", or "blind": its embedding is NULL.         *)
(***************************************************************************)
EXTENDS Naturals, Sequences, FiniteSets

CONSTANTS
    ToolMemory, TextMemory, TableSchema, Metric, \* row ids, by what they hold
    Client,       \* one element per request
    Model,        \* embedding models of different dimensions
    Nearness,     \* per query and row: the place of its embedding among all rows'
    Matching,     \* per query: the rows with its words
    Wording,      \* per query and row: the place of its words (ts_rank) among all rows'
    Reranks,      \* whether there is a cross-encoder
    CrossScore,   \* per query and row: its score, in millionths
    Limit,        \* of a search
    Absent        \* no row, no table, nobody

VARIABLES
    holds,        \* what the table is for: "memories", "schemas" or "metrics"
    table,        \* the rows
    column,       \* the model whose dimension the column has
    latch,        \* who holds the advisory lock
    migrating,    \* whose uncommitted migration locks the table
    client        \* the requests

vectorVars == <<holds, table, column, latch, migrating, client>>

Memory == ToolMemory \cup TextMemory
Row == Memory \cup TableSchema \cup Metric
Query == DOMAIN Matching

ASSUME VectorAssumption ==
    /\ Absent \notin Row \cup Client \cup Model
    /\ "embedded" # Absent /\ "blind" # Absent
    /\ Reranks \in BOOLEAN /\ Limit \in Nat

Singletons(rows) == {{r} : r \in rows}

(* What may be asked, and about which rows.  A filter of clear_memories    *)
(* may match any of them; a search is for rows of one kind.                *)
AskMemory ==
    [kind : {"save", "delete"}, about : Singletons(Memory)]
    \cup [kind : {"search"}, about : {ToolMemory, TextMemory}, query : Query]
    \cup [kind : {"memories"}, about : {Memory}]
    \cup [kind : {"clear"}, about : SUBSET Memory]

AskSchema ==
    [kind : {"save", "get", "drop", "describe"}, about : Singletons(TableSchema)]
    \cup [kind : {"search"}, about : {TableSchema}, query : Query]
    \cup [kind : {"list"}, about : {TableSchema}]
    \cup [kind : {"sync"}, about : SUBSET TableSchema]

AskMetric ==
    [kind : {"save", "get", "drop", "update"}, about : Singletons(Metric)]
    \cup [kind : {"search"}, about : {Metric}, query : Query]
    \cup [kind : {"list"}, about : {Metric}]

RowsOf(use) == CASE use = "memories" -> Memory
                 [] use = "schemas"  -> TableSchema
                 [] use = "metrics"  -> Metric

Ask == CASE holds = "memories" -> AskMemory
         [] holds = "schemas"  -> AskSchema
         [] holds = "metrics"  -> AskMetric

Nothing == [kind |-> "nothing", about |-> {}]

(* The store calls of a request, in order.                                 *)
CallsOf(ask) ==
    CASE ask.kind = "save"     -> <<"upsert">>
      [] ask.kind = "memories" -> <<"list", "list">>
      [] ask.kind = "delete"   -> <<"deleteTool", "deleteText">>
      [] ask.kind = "describe" -> <<"get", "upsert">>
      [] ask.kind = "update"   -> <<"get", "upsert", "get">>
      [] OTHER                 -> <<ask.kind>>

VectorInit ==
    /\ holds \in {"memories", "schemas", "metrics"}
    /\ table \in {[r \in Row |-> IF r \in old THEN "embedded" ELSE Absent] :
                    old \in SUBSET RowsOf(holds)}
    /\ column \in Model \cup {Absent}
    /\ column = Absent => \A r \in Row : table[r] = Absent
    /\ latch = Absent
    /\ migrating = Absent
    /\ client \in [Client -> [pc : {"idle"}, model : Model, ask : {Nothing}, todo : {<<>>},
                              stale : {FALSE}, needless : {FALSE}, shown : {<<>>},
                              answer : {"none"}]]

At(c, pc) == client[c].pc = pc

Goto(c, pc) == client' = [client EXCEPT ![c].pc = pc]

Answers(c, answer) == client' = [client EXCEPT ![c].pc = "done", ![c].answer = answer]

-----------------------------------------------------------------------------
(* Requests *)

\* Memory ids are fresh uuids.
IsNew(ask) ==
    ask.kind = "save" =>
        \A r \in ask.about \cap Memory :
            /\ table[r] = Absent
            /\ \A c \in Client : client[c].ask.kind = "save" => r \notin client[c].ask.about

Asks(c) ==
    /\ At(c, "idle")
    /\ \E ask \in Ask :
        /\ IsNew(ask)
        /\ client' = [client EXCEPT ![c].pc = "ddl", ![c].ask = ask, ![c].todo = CallsOf(ask)]
    /\ UNCHANGED <<holds, table, column, latch, migrating>>

\* /memories and /delete of a user who is no admin; a sync whose extraction fails.
Denies(c) ==
    /\ At(c, "idle")
    /\ Answers(c, "denied")
    /\ UNCHANGED <<holds, table, column, latch, migrating>>

-----------------------------------------------------------------------------
(* _ensure_table *)

\* With the table locked by a migration this waits, or gives up on lock_timeout.
Ddl(c) ==
    /\ At(c, "ddl")
    /\ column' = IF column = Absent THEN client[c].model ELSE column
    /\ Goto(c, "lock")
    /\ UNCHANGED <<holds, table, latch, migrating>>

\* Mutant: the dimension is read without the advisory lock.
TakesLatchAnyway(c) ==
    /\ At(c, "lock")
    /\ latch' = c
    /\ Goto(c, "read")
    /\ UNCHANGED <<holds, table, column, migrating>>

TakesLatch(c) ==
    /\ At(c, "lock")
    /\ latch = Absent
    /\ latch' = c
    /\ Goto(c, "read")
    /\ UNCHANGED <<holds, table, column, migrating>>

ReadsDimension(c) ==
    /\ At(c, "read")
    /\ client' = [client EXCEPT ![c].pc = IF column = client[c].model THEN "unlock" ELSE "migrate",
                                ![c].stale = migrating # Absent, ![c].needless = FALSE]
    /\ UNCHANGED <<holds, table, column, latch, migrating>>

\* Drops the index, clears the embeddings and alters the column, once the table is not locked.
Migrates(c) ==
    /\ At(c, "migrate")
    /\ migrating = Absent
    /\ migrating' = c
    /\ client' = [client EXCEPT ![c].pc = "unlock",
                                ![c].needless = column = client[c].model]
    /\ UNCHANGED <<holds, table, column, latch>>

ReleasesLatch(c) ==
    /\ At(c, "unlock")
    /\ latch' = Absent
    /\ Goto(c, "commit")
    /\ UNCHANGED <<holds, table, column, migrating>>

Commits(c) ==
    /\ At(c, "commit")
    /\ IF migrating = c
       THEN /\ column' = client[c].model
            /\ table' = [r \in Row |-> IF table[r] = Absent THEN Absent ELSE "blind"]
            /\ migrating' = Absent
       ELSE UNCHANGED <<table, column, migrating>>
    /\ Goto(c, "call")
    /\ UNCHANGED <<holds, latch>>

\* The connection is lost: its lock goes and its transaction is rolled back.
Breaks(c) ==
    /\ client[c].pc \notin {"idle", "done"}
    /\ latch' = IF latch = c THEN Absent ELSE latch
    /\ migrating' = IF migrating = c THEN Absent ELSE migrating
    /\ Answers(c, "error")
    /\ UNCHANGED <<holds, table, column>>

-----------------------------------------------------------------------------
(* The store call itself, one transaction *)

Embedded(r) == table[r] = "embedded"

(* Reciprocal rank fusion, in millionths: 1 / (60 + rank) from each of the *)
(* rankings, by embedding and by words, that has the row.                  *)
Rank(r, order, rows) == Cardinality({s \in rows : order[s] <= order[r]})

Score(r, query, near, match) ==
    LET Term(rows, order) == IF r \in rows THEN 1000000 \div (60 + Rank(r, order, rows)) ELSE 0
    IN  Term(near, Nearness[query]) + Term(match, Wording[query])

\* The rows that either ranking has, each with its score.
Scored(query, rows) ==
    LET near  == {r \in rows : Embedded(r)}
        match == {r \in rows : table[r] # Absent /\ r \in Matching[query]}
    IN  [r \in near \cup match |-> Score(r, query, near, match)]

\* At most count of the scored rows, best first.
TopRows(score, count) ==
    LET rows == DOMAIN score
        n == IF Cardinality(rows) < count THEN Cardinality(rows) ELSE count
    IN  {best \in [1..n -> rows] :
            /\ \A i, j \in 1..n : i < j => best[i] # best[j] /\ score[best[i]] >= score[best[j]]
            /\ \A r \in rows \ {best[i] : i \in 1..n}, i \in 1..n : score[best[i]] >= score[r]}

\* Memories and schemas with a lower score are not shown.
Shows(score) == holds = "metrics" \/ score >= 2000

Relevant(best, score) == SubSeq(best, 1, Cardinality({i \in DOMAIN best : Shows(score[best[i]])}))

\* How many candidates the cross-encoder gets per row that is shown.
CandidateMultiplier == 2

\* The cross-encoder scores the candidates anew when there are more than the limit.
Found(query, rows) ==
    LET fused == Scored(query, rows)
        Crossed(candidates) ==
            [r \in {candidates[i] : i \in DOMAIN candidates} |-> CrossScore[query][r]]
        Results(candidates) ==
            IF Len(candidates) <= Limit THEN {Relevant(candidates, fused)}
            ELSE {Relevant(best, Crossed(candidates)) : best \in TopRows(Crossed(candidates), Limit)}
    IN  UNION {Results(candidates) :
               candidates \in TopRows(fused, IF Reranks THEN Limit * CandidateMultiplier ELSE Limit)}

\* pgvector compares and stores vectors of one dimension only.
Mismatch(c, call) ==
    LET about == client[c].ask.about
    IN  /\ column # client[c].model
        /\ \/ call = "upsert"
           \/ call = "sync" /\ about # {}
           \/ call = "search" /\ \E r \in about : Embedded(r)

\* The embedding is computed before, and written with the row.
Saved == "embedded"

MemoryAfter(call, r) ==
    CASE call = "upsert"     -> Saved
      [] call = "deleteTool" -> IF r \in ToolMemory THEN Absent ELSE table[r]
      [] call = "deleteText" -> IF r \in TextMemory THEN Absent ELSE table[r]
      [] call = "clear"      -> Absent
      [] OTHER               -> table[r]

SchemaAfter(call, r) ==
    CASE call \in {"upsert", "sync"} -> Saved
      [] call = "drop"               -> Absent
      [] OTHER                       -> table[r]

\* A sync deletes all schemas and saves the given ones.
TableAfter(call, about) ==
    [r \in Row |->
        IF r \notin about THEN (IF call = "sync" THEN Absent ELSE table[r])
        ELSE IF holds = "memories" THEN MemoryAfter(call, r) ELSE SchemaAfter(call, r)]

(* /delete tries the text memories only if it deleted no tool memory, and  *)
(* a description is saved only if the schema it belongs to was there.      *)
Remaining(c, call) ==
    LET rows == client[c].ask.about
    IN  IF \/ call = "deleteTool" /\ \E r \in rows \cap ToolMemory : table[r] # Absent
           \/ call = "get" /\ \A r \in rows : table[r] = Absent
        THEN <<>> ELSE Tail(client[c].todo)

Answer(call, about) ==
    IF \/ call = "deleteText" /\ \A r \in about \cap TextMemory : table[r] = Absent
       \/ call \in {"get", "drop"} /\ \A r \in about : table[r] = Absent
    THEN "missing" ELSE "ok"

Calls(c) ==
    /\ At(c, "call")
    /\ migrating = Absent
    /\ LET call == Head(client[c].todo)
           ask  == client[c].ask
           rest == Remaining(c, call)
       IN  /\ ~Mismatch(c, call)
           /\ table' = TableAfter(call, ask.about)
           /\ \E shown \in IF call = "search" THEN Found(ask.query, ask.about) ELSE {<<>>} :
                client' = [client EXCEPT ![c].pc = IF rest = <<>> THEN "done" ELSE "ddl",
                                         ![c].todo = rest, ![c].shown = shown,
                                         ![c].answer = Answer(call, ask.about)]
    /\ UNCHANGED <<holds, column, latch, migrating>>

\* The exception is reported by the tool or command that made the call.
CallFails(c) ==
    /\ At(c, "call")
    /\ migrating = Absent
    /\ Mismatch(c, Head(client[c].todo))
    /\ Answers(c, "error")
    /\ UNCHANGED <<holds, table, column, latch, migrating>>

VectorNext ==
    \E c \in Client :
        \/ Asks(c) \/ Denies(c)
        \/ Ddl(c) \/ TakesLatch(c) \/ ReadsDimension(c) \/ Migrates(c)
        \/ ReleasesLatch(c) \/ Commits(c) \/ Breaks(c)
        \/ Calls(c) \/ CallFails(c)

VectorSpec == VectorInit /\ [][VectorNext]_vectorVars

-----------------------------------------------------------------------------
(* A connection clears the embeddings of a column that already has its     *)
(* model's dimension only if it read the dimension after another           *)
(* connection let go of the advisory lock and before that one committed.   *)
EmbeddingsSurvive == \A c \in Client : client[c].needless => client[c].stale

=============================================================================
