----------------------------- MODULE MetricSql -----------------------------
(***************************************************************************)
(* The SQL that execute_metric builds from an atomic metric [id, table,    *)
(* field, calc] and its derived metrics [field, joins], and the tools that *)
(* show metrics.  A field is [table, column], a join [type, from, to] goes *)
(* from a field to a field.                                                *)
(*                                                                         *)
(* A query is [select, from, joins, group]: select is a sequence of fields *)
(* with the aggregate function applied to them, or NoCalc, and whether     *)
(* they are named: the metric's own is.                                    *)
(***************************************************************************)
EXTENDS Naturals, Sequences, FiniteSets, SequencesExt

CONSTANT NoCalc   \* a metric without a calculation

Plain(field) == [calc |-> NoCalc, field |-> field, named |-> FALSE]

\* Each in front of the ones before; a field already there is not selected again.
Selected(metric, derived) ==
    FoldLeft(LAMBDA parts, d : IF Plain(d.field) \in ToSet(parts) THEN parts
                               ELSE <<Plain(d.field)>> \o parts,
             <<[calc |-> metric.calc, field |-> metric.field, named |-> TRUE]>>, derived)

\* The first join to a table is the only one.
JoinsOf(metric, derived) ==
    FoldLeft(LAMBDA joins, j :
                IF j.to.table \in {metric.table} \cup {k.to.table : k \in ToSet(joins)}
                THEN joins ELSE Append(joins, j),
             <<>>, FlattenSeq([i \in DOMAIN derived |-> derived[i].joins]))

BuildSql(metric, derived) ==
    [select |-> Selected(metric, derived),
     from   |-> metric.table,
     joins  |-> JoinsOf(metric, derived),
     group  |-> IF metric.calc = NoCalc THEN <<>>
                ELSE [i \in DOMAIN derived |-> derived[i].field]]

-----------------------------------------------------------------------------
(* The tools *)

NotFound == [ok |-> FALSE, metrics |-> {}, fields |-> {}, rows |-> 0]

\* The derived metrics are left out when their store fails.
DerivedShown(derived, storeFails) == IF storeFails THEN <<>> ELSE derived

MetricDetail(metrics, id, derivedOf, storeFails) ==
    IF id \notin {m.id : m \in metrics} THEN NotFound
    ELSE [ok |-> TRUE, rows |-> 0, metrics |-> {id},
          fields |-> {d.field : d \in ToSet(DerivedShown(derivedOf[id], storeFails))}]

ListMetrics(metrics) ==
    [ok |-> TRUE, rows |-> 0, metrics |-> {m.id : m \in metrics}, fields |-> {}]

(* The filters and dimension values of the call are not used.              *)
ExecuteMetric(metrics, id, derivedOf, storeFails, answers) ==
    IF id \notin {m.id : m \in metrics} THEN NotFound
    ELSE LET metric  == CHOOSE m \in metrics : m.id = id
             derived == DerivedShown(derivedOf[id], storeFails)
             answer  == answers[BuildSql(metric, derived)]
         IN  [ok |-> answer.ok, rows |-> answer.rows, metrics |-> {id},
              fields |-> {d.field : d \in ToSet(derived)}]

-----------------------------------------------------------------------------
TablesOf(query) == {query.from} \cup {j.to.table : j \in ToSet(query.joins)}

(* The columns of an aggregating query that are not aggregated are those   *)
(* it groups by; nothing is selected twice, and no table joined twice or   *)
(* to itself; and when every derived metric is on the metric's table or    *)
(* has a join to its own from the metric's table, all fields and joins of  *)
(* the query are on tables it has.                                         *)
SqlIsWellFormed(metric, derived) ==
    LET query == BuildSql(metric, derived)
        plain == {p.field : p \in {p \in ToSet(query.select) : p.calc = NoCalc}}
        reachable == \A d \in ToSet(derived) :
                        /\ d.field.table = metric.table
                           \/ \E j \in ToSet(d.joins) : j.to.table = d.field.table
                        /\ \A j \in ToSet(d.joins) : j.from.table = metric.table
    IN  /\ metric.calc # NoCalc => plain = ToSet(query.group)
        /\ \A i, k \in DOMAIN query.joins :
                i # k => query.joins[i].to.table # query.joins[k].to.table
        /\ query.from \notin {j.to.table : j \in ToSet(query.joins)}
        /\ \A i, k \in DOMAIN query.select : i # k => query.select[i] # query.select[k]
        /\ reachable /\ metric.field.table = metric.table =>
                /\ {p.field.table : p \in ToSet(query.select)} \subseteq TablesOf(query)
                /\ \A j \in ToSet(query.joins) : j.from.table \in TablesOf(query)

(* execute_metric says it grouped by the derived metrics that              *)
(* get_metric_detail lists, and those are the ones its query groups by.    *)
DetailAndExecutionAgree(metric, derived, storeFails) ==
    LET shown   == DerivedShown(derived, storeFails)
        query   == BuildSql(metric, shown)
        detail  == MetricDetail({metric}, metric.id, [id \in {metric.id} |-> derived], storeFails)
        answers == [q \in {BuildSql(metric, <<>>), BuildSql(metric, derived)} |->
                        [ok |-> TRUE, rows |-> Len(q.group)]]
        answer  == ExecuteMetric({metric}, metric.id, [id \in {metric.id} |-> derived], storeFails, answers)
    IN  /\ answer.metrics = detail.metrics /\ answer.fields = detail.fields
        /\ answer.rows = Len(query.group)
        /\ metric.calc # NoCalc => answer.fields = ToSet(query.group)
=============================================================================
