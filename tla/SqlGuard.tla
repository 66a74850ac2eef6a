------------------------------ MODULE SqlGuard ------------------------------
(***************************************************************************)
(* What EnhancedToolRegistry does to a query before run_sql sees it: the   *)
(* checks that reject it, in the order of transform_args, and the filters  *)
(* of row-level security.                                                  *)
(*                                                                         *)
(* A query is the record of what the checks look at: the configured        *)
(* patterns its text matches, the kinds of the statements it parses into   *)
(* (none when it does not parse), its sizes, and the tables and columns of *)
(* one flat SELECT that joins tables on conditions.  Nested SELECTs and    *)
(* outer joins are not represented.                                        *)
(***************************************************************************)
EXTENDS Naturals, FiniteSets, Sequences, Functions

CONSTANTS
    Security,   \* the loaded SqlSecurityConfig
    Data,       \* per table: its rows
    Null        \* the owner of a row whose filter column is NULL

Enabled(section) == section \in Security.enabled

(* sql_injection: a pattern marked metadata_related spares the queries that *)
(* match an allowed metadata pattern.                                       *)
Injected(q) ==
    /\ Enabled("injection")
    /\ \E p \in Security.forbidden \cap q.matches :
          ~(p \in Security.metadataRelated /\ Security.metadata \cap q.matches # {})

Parses(q) == Len(q.kinds) = 1

(* query_governance *)
Governed(q) == Enabled("governance") /\ Security.readOnly => q.kinds[1] = "SELECT"

(* query_limits *)
WithinLimits(q) ==
    Enabled("limits") =>
      /\ q.size <= Security.maxLength
      /\ q.subqueries <= Security.maxSubqueries
      /\ q.ctes <= Security.maxCtes
      /\ Len(q.joins) <= Security.maxJoins
      /\ \A n \in q.limits : n <= Security.maxRows

TablesOf(q) == {q.from} \cup {q.joins[i].table : i \in DOMAIN q.joins}

Permitted(q) ==
    Enabled("limits") => /\ TablesOf(q) \cap Security.forbiddenTables = {}
                         /\ q.functions \cap Security.blockedFunctions = {}

(* sql_semantics *)
JoinsConditioned(q) ==
    Enabled("join") =>
      \A i \in DOMAIN q.joins : q.joins[i].on \/ q.joins[i].kind \in {"CROSS", "NATURAL"}

WindowsPartitioned(q) == Enabled("window") => FALSE \notin q.partitioned

Grouped(q) ==
    Enabled("aggregation") /\ q.aggregates /\ q.grouped # {} => q.plain \subseteq q.grouped

WellShaped(q) ==
    Enabled("semantics") => JoinsConditioned(q) /\ WindowsPartitioned(q) /\ Grouped(q)

Accepted(q) ==
    /\ ~Injected(q)
    /\ Parses(q)
    /\ Governed(q)
    /\ WithinLimits(q)
    /\ Permitted(q)
    /\ WellShaped(q)

-----------------------------------------------------------------------------
(* Row-level security *)

Values(group) == IF group \in DOMAIN Security.groupValues THEN Security.groupValues[group] ELSE {}

FullAccess(groups) == \E g \in groups : "*" \in Values(g)

AllowedLastOnly(groups) ==
    IF groups = {} THEN {} ELSE Values(CHOOSE g \in groups : TRUE)

Allowed(groups) == UNION {Values(g) : g \in groups}

DirectTables(q) == TablesOf(q)

(* Adds to the WHERE clause one condition per protected table it names; an *)
(* entry that names neither a column nor a complete mapping adds none.     *)
ApplyRls(q, groups) ==
    IF ~Enabled("rls") \/ q.kinds[1] # "SELECT" \/ FullAccess(groups)
    THEN q
    ELSE [q EXCEPT !.filters = @ \cup
            {[table |-> t, values |-> Allowed(groups)] :
                t \in {u \in DirectTables(q) \cap DOMAIN Security.protected :
                          Security.protected[u].by # "nothing"}}]

OwnedBy(row, values) == values # {} /\ row.owner \in values \cup {Null}

(* The condition on a row: on its own column, or on a row it refers to. *)
FilterCondition(filter, row) ==
    LET entry == Security.protected[filter.table]
    IN  IF entry.by = "column"
        THEN OwnedBy(row, filter.values)
        ELSE \E h \in Data[entry.via] : h.key = row.key /\ OwnedBy(h, filter.values)

(* What the database answers: the joined rows every filter lets through. *)
Answer(q) ==
    {joined \in [TablesOf(q) -> UNION Range(Data)] :
        /\ \A t \in TablesOf(q) : joined[t] \in Data[t]
        /\ \A t, u \in TablesOf(q) : joined[t].key = joined[u].key
        /\ \A filter \in q.filters : FilterCondition(filter, joined[filter.table])}

(* transform_args: what run_sql is given, of a query that is accepted. *)
Transform(q, groups) == ApplyRls(q, groups)

-----------------------------------------------------------------------------
(* What the configuration means: a group sees the rows of its values.  Rows  *)
(* without a value are for everybody who has one.                            *)
Sees(groups, table, row) ==
    \/ table \notin DOMAIN Security.protected
    \/ Security.protected[table].by = "nothing"
    \/ \E g \in groups :
          \/ "*" \in Values(g)
          \/ /\ Values(g) # {}
             /\ \E h \in IF Security.protected[table].by = "column"
                         THEN {row}
                         ELSE {x \in Data[Security.protected[table].via] : x.key = row.key} :
                   h.owner \in Values(g) \cup {Null}

Entitled(q, groups) ==
    {joined \in Answer([q EXCEPT !.filters = {}]) :
        \A t \in TablesOf(q) : Sees(groups, t, joined[t])}
=============================================================================
