----------------------------- MODULE MCToolTurn -----------------------------
(* ToolTurn with the shipped policies, two queries that pass the guard and  *)
(* two that do not.                                                         *)
EXTENDS ToolTurn, TLC

CONSTANTS k1, k2, q1, q2, note

Search == "search_table_schema"

MCTool == {RunSql, Search, note}
MCAccess == [t \in MCTool |-> IF t = note THEN {"admin"} ELSE {}]
MCPolicy == [t \in {RunSql, Search} |-> IF t = RunSql THEN RunSqlPolicy ELSE SchemaSearchPolicy]
MCUsers == {{"china", "emea"}, {"china", "admin"}, {"guest"}}

MCData ==
    [orders |-> {[key |-> 1, owner |-> "CN"], [key |-> 2, owner |-> "DE"], [key |-> 3, owner |-> Null]},
     items  |-> {[key |-> 1, owner |-> Null], [key |-> 2, owner |-> Null], [key |-> 4, owner |-> Null]},
     units  |-> {[key |-> 1, owner |-> "DE"]}]

MCSecurity ==
    [enabled |-> {"injection", "governance", "limits", "semantics", "join", "window",
                  "aggregation", "rls"},
     forbidden |-> {"outfile"}, metadataRelated |-> {}, metadata |-> {"show"},
     readOnly |-> TRUE, maxLength |-> 10000, maxSubqueries |-> 5, maxCtes |-> 3, maxJoins |-> 15,
     maxRows |-> 10000, forbiddenTables |-> {}, blockedFunctions |-> {"sleep"},
     groupValues |-> [china |-> {"CN"}, emea |-> {"DE"}, admin |-> {"*"}],
     protected |-> [orders |-> [by |-> "column"], items |-> [by |-> "via", via |-> "orders"]]]

Plain ==
    [matches |-> {}, kinds |-> <<"SELECT">>, size |-> 10, subqueries |-> 0, ctes |-> 0,
     from |-> "orders", joins |-> <<>>, limits |-> {20}, functions |-> {}, partitioned |-> {},
     aggregates |-> FALSE, grouped |-> {}, plain |-> {}, filters |-> {}]

Joined == [Plain EXCEPT !.from = "items",
                        !.joins = <<[table |-> "units", on |-> TRUE, kind |-> ""]>>]

MCQuery == {Plain, Joined,
            [Plain EXCEPT !.kinds = <<"UNION">>],
            [Joined EXCEPT !.joins[1].on = FALSE]}

MCShape == [q \in MCQuery |-> [skeleton |-> IF q.joins = <<>> THEN k1 ELSE k2, sound |-> TRUE]]

Found(q, ts) == [NoMetadata(TRUE) EXCEPT !.query = q, !.tables = ts, !.empty = (ts = {})]

MCFinding(t) ==
    IF t = Search THEN {Failure, Found(q1, {}), Found(q1, {"orders"}), Found(q2, {"orders"})}
    ELSE {NoMetadata(TRUE)}
=============================================================================
