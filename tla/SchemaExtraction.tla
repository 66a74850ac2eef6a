-------------------------- MODULE SchemaExtraction --------------------------
(***************************************************************************)
(* The schema extractors: what they read from a database's catalog and     *)
(* from its rows, per dialect.                                             *)
(*                                                                         *)
(* A catalog is a sequence of tables [name, columns, rows]: columns is a   *)
(* sequence of [name, kind, key], where kind is the class of the data      *)
(* type, and a row gives each column a number or Null.  A foreign key is   *)
(* [name, table, from, ref, to], with columns from[i] referring to to[i].  *)
(***************************************************************************)
EXTENDS Integers, Sequences, FiniteSets, SequencesExt, FiniteSetsExt

CONSTANTS
    Null,          \* no value
    DistinctLimit  \* values listed for a categorical column

Numbers(table, column) == {row[column] : row \in table.rows} \ {Null}

-----------------------------------------------------------------------------
(* Foreign keys: what the rows of the catalog query say column refers to.  *)
(* A column's entry is overwritten by each further row.                    *)

Pair(ref, to) == <<ref, to>>

\* constraint_column_usage has no positions, and is joined by the constraint's name.
PostgresReferences(fks, table, column) ==
    LET names  == {f.name : f \in {f \in fks : f.table = table /\ column \in ToSet(f.from)}}
        usages == {f \in fks : f.name \in names}
    IN  UNION {{Pair(f.ref, to) : to \in ToSet(f.to)} : f \in usages}

\* key_column_usage, and SQLite's foreign_key_list, have both columns of a pair.
Paired(fks, table, column) ==
    UNION {{Pair(f.ref, f.to[i]) : i \in {n \in DOMAIN f.from : f.from[n] = column}} :
           f \in {f \in fks : f.table = table}}

-----------------------------------------------------------------------------
(* Values *)

\* Of up to three rows; a column with no value among them gets none.
Examples(sample, column) == {row[column] : row \in sample} \ {Null}

NoRange == [kind |-> "none"]

(* MIN ~ MAX, or the distinct values unless they are too many.             *)
ValueRange(table, column) ==
    LET values == Numbers(table, column.name)
    IN  CASE values = {} -> NoRange
          [] column.kind \in {"numeric", "temporal"} /\ values # {} ->
                [kind |-> "between", low |-> Min(values), high |-> Max(values)]
          [] column.kind \in {"text", "boolean"} /\ values # {} ->
                IF Cardinality(values) <= DistinctLimit
                THEN [kind |-> "oneOf", values |-> values] ELSE NoRange
          [] column.kind = "other" /\ values # {} -> NoRange

(* One query for all columns with a minimum and a maximum, then one for    *)
(* each categorical column; the first that fails ends it.                  *)
Queries(columns) ==
    LET OfKind(kinds) == SelectSeq(columns, LAMBDA c : c.kind \in kinds)
    IN  (IF OfKind({"numeric", "temporal"}) = <<>> THEN <<>>
         ELSE <<ToSet(OfKind({"numeric", "temporal"}))>>)
        \o [i \in 1..Len(OfKind({"text", "boolean"})) |-> {OfKind({"text", "boolean"})[i]}]

\* answered is how many queries succeed.
ValueRanges(table, answered) ==
    LET known == UNION ToSet(SubSeq(Queries(table.columns), 1, answered))
    IN  [c \in ToSet(table.columns) |-> IF c \in known THEN ValueRange(table, c) ELSE NoRange]

-----------------------------------------------------------------------------
(* extract_schemas, of one table, given the columns of its key and what    *)
(* each column may refer to, of which one reference stays.  look has the sampled rows and how many queries were answered.   *)
ExtractedTable(table, keys, references, look) ==
    [name    |-> table.name,
     columns |-> [i \in DOMAIN table.columns |->
                    LET column == table.columns[i]
                    IN  [name     |-> column.name,
                         key      |-> column \in keys,
                         refersTo |-> references[column.name],
                         examples |-> Examples(look.sample, column.name),
                         range    |-> ValueRanges(table, look.answered)[column]]]]

PrimaryKey(table) == {c \in ToSet(table.columns) : c.key # "no"}

Names(table) == {c.name : c \in ToSet(table.columns)}

PostgresTable(fks, table, look) ==
    ExtractedTable(table, PrimaryKey(table), [c \in Names(table) |-> PostgresReferences(fks, table.name, c)], look)

MySqlTable(fks, table, look) ==
    ExtractedTable(table, PrimaryKey(table), [c \in Names(table) |-> Paired(fks, table.name, c)], look)

SqliteTable(fks, table, look) ==
    ExtractedTable(table, PrimaryKey(table), [c \in Names(table) |-> Paired(fks, table.name, c)], look)

\* No foreign keys, and the primary keys whose constraint is named as PostgreSQL would.
DuckDbTable(table, keyQueryFails, look) ==
    ExtractedTable(table, {c \in ToSet(table.columns) : c.key = "pkey" /\ ~keyQueryFails},
                   [c \in Names(table) |-> {}], look)

-----------------------------------------------------------------------------
(* With single-column keys of different names the references found in     *)
(* PostgreSQL are those found in MySQL, the catalog's; in general those    *)
(* are among them.                                                         *)
ReferencesAreExact(fks, table, look) ==
    \A i \in DOMAIN table.columns :
        LET found  == PostgresTable(fks, table, look).columns[i].refersTo
            actual == MySqlTable(fks, table, look).columns[i].refersTo
        IN  /\ actual \subseteq found
            /\ (/\ \A g \in fks : Len(g.from) = 1
                /\ \A g, h \in fks : g.name = h.name => g = h) => found = actual

(* A value range has every value of its column, and an example is in it,   *)
(* however many of the queries were answered.                              *)
RangesAreTrue(extracted, table) ==
    \A i \in DOMAIN table.columns :
        LET column == extracted.columns[i]
            range  == column.range
            Has(v) == CASE range.kind = "none"    -> TRUE
                        [] range.kind = "between" -> range.low <= v /\ v <= range.high
                        [] range.kind = "oneOf"   -> v \in range.values
        IN  \A v \in Numbers(table, column.name) \cup column.examples : Has(v)
=============================================================================
