--------------------------- MODULE MCMetricDraft ---------------------------
(* MetricDraft on two tables that name the same metrics. *)
EXTENDS MetricDraft, TLC

CONSTANTS a, d, c, t1, t2

MCTableSeq == <<t1, t2>>

\* The first table is good for an atomic and a derived metric.  The second has
\* metrics of the same names, of which one may name a column that does not
\* exist, and a composite with the derived metric for both operands.
MCAnswers(t) ==
    IF t = t1
    THEN {<< <<Entity(a, "known", 1), Entity(d, "known", 1), Relation(d, a, TRUE, 1)>> >>}
    ELSE {<< <<Entity(a, field, 1), Entity(c, "known", 1), Relation(c, d, TRUE, 1)>>,
             <<Entity(d, "absent", 1)>> >> : field \in {"known", "unknown"}}

MCResults(t) == {ExtractEntities(answers) : answers \in MCAnswers(t)}

DraftSymmetry == Permutations(Extractor) \cup Permutations(Importer)
=============================================================================
