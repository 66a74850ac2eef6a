---------------------------- MODULE MetricEngine ----------------------------
(***************************************************************************)
(* The pure part of metric extraction: from the records of an LLM answer   *)
(* to the entities and relations of a draft, and from a draft's relations  *)
(* to the metrics an import links.  Texts are abstracted to what these     *)
(* functions tell apart: names, whether a field exists in its table, the   *)
(* length of a description.                                                *)
(***************************************************************************)
EXTENDS Naturals, Sequences, SequencesExt, FiniteSets

\* A record of the answer.  "field" says whether the column the metric names
\* is a column of its table.
Entity(name, field, len) == [kind |-> "entity", name |-> name, field |-> field, len |-> len]
\* "exact" says that the relation's keyword is the one the importer knows.
Relation(src, tgt, exact, len) ==
    [kind |-> "relation", src |-> src, tgt |-> tgt, exact |-> exact, len |-> len]
\* A record neither parser accepts: too few fields, or a name that the
\* cleaning of the text leaves empty.
Junk == [kind |-> "junk"]

Key(r) == IF r.kind = "entity" THEN r.name ELSE <<r.src, r.tgt>>
Keys(s) == {Key(s[i]) : i \in DOMAIN s}

\* _parse_entity, and _parse_relation, which drops a loop.
IsEntity(r) == r.kind = "entity"
IsRelation(r) == r.kind = "relation" /\ r.src # r.tgt

\* A dict of lists, of which only the first item of each is ever used.
FirstOfEach(s) ==
    FoldLeft(LAMBDA kept, r : IF Key(r) \in Keys(kept) THEN kept ELSE Append(kept, r), <<>>, s)

Parse(records) ==
    [nodes |-> FirstOfEach(SelectSeq(records, IsEntity)),
     edges |-> FirstOfEach(SelectSeq(records, IsRelation))]

\* A gleaning pass: the longer description wins, and what is new is added.
Glean(old, new) ==
    LET Better(r) == LET same == SelectSeq(new, LAMBDA x : Key(x) = Key(r))
                     IN  IF same # <<>> /\ same[1].len > r.len THEN same[1] ELSE r
    IN  [i \in DOMAIN old |-> Better(old[i])] \o SelectSeq(new, LAMBDA x : Key(x) \notin Keys(old))

\* extract_entities: the first answer and those of the gleaning passes.
ExtractEntities(answers) ==
    FoldLeft(LAMBDA sofar, pass :
                [nodes |-> Glean(sofar.nodes, Parse(pass).nodes),
                 edges |-> Glean(sofar.edges, Parse(pass).edges)],
             Parse(answers[1]), Tail(answers))

-----------------------------------------------------------------------------
(* Lists of a draft are filtered and put one after another.  A position in *)
(* a list of lists is a pair, and positions are read from left to right.   *)

Upto(S, p) == {q \in S : q[1] < p[1] \/ (q[1] = p[1] /\ q[2] <= p[2])}
Nth(S, k) == CHOOSE p \in S : Cardinality(Upto(S, p)) = k

\* The items of the lists ss at the positions S.
Items(ss, S) == [k \in 1..Cardinality(S) |-> LET p == Nth(S, k) IN ss[p[1]][p[2]]]

\* The lists ss one after another, and the items of s at the indices I.
Chain(ss) == Items(ss, UNION {{i} \X DOMAIN ss[i] : i \in DOMAIN ss})
At(s, I) == Items(<<s>>, {1} \X I)

-----------------------------------------------------------------------------
(* A draft: entities with their table, and relations between names.        *)

EmptyDraft == [ents |-> <<>>, rels |-> <<>>]

Ent(name, table, field) == [name |-> name, table |-> table, field |-> field]
Rel(src, tgt, exact) == [src |-> src, tgt |-> tgt, exact |-> exact]

NamesOf(ents) == {ents[i].name : i \in DOMAIN ents}

\* The results of the tables, in the order of the tables: entities carry the
\* name of the table they came from, relations do not.
Gather(tables, results) ==
    [ents |-> Chain([i \in DOMAIN tables |->
                LET nodes == results[tables[i]].nodes
                IN  [j \in DOMAIN nodes |-> Ent(nodes[j].name, tables[i], nodes[j].field)]]),
     rels |-> Chain([i \in DOMAIN tables |->
                LET edges == results[tables[i]].edges
                IN  [j \in DOMAIN edges |-> Rel(edges[j].src, edges[j].tgt, edges[j].exact)]])]

\* validate_metric_fields: an unknown field drops the metric, and its name
\* drops relations, also those of a metric of that name in another table.
Validate(draft) ==
    LET unknown == {i \in DOMAIN draft.ents : draft.ents[i].field = "unknown"}
        dropped == {draft.ents[i].name : i \in unknown}
    IN  [ents |-> At(draft.ents, DOMAIN draft.ents \ unknown),
         rels |-> At(draft.rels, {i \in DOMAIN draft.rels :
                      {draft.rels[i].src, draft.rels[i].tgt} \cap dropped = {}})]

OfTables(ents, tables) == {i \in DOMAIN ents : ents[i].table \in tables}
OfOtherTables(ents, tables) == {i \in DOMAIN ents : ents[i].table \notin tables}

RemovedNames(draft, tables) ==
    {draft.ents[i].name : i \in OfTables(draft.ents, tables)}
        \ {draft.ents[i].name : i \in OfOtherTables(draft.ents, tables)}

WithoutTables(draft, tables) ==
    LET kept == At(draft.ents, OfOtherTables(draft.ents, tables))
    IN  [ents |-> kept,
         rels |-> At(draft.rels, {i \in DOMAIN draft.rels :
                      {draft.rels[i].src, draft.rels[i].tgt} \subseteq NamesOf(kept)})]

WithoutEntities(draft, names) ==
    [ents |-> At(draft.ents, {i \in DOMAIN draft.ents : draft.ents[i].name \notin names}),
     rels |-> At(draft.rels, {i \in DOMAIN draft.rels :
                  {draft.rels[i].src, draft.rels[i].tgt} \cap names = {}})]

Extend(draft, other) ==
    [ents |-> draft.ents \o other.ents, rels |-> draft.rels \o other.rels]

\* _resolve_links: the targets of src's relations, in order, among "targets".
\* Types decide where both are known, the keyword where one is not.
Links(draft, src, targets) ==
    LET known == NamesOf(draft.ents)
        linked == At(draft.rels, {i \in DOMAIN draft.rels :
                      LET r == draft.rels[i]
                      IN  /\ r.src = src /\ r.tgt \in targets
                          /\ r.exact \/ {src, r.tgt} \subseteq known})
    IN  [i \in DOMAIN linked |-> linked[i].tgt]
=============================================================================
