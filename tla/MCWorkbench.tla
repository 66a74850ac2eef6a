---------------------------- MODULE MCWorkbench ----------------------------
(***************************************************************************)
(* Workbench on small instances, and the pure modules on small inputs.     *)
(***************************************************************************)
EXTENDS Workbench, SchemaExtraction, LlmStream, MetricSql, Prompting, Charts, TLC

CONSTANTS
    a, b, t, u, d, q, \* rows and a query
    g1, g2, w,        \* agent variants and a word of their answers
    f1, f2, x, y, z   \* files and the words in them

(* Stores with embeddings *)

MCNearness == [query \in {q} |-> [r \in {a, b, t, u, d} |-> IF r \in {a, t, d} THEN 1 ELSE 2]]
MCMatching == [query \in {q} |-> {b, t, u}]

\* The words and the cross-encoder put u before t, which is nearer; the
\* cross-encoder thinks little of either.
MCWording == [query \in {q} |-> [r \in {a, b, t, u, d} |-> IF r = t THEN 2 ELSE 1]]
MCCrossScore == [query \in {q} |-> [r \in {a, b, t, u, d} |-> IF r = t THEN 1500 ELSE 1800]]

(* Evaluation *)

MCVariants == <<g1, g2>>
MCNameOf == [v \in {g1, g2} |-> v]
SaysW == [kind |-> "some", tools |-> {}, notTools |-> {"run_sql"}, has |-> {w}, hasNot |-> {}]
MCCases == <<SaysW, [SaysW EXCEPT !.tools = {"run_sql"}]>>
MCJudgeVerdicts == {[score |-> 600, passed |-> TRUE], [score |-> 300, passed |-> FALSE]}

(* Files *)

Line(word) == [text |-> <<word>>, ended |-> TRUE]
Open(word) == [text |-> <<word>>, ended |-> FALSE]
MCTexts == {<<>>, <<Line(x), Line(z), Open(y)>>}
MCEditTexts == {<<>>, <<Open(x)>>, <<Line(z), Line(x)>>}
MCNameWords == [f \in {f1, f2} |-> IF f = f1 THEN {x} ELSE {y}]

(* The web client *)

MCBodies == {<<>>, <<"idle">>, <<"working">>, <<"working", "content">>, <<"working", "idle">>}

-----------------------------------------------------------------------------
(* Memories to which the two backends' operations are applied: up to three, *)
(* of either kind, saved one after another.                                *)
SavedMemory == [tool : {NoTool, "run_sql", "chart"}, success : BOOLEAN, alike : 1..3]

Memories ==
    LET Numbered(seq) == [i \in DOMAIN seq |-> [id |-> i, stamp |-> i] @@ seq[i]]
        Of(seq) == [tools |-> SelectSeq(Numbered(seq), LAMBDA m : ~IsText(m)),
                    texts |-> SelectSeq(Numbered(seq), LAMBDA m : IsText(m))]
    IN  {Of(seq) : seq \in UNION {[1..n -> SavedMemory] : n \in 0..3}}

(* The in-memory and the PostgreSQL agent memory agree on what is deleted, *)
(* cleared and recent.                                                     *)
ASSUME BackendsAgreeOnMemories ==
    \A mem \in Memories : BackendsAgree(mem, {"run_sql", "chart"}, 1..4, 1..3)

(* The demo store finds the best.                                          *)
ASSUME SearchesWell ==
    \A mem \in Memories, limit \in 1..2, threshold \in 1..3 : DemoSearchesWell(mem, limit, threshold)

(* The commands on the memory do as the cards say.                         *)
ASSUME CommandsOnMemories == \A mem \in Memories : CommandsDoAsOffered(mem)

(* The setup report is coherent for every set of tools.                    *)
ASSUME ReportsAreCoherent ==
    \A tools \in SUBSET {"run_sql", "search_saved_correct_tool_uses", "save_question_tool_args",
                         "visualize_data", "calculator"} : ReportIsCoherent(tools)

-----------------------------------------------------------------------------
(* Catalogs of up to two foreign keys, of one or two columns.              *)
ForeignKeys ==
    UNION {[name : {"k1", "k2"}, table : {"orders", "items"}, from : [1..n -> {"a", "b"}],
            ref : {"customers", "parts"}, to : {[i \in 1..n |-> IF i = 1 THEN "x" ELSE "y"]}] :
           n \in 1..2}

(* Tables with a numeric, a text and a boolean column.                     *)
SampledTables ==
    {[name |-> "orders", rows |-> rows,
      columns |-> <<[name |-> "amount", kind |-> "numeric", key |-> "no"],
                    [name |-> "state", kind |-> "text", key |-> "pkey"],
                    [name |-> "paid", kind |-> "boolean", key |-> "no"]>>] :
     rows \in {r \in SUBSET [amount : {1, 2, Null}, state : {1, 2, 3}, paid : {0, Null}] :
                Cardinality(r) <= 3}}

KeyTable == [name |-> "orders", rows |-> {},
             columns |-> [i \in 1..2 |-> [name |-> <<"a", "b">>[i], kind |-> "other", key |-> "no"]]]
NoLook == [sample |-> {}, answered |-> 0]

(* The foreign keys read from PostgreSQL's catalog have the real ones      *)
(* among them, and are those when none has two columns or another's name.  *)
ASSUME ForeignKeysAreFound ==
    \A f, g \in ForeignKeys : ReferencesAreExact({f, g}, KeyTable, NoLook)

(* A value range has every value of its column, whichever query failed.    *)
ASSUME RangesHaveAllValues ==
    \A sampled \in SampledTables, answered \in 0..3 :
        LET look == [sample |-> sampled.rows, answered |-> answered]
        IN  /\ RangesAreTrue(SqliteTable({}, sampled, look), sampled)
            /\ RangesAreTrue(DuckDbTable(sampled, TRUE, look), sampled)

(* Messages of up to two calls, with arguments of two kinds.               *)
ApiMessages ==
    {[text |-> text, finish |-> finish,
      calls |-> [i \in DOMAIN args |-> [id |-> i, name |-> "run_sql", args |-> args[i]]]] :
     text \in {<<>>, <<x, y>>}, finish \in {"stop", "length"},
     args \in UNION {[1..n -> ObjectArgs \cup OtherArgs \cup {<<z>>, <<x>>}] : n \in 0..2}}


MCObjectArgs == {<<x, y>>}
MCOtherArgs == {<<y>>}

(* What is streamed is what the whole response says, however the deltas of *)
(* its text and calls are mixed.                                           *)
ASSUME StreamsSayTheSame ==
    \A message \in ApiMessages : \A events \in Events(message) : StreamSaysTheSame(message, events)

(* A payload has the calls and answers of its request.                     *)
ASSUME PayloadsKeepAnswers ==
    \A system \in {Unset, "prompt"},
       messages \in UNION {[1..n -> [role : {"user", "assistant", "tool"}, content : {"text"},
                                     callId : {1, 2}, calls : {<<>>, <<[id |-> 1], [id |-> 2]>>}]] :
                           n \in 0..2} :
        PayloadKeepsAnswers([system |-> system, messages |-> messages, maxTokens |-> Unset,
                             tools |-> {"run_sql"}])

-----------------------------------------------------------------------------
(* Atomic metrics, and up to two derived metrics with up to one join.      *)
Fields == [table : {"orders", "items"}, column : {"a", "b"}]
AtomicMetrics ==
    [id : {"m"}, table : {"orders"}, calc : {"SUM", NoCalc}, field : {[table |-> "orders", column |-> "a"]}]
MetricJoins ==
    [type : {"LEFT"}, from : {[table |-> "orders", column |-> "b"]}, to : Fields]
DerivedMetrics == [field : Fields, joins : {<<>>} \cup {<<j>> : j \in MetricJoins}]

(* The SQL of an executed metric groups by what it selects and joins what  *)
(* it uses.                                                                *)
ASSUME MetricSqlIsWellFormed ==
    \A metric \in AtomicMetrics :
        \A derived \in UNION {[1..n -> DerivedMetrics] : n \in 0..2} : 
            /\ SqlIsWellFormed(metric, derived)
            /\ \A fails \in BOOLEAN : DetailAndExecutionAgree(metric, derived, fails)

-----------------------------------------------------------------------------
(* The system prompt fits every set of tools.                              *)
ASSUME PromptsFitTools ==
    \A tools \in SUBSET {Search, Save, SaveText, Metrics, Schema, "run_sql"} : PromptFitsTools(tools)

(* An enhanced prompt has what was found, and the prompt, in every case.   *)
ASSUME EnhancementsFailOpen ==
    \A tables, metrics \in {<<>>, Failure, <<t>>, <<u, t>>}, blank \in BOOLEAN :
        EnhancementFailsOpen(BuildSystemPrompt(NoPrompt, {Search}), blank, tables, metrics)

-----------------------------------------------------------------------------
(* Tables of two columns and up to two rows, or of four and one row.       *)
RowsOfKind(kind) ==
    {row \in [DOMAIN kind -> {1, 2, 3, NoValue}] :
        \A c \in DOMAIN kind :
            row[c] \in IF kind[c] = "number" THEN {1, 2, NoValue} ELSE {2, 3, NoValue}}

DataFrames(n, rows) ==
    LET names == SubSeq(<<"a", "b", "c", "d">>, 1, n)
    IN  UNION {{[columns |-> names, kind |-> kind, rows |-> r] :
                    r \in UNION {[1..m -> RowsOfKind(kind)] : m \in 0..rows}} :
               kind \in [ToSet(names) -> {"number", "text", "time", "bool"}]}

(* A chart shows what is in its table.                                     *)
ASSUME ChartsAreTrue ==
    \A df \in DataFrames(1, 2) \cup DataFrames(2, 2) \cup DataFrames(3, 1) \cup DataFrames(4, 1) :
        ChartIsTrue(df)

=============================================================================
