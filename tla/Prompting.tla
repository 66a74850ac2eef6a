----------------------------- MODULE Prompting -----------------------------
(***************************************************************************)
(* The system prompt: how it is built from the tools that are offered, and *)
(* what the context enhancers append to it.                                *)
(*                                                                         *)
(* A prompt is a sequence of parts [about, names]: what a part is about    *)
(* and the tools it tells the model to use or mentions.                    *)
(***************************************************************************)
EXTENDS Naturals, Sequences, FiniteSets, SequencesExt

CONSTANTS NoPrompt,  \* no base prompt is configured
          Failure    \* the answer of a store that raises

Search == "search_saved_correct_tool_uses"
Save == "save_question_tool_args"
SaveText == "save_text_memory"
Metrics == "search_metrics"
Schema == "search_table_schema"

Part(about, names) == [about |-> about, names |-> names]

When(condition, about, names) == IF condition THEN <<Part(about, names)>> ELSE <<>>

\* The worked example names the tools that are there.
Example(tools) == {Search, Metrics, Schema, Save} \cap tools

(* build_system_prompt: a base prompt is used as it is.                    *)
BuildSystemPrompt(base, tools) ==
    IF base # NoPrompt THEN <<Part(base, {})>>
    ELSE LET has(any) == any \cap tools # {}
         IN  <<Part("guidelines", {})>>
             \o When(tools # {}, "tools", tools)
             \o When(has({Search, Save, SaveText}), "memory", {})
             \o When(has({Search, Save}), "toolMemory", {})
             \o When(has({Search}), "first", {Search})
             \o When(has({Metrics}), "metrics", {Search, Metrics})
             \o When(has({Schema}), "schema", {Metrics, Schema})
             \o When(has({Search, Metrics, Schema}), "review", {})
             \o When(has({Save}), "after", {Save, Search})
             \o When(has({Search, Save}), "example", Example(tools))
             \o When(has({SaveText}), "textMemory", {SaveText})

-----------------------------------------------------------------------------
(* The enhancers.  A store answers with what it found, in order.           *)

Section(about, found) ==
    IF found = Failure \/ found = <<>> THEN <<>>
    ELSE <<[about |-> about, names |-> {}, shows |-> found]>>

MetricSection(found) ==
    [i \in DOMAIN Section("metrics", found) |->
        [Section("metrics", found)[i] EXCEPT !.names = {Metrics, "execute_metric"}]]

\* The two searches fail each on its own; a blank message is not searched for.
WithSchemaAndMetrics(prompt, blank, tables, metrics) ==
    IF blank THEN prompt
    ELSE prompt \o Section("schema", tables) \o MetricSection(metrics)

WithMemories(prompt, hasMemory, memories) ==
    IF hasMemory THEN prompt \o Section("context", memories) ELSE prompt

-----------------------------------------------------------------------------
Named(prompt) == UNION {part.names : part \in ToSet(prompt)}

Before(prompt, first, second) ==
    \A i, j \in DOMAIN prompt :
        prompt[i].about = first /\ prompt[j].about = second => i < j

(* The prompt asks for a search of memories, then metrics, then schemas;   *)
(* and a tool it names without offering it is one to be called before, or  *)
(* instead of, one that is offered: a search of memories or of metrics.    *)
PromptFitsTools(tools) ==
    LET prompt == BuildSystemPrompt(NoPrompt, tools)
    IN  /\ tools \cap {Search, Save, SaveText, Metrics, Schema} \subseteq Named(prompt)
        /\ Before(prompt, "first", "metrics") /\ Before(prompt, "metrics", "schema")
        /\ Before(prompt, "schema", "after")
        /\ \A tool \in Named(prompt) \ tools :
            \/ tool = Search /\ {Metrics, Save} \cap tools # {}
            \/ tool = Metrics /\ Schema \in tools

(* Enhancers fail open: the prompt stays in front, what one search found   *)
(* is shown also when the other failed, and nothing else is added.         *)
EnhancementFailsOpen(prompt, blank, tables, metrics) ==
    LET enhanced == WithSchemaAndMetrics(prompt, blank, tables, metrics)
        added == SubSeq(enhanced, Len(prompt) + 1, Len(enhanced))
    IN  /\ IsPrefix(prompt, enhanced)
        /\ \A found \in {tables, metrics} :
            found \notin {Failure, <<>>} /\ ~blank => \E part \in ToSet(added) : part.shows = found
        /\ \A part \in ToSet(added) : part.shows \in {tables, metrics}
        /\ tables = Failure /\ metrics = Failure => enhanced = prompt
=============================================================================
