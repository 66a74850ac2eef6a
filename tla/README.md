# EasyQ2Sql in TLA+

EasyQ2Sql answers questions about a database with an LLM agent: a browser sends
a message, the agent loads the conversation, lets the LLM call tools (search the
schema, run SQL, draw a chart) until it answers, and stores the conversation.
Around it stand admin pages for schemas and metrics and a graph of metrics.

Paths below are relative to `src/src/easyq2sql/` unless they begin with `src/`.

## 1. The system

| component | state | operations | who talks to it |
|---|---|---|---|
| Agent turn loop `core/agent/agent.py` | the locals of each `send_message` coroutine, a `Conversation` object | load, workflow, user message, request, LLM, tools, answer, save, hooks | chat entry points; calls every other part |
| Conversation stores `core/storage`, `integrations/local/{storage,file_system_conversation_store}.py` | a dictionary of objects, or one JSON file per conversation | get, update, delete, list, create | turn loop, conversation routes |
| Chat entry points `servers/base/chat_handler.py`, `servers/fastapi/routes.py`, `servers/flask` | none but the open response | SSE, WebSocket, poll; DELETE of a conversation | browser |
| LLM error recovery `core/recovery/base.py`, `Agent.handle_llm_error` | one ledger (`RecoveryState`) per strategy, the model of the LLM service | classify, compact, escalate, back off, switch model | turn loop |
| Tool registry and tools `core/registry.py`, `enhanced_tool_registry.py`, `tools/` | registered tools, access groups | check access, transform arguments, execute, audit | turn loop |
| Tool regulator `hooks/` | counts per scope and tool | observe, add guidance | lifecycle hooks, LLM middlewares |
| Metric graph draft `metric_graph/`, `servers/fastapi/metric_graph_routes.py` | draft, imported names, extraction state, each with a file | extract, edit, clear, import | admin page, a worker thread |
| Metric graph store `integrations/neo4j` | nodes and edges in Neo4j | sync, search | admin page, search tool |
| Metric and schema stores `integrations/postgres` | PostgreSQL tables | create, update, delete, search | admin pages, tools |
| Agent memory `integrations/local/agent_memory`, `integrations/postgres/agent_memory.py` | list of memories | save, search, evict, clear | tools, enhancer, workflow |
| UI component tree `core/component_manager.py` | tree and index | emit, update, remove | tools |
| Evaluation runner `core/evaluation/runner.py` | tasks, semaphore, queue | run, compare, stream | command line |
| Web component `src/frontends/webcomponent/src` | open stream, message list, status bar | send, stream, fall back to polling, set the status | chat entry points |
| Workflow, prompts, enrichers, filters, audit, observability, SQL runners, charts | little or none | text, logs, adapters | turn loop |

What is hard in it:

* **interleaving** - every turn is an asyncio task and gives way at each `await`
  and `yield`; nothing serialises the turns of one conversation, and a DELETE
  does not look for them. The strategy's ledger and the service's model are
  shared by all turns. Extraction runs in a thread beside the requests.
* **failure** - any await may raise; a client may disconnect at any yield; a
  process may die; a file is truncated before it is written.
* **ordering** - the client hears "ready" before the answer is kept; tool calls
  enter the conversation before their results; a model switch is recorded before
  the backoff and made after it.
* **retries** - an LLM request is sent again through its middlewares, a failed
  tool is run again or replaced, a browser asks again by another route.
* **bounds** - tool iterations, recovery attempts, retries, 529 streak, windows
  of the compaction, the regulator's thresholds, memory size.

What makes the parts correct: a stored conversation is a legal transcript, whole
turns are kept or lost, requests show the turn's own work, clients are unlocked,
turns end; recovery is bounded, compacts once, and tries the fallback model
before it gives up; a tool's effect happens once, its result counts for its own
call, a block lasts, and a user gets the rows it is entitled to; what is
extracted is visible, what is cleared stays cleared, nothing is imported twice;
a deleted metric stays deleted, the graph mirrors the tables after a sync, a
search shows what it found; fresh embeddings survive; the component index equals
the tree; comparisons end; a message shows one whole turn and that turn's last
status. `PROJECT.json` lists
the hazards with the line where each bites, and the properties that watch it.

## 2. Modules

| module | what it is |
|---|---|
| `Messages` | messages of a conversation and the order the chat API asks of them |
| `ConversationLog` | abstract: what a conversation store promises (a log) |
| `AgentTurn` | the turn loop, both stores, delete, disconnects, torn files, crashes |
| `MCAgentTurn` | small instances of it |
| `AgentTurnProofs`, `AgentTurnRequests`, `AgentTurnDurable` | theorems about it: types, legal transcripts and the log; requests, answers and status; what the stores keep |
| `LlmRecovery` | `handle_llm_error` with the default strategy |
| `MCLlmRecovery` | small instances of it |
| `LlmRecoveryProofs` | theorems about it |
| `MetricCatalog` | the tables of atomic, derived and composite metrics under POST, PUT and DELETE |
| `MetricGraph` | extends it: syncs of the Neo4j graph, and `search_metrics` with its fall-back |
| `MCMetricGraph`, `MetricGraphProofs` | small instances, theorems |
| `MetricEngine` | extraction as operators: parse, complete, validate, merge |
| `MetricDraft` | the draft, its files, the executor's thread, clears, imports, crashes |
| `MCMetricDraft`, `MetricDraftProofs` | small instances, theorems |
| `SqlGuard` | the checks and row filters `run_sql` arguments go through, as operators |
| `Regulator` | records, policies, states and freezing, as operators |
| `ToolTurn` | the tool calls of a task's messages: request, access, guard, hooks, audit, execution, recovery |
| `MCToolTurn`, `ToolTurnProofs` | small instances, theorems |
| `VectorStore` | connections to a store with embeddings and the migration of its column |
| `ComponentTree` | `ComponentManager`: emit, update, replace, remove |
| `Evaluation` | variants, workers, semaphore, queue and consumer; evaluators and reports |
| `Files` | file tools: edits, writes, searches, commands with a timeout |
| `WebClient` | messages of the web component: event stream, then polling; the status bar |
| `Workbench`, `MCWorkbench` | the five modules above in one specification; the pure modules on small inputs |
| `WorkbenchProofs` | theorems about `VectorStore`, `ComponentTree`, `WebClient`, `Evaluation` and `Files` |
| `AgentMemory`, `Workflow` | both memory backends; the commands of the default workflow (pure) |
| `SchemaExtraction`, `LlmStream`, `MetricSql`, `Prompting`, `Charts` | extractors, streamed answers, `execute_metric`, system prompt and enhancers, charts (pure) |

### AgentTurn and the code

`pc[t]` is the await or yield at which turn `t` is suspended. `new`: nothing read
yet. `starter`: a starter request has read the conversation (agent.py:288).
`loaded`: read, the workflow handler comes next (418-440). `unhandled`: no
workflow took the message (511). `build`: the request is to be built, for the
first time (523-647) or after tools (1115). `llm`: the LLM is asked (657-664).
`tools`: calls are appended, tools run (677-1103). `ready`: the client was told
so (1121-1134). `save`, `after`: lines 1193 and 1216. `done`, `failed`, `gone`:
the stream ended, ended with an error card, or the client left.

`obj[t]` is the list of messages of the Conversation object that turn `t`
created, and `ref[t]` names the object it works on. With the memory store
`get_conversation` returns the stored object, so `ref[t]` is the turn that
created it, and a message appended by one turn is at once visible to all; with
the file store every turn parses a copy of its own. `ui` is the last status bar
the client got (an enabled input goes with `idle`, `warning` and `error`).
`saved` and `excused` are history variables: the turn's closing save was carried
out; the turn met another turn that held the conversation, or what it stored was
deleted or broken.

Messages are abstracted to role, turn, iteration and the number of calls (or the
position of the answered call). Assumptions: one user, so the owner check never
refuses; starter requests have an empty message (`easyq2sql-chat.ts` sends them
so), hence a failing starter request returns; filters, enhancers and hooks do
not change the list of messages, as the shipped ones do not; a workflow's
`conversation_mutation` is not used; a tool's exception becomes a result, as
`ToolRegistry.execute` does.

`Raises` has every phase with an await that may raise outside a local handler;
failing before the conversation was read leaves no trace in the store and is not
modelled apart. `WriteBreaks` is `_save_conversation` failing between
`open(..., "w")` and the end of `json.dump`. `Crash` ends all turns and empties
the memory store.

### LlmRecovery and the code

`pc`: `send` waits for the LLM (agent.py:657-664 or the resend 1593-1602),
`handle` is a call of the strategy with `error`, `backoff` the `asyncio.sleep`.
`attempt` is `recovery_attempt`, `ledger` the `RecoveryState`, `service` the
model attribute of the LLM service. Errors are the five categories that
`handle_llm_error` tells apart; which exception falls in which is the
classification helpers' string matching and is not modelled. `streak`,
`disturbed` and `lost` are history variables for the properties. A turn that
ends forgets its locals. Left out: `RecoveryState.recovery_count`, which nothing
reads; `handle_tool_error`, which always fails; FALLBACK and SKIP, which the
default strategy never returns; the length of delays; a service whose `model`
cannot be set. `MaxConsecutive529` is at least 1, as in every use. The turns on
other conversations share only ledger and service, so each turn has a
conversation of its own here; the store is AgentTurn's matter.

### MetricCatalog, MetricGraph and the code

`rows[id]` is the sequence of ids a metric refers to, or `None`; every call of a
store is one step, since each is one transaction. A PUT is find, check (derived
and composite metrics), upsert (metric_routes.py:118-160 and its siblings), and a
DELETE does not look for references. `sync[s].read` holds the tables as the sync
read them, one after another; `Rebuild` is the one transaction that replaces the
graph. A search is `Seed`, `Expand`, `LoadNodes`, `LoadEdges` and the text
(`Shown`), or, when the graph fails or has nothing, the fall-back on the tables.
`deleted`, `excused` and `mirror` are history variables. Left out: names,
descriptions and the validation of `comb_func`, which refuses before anything
happens; which nodes a text matches is a free choice of seeds.

### MetricEngine, MetricDraft and the code

`worker` is the job in the single executor thread and the point it is at:
`extract` (LLM calls), `merge` (metric_graph_routes.py:225-246), `names` and
`saveNames` (the imported list and its file), `assign`, `saveDraft`. A request
is checked (`ask`), lists the schemas, and then starts or is refused. An import
goes through its names one await at a time. `Crash` keeps the two files, or
breaks the one that was being written; a file that does not parse loads as
none. A draft is two lists; filtering and joining them is defined by positions
(`At`, `Chain`), as the list comprehensions of the code do it, and not by folds.
What `extract_entities` can deliver for a table is the constant `Results`, which
the instance computes by `ExtractEntities` from the answers it lets the LLM give.
Assumptions: a name has one kind; disk writes succeed; an import selects
names the page shows.

### SqlGuard, Regulator, ToolTurn and the code

One task, a web socket's, handles messages one after another; `message` is the
request id. `request` is the LlmRequest with its offered tools and its guidance
(hooks/middleware). `BeginMessage`, `SendRequest`, `LlmRetry`, `LlmAnswers` and
`LlmCalls` are the agent's loop; `HookRaises`, `Refuses`, `BeforeTool`,
`AuditRaises` and `Executes` are `ToolRegistry.execute` with the agent's hooks
around it; `RetriesTool`, `Substitutes` and `KeepsResult` are the recovery of a
failed result, `AfterTool` and `NextRound` the rest. `scope`, `current` and
`records` are the regulator's two context variables and its tracker. `trail`
counts the audit events of the call in progress. A query is a flat SELECT: its
tables, joins, filters and the features the checks look at; `Answer` evaluates
it over `Data`, `Entitled` is what the same query gives over the rows the user
may see. Which tables are protected, and by what, is the instance's: the shipped
configuration switches row filters on and leaves that list empty.

### VectorStore, ComponentTree, Evaluation, Files, WebClient and the code

* `VectorStore`: a store call first ensures its table: DDL under a lock timeout,
  advisory lock, reading the column's dimension, migration, unlock, commit
  (agent_memory.py:150-225, schema_store.py, the metric stores alike). `column`
  is the committed dimension, `migrating` that of an uncommitted migration, which
  holds the table's lock. A search fuses the ranking by embedding (`Nearness`)
  with that by words (`Wording`, PostgreSQL's `ts_rank`), takes twice the limit
  as candidates when there is a cross-encoder, and lets it score them anew
  (`CrossScore`). The PUT of a metric is three calls: get, upsert, get
  (metric_routes.py:128-150).
* `ComponentTree`: `nodes` is the tree, `index` the manager's dictionary. Batches
  and the update history are left out.
* `Evaluation`: each variant is a worker with a task per test case; the tasks of
  all variants share the runner's one semaphore (runner.py:63), whose free
  permits are `permits`. Results go to the queue when a variant is through
  (runner.py:154-159); `yielded` is the sequence of those the consumer got, each
  the pair of its variant and case.
* `Files`: a text is a sequence of lines, ended by a newline or not. `OneMore` is
  one pass of the loop over the sorted edits: the list of lines, whether an edit
  was out of range, and the edits left. `edit_file` is two steps, `EditReads`
  (file_system.py:695-795) and `EditWrites` (798): both run without giving way,
  but the process of a command may write between them, and what it wrote is
  replaced. A write may fail, before it opened the file or with a part written
  (`WriteFails`, `EditWriteFails`). A command that runs out of time leaves its
  children running.
* `WebClient`: a turn is a script of chunks, each a content or an update of the
  status bar: any of `Bodies`, then one of the ways a turn closes (`Closing`). An
  answered turn says `idle` before its text (agent.py:1121-1147), a workflow's
  `idle` comes last but one (476-488), a turn at the tool limit says `warning`
  (1158-1191), a failed one shows its card and says `error` (204-230); all end
  with `[DONE]`. Frames arrive whole and in order; the stream may break at any
  point, before or after the server began the turn. Two parts write the bar:
  chunks set it directly (rich-component-system.ts:2018-2022), and the chat
  component's own `status` (`mine`) is bound to it, of which Lit passes on only
  changes (`SetStatus`). `swallowed` remembers an error frame, which
  `processChunk` only logs. A message is sent when the one before has ended; one
  sent while the first still streams is not modelled.

They share no variable with each other, so `Workbench` chooses one of them in its
initial state and leaves the others at rest: one run checks what five would.

The pure modules have no state. `MCWorkbench` compares each with a reference
definition over all small inputs, in named assumptions that TLC evaluates when
the run `workbench` starts: both memory backends with each other, the extractors
with the catalog they read, the streamed answer with the whole one, the SQL of a
metric with its definition, the prompt with the tools offered, a chart with its
table.

## 3. Runs

Deadlock checking is off in all of them: when every turn, request, call or
comparison has ended, the system has nothing left to do.

| run | instance | shows |
|---|---|---|
| `file` | file store, 2 turns that may overlap freely, 2 iterations, 2 calls each | `StoredWellFormed`, `RequestWellFormed`, `StoredAtomically`, `KeptUnlessExcused`, `NeverStuckWorking`, `StepsRunOut`, `TurnsEnd`, types |
| `memory` | memory store, 2 turns, 2 iterations, 1 call | `RequestShowsOwnWork`, `AnswersFollowCalls`, with a shared object |
| `log` | file store, 3 turns whose clients wait for the end, 1 iteration | `StoreIsALog`: the store implements `ConversationLog` |
| `dangling` | memory store, clients wait for the end | violates `RequestWellFormed` |
| `ready` | file store, clients wait for "ready" | violates `ReadyMeansKept` |
| `recovery` | 2 turns, 3 attempts, 2 retries, threshold 2, fallback, windows 1 + 3 | `RequestShowsConversation`, `SwitchIsMadePendingOrLost`, `FallbackBeforeGivingUp`, `LegalUnlessCut`, `StepsRunOut`, `TurnsEnd` |
| `recovery_ledger` | same | violates `LedgerIsPerCall` |
| `recovery_compaction` | same | violates `CompactionShrinks` |
| `metric_graph` | 1 atomic, 2 derived, 1 composite metric; 1 editor, 2 syncs, 1 search, of which 2 in a behaviour | `DeletedStaysDeleted`, `GraphMirrors`, `SearchIsShown`, types |
| `metric_draft` | 2 tables, 3 names, 2 extraction requests, 2 imports, 3 requests or crashes | `FreshIsVisible`, `EntitiesOnce`, `ClearedStaysCleared`, `StatusIsTrue`, `NotImportedTwice`, `SiblingsLinked`, types |
| `tool_turn` | 2 messages, 3 calls, 1 retry of the LLM, 1 of a tool, 3 users, 2 queries that pass the guard and 2 that do not, shipped policies | `ResultsBelongToCalls`, `BlockedStaysBlocked`, `GuidanceIsOwn`, `EffectsOnce`, `EntitledRows` |
| `workbench` | 2 connections and 2 dimensions; 3 components; 2 variants, 2 cases, 2 permits; 2 files, 2 edits in a call; turns of 2 to 5 chunks | `EmbeddingsSurvive`, `TreeFollowsManager`, `EditsAsNumbered`, `WholeTurnShown`, `PermitsComeBack`, `ResultsOnce`, `ComparisonEnds` |

**Bounds.** Two turns on one conversation show every race of two; conversations
do not interact, so one is enough. Two iterations let a request be stale once
after tools, two calls let results be incomplete or out of order. The log needs
a third turn, one that reads what two wrote. In `recovery`, `MaxRetries` equals
the 529 threshold, so that the switch and the exhausted budget meet in one
attempt; three attempts leave room for a compaction, an escalation and a
backoff; the conversation of a past turn with one tool call is five messages,
one more than the windows keep, and seven after this turn's tools, so both the
boundary and a real compaction occur.

In `metric_graph` every race is one of two requests, so `MaxBusy` = 2 of the four
turn up in one behaviour, in any combination; beside them POST and DELETE happen
at any time. A composite over two derived metrics over an atomic one is the
longest chain of references there is, three levels; a limit of 1 makes the
fall-back stop early. `MaxCalls` = 3 in `metric_draft` lets a clear or an import fall into
an extraction and a crash follow. Three calls in `tool_turn` reach the shipped
thresholds (two searches without new tables block; three runs of one shape freeze
it), in one message or across two. Two
connections with different models are the race a migration is about; three
components make a child, its parent and a sibling; two permits for four test
cases let tasks of both variants work at once while others wait; the edits of a
call are two, over a text whose last line has no newline; the turns of the web
client have any of the four closings, with bodies that set the bar to what the
closing does not, and lengths that tell the first chunk, one in the middle and
the last apart.

**Fairness.** A turn's own steps are weakly fair: the event loop resumes a task
whose await is over, and the clients of LLM and database have timeouts. Starting
a turn, deleting, disconnecting and failing are not fair. Nothing is assumed of
the LLM: it may ask for tools or fail for ever, and `TurnsEnd` holds because of
`max_tool_iterations` and `max_recovery_attempts`. (The OpenAI service makes
blocking calls, which stop the whole loop meanwhile; the model lets other turns
run there, as any asynchronous service does, and so has more interleavings.)

In `workbench`, `ComparisonEnds` assumes that a test case that runs comes to an
end (the evaluation has no timeout of its own; the agent's turns end by
`TurnsEnd`) and that the loop resumes workers and the consumer. It excuses a
comparison in which an evaluator raised: see section 6.

**Excuses.** Several invariants name a history variable that excuses a race the
code plainly loses, so that the rest is checked: `excused` (a DELETE between a
PUT's find and its upsert), `undone` (a clear between the worker's read and its
save), `stale` (an import that an extraction overtook; a dimension read that a
migration overtook), `doubled` (two extraction requests past the check), `loose`
(an import that failed, overlapped or was forgotten by a crash), `cut` and
`torn` (a message cut before its last hook), `swallowed` (the server's error
frame, after which only what was sent of the turn is shown). Each is set at the
one step where the race is lost, never after. A failed write of an edit is excused by its `outcome`. What is
excused is a hazard the property does not catch: it bounds the damage to that
window.

**What the violations say.**

* `dangling`: the calls are appended to the object the memory store keeps
  (agent.py:677), the results only after all tools ran (1105-1113). A turn that
  fails or is left in between spoils the conversation for every later request.
  The file store is not affected: nothing is written in between.
* `ready`: "Ready for next message" (1125) goes out before the answer is
  appended (1139) and saved (1205).
* `recovery_ledger`: the ledger lives as long as the strategy; its docstring
  says it is made per call. One truncated answer uses up escalation for good.
* `recovery_compaction`: one message over the windows is replaced by one note.

## 4. Proofs

All theorems hold for every number of turns, conversations, iterations, calls,
attempts and retries, under the named assumptions on the constants.

* `AgentTurnProofs` - `TypeCorrect`. `TypeOK` is not inductive: that the iteration
  counter stays below its limit rests on the loop's test, kept as `LoopInv`.
  `FileStoreWellFormed` and `FileRequestWellFormed` rest on `CopyInv`: every
  stored file is a legal transcript, and so is every turn's private copy, except
  that a turn in `tools` has an open last block. Appending the results closes it
  (`CloseBlock`); no save happens in that phase.
  `FileStoreIsALog` is the refinement of `ConversationLog`, for clients that wait
  for the end of the stream (`ClientPolicy = "ended"`): every step of the agent is
  a step of the log or leaves it alone. It needs `AloneInv` (turns of one
  conversation do not overlap), `UnseenInv` (nobody has seen a message of a turn
  that has not written one) and `BaseInv` (the copy a turn will write continues
  the file by messages of that turn only, unless the file was erased under it).
* `AgentTurnRequests` - `RequestShowsOwnWorkAlways`, `AnswersFollowCallsAlways`,
  `NeverStuckWorkingAlways`, for both stores, so also where turns append to one
  object. `ObjectInv`: nobody holds the object of a turn that has not begun, so
  loading never overwrites another turn's list. `WorkInv`: the question and all
  finished iterations are in the object a turn works on, whatever the others
  append in between. `FollowInv`: in every object and file an answer is preceded
  by its call. `StatusInv`: in which phases the status bar cannot say "working".
  `StepsRunOutAlways` is the part of `TurnsEnd` that needs no fairness:
  `StepsLeft(t)`, at most 3 * `MaxToolIterations` + 8, is a natural number that
  each step of turn `t` makes smaller (`OwnStepCounts`) and no other step
  touches; with `TypeOK`, by which the iteration stays below its limit.
* `AgentTurnDurable` - `FileStoreAtomic`. `AtomInv` says which unsaved turn's
  messages a private copy may hold: its own only. `FileStoreKeeps`, the absence
  of lost updates between turns that do not meet. `KeepInv`: a saved, unexcused
  turn is whole on the disk (`DiskKept`) and in every copy that may still be
  written (`CopyKept`); two turns that hold the conversation together have
  excused each other (`MetAreExcused`); a turn's own work is in its copy
  (`OwnKept`); a turn that has not begun its loop has no iterations
  (`NotStarted`). `MemoryStoreKeeps` says the same of the memory store, by
  `SharedInv`: the object in place and every object that may take its place show
  the saved, unexcused turns (`ObjectKept`, `RefKept`); objects only grow, and
  what a turn saves holds its own work by `WorkInv`. `KeptAlways` joins the two.
* `LlmRecoveryProofs` - `RecoveryTypeCorrect`; `RecoveryShowsConversation` (by
  `RequestInv`: as long as the ledger has no compaction, requests are equal to
  conversations); `RecoverySwitches` (`SwitchInv`: a pending switch belongs to a
  turn in `backoff`, and the ledger says fallback); `RecoveryFallsBack`
  (`StreakInv`: the exchange's streak is at most the ledger's count, until the
  switch was made or another turn disturbed it). `RecoveryStepsRunOut` counts
  down as above, with three steps for every attempt. `RecoveryLegalUnlessCut`
  rests on `EntryNumber` and `Compacted` (which message of the conversation each
  message of the compacted request is) and two lemmas, that an uncut compaction
  keeps every block of a call and its answers whole or drops it whole
  (`UncutStaysLegal`), and that a cut one leaves calls before the note without
  their answers, or an answer after it without its call (`CutShows`).
* `MetricGraphProofs` - `DeletedStaysDeletedAlways` by `DeletedInv` (every row has
  an id that was handed out; a PUT on its way with a deleted id is excused);
  `GraphMirrorsAlways` by `MirrorInv` (`CleanReads`: what an undisturbed sync has
  read is what the tables hold); `SearchIsAlwaysShown`
  by `FindInv` (`SteadyReads`: without a sync in between, what a search holds at
  each stage is computed from the graph as it is), with lemmas that two hops
  reach every metric below a seed; `GraphTypesHold` by `TypesInv`, which adds the
  typing of what syncs and searches have read (`SyncTyped`, `FindTyped`).
* `MetricDraftProofs` - every property of `MetricDraft`. It first proves what `At`,
  `Chain` and the filters on drafts return (which names, which tables, in which
  order). Then one invariant each: `TypeInv` (`DraftTypesHold`); `ControlInv`: a
  job that nothing doubled is the only one, and no request is past the check
  (`StatusIsAlwaysTrue`); `SiblingsLinked` is
  inductive with the types; `OnceInv`: not only the draft but the file, the
  result and the draft being built have no metric twice (`EntitiesAlwaysOnce`);
  `ClearInv`: nor do the file and what the worker holds have a cleared metric,
  unless it is excused (`ClearedAlwaysStaysCleared`); `ImportInv`: a name made
  from the draft is hidden, or about to be, and open imports that nothing
  disturbed share no name (`NeverImportedTwice`); `NamesInv`: imported names are
  names of the draft until an extraction overtakes them, and the two files lag
  behind by the one step the worker is at (`FreshIsAlwaysVisible`).
* `ToolTurnProofs` - one invariant per property: `EffectsInv` (successes of a call
  against its audit trail), `AnswerInv` (what was answered belongs to an accepted
  query; with the lemma that an accepted query's filters make `Answer` equal to
  `Entitled`), `BlockInv` (between a block and a next call of the tool nothing
  touches its record), `ResultInv` (at most one hook waits for a result, that of
  the call in progress), `GuidanceInv` (a tool some hook waits for was called in
  this message), `TypesInv` for `ToolTypesHold` (`AttemptBound`: a call being
  executed has an attempt left; `RecordBound`: a record counts no more calls than
  were made, and a message to come has none).
* `WorkbenchProofs` - `EmbeddingsSurviveAlways` by `VectorInv`, which adds
  `FreshRead`: a connection about to migrate, whose reading of the dimension
  nothing overtook, still sees that dimension in the column and no migration
  pending. `WholeTurnAlwaysShown` by `WebInv`: during the stream, what is shown
  and then what is on the wire are the chunks of the current run in order
  (`StreamInOrder`), the wire ends with an error or with the end of a whole turn
  (`StreamIsClosed`), and the bar is at what the last update among the chunks
  shown set it to. Whatever a turn's body does to the bar, its closing settles it
  (`TurnsClose`), since each of the four has one update and contents behind it
  (`LastSettles`). When the wire is empty all that was sent is shown
  (`AllSentShown`), also after an error frame. `TreeAlwaysFollowsManager` by `TreeInv`: no node has
  two ids (`IndexApart`), an indexed component shows its data (`ShownData`), what
  has no node was dropped (`LostAreDropped`), and, as long as no id was reused
  for a replacement, the tree is flat and the index has exactly its nodes
  (`FlatTree`, `IndexFollowsTree`).
  `PermitsAlwaysComeBack` counts: free permits and tasks at work make
  `MaxConcurrency` together (`PermitInv`, with `TaskMoves` and `WorkCounted`: a
  step takes one task in or out of the set of those at work).
  `ResultsAlwaysOnce` by `StreamInv`: what the consumer got and then what is in
  the queue is a sequence without repetition of the results of the variants that
  have returned; it is not longer than the consumer expects
  (`NoMoreThanExpected`, an injection into variants and cases), so that a stream
  that ended got all of it.
  `EditsAlwaysAsNumbered` by `FileInv`, for any number of edits and lines. What
  edits mean is given from the bottom of the file: `from[n]` is what line `n` and
  those behind it become (`MeantFollows`). The loop's invariant is `InPlace`: the
  edits made begin behind those left, and wherever they can be told apart, the
  lines are those of the old file above and `from` below (`Whole`). One more edit
  keeps it (`OneMoreInPlace`): the lines it replaces are still the old ones
  (`MadeInPlace`), and those between it and the next are untouched
  (`PassOverAll`). If one edit does not fit, the first that is tried does not
  (`FirstBeyond`), so nothing is written.

Assumptions: `GuardAssumption` says the guard is switched on as in the shipped
configuration (row filters, governance, read-only) and that queries come without
filters of the guard; `PolicyAssumption` that thresholds are at least 1;
`CatalogAssumption` and `VectorAssumption` that ids and markers differ, and the
former that there are finitely many ids (a uuid has 128 bits);
`ResultsAssumption` that a table is listed once and that `extract_entities`
delivers a name once per table, which its dictionary of names ensures. The
results enter the proofs as a constant because `ExtractEntities` is a fold, and
what a fold computes for every input needs induction. (The recursions of `Files`
are functions over numbers instead; lemmas `UpTo` and `Iterated` derive their
induction and their existence from the well-foundedness of the numbers.)
`VariantAssumption` and `EvaluationAssumption` say that variants are listed once
and that cases are a sequence of expectations; `FileAssumption` that what is
written or put in is a sequence of lines.

Legal transcripts, atomicity and the log are theorems about the file store
(`StoreKind = "file"`); for the memory store well-formedness is false (run
`dangling`). Every invariant and every action property that a passing run checks
is stated by a theorem. The types of `LlmRecovery` and `ToolTurn`, and
`KeptUnlessExcused` for the memory store, are theorems that no run repeats. Only
model-checked are the liveness properties `TurnsEnd`
(twice) and `ComparisonEnds`, which need fairness and ENABLED; of `TurnsEnd` the
theorems on `StepsRunOut` prove that a turn cannot take steps for ever, and TLC
that it does not stop before its end. The operators of the pure modules are
compared on small inputs, since most are folds or recursive operators.

## 5. Not modelled

`PROJECT.json` lists every component with its status. Left out for good:

* wording, layout and HTML (prompts, cards, admin templates, the rich and simple
  components, which are data classes without operations);
* SQL runners and transports: adapters of drivers, one call each;
* the command line, start-up code and examples;
* the arithmetic of embeddings, cross-encoder and full-text ranks: what each
  makes of a row is given by the instance, or, in Neo4j, chosen freely;
* the WebSocket generator of `api-client.ts`, which nothing calls (section 6);
* in modelled parts: `conversation_mutation` of a workflow, `get_updates_since` and
  batches of the component manager, subqueries and unions in row filters,
  tool registration, `FALLBACK` and `SKIP` of a custom recovery strategy.

Worth doing next: the hazard that `PROJECT.json` lists without a property;
a count of steps for `ComparisonEnds` like that of turns.

## 6. Where code and text differ

Met while modelling, and not the subject of a run:

* regulator.py:170-171 reads `matched_metrics` and `matched_dimensions`, which no
  tool writes (metric_tools.py writes `matched_atomic_metrics`,
  `matched_derived_metrics`): the rule on searches without new results never
  fires for `search_metrics`.
* core/lifecycle/base.py says a hook raises `AgentError` to prevent a tool's
  execution; a raising `before_tool` ends the whole message.
* "Every write statement is rejected": read-only governance also rejects UNION.
* agent_memory.py:163-187 says the advisory lock keeps a second connection from
  clearing fresh embeddings; it is given back before the commit (224-225), which
  leaves a window (`stale` in `VectorStore`).
* core/evaluation/runner.py streams results "as they complete"; they come when
  their variant is through. An evaluator that raises ends its worker, and the
  consumer waits for ever.
* metric_graph/engine.py says validation leaves only relations between entities;
  an endpoint the LLM never listed passes. A relation extracted twice gives a
  composite the same operand twice.
* A full extraction empties the imported names on disk before the draft is saved;
  a clear between the worker's read and its save is undone, on disk as well.
* A PUT by the admin form drops `value_range` and `fk_relation` of an imported
  metric. A sync's count includes edges to metrics that are gone.
* tools/file_system.py:715 says the order keeps line numbers valid; edits that
  overlap or share a line are applied to lines already edited. What a command
  writes between the read and the write of an edit is overwritten, and a write
  that fails may leave a truncated file.
* PostgreSQL's `constraint_column_usage` has no positions and is joined by name:
  keys of several columns, or of one name in two tables, may get a wrong target.
* core/component_manager.py: emitting below a removed component returns None.
* routes.py:59-66 sends an error while chunks are made as a frame without a rich
  part. `processChunk` only logs it, the stream ends, and the message counts as
  sent with the bar at "working", though "Backend is responsible for final
  status" (easyq2sql-chat.ts:1341). `WholeTurnShown` says what is shown then, not
  what the bar says.
* easyq2sql-chat.ts:1330 says the frontend shows "Sending message...". Nothing
  resets the chat component's own status, so from the second message on
  `setStatus('working', ...)` (1165) changes no bound status, and the bar keeps
  that of the turn before until the server's first update (`SetStatus` in
  `WebClient`).
* api-client.ts:256-: a chunk that arrives while the generator waits is dropped,
  and the server's completion frame is not recognised.
* A streamed answer has no `finish_reason`, so a truncated one is not noticed.
