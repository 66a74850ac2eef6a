----------------------------- MODULE AgentTurn -----------------------------
(***************************************************************************)
(* Agent.send_message (core/agent/agent.py) on top of a conversation store.*)
(*                                                                         *)
(* The server runs every turn as an asyncio task: a turn gives way to the  *)
(* others, to a DELETE request, to the client's disconnect and to a crash  *)
(* at its awaits and yields, which are the phases of pc below.  A turn     *)
(* works on a Conversation object.  MemoryConversationStore hands out the  *)
(* object it keeps, so turns share it; FileSystemConversationStore parses  *)
(* a private copy out of the file and writes the whole file back.          *)
(***************************************************************************)
EXTENDS Messages

CONSTANTS
    Conv,              \* conversation ids
    ConvOf,            \* the conversation_id each turn's request carries
    StoreKind,         \* "memory" or "file": which ConversationStore is wired in
    ClientPolicy,      \* when a client sends the next message, see MayStart
    MaxToolIterations, \* AgentConfig.max_tool_iterations
    MaxCalls,          \* bound: tool calls in one LLM response
    AutoSave,          \* AgentConfig.auto_save_conversations
    NoTurn             \* the empty dictionary slot of the memory store

ASSUME ConvOfAssumption == ConvOf \in [Turn -> Conv]
ASSUME StoreAssumption  == StoreKind \in {"memory", "file"}
ASSUME ClientAssumption == ClientPolicy \in {"any", "ready", "ended"}
ASSUME LimitAssumption  == MaxToolIterations \in Nat /\ MaxCalls \in Nat
ASSUME SaveAssumption   == AutoSave \in BOOLEAN
ASSUME NoTurnAssumption == NoTurn \notin Turn

VARIABLES
    pc,      \* where each turn's coroutine is suspended
    ui,      \* the last StatusBarUpdateComponent each turn's client was sent
    ref,     \* whose Conversation object the turn works on
    obj,     \* the messages of the Conversation object each turn created
    isNew,   \* is_new_conversation
    iter,    \* tool_iterations
    calls,   \* how many tool calls the LLM response being served carries
    request, \* the messages of the LlmRequest last built
    memory,  \* MemoryConversationStore._conversations
    disk,    \* the JSON files of FileSystemConversationStore
    saved,   \* history: the turn's closing update_conversation was carried out
    excused  \* history: turns that met another turn, a delete or a broken file

vars == <<pc, ui, ref, obj, isNew, iter, calls, request, memory, disk,
          saved, excused>>

-----------------------------------------------------------------------------

Ended == {"done", "failed", "gone"}
Phase == {"new", "starter", "loaded", "unhandled", "build", "llm", "tools",
          "ready", "save", "after"} \cup Ended
UiStatus == {"none", "working", "idle", "warning", "error"}
Unlocked == {"idle", "warning", "error"}
FileStatus == {"absent", "torn", "ok"}

Absent == [status |-> "absent", msgs |-> <<>>]
Torn   == [status |-> "torn", msgs |-> <<>>]

TypeOK ==
    /\ pc \in [Turn -> Phase]
    /\ ui \in [Turn -> UiStatus]
    /\ ref \in [Turn -> Turn]
    /\ obj \in [Turn -> Seq(Message)]
    /\ isNew \in [Turn -> BOOLEAN]
    /\ iter \in [Turn -> 0..MaxToolIterations]
    /\ calls \in [Turn -> 0..MaxCalls]
    /\ request \in [Turn -> Seq(Message)]
    /\ memory \in [Conv -> Turn \cup {NoTurn}]
    /\ disk \in [Conv -> [status : FileStatus, msgs : Seq(Message)]]
    /\ saved \in [Turn -> BOOLEAN]
    /\ excused \in SUBSET Turn

Init ==
    /\ pc = [t \in Turn |-> "new"]
    /\ ui = [t \in Turn |-> "none"]
    /\ ref = [t \in Turn |-> t]
    /\ obj = [t \in Turn |-> <<>>]
    /\ isNew = [t \in Turn |-> FALSE]
    /\ iter = [t \in Turn |-> 0]
    /\ calls = [t \in Turn |-> 0]
    /\ request = [t \in Turn |-> <<>>]
    /\ memory = [c \in Conv |-> NoTurn]
    /\ disk = [c \in Conv |-> Absent]
    /\ saved = [t \in Turn |-> FALSE]
    /\ excused = {}

-----------------------------------------------------------------------------
(* The stores.                                                             *)

\* What get_conversation would find under c, for the requests of one user: a
\* file that does not parse is reported like a missing one.
Exists(c) ==
    IF StoreKind = "memory" THEN memory[c] # NoTurn ELSE disk[c].status = "ok"

Stored(c) ==
    IF StoreKind = "memory"
    THEN IF memory[c] = NoTurn THEN <<>> ELSE obj[memory[c]]
    ELSE disk[c].msgs

\* Mutant: the store never finds what it keeps.
LoadMisses(t) ==
    /\ ref' = [ref EXCEPT ![t] = t]
    /\ obj' = [obj EXCEPT ![t] = <<>>]
    /\ isNew' = [isNew EXCEPT ![t] = TRUE]

\* get_conversation, and the empty Conversation the agent makes of None.
Load(t) ==
    LET c == ConvOf[t] IN
    /\ ref' = [ref EXCEPT ![t] =
                 IF StoreKind = "memory" /\ Exists(c) THEN memory[c] ELSE t]
    /\ obj' = [obj EXCEPT ![t] =
                 IF StoreKind = "file" /\ Exists(c) THEN disk[c].msgs ELSE <<>>]
    /\ isNew' = [isNew EXCEPT ![t] = ~Exists(c)]

\* Mutant: the file is opened for appending.
PersistAppends(t, m) ==
    LET c == ConvOf[t] IN
    /\ UNCHANGED memory
    /\ disk' = [disk EXCEPT ![c] = [status |-> "ok", msgs |-> @.msgs \o m]]

\* update_conversation(conversation) when the object holds the messages m.
Persist(t, m) ==
    LET c == ConvOf[t] IN
    /\ memory' = IF StoreKind = "memory"
                 THEN [memory EXCEPT ![c] = ref[t]] ELSE memory
    /\ disk' = IF StoreKind = "file"
               THEN [disk EXCEPT ![c] = [status |-> "ok", msgs |-> m]] ELSE disk

\* Turns whose stored messages are lost with the stored conversation c.
SavedIn(c) == {t \in Turn : ConvOf[t] = c /\ saved[t]}

-----------------------------------------------------------------------------
(* Who runs when.                                                          *)

\* A turn that has read the conversation and may still write it.
Writing(t) == pc[t] \in {"starter", "loaded", "unhandled", "build", "llm",
                         "tools", "ready", "save"}

Rivals(t) == {s \in Turn \ {t} : ConvOf[s] = ConvOf[t] /\ Writing(s)}

\* The client's side: "any" is what the server accepts, "ready" is a client
\* that waits until its chat input is re-enabled, "ended" one that waits for
\* the end of the response stream.
MayStart(t) ==
    \A s \in Turn \ {t} : ConvOf[s] = ConvOf[t] =>
        \/ ClientPolicy = "any"
        \/ pc[s] = "new"
        \/ ClientPolicy = "ready" /\ ui[s] \in Unlocked
        \/ pc[s] \in Ended

\* Two turns that hold the conversation at the same time excuse each other.
Meet(t) ==
    excused' = IF Rivals(t) = {} THEN excused ELSE excused \cup Rivals(t) \cup {t}

Go(t, phase) == pc' = [pc EXCEPT ![t] = phase]
Show(t, status) == ui' = [ui EXCEPT ![t] = status]
AddMessages(t, ms) == obj' = [obj EXCEPT ![ref[t]] = @ \o ms]

-----------------------------------------------------------------------------
(* The steps of a turn.                                                    *)

\* An empty message with a workflow handler: show the starter components.
LoadStarter(t) ==
    /\ pc[t] = "new"
    /\ MayStart(t)
    /\ Load(t)
    /\ Meet(t)
    /\ Go(t, "starter")
    /\ UNCHANGED <<ui, iter, calls, request, memory, disk, saved>>

\* The starter request sends its components, if any, with the idle status, and
\* writes back a conversation that has messages ...
SaveStarter(t) ==
    /\ pc[t] = "starter"
    /\ IF AutoSave /\ obj[ref[t]] # <<>>
       THEN Persist(t, obj[ref[t]])
       ELSE UNCHANGED <<memory, disk>>
    /\ UNCHANGED ui \/ Show(t, "idle")
    /\ Go(t, "done")
    /\ UNCHANGED <<ref, obj, isNew, iter, calls, request, saved, excused>>

\* ... and ends without saving when the handler raises.
StarterFails(t) ==
    /\ pc[t] = "starter"
    /\ UNCHANGED ui \/ Show(t, "idle")
    /\ Go(t, "done")
    /\ UNCHANGED <<ref, obj, isNew, iter, calls, request, memory, disk, saved,
                   excused>>

\* before_message hooks, the "working" status, then the conversation.
LoadConversation(t) ==
    /\ pc[t] = "new"
    /\ MayStart(t)
    /\ Load(t)
    /\ Meet(t)
    /\ Show(t, "working")
    /\ Go(t, "loaded")
    /\ UNCHANGED <<iter, calls, request, memory, disk, saved>>

\* The workflow handler answers (should_skip_llm): its components, the idle
\* status, and the conversation as it was loaded goes back to the store.
WorkflowHandles(t) ==
    /\ pc[t] = "loaded"
    /\ IF AutoSave THEN Persist(t, obj[ref[t]]) ELSE UNCHANGED <<memory, disk>>
    /\ Show(t, "idle")
    /\ Go(t, "done")
    /\ UNCHANGED <<ref, obj, isNew, iter, calls, request, saved, excused>>

\* No workflow, one that passes, or one that raised, perhaps after its
\* components and the idle status were sent: the LLM is to answer.
WorkflowPasses(t) ==
    /\ pc[t] = "loaded"
    /\ UNCHANGED ui \/ Show(t, "idle")
    /\ Go(t, "unhandled")
    /\ UNCHANGED <<ref, obj, isNew, iter, calls, request, memory, disk, saved,
                   excused>>

\* The user's message joins the conversation, and a new conversation is
\* stored at once.
AddUserMessage(t) ==
    /\ pc[t] = "unhandled"
    /\ AddMessages(t, <<UserMsg(t)>>)
    /\ IF isNew[t]
       THEN Persist(t, Append(obj[ref[t]], UserMsg(t)))
       ELSE UNCHANGED <<memory, disk>>
    /\ Go(t, "build")
    /\ UNCHANGED <<ui, ref, isNew, iter, calls, request, saved, excused>>

\* Mutant: one iteration too many.
BuildRequestOnceMore(t) ==
    /\ pc[t] = "build"
    /\ request' = [request EXCEPT ![t] = obj[ref[t]]]
    /\ IF iter[t] <= MaxToolIterations
       THEN Go(t, "llm") /\ UNCHANGED ui
       ELSE Go(t, "save") /\ Show(t, "warning")
    /\ UNCHANGED <<ref, obj, isNew, iter, calls, memory, disk, saved, excused>>

\* Mutant: the request is not rebuilt after the tools have run.
BuildRequestOnce(t) ==
    /\ pc[t] = "build"
    /\ request' = IF iter[t] = 0 THEN [request EXCEPT ![t] = obj[ref[t]]] ELSE request
    /\ IF iter[t] < MaxToolIterations
       THEN Go(t, "llm") /\ UNCHANGED ui
       ELSE Go(t, "save") /\ Show(t, "warning")
    /\ UNCHANGED <<ref, obj, isNew, iter, calls, memory, disk, saved, excused>>

\* Enrichers, schemas and prompt before the first request, _build_llm_request,
\* and the loop's test; at the limit the client is told so.
BuildRequest(t) ==
    /\ pc[t] = "build"
    /\ request' = [request EXCEPT ![t] = obj[ref[t]]]
    /\ IF iter[t] < MaxToolIterations
       THEN Go(t, "llm") /\ UNCHANGED ui
       ELSE Go(t, "save") /\ Show(t, "warning")
    /\ UNCHANGED <<ref, obj, isNew, iter, calls, memory, disk, saved, excused>>

\* Mutant: the assistant message that carries the calls is forgotten.
LlmCallsToolsUnseen(t, n) ==
    /\ pc[t] = "llm"
    /\ iter' = [iter EXCEPT ![t] = @ + 1]
    /\ calls' = [calls EXCEPT ![t] = n]
    /\ UNCHANGED ui \/ Show(t, "working")
    /\ Go(t, "tools")
    /\ UNCHANGED <<ref, obj, isNew, request, memory, disk, saved, excused>>

\* The LLM asks for n tools; content that comes with the calls is shown, or
\* announced in the status bar.
LlmCallsTools(t, n) ==
    /\ pc[t] = "llm"
    /\ iter' = [iter EXCEPT ![t] = @ + 1]
    /\ calls' = [calls EXCEPT ![t] = n]
    /\ AddMessages(t, <<CallsMsg(t, iter[t] + 1, n)>>)
    /\ UNCHANGED ui \/ Show(t, "working")
    /\ Go(t, "tools")
    /\ UNCHANGED <<ref, isNew, request, memory, disk, saved, excused>>

\* Mutant: the last result is dropped.
AddToolResultsButOne(t) ==
    /\ pc[t] = "tools"
    /\ AddMessages(t, ToolMsgs(t, iter[t], calls[t] - 1))
    /\ Go(t, "build")
    /\ UNCHANGED <<ui, ref, isNew, iter, calls, request, memory, disk, saved,
                   excused>>

\* Mutant: the conversation is saved after every round of tools.
AddToolResultsSaved(t) ==
    /\ pc[t] = "tools"
    /\ AddMessages(t, ToolMsgs(t, iter[t], calls[t]))
    /\ Persist(t, obj[ref[t]] \o ToolMsgs(t, iter[t], calls[t]))
    /\ Go(t, "build")
    /\ UNCHANGED <<ui, ref, isNew, iter, calls, request, saved, excused>>

\* Every call has been executed (ToolRegistry.execute turns an exception of
\* the tool into a result); only now do the results join the conversation.
AddToolResults(t) ==
    /\ pc[t] = "tools"
    /\ AddMessages(t, ToolMsgs(t, iter[t], calls[t]))
    /\ Go(t, "build")
    /\ UNCHANGED <<ui, ref, isNew, iter, calls, request, memory, disk, saved,
                   excused>>

\* Mutant: the client is not told.
LlmAnswersSilently(t) ==
    /\ pc[t] = "llm"
    /\ Go(t, "ready")
    /\ UNCHANGED <<ui, ref, obj, isNew, iter, calls, request, memory, disk, saved,
                   excused>>

\* The LLM answers, or the recovery strategy does for it: the client is told
\* that the response is complete ...
LlmAnswers(t) ==
    /\ pc[t] = "llm"
    /\ Show(t, "idle")
    /\ Go(t, "ready")
    /\ UNCHANGED <<ref, obj, isNew, iter, calls, request, memory, disk, saved,
                   excused>>

\* Mutant: the loop is left only by an answer with content.
AddAnswerOrAskAgain(t) ==
    /\ pc[t] = "ready"
    /\ \/ AddMessages(t, <<AnswerMsg(t)>>) /\ Go(t, "save")
       \/ UNCHANGED obj /\ Go(t, "llm")
    /\ UNCHANGED <<ui, ref, isNew, iter, calls, request, memory, disk, saved,
                   excused>>

\* ... and the answer joins the conversation, if it has content.
AddAnswer(t) ==
    /\ pc[t] = "ready"
    /\ \/ AddMessages(t, <<AnswerMsg(t)>>)
       \/ UNCHANGED obj
    /\ Go(t, "save")
    /\ UNCHANGED <<ui, ref, isNew, iter, calls, request, memory, disk, saved,
                   excused>>

SaveConversation(t) ==
    /\ pc[t] = "save"
    /\ IF AutoSave THEN Persist(t, obj[ref[t]]) ELSE UNCHANGED <<memory, disk>>
    /\ saved' = [saved EXCEPT ![t] = AutoSave]
    /\ Go(t, "after")
    /\ UNCHANGED <<ui, ref, obj, isNew, iter, calls, request, excused>>

AfterMessageHooks(t) ==
    /\ pc[t] = "after"
    /\ Go(t, "done")
    /\ UNCHANGED <<ui, ref, obj, isNew, iter, calls, request, memory, disk,
                   saved, excused>>

-----------------------------------------------------------------------------
(* What can go wrong.                                                      *)

\* An exception at any await after the conversation was read: a hook, an
\* enricher, a filter, the registry, handle_llm_error giving up.  send_message
\* catches it and re-enables the chat input.  ("ready" only yields.)
Raises(t) ==
    /\ pc[t] \notin Ended \cup {"new", "starter", "ready"}
    /\ Show(t, "error")
    /\ Go(t, "failed")
    /\ UNCHANGED <<ref, obj, isNew, iter, calls, request, memory, disk, saved,
                   excused>>

\* The client goes away: GeneratorExit or CancelledError at the turn's next
\* yield or await, which no handler of send_message catches.
Disconnects(t) ==
    /\ pc[t] \notin Ended \cup {"new"}
    /\ Go(t, "gone")
    /\ UNCHANGED <<ui, ref, obj, isNew, iter, calls, request, memory, disk,
                   saved, excused>>

\* open(..., "w") has truncated the file and json.dump does not get to its
\* end: the disk is full, or metadata does not serialise.  The starter request
\* gives up, a workflow's turn goes on with the LLM, any other turn fails.
WriteBreaks(t) ==
    /\ StoreKind = "file"
    /\ \/ /\ pc[t] = "starter" /\ AutoSave /\ obj[t] # <<>>
          /\ Go(t, "done") /\ (UNCHANGED ui \/ Show(t, "idle")) /\ UNCHANGED obj
       \/ /\ pc[t] = "loaded" /\ AutoSave
          /\ Go(t, "unhandled") /\ Show(t, "idle") /\ UNCHANGED obj
       \/ /\ pc[t] = "unhandled" /\ isNew[t]
          /\ Go(t, "failed") /\ Show(t, "error") /\ AddMessages(t, <<UserMsg(t)>>)
       \/ /\ pc[t] = "save" /\ AutoSave
          /\ Go(t, "failed") /\ Show(t, "error") /\ UNCHANGED obj
    /\ disk' = [disk EXCEPT ![ConvOf[t]] = Torn]
    /\ excused' = excused \cup SavedIn(ConvOf[t])
    /\ UNCHANGED <<ref, isNew, iter, calls, request, memory, saved>>

\* DELETE /conversations/{id}: nothing looks at the turns that are running.
DeleteConversation(c) ==
    /\ Exists(c)
    /\ memory' = [memory EXCEPT ![c] = NoTurn]
    /\ disk' = [disk EXCEPT ![c] = Absent]
    /\ excused' = excused \cup SavedIn(c)
    /\ UNCHANGED <<pc, ui, ref, obj, isNew, iter, calls, request, saved>>

\* The server process dies and is started again.
Crash ==
    /\ \E t \in Turn : pc[t] \notin Ended \cup {"new"}
    /\ pc' = [t \in Turn |-> IF pc[t] \in Ended \cup {"new"} THEN pc[t] ELSE "gone"]
    /\ memory' = [c \in Conv |-> NoTurn]
    /\ excused' = IF StoreKind = "memory"
                  THEN excused \cup {t \in Turn : saved[t]} ELSE excused
    /\ UNCHANGED <<ui, ref, obj, isNew, iter, calls, request, disk, saved>>

-----------------------------------------------------------------------------

Step(t) ==
    \/ LoadStarter(t)
    \/ SaveStarter(t)
    \/ StarterFails(t)
    \/ LoadConversation(t)
    \/ WorkflowHandles(t)
    \/ WorkflowPasses(t)
    \/ AddUserMessage(t)
    \/ BuildRequest(t)
    \/ \E n \in 1..MaxCalls : LlmCallsTools(t, n)
    \/ AddToolResults(t)
    \/ LlmAnswers(t)
    \/ AddAnswer(t)
    \/ SaveConversation(t)
    \/ AfterMessageHooks(t)

Trouble(t) ==
    \/ Raises(t)
    \/ Disconnects(t)
    \/ WriteBreaks(t)

Next ==
    \/ \E t \in Turn : Step(t) \/ Trouble(t)
    \/ \E c \in Conv : DeleteConversation(c)
    \/ Crash

Spec == Init /\ [][Next]_vars

\* The event loop resumes a turn whose await is over; the LLM and the tools
\* answer or raise, because their clients have timeouts.
FairSpec == Spec /\ \A t \in Turn : WF_vars(pc[t] # "new" /\ Step(t))

-----------------------------------------------------------------------------
(* Properties.                                                             *)

\* What the file store keeps is always a legal transcript: whatever turns
\* overlap, fail, disconnect or crash, no stored conversation has a tool call
\* without its answers or an answer without its call (agent.py:661-677,
\* 1105-1113; file_system_conversation_store.py:37-51).
StoredWellFormed == \A c \in Conv : WellFormed(Stored(c))

\* Every request the agent sends to the LLM obeys the API's message order.
RequestWellFormed == \A t \in Turn : WellFormed(request[t])

\* The turn loop never asks the LLM without the user's message of this turn
\* and everything the turn's earlier iterations called and got back, whoever
\* else appends to the same conversation (agent.py:645, 1105-1118).
RequestShowsOwnWork ==
    \A t \in Turn : pc[t] = "llm" =>
        /\ Has(request[t], UserMsg(t))
        /\ \A i \in 1..iter[t] :
            \E n \in 1..MaxCalls :
                /\ Has(request[t], CallsMsg(t, i, n))
                /\ \A k \in 1..n : Has(request[t], ToolMsg(t, i, k))

\* A tool's answer never precedes the call it answers, even when turns write
\* to one shared conversation object (agent.py:671).
AnswersFollowCalls ==
    \A t \in Turn : \A j \in DOMAIN obj[t] :
        obj[t][j].role = "tool" =>
            \E i \in 1..(j - 1) :
                /\ obj[t][i].role = "calls"
                /\ obj[t][i].turn = obj[t][j].turn
                /\ obj[t][i].iter = obj[t][j].iter

\* All or nothing: beyond the user's message, the file store shows nothing of
\* a turn that has not got through its closing save (agent.py:520, 1205).
StoredAtomically ==
    \A c \in Conv : \A i \in DOMAIN Stored(c) :
        Stored(c)[i].role # "user" => saved[Stored(c)[i].turn]

\* The messages of turn t that a complete transcript shows.
Keeps(m, t) ==
    /\ Has(m, UserMsg(t))
    /\ \A i \in 1..iter[t] : HasCalls(m, t, i)

\* The only ways to lose a turn that was saved are another turn on the same
\* conversation at the same time, a delete, and a broken file or crash of a
\* store that cannot survive it (agent.py:418, 1205).
KeptUnlessExcused ==
    \A t \in Turn : saved[t] /\ t \notin excused =>
        Exists(ConvOf[t]) /\ Keeps(Stored(ConvOf[t]), t)

\* A client that stayed connected is never left with a chat that says
\* "working": the turn ends by re-enabling its input (agent.py:165-228).
NeverStuckWorking ==
    \A t \in Turn : pc[t] \in {"done", "failed"} => ui[t] # "working"

\* Every turn the server has begun comes to an end (agent.py:652).
TurnsEnd == \A t \in Turn : pc[t] = "loaded" ~> pc[t] \in Ended

\* An upper bound on the steps a turn has left: the rounds of tools still
\* allowed take three each.
StepsLeft(t) ==
    LET rounds == 3 * (MaxToolIterations - iter[t]) IN
    CASE pc[t] = "new"       -> rounds + 8
      [] pc[t] = "loaded"    -> rounds + 7
      [] pc[t] = "unhandled" -> rounds + 6
      [] pc[t] = "tools"     -> rounds + 6
      [] pc[t] = "build"     -> rounds + 5
      [] pc[t] = "llm"       -> rounds + 4
      [] pc[t] = "ready"     -> 3
      [] pc[t] = "save"      -> 2
      [] pc[t] \in {"after", "starter"} -> 1
      [] OTHER               -> 0

\* Why turns end: whatever a turn meets, each of its steps uses up one of at
\* most 3 * max_tool_iterations + 8, and no step of another turn, of a delete or
\* of a restart gives it one back (agent.py:652, 1124-1128).
StepsRunOut ==
    [][\A t \in Turn :
        \/ UNCHANGED <<pc[t], iter[t]>>
        \/ StepsLeft(t)' \in Nat /\ StepsLeft(t)' < StepsLeft(t)]_vars

\* With clients that wait for the end of the stream, the file store implements
\* a log of whole turns (file_system_conversation_store.py:79-105).
Log == INSTANCE ConversationLog WITH log <- [c \in Conv |-> Stored(c)]
StoreIsALog == Log!LogSpec

\* "Ready for next message" (agent.py:1125): a client that has been told so
\* and sends one gets an answer that knows this turn.
ReadyMeansKept ==
    [][\A s, t \in Turn :
        (/\ ConvOf[s] = ConvOf[t] /\ Exists(ConvOf[t])
         /\ pc[s] = "save" /\ ui[s] = "idle"
         /\ pc[t] = "new" /\ pc'[t] = "loaded")
        => Keeps(obj'[ref'[t]], s)]_vars
=============================================================================
