------------------------------ MODULE ToolTurn ------------------------------
(***************************************************************************)
(* The tools of the messages one task handles, one message after another,  *)
(* as the handler of a websocket does: the requests to the LLM and what    *)
(* the regulator middlewares make of them, the calls with their hooks, the *)
(* registry's pipeline of checks, audits and execution, and the recovery   *)
(* of a call that failed.                                                  *)
(*                                                                         *)
(* The regulators keep their records in a tracker, by message, and learn   *)
(* the current message from a context variable of the task.  The hook that *)
(* clears both runs only when a message ends in order.                     *)
(***************************************************************************)
EXTENDS SqlGuard, Regulator

CONSTANTS
    Tool,          \* registered tools
    Access,        \* per tool: the groups that may use it, {} for everybody
    Policy,        \* per regulated tool: its policy
    Unknown,       \* a name no tool has
    Users,         \* the possible group memberships of the user
    Query,         \* what the LLM may pass to run_sql
    Shape,         \* per query: [skeleton, sound]
    Finding(_),    \* per other tool: results it may return
    HasRecovery,   \* error_recovery_strategy is not None
    MaxRecovery,   \* max_recovery_attempts
    MaxMessages, MaxCalls, MaxRetries   \* bounds: messages, calls, LLM retries

VARIABLES
    user,          \* the groups of the user
    pc,
    message,       \* request_id: the number of the message
    request,       \* the LlmRequest: offered tools, guidance in the system prompt
    call,          \* the tool call in progress
    result,        \* its ToolResult
    trail,         \* how many audit events of each kind it has
    scope,         \* _request_scope: a message, 0 for None
    current,       \* the hooks whose _current_tool is set
    records,       \* the tracker, by message and tool
    calls, retries,
    seen           \* histories, see NoHistory

toolVars == <<user, pc, message, request, call, result, trail, scope, current,
              records, calls, retries, seen>>

Regulated == DOMAIN Policy
Message == 1..MaxMessages
RunSql == "run_sql"

ASSUME ToolAssumption ==
    /\ Regulated \subseteq Tool
    /\ RunSql \in Tool
    /\ Unknown \notin Tool
    /\ MaxRecovery \in Nat /\ MaxMessages \in Nat /\ MaxCalls \in Nat /\ MaxRetries \in Nat

(* Row-level security and the read-only rule are on; a query comes without *)
(* the filters that are about to be added to it.                           *)
ASSUME GuardAssumption ==
    /\ Enabled("rls") /\ Enabled("governance") /\ Security.readOnly
    /\ \A q \in Query : {"from", "joins", "filters"} \subseteq DOMAIN q /\ q.filters = {}

(* A policy counts from one. *)
ASSUME PolicyAssumption ==
    \A t \in Regulated :
       /\ Policy[t].warnCalls \in Nat \ {0} /\ Policy[t].maxErrors \in Nat \ {0}
       /\ Policy[t].hardBlock =>
             {Policy[t].blockCalls, Policy[t].maxEmpty, Policy[t].maxRepeat, Policy[t].maxNoNew}
                \subseteq Nat \ {0}

HasAccess(t) == Access[t] = {} \/ user \cap Access[t] # {}

NoMetadata(ok) ==
    [ok |-> ok, query |-> None, tables |-> {}, empty |-> FALSE, skeleton |-> None, sound |-> FALSE]

Failure == NoMetadata(FALSE)
NoCall == [tool |-> None, arg |-> None, attempt |-> 0]

NoTrail == [granted |-> 0, denied |-> 0, invoked |-> 0, results |-> 0]

NoHistory ==
    [cut     |-> FALSE, \* a message was cut short
     torn    |-> FALSE, \* one was, between the hooks before and after a call
     blocked |-> {},    \* tools this message's calls had removed, not called since
     sends   |-> 0,     \* how often this request was sent
     done    |-> 0,     \* executions of this call that succeeded
     answer  |-> None]  \* the rows the last query returned

ToolInit ==
    /\ user \in Users
    /\ pc = "idle"
    /\ message = 0
    /\ request = [offered |-> {}, guided |-> [t \in Regulated |-> 0]]
    /\ call = NoCall
    /\ result = Failure
    /\ trail = NoTrail
    /\ scope = 0
    /\ current = {}
    /\ records = [m \in Message |-> [t \in Regulated |-> NewRecord]]
    /\ calls = 0
    /\ retries = 0
    /\ seen = NoHistory

-----------------------------------------------------------------------------
(* Requests *)

(* get_schemas for the user, and a request with the plain system prompt *)
BuildRequest == [offered |-> {t \in Tool : HasAccess(t)}, guided |-> [t \in Regulated |-> 0]]

BeginMessage ==
    /\ pc = "idle"
    /\ message < MaxMessages
    /\ message' = message + 1
    /\ request' = BuildRequest
    /\ pc' = "send"
    /\ seen' = [seen EXCEPT !.blocked = {}, !.sends = 0]
    /\ UNCHANGED <<user, call, result, trail, scope, current, records, calls, retries>>

StateOf(t) == EvaluateState(Policy[t], records[scope][t])

(* before_llm_request of the middlewares, one per regulated tool; without a *)
(* scope or without tools they leave the request alone.                     *)
Constrain(req) ==
    IF scope = 0 \/ req.offered = {} THEN req
    ELSE [offered |-> {t \in req.offered : t \in Regulated => StateOf(t) # "block"},
          guided  |-> [t \in Regulated |->
                          req.guided[t] + IF StateOf(t) = "ok" THEN 0 ELSE 1]]

SendRequest ==
    /\ pc = "send"
    /\ request' = Constrain(request)
    /\ pc' = "llm"
    /\ seen' = [seen EXCEPT !.sends = @ + 1,
                            !.blocked = IF scope = message
                                        THEN @ \cup (request.offered \ request'.offered)
                                        ELSE @]
    /\ UNCHANGED <<user, message, call, result, trail, scope, current, records, calls, retries>>

(* The LLM fails and recovery has the same request sent again. *)
LlmRetry ==
    /\ pc = "llm"
    /\ retries < MaxRetries
    /\ retries' = retries + 1
    /\ pc' = "send"
    /\ UNCHANGED <<user, message, request, call, result, trail, scope, current, records, calls, seen>>

-----------------------------------------------------------------------------
(* Ends of a message *)

(* An exception leaves the loop: no after_message hook runs. *)
Cut ==
    /\ pc' = "idle"
    /\ call' = NoCall
    /\ trail' = NoTrail
    /\ UNCHANGED <<user, message, request, result, records, calls, retries>>

LlmFails ==
    /\ pc = "llm"
    /\ Cut
    /\ seen' = [seen EXCEPT !.cut = TRUE]
    /\ UNCHANGED <<scope, current>>

AfterMessageUnhooked == UNCHANGED <<records, scope>>

(* after_message: the first regulator hook drops the message's records and *)
(* clears the scope, which leaves the others nothing to do.                *)
AfterMessage ==
    /\ records' = IF scope = 0 THEN records
                  ELSE [records EXCEPT ![scope] = [t \in Regulated |-> NewRecord]]
    /\ scope' = 0

(* The LLM answers in text. *)
LlmAnswers ==
    /\ pc = "llm"
    /\ pc' = "idle"
    /\ AfterMessage
    /\ UNCHANGED <<user, message, request, call, result, trail, current, calls, retries, seen>>

(* The limit of tool iterations ends the loop after the results are added. *)
IterationLimit ==
    /\ pc = "send"
    /\ calls = MaxCalls
    /\ pc' = "idle"
    /\ AfterMessage
    /\ UNCHANGED <<user, message, request, call, result, trail, current, calls, retries, seen>>

-----------------------------------------------------------------------------
(* A tool call *)

(* before_tool of the regulator of the tool *)
BeforeTool(t) ==
    IF t \in Regulated
    THEN /\ scope' = message
         /\ current' = current \cup {t}
         /\ records' = [records EXCEPT ![message][t] = WithCall(@)]
    ELSE UNCHANGED <<scope, current, records>>

(* The LLM calls a tool, which the request need not have offered.  Hooks *)
(* run only for a name that is registered.                               *)
LlmCalls(t, arg) ==
    /\ pc \in {"llm", "more"}
    /\ calls < MaxCalls
    /\ calls' = calls + 1
    /\ call' = [tool |-> t, arg |-> arg, attempt |-> 0]
    /\ pc' = "exec"
    /\ BeforeTool(t)
    /\ seen' = [seen EXCEPT !.blocked = @ \ {t}]
    /\ UNCHANGED <<user, message, request, result, trail, retries>>

(* Another before_tool hook raises, before or after the regulator's ran. *)
HookRaises(t, ran) ==
    /\ pc \in {"llm", "more"}
    /\ calls < MaxCalls
    /\ t \in Tool
    /\ calls' = calls + 1
    /\ pc' = "idle"
    /\ IF ran THEN BeforeTool(t) ELSE UNCHANGED <<scope, current, records>>
    /\ seen' = [seen EXCEPT !.cut = TRUE, !.torn = @ \/ current' # {}]
    /\ UNCHANGED <<user, message, request, call, result, trail, retries>>

Returns(res) ==
    /\ result' = res
    /\ pc' = "check"
    /\ call' = [call EXCEPT !.attempt = @ + 1]
    /\ UNCHANGED <<user, message, request, scope, current, records, calls, retries>>

(* The audit logger, which may raise: see AuditRaises and Executes. *)
LogAccess(tr, granted) ==
    IF granted THEN [tr EXCEPT !.granted = @ + 1] ELSE [tr EXCEPT !.denied = @ + 1]
LogInvocation(tr) == [tr EXCEPT !.invoked = @ + 1]
LogResult(tr) == [tr EXCEPT !.results = @ + 1]

(* execute, up to the call of the tool: an unknown name, no access, bad     *)
(* arguments (None) or a rejected query are failures that run nothing.      *)
Admitted ==
    /\ call.tool \in Tool
    /\ HasAccess(call.tool)
    /\ call.arg # None
    /\ call.tool = RunSql => Accepted(call.arg)

Refuses ==
    /\ pc = "exec"
    /\ ~Admitted
    /\ Returns(Failure)
    /\ trail' = IF call.tool \in Tool /\ ~HasAccess(call.tool) THEN LogAccess(trail, FALSE) ELSE trail
    /\ UNCHANGED seen

(* The audit of an access check or of an invocation raises out of execute. *)
AuditRaises ==
    /\ pc = "exec"
    /\ call.tool \in Tool
    /\ Admitted \/ ~HasAccess(call.tool)
    /\ Cut
    /\ seen' = [seen EXCEPT !.cut = TRUE, !.torn = @ \/ current # {}, !.done = 0,
                            !.answer = None]
    /\ UNCHANGED <<scope, current>>

(* What run_sql reports of a query that ran or failed, and the rows it had. *)
Rewritten == Transform(call.arg, user)

SqlResult(ok) ==
    [NoMetadata(ok) EXCEPT !.skeleton = Shape[call.arg].skeleton,
                           !.sound = Shape[call.arg].sound,
                           !.empty = ok /\ Answer(Rewritten) = {}]

Outcomes ==
    IF ~Admitted THEN {}
    ELSE IF call.tool = RunSql THEN {SqlResult(TRUE), SqlResult(FALSE)}
    ELSE Finding(call.tool)

(* The tool runs; an audit of its result that raises makes it a failure. *)
Executes(res, audited) ==
    /\ pc = "exec"
    /\ Returns(IF audited THEN res ELSE Failure)
    /\ trail' = IF audited THEN LogResult(LogInvocation(LogAccess(trail, TRUE)))
                           ELSE LogInvocation(LogAccess(trail, TRUE))
    /\ seen' = [seen EXCEPT
          !.done = IF res.ok THEN @ + 1 ELSE @,
          !.answer = IF call.tool = RunSql /\ res.ok
                     THEN [query |-> call.arg, rows |-> Answer(Rewritten)] ELSE @]

(* handle_tool_error, as long as the call fails and attempts are left; the *)
(* first execution is not one of them.                                     *)
MayRecoverAnyway == HasRecovery /\ call.attempt <= MaxRecovery

MayRecover == ~result.ok /\ HasRecovery /\ call.attempt <= MaxRecovery

RetriesTool ==
    /\ pc = "check"
    /\ MayRecover
    /\ pc' = "exec"
    /\ UNCHANGED <<user, message, request, call, result, trail, scope, current, records,
                   calls, retries, seen>>

(* FALLBACK and SKIP pass off the call as a success without metadata. *)
Substitutes ==
    /\ pc = "check"
    /\ MayRecover
    /\ result' = NoMetadata(TRUE)
    /\ pc' = "after"
    /\ UNCHANGED <<user, message, request, call, trail, scope, current, records, calls, retries, seen>>

KeepsResult ==
    /\ pc = "check"
    /\ pc' = "after"
    /\ UNCHANGED <<user, message, request, call, result, trail, scope, current, records,
                   calls, retries, seen>>

(* after_tool of the hooks: those whose tool is set record the result. *)
Recorded(ts) ==
    IF scope = 0 THEN records
    ELSE [records EXCEPT ![scope] = [t \in Regulated |->
             IF t \notin ts THEN @[t]
             ELSE TryFreeze(WithResult(@[t], result), Policy[t], result)]]

ObserversOfAnyCall == Regulated

Observers == current

AfterTool ==
    /\ pc = "after"
    /\ records' = Recorded(Observers)
    /\ current' = {}
    /\ call' = NoCall
    /\ trail' = NoTrail
    /\ pc' = "more"
    /\ seen' = [seen EXCEPT !.done = 0, !.answer = None]
    /\ UNCHANGED <<user, message, request, result, scope, calls, retries>>

(* All calls of the response are done: a new request with their results. *)
NextRound ==
    /\ pc = "more"
    /\ request' = BuildRequest
    /\ pc' = "send"
    /\ seen' = [seen EXCEPT !.sends = 0]
    /\ UNCHANGED <<user, message, call, result, trail, scope, current, records, calls, retries>>

Args(t) == IF t = RunSql THEN Query \cup {None} ELSE {t, None}

ToolNext ==
    \/ BeginMessage
    \/ SendRequest
    \/ LlmRetry
    \/ LlmFails
    \/ LlmAnswers
    \/ IterationLimit
    \/ \E t \in Tool \cup {Unknown} : \E arg \in Args(t) : LlmCalls(t, arg)
    \/ \E t \in Tool, ran \in BOOLEAN : HookRaises(t, ran)
    \/ Refuses
    \/ AuditRaises
    \/ \E res \in Outcomes, audited \in BOOLEAN : Executes(res, audited)
    \/ RetriesTool
    \/ Substitutes
    \/ KeepsResult
    \/ AfterTool
    \/ NextRound

-----------------------------------------------------------------------------
(* Types: records count nothing that did not happen in a message that began. *)
ToolTypeOK ==
    /\ user \in Users
    /\ pc \in {"idle", "send", "llm", "exec", "check", "after", "more"}
    /\ message \in 0..MaxMessages
    /\ request.offered \subseteq Tool
    /\ request.guided \in [Regulated -> Nat]
    /\ call.attempt \in 0..(MaxRecovery + 1)
    /\ scope \in 0..message
    /\ current \subseteq Regulated
    /\ \A m \in Message, t \in Regulated :
          /\ records[m][t].calls \in 0..calls
          /\ m > message => records[m][t] = NewRecord

(* A record holds a result for each of its calls and no other: what a tool  *)
(* did is never charged to another tool or message.  A call that was cut    *)
(* between its hooks leaves the hook pointing at it, and is excused.        *)
ResultsBelongToCalls ==
    ~seen.torn =>
      \A m \in Message, t \in Regulated :
         LET rec == records[m][t]
         IN  rec.calls = rec.successes + rec.errors
                         + (IF m = message /\ t \in current THEN 1 ELSE 0)

(* A tool that its message's own calls got removed from the requests stays  *)
(* removed for the rest of the message, unless the LLM calls it all the     *)
(* same: no result of another tool lifts the block.                         *)
BlockedStaysBlocked ==
    pc = "llm" => seen.blocked \cap request.offered = {}

(* The guidance in a request is about calls of its own message, and there   *)
(* once for every time this request was sent: neither earlier messages nor  *)
(* earlier rounds leave any.  A message that was cut short leaves its scope *)
(* and records to the next one, and is excused.                             *)
GuidanceIsOwn ==
    pc = "llm" =>
      \A t \in Regulated :
         /\ request.guided[t] <= seen.sends
         /\ request.guided[t] > 0 /\ ~seen.cut => records[message][t].calls > 0

(* Within one call a tool that succeeded is executed again only if the      *)
(* audit trail has an invocation without a result: whatever recovery does,  *)
(* effects are repeated only where the trail shows it.                      *)
EffectsOnce == seen.done <= 1 + trail.invoked - trail.results

(* The rows run_sql returned are exactly those the user's groups entitle    *)
(* him to, whatever the tables of the query and however often it was tried. *)
EntitledRows ==
    seen.answer # None => seen.answer.rows = Entitled(seen.answer.query, user)

ToolSpec == ToolInit /\ [][ToolNext]_toolVars
=============================================================================
