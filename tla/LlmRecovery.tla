---------------------------- MODULE LlmRecovery ----------------------------
(***************************************************************************)
(* The agent's recovery from LLM errors: Agent.handle_llm_error drives the *)
(* attempts (core/agent/agent.py), DefaultErrorRecoveryStrategy decides    *)
(* what each of them does (core/recovery/base.py).                         *)
(*                                                                         *)
(* One agent serves every turn with one strategy and one LlmService, so    *)
(* the ledger (RecoveryState) and the service's model are shared.  A turn  *)
(* gives way to others while it waits for the LLM and while it backs off.  *)
(***************************************************************************)
EXTENDS Messages

CONSTANTS
    MaxAttempts,       \* AgentConfig.max_recovery_attempts
    MaxRetries,        \* max_retries of the strategy
    MaxConsecutive529, \* max_consecutive_529
    HasFallback,       \* is a fallback_model configured?
    KeepFirst,         \* compact_keep_first
    KeepRecent,        \* compact_keep_recent
    MaxToolIterations, \* AgentConfig.max_tool_iterations
    MaxCalls,          \* bound: tool calls in one LLM response
    Past,              \* stands for the turns before those of Turn
    History            \* bound: transcripts that a turn may find

ASSUME AttemptAssumption  == MaxAttempts \in Nat \ {0} /\ MaxRetries \in Nat
ASSUME StreakAssumption   == MaxConsecutive529 \in Nat \ {0}
ASSUME FallbackAssumption == HasFallback \in BOOLEAN
ASSUME KeepAssumption     == KeepFirst \in Nat /\ KeepRecent \in Nat
ASSUME BoundAssumption    == MaxToolIterations \in Nat /\ MaxCalls \in Nat
ASSUME PastAssumption     == Past \notin Turn

VARIABLES
    pc,        \* where each turn is suspended
    conv,      \* the turn's conversation
    request,   \* its LlmRequest: the messages and max_tokens
    iter,      \* tool_iterations
    attempt,   \* recovery_attempt of handle_llm_error, 0 before an error
    error,     \* the category of current_error
    switch,    \* does the pending RecoveryAction carry switch_model?
    ledger,    \* the strategy's RecoveryState
    service,   \* llm_service.model
    streak,    \* history: overloads in a row that this exchange reported
    disturbed, \* history: turns whose streak another turn's error cut short
    lost       \* history: a turn went away with a switch it was to make

vars == <<pc, conv, request, iter, attempt, error, switch, ledger, service,
          streak, disturbed, lost>>

-----------------------------------------------------------------------------

Phase == {"new", "send", "handle", "backoff", "done", "failed", "gone"}

\* _classify_error, by the branch of handle_llm_error a category takes: "fatal"
\* is authentication, client and unknown errors, "transient" is rate limits,
\* network and server errors.
Category == {"fatal", "context", "truncated", "overloaded", "transient"}

Model  == {"primary", "fallback"}
Tokens == {"config", "escalated"}

\* A message of a request.
Entry == [role : Role, turn : Turn \cup {Past}, iter : Nat, n : Nat]

\* The placeholder that compaction leaves for k messages.
Note(k) == [role |-> "user", turn |-> Past, iter |-> 0, n |-> k]

ASSUME HistoryAssumption == History \subseteq Seq(Entry)

TypeOK ==
    /\ pc \in [Turn -> Phase]
    /\ conv \in [Turn -> Seq(Entry)]
    /\ request \in [Turn -> [msgs : Seq(Entry), tokens : Tokens]]
    /\ iter \in [Turn -> 0..MaxToolIterations]
    /\ attempt \in [Turn -> 0..MaxAttempts]
    /\ error \in [Turn -> Category]
    /\ switch \in [Turn -> BOOLEAN]
    /\ ledger \in [escalated : BOOLEAN, compacted : BOOLEAN,
                   overloads : Nat, model : Model]
    /\ service \in Model
    /\ streak \in [Turn -> Nat]
    /\ disturbed \in SUBSET Turn
    /\ lost \in BOOLEAN

NewRequest(m) == [msgs |-> m, tokens |-> "config"]

Init ==
    /\ pc = [t \in Turn |-> "new"]
    /\ conv = [t \in Turn |-> <<>>]
    /\ request = [t \in Turn |-> NewRequest(<<>>)]
    /\ iter = [t \in Turn |-> 0]
    /\ attempt = [t \in Turn |-> 0]
    /\ error = [t \in Turn |-> "fatal"]
    /\ switch = [t \in Turn |-> FALSE]
    /\ ledger = [escalated |-> FALSE, compacted |-> FALSE,
                 overloads |-> 0, model |-> "primary"]
    /\ service = "primary"
    /\ streak = [t \in Turn |-> 0]
    /\ disturbed = {}
    /\ lost = FALSE

-----------------------------------------------------------------------------

\* Mutant: the recent window is one message longer than the note says.
CompactOverlapping(m) ==
    IF Len(m) <= KeepFirst + KeepRecent THEN m
    ELSE SubSeq(m, 1, KeepFirst)
         \o <<Note(Len(m) - KeepFirst - KeepRecent)>>
         \o SubSeq(m, Len(m) - KeepRecent, Len(m))

\* _reactive_compact: the first and the most recent messages, and a note for
\* those in between.
Compact(m) ==
    IF Len(m) <= KeepFirst + KeepRecent THEN m
    ELSE SubSeq(m, 1, KeepFirst)
         \o <<Note(Len(m) - KeepFirst - KeepRecent)>>
         \o SubSeq(m, Len(m) - KeepRecent + 1, Len(m))

Go(t, phase) == pc' = [pc EXCEPT ![t] = phase]

\* A new exchange with the LLM about the messages m.
StartExchange(t, m) ==
    /\ request' = [request EXCEPT ![t] = NewRequest(m)]
    /\ attempt' = [attempt EXCEPT ![t] = 0]
    /\ streak' = [streak EXCEPT ![t] = 0]
    /\ disturbed' = disturbed \ {t}
    /\ Go(t, "send")

\* The turn ends, and its local variables are gone.
Finish(t, phase) ==
    /\ conv' = [conv EXCEPT ![t] = <<>>]
    /\ request' = [request EXCEPT ![t] = NewRequest(<<>>)]
    /\ iter' = [iter EXCEPT ![t] = 0]
    /\ attempt' = [attempt EXCEPT ![t] = 0]
    /\ error' = [error EXCEPT ![t] = "fatal"]
    /\ switch' = [switch EXCEPT ![t] = FALSE]
    /\ Go(t, phase)

-----------------------------------------------------------------------------
(* The turn loop and the LLM.                                              *)

Begin(t, h) ==
    /\ pc[t] = "new"
    /\ conv' = [conv EXCEPT ![t] = Append(h, UserMsg(t))]
    /\ StartExchange(t, Append(h, UserMsg(t)))
    /\ UNCHANGED <<iter, error, switch, ledger, service, lost>>

Answers(t) ==
    /\ pc[t] = "send"
    /\ Finish(t, "done")
    /\ UNCHANGED <<ledger, service, streak, disturbed, lost>>

\* The calls and their results join the conversation; below the limit the next
\* request is built from it, with the configured max_tokens.
CallsTools(t, n) ==
    LET m == conv[t] \o <<CallsMsg(t, iter[t] + 1, n)>> \o ToolMsgs(t, iter[t] + 1, n)
    IN  /\ pc[t] = "send"
        /\ IF iter[t] + 1 < MaxToolIterations
           THEN /\ StartExchange(t, m)
                /\ conv' = [conv EXCEPT ![t] = m]
                /\ iter' = [iter EXCEPT ![t] = @ + 1]
                /\ UNCHANGED <<error, switch>>
           ELSE Finish(t, "done") /\ UNCHANGED <<streak, disturbed>>
        /\ UNCHANGED <<ledger, service, lost>>

\* Mutant: every error begins a recovery of its own.
LlmFailsAfresh(t, e) ==
    /\ pc[t] = "send"
    /\ attempt' = [attempt EXCEPT ![t] = 1]
    /\ error' = [error EXCEPT ![t] = e]
    /\ Go(t, "handle")
    /\ UNCHANGED <<conv, request, iter, switch, ledger, service, streak,
                   disturbed, lost>>

\* send_request raises: the next attempt asks the strategy, if there is one
\* left; otherwise the error ends the turn.
LlmFails(t, e) ==
    /\ pc[t] = "send"
    /\ IF attempt[t] < MaxAttempts
       THEN /\ attempt' = [attempt EXCEPT ![t] = @ + 1]
            /\ error' = [error EXCEPT ![t] = e]
            /\ Go(t, "handle")
            /\ UNCHANGED <<conv, request, iter, switch>>
       ELSE Finish(t, "failed")
    /\ UNCHANGED <<ledger, service, streak, disturbed, lost>>

-----------------------------------------------------------------------------
(* DefaultErrorRecoveryStrategy.handle_llm_error, and what the agent does  *)
(* with the action it returns.                                             *)

\* FAIL: not an error that a retry could cure.
GivesUp(t) ==
    /\ pc[t] = "handle"
    /\ \/ error[t] = "fatal"
       \/ error[t] = "context" /\ ledger.compacted
       \/ error[t] = "truncated" /\ ledger.escalated
    /\ Finish(t, "failed")
    /\ UNCHANGED <<ledger, service, streak, disturbed, lost>>

\* Mutant: the compaction is not recorded in the ledger.
CompactsContextUnrecorded(t) ==
    /\ pc[t] = "handle"
    /\ error[t] = "context"
    /\ request' = [request EXCEPT ![t].msgs = Compact(@)]
    /\ Go(t, "send")
    /\ UNCHANGED <<conv, iter, attempt, error, switch, ledger, service, streak,
                   disturbed, lost>>

CompactsContext(t) ==
    /\ pc[t] = "handle"
    /\ error[t] = "context"
    /\ ~ledger.compacted
    /\ ledger' = [ledger EXCEPT !.compacted = TRUE]
    /\ request' = [request EXCEPT ![t].msgs = Compact(@)]
    /\ Go(t, "send")
    /\ UNCHANGED <<conv, iter, attempt, error, switch, service, streak,
                   disturbed, lost>>

EscalatesTokens(t) ==
    /\ pc[t] = "handle"
    /\ error[t] = "truncated"
    /\ ~ledger.escalated
    /\ ledger' = [ledger EXCEPT !.escalated = TRUE]
    /\ request' = [request EXCEPT ![t].tokens = "escalated"]
    /\ Go(t, "send")
    /\ UNCHANGED <<conv, iter, attempt, error, switch, service, streak,
                   disturbed, lost>>

\* _handle_transient: is this the 529 that calls for the fallback model?
TimeToSwitch ==
    /\ ledger.overloads + 1 >= MaxConsecutive529
    /\ HasFallback
    /\ ledger.model # "fallback"

RetryOrFail(t) ==
    IF attempt[t] >= MaxRetries
    THEN Finish(t, "failed")
    ELSE /\ Go(t, "backoff")
         /\ UNCHANGED <<conv, request, iter, attempt, error, switch>>

\* Mutant: the retry budget is looked at before the switch.
BacksOffOverloadedBudgetFirst(t) ==
    /\ pc[t] = "handle"
    /\ error[t] = "overloaded"
    /\ streak' = [streak EXCEPT ![t] = @ + 1]
    /\ IF TimeToSwitch /\ attempt[t] < MaxRetries
       THEN /\ ledger' = [ledger EXCEPT !.model = "fallback", !.overloads = 0]
            /\ switch' = [switch EXCEPT ![t] = TRUE]
            /\ Go(t, "backoff")
            /\ UNCHANGED <<conv, request, iter, attempt, error>>
       ELSE /\ ledger' = [ledger EXCEPT !.overloads = @ + 1]
            /\ RetryOrFail(t)
    /\ UNCHANGED <<service, disturbed, lost>>

BacksOffOverloaded(t) ==
    /\ pc[t] = "handle"
    /\ error[t] = "overloaded"
    /\ streak' = [streak EXCEPT ![t] = @ + 1]
    /\ IF TimeToSwitch
       THEN /\ ledger' = [ledger EXCEPT !.model = "fallback", !.overloads = 0]
            /\ switch' = [switch EXCEPT ![t] = TRUE]
            /\ Go(t, "backoff")
            /\ UNCHANGED <<conv, request, iter, attempt, error>>
       ELSE /\ ledger' = [ledger EXCEPT !.overloads = @ + 1]
            /\ RetryOrFail(t)
    /\ UNCHANGED <<service, disturbed, lost>>

BacksOffTransient(t) ==
    /\ pc[t] = "handle"
    /\ error[t] = "transient"
    /\ ledger' = [ledger EXCEPT !.overloads = 0]
    /\ streak' = [streak EXCEPT ![t] = 0]
    /\ disturbed' = disturbed \cup {s \in Turn \ {t} : streak[s] > 0}
    /\ RetryOrFail(t)
    /\ UNCHANGED <<service, lost>>

\* Mutant: the action's switch_model is ignored.
WakesUpAsBefore(t) ==
    /\ pc[t] = "backoff"
    /\ switch' = [switch EXCEPT ![t] = FALSE]
    /\ Go(t, "send")
    /\ UNCHANGED <<conv, request, iter, attempt, error, ledger, service, streak,
                   disturbed, lost>>

\* asyncio.sleep is over: _switch_llm_model if the action says so, and resend.
WakesUp(t) ==
    /\ pc[t] = "backoff"
    /\ service' = IF switch[t] THEN "fallback" ELSE service
    /\ switch' = [switch EXCEPT ![t] = FALSE]
    /\ Go(t, "send")
    /\ UNCHANGED <<conv, request, iter, attempt, error, ledger, streak,
                   disturbed, lost>>

\* The client goes away while the turn waits: CancelledError, in the sleep too,
\* is no Exception and ends the turn.
Disconnects(t) ==
    /\ pc[t] \in {"send", "backoff"}
    /\ lost' = (lost \/ switch[t])
    /\ Finish(t, "gone")
    /\ UNCHANGED <<ledger, service, streak, disturbed>>

-----------------------------------------------------------------------------

Handle(t) ==
    \/ GivesUp(t)
    \/ CompactsContext(t)
    \/ EscalatesTokens(t)
    \/ BacksOffOverloaded(t)
    \/ BacksOffTransient(t)
    \/ WakesUp(t)

Llm(t) ==
    \/ Answers(t)
    \/ \E n \in 1..MaxCalls : CallsTools(t, n)
    \/ \E e \in Category : LlmFails(t, e)

Next ==
    \E t \in Turn :
        \/ \E h \in History : Begin(t, h)
        \/ Llm(t)
        \/ Handle(t)
        \/ Disconnects(t)

Spec == Init /\ [][Next]_vars

\* The event loop runs the handlers and ends the sleeps, and the LLM answers
\* or fails: its client has a timeout.
FairSpec == Spec /\ \A t \in Turn : WF_vars(Llm(t) \/ Handle(t))

-----------------------------------------------------------------------------
(* Properties.                                                             *)

\* Whatever recovery does to a request, the LLM is shown the conversation as
\* it is or compacted once: notes never stand for notes (base.py:363-367).
RequestShowsConversation ==
    \A t \in Turn : request[t].msgs \in {conv[t], Compact(conv[t])}

\* The edge of a window separates calls from their answers: compaction counts
\* messages and does not look at what they are.
CutsBlock(m) ==
    /\ Len(m) > KeepFirst + KeepRecent
    /\ \/ m[KeepFirst + 1].role = "tool"
       \/ KeepRecent > 0 /\ m[Len(m) - KeepRecent + 1].role = "tool"

\* What the "structural placeholder" costs (base.py:618-640): of a legal
\* conversation the LLM is shown a legal request, except when it is compacted
\* with an edge of a window between an assistant message and one of its answers;
\* then the request breaks the API's order for certain, wherever else the same
\* calls may stand.
LegalUnlessCut ==
    \A t \in Turn : WellFormed(conv[t]) =>
        (WellFormed(request[t].msgs) <=>
            (request[t].msgs = conv[t] \/ ~CutsBlock(conv[t])))

\* Ledger and service agree on the model, except while the turn that is to
\* make the switch backs off, and after that turn was cancelled in its sleep
\* (base.py:536, agent.py:1584-1591).
SwitchIsMadePendingOrLost ==
    /\ service = "fallback" => ledger.model = "fallback"
    /\ ledger.model = "fallback" =>
        \/ service = "fallback"
        \/ \E t \in Turn : switch[t]
        \/ lost

\* An exchange that has reported as many overloads in a row as the threshold
\* asks for does not end on the overloaded model: the switch to the fallback
\* comes before the retry budget is looked at, whatever other turns report,
\* unless one of them cut the streak short or took the switch away with it
\* (base.py:530-576).
FallbackBeforeGivingUp ==
    \A t \in Turn :
        (/\ HasFallback
         /\ pc[t] = "failed"
         /\ streak[t] >= MaxConsecutive529)
        => \/ service = "fallback"
           \/ \E s \in Turn : switch[s]
           \/ lost
           \/ t \in disturbed

\* However the LLM fails, every turn that waits for it gets an answer or an
\* error in the end (agent.py:1568-1638).
TurnsEnd ==
    \A t \in Turn : pc[t] = "send" ~> pc[t] \in {"done", "failed", "gone"}

\* An upper bound on the steps a turn has left: an attempt takes three, sending,
\* handling the error and backing off, and every exchange has the same number.
Round == 3 * MaxAttempts + 2

StepsLeft(t) ==
    LET rounds   == Round * (MaxToolIterations - iter[t])
        attempts == 3 * (MaxAttempts - attempt[t])
    IN  CASE pc[t] = "new"     -> rounds + Round
          [] pc[t] = "handle"  -> rounds + attempts + 3
          [] pc[t] = "backoff" -> rounds + attempts + 2
          [] pc[t] = "send"    -> rounds + attempts + 1
          [] OTHER             -> 0

\* Why turns end: whatever the LLM answers and the strategy decides, each step
\* of a turn uses up one of a number that max_recovery_attempts and
\* max_tool_iterations bound, and no other turn's step gives it one back, though
\* ledger and model are shared (agent.py:652, 1568-1638).
StepsRunOut ==
    [][\A t \in Turn :
        \/ UNCHANGED <<pc[t], iter[t], attempt[t]>>
        \/ StepsLeft(t)' \in Nat /\ StepsLeft(t)' < StepsLeft(t)]_vars

\* "A RecoveryState ledger is created per handle_llm_error call and is not
\* shared across calls" (base.py:286-287): so the first truncated output of a
\* turn is answered by raising max_tokens.
LedgerIsPerCall ==
    [][\A t \in Turn :
        (pc[t] = "handle" /\ error[t] = "truncated" /\ attempt[t] = 1)
        => pc'[t] # "failed"]_vars

\* "Cheap, deterministic, and guaranteed to shrink the context" (base.py:614-615),
\* when the messages do not fit in the keep windows.
CompactionShrinks ==
    [][\A t \in Turn :
        (/\ ~ledger.compacted /\ ledger'.compacted
         /\ pc[t] = "handle" /\ pc'[t] = "send"
         /\ Len(request[t].msgs) > KeepFirst + KeepRecent)
        => Len(request'[t].msgs) < Len(request[t].msgs)]_vars
=============================================================================
