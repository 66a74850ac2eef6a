------------------------------ MODULE Messages ------------------------------
(***************************************************************************)
(* The messages of a Conversation (core/storage/models.py) as far as the   *)
(* agent's turn loop tells them apart: who wrote a message, in which       *)
(* iteration of the tool loop, and which call of that iteration a tool     *)
(* message answers.  Text, timestamps and metadata are left out.           *)
(***************************************************************************)
EXTENDS Naturals, Sequences

CONSTANT Turn   \* one element per call of Agent.send_message

Role == {"user", "calls", "tool", "answer"}

\* A message written by turn "turn".  For role "calls" (an assistant message
\* with tool_calls) n is how many calls it carries; for role "tool" n is the
\* position of the answered call, so <<turn, iter, n>> is the tool_call_id.
Message == [role : Role, turn : Turn, iter : Nat, n : Nat]

UserMsg(t)        == [role |-> "user",   turn |-> t, iter |-> 0, n |-> 0]
AnswerMsg(t)      == [role |-> "answer", turn |-> t, iter |-> 0, n |-> 0]
CallsMsg(t, i, n) == [role |-> "calls",  turn |-> t, iter |-> i, n |-> n]
ToolMsg(t, i, k)  == [role |-> "tool",   turn |-> t, iter |-> i, n |-> k]

\* Mutant: the results in the order in which they are popped off a stack.
ToolMsgsReversed(t, i, n) == [k \in 1..n |-> ToolMsg(t, i, n + 1 - k)]

ToolMsgs(t, i, n) == [k \in 1..n |-> ToolMsg(t, i, k)]

-----------------------------------------------------------------------------

\* Message i of m has what it needs after it: an assistant message with tool
\* calls is directly followed by the answers to all of them, in order.
Answered(m, i) ==
    m[i].role = "calls" =>
        \A k \in 1..m[i].n :
            /\ i + k \in DOMAIN m
            /\ m[i + k] = ToolMsg(m[i].turn, m[i].iter, k)

\* Message i of m has what it needs before it: a tool message stands in the
\* block of answers that its own assistant message opens.
Called(m, i) ==
    m[i].role = "tool" =>
        /\ i - m[i].n \in DOMAIN m
        /\ m[i - m[i].n].role = "calls"
        /\ m[i - m[i].n].turn = m[i].turn
        /\ m[i - m[i].n].iter = m[i].iter
        /\ m[i].n <= m[i - m[i].n].n

\* The order the chat-completions API asks of a request: "tool messages must
\* follow assistant messages with tool_calls" (agent.py:671).
WellFormed(m) == \A i \in DOMAIN m : Answered(m, i) /\ Called(m, i)

\* m with the answers of its last message still missing.
Open(m) ==
    /\ m # <<>>
    /\ m[Len(m)].role = "calls"
    /\ \A i \in DOMAIN m : (i < Len(m) => Answered(m, i)) /\ Called(m, i)

Has(m, x) == \E i \in DOMAIN m : m[i] = x

HasCalls(m, t, i) ==
    \E j \in DOMAIN m : m[j].role = "calls" /\ m[j].turn = t /\ m[j].iter = i
=============================================================================
