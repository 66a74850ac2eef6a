-------------------------- MODULE AgentTurnProofs --------------------------
(***************************************************************************)
(* Theorems about AgentTurn, for every number of turns and conversations,  *)
(* every bound and every setting: types for both stores; for the file      *)
(* store, legal transcripts and the refinement of the conversation log.    *)
(***************************************************************************)
EXTENDS AgentTurn, TLAPS

\* The LLM is only asked while the loop's test holds.
LoopInv == \A t \in Turn : pc[t] = "llm" => iter[t] < MaxToolIterations

TypeInv == TypeOK /\ LoopInv

LEMMA MessageTypes ==
    ASSUME NEW t \in Turn, NEW i \in Nat, NEW n \in Nat
    PROVE  /\ UserMsg(t) \in Message
           /\ AnswerMsg(t) \in Message
           /\ CallsMsg(t, i, n) \in Message
           /\ ToolMsgs(t, i, n) \in Seq(Message)
BY DEF UserMsg, AnswerMsg, CallsMsg, ToolMsgs, ToolMsg, Message, Role

LEMMA LoadTypes ==
    ASSUME TypeOK, NEW t \in Turn, Load(t)
    PROVE  /\ ref' \in [Turn -> Turn]
           /\ obj' \in [Turn -> Seq(Message)]
           /\ isNew' \in [Turn -> BOOLEAN]
<1>1. /\ ConvOf[t] \in Conv
      /\ Exists(ConvOf[t]) \in BOOLEAN
      /\ disk[ConvOf[t]].msgs \in Seq(Message)
  BY ConvOfAssumption DEF TypeOK, Exists
<1>2. StoreKind = "memory" /\ Exists(ConvOf[t]) => memory[ConvOf[t]] \in Turn
  BY <1>1 DEF TypeOK, Exists
<1> QED
  BY <1>1, <1>2 DEF TypeOK, Load

LEMMA PersistTypes ==
    ASSUME TypeOK, NEW t \in Turn, NEW m \in Seq(Message), Persist(t, m)
    PROVE  /\ memory' \in [Conv -> Turn \cup {NoTurn}]
           /\ disk' \in [Conv -> [status : FileStatus, msgs : Seq(Message)]]
BY ConvOfAssumption, StoreAssumption DEF TypeOK, Persist, FileStatus

LEMMA AddTypes ==
    ASSUME TypeOK, NEW t \in Turn, NEW ms \in Seq(Message), AddMessages(t, ms)
    PROVE  obj' \in [Turn -> Seq(Message)]
BY DEF TypeOK, AddMessages

LEMMA MeetTypes ==
    ASSUME TypeOK, NEW t \in Turn, Meet(t)
    PROVE  excused' \in SUBSET Turn
BY DEF TypeOK, Meet, Rivals

LEMMA TypeInit == Init => TypeInv
BY ConvOfAssumption, LimitAssumption
DEF Init, TypeInv, TypeOK, LoopInv, Phase, Ended, UiStatus, FileStatus, Absent

LEMMA TypeStep == TypeInv /\ [Next]_vars => TypeInv'
<1> SUFFICES ASSUME TypeInv, [Next]_vars PROVE TypeInv'
  OBVIOUS
<1> USE LimitAssumption, ConvOfAssumption, SaveAssumption DEF TypeInv, TypeOK, LoopInv, Phase, Ended, UiStatus, Go, Show
<1>1. ASSUME NEW t \in Turn, LoadStarter(t) PROVE TypeInv'
  BY <1>1, LoadTypes, MeetTypes DEF LoadStarter
<1>2. ASSUME NEW t \in Turn, SaveStarter(t) PROVE TypeInv'
  BY <1>2, PersistTypes DEF SaveStarter
<1>3. ASSUME NEW t \in Turn, StarterFails(t) PROVE TypeInv'
  BY <1>3 DEF StarterFails
<1>4. ASSUME NEW t \in Turn, LoadConversation(t) PROVE TypeInv'
  BY <1>4, LoadTypes, MeetTypes DEF LoadConversation
<1>5. ASSUME NEW t \in Turn, WorkflowHandles(t) PROVE TypeInv'
  <2>1. obj[ref[t]] \in Seq(Message)
    OBVIOUS
  <2>2. /\ memory' \in [Conv -> Turn \cup {NoTurn}]
        /\ disk' \in [Conv -> [status : FileStatus, msgs : Seq(Message)]]
    BY <1>5, <2>1, PersistTypes DEF WorkflowHandles
  <2> QED
    BY <1>5, <2>2 DEF WorkflowHandles
<1>6. ASSUME NEW t \in Turn, WorkflowPasses(t) PROVE TypeInv'
  BY <1>6 DEF WorkflowPasses
<1>7. ASSUME NEW t \in Turn, AddUserMessage(t) PROVE TypeInv'
  <2>1. <<UserMsg(t)>> \in Seq(Message) /\ Append(obj[ref[t]], UserMsg(t)) \in Seq(Message)
    BY MessageTypes
  <2>2. obj' \in [Turn -> Seq(Message)]
    BY <1>7, <2>1, AddTypes DEF AddUserMessage
  <2>3. /\ memory' \in [Conv -> Turn \cup {NoTurn}]
        /\ disk' \in [Conv -> [status : FileStatus, msgs : Seq(Message)]]
    BY <1>7, <2>1, PersistTypes DEF AddUserMessage
  <2> QED
    BY <1>7, <2>2, <2>3 DEF AddUserMessage
<1>8. ASSUME NEW t \in Turn, BuildRequest(t) PROVE TypeInv'
  BY <1>8 DEF BuildRequest
<1>9. ASSUME NEW t \in Turn, NEW n \in 1..MaxCalls, LlmCallsTools(t, n) PROVE TypeInv'
  <2> DEFINE m == CallsMsg(t, iter[t] + 1, n)
  <2>0. iter[t] + 1 \in Nat /\ n \in Nat
    OBVIOUS
  <2>3. m \in Message
    BY <2>0, MessageTypes
  <2> HIDE DEF m
  <2>1. <<m>> \in Seq(Message)
    BY <2>3
  <2>2. obj' \in [Turn -> Seq(Message)]
    BY <1>9, <2>1, AddTypes DEF LlmCallsTools, m
  <2>4. /\ iter' \in [Turn -> 0..MaxToolIterations]
        /\ calls' \in [Turn -> 0..MaxCalls]
    BY <1>9 DEF LlmCallsTools
  <2>5. LoopInv'
    BY <1>9 DEF LlmCallsTools
  <2>6. TypeOK'
    BY <1>9, <2>2, <2>4 DEF LlmCallsTools
  <2> QED
    BY <2>5, <2>6
<1>10. ASSUME NEW t \in Turn, AddToolResults(t) PROVE TypeInv'
  <2>1. ToolMsgs(t, iter[t], calls[t]) \in Seq(Message)
    BY MessageTypes
  <2>2. obj' \in [Turn -> Seq(Message)]
    BY <1>10, <2>1, AddTypes DEF AddToolResults
  <2> QED
    BY <1>10, <2>2 DEF AddToolResults
<1>11. ASSUME NEW t \in Turn, LlmAnswers(t) PROVE TypeInv'
  BY <1>11 DEF LlmAnswers
<1>12. ASSUME NEW t \in Turn, AddAnswer(t) PROVE TypeInv'
  <2>1. <<AnswerMsg(t)>> \in Seq(Message)
    BY MessageTypes
  <2>2. obj' \in [Turn -> Seq(Message)]
    BY <1>12, <2>1, AddTypes DEF AddAnswer
  <2> QED
    BY <1>12, <2>2 DEF AddAnswer
<1>13. ASSUME NEW t \in Turn, SaveConversation(t) PROVE TypeInv'
  BY <1>13, PersistTypes DEF SaveConversation
<1>14. ASSUME NEW t \in Turn, AfterMessageHooks(t) PROVE TypeInv'
  BY <1>14 DEF AfterMessageHooks
<1>15. ASSUME NEW t \in Turn, Raises(t) PROVE TypeInv'
  BY <1>15 DEF Raises
<1>16. ASSUME NEW t \in Turn, Disconnects(t) PROVE TypeInv'
  BY <1>16 DEF Disconnects
<1>17. ASSUME NEW t \in Turn, WriteBreaks(t) PROVE TypeInv'
  <2>1. <<UserMsg(t)>> \in Seq(Message)
    BY MessageTypes
  <2>2. obj' \in [Turn -> Seq(Message)]
    BY <1>17, <2>1, AddTypes DEF WriteBreaks
  <2>3. disk' \in [Conv -> [status : FileStatus, msgs : Seq(Message)]]
    BY <1>17 DEF WriteBreaks, Torn, FileStatus
  <2> QED
    BY <1>17, <2>2, <2>3 DEF WriteBreaks, SavedIn
<1>18. ASSUME NEW c \in Conv, DeleteConversation(c) PROVE TypeInv'
  BY <1>18 DEF DeleteConversation, Absent, FileStatus, SavedIn
<1>19. CASE Crash
  BY <1>19 DEF Crash
<1>20. CASE UNCHANGED vars
  BY <1>20 DEF vars
<1> QED
  BY <1>1, <1>2, <1>3, <1>4, <1>5, <1>6, <1>7, <1>8, <1>9, <1>10, <1>11,
     <1>12, <1>13, <1>14, <1>15, <1>16, <1>17, <1>18, <1>19, <1>20
  DEF Next, Step, Trouble

\* Every variable keeps its type; in particular no turn goes through the tool
\* loop more often than max_tool_iterations (agent.py:652).
THEOREM TypeCorrect == Spec => []TypeOK
<1>1. TypeInv => TypeOK
  BY DEF TypeInv
<1> QED
  BY TypeInit, TypeStep, <1>1, PTL DEF Spec

-----------------------------------------------------------------------------
(* Transcripts.                                                            *)

\* Appending at the end takes nothing away from the messages before it.
LEMMA KeepsBefore ==
    ASSUME NEW m \in Seq(Message), NEW s \in Seq(Message), NEW i \in DOMAIN m
    PROVE  /\ i \in DOMAIN (m \o s)
           /\ (m \o s)[i] = m[i]
           /\ Answered(m, i) => Answered(m \o s, i)
           /\ Called(m, i) => Called(m \o s, i)
<1>1. \A j \in DOMAIN m : j \in DOMAIN (m \o s) /\ (m \o s)[j] = m[j]
  OBVIOUS
<1>2. Answered(m, i) => Answered(m \o s, i)
  BY <1>1 DEF Answered
<1>3. Called(m, i) => Called(m \o s, i)
  BY <1>1 DEF Called
<1> QED
  BY <1>1, <1>2, <1>3

\* One more message, at the end.
LEMMA LastMessage ==
    ASSUME NEW m \in Seq(Message), NEW x \in Message
    PROVE  /\ m \o <<x>> \in Seq(Message)
           /\ m \o <<x>> = Append(m, x)
           /\ Len(m \o <<x>>) = Len(m) + 1
           /\ (m \o <<x>>)[Len(m) + 1] = x
           /\ DOMAIN (m \o <<x>>) = DOMAIN m \cup {Len(m) + 1}
  OBVIOUS

\* A user's message or an answer keeps a transcript legal.
LEMMA PlainMessage ==
    ASSUME NEW m \in Seq(Message), WellFormed(m),
           NEW x \in Message, x.role \in {"user", "answer"}
    PROVE  WellFormed(m \o <<x>>)
<1> DEFINE p == m \o <<x>>
<1>1. ASSUME NEW i \in DOMAIN m PROVE Answered(p, i) /\ Called(p, i)
  <2>1. Answered(m, i) /\ Called(m, i)
    BY DEF WellFormed
  <2>2. <<x>> \in Seq(Message)
    OBVIOUS
  <2> QED
    BY <2>1, <2>2, KeepsBefore
<1>2. Answered(p, Len(m) + 1) /\ Called(p, Len(m) + 1)
  BY LastMessage DEF Answered, Called
<1> QED
  BY <1>1, <1>2, LastMessage DEF WellFormed

\* An assistant message with tool calls opens a block ...
LEMMA OpenBlock ==
    ASSUME NEW m \in Seq(Message), WellFormed(m),
           NEW t \in Turn, NEW i \in Nat, NEW n \in Nat
    PROVE  Open(m \o <<CallsMsg(t, i, n)>>)
<1> DEFINE x == CallsMsg(t, i, n)
           p == m \o <<x>>
<1>0. x \in Message /\ x.role = "calls"
  BY MessageTypes DEF CallsMsg
<1> HIDE DEF x
<1>1. ASSUME NEW j \in DOMAIN m PROVE Answered(p, j) /\ Called(p, j)
  <2>1. Answered(m, j) /\ Called(m, j)
    BY DEF WellFormed
  <2>2. <<x>> \in Seq(Message)
    BY <1>0
  <2> QED
    BY <2>1, <2>2, KeepsBefore
<1>2. Called(p, Len(m) + 1)
  BY <1>0, LastMessage DEF Called
<1>3. Open(p)
  BY <1>0, <1>1, <1>2, LastMessage DEF Open
<1> QED
  BY <1>3 DEF x

\* ... and the answers to all its calls close it.
LEMMA CloseBlock ==
    ASSUME NEW m \in Seq(Message), Open(m),
           NEW t \in Turn, NEW i \in Nat, NEW n \in Nat,
           m[Len(m)] = CallsMsg(t, i, n)
    PROVE  WellFormed(m \o ToolMsgs(t, i, n))
<1> DEFINE s == ToolMsgs(t, i, n)
           p == m \o s
<1>0. /\ s \in Seq(Message)
      /\ Len(s) = n
      /\ \A k \in 1..n : s[k] = ToolMsg(t, i, k)
  BY MessageTypes DEF ToolMsgs
<1> HIDE DEF s
<1>1. /\ p \in Seq(Message)
      /\ Len(p) = Len(m) + n
      /\ \A k \in 1..n : p[Len(m) + k] = ToolMsg(t, i, k)
  BY <1>0
<1>2. Len(m) \in DOMAIN m /\ p[Len(m)] = CallsMsg(t, i, n)
  BY <1>0, KeepsBefore DEF Open
<1>3. ASSUME NEW j \in DOMAIN m PROVE Called(p, j)
  BY <1>0, KeepsBefore DEF Open
<1>4. ASSUME NEW j \in DOMAIN m, j < Len(m) PROVE Answered(p, j)
  BY <1>0, <1>4, KeepsBefore DEF Open
<1>5. Answered(p, Len(m))
  BY <1>1, <1>2 DEF Answered, CallsMsg
<1>6. ASSUME NEW k \in 1..n PROVE Answered(p, Len(m) + k) /\ Called(p, Len(m) + k)
  <2>1. p[Len(m) + k] = ToolMsg(t, i, k)
    BY <1>1
  <2>2. Len(m) + k - k = Len(m) /\ Len(m) \in DOMAIN p
    BY <1>1, <1>2
  <2> HIDE DEF p
  <2>3. Answered(p, Len(m) + k)
    BY <2>1 DEF Answered, ToolMsg
  <2>4. Called(p, Len(m) + k)
    BY <2>1, <2>2, <1>2 DEF Called, ToolMsg, CallsMsg
  <2> QED
    BY <2>3, <2>4
<1>7. \A j \in DOMAIN p : j \in DOMAIN m \/ \E k \in 1..n : j = Len(m) + k
  <2> TAKE j \in DOMAIN p
  <2>1. j \in 1..(Len(m) + n)
    BY <1>1
  <2>2. CASE j <= Len(m)
    BY <2>1, <2>2
  <2>3. CASE j > Len(m)
    <3>1. j - Len(m) \in 1..n /\ j = Len(m) + (j - Len(m))
      BY <2>1, <2>3
    <3> QED
      BY <3>1
  <2> QED
    BY <2>1, <2>2, <2>3
<1> HIDE DEF p
<1>8. \A j \in DOMAIN m : Answered(p, j)
  <2> TAKE j \in DOMAIN m
  <2>1. CASE j = Len(m)
    BY <1>5, <2>1
  <2>2. CASE j # Len(m)
    BY <1>4, <2>2
  <2> QED
    BY <2>1, <2>2
<1>9. WellFormed(p)
  BY <1>3, <1>6, <1>7, <1>8 DEF WellFormed
<1> QED
  BY <1>9 DEF p, s

-----------------------------------------------------------------------------
(* The file store keeps legal transcripts.                                 *)

\* The phases in which the turn's own copy of the conversation is legal.
Legal == {"new", "starter", "loaded", "unhandled", "build", "llm", "ready",
          "save"}

\* Why no illegal transcript reaches a file: a turn works on a copy of its
\* own, which is illegal only while the turn's tools run, and in that phase
\* nothing is written.
CopyInv ==
    /\ \A t \in Turn : ref[t] = t
    /\ \A t \in Turn : pc[t] \in Legal => WellFormed(obj[t])
    /\ \A t \in Turn : pc[t] = "tools" =>
          /\ Open(obj[t])
          /\ obj[t][Len(obj[t])] = CallsMsg(t, iter[t], calls[t])
    /\ \A c \in Conv : WellFormed(disk[c].msgs)
    /\ \A t \in Turn : WellFormed(request[t])

LEMMA EmptyWellFormed == WellFormed(<<>>)
BY DEF WellFormed

LEMMA CopyInit == Init => CopyInv
<1> SUFFICES ASSUME Init PROVE CopyInv
  OBVIOUS
<1> QED
  BY EmptyWellFormed DEF Init, CopyInv, Legal, Absent

LEMMA PersistLegal ==
    ASSUME StoreKind = "file", TypeOK, NEW t \in Turn,
           NEW m \in Seq(Message), WellFormed(m), Persist(t, m),
           \A c \in Conv : WellFormed(disk[c].msgs)
    PROVE  \A c \in Conv : WellFormed(disk'[c].msgs)
BY ConvOfAssumption DEF TypeOK, Persist

LEMMA CopyStep ==
    ASSUME StoreKind = "file", TypeInv, CopyInv, [Next]_vars
    PROVE  CopyInv'
<1> USE ConvOfAssumption DEF TypeInv, TypeOK, CopyInv, Legal, Go
<1>1. ASSUME NEW t \in Turn, LoadStarter(t) PROVE CopyInv'
  BY <1>1, EmptyWellFormed DEF LoadStarter, Load
<1>2. ASSUME NEW t \in Turn, SaveStarter(t) PROVE CopyInv'
  <2>1. obj[ref[t]] \in Seq(Message) /\ WellFormed(obj[ref[t]])
    BY <1>2 DEF SaveStarter
  <2>2. \A c \in Conv : WellFormed(disk'[c].msgs)
    BY <1>2, <2>1, PersistLegal DEF SaveStarter
  <2> QED
    BY <1>2, <2>2 DEF SaveStarter
<1>3. ASSUME NEW t \in Turn, StarterFails(t) PROVE CopyInv'
  BY <1>3 DEF StarterFails
<1>4. ASSUME NEW t \in Turn, LoadConversation(t) PROVE CopyInv'
  BY <1>4, EmptyWellFormed DEF LoadConversation, Load
<1>5. ASSUME NEW t \in Turn, WorkflowHandles(t) PROVE CopyInv'
  <2>1. obj[ref[t]] \in Seq(Message) /\ WellFormed(obj[ref[t]])
    BY <1>5 DEF WorkflowHandles
  <2>2. \A c \in Conv : WellFormed(disk'[c].msgs)
    BY <1>5, <2>1, PersistLegal DEF WorkflowHandles
  <2> QED
    BY <1>5, <2>2 DEF WorkflowHandles
<1>6. ASSUME NEW t \in Turn, WorkflowPasses(t) PROVE CopyInv'
  BY <1>6 DEF WorkflowPasses
<1>7. ASSUME NEW t \in Turn, AddUserMessage(t) PROVE CopyInv'
  <2>1. UserMsg(t) \in Message /\ UserMsg(t).role = "user"
    BY MessageTypes DEF UserMsg
  <2>2. WellFormed(obj[t])
    BY <1>7 DEF AddUserMessage
  <2>3. /\ WellFormed(obj[t] \o <<UserMsg(t)>>)
        /\ obj[t] \o <<UserMsg(t)>> = Append(obj[t], UserMsg(t))
    BY <2>1, <2>2, PlainMessage, LastMessage
  <2>4. obj' = [obj EXCEPT ![t] = obj[t] \o <<UserMsg(t)>>]
    BY <1>7 DEF AddUserMessage, AddMessages
  <2> DEFINE m == Append(obj[ref[t]], UserMsg(t))
  <2>5. m \in Seq(Message) /\ WellFormed(m)
    <3>1. m = obj[t] \o <<UserMsg(t)>>
      BY <2>3
    <3>2. m \in Seq(Message)
      BY <2>1
    <3> QED
      BY <2>3, <3>1, <3>2
  <2>9. Persist(t, m) \/ UNCHANGED disk
    BY <1>7 DEF AddUserMessage
  <2> HIDE DEF m
  <2>6. \A c \in Conv : WellFormed(disk'[c].msgs)
    <3>1. CASE Persist(t, m)
      BY <2>5, <3>1, PersistLegal
    <3>2. CASE UNCHANGED disk
      BY <3>2
    <3> QED
      BY <2>9, <3>1, <3>2
  <2>7. /\ WellFormed(obj'[t])
        /\ \A s \in Turn \ {t} : obj'[s] = obj[s]
    BY <2>3, <2>4
  <2>8. /\ \A s \in Turn : pc'[s] = IF s = t THEN "build" ELSE pc[s]
        /\ UNCHANGED <<ref, iter, calls, request>>
    BY <1>7 DEF AddUserMessage
  <2> QED
    BY <2>6, <2>7, <2>8
<1>8. ASSUME NEW t \in Turn, BuildRequest(t) PROVE CopyInv'
  BY <1>8 DEF BuildRequest
<1>9. ASSUME NEW t \in Turn, NEW n \in 1..MaxCalls, LlmCallsTools(t, n) PROVE CopyInv'
  <2> DEFINE x == CallsMsg(t, iter[t] + 1, n)
  <2>1. iter[t] + 1 \in Nat /\ n \in Nat
    BY LimitAssumption
  <2>2. x \in Message
    BY <2>1, MessageTypes
  <2>3. WellFormed(obj[t])
    BY <1>9 DEF LlmCallsTools
  <2>4. Open(obj[t] \o <<x>>)
    BY <2>1, <2>3, OpenBlock
  <2> HIDE DEF x
  <2>5. /\ Len(obj[t] \o <<x>>) = Len(obj[t]) + 1
        /\ (obj[t] \o <<x>>)[Len(obj[t]) + 1] = x
    BY <2>2, LastMessage
  <2>6. obj' = [obj EXCEPT ![t] = obj[t] \o <<x>>]
    BY <1>9 DEF LlmCallsTools, AddMessages, x
  <2>7. iter'[t] = iter[t] + 1 /\ calls'[t] = n /\ pc'[t] = "tools"
    BY <1>9 DEF LlmCallsTools
  <2>8. obj'[t][Len(obj'[t])] = CallsMsg(t, iter'[t], calls'[t])
    BY <2>5, <2>6, <2>7 DEF x
  <2> QED
    BY <1>9, <2>4, <2>6, <2>7, <2>8 DEF LlmCallsTools
<1>10. ASSUME NEW t \in Turn, AddToolResults(t) PROVE CopyInv'
  <2>1. iter[t] \in Nat /\ calls[t] \in Nat
    BY LimitAssumption
  <2>2. /\ Open(obj[t])
        /\ obj[t][Len(obj[t])] = CallsMsg(t, iter[t], calls[t])
    BY <1>10 DEF AddToolResults
  <2>3. WellFormed(obj[t] \o ToolMsgs(t, iter[t], calls[t]))
    BY <2>1, <2>2, CloseBlock
  <2> QED
    BY <1>10, <2>3 DEF AddToolResults, AddMessages
<1>11. ASSUME NEW t \in Turn, LlmAnswers(t) PROVE CopyInv'
  BY <1>11 DEF LlmAnswers
<1>12. ASSUME NEW t \in Turn, AddAnswer(t) PROVE CopyInv'
  <2>1. AnswerMsg(t) \in Message /\ AnswerMsg(t).role = "answer"
    BY MessageTypes DEF AnswerMsg
  <2>2. WellFormed(obj[t])
    BY <1>12 DEF AddAnswer
  <2>3. WellFormed(obj[t] \o <<AnswerMsg(t)>>)
    BY <2>1, <2>2, PlainMessage
  <2> QED
    BY <1>12, <2>3 DEF AddAnswer, AddMessages
<1>13. ASSUME NEW t \in Turn, SaveConversation(t) PROVE CopyInv'
  <2>1. obj[ref[t]] \in Seq(Message) /\ WellFormed(obj[ref[t]])
    BY <1>13 DEF SaveConversation
  <2>2. \A c \in Conv : WellFormed(disk'[c].msgs)
    BY <1>13, <2>1, PersistLegal DEF SaveConversation
  <2> QED
    BY <1>13, <2>2 DEF SaveConversation
<1>14. ASSUME NEW t \in Turn, AfterMessageHooks(t) PROVE CopyInv'
  BY <1>14 DEF AfterMessageHooks
<1>15. ASSUME NEW t \in Turn, Raises(t) PROVE CopyInv'
  BY <1>15 DEF Raises
<1>16. ASSUME NEW t \in Turn, Disconnects(t) PROVE CopyInv'
  BY <1>16 DEF Disconnects
<1>17. ASSUME NEW t \in Turn, WriteBreaks(t) PROVE CopyInv'
  <2>1. UserMsg(t) \in Message /\ UserMsg(t).role = "user"
    BY MessageTypes DEF UserMsg
  <2>2. pc[t] = "unhandled" => WellFormed(obj[t] \o <<UserMsg(t)>>)
    BY <2>1, PlainMessage
  <2>3. WellFormed(Torn.msgs)
    BY EmptyWellFormed DEF Torn
  <2> QED
    BY <1>17, <2>2, <2>3 DEF WriteBreaks, AddMessages
<1>18. ASSUME NEW c \in Conv, DeleteConversation(c) PROVE CopyInv'
  <2>1. WellFormed(Absent.msgs)
    BY EmptyWellFormed DEF Absent
  <2> QED
    BY <1>18, <2>1 DEF DeleteConversation
<1>19. CASE Crash
  BY <1>19 DEF Crash
<1>20. CASE UNCHANGED vars
  BY <1>20 DEF vars
<1> QED
  BY <1>1, <1>2, <1>3, <1>4, <1>5, <1>6, <1>7, <1>8, <1>9, <1>10, <1>11,
     <1>12, <1>13, <1>14, <1>15, <1>16, <1>17, <1>18, <1>19, <1>20
  DEF Next, Step, Trouble

\* Whatever turns overlap, raise, disconnect or crash, no conversation file
\* holds a tool call without its answers, and no request built from one does
\* (agent.py:671, file_system_conversation_store.py:37-51).
THEOREM FileStoreWellFormed ==
    ASSUME StoreKind = "file"
    PROVE  Spec => [](StoredWellFormed /\ RequestWellFormed)
<1>1. Init => TypeInv /\ CopyInv
  BY TypeInit, CopyInit
<1>2. (TypeInv /\ CopyInv) /\ [Next]_vars => (TypeInv /\ CopyInv)'
  BY TypeStep, CopyStep
<1>3. TypeInv /\ CopyInv => StoredWellFormed /\ RequestWellFormed
  BY DEF CopyInv, StoredWellFormed, RequestWellFormed, Stored
<1> QED
  BY <1>1, <1>2, <1>3, PTL DEF Spec

\* Nor does any request that is built from one (agent.py:671).
THEOREM FileRequestWellFormed ==
    ASSUME StoreKind = "file"
    PROVE  Spec => []RequestWellFormed
BY FileStoreWellFormed, PTL

-----------------------------------------------------------------------------
(* The file store is a log, for clients that wait for the end.             *)

Begun(t) == pc[t] \notin {"new"} \cup Ended
Early == {"new", "starter", "loaded", "unhandled"}

OfOthers(m, t) == \A i \in DOMAIN m : m[i].turn # t

\* One turn of a conversation at a time.
AloneInv ==
    \A s, t \in Turn : s # t /\ ConvOf[s] = ConvOf[t] => ~(Begun(s) /\ Begun(t))

\* Nobody has seen a message of a turn that has not written one.
UnseenInv ==
    \A t \in Turn : pc[t] \in Early =>
        /\ \A c \in Conv : OfOthers(disk[c].msgs, t)
        /\ \A s \in Turn : OfOthers(obj[s], t)

\* m is old and, after it, messages of t alone; if t has written in old, it
\* was the last to do so.
Continues(m, old, t) ==
    /\ Len(old) <= Len(m)
    /\ \A i \in DOMAIN old : m[i] = old[i]
    /\ \A i \in DOMAIN m : i > Len(old) => m[i].turn = t
    /\ OfOthers(old, t) \/ (old # <<>> /\ old[Len(old)].turn = t)

\* The copy that a turn will write back continues the file, unless the file
\* was erased under it.
BaseOf(t) ==
    LET old == disk[ConvOf[t]].msgs
    IN  /\ Begun(t) /\ pc[t] # "after" /\ old # <<>> => Continues(obj[t], old, t)
        /\ pc[t] \in Early /\ pc[t] # "new" /\ old # <<>> => obj[t] = old
        /\ pc[t] \in Early /\ isNew[t] => obj[t] = <<>>

BaseInv ==
    /\ \A c \in Conv : disk[c].status # "ok" => disk[c].msgs = <<>>
    /\ \A t \in Turn : BaseOf(t)

LogInv == AloneInv /\ UnseenInv /\ BaseInv

\* What one step of a turn leaves as it is: the other turns, and the files of
\* the other conversations.
LeavesOthers(t) ==
    /\ \A s \in Turn \ {t} :
          pc'[s] = pc[s] /\ obj'[s] = obj[s] /\ isNew'[s] = isNew[s]
    /\ \A c \in Conv \ {ConvOf[t]} : disk'[c] = disk[c]

LEMMA ContinuesSelf ==
    ASSUME NEW m \in Seq(Message), NEW t \in Turn,
           OfOthers(m, t) \/ (m # <<>> /\ m[Len(m)].turn = t)
    PROVE  Continues(m, m, t)
BY DEF Continues, OfOthers

LEMMA ContinuesMore ==
    ASSUME NEW m \in Seq(Message), NEW old \in Seq(Message), NEW t \in Turn,
           NEW ms \in Seq(Message), Continues(m, old, t),
           \A i \in DOMAIN ms : ms[i].turn = t
    PROVE  Continues(m \o ms, old, t)
<1>1. /\ m \o ms \in Seq(Message)
      /\ Len(m \o ms) = Len(m) + Len(ms)
      /\ \A i \in DOMAIN m : (m \o ms)[i] = m[i]
      /\ \A i \in DOMAIN (m \o ms) : i > Len(m) =>
            i - Len(m) \in DOMAIN ms /\ (m \o ms)[i] = ms[i - Len(m)]
  OBVIOUS
<1> DEFINE p == m \o ms
<1> HIDE DEF p
<1>2. /\ Len(old) <= Len(p)
      /\ \A i \in DOMAIN old : p[i] = old[i]
  BY <1>1 DEF Continues, p
<1>3. ASSUME NEW i \in DOMAIN p, i > Len(old) PROVE p[i].turn = t
  BY <1>1, <1>3 DEF Continues, p
<1> QED
  BY <1>2, <1>3 DEF Continues, p

LEMMA OthersMore ==
    ASSUME NEW m \in Seq(Message), NEW ms \in Seq(Message),
           NEW s \in Turn, NEW t \in Turn, s # t,
           OfOthers(m, s), \A i \in DOMAIN ms : ms[i].turn = t
    PROVE  OfOthers(m \o ms, s)
<1>1. /\ m \o ms \in Seq(Message)
      /\ \A i \in DOMAIN (m \o ms) :
            \/ i \in DOMAIN m /\ (m \o ms)[i] = m[i]
            \/ i - Len(m) \in DOMAIN ms /\ (m \o ms)[i] = ms[i - Len(m)]
  OBVIOUS
<1> QED
  BY <1>1 DEF OfOthers

LEMMA MessageTurns ==
    ASSUME NEW t \in Turn, NEW i \in Nat, NEW n \in Nat
    PROVE  /\ UserMsg(t).turn = t
           /\ AnswerMsg(t).turn = t
           /\ CallsMsg(t, i, n).turn = t
           /\ \A k \in DOMAIN ToolMsgs(t, i, n) : ToolMsgs(t, i, n)[k].turn = t
BY DEF UserMsg, AnswerMsg, CallsMsg, ToolMsgs, ToolMsg

LEMMA BaseOthers ==
    ASSUME AloneInv, NEW t \in Turn, Begun(t) \/ UNCHANGED disk, LeavesOthers(t),
           NEW s \in Turn, s # t, BaseOf(s)
    PROVE  BaseOf(s)'
<1>1. pc'[s] = pc[s] /\ obj'[s] = obj[s] /\ isNew'[s] = isNew[s]
  BY DEF LeavesOthers
<1>2. ConvOf[s] # ConvOf[t] \/ UNCHANGED disk => disk'[ConvOf[s]] = disk[ConvOf[s]]
  BY ConvOfAssumption DEF LeavesOthers
<1>3. ConvOf[s] = ConvOf[t] /\ Begun(t) => ~Begun(s)
  BY DEF AloneInv
<1> QED
  BY <1>1, <1>2, <1>3 DEF BaseOf, Begun, Early, Ended, Continues, OfOthers

\* A step of a turn that is under way: it goes on to phase p, adds ms to its
\* copy, and leaves the file alone, breaks it, or puts the copy in it.
Works(t, p, ms) ==
    /\ Begun(t)
    /\ pc' = [pc EXCEPT ![t] = p]
    /\ p # "new"
    /\ p \in Early => pc[t] \in Early /\ ms = <<>>
    /\ pc[t] = "after" => p \in Ended
    /\ \A i \in DOMAIN ms : ms[i].turn = t
    /\ obj' = [obj EXCEPT ![t] = obj[t] \o ms]
    /\ isNew' = isNew
    /\ \/ disk' = disk
       \/ disk' = [disk EXCEPT ![ConvOf[t]] = Torn]
       \/ /\ disk' = [disk EXCEPT ![ConvOf[t]] =
                        [status |-> "ok", msgs |-> obj[t] \o ms]]
          /\ pc[t] # "after"
          /\ p \in Ended \cup {"after"} \/ (ms # <<>> /\ p \notin Early)

\* A turn begins and takes its copy.
Opens(t) ==
    /\ pc[t] = "new"
    /\ MayStart(t)
    /\ \E p \in {"starter", "loaded"} : pc' = [pc EXCEPT ![t] = p]
    /\ Load(t)
    /\ disk' = disk

LEMMA NothingAdded ==
    ASSUME TypeOK, NEW t \in Turn
    PROVE  /\ obj[t] \in Seq(Message)
           /\ obj[t] \o <<>> = obj[t]
           /\ [obj EXCEPT ![t] = obj[t] \o <<>>] = obj
<1>1. obj[t] \in Seq(Message) /\ obj = [s \in Turn |-> obj[s]]
  BY DEF TypeOK
<1>2. obj[t] \o <<>> = obj[t]
  BY <1>1
<1> QED
  BY <1>1, <1>2

\* Every step is one of these, a delete, a crash or a stutter.
LEMMA StepCases ==
    ASSUME StoreKind = "file", TypeInv, CopyInv, [Next]_vars
    PROVE  \/ \E t \in Turn, p \in Phase, ms \in Seq(Message) : Works(t, p, ms)
           \/ \E t \in Turn : Opens(t)
           \/ \E c \in Conv : DeleteConversation(c)
           \/ Crash
           \/ UNCHANGED vars
<1> DEFINE W == \E t \in Turn, p \in Phase, ms \in Seq(Message) : Works(t, p, ms)
           O == \E t \in Turn : Opens(t)
<1>a. TypeOK /\ \A t \in Turn : ref[t] = t
  BY DEF TypeInv, CopyInv
<1>b. ASSUME NEW t \in Turn, NEW p \in Phase, Works(t, p, <<>>) PROVE W
  <2>1. <<>> \in Seq(Message)
    OBVIOUS
  <2> QED
    BY <1>b, <2>1
<1>1. ASSUME NEW t \in Turn, LoadStarter(t) PROVE O
  BY <1>1 DEF LoadStarter, Opens, Go
<1>2. ASSUME NEW t \in Turn, SaveStarter(t) PROVE W
  <2>1. Works(t, "done", <<>>)
    BY <1>a, <1>2, NothingAdded DEF SaveStarter, Works, Go, Begun, Ended, Early, Persist
  <2> QED
    BY <2>1, <1>b DEF Phase, Ended
<1>3. ASSUME NEW t \in Turn, StarterFails(t) PROVE W
  <2>1. Works(t, "done", <<>>)
    BY <1>a, <1>3, NothingAdded DEF StarterFails, Works, Go, Begun, Ended, Early
  <2> QED
    BY <2>1, <1>b DEF Phase, Ended
<1>4. ASSUME NEW t \in Turn, LoadConversation(t) PROVE O
  BY <1>4 DEF LoadConversation, Opens, Go
<1>5. ASSUME NEW t \in Turn, WorkflowHandles(t) PROVE W
  <2>1. Works(t, "done", <<>>)
    BY <1>a, <1>5, NothingAdded DEF WorkflowHandles, Works, Go, Begun, Ended, Early, Persist
  <2> QED
    BY <2>1, <1>b DEF Phase, Ended
<1>6. ASSUME NEW t \in Turn, WorkflowPasses(t) PROVE W
  <2>1. Works(t, "unhandled", <<>>)
    BY <1>a, <1>6, NothingAdded DEF WorkflowPasses, Works, Go, Begun, Ended, Early
  <2> QED
    BY <2>1, <1>b DEF Phase, Ended
<1>7. ASSUME NEW t \in Turn, AddUserMessage(t) PROVE W
  <2>1. UserMsg(t) \in Message /\ UserMsg(t).turn = t
    BY MessageTypes, MessageTurns
  <2> DEFINE x == UserMsg(t)
  <2>2. Append(obj[ref[t]], x) = obj[t] \o <<x>>
    BY <1>a, <2>1, LastMessage DEF TypeOK
  <2>3. /\ pc[t] = "unhandled"
        /\ pc' = [pc EXCEPT ![t] = "build"]
        /\ obj' = [obj EXCEPT ![t] = obj[t] \o <<x>>]
        /\ isNew' = isNew
        /\ \/ disk' = disk
           \/ disk' = [disk EXCEPT ![ConvOf[t]] =
                         [status |-> "ok", msgs |-> obj[t] \o <<x>>]]
    BY <1>a, <1>7, <2>2 DEF AddUserMessage, AddMessages, Go, Persist
  <2> HIDE DEF x
  <2>4. /\ <<x>> \in Seq(Message)
        /\ <<x>> # <<>>
        /\ \A i \in DOMAIN <<x>> : <<x>>[i].turn = t
    BY <2>1 DEF x
  <2>5. Works(t, "build", <<x>>)
    BY <2>3, <2>4 DEF Works, Begun, Ended, Early
  <2> QED
    BY <2>4, <2>5 DEF Phase
<1>8. ASSUME NEW t \in Turn, BuildRequest(t) PROVE W
  <2>1. Works(t, "llm", <<>>) \/ Works(t, "save", <<>>)
    BY <1>a, <1>8, NothingAdded DEF BuildRequest, Works, Go, Begun, Ended, Early
  <2> QED
    BY <2>1, <1>b DEF Phase, Ended
<1>9. ASSUME NEW t \in Turn, NEW n \in 1..MaxCalls, LlmCallsTools(t, n) PROVE W
  <2>0. iter[t] + 1 \in Nat /\ n \in Nat
    BY LimitAssumption, <1>a DEF TypeOK
  <2> DEFINE x == CallsMsg(t, iter[t] + 1, n)
  <2>1. x \in Message /\ x.turn = t
    BY <2>0, MessageTypes, MessageTurns
  <2>3. /\ pc[t] = "llm"
        /\ pc' = [pc EXCEPT ![t] = "tools"]
        /\ obj' = [obj EXCEPT ![t] = obj[t] \o <<x>>]
        /\ isNew' = isNew /\ disk' = disk
    BY <1>a, <1>9 DEF LlmCallsTools, AddMessages, Go
  <2> HIDE DEF x
  <2>4. <<x>> \in Seq(Message) /\ \A i \in DOMAIN <<x>> : <<x>>[i].turn = t
    BY <2>1
  <2>5. Works(t, "tools", <<x>>)
    BY <2>3, <2>4 DEF Works, Begun, Ended, Early
  <2> QED
    BY <2>4, <2>5 DEF Phase
<1>10. ASSUME NEW t \in Turn, AddToolResults(t) PROVE W
  <2>0. iter[t] \in Nat /\ calls[t] \in Nat
    BY LimitAssumption, <1>a DEF TypeOK
  <2> DEFINE x == ToolMsgs(t, iter[t], calls[t])
  <2>1. x \in Seq(Message) /\ \A i \in DOMAIN x : x[i].turn = t
    BY <2>0, MessageTypes, MessageTurns
  <2>3. /\ pc[t] = "tools"
        /\ pc' = [pc EXCEPT ![t] = "build"]
        /\ obj' = [obj EXCEPT ![t] = obj[t] \o x]
        /\ isNew' = isNew /\ disk' = disk
    BY <1>a, <1>10 DEF AddToolResults, AddMessages, Go
  <2> HIDE DEF x
  <2>5. Works(t, "build", x)
    BY <2>1, <2>3 DEF Works, Begun, Ended, Early
  <2> QED
    BY <2>1, <2>5 DEF Phase
<1>11. ASSUME NEW t \in Turn, LlmAnswers(t) PROVE W
  <2>1. Works(t, "ready", <<>>)
    BY <1>a, <1>11, NothingAdded DEF LlmAnswers, Works, Go, Begun, Ended, Early
  <2> QED
    BY <2>1, <1>b DEF Phase, Ended
<1>12. ASSUME NEW t \in Turn, AddAnswer(t) PROVE W
  <2> DEFINE x == AnswerMsg(t)
  <2>1. x \in Message /\ x.turn = t
    BY MessageTypes, MessageTurns
  <2>2. /\ pc[t] = "ready"
        /\ pc' = [pc EXCEPT ![t] = "save"]
        /\ obj' = [obj EXCEPT ![t] = obj[t] \o <<x>>] \/ obj' = obj
        /\ isNew' = isNew /\ disk' = disk
    BY <1>a, <1>12 DEF AddAnswer, AddMessages, Go
  <2> HIDE DEF x
  <2>3. <<x>> \in Seq(Message) /\ \A i \in DOMAIN <<x>> : <<x>>[i].turn = t
    BY <2>1
  <2>4. CASE obj' = obj
    <3>1. Works(t, "save", <<>>)
      BY <1>a, <2>2, <2>4, NothingAdded DEF Works, Begun, Ended, Early
    <3> QED
      BY <3>1, <1>b DEF Phase
  <2>5. CASE obj' = [obj EXCEPT ![t] = obj[t] \o <<x>>]
    <3>1. Works(t, "save", <<x>>)
      BY <2>2, <2>3, <2>5 DEF Works, Begun, Ended, Early
    <3> QED
      BY <2>3, <3>1 DEF Phase
  <2> QED
    BY <2>2, <2>4, <2>5
<1>13. ASSUME NEW t \in Turn, SaveConversation(t) PROVE W
  <2>1. Works(t, "after", <<>>)
    BY <1>a, <1>13, NothingAdded DEF SaveConversation, Works, Go, Begun, Ended, Early, Persist
  <2> QED
    BY <2>1, <1>b DEF Phase, Ended
<1>14. ASSUME NEW t \in Turn, AfterMessageHooks(t) PROVE W
  <2>1. Works(t, "done", <<>>)
    BY <1>a, <1>14, NothingAdded DEF AfterMessageHooks, Works, Go, Begun, Ended, Early
  <2> QED
    BY <2>1, <1>b DEF Phase, Ended
<1>15. ASSUME NEW t \in Turn, Raises(t) PROVE W
  <2>1. Works(t, "failed", <<>>)
    BY <1>a, <1>15, NothingAdded DEF Raises, Works, Go, Begun, Ended, Early
  <2> QED
    BY <2>1, <1>b DEF Phase, Ended
<1>16. ASSUME NEW t \in Turn, Disconnects(t) PROVE W
  <2>1. Works(t, "gone", <<>>)
    BY <1>a, <1>16, NothingAdded DEF Disconnects, Works, Go, Begun, Ended, Early
  <2> QED
    BY <2>1, <1>b DEF Phase, Ended
<1>17. ASSUME NEW t \in Turn, WriteBreaks(t) PROVE W
  <2>1. isNew' = isNew /\ disk' = [disk EXCEPT ![ConvOf[t]] = Torn]
    BY <1>17 DEF WriteBreaks
  <2>2. CASE pc[t] = "unhandled"
    <3> DEFINE x == UserMsg(t)
    <3>1. x \in Message /\ x.turn = t
      BY MessageTypes, MessageTurns
    <3>2. /\ pc' = [pc EXCEPT ![t] = "failed"]
          /\ obj' = [obj EXCEPT ![t] = obj[t] \o <<x>>]
      BY <1>a, <1>17, <2>2 DEF WriteBreaks, AddMessages, Go
    <3> HIDE DEF x
    <3>3. <<x>> \in Seq(Message) /\ \A i \in DOMAIN <<x>> : <<x>>[i].turn = t
      BY <3>1
    <3>4. Works(t, "failed", <<x>>)
      BY <2>1, <2>2, <3>2, <3>3 DEF Works, Begun, Ended, Early
    <3> QED
      BY <3>3, <3>4 DEF Phase, Ended
  <2>3. CASE pc[t] # "unhandled"
    <3>1. \E p \in {"done", "unhandled", "failed"} : Works(t, p, <<>>)
      BY <1>a, <1>17, <2>1, <2>3, NothingAdded DEF WriteBreaks, Works, Go, Begun, Ended, Early
    <3> QED
      BY <3>1, <1>b DEF Phase, Ended
  <2> QED
    BY <2>2, <2>3
<1> HIDE DEF W, O
<1>18. ASSUME NEW t \in Turn, Step(t) PROVE W \/ O
  BY <1>18, <1>1, <1>2, <1>3, <1>4, <1>5, <1>6, <1>7, <1>8, <1>9, <1>10,
     <1>11, <1>12, <1>13, <1>14 DEF Step
<1>19. ASSUME NEW t \in Turn, Trouble(t) PROVE W
  BY <1>19, <1>15, <1>16, <1>17 DEF Trouble
<1> QED
  BY <1>18, <1>19 DEF Next, W, O

LEMMA LogInit == Init => LogInv
BY ConvOfAssumption
DEF Init, LogInv, AloneInv, UnseenInv, BaseInv, BaseOf, Begun, OfOthers, Early, Absent

LEMMA WorksStep ==
    ASSUME TypeOK, LogInv, NEW t \in Turn, NEW p \in Phase,
           NEW ms \in Seq(Message), Works(t, p, ms)
    PROVE  LogInv'
<1> DEFINE old == disk[ConvOf[t]].msgs
           new == obj[t] \o ms
<1>1. /\ \A s \in Turn : pc'[s] = IF s = t THEN p ELSE pc[s]
      /\ \A s \in Turn : obj'[s] = IF s = t THEN new ELSE obj[s]
      /\ isNew' = isNew
      /\ \A c \in Conv \ {ConvOf[t]} : disk'[c] = disk[c]
      /\ \/ disk'[ConvOf[t]] = disk[ConvOf[t]]
         \/ disk'[ConvOf[t]] = Torn
         \/ disk'[ConvOf[t]] = [status |-> "ok", msgs |-> new]
  BY ConvOfAssumption DEF Works, TypeOK
<1>2. obj[t] \in Seq(Message) /\ old \in Seq(Message) /\ ConvOf[t] \in Conv
  BY ConvOfAssumption DEF TypeOK
<1>3. new \in Seq(Message) /\ (ms = <<>> => new = obj[t])
  BY <1>2
<1>4. LeavesOthers(t)
  BY <1>1 DEF LeavesOthers
<1>5. AloneInv'
  BY <1>1 DEF LogInv, AloneInv, Works, Begun
<1>6. UnseenInv'
  <2> SUFFICES ASSUME NEW s \in Turn, pc'[s] \in Early
               PROVE  /\ \A c \in Conv : OfOthers(disk'[c].msgs, s)
                      /\ \A u \in Turn : OfOthers(obj'[u], s)
    BY DEF UnseenInv, OfOthers
  <2>1. pc[s] \in Early
    BY <1>1 DEF Works
  <2>2. /\ \A c \in Conv : OfOthers(disk[c].msgs, s)
        /\ \A u \in Turn : OfOthers(obj[u], s)
    BY <2>1 DEF LogInv, UnseenInv
  <2>3. OfOthers(new, s)
    <3>1. CASE s = t
      <4>1. ms = <<>>
        BY <1>1, <3>1 DEF Works
      <4> QED
        BY <1>3, <2>2, <4>1
    <3>2. CASE s # t
      <4>1. \A i \in DOMAIN ms : ms[i].turn = t
        BY DEF Works
      <4> QED
        BY <1>2, <2>2, <3>2, <4>1, OthersMore
    <3> QED
      BY <3>1, <3>2
  <2>4. OfOthers(Torn.msgs, s)
    BY DEF OfOthers, Torn
  <2> HIDE DEF new
  <2> QED
    BY <1>1, <2>2, <2>3, <2>4
<1>7. \A c \in Conv : disk'[c].status # "ok" => disk'[c].msgs = <<>>
  BY <1>1 DEF LogInv, BaseInv, Torn
<1>8. ASSUME NEW s \in Turn PROVE BaseOf(s)'
  <2>1. CASE s # t
    <3>1. BaseOf(s) /\ AloneInv /\ Begun(t)
      BY DEF LogInv, BaseInv, Works
    <3> QED
      BY <1>4, <2>1, <3>1, BaseOthers
  <2>2. CASE s = t
    <3>1. p \in Early => p # "new" /\ pc[t] \in Early /\ pc[t] # "new" /\ new = obj[t]
      BY <1>3 DEF Works, Begun
    <3>2. /\ Begun(t)
          /\ pc[t] = "after" => p \in Ended
          /\ BaseOf(t)
          /\ \A i \in DOMAIN ms : ms[i].turn = t
      BY DEF Works, LogInv, BaseInv
    <3>3. pc[t] # "after" /\ old # <<>> => Continues(new, old, t)
      BY <1>2, <3>2, ContinuesMore DEF BaseOf
    <3>4. ASSUME disk' = disk \/ disk'[ConvOf[t]] = Torn PROVE BaseOf(t)'
      <4>1. Begun(t)' /\ p # "after" => pc[t] # "after"
        BY <1>1, <3>2 DEF Begun
      <4>2. /\ pc'[t] = p /\ obj'[t] = new /\ isNew' = isNew
            /\ disk'[ConvOf[t]] = disk[ConvOf[t]] \/ disk'[ConvOf[t]].msgs = <<>>
        <5>1. Torn.msgs = <<>>
          BY DEF Torn
        <5>2. pc'[t] = p /\ obj'[t] = new /\ isNew' = isNew
          BY <1>1
        <5> QED
          BY <3>4, <5>1, <5>2
      <4> HIDE DEF new
      <4>3. Begun(t)' /\ pc'[t] # "after" /\ disk'[ConvOf[t]].msgs # <<>>
              => Continues(obj'[t], disk'[ConvOf[t]].msgs, t)
        BY <3>3, <4>1, <4>2
      <4>4. pc'[t] \in Early /\ disk'[ConvOf[t]].msgs # <<>>
              => obj'[t] = disk'[ConvOf[t]].msgs
        BY <3>1, <3>2, <4>2 DEF BaseOf
      <4>5. pc'[t] \in Early /\ isNew'[t] => obj'[t] = <<>>
        BY <3>1, <3>2, <4>2 DEF BaseOf
      <4> QED
        BY <4>3, <4>4, <4>5 DEF BaseOf, Continues, OfOthers
    <3>5. ASSUME disk' # disk, disk'[ConvOf[t]] # Torn PROVE BaseOf(t)'
      <4>1. /\ pc'[t] = p /\ obj'[t] = new
            /\ disk'[ConvOf[t]].msgs = new
            /\ p \notin Early /\ (p \in Ended \cup {"after"} \/ ms # <<>>)
        <5>1. disk \in [Conv -> [status : FileStatus, msgs : Seq(Message)]]
          BY DEF TypeOK
        <5>2. disk' # [disk EXCEPT ![ConvOf[t]] = Torn]
          BY <1>2, <3>5, <5>1
        <5>3. /\ disk' = [disk EXCEPT ![ConvOf[t]] = [status |-> "ok", msgs |-> new]]
              /\ p \in Ended \cup {"after"} \/ (ms # <<>> /\ p \notin Early)
          BY <3>5, <5>2 DEF Works
        <5>4. disk'[ConvOf[t]].msgs = new
          BY <1>2, <5>1, <5>3
        <5> QED
          BY <1>1, <5>3, <5>4 DEF Ended, Early
      <4>2. ms # <<>> => new # <<>> /\ new[Len(new)].turn = t
        <5>1. ms # <<>> => /\ Len(ms) \in DOMAIN ms
                           /\ new # <<>>
                           /\ new[Len(new)] = ms[Len(ms)]
          BY <1>2
        <5> QED
          BY <3>2, <5>1
      <4>3. p \notin Ended \cup {"after"} => Continues(new, new, t)
        BY <1>3, <4>1, <4>2, ContinuesSelf
      <4> HIDE DEF new
      <4> QED
        BY <4>1, <4>3 DEF BaseOf, Continues, OfOthers, Begun
    <3> QED
      BY <2>2, <3>4, <3>5
  <2> QED
    BY <2>1, <2>2
<1> QED
  BY <1>5, <1>6, <1>7, <1>8 DEF LogInv, BaseInv

LEMMA OpensStep ==
    ASSUME StoreKind = "file", ClientPolicy = "ended", TypeOK, LogInv,
           NEW t \in Turn, Opens(t)
    PROVE  LogInv'
<1>1. /\ pc[t] = "new"
      /\ pc'[t] \in {"starter", "loaded"}
      /\ \A s \in Turn \ {t} : pc'[s] = pc[s]
      /\ obj'[t] = IF Exists(ConvOf[t]) THEN disk[ConvOf[t]].msgs ELSE <<>>
      /\ \A s \in Turn \ {t} : obj'[s] = obj[s]
      /\ isNew'[t] = ~Exists(ConvOf[t])
      /\ \A s \in Turn \ {t} : isNew'[s] = isNew[s]
      /\ disk' = disk
  BY DEF Opens, Load, TypeOK
<1>2. /\ disk[ConvOf[t]].msgs \in Seq(Message) /\ ConvOf[t] \in Conv
      /\ disk[ConvOf[t]].msgs # <<>> => Exists(ConvOf[t])
  BY ConvOfAssumption DEF TypeOK, Exists, LogInv, BaseInv
<1>3. LeavesOthers(t)
  BY <1>1 DEF LeavesOthers
<1>4. AloneInv'
  <2>1. \A s \in Turn \ {t} : ConvOf[s] = ConvOf[t] => ~Begun(s)
    BY DEF Opens, MayStart, Begun
  <2> QED
    BY <1>1, <2>1 DEF LogInv, AloneInv, Begun
<1>5. UnseenInv'
  <2> SUFFICES ASSUME NEW s \in Turn, pc'[s] \in Early
               PROVE  /\ \A c \in Conv : OfOthers(disk'[c].msgs, s)
                      /\ \A u \in Turn : OfOthers(obj'[u], s)
    BY DEF UnseenInv, OfOthers
  <2>1. pc[s] \in Early
    BY <1>1 DEF Early
  <2>2. /\ \A c \in Conv : OfOthers(disk[c].msgs, s)
        /\ \A u \in Turn : OfOthers(obj[u], s)
        /\ OfOthers(<<>>, s)
    BY <2>1 DEF LogInv, UnseenInv, OfOthers
  <2> QED
    BY <1>1, <1>2, <2>2
<1>6. ASSUME NEW s \in Turn PROVE BaseOf(s)'
  <2>1. CASE s # t
    BY <1>1, <1>3, <2>1, BaseOthers DEF LogInv, BaseInv
  <2>2. CASE s = t
    <3>1. OfOthers(disk[ConvOf[t]].msgs, t)
      BY <1>1, <1>2 DEF LogInv, UnseenInv, Early
    <3>2. Continues(disk[ConvOf[t]].msgs, disk[ConvOf[t]].msgs, t)
      BY <1>2, <3>1, ContinuesSelf
    <3> QED
      BY <1>1, <1>2, <2>2, <3>2 DEF BaseOf, Continues, OfOthers
  <2> QED
    BY <2>1, <2>2
<1> QED
  BY <1>1, <1>4, <1>5, <1>6 DEF LogInv, BaseInv

LEMMA LogStep ==
    ASSUME StoreKind = "file", ClientPolicy = "ended",
           TypeInv, CopyInv, LogInv, [Next]_vars
    PROVE  LogInv'
<1>0. TypeOK
  BY DEF TypeInv
<1>1. ASSUME NEW t \in Turn, NEW p \in Phase, NEW ms \in Seq(Message),
             Works(t, p, ms)
      PROVE  LogInv'
  BY <1>0, <1>1, WorksStep
<1>2. ASSUME NEW t \in Turn, Opens(t) PROVE LogInv'
  BY <1>0, <1>2, OpensStep
<1>3. ASSUME NEW c \in Conv, DeleteConversation(c) PROVE LogInv'
  <2>1. /\ UNCHANGED <<pc, obj, isNew>>
        /\ \A d \in Conv : disk'[d] = disk[d] \/ disk'[d] = Absent
    BY <1>0, <1>3 DEF DeleteConversation, TypeOK
  <2>2. Absent.msgs = <<>> /\ \A t \in Turn : OfOthers(<<>>, t)
    BY DEF Absent, OfOthers
  <2>3. AloneInv'
    BY <2>1 DEF LogInv, AloneInv, Begun
  <2>4. UnseenInv'
    <3>1. \A t \in Turn : \A d \in Conv :
            OfOthers(disk[d].msgs, t) => OfOthers(disk'[d].msgs, t)
      BY <2>1, <2>2
    <3>2. \A t \in Turn : pc[t] \in Early =>
            \A d \in Conv : OfOthers(disk'[d].msgs, t)
      BY <3>1 DEF LogInv, UnseenInv
    <3> QED
      BY <2>1, <3>2 DEF LogInv, UnseenInv, OfOthers
  <2>5. ASSUME NEW s \in Turn PROVE BaseOf(s)'
    <3>1. BaseOf(s) /\ ConvOf[s] \in Conv
      BY ConvOfAssumption DEF LogInv, BaseInv
    <3> QED
      BY <2>1, <2>2, <3>1 DEF BaseOf, Begun, Continues, OfOthers
  <2> QED
    BY <2>1, <2>2, <2>3, <2>4, <2>5 DEF LogInv, BaseInv
<1>4. CASE Crash
  <2>1. /\ \A s \in Turn : pc'[s] = pc[s] \/ pc'[s] \in Ended
        /\ UNCHANGED <<obj, isNew, disk>>
    BY <1>4 DEF Crash, Ended
  <2>2. \A s \in Turn : pc'[s] \in Early => pc[s] \in Early /\ pc'[s] = pc[s]
    BY <2>1 DEF Early, Ended
  <2>3. AloneInv'
    BY <2>1 DEF LogInv, AloneInv, Begun
  <2>4. UnseenInv'
    BY <2>1, <2>2 DEF LogInv, UnseenInv, OfOthers
  <2>5. ASSUME NEW s \in Turn PROVE BaseOf(s)'
    BY <2>1, <2>2 DEF LogInv, BaseInv, BaseOf, Begun, Continues, OfOthers
  <2> QED
    BY <2>1, <2>3, <2>4, <2>5 DEF LogInv, BaseInv
<1>5. CASE UNCHANGED vars
  BY <1>5 DEF vars, LogInv, AloneInv, UnseenInv, BaseInv, BaseOf, Begun,
              Continues, OfOthers
<1> QED
  BY <1>1, <1>2, <1>3, <1>4, <1>5, StepCases

\* The abstract log and this module read a transcript the same way.
LEMMA SameWellFormed ==
    ASSUME NEW m, WellFormed(m)
    PROVE  Log!WellFormed(m)
BY DEF WellFormed, Answered, Called, ToolMsg,
       Log!WellFormed, Log!Answered, Log!Called, Log!ToolMsg

LEMMA LogOf ==
    ASSUME StoreKind = "file"
    PROVE  [c \in Conv |-> Stored(c)] = [c \in Conv |-> disk[c].msgs]
BY DEF Stored

\* A store that turns one file into new, which is empty, continues what was
\* there or follows an erased file, makes a step of the log.
LEMMA LogMoves ==
    ASSUME StoreKind = "file", TypeOK, TypeOK',
           NEW c \in Conv, NEW t \in Turn,
           \A d \in Conv \ {c} : disk'[d] = disk[d],
           LET old == disk[c].msgs
               new == disk'[c].msgs
           IN  \/ new = <<>>
               \/ new = old
               \/ WellFormed(new) /\ (old = <<>> \/ Continues(new, old, t))
    PROVE  [Log!LogNext]_([d \in Conv |-> Stored(d)])
<1> DEFINE L == [d \in Conv |-> disk[d].msgs]
           M == [d \in Conv |-> disk'[d].msgs]
           old == disk[c].msgs
           new == disk'[c].msgs
<1>1. [d \in Conv |-> Stored(d)] = L /\ [d \in Conv |-> Stored(d)]' = M
  BY LogOf DEF Stored
<1>2. old \in Seq(Message) /\ new \in Seq(Message) /\ L[c] = old /\ M[c] = new
  BY DEF TypeOK
<1>3. \A d \in Conv \ {c} : M[d] = L[d]
  OBVIOUS
<1>4. CASE new = <<>>
  BY <1>1, <1>2, <1>3, <1>4 DEF Log!LogNext, Log!Erase
<1>5. CASE new = old
  <2>1. M = L
    BY <1>3, <1>5
  <2> QED
    BY <1>1, <2>1
<1>6. CASE WellFormed(new) /\ old = <<>>
  BY <1>1, <1>2, <1>3, <1>6, SameWellFormed DEF Log!LogNext, Log!Restore
<1>7. CASE WellFormed(new) /\ Continues(new, old, t) /\ new # old /\ old # <<>>
  <2> HIDE DEF L, M, old, new
  <2>1. SubSeq(new, 1, Len(old)) = old
    BY <1>2, <1>7 DEF Continues
  <2>2. Len(new) > Len(old)
    BY <1>2, <1>7 DEF Continues
  <2>3. \A i \in (Len(old) + 1)..Len(new) : new[i].turn = t
    BY <1>2, <1>7 DEF Continues
  <2>4. (\A i \in DOMAIN old : old[i].turn # t) \/ old[Len(old)].turn = t
    BY <1>7 DEF Continues, OfOthers
  <2>5. Log!WellFormed(new)
    BY <1>7, SameWellFormed
  <2>6. Log!Extend(c, t)
    BY <1>1, <1>2, <2>1, <2>2, <2>3, <2>4, <2>5 DEF Log!Extend
  <2> QED
    BY <1>1, <1>3, <2>6 DEF Log!LogNext
<1> QED
  BY <1>4, <1>5, <1>6, <1>7

LEMMA LogRefined ==
    ASSUME StoreKind = "file", TypeInv, CopyInv, LogInv, TypeInv', CopyInv',
           [Next]_vars
    PROVE  [Log!LogNext]_([c \in Conv |-> Stored(c)])
<1>0. TypeOK /\ TypeOK'
  BY DEF TypeInv
<1>1. ASSUME NEW t \in Turn, NEW p \in Phase, NEW ms \in Seq(Message),
             Works(t, p, ms)
      PROVE  [Log!LogNext]_([c \in Conv |-> Stored(c)])
  <2> DEFINE c == ConvOf[t]
             old == disk[c].msgs
             new == disk'[c].msgs
  <2>1. /\ c \in Conv
        /\ disk \in [Conv -> [status : FileStatus, msgs : Seq(Message)]]
        /\ obj[t] \in Seq(Message)
        /\ old \in Seq(Message)
    BY <1>0, ConvOfAssumption DEF TypeOK
  <2>2. \A d \in Conv \ {c} : disk'[d] = disk[d]
    BY <1>1, <2>1 DEF Works
  <2>3. WellFormed(new)
    BY <2>1 DEF CopyInv
  <2>4. \/ new = old
        \/ new = Torn.msgs
        \/ new = obj[t] \o ms /\ pc[t] # "after"
    BY <1>1, <2>1 DEF Works
  <2>5. old # <<>> /\ pc[t] # "after" => Continues(obj[t] \o ms, old, t)
    <3>1. old # <<>> /\ pc[t] # "after" => Continues(obj[t], old, t)
      BY <1>1 DEF LogInv, BaseInv, BaseOf, Works
    <3>2. \A i \in DOMAIN ms : ms[i].turn = t
      BY <1>1 DEF Works
    <3> QED
      BY <2>1, <3>1, <3>2, ContinuesMore
  <2>6. \/ new = <<>>
        \/ new = old
        \/ WellFormed(new) /\ (old = <<>> \/ Continues(new, old, t))
    BY <2>3, <2>4, <2>5 DEF Torn
  <2> QED
    BY <1>0, <2>1, <2>2, <2>6, LogMoves
<1>2. ASSUME NEW c \in Conv, DeleteConversation(c)
      PROVE  [Log!LogNext]_([d \in Conv |-> Stored(d)])
  <2>1. /\ disk'[c].msgs = <<>>
        /\ \A d \in Conv \ {c} : disk'[d] = disk[d]
    BY <1>0, <1>2 DEF DeleteConversation, TypeOK, Absent
  <2> DEFINE L == [d \in Conv |-> Stored(d)]
  <2>2. L = [d \in Conv |-> disk[d].msgs] /\ L' = [d \in Conv |-> disk'[d].msgs]
    BY LogOf DEF Stored
  <2>3. L'[c] = <<>> /\ \A d \in Conv \ {c} : L'[d] = L[d]
    BY <2>1, <2>2
  <2> QED
    BY <2>3 DEF Log!LogNext, Log!Erase
<1>3. ASSUME disk' = disk
      PROVE  [Log!LogNext]_([c \in Conv |-> Stored(c)])
  BY <1>3, LogOf DEF Stored
<1>4. CASE \E t \in Turn : Opens(t)
  BY <1>3, <1>4 DEF Opens
<1>5. CASE Crash
  BY <1>3, <1>5 DEF Crash
<1>6. CASE UNCHANGED vars
  BY <1>3, <1>6 DEF vars
<1> QED
  BY <1>1, <1>2, <1>4, <1>5, <1>6, StepCases

\* With clients that wait for the end of the stream, the file store is a log of
\* whole turns: every step of the agent, whatever else fails, extends one
\* conversation at its end by messages of one turn, erases it, brings an erased
\* one back, or changes none (file_system_conversation_store.py:79-105).
THEOREM FileStoreIsALog ==
    ASSUME StoreKind = "file", ClientPolicy = "ended"
    PROVE  Spec => StoreIsALog
<1> DEFINE Inv == TypeInv /\ CopyInv /\ LogInv
<1>1. Init => Inv /\ Log!LogInit
  <2>1. Init => Inv
    BY TypeInit, CopyInit, LogInit
  <2>2. Init => Log!LogInit
    BY DEF Init, Absent, Stored, Log!LogInit
  <2> QED
    BY <2>1, <2>2
<1>2. Inv /\ [Next]_vars => Inv'
  BY TypeStep, CopyStep, LogStep
<1>3. Inv /\ Inv' /\ [Next]_vars => [Log!LogNext]_([c \in Conv |-> Stored(c)])
  BY LogRefined
<1> HIDE DEF Inv
<1> QED
  BY <1>1, <1>2, <1>3, PTL DEF Spec, StoreIsALog, Log!LogSpec
=============================================================================
