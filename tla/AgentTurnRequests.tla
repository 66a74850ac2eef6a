------------------------- MODULE AgentTurnRequests -------------------------
(***************************************************************************)
(* Theorems about AgentTurn that hold for both stores, also where turns    *)
(* share one Conversation object: every request shows the turn's own work, *)
(* no answer precedes its call, and no turn ends with a chat that says     *)
(* "working".                                                              *)
(***************************************************************************)
EXTENDS AgentTurnProofs

-----------------------------------------------------------------------------
(* Who holds which object.                                                 *)

\* Nobody else has the object of a turn that has not begun.
ObjectInv ==
    \A t \in Turn : pc[t] = "new" =>
        /\ \A s \in Turn \ {t} : ref[s] # t
        /\ \A c \in Conv : memory[c] # t

\* The user's message of t and all that its first n iterations called and got.
Shows(m, t, n) ==
    /\ Has(m, UserMsg(t))
    /\ \A i \in 1..n : \E k \in 1..MaxCalls :
          /\ Has(m, CallsMsg(t, i, k))
          /\ \A j \in 1..k : Has(m, ToolMsg(t, i, j))

Working == {"build", "llm", "ready", "save"}
Before  == {"new", "starter", "loaded", "unhandled"}

\* What a turn has done is in the object it works on; while its tools run,
\* their results are missing.
WorkInv ==
    \A t \in Turn :
        /\ pc[t] \in Before => iter[t] = 0
        /\ pc[t] \in Working => Shows(obj[ref[t]], t, iter[t])
        /\ pc[t] = "tools" =>
              /\ iter[t] > 0
              /\ calls[t] \in 1..MaxCalls
              /\ Shows(obj[ref[t]], t, iter[t] - 1)
              /\ Has(obj[ref[t]], CallsMsg(t, iter[t], calls[t]))
        /\ pc[t] = "llm" => Shows(request[t], t, iter[t])

\* A call and, somewhere after it, its answers.
Follows(m) ==
    \A j \in DOMAIN m :
        m[j].role = "tool" =>
            \E i \in 1..(j - 1) :
                /\ m[i].role = "calls"
                /\ m[i].turn = m[j].turn
                /\ m[i].iter = m[j].iter

FollowInv ==
    /\ \A t \in Turn : Follows(obj[t])
    /\ \A c \in Conv : Follows(disk[c].msgs)

\* Where the client has been told, or never was told "working".
StatusInv ==
    \A t \in Turn :
        pc[t] \in {"new", "starter", "ready", "save", "after", "done", "failed"}
            => ui[t] # "working"

-----------------------------------------------------------------------------
(* What a step of one turn does to the others.                             *)

\* A turn moves itself and no other ...
LEMMA OthersStand ==
    ASSUME TypeInv, NEW t \in Turn, Step(t) \/ Trouble(t), NEW s \in Turn \ {t}
    PROVE  /\ pc'[s] = pc[s] /\ ui'[s] = ui[s] /\ ref'[s] = ref[s]
           /\ iter'[s] = iter[s] /\ calls'[s] = calls[s] /\ request'[s] = request[s]
<1> USE DEF TypeInv, TypeOK, Go, Show
<1>1. CASE LoadStarter(t) \/ LoadConversation(t)
  BY <1>1 DEF LoadStarter, LoadConversation, Load
<1>2. CASE SaveStarter(t) \/ StarterFails(t) \/ WorkflowHandles(t) \/ WorkflowPasses(t)
  BY <1>2 DEF SaveStarter, StarterFails, WorkflowHandles, WorkflowPasses
<1>3. CASE AddUserMessage(t) \/ BuildRequest(t) \/ AddToolResults(t) \/ LlmAnswers(t)
  BY <1>3 DEF AddUserMessage, BuildRequest, AddToolResults, LlmAnswers
<1>4. CASE \E n \in 1..MaxCalls : LlmCallsTools(t, n)
  BY <1>4 DEF LlmCallsTools
<1>5. CASE AddAnswer(t) \/ SaveConversation(t) \/ AfterMessageHooks(t)
  BY <1>5 DEF AddAnswer, SaveConversation, AfterMessageHooks
<1>6. CASE Raises(t) \/ Disconnects(t)
  BY <1>6 DEF Raises, Disconnects
<1>7. CASE WriteBreaks(t)
  BY <1>7 DEF WriteBreaks
<1> QED
  BY <1>1, <1>2, <1>3, <1>4, <1>5, <1>6, <1>7 DEF Step, Trouble

Adds(t) == \E ms \in Seq(Message) : AddMessages(t, ms)

\* ... and begins with an object, or adds to the one it has.
LEMMA AppendsNothing ==
    ASSUME TypeInv, NEW t \in Turn, UNCHANGED obj
    PROVE  Adds(t)
<1>1. obj[ref[t]] \o <<>> = obj[ref[t]] /\ <<>> \in Seq(Message)
  BY DEF TypeInv, TypeOK
<1>2. AddMessages(t, <<>>)
  BY <1>1 DEF AddMessages, TypeInv, TypeOK
<1> QED
  BY <1>1, <1>2 DEF Adds

LEMMA OneObject ==
    ASSUME TypeInv, NEW t \in Turn, Step(t) \/ Trouble(t)
    PROVE  \/ /\ pc[t] = "new" /\ pc'[t] \in {"starter", "loaded"}
              /\ Load(t) /\ UNCHANGED memory
           \/ /\ pc[t] # "new" /\ pc'[t] # "new"
              /\ UNCHANGED ref /\ Adds(t)
              /\ UNCHANGED memory \/ memory' = [memory EXCEPT ![ConvOf[t]] = ref[t]]
<1>0. /\ pc \in [Turn -> Phase]
      /\ <<UserMsg(t)>> \in Seq(Message) /\ <<AnswerMsg(t)>> \in Seq(Message)
      /\ ToolMsgs(t, iter[t], calls[t]) \in Seq(Message)
      /\ \A n \in 1..MaxCalls : <<CallsMsg(t, iter[t] + 1, n)>> \in Seq(Message)
  <2>1. /\ pc \in [Turn -> Phase] /\ iter[t] \in Nat /\ calls[t] \in Nat
        /\ iter[t] + 1 \in Nat /\ 1..MaxCalls \subseteq Nat
    BY LimitAssumption DEF TypeInv, TypeOK
  <2>2. ASSUME NEW n \in 1..MaxCalls PROVE <<CallsMsg(t, iter[t] + 1, n)>> \in Seq(Message)
    <3>1. CallsMsg(t, iter[t] + 1, n) \in Message
      BY <2>1, MessageTypes
    <3> QED
      BY <3>1
  <2>3. ToolMsgs(t, iter[t], calls[t]) \in Seq(Message)
    BY <2>1, MessageTypes
  <2>4. UserMsg(t) \in Message /\ AnswerMsg(t) \in Message
    BY MessageTypes
  <2> QED
    BY <2>1, <2>2, <2>3, <2>4
<1> USE DEF Go, Show, Phase, Ended
<1>1. CASE LoadStarter(t) \/ LoadConversation(t)
  BY <1>0, <1>1 DEF LoadStarter, LoadConversation
<1>2. CASE SaveStarter(t) \/ StarterFails(t) \/ WorkflowHandles(t) \/ WorkflowPasses(t)
  BY <1>0, <1>2, AppendsNothing
  DEF SaveStarter, StarterFails, WorkflowHandles, WorkflowPasses, Persist
<1>3. CASE AddUserMessage(t) \/ AddToolResults(t)
  BY <1>0, <1>3 DEF AddUserMessage, AddToolResults, Adds, Persist
<1>4. CASE \E n \in 1..MaxCalls : LlmCallsTools(t, n)
  BY <1>0, <1>4 DEF LlmCallsTools, Adds
<1>5. CASE AddAnswer(t)
  BY <1>0, <1>5, AppendsNothing DEF AddAnswer, Adds
<1>6. CASE BuildRequest(t) \/ LlmAnswers(t) \/ SaveConversation(t) \/ AfterMessageHooks(t)
  BY <1>0, <1>6, AppendsNothing
  DEF BuildRequest, LlmAnswers, SaveConversation, AfterMessageHooks, Persist
<1>7. CASE Raises(t) \/ Disconnects(t)
  BY <1>0, <1>7, AppendsNothing DEF Raises, Disconnects
<1>8. CASE WriteBreaks(t)
  BY <1>0, <1>8, AppendsNothing DEF WriteBreaks, Adds
<1> QED
  BY <1>1, <1>2, <1>3, <1>4, <1>5, <1>6, <1>7, <1>8 DEF Step, Trouble

-----------------------------------------------------------------------------
(* Objects.                                                                *)

LEMMA ObjectInit == Init => ObjectInv
BY NoTurnAssumption DEF Init, ObjectInv

LEMMA ObjectStep == TypeInv /\ ObjectInv /\ [Next]_vars => ObjectInv'
<1> SUFFICES ASSUME TypeInv, ObjectInv, [Next]_vars PROVE ObjectInv'
  OBVIOUS
<1>1. ASSUME NEW t \in Turn, Step(t) \/ Trouble(t) PROVE ObjectInv'
  <2> SUFFICES ASSUME NEW u \in Turn, pc'[u] = "new"
               PROVE  /\ \A s \in Turn \ {u} : ref'[s] # u
                      /\ \A c \in Conv : memory'[c] # u
    BY DEF ObjectInv
  <2>1. u # t /\ pc[u] = "new"
    <3>1. pc'[t] # "new"
      BY <1>1, OneObject
    <3> QED
      BY <1>1, <3>1, OthersStand
  <2>2. ref[t] # u /\ \A c \in Conv : memory[c] # u
    BY <2>1 DEF ObjectInv
  <2>3. ref'[t] # u /\ \A c \in Conv : memory'[c] # u
    <3>1. CASE Load(t) /\ UNCHANGED memory
      BY <2>1, <2>2, <3>1, ConvOfAssumption DEF Load, TypeInv, TypeOK
    <3>2. CASE UNCHANGED ref /\ (UNCHANGED memory \/ memory' = [memory EXCEPT ![ConvOf[t]] = ref[t]])
      BY <2>2, <3>2 DEF TypeInv, TypeOK
    <3> QED
      BY <1>1, <3>1, <3>2, OneObject
  <2>4. ASSUME NEW s \in Turn \ {u} PROVE ref'[s] # u
    <3>1. CASE s = t
      BY <2>3, <3>1
    <3>2. CASE s # t
      BY <1>1, <2>1, <3>2, OthersStand DEF ObjectInv
    <3> QED
      BY <3>1, <3>2
  <2> QED
    BY <2>3, <2>4
<1>2. ASSUME NEW c \in Conv, DeleteConversation(c) PROVE ObjectInv'
  BY <1>2, NoTurnAssumption DEF DeleteConversation, ObjectInv, TypeInv, TypeOK
<1>3. CASE Crash
  BY <1>3, NoTurnAssumption DEF Crash, ObjectInv, TypeInv, TypeOK
<1>4. CASE UNCHANGED vars
  BY <1>4 DEF vars, ObjectInv
<1> QED
  BY <1>1, <1>2, <1>3, <1>4 DEF Next

\* The object of a turn that has begun is the same after every step, and only
\* ever grows at its end, whoever writes to it.
LEMMA ObjectsGrow ==
    ASSUME TypeInv, ObjectInv, NEW t \in Turn, Step(t) \/ Trouble(t),
           NEW s \in Turn, pc[s] # "new"
    PROVE  /\ ref'[s] = ref[s]
           /\ \E ms \in Seq(Message) : obj'[ref[s]] = obj[ref[s]] \o ms
<1>0. /\ ref[s] \in Turn /\ obj[ref[s]] \in Seq(Message) /\ ref[t] \in Turn
      /\ obj \in [Turn -> Seq(Message)]
  BY DEF TypeInv, TypeOK
<1>n. <<>> \in Seq(Message) /\ obj[ref[s]] \o <<>> = obj[ref[s]]
  BY <1>0
<1>1. CASE pc[t] = "new" /\ Load(t)
  <2>1. s # t /\ ref[s] # t
    BY <1>1 DEF ObjectInv
  <2>2. obj'[ref[s]] = obj[ref[s]]
    BY <1>0, <1>1, <2>1 DEF Load
  <2>3. ref'[s] = ref[s]
    BY <2>1, OthersStand
  <2> QED
    BY <1>n, <2>2, <2>3
<1>2. CASE UNCHANGED ref /\ Adds(t)
  <2>1. PICK ms \in Seq(Message) : obj' = [obj EXCEPT ![ref[t]] = @ \o ms]
    BY <1>2 DEF Adds, AddMessages
  <2>2. CASE ref[s] = ref[t]
    BY <1>0, <1>2, <2>1, <2>2
  <2>3. CASE ref[s] # ref[t]
    BY <1>0, <1>n, <1>2, <2>1, <2>3
  <2> QED
    BY <2>2, <2>3
<1> QED
  BY <1>1, <1>2, OneObject

\* What t itself adds is at the end of its object.
LEMMA AddedToOwn ==
    ASSUME TypeInv, NEW t \in Turn, NEW ms \in Seq(Message), AddMessages(t, ms),
           UNCHANGED ref
    PROVE  obj'[ref'[t]] = obj[ref[t]] \o ms
BY DEF TypeInv, TypeOK, AddMessages

LEMMA HasGrows ==
    ASSUME NEW m \in Seq(Message), NEW ms \in Seq(Message), NEW x, Has(m, x)
    PROVE  Has(m \o ms, x)
BY KeepsBefore DEF Has

LEMMA HasAdded ==
    ASSUME NEW m \in Seq(Message), NEW ms \in Seq(Message), NEW k \in DOMAIN ms
    PROVE  Has(m \o ms, ms[k])
<1>1. /\ Len(m) + k \in DOMAIN (m \o ms)
      /\ (m \o ms)[Len(m) + k] = ms[k]
  OBVIOUS
<1> QED
  BY <1>1 DEF Has

LEMMA HasLast ==
    ASSUME NEW m \in Seq(Message), NEW x \in Message
    PROVE  Has(m \o <<x>>, x)
BY LastMessage DEF Has

LEMMA ShowsGrows ==
    ASSUME NEW m \in Seq(Message), NEW ms \in Seq(Message), NEW t, NEW n, Shows(m, t, n)
    PROVE  Shows(m \o ms, t, n)
BY HasGrows DEF Shows

-----------------------------------------------------------------------------
(* A turn's own work.                                                      *)

\* WorkInv, of one turn.
WorkOf(t) ==
    /\ pc[t] \in Before => iter[t] = 0
    /\ pc[t] \in Working => Shows(obj[ref[t]], t, iter[t])
    /\ pc[t] = "tools" =>
          /\ iter[t] > 0
          /\ calls[t] \in 1..MaxCalls
          /\ Shows(obj[ref[t]], t, iter[t] - 1)
          /\ Has(obj[ref[t]], CallsMsg(t, iter[t], calls[t]))
    /\ pc[t] = "llm" => Shows(request[t], t, iter[t])

LEMMA WorkInit == Init => WorkInv
BY DEF Init, WorkInv, Before, Working

\* Others may append to a shared object, which hides nothing.
LEMMA WorkOfOthers ==
    ASSUME TypeInv, ObjectInv, WorkInv, NEW t \in Turn, Step(t) \/ Trouble(t),
           NEW s \in Turn \ {t}
    PROVE  WorkOf(s)'
<1>1. /\ pc'[s] = pc[s] /\ iter'[s] = iter[s] /\ calls'[s] = calls[s]
      /\ request'[s] = request[s]
  BY OthersStand
<1>2. CASE pc[s] = "new"
  BY <1>1, <1>2 DEF WorkInv, WorkOf, Before, Working
<1>3. CASE pc[s] # "new"
  <2>1. PICK ms \in Seq(Message) : ref'[s] = ref[s] /\ obj'[ref[s]] = obj[ref[s]] \o ms
    BY <1>3, ObjectsGrow
  <2>2. obj[ref[s]] \in Seq(Message)
    BY DEF TypeInv, TypeOK
  <2>3. \A n : Shows(obj[ref[s]], s, n) => Shows(obj'[ref'[s]], s, n)
    BY <2>1, <2>2, ShowsGrows
  <2>4. \A x : Has(obj[ref[s]], x) => Has(obj'[ref'[s]], x)
    BY <2>1, <2>2, HasGrows
  <2> QED
    BY <1>1, <2>3, <2>4 DEF WorkInv, WorkOf
<1> QED
  BY <1>2, <1>3

\* Steps of a turn that leave its rounds of tools alone.
LEMMA WorkQuiet ==
    ASSUME TypeInv, ObjectInv, WorkInv, NEW t \in Turn, Step(t) \/ Trouble(t),
           iter'[t] = iter[t], pc[t] \in Working,
           pc'[t] \notin Before \cup {"tools", "llm"}
    PROVE  WorkOf(t)'
<1>1. PICK ms \in Seq(Message) : ref'[t] = ref[t] /\ obj'[ref[t]] = obj[ref[t]] \o ms
  BY ObjectsGrow DEF Working
<1>2. obj[ref[t]] \in Seq(Message)
  BY DEF TypeInv, TypeOK
<1>3. Shows(obj'[ref'[t]], t, iter[t])
  BY <1>1, <1>2, ShowsGrows DEF WorkInv
<1> QED
  BY <1>3 DEF WorkOf

LEMMA WorkOfOwn ==
    ASSUME TypeInv, ObjectInv, WorkInv, NEW t \in Turn, Step(t) \/ Trouble(t)
    PROVE  WorkOf(t)'
<1>0. /\ pc \in [Turn -> Phase] /\ obj[ref[t]] \in Seq(Message)
      /\ iter \in [Turn -> 0..MaxToolIterations] /\ calls \in [Turn -> 0..MaxCalls]
      /\ request \in [Turn -> Seq(Message)]
  BY DEF TypeInv, TypeOK
<1> USE DEF Go, Show, Ended
<1>1. CASE LoadStarter(t) \/ LoadConversation(t)
  BY <1>0, <1>1 DEF LoadStarter, LoadConversation, WorkInv, WorkOf, Before, Working
<1>2. CASE SaveStarter(t) \/ StarterFails(t) \/ WorkflowHandles(t) \/ AfterMessageHooks(t)
           \/ SaveConversation(t) \/ Raises(t) \/ Disconnects(t)
  <2>1. pc'[t] \in Ended \cup {"after"}
    BY <1>0, <1>2
    DEF SaveStarter, StarterFails, WorkflowHandles, AfterMessageHooks, SaveConversation,
        Raises, Disconnects
  <2> QED
    BY <2>1 DEF WorkOf, Before, Working
<1>3. CASE WorkflowPasses(t)
  BY <1>0, <1>3 DEF WorkflowPasses, WorkInv, WorkOf, Before, Working
<1>4. CASE AddUserMessage(t)
  <2>1. UserMsg(t) \in Message
    BY MessageTypes
  <2>2. /\ pc'[t] = "build" /\ iter'[t] = 0
        /\ obj'[ref'[t]] = obj[ref[t]] \o <<UserMsg(t)>>
    <3>1. <<UserMsg(t)>> \in Seq(Message)
      BY <2>1
    <3> QED
      BY <1>0, <1>4, <3>1, AddedToOwn DEF AddUserMessage, WorkInv, Before
  <2>3. Has(obj'[ref'[t]], UserMsg(t))
    BY <1>0, <2>1, <2>2, HasLast
  <2>4. Shows(obj'[ref'[t]], t, 0)
    BY <2>3 DEF Shows
  <2> QED
    BY <2>2, <2>4 DEF WorkOf, Before
<1>5. CASE BuildRequest(t)
  <2>1. /\ pc'[t] \in {"llm", "save"} /\ iter'[t] = iter[t]
        /\ obj'[ref'[t]] = obj[ref[t]] /\ request'[t] = obj[ref[t]]
        /\ Shows(obj[ref[t]], t, iter[t])
    BY <1>0, <1>5 DEF BuildRequest, WorkInv, Working
  <2> QED
    BY <2>1 DEF WorkOf, Before
<1>6. CASE \E n \in 1..MaxCalls : LlmCallsTools(t, n)
  <2>1. PICK n \in 1..MaxCalls : LlmCallsTools(t, n)
    BY <1>6
  <2> DEFINE x == CallsMsg(t, iter[t] + 1, n)
  <2>2. x \in Message
    <3>1. iter[t] + 1 \in Nat /\ n \in Nat
      BY <1>0, LimitAssumption
    <3> QED
      BY <3>1, MessageTypes
  <2>3. /\ pc'[t] = "tools" /\ iter'[t] = iter[t] + 1 /\ calls'[t] = n
        /\ Shows(obj[ref[t]], t, iter[t])
    BY <1>0, <2>1 DEF LlmCallsTools, WorkInv, Working
  <2>4. obj'[ref'[t]] = obj[ref[t]] \o <<x>>
    <3>1. <<x>> \in Seq(Message)
      BY <2>2
    <3> QED
      BY <2>1, <3>1, AddedToOwn DEF LlmCallsTools
  <2> HIDE DEF x
  <2>5. Has(obj'[ref'[t]], x)
    BY <1>0, <2>2, <2>4, HasLast
  <2>6. Shows(obj'[ref'[t]], t, iter[t])
    <3>1. <<x>> \in Seq(Message)
      BY <2>2
    <3> QED
      BY <1>0, <2>3, <2>4, <3>1, ShowsGrows
  <2>7. iter'[t] > 0 /\ iter'[t] - 1 = iter[t]
    <3>1. iter[t] \in Nat
      BY <1>0, LimitAssumption
    <3> QED
      BY <2>3, <3>1
  <2> QED
    BY <2>3, <2>5, <2>6, <2>7 DEF WorkOf, Before, Working, x
<1>7. CASE AddToolResults(t)
  <2> DEFINE ms == ToolMsgs(t, iter[t], calls[t])
             m == obj[ref[t]]
  <2>0. iter[t] \in Nat /\ calls[t] \in Nat
    BY <1>0, LimitAssumption
  <2>1. /\ ms \in Seq(Message) /\ DOMAIN ms = 1..calls[t]
        /\ \A k \in 1..calls[t] : ms[k] = ToolMsg(t, iter[t], k)
    BY <2>0, MessageTypes DEF ToolMsgs
  <2>2. /\ pc'[t] = "build" /\ iter'[t] = iter[t]
        /\ iter[t] > 0 /\ calls[t] \in 1..MaxCalls
        /\ Shows(m, t, iter[t] - 1)
        /\ Has(m, CallsMsg(t, iter[t], calls[t]))
    BY <1>0, <1>7 DEF AddToolResults, WorkInv
  <2>3. obj'[ref'[t]] = m \o ms
    BY <1>7, <2>1, AddedToOwn DEF AddToolResults
  <2> HIDE DEF ms, m
  <2>a. m \in Seq(Message)
    BY <1>0 DEF m
  <2>4. /\ Shows(m \o ms, t, iter[t] - 1)
        /\ Has(m \o ms, CallsMsg(t, iter[t], calls[t]))
    BY <2>a, <2>1, <2>2, ShowsGrows, HasGrows
  <2>5. \A j \in 1..calls[t] : Has(m \o ms, ToolMsg(t, iter[t], j))
    BY <2>a, <2>1, HasAdded
  <2>6. \A i \in 1..iter[t] : i \in 1..(iter[t] - 1) \/ i = iter[t]
    BY <2>0
  <2>7. Shows(m \o ms, t, iter[t])
    BY <2>2, <2>4, <2>5, <2>6 DEF Shows
  <2> QED
    BY <2>2, <2>3, <2>7 DEF WorkOf, Before
<1>8. CASE LlmAnswers(t) \/ AddAnswer(t)
  <2>1. /\ pc[t] \in Working /\ pc'[t] \in {"ready", "save"} /\ iter'[t] = iter[t]
    BY <1>0, <1>8 DEF LlmAnswers, AddAnswer, Working
  <2> QED
    BY <2>1, WorkQuiet DEF Before
<1>9. CASE WriteBreaks(t)
  BY <1>0, <1>9 DEF WriteBreaks, WorkInv, WorkOf, Before, Working
<1> QED
  BY <1>1, <1>2, <1>3, <1>4, <1>5, <1>6, <1>7, <1>8, <1>9 DEF Step, Trouble

LEMMA WorkStep == TypeInv /\ ObjectInv /\ WorkInv /\ [Next]_vars => WorkInv'
<1> SUFFICES ASSUME TypeInv, ObjectInv, WorkInv, [Next]_vars PROVE WorkInv'
  OBVIOUS
<1>1. ASSUME NEW t \in Turn, Step(t) \/ Trouble(t) PROVE WorkInv'
  <2>1. \A s \in Turn : WorkOf(s)'
    BY <1>1, WorkOfOthers, WorkOfOwn
  <2> QED
    BY <2>1 DEF WorkInv, WorkOf
<1>2. ASSUME NEW c \in Conv, DeleteConversation(c) PROVE WorkInv'
  BY <1>2 DEF DeleteConversation, WorkInv
<1>3. CASE Crash
  <2>1. /\ UNCHANGED <<ref, obj, iter, calls, request>>
        /\ \A t \in Turn : pc'[t] = pc[t] \/ pc'[t] = "gone"
    BY <1>3 DEF Crash
  <2> QED
    BY <2>1 DEF WorkInv, Before, Working
<1>4. CASE UNCHANGED vars
  BY <1>4 DEF vars, WorkInv
<1> QED
  BY <1>1, <1>2, <1>3, <1>4 DEF Next

-----------------------------------------------------------------------------
(* Answers after calls.                                                    *)

LEMMA FollowInit == Init => FollowInv
BY DEF Init, FollowInv, Follows, Absent

\* A message that is no answer, at the end.
LEMMA FollowsPlain ==
    ASSUME NEW m \in Seq(Message), Follows(m), NEW x \in Message, x.role # "tool"
    PROVE  Follows(m \o <<x>>)
<1> DEFINE p == m \o <<x>>
<1>1. \A i \in DOMAIN m : p[i] = m[i]
  BY KeepsBefore
<1>2. DOMAIN p = DOMAIN m \cup {Len(m) + 1} /\ p[Len(m) + 1] = x
  BY LastMessage
<1> HIDE DEF p
<1>3. ASSUME NEW j \in DOMAIN m, p[j].role = "tool"
      PROVE  \E i \in 1..(j - 1) : /\ p[i].role = "calls"
                                   /\ p[i].turn = p[j].turn /\ p[i].iter = p[j].iter
  <2>1. PICK i \in 1..(j - 1) : /\ m[i].role = "calls"
                                /\ m[i].turn = m[j].turn /\ m[i].iter = m[j].iter
    BY <1>1, <1>3 DEF Follows
  <2>2. i \in DOMAIN m
    BY <2>1
  <2> QED
    BY <1>1, <2>1, <2>2
<1>4. Follows(p)
  BY <1>2, <1>3 DEF Follows
<1> QED
  BY <1>4 DEF p

\* Answers to a call that m has.
LEMMA FollowsAnswers ==
    ASSUME NEW m \in Seq(Message), Follows(m), NEW t \in Turn, NEW i \in Nat, NEW n \in Nat,
           Has(m, CallsMsg(t, i, n))
    PROVE  Follows(m \o ToolMsgs(t, i, n))
<1> DEFINE s == ToolMsgs(t, i, n)
           p == m \o s
<1>0. s \in Seq(Message) /\ Len(s) = n /\ \A k \in 1..n : s[k] = ToolMsg(t, i, k)
  BY MessageTypes DEF ToolMsgs
<1> HIDE DEF s
<1>1. \A j \in DOMAIN m : p[j] = m[j]
  BY <1>0, KeepsBefore
<1>2. /\ DOMAIN p = 1..(Len(m) + n)
      /\ \A j \in (Len(m) + 1)..(Len(m) + n) : p[j] = s[j - Len(m)]
  BY <1>0
<1>3. PICK c \in DOMAIN m : m[c] = CallsMsg(t, i, n)
  BY DEF Has
<1> HIDE DEF p
<1>4. ASSUME NEW j \in DOMAIN m, p[j].role = "tool"
      PROVE  \E l \in 1..(j - 1) : /\ p[l].role = "calls"
                                   /\ p[l].turn = p[j].turn /\ p[l].iter = p[j].iter
  <2>1. PICK l \in 1..(j - 1) : /\ m[l].role = "calls"
                                /\ m[l].turn = m[j].turn /\ m[l].iter = m[j].iter
    BY <1>1, <1>4 DEF Follows
  <2>2. l \in DOMAIN m
    BY <2>1
  <2> QED
    BY <1>1, <2>1, <2>2
<1>5. ASSUME NEW j \in (Len(m) + 1)..(Len(m) + n)
      PROVE  \E l \in 1..(j - 1) : /\ p[l].role = "calls"
                                   /\ p[l].turn = p[j].turn /\ p[l].iter = p[j].iter
  <2>1. j - Len(m) \in 1..n /\ c \in 1..(j - 1)
    BY <1>3
  <2>2. p[j] = ToolMsg(t, i, j - Len(m))
    BY <1>0, <1>2, <2>1
  <2>3. p[c] = CallsMsg(t, i, n)
    BY <1>1, <1>3
  <2> QED
    BY <2>1, <2>2, <2>3 DEF ToolMsg, CallsMsg
<1>6. \A j \in DOMAIN p : j \in DOMAIN m \/ j \in (Len(m) + 1)..(Len(m) + n)
  BY <1>2
<1>7. Follows(p)
  BY <1>4, <1>5, <1>6 DEF Follows
<1> QED
  BY <1>7 DEF p, s

\* Every object that a step writes, and every file, is one of these.
LEMMA FollowStep ==
    ASSUME TypeInv, WorkInv, FollowInv, [Next]_vars
    PROVE  FollowInv'
<1>0. /\ obj \in [Turn -> Seq(Message)] /\ ref \in [Turn -> Turn]
      /\ disk \in [Conv -> [status : FileStatus, msgs : Seq(Message)]]
      /\ ConvOf \in [Turn -> Conv]
  BY ConvOfAssumption DEF TypeInv, TypeOK
<1>e. Follows(<<>>) /\ Absent.msgs = <<>> /\ Torn.msgs = <<>>
  BY DEF Follows, Absent, Torn
<1>1. ASSUME NEW t \in Turn, NEW ms, Follows(obj[ref[t]] \o ms),
             UNCHANGED obj \/ AddMessages(t, ms),
             Persist(t, obj[ref[t]]) \/ Persist(t, obj[ref[t]] \o ms)
                \/ UNCHANGED disk \/ disk' = [disk EXCEPT ![ConvOf[t]] = Torn]
      PROVE  FollowInv'
  <2>1. \A s \in Turn : Follows(obj'[s])
    BY <1>0, <1>1 DEF FollowInv, AddMessages
  <2>2. /\ Follows(obj[ref[t]]) /\ Follows(obj[ref[t]] \o ms) /\ Follows(Torn.msgs)
        /\ \A c \in Conv : Follows(disk[c].msgs)
    BY <1>0, <1>e, <1>1 DEF FollowInv
  <2>3. ASSUME NEW m, Persist(t, m), Follows(m) PROVE \A c \in Conv : Follows(disk'[c].msgs)
    BY <1>0, <2>2, <2>3 DEF Persist
  <2>4. ASSUME UNCHANGED disk \/ disk' = [disk EXCEPT ![ConvOf[t]] = Torn]
        PROVE  \A c \in Conv : Follows(disk'[c].msgs)
    BY <1>0, <2>2, <2>4
  <2>5. \A c \in Conv : Follows(disk'[c].msgs)
    BY <1>1, <2>2, <2>3, <2>4
  <2> QED
    BY <2>1, <2>5 DEF FollowInv
<1>2. ASSUME NEW t \in Turn, UNCHANGED obj,
             Persist(t, obj[ref[t]]) \/ UNCHANGED disk
                \/ disk' = [disk EXCEPT ![ConvOf[t]] = Torn]
      PROVE  FollowInv'
  <2>1. obj[ref[t]] \o <<>> = obj[ref[t]] /\ Follows(obj[ref[t]])
    BY <1>0 DEF FollowInv
  <2> QED
    BY <1>1, <1>2, <2>1
<1>3. ASSUME NEW t \in Turn, LoadStarter(t) \/ LoadConversation(t) PROVE FollowInv'
  <2>1. Load(t) /\ UNCHANGED disk
    BY <1>3 DEF LoadStarter, LoadConversation
  <2> QED
    BY <1>0, <1>e, <2>1 DEF FollowInv, Load
<1>4. ASSUME NEW t \in Turn,
             SaveStarter(t) \/ StarterFails(t) \/ WorkflowHandles(t) \/ WorkflowPasses(t)
             \/ BuildRequest(t) \/ LlmAnswers(t) \/ SaveConversation(t)
             \/ AfterMessageHooks(t) \/ Raises(t) \/ Disconnects(t)
      PROVE  FollowInv'
  BY <1>2, <1>4
  DEF SaveStarter, StarterFails, WorkflowHandles, WorkflowPasses, BuildRequest, LlmAnswers,
      SaveConversation, AfterMessageHooks, Raises, Disconnects
<1>5. ASSUME NEW t \in Turn, AddUserMessage(t) \/ WriteBreaks(t) PROVE FollowInv'
  <2> DEFINE x == UserMsg(t)
  <2>1. x \in Message /\ x.role # "tool"
    BY MessageTypes DEF UserMsg
  <2>2. /\ UNCHANGED obj \/ AddMessages(t, <<x>>)
        /\ \/ Persist(t, Append(obj[ref[t]], x))
           \/ UNCHANGED disk
           \/ disk' = [disk EXCEPT ![ConvOf[t]] = Torn]
    BY <1>5 DEF AddUserMessage, WriteBreaks
  <2> HIDE DEF x
  <2>3. Follows(obj[ref[t]] \o <<x>>) /\ Append(obj[ref[t]], x) = obj[ref[t]] \o <<x>>
    BY <1>0, <2>1, FollowsPlain, LastMessage DEF FollowInv
  <2> QED
    BY <1>1, <2>2, <2>3
<1>6. ASSUME NEW t \in Turn, NEW n \in 1..MaxCalls, LlmCallsTools(t, n) PROVE FollowInv'
  <2> DEFINE x == CallsMsg(t, iter[t] + 1, n)
  <2>1. x \in Message /\ x.role # "tool"
    <3>1. iter[t] + 1 \in Nat /\ n \in Nat
      BY LimitAssumption DEF TypeInv, TypeOK
    <3> QED
      BY <3>1, MessageTypes DEF CallsMsg
  <2>2. AddMessages(t, <<x>>) /\ UNCHANGED disk
    BY <1>6 DEF LlmCallsTools
  <2> HIDE DEF x
  <2>3. Follows(obj[ref[t]] \o <<x>>)
    BY <1>0, <2>1, FollowsPlain DEF FollowInv
  <2> QED
    BY <1>1, <2>2, <2>3
<1>7. ASSUME NEW t \in Turn, AddToolResults(t) PROVE FollowInv'
  <2>1. /\ iter[t] \in Nat /\ calls[t] \in Nat
        /\ Has(obj[ref[t]], CallsMsg(t, iter[t], calls[t]))
    BY <1>7, LimitAssumption DEF AddToolResults, WorkInv, TypeInv, TypeOK
  <2>2. Follows(obj[ref[t]] \o ToolMsgs(t, iter[t], calls[t]))
    BY <1>0, <2>1, FollowsAnswers DEF FollowInv
  <2> QED
    BY <1>1, <1>7, <2>2 DEF AddToolResults
<1>8. ASSUME NEW t \in Turn, AddAnswer(t) PROVE FollowInv'
  <2> DEFINE x == AnswerMsg(t)
  <2>1. x \in Message /\ x.role # "tool"
    BY MessageTypes DEF AnswerMsg
  <2>2. (UNCHANGED obj \/ AddMessages(t, <<x>>)) /\ UNCHANGED disk
    BY <1>8 DEF AddAnswer
  <2> HIDE DEF x
  <2>3. Follows(obj[ref[t]] \o <<x>>)
    BY <1>0, <2>1, FollowsPlain DEF FollowInv
  <2> QED
    BY <1>1, <2>2, <2>3
<1>9. ASSUME NEW c \in Conv, DeleteConversation(c) PROVE FollowInv'
  BY <1>0, <1>e, <1>9 DEF DeleteConversation, FollowInv
<1>10. CASE Crash
  BY <1>10 DEF Crash, FollowInv
<1>11. CASE UNCHANGED vars
  BY <1>11 DEF vars, FollowInv
<1> QED
  BY <1>3, <1>4, <1>5, <1>6, <1>7, <1>8, <1>9, <1>10, <1>11 DEF Next, Step, Trouble

-----------------------------------------------------------------------------
(* What the client was told last.                                          *)

LEMMA StatusInit == Init => StatusInv
BY DEF Init, StatusInv

LEMMA StatusStep == TypeInv /\ StatusInv /\ [Next]_vars => StatusInv'
<1> SUFFICES ASSUME TypeInv, StatusInv, [Next]_vars PROVE StatusInv'
  OBVIOUS
<1> DEFINE Calm == {"new", "starter", "ready", "save", "after", "done", "failed"}
<1>0. pc \in [Turn -> Phase] /\ ui \in [Turn -> UiStatus]
  BY DEF TypeInv, TypeOK
<1>1. ASSUME NEW t \in Turn, Step(t) \/ Trouble(t) PROVE StatusInv'
  <2>1. pc'[t] \in Calm => ui'[t] # "working"
    <3> USE <1>0 DEF Go, Show
    <3>1. CASE LoadStarter(t) \/ SaveStarter(t) \/ StarterFails(t)
      BY <3>1 DEF LoadStarter, SaveStarter, StarterFails, StatusInv
    <3>2. CASE LoadConversation(t) \/ WorkflowHandles(t) \/ WorkflowPasses(t)
      BY <3>2 DEF LoadConversation, WorkflowHandles, WorkflowPasses
    <3>3. CASE AddUserMessage(t) \/ BuildRequest(t) \/ AddToolResults(t) \/ LlmAnswers(t)
      BY <3>3 DEF AddUserMessage, BuildRequest, AddToolResults, LlmAnswers
    <3>4. CASE \E n \in 1..MaxCalls : LlmCallsTools(t, n)
      BY <3>4 DEF LlmCallsTools
    <3>5. CASE AddAnswer(t) \/ SaveConversation(t) \/ AfterMessageHooks(t)
      BY <3>5 DEF AddAnswer, SaveConversation, AfterMessageHooks, StatusInv
    <3>6. CASE Raises(t) \/ Disconnects(t)
      BY <3>6 DEF Raises, Disconnects
    <3>7. CASE WriteBreaks(t)
      BY <3>7 DEF WriteBreaks, StatusInv
    <3> QED
      BY <1>1, <3>1, <3>2, <3>3, <3>4, <3>5, <3>6, <3>7 DEF Step, Trouble
  <2>2. \A s \in Turn \ {t} : pc'[s] \in Calm => ui'[s] # "working"
    BY <1>1, OthersStand DEF StatusInv
  <2> QED
    BY <2>1, <2>2 DEF StatusInv
<1>2. ASSUME NEW c \in Conv, DeleteConversation(c) PROVE StatusInv'
  BY <1>2 DEF DeleteConversation, StatusInv
<1>3. CASE Crash
  BY <1>3 DEF Crash, StatusInv, Ended
<1>4. CASE UNCHANGED vars
  BY <1>4 DEF vars, StatusInv
<1> QED
  BY <1>1, <1>2, <1>3, <1>4 DEF Next

-----------------------------------------------------------------------------

RequestsInv == TypeInv /\ ObjectInv /\ WorkInv /\ FollowInv /\ StatusInv

\* The strengthening holds in every reachable state, for both stores.
THEOREM RequestsInvariant == Spec => []RequestsInv
<1>1. Init => RequestsInv
  BY TypeInit, ObjectInit, WorkInit, FollowInit, StatusInit DEF RequestsInv
<1>2. RequestsInv /\ [Next]_vars => RequestsInv'
  BY TypeStep, ObjectStep, WorkStep, FollowStep, StatusStep DEF RequestsInv
<1> QED
  BY <1>1, <1>2, PTL DEF Spec

\* The LLM is never asked without this turn's question and everything the
\* turn's iterations called and got back, also when other turns write to the
\* same Conversation object in between (agent.py:645, 1105-1118).
THEOREM RequestShowsOwnWorkAlways == Spec => []RequestShowsOwnWork
<1>1. RequestsInv => RequestShowsOwnWork
  BY DEF RequestsInv, WorkInv, RequestShowsOwnWork, Shows
<1> QED
  BY <1>1, RequestsInvariant, PTL

\* In every conversation object an answer comes after the assistant message
\* whose call it answers, whatever other turns put between them (agent.py:671).
THEOREM AnswersFollowCallsAlways == Spec => []AnswersFollowCalls
<1>1. RequestsInv => AnswersFollowCalls
  BY DEF RequestsInv, FollowInv, Follows, AnswersFollowCalls
<1> QED
  BY <1>1, RequestsInvariant, PTL

\* A client that stayed connected to the end of its turn can type again,
\* however the turn ended (agent.py:165-228).
THEOREM NeverStuckWorkingAlways == Spec => []NeverStuckWorking
<1>1. RequestsInv => NeverStuckWorking
  BY DEF RequestsInv, StatusInv, NeverStuckWorking
<1> QED
  BY <1>1, RequestsInvariant, PTL

-----------------------------------------------------------------------------
(* How many steps a turn can take.                                         *)

\* The step of turn u that takes it from state to state.
LeavesLess(u) ==
    \/ pc'[u] = pc[u] /\ iter'[u] = iter[u]
    \/ StepsLeft(u)' \in Nat /\ StepsLeft(u)' < StepsLeft(u)

LEMMA OwnStepCounts ==
    ASSUME TypeInv, TypeInv', NEW t \in Turn, Step(t) \/ Trouble(t)
    PROVE  StepsLeft(t)' \in Nat /\ StepsLeft(t)' < StepsLeft(t)
<1>0. /\ pc \in [Turn -> Phase] /\ iter \in [Turn -> Nat] /\ MaxToolIterations \in Nat
      /\ iter[t] \in 0..MaxToolIterations /\ iter'[t] \in 0..MaxToolIterations
  BY LimitAssumption DEF TypeInv, TypeOK
<1> USE <1>0 DEF StepsLeft, Go
<1>1. CASE LoadStarter(t) \/ SaveStarter(t) \/ StarterFails(t)
  BY <1>1 DEF LoadStarter, SaveStarter, StarterFails
<1>2. CASE LoadConversation(t) \/ WorkflowHandles(t) \/ WorkflowPasses(t)
  BY <1>2 DEF LoadConversation, WorkflowHandles, WorkflowPasses
<1>3. CASE AddUserMessage(t) \/ AddToolResults(t)
  BY <1>3 DEF AddUserMessage, AddToolResults
<1>4. CASE BuildRequest(t)
  BY <1>4 DEF BuildRequest
<1>5. CASE \E n \in 1..MaxCalls : LlmCallsTools(t, n)
  BY <1>5 DEF LlmCallsTools
<1>6. CASE LlmAnswers(t) \/ AddAnswer(t)
  BY <1>6 DEF LlmAnswers, AddAnswer
<1>7. CASE SaveConversation(t) \/ AfterMessageHooks(t)
  BY <1>7 DEF SaveConversation, AfterMessageHooks
<1>8. CASE Raises(t) \/ Disconnects(t)
  BY <1>8 DEF Raises, Disconnects, Ended, Phase
<1>9. CASE WriteBreaks(t)
  BY <1>9 DEF WriteBreaks
<1> QED
  BY <1>1, <1>2, <1>3, <1>4, <1>5, <1>6, <1>7, <1>8, <1>9 DEF Step, Trouble

\* A restart ends the turns that were running.
LEMMA CrashCounts ==
    ASSUME TypeInv, Crash, NEW u \in Turn
    PROVE  LeavesLess(u)
<1>0. /\ pc \in [Turn -> Phase] /\ MaxToolIterations \in Nat
      /\ iter[u] \in 0..MaxToolIterations
  BY LimitAssumption DEF TypeInv, TypeOK
<1>1. pc' = [t \in Turn |-> IF pc[t] \in Ended \cup {"new"} THEN pc[t] ELSE "gone"]
      /\ iter' = iter
  BY DEF Crash
<1> QED
  BY <1>0, <1>1 DEF LeavesLess, StepsLeft, Ended, Phase

LEMMA EveryStepCounts ==
    TypeInv /\ TypeInv' /\ [Next]_vars => \A u \in Turn : LeavesLess(u)
<1> SUFFICES ASSUME TypeInv, TypeInv', [Next]_vars, NEW u \in Turn PROVE LeavesLess(u)
  OBVIOUS
<1>1. ASSUME NEW t \in Turn, Step(t) \/ Trouble(t) PROVE LeavesLess(u)
  BY <1>1, OthersStand, OwnStepCounts DEF LeavesLess
<1>2. ASSUME NEW c \in Conv, DeleteConversation(c) PROVE LeavesLess(u)
  BY <1>2 DEF DeleteConversation, LeavesLess
<1>3. CASE UNCHANGED vars
  BY <1>3 DEF vars, LeavesLess
<1> QED
  BY <1>1, <1>2, <1>3, CrashCounts DEF Next

\* No turn takes more than 3 * max_tool_iterations + 8 steps: each of its own
\* uses one up, and nothing that other turns, deletes and restarts do gives one
\* back (agent.py:652, 1124-1128).
THEOREM StepsRunOutAlways == Spec => StepsRunOut
<1>1. TypeInv /\ TypeInv' /\ [Next]_vars =>
        [\A t \in Turn :
            \/ UNCHANGED <<pc[t], iter[t]>>
            \/ StepsLeft(t)' \in Nat /\ StepsLeft(t)' < StepsLeft(t)]_vars
  BY EveryStepCounts DEF LeavesLess
<1> QED
  BY <1>1, TypeInit, TypeStep, PTL DEF Spec, StepsRunOut
=============================================================================
