-------------------------- MODULE AgentTurnDurable --------------------------
(***************************************************************************)
(* Theorems about what the stores keep of a turn.  The file store shows    *)
(* nothing but the user's message before the closing save; both stores     *)
(* show everything after it, unless the turn met another one, a delete, a  *)
(* broken write or, for the memory store, the end of the process.          *)
(***************************************************************************)
EXTENDS AgentTurnRequests

Fresh == {"new", "starter", "loaded", "unhandled"}
Own   == {"build", "llm", "tools", "ready", "save"}
Late  == {"after"} \cup Ended

-----------------------------------------------------------------------------
(* Nothing of a turn is stored early.                                      *)

OnlySaved(m) == \A i \in DOMAIN m : m[i].role # "user" => saved[m[i].turn]

OnlySavedOr(m, t) ==
    \A i \in DOMAIN m : m[i].role # "user" => saved[m[i].turn] \/ m[i].turn = t

\* Files hold only the work of turns that were saved; a turn's own copy holds
\* its own work besides, but not before it has left the phases in which a
\* starter request, a workflow or a new conversation is written.
AtomInv ==
    /\ \A t \in Turn : saved[t] => pc[t] \in Late
    /\ \A c \in Conv : OnlySaved(disk[c].msgs)
    /\ \A t \in Turn : OnlySavedOr(obj[t], t)
    /\ \A t \in Turn : pc[t] \in Fresh => OnlySaved(obj[t])

LEMMA AtomInit == Init => AtomInv
BY DEF Init, AtomInv, OnlySaved, OnlySavedOr, Absent

\* A step that writes no file and lets no saved turn become unsaved.
LEMMA AtomQuiet ==
    ASSUME TypeInv, AtomInv, UNCHANGED <<obj, disk, saved>>,
           \A t \in Turn : pc'[t] \in Fresh => pc[t] \in Fresh,
           \A t \in Turn : pc[t] \in Late => pc'[t] \in Late
    PROVE  AtomInv'
BY DEF TypeInv, TypeOK, AtomInv, OnlySaved, OnlySavedOr

\* A turn adds messages of its own to its own copy.
LEMMA AtomAdd ==
    ASSUME TypeInv, AtomInv, NEW t \in Turn, NEW ms \in Seq(Message),
           \A k \in DOMAIN ms : ms[k].turn = t,
           obj' = [obj EXCEPT ![t] = @ \o ms], UNCHANGED saved,
           \A c \in Conv : OnlySaved(disk'[c].msgs),
           \A s \in Turn : pc'[s] \in Fresh => s # t /\ pc[s] \in Fresh,
           \A s \in Turn : pc[s] \in Late => pc'[s] \in Late
    PROVE  AtomInv'
<1>1. \A s \in Turn : OnlySavedOr(obj[s], s)
  BY DEF AtomInv
<1>2. OnlySavedOr(obj[t] \o ms, t)
  <2> SUFFICES ASSUME NEW i \in DOMAIN (obj[t] \o ms),
                      (obj[t] \o ms)[i].role # "user"
               PROVE  saved[(obj[t] \o ms)[i].turn] \/ (obj[t] \o ms)[i].turn = t
    BY DEF OnlySavedOr
  <2>0. obj[t] \in Seq(Message)
    BY DEF TypeInv, TypeOK
  <2>1. CASE i \in DOMAIN obj[t]
    <3>1. (obj[t] \o ms)[i] = obj[t][i]
      BY <2>0, <2>1
    <3> QED
      BY <1>1, <2>1, <3>1 DEF OnlySavedOr
  <2>2. CASE i \notin DOMAIN obj[t]
    <3>1. i - Len(obj[t]) \in DOMAIN ms /\ (obj[t] \o ms)[i] = ms[i - Len(obj[t])]
      BY <2>0, <2>2
    <3> QED
      BY <3>1
  <2> QED
    BY <2>1, <2>2
<1>3. obj'[t] = obj[t] \o ms /\ \A s \in Turn \ {t} : obj'[s] = obj[s]
  BY DEF TypeInv, TypeOK
<1>4. \A s \in Turn : OnlySavedOr(obj'[s], s)
  BY <1>1, <1>2, <1>3
<1>5. \A s \in Turn : pc'[s] \in Fresh => OnlySaved(obj'[s])
  BY <1>3 DEF AtomInv
<1>6. \A s \in Turn : saved'[s] => pc'[s] \in Late
  BY DEF AtomInv
<1> QED
  BY <1>4, <1>5, <1>6 DEF AtomInv, OnlySaved, OnlySavedOr

\* update_conversation of a copy that holds only the work of saved turns.
LEMMA AtomPersist ==
    ASSUME StoreKind = "file", TypeInv, AtomInv, NEW t \in Turn, NEW m \in Seq(Message),
           Persist(t, m), OnlySaved(m)
    PROVE  \A c \in Conv : OnlySaved(disk'[c].msgs)
BY ConvOfAssumption DEF TypeInv, TypeOK, AtomInv, Persist

LEMMA AtomStep ==
    ASSUME StoreKind = "file", TypeInv, CopyInv, AtomInv, [Next]_vars
    PROVE  AtomInv'
<1> USE ConvOfAssumption, SaveAssumption DEF Go, Fresh, Late, Ended
<1>0. /\ pc \in [Turn -> Phase]
      /\ \A t \in Turn : ref[t] = t /\ obj[t] \in Seq(Message)
  BY DEF TypeInv, TypeOK, CopyInv
<1>1. ASSUME NEW t \in Turn, LoadStarter(t) \/ LoadConversation(t) PROVE AtomInv'
  <2>1. /\ pc[t] = "new" /\ pc'[t] \in Fresh
        /\ \A s \in Turn \ {t} : pc'[s] = pc[s] /\ obj'[s] = obj[s]
        /\ UNCHANGED <<disk, saved>>
    BY <1>0, <1>1 DEF LoadStarter, LoadConversation, Load, TypeInv, TypeOK
  <2>2. obj'[t] = disk[ConvOf[t]].msgs \/ obj'[t] = <<>>
    BY <1>1 DEF LoadStarter, LoadConversation, Load, TypeInv, TypeOK
  <2>3. OnlySaved(obj'[t]) /\ OnlySavedOr(obj'[t], t)
    BY <2>2 DEF AtomInv, OnlySaved, OnlySavedOr
  <2> QED
    BY <2>1, <2>3 DEF AtomInv, OnlySaved, OnlySavedOr
<1>2. ASSUME NEW t \in Turn, SaveStarter(t) \/ WorkflowHandles(t) PROVE AtomInv'
  <2>1. /\ OnlySaved(obj[ref[t]]) /\ obj[ref[t]] \in Seq(Message)
        /\ pc[t] \in Fresh /\ pc' = [pc EXCEPT ![t] = "done"]
        /\ UNCHANGED <<obj, saved>>
    BY <1>0, <1>2 DEF SaveStarter, WorkflowHandles, AtomInv
  <2>2. Persist(t, obj[ref[t]]) \/ UNCHANGED disk
    BY <1>2 DEF SaveStarter, WorkflowHandles
  <2>3. \A c \in Conv : OnlySaved(disk'[c].msgs)
    BY <2>1, <2>2, AtomPersist DEF AtomInv
  <2> QED
    BY <1>0, <2>1, <2>3 DEF AtomInv, OnlySaved, OnlySavedOr
<1>3. ASSUME NEW t \in Turn,
             StarterFails(t) \/ WorkflowPasses(t) \/ BuildRequest(t)
             \/ LlmAnswers(t) \/ AfterMessageHooks(t) \/ Raises(t)
             \/ Disconnects(t)
      PROVE  AtomInv'
  BY <1>0, <1>3, AtomQuiet
  DEF StarterFails, WorkflowPasses, BuildRequest, LlmAnswers,
      AfterMessageHooks, Raises, Disconnects, Phase
<1>4. ASSUME NEW t \in Turn, AddUserMessage(t) PROVE AtomInv'
  <2> DEFINE m == Append(obj[ref[t]], UserMsg(t))
             ms == <<UserMsg(t)>>
  <2>1. /\ ms \in Seq(Message) /\ m \in Seq(Message)
        /\ \A k \in DOMAIN ms : ms[k].turn = t
    <3>1. UserMsg(t) \in Message /\ UserMsg(t).turn = t
      BY MessageTypes DEF UserMsg
    <3>2. obj[ref[t]] \in Seq(Message)
      BY <1>0
    <3> HIDE DEF UserMsg
    <3> QED
      BY <3>1, <3>2
  <2>2. OnlySaved(obj[t])
    BY <1>4 DEF AddUserMessage, AtomInv
  <2>3. OnlySaved(m)
    <3> SUFFICES ASSUME NEW i \in DOMAIN m, m[i].role # "user"
                 PROVE  saved[m[i].turn]
      BY DEF OnlySaved
    <3>1. /\ ref[t] = t /\ obj[t] \in Seq(Message)
          /\ UserMsg(t).role = "user"
      BY <1>0 DEF UserMsg
    <3>2. i \in 1..(Len(obj[t]) + 1)
      BY <3>1
    <3>3. CASE i = Len(obj[t]) + 1
      <4>1. m[i] = UserMsg(t)
        BY <3>1, <3>3
      <4> QED
        BY <3>1, <4>1
    <3>4. CASE i \in DOMAIN obj[t]
      <4>1. m[i] = obj[t][i]
        BY <3>1, <3>4
      <4> QED
        BY <2>2, <3>4, <4>1 DEF OnlySaved
    <3> QED
      BY <3>1, <3>2, <3>3, <3>4
  <2>4. Persist(t, m) \/ UNCHANGED disk
    BY <1>4 DEF AddUserMessage
  <2> HIDE DEF m
  <2>5. \A c \in Conv : OnlySaved(disk'[c].msgs)
    <3>1. CASE Persist(t, m)
      BY <2>1, <2>3, <3>1, AtomPersist
    <3>2. CASE UNCHANGED disk
      BY <3>2 DEF AtomInv
    <3> QED
      BY <2>4, <3>1, <3>2
  <2> HIDE DEF ms
  <2>6. obj' = [obj EXCEPT ![t] = @ \o ms]
    BY <1>0, <1>4 DEF AddUserMessage, AddMessages, ms
  <2>7. /\ pc[t] = "unhandled" /\ pc' = [pc EXCEPT ![t] = "build"]
        /\ UNCHANGED saved
    BY <1>4 DEF AddUserMessage
  <2> QED
    BY <1>0, <2>1, <2>5, <2>6, <2>7, AtomAdd
<1>5. ASSUME NEW t \in Turn, NEW n \in 1..MaxCalls, LlmCallsTools(t, n) PROVE AtomInv'
  <2> DEFINE ms == <<CallsMsg(t, iter[t] + 1, n)>>
  <2>0. iter[t] + 1 \in Nat /\ n \in Nat
    BY LimitAssumption DEF TypeInv, TypeOK
  <2>1. ms \in Seq(Message) /\ \A k \in DOMAIN ms : ms[k].turn = t
    BY <2>0, MessageTypes DEF CallsMsg
  <2> HIDE DEF ms
  <2>2. obj' = [obj EXCEPT ![t] = @ \o ms]
    BY <1>0, <1>5 DEF LlmCallsTools, AddMessages, ms
  <2>3. /\ pc[t] = "llm" /\ pc' = [pc EXCEPT ![t] = "tools"]
        /\ UNCHANGED <<disk, saved>>
    BY <1>5 DEF LlmCallsTools
  <2>4. \A c \in Conv : OnlySaved(disk'[c].msgs)
    BY <2>3 DEF AtomInv
  <2> QED
    BY <1>0, <2>1, <2>2, <2>3, <2>4, AtomAdd
<1>6. ASSUME NEW t \in Turn, AddToolResults(t) PROVE AtomInv'
  <2> DEFINE ms == ToolMsgs(t, iter[t], calls[t])
  <2>0. iter[t] \in Nat /\ calls[t] \in Nat
    BY LimitAssumption DEF TypeInv, TypeOK
  <2>1. ms \in Seq(Message) /\ \A k \in DOMAIN ms : ms[k].turn = t
    BY <2>0, MessageTypes DEF ToolMsgs, ToolMsg
  <2> HIDE DEF ms
  <2>2. obj' = [obj EXCEPT ![t] = @ \o ms]
    BY <1>0, <1>6 DEF AddToolResults, AddMessages, ms
  <2>3. /\ pc[t] = "tools" /\ pc' = [pc EXCEPT ![t] = "build"]
        /\ UNCHANGED <<disk, saved>>
    BY <1>6 DEF AddToolResults
  <2>4. \A c \in Conv : OnlySaved(disk'[c].msgs)
    BY <2>3 DEF AtomInv
  <2> QED
    BY <1>0, <2>1, <2>2, <2>3, <2>4, AtomAdd
<1>7. ASSUME NEW t \in Turn, AddAnswer(t) PROVE AtomInv'
  <2> DEFINE ms == <<AnswerMsg(t)>>
  <2>1. ms \in Seq(Message) /\ \A k \in DOMAIN ms : ms[k].turn = t
    BY MessageTypes DEF AnswerMsg
  <2>3. /\ pc[t] = "ready" /\ pc' = [pc EXCEPT ![t] = "save"]
        /\ UNCHANGED <<disk, saved>>
    BY <1>7 DEF AddAnswer
  <2>4. \A c \in Conv : OnlySaved(disk'[c].msgs)
    BY <2>3 DEF AtomInv
  <2> HIDE DEF ms
  <2>5. CASE UNCHANGED obj
    BY <1>0, <2>3, <2>5, AtomQuiet
  <2>6. CASE obj' = [obj EXCEPT ![t] = @ \o ms]
    BY <1>0, <2>1, <2>3, <2>4, <2>6, AtomAdd
  <2> QED
    BY <1>0, <1>7, <2>5, <2>6 DEF AddAnswer, AddMessages, ms
<1>8. ASSUME NEW t \in Turn, SaveConversation(t) PROVE AtomInv'
  <2>1. /\ pc[t] = "save" /\ pc' = [pc EXCEPT ![t] = "after"]
        /\ ~saved[t] /\ saved' = [saved EXCEPT ![t] = AutoSave]
        /\ UNCHANGED obj
    BY <1>8 DEF SaveConversation, AtomInv
  <2>2. \A s \in Turn : saved[s] => saved'[s]
    BY <2>1 DEF TypeInv, TypeOK
  <2>3. CASE AutoSave
    <3>1. saved'[t] /\ Persist(t, obj[t])
      BY <1>0, <1>8, <2>1, <2>3 DEF SaveConversation, TypeInv, TypeOK
    <3>2. \A m \in Seq(Message) : \A i \in DOMAIN m : m[i].turn \in Turn
      <4> SUFFICES ASSUME NEW m \in Seq(Message), NEW i \in DOMAIN m
                   PROVE  m[i].turn \in Turn
        OBVIOUS
      <4>1. m[i] \in Message
        OBVIOUS
      <4> QED
        BY <4>1 DEF Message
    <3>3. \A s \in Turn : OnlySavedOr(obj[s], s)
      BY DEF AtomInv
    <3>4. \A s \in Turn : \A i \in DOMAIN obj[s] : obj[s][i].turn \in Turn
      BY <1>0, <3>2
    <3>5. \A s \in Turn : \A i \in DOMAIN obj[s] :
             obj[s][i].role # "user" => saved'[obj[s][i].turn] \/ obj[s][i].turn = s
      BY <2>2, <3>3, <3>4 DEF OnlySavedOr
    <3>6. \A c \in Conv : disk'[c].msgs = IF c = ConvOf[t] THEN obj[t] ELSE disk[c].msgs
      BY <3>1 DEF Persist, TypeInv, TypeOK
    <3>7. \A c \in Conv : \A i \in DOMAIN disk'[c].msgs :
             disk'[c].msgs[i].role # "user" => saved'[disk'[c].msgs[i].turn]
      <4> SUFFICES ASSUME NEW c \in Conv, NEW i \in DOMAIN disk'[c].msgs,
                          disk'[c].msgs[i].role # "user"
                   PROVE  saved'[disk'[c].msgs[i].turn]
        OBVIOUS
      <4>1. CASE c = ConvOf[t]
        BY <3>1, <3>5, <3>6, <4>1
      <4>2. CASE c # ConvOf[t]
        <5>1. disk'[c].msgs = disk[c].msgs /\ disk[c].msgs \in Seq(Message)
          BY <3>6, <4>2 DEF TypeInv, TypeOK
        <5>2. disk[c].msgs[i].turn \in Turn
          BY <3>2, <5>1
        <5> QED
          BY <2>2, <5>1, <5>2 DEF AtomInv, OnlySaved
      <4> QED
        BY <4>1, <4>2
    <3>8. \A s \in Turn : pc'[s] \in Fresh => \A i \in DOMAIN obj[s] :
             obj[s][i].role # "user" => saved'[obj[s][i].turn]
      <4> SUFFICES ASSUME NEW s \in Turn, pc'[s] \in Fresh, NEW i \in DOMAIN obj[s],
                          obj[s][i].role # "user"
                   PROVE  saved'[obj[s][i].turn]
        OBVIOUS
      <4>1. pc[s] \in Fresh
        BY <1>0, <2>1
      <4> QED
        BY <2>2, <3>4, <4>1 DEF AtomInv, OnlySaved
    <3>9. \A s \in Turn : saved'[s] => pc'[s] \in Late
      BY <1>0, <2>1 DEF AtomInv, TypeInv, TypeOK
    <3> QED
      BY <2>1, <3>5, <3>7, <3>8, <3>9 DEF AtomInv, OnlySaved, OnlySavedOr
  <2>4. CASE ~AutoSave
    <3>1. UNCHANGED <<obj, disk, saved>>
      BY <1>8, <2>1, <2>4 DEF SaveConversation, TypeInv, TypeOK
    <3> QED
      BY <1>0, <2>1, <3>1, AtomQuiet
  <2> QED
    BY <2>3, <2>4
<1>9. ASSUME NEW t \in Turn, WriteBreaks(t) PROVE AtomInv'
  <2> DEFINE ms == <<UserMsg(t)>>
  <2>1. ms \in Seq(Message) /\ \A k \in DOMAIN ms : ms[k].turn = t
    BY MessageTypes DEF UserMsg
  <2>2. OnlySaved(<<>>)
    BY DEF OnlySaved
  <2>3. \A c \in Conv : OnlySaved(disk'[c].msgs)
    BY <1>9, <2>2 DEF WriteBreaks, Torn, AtomInv, TypeInv, TypeOK
  <2> HIDE DEF ms
  <2>4. /\ UNCHANGED saved
        /\ \A s \in Turn : pc'[s] \in Fresh => pc[s] \in Fresh
        /\ \A s \in Turn : pc[s] \in Late => pc'[s] \in Late
    BY <1>0, <1>9 DEF WriteBreaks
  <2>5. \/ UNCHANGED obj
        \/ obj' = [obj EXCEPT ![t] = @ \o ms] /\ pc'[t] = "failed"
    BY <1>0, <1>9 DEF WriteBreaks, AddMessages, ms
  <2>6. CASE UNCHANGED obj
    BY <2>3, <2>4, <2>6 DEF AtomInv, OnlySaved, OnlySavedOr
  <2>7. CASE obj' = [obj EXCEPT ![t] = @ \o ms] /\ pc'[t] = "failed"
    BY <2>1, <2>3, <2>4, <2>7, AtomAdd
  <2> QED
    BY <2>5, <2>6, <2>7
<1>10. ASSUME NEW c \in Conv, DeleteConversation(c) PROVE AtomInv'
  BY <1>10 DEF DeleteConversation, AtomInv, OnlySaved, OnlySavedOr, Absent, TypeInv, TypeOK
<1>11. CASE Crash
  BY <1>0, <1>11, AtomQuiet DEF Crash
<1>12. CASE UNCHANGED vars
  BY <1>12, AtomQuiet DEF vars
<1> QED
  BY <1>1, <1>2, <1>3, <1>4, <1>5, <1>6, <1>7, <1>8, <1>9, <1>10, <1>11, <1>12
  DEF Next, Step, Trouble

\* Beyond the user's message a conversation file shows nothing of a turn that
\* has not been through its closing save, even when turns share the file
\* (agent.py:520-521, 1205).
THEOREM FileStoreAtomic ==
    ASSUME StoreKind = "file"
    PROVE  Spec => []StoredAtomically
<1>1. Init => TypeInv /\ CopyInv /\ AtomInv
  BY TypeInit, CopyInit, AtomInit
<1>2. (TypeInv /\ CopyInv /\ AtomInv) /\ [Next]_vars => (TypeInv /\ CopyInv /\ AtomInv)'
  BY TypeStep, CopyStep, AtomStep
<1>3. TypeInv /\ CopyInv /\ AtomInv => StoredAtomically
  BY DEF AtomInv, OnlySaved, StoredAtomically, Stored
<1> QED
  BY <1>1, <1>2, <1>3, PTL DEF Spec

-----------------------------------------------------------------------------
(* The file store loses no saved turn that had the conversation to itself. *)
(*                                                                         *)
(* What carries the argument from one turn to the next is CopyKept: a turn *)
(* that may write the conversation back has read everything that was saved *)
(* in it, or has met the turn that saved.                                  *)

\* m shows the user's message of t and the first n rounds of its tool calls.
KeepsUpTo(m, t, n) ==
    /\ Has(m, UserMsg(t))
    /\ \A i \in 1..n : HasCalls(m, t, i)

SafeIn(m, t) == KeepsUpTo(m, t, iter[t])

\* Every turn whose save must be visible is visible in its file.
DiskKept ==
    \A t \in Turn : saved[t] /\ t \notin excused =>
        disk[ConvOf[t]].status = "ok" /\ SafeIn(disk[ConvOf[t]].msgs, t)

CopyKept ==
    \A s, t \in Turn :
        (/\ s # t /\ ConvOf[s] = ConvOf[t] /\ Writing(s)
         /\ saved[t] /\ t \notin excused)
        => SafeIn(obj[s], t)

MetAreExcused ==
    \A s, t \in Turn :
        s # t /\ ConvOf[s] = ConvOf[t] /\ Writing(s) /\ Writing(t) => t \in excused

OwnKept == \A t \in Turn : pc[t] \in Own => SafeIn(obj[t], t)

NotStarted == \A t \in Turn : pc[t] \in Fresh => iter[t] = 0

KeepInv == DiskKept /\ CopyKept /\ MetAreExcused /\ OwnKept /\ NotStarted

\* m2 shows of every turn at least what m1 shows.
ShowsMore(m1, m2) ==
    \A u \in Turn : \A n \in Nat : KeepsUpTo(m1, u, n) => KeepsUpTo(m2, u, n)

LEMMA KeepInit == Init => KeepInv
BY DEF Init, KeepInv, DiskKept, CopyKept, MetAreExcused, OwnKept, NotStarted,
       Writing, Own, Fresh

\* A transcript that has grown at its end shows more.
LEMMA GrownShowsMore ==
    ASSUME NEW m \in Seq(Message), NEW ms \in Seq(Message)
    PROVE  ShowsMore(m, m \o ms)
<1> SUFFICES ASSUME NEW u \in Turn, NEW n \in Nat, KeepsUpTo(m, u, n)
             PROVE  KeepsUpTo(m \o ms, u, n)
  BY DEF ShowsMore
<1>1. \A i \in DOMAIN m : i \in DOMAIN (m \o ms) /\ (m \o ms)[i] = m[i]
  OBVIOUS
<1>2. Has(m \o ms, UserMsg(u))
  BY <1>1 DEF KeepsUpTo, Has
<1>3. \A i \in 1..n : HasCalls(m \o ms, u, i)
  BY <1>1 DEF KeepsUpTo, HasCalls
<1> QED
  BY <1>2, <1>3 DEF KeepsUpTo

\* A step of turn t that neither reads the conversation nor completes its save.
LEMMA KeepFrame ==
    ASSUME TypeInv, AtomInv, KeepInv, NEW t \in Turn, NEW phase,
           pc' = [pc EXCEPT ![t] = phase], pc[t] # "new",
           Writing(t) \/ phase \notin Fresh \cup Own,
           \A s \in Turn \ {t} : obj'[s] = obj[s] /\ iter'[s] = iter[s],
           ShowsMore(obj[t], obj'[t]),
           iter'[t] = iter[t] \/ ~saved[t], iter'[t] \in Nat,
           UNCHANGED saved, excused \subseteq excused',
           \A u \in Turn : saved[u] /\ u \notin excused' =>
               disk'[ConvOf[u]].status = "ok" /\ SafeIn(disk'[ConvOf[u]].msgs, u),
           phase \in Fresh => iter'[t] = 0,
           phase \in Own => KeepsUpTo(obj'[t], t, iter'[t])
    PROVE  KeepInv'
<1> USE DEF SafeIn
<1>0. /\ pc \in [Turn -> Phase] /\ \A s \in Turn : iter[s] \in Nat
      /\ \A s \in Turn : saved[s] => iter'[s] = iter[s]
  BY LimitAssumption DEF TypeInv, TypeOK
<1>1. \A s \in Turn : Writing(s)' => Writing(s)
  BY <1>0 DEF Writing, Fresh, Own
<1>2. DiskKept'
  BY <1>0 DEF DiskKept
<1>3. CopyKept'
  <2> SUFFICES ASSUME NEW s \in Turn, NEW u \in Turn, s # u,
                      ConvOf[s] = ConvOf[u], Writing(s)', saved[u], u \notin excused'
               PROVE  KeepsUpTo(obj'[s], u, iter'[u])
    BY DEF CopyKept
  <2>1. KeepsUpTo(obj[s], u, iter[u]) /\ iter'[u] = iter[u]
    BY <1>0, <1>1 DEF KeepInv, CopyKept
  <2> QED
    BY <1>0, <2>1 DEF ShowsMore
<1>4. MetAreExcused'
  BY <1>1 DEF KeepInv, MetAreExcused
<1>5. OwnKept'
  BY <1>0 DEF KeepInv, OwnKept
<1>6. NotStarted'
  BY <1>0 DEF KeepInv, NotStarted
<1> QED
  BY <1>2, <1>3, <1>4, <1>5, <1>6 DEF KeepInv

\* What a writing turn puts into the file keeps what must be kept.
LEMMA KeepPersist ==
    ASSUME StoreKind = "file", TypeInv, KeepInv, NEW t \in Turn, NEW m,
           Writing(t), ~saved[t], Persist(t, m), ShowsMore(obj[t], m)
    PROVE  \A u \in Turn : saved[u] /\ u \notin excused =>
               disk'[ConvOf[u]].status = "ok" /\ SafeIn(disk'[ConvOf[u]].msgs, u)
<1> SUFFICES ASSUME NEW u \in Turn, saved[u], u \notin excused
             PROVE  disk'[ConvOf[u]].status = "ok" /\ SafeIn(disk'[ConvOf[u]].msgs, u)
  OBVIOUS
<1>0. iter[u] \in Nat /\ u # t
  BY LimitAssumption DEF TypeInv, TypeOK
<1>1. \A c \in Conv : disk'[c] = IF c = ConvOf[t] THEN [status |-> "ok", msgs |-> m]
                                 ELSE disk[c]
  BY DEF Persist, TypeInv, TypeOK
<1>2. CASE ConvOf[u] = ConvOf[t]
  <2>1. SafeIn(obj[t], u)
    BY <1>0, <1>2 DEF KeepInv, CopyKept
  <2> QED
    BY <1>0, <1>1, <1>2, <2>1, ConvOfAssumption DEF ShowsMore, SafeIn
<1>3. CASE ConvOf[u] # ConvOf[t]
  BY <1>1, <1>3, ConvOfAssumption DEF KeepInv, DiskKept, SafeIn
<1> QED
  BY <1>2, <1>3

\* A turn reads the conversation: what must be kept in the file, it now holds.
LEMMA KeepLoad ==
    ASSUME StoreKind = "file", TypeInv, AtomInv, KeepInv, NEW t \in Turn,
           NEW phase \in {"starter", "loaded"},
           pc[t] = "new", Load(t), Meet(t), pc' = [pc EXCEPT ![t] = phase],
           UNCHANGED <<iter, disk, saved>>
    PROVE  KeepInv'
<1>0. /\ pc \in [Turn -> Phase] /\ excused \subseteq excused' /\ ~saved[t]
      /\ \A s \in Turn \ {t} : Writing(s)' <=> Writing(s)
  BY DEF TypeInv, TypeOK, Meet, Writing, AtomInv, Late, Ended
<1>1. /\ \A s \in Turn \ {t} : obj'[s] = obj[s]
      /\ disk[ConvOf[t]].status = "ok" => obj'[t] = disk[ConvOf[t]].msgs
  BY DEF Load, Exists, TypeInv, TypeOK
<1>2. DiskKept'
  BY <1>0 DEF KeepInv, DiskKept, SafeIn
<1>3. CopyKept'
  <2> SUFFICES ASSUME NEW s \in Turn, NEW u \in Turn, s # u,
                      ConvOf[s] = ConvOf[u], Writing(s)', saved[u], u \notin excused'
               PROVE  SafeIn(obj'[s], u)
    BY DEF CopyKept, SafeIn
  <2>1. CASE s = t
    <3>1. disk[ConvOf[u]].status = "ok" /\ SafeIn(disk[ConvOf[u]].msgs, u)
      BY <1>0 DEF KeepInv, DiskKept
    <3> QED
      BY <1>1, <2>1, <3>1
  <2>2. CASE s # t
    BY <1>0, <1>1, <2>2 DEF KeepInv, CopyKept
  <2> QED
    BY <2>1, <2>2
<1>4. MetAreExcused'
  <2> SUFFICES ASSUME NEW s \in Turn, NEW u \in Turn, s # u,
                      ConvOf[s] = ConvOf[u], Writing(s)', Writing(u)'
               PROVE  u \in excused'
    BY DEF MetAreExcused
  <2>1. CASE s = t
    BY <1>0, <2>1 DEF Meet, Rivals
  <2>2. CASE u = t
    BY <1>0, <2>2 DEF Meet, Rivals
  <2>3. CASE s # t /\ u # t
    BY <1>0, <2>3 DEF KeepInv, MetAreExcused
  <2> QED
    BY <2>1, <2>2, <2>3
<1>5. OwnKept'
  BY <1>0, <1>1 DEF KeepInv, OwnKept, Own, SafeIn
<1>6. NotStarted'
  BY <1>0 DEF KeepInv, NotStarted, Fresh
<1> QED
  BY <1>2, <1>3, <1>4, <1>5, <1>6 DEF KeepInv

\* The closing save: the turn's own work is in the file from now on.
LEMMA KeepSave ==
    ASSUME StoreKind = "file", TypeInv, CopyInv, AtomInv, KeepInv,
           NEW t \in Turn, SaveConversation(t)
    PROVE  KeepInv'
<1>0. /\ pc \in [Turn -> Phase] /\ pc[t] = "save" /\ pc' = [pc EXCEPT ![t] = "after"]
      /\ ~saved[t] /\ saved' = [saved EXCEPT ![t] = AutoSave]
      /\ saved \in [Turn -> BOOLEAN] /\ ref[t] = t
      /\ UNCHANGED <<obj, iter, excused>>
  BY DEF SaveConversation, TypeInv, TypeOK, CopyInv, AtomInv, Late, Ended, Go
<1>1. Writing(t) /\ SafeIn(obj[t], t) /\ \A s \in Turn : Writing(s)' => Writing(s)
  BY <1>0 DEF Writing, KeepInv, OwnKept, Own
<1>2. DiskKept'
  <2> SUFFICES ASSUME NEW u \in Turn, saved'[u], u \notin excused
               PROVE  disk'[ConvOf[u]].status = "ok" /\ SafeIn(disk'[ConvOf[u]].msgs, u)
    BY <1>0 DEF DiskKept, SafeIn
  <2>1. CASE u = t
    <3>1. Persist(t, obj[t])
      BY <1>0, <2>1 DEF SaveConversation
    <3>2. disk'[ConvOf[t]] = [status |-> "ok", msgs |-> obj[t]]
      BY <3>1, ConvOfAssumption DEF Persist, TypeInv, TypeOK
    <3> QED
      BY <1>1, <2>1, <3>2
  <2>2. CASE u # t
    <3>0. saved[u]
      BY <1>0, <2>2
    <3>1. CASE AutoSave
      <4>1. Persist(t, obj[t])
        BY <1>0, <3>1 DEF SaveConversation
      <4>2. ShowsMore(obj[t], obj[t])
        BY DEF ShowsMore
      <4> QED
        BY <1>0, <1>1, <3>0, <4>1, <4>2, KeepPersist
    <3>2. CASE ~AutoSave
      BY <1>0, <3>0, <3>2 DEF SaveConversation, KeepInv, DiskKept
    <3> QED
      BY <3>1, <3>2
  <2> QED
    BY <2>1, <2>2
<1>3. CopyKept'
  <2> SUFFICES ASSUME NEW s \in Turn, NEW u \in Turn, s # u,
                      ConvOf[s] = ConvOf[u], Writing(s)', saved'[u], u \notin excused
               PROVE  SafeIn(obj[s], u)
    BY <1>0 DEF CopyKept, SafeIn
  <2>1. u # t
    BY <1>1 DEF KeepInv, MetAreExcused
  <2> QED
    BY <1>0, <1>1, <2>1 DEF KeepInv, CopyKept
<1>4. MetAreExcused'
  BY <1>0, <1>1 DEF KeepInv, MetAreExcused
<1>5. OwnKept'
  BY <1>0 DEF KeepInv, OwnKept, Own, SafeIn
<1>6. NotStarted'
  BY <1>0 DEF KeepInv, NotStarted, Fresh
<1> QED
  BY <1>2, <1>3, <1>4, <1>5, <1>6 DEF KeepInv

LEMMA KeepStep ==
    ASSUME StoreKind = "file", TypeInv, CopyInv, AtomInv, KeepInv, [Next]_vars
    PROVE  KeepInv'
<1> USE DEF Go
<1>0. /\ pc \in [Turn -> Phase]
      /\ \A s \in Turn : ref[s] = s /\ obj[s] \in Seq(Message) /\ iter[s] \in Nat
      /\ \A s \in Turn : ShowsMore(obj[s], obj[s])
      /\ \A s \in Turn : Writing(s) => ~saved[s]
  <2>1. pc \in [Turn -> Phase] /\ obj \in [Turn -> Seq(Message)]
        /\ iter \in [Turn -> 0..MaxToolIterations]
    BY DEF TypeInv, TypeOK
  <2>2. \A s \in Turn : ref[s] = s /\ obj[s] \in Seq(Message) /\ iter[s] \in Nat
    BY <2>1, LimitAssumption DEF CopyInv
  <2>3. \A s \in Turn : ShowsMore(obj[s], obj[s])
    BY DEF ShowsMore
  <2>4. \A s \in Turn : Writing(s) => ~saved[s]
    BY DEF AtomInv, Late, Ended, Writing
  <2> QED
    BY <2>1, <2>2, <2>3, <2>4
<1>k. \A u \in Turn : saved[u] /\ u \notin excused =>
         disk[ConvOf[u]].status = "ok" /\ SafeIn(disk[ConvOf[u]].msgs, u)
  BY DEF KeepInv, DiskKept
<1>1. ASSUME NEW t \in Turn, LoadStarter(t) \/ LoadConversation(t) PROVE KeepInv'
  BY <1>1, KeepLoad DEF LoadStarter, LoadConversation
<1>2. ASSUME NEW t \in Turn, SaveStarter(t) \/ WorkflowHandles(t) PROVE KeepInv'
  <2>1. /\ Writing(t) /\ pc[t] # "new" /\ pc' = [pc EXCEPT ![t] = "done"]
        /\ UNCHANGED <<obj, iter, saved, excused>>
    BY <1>2 DEF SaveStarter, WorkflowHandles, Writing
  <2>2. Persist(t, obj[t]) \/ UNCHANGED disk
    BY <1>0, <1>2 DEF SaveStarter, WorkflowHandles
  <2>3. \A u \in Turn : saved[u] /\ u \notin excused =>
           disk'[ConvOf[u]].status = "ok" /\ SafeIn(disk'[ConvOf[u]].msgs, u)
    BY <1>0, <1>k, <2>1, <2>2, KeepPersist
  <2> QED
    BY <1>0, <2>1, <2>3, KeepFrame DEF Fresh, Own
<1>3. ASSUME NEW t \in Turn,
             StarterFails(t) \/ AfterMessageHooks(t) \/ Raises(t) \/ Disconnects(t)
      PROVE  KeepInv'
  <2>1. /\ pc[t] # "new" /\ \E phase \in Ended : pc' = [pc EXCEPT ![t] = phase]
        /\ UNCHANGED <<obj, iter, saved, excused, disk>>
    BY <1>3 DEF StarterFails, AfterMessageHooks, Raises, Disconnects, Ended
  <2>2. PICK phase \in Ended : pc' = [pc EXCEPT ![t] = phase]
    BY <2>1
  <2>3. phase \notin Fresh \cup Own
    BY DEF Ended, Fresh, Own
  <2>4. \A u \in Turn : saved[u] /\ u \notin excused' =>
           disk'[ConvOf[u]].status = "ok" /\ SafeIn(disk'[ConvOf[u]].msgs, u)
    BY <1>k, <2>1
  <2>5. ShowsMore(obj[t], obj'[t]) /\ iter'[t] = iter[t] /\ iter'[t] \in Nat
    BY <1>0, <2>1
  <2>6. \A s \in Turn \ {t} : obj'[s] = obj[s] /\ iter'[s] = iter[s]
    BY <2>1
  <2> QED
    BY <2>1, <2>2, <2>3, <2>4, <2>5, <2>6, KeepFrame
<1>4. ASSUME NEW t \in Turn, WorkflowPasses(t) PROVE KeepInv'
  <2>1. /\ pc[t] = "loaded" /\ pc' = [pc EXCEPT ![t] = "unhandled"]
        /\ UNCHANGED <<obj, iter, saved, excused, disk>>
    BY <1>4 DEF WorkflowPasses
  <2>2. Writing(t) /\ iter[t] = 0
    BY <2>1 DEF Writing, KeepInv, NotStarted, Fresh
  <2> QED
    BY <1>0, <1>k, <2>1, <2>2, KeepFrame DEF Fresh, Own
<1>5. ASSUME NEW t \in Turn, AddUserMessage(t) PROVE KeepInv'
  <2> DEFINE m == Append(obj[t], UserMsg(t))
  <2>1. /\ pc[t] = "unhandled" /\ pc' = [pc EXCEPT ![t] = "build"]
        /\ UNCHANGED <<iter, saved, excused>>
    BY <1>5 DEF AddUserMessage
  <2>2. Writing(t) /\ iter[t] = 0
    BY <2>1 DEF Writing, KeepInv, NotStarted, Fresh
  <2>3. UserMsg(t) \in Message
    BY MessageTypes
  <2>4. m = obj[t] \o <<UserMsg(t)>>
    BY <1>0, <2>3
  <2>5. ShowsMore(obj[t], m)
    <3>1. <<UserMsg(t)>> \in Seq(Message)
      BY <2>3
    <3> HIDE DEF m
    <3> QED
      BY <1>0, <2>4, <3>1, GrownShowsMore
  <2>6. KeepsUpTo(m, t, 0)
    <3>1. Len(obj[t]) + 1 \in DOMAIN m /\ m[Len(obj[t]) + 1] = UserMsg(t)
      BY <1>0, <2>3
    <3> QED
      BY <3>1 DEF KeepsUpTo, Has
  <2>7. obj'[t] = m /\ \A s \in Turn \ {t} : obj'[s] = obj[s]
    BY <1>0, <1>5, <2>4 DEF AddUserMessage, AddMessages, TypeInv, TypeOK
  <2>8. Persist(t, m) \/ UNCHANGED disk
    BY <1>0, <1>5 DEF AddUserMessage
  <2> HIDE DEF m
  <2>9. \A u \in Turn : saved[u] /\ u \notin excused =>
           disk'[ConvOf[u]].status = "ok" /\ SafeIn(disk'[ConvOf[u]].msgs, u)
    BY <1>0, <1>k, <2>2, <2>5, <2>8, KeepPersist
  <2> QED
    BY <1>0, <2>1, <2>2, <2>5, <2>6, <2>7, <2>9, KeepFrame DEF Fresh, Own
<1>6. ASSUME NEW t \in Turn, BuildRequest(t) \/ LlmAnswers(t) PROVE KeepInv'
  <2>1. /\ pc[t] \in Own /\ \E phase \in Own : pc' = [pc EXCEPT ![t] = phase]
        /\ UNCHANGED <<obj, iter, saved, excused, disk>>
    BY <1>6 DEF BuildRequest, LlmAnswers, Own
  <2>2. Writing(t) /\ KeepsUpTo(obj[t], t, iter[t])
    BY <2>1 DEF Writing, KeepInv, OwnKept, Own, SafeIn
  <2>3. PICK phase \in Own : pc' = [pc EXCEPT ![t] = phase]
    BY <2>1
  <2>4. phase \notin Fresh /\ pc[t] # "new"
    BY <2>1, <2>3 DEF Fresh, Own
  <2>5. /\ KeepsUpTo(obj'[t], t, iter'[t]) /\ ShowsMore(obj[t], obj'[t])
        /\ iter'[t] = iter[t] /\ iter'[t] \in Nat
        /\ \A s \in Turn \ {t} : obj'[s] = obj[s] /\ iter'[s] = iter[s]
    BY <1>0, <2>1, <2>2
  <2>6. \A u \in Turn : saved[u] /\ u \notin excused' =>
           disk'[ConvOf[u]].status = "ok" /\ SafeIn(disk'[ConvOf[u]].msgs, u)
    BY <1>k, <2>1
  <2> QED
    BY <2>1, <2>2, <2>3, <2>4, <2>5, <2>6, KeepFrame
<1>7. ASSUME NEW t \in Turn, NEW n \in 1..MaxCalls, LlmCallsTools(t, n) PROVE KeepInv'
  <2> DEFINE x == CallsMsg(t, iter[t] + 1, n)
             m == obj[t] \o <<x>>
  <2>1. /\ pc[t] = "llm" /\ pc' = [pc EXCEPT ![t] = "tools"]
        /\ iter' = [iter EXCEPT ![t] = @ + 1]
        /\ UNCHANGED <<saved, excused, disk>>
    BY <1>7 DEF LlmCallsTools
  <2>2. Writing(t) /\ KeepsUpTo(obj[t], t, iter[t])
    BY <2>1 DEF Writing, KeepInv, OwnKept, Own, SafeIn
  <2>3. iter'[t] = iter[t] + 1 /\ \A s \in Turn \ {t} : iter'[s] = iter[s]
    BY <2>1 DEF TypeInv, TypeOK
  <2>4. /\ x \in Message /\ x.role = "calls" /\ x.turn = t /\ x.iter = iter[t] + 1
    <3>1. iter[t] + 1 \in Nat /\ n \in Nat
      BY <1>0, LimitAssumption
    <3> QED
      BY <3>1, MessageTypes DEF CallsMsg
  <2>5. obj'[t] = m /\ \A s \in Turn \ {t} : obj'[s] = obj[s]
    BY <1>0, <1>7 DEF LlmCallsTools, AddMessages, TypeInv, TypeOK
  <2> HIDE DEF x
  <2>6. ShowsMore(obj[t], m)
    <3>1. <<x>> \in Seq(Message)
      BY <2>4
    <3> QED
      BY <1>0, <3>1, GrownShowsMore
  <2>7. KeepsUpTo(m, t, iter[t] + 1)
    <3>1. KeepsUpTo(m, t, iter[t])
      BY <1>0, <2>2, <2>6 DEF ShowsMore
    <3>2. Len(obj[t]) + 1 \in DOMAIN m /\ m[Len(obj[t]) + 1] = x
      BY <1>0, <2>4
    <3>3. HasCalls(m, t, iter[t] + 1)
      BY <2>4, <3>2 DEF HasCalls
    <3> HIDE DEF m
    <3>4. \A i \in 1..(iter[t] + 1) : i \in 1..iter[t] \/ i = iter[t] + 1
      BY <1>0
    <3> QED
      BY <3>1, <3>3, <3>4 DEF KeepsUpTo
  <2> HIDE DEF m
  <2>8. iter'[t] \in Nat /\ ~saved[t]
    BY <1>0, <2>2, <2>3
  <2> QED
    BY <1>k, <2>1, <2>2, <2>3, <2>5, <2>6, <2>7, <2>8, KeepFrame DEF Fresh, Own
<1>8. ASSUME NEW t \in Turn, AddToolResults(t) \/ AddAnswer(t) PROVE KeepInv'
  <2>1. /\ pc[t] \in Own /\ \E phase \in Own : pc' = [pc EXCEPT ![t] = phase]
        /\ UNCHANGED <<iter, saved, excused, disk>>
    BY <1>8 DEF AddToolResults, AddAnswer, Own
  <2>2. Writing(t) /\ KeepsUpTo(obj[t], t, iter[t])
    BY <2>1 DEF Writing, KeepInv, OwnKept, Own, SafeIn
  <2>3. /\ ToolMsgs(t, iter[t], calls[t]) \in Seq(Message)
        /\ <<AnswerMsg(t)>> \in Seq(Message)
    BY <1>0, MessageTypes, LimitAssumption DEF TypeInv, TypeOK
  <2>4. \/ UNCHANGED obj
        \/ \E ms \in Seq(Message) : obj' = [obj EXCEPT ![t] = @ \o ms]
    BY <1>0, <1>8, <2>3 DEF AddToolResults, AddAnswer, AddMessages
  <2>5. /\ \A s \in Turn \ {t} : obj'[s] = obj[s]
        /\ obj'[t] = obj[t] \/ \E ms \in Seq(Message) : obj'[t] = obj[t] \o ms
    BY <2>4 DEF TypeInv, TypeOK
  <2>6. ShowsMore(obj[t], obj'[t])
    BY <1>0, <2>5, GrownShowsMore
  <2>7. KeepsUpTo(obj'[t], t, iter[t])
    BY <1>0, <2>2, <2>6 DEF ShowsMore
  <2>8. PICK phase \in Own : pc' = [pc EXCEPT ![t] = phase]
    BY <2>1
  <2>9. phase \notin Fresh /\ pc[t] # "new"
    BY <2>1, <2>8 DEF Fresh, Own
  <2> QED
    BY <1>0, <1>k, <2>1, <2>2, <2>5, <2>6, <2>7, <2>8, <2>9, KeepFrame
<1>9. ASSUME NEW t \in Turn, SaveConversation(t) PROVE KeepInv'
  BY <1>9, KeepSave
<1>10. ASSUME NEW t \in Turn, WriteBreaks(t) PROVE KeepInv'
  <2>1. /\ Writing(t) /\ UNCHANGED <<iter, saved>> /\ excused \subseteq excused'
        /\ \A u \in Turn : saved[u] /\ u \notin excused' =>
              u \notin excused /\ ConvOf[u] # ConvOf[t]
    BY <1>10 DEF WriteBreaks, Writing, SavedIn
  <2>2. \A u \in Turn : saved[u] /\ u \notin excused' =>
           disk'[ConvOf[u]].status = "ok" /\ SafeIn(disk'[ConvOf[u]].msgs, u)
    BY <1>k, <1>10, <2>1, ConvOfAssumption DEF WriteBreaks, TypeInv, TypeOK
  <2>3. <<UserMsg(t)>> \in Seq(Message)
    BY MessageTypes
  <2>4. /\ \A s \in Turn \ {t} : obj'[s] = obj[s]
        /\ obj'[t] = obj[t] \/ obj'[t] = obj[t] \o <<UserMsg(t)>>
    BY <1>0, <1>10 DEF WriteBreaks, AddMessages, TypeInv, TypeOK
  <2>5. ShowsMore(obj[t], obj'[t])
    BY <1>0, <2>3, <2>4, GrownShowsMore
  <2>6. pc[t] # "new" /\ \/ pc' = [pc EXCEPT ![t] = "unhandled"] /\ pc[t] = "loaded"
                         \/ \E phase \in Ended : pc' = [pc EXCEPT ![t] = phase]
    BY <1>10 DEF WriteBreaks, Ended
  <2>7. pc[t] = "loaded" => iter[t] = 0
    BY DEF KeepInv, NotStarted, Fresh
  <2> QED
    BY <1>0, <2>1, <2>2, <2>4, <2>5, <2>6, <2>7, KeepFrame DEF Fresh, Own, Ended
<1>11. ASSUME NEW c \in Conv, DeleteConversation(c) PROVE KeepInv'
  <2>1. /\ UNCHANGED <<pc, obj, iter, saved>> /\ excused \subseteq excused'
        /\ \A u \in Turn : saved[u] /\ u \notin excused' =>
              u \notin excused /\ disk'[ConvOf[u]] = disk[ConvOf[u]]
    BY <1>11, ConvOfAssumption DEF DeleteConversation, SavedIn, TypeInv, TypeOK
  <2> QED
    BY <2>1 DEF KeepInv, DiskKept, CopyKept, MetAreExcused, OwnKept, NotStarted,
                SafeIn, Writing
<1>12. CASE Crash
  <2>1. /\ UNCHANGED <<obj, iter, saved, excused, disk>>
        /\ \A s \in Turn : pc'[s] = pc[s] \/ pc'[s] = "gone"
    BY <1>12 DEF Crash
  <2>2. \A s \in Turn : Writing(s)' => Writing(s)
    BY <2>1 DEF Writing
  <2> QED
    BY <2>1, <2>2 DEF KeepInv, DiskKept, CopyKept, MetAreExcused, OwnKept, NotStarted,
                      SafeIn, Own, Fresh
<1>13. CASE UNCHANGED vars
  BY <1>13 DEF vars, KeepInv, DiskKept, CopyKept, MetAreExcused, OwnKept, NotStarted,
               SafeIn, Writing
<1> QED
  BY <1>1, <1>2, <1>3, <1>4, <1>5, <1>6, <1>7, <1>8, <1>9, <1>10, <1>11, <1>12, <1>13
  DEF Next, Step, Trouble

\* However turns interleave, fail, disconnect or crash, the file store shows a
\* saved turn's message and calls as long as that turn met no other turn of its
\* conversation and nobody deleted or broke the file (agent.py:418, 1205).
THEOREM FileStoreKeeps ==
    ASSUME StoreKind = "file"
    PROVE  Spec => []KeptUnlessExcused
<1> DEFINE Inv == TypeInv /\ CopyInv /\ AtomInv /\ KeepInv
<1>1. Init => Inv
  BY TypeInit, CopyInit, AtomInit, KeepInit
<1>2. Inv /\ [Next]_vars => Inv'
  BY TypeStep, CopyStep, AtomStep, KeepStep
<1>3. Inv => KeptUnlessExcused
  BY DEF KeepInv, DiskKept, SafeIn, KeepsUpTo, KeptUnlessExcused, Keeps, Exists, Stored
<1> HIDE DEF Inv
<1> QED
  BY <1>1, <1>2, <1>3, PTL DEF Spec

-----------------------------------------------------------------------------
(* Nor does the memory store, where turns append to the object that is     *)
(* kept: a save only puts it in place.                                     *)

SavedLate == \A t \in Turn : saved[t] => pc[t] \in Late

\* The kept object shows every turn whose save must be visible ...
ObjectKept ==
    \A t \in Turn : saved[t] /\ t \notin excused =>
        memory[ConvOf[t]] \in Turn /\ SafeIn(obj[memory[ConvOf[t]]], t)

\* ... and so does any other object that may still take its place.
RefKept ==
    \A s, t \in Turn :
        (/\ s # t /\ ConvOf[s] = ConvOf[t] /\ Writing(s)
         /\ saved[t] /\ t \notin excused)
        => SafeIn(obj[ref[s]], t)

SharedInv == SavedLate /\ ObjectKept /\ RefKept /\ MetAreExcused

LEMMA SharedInit == Init => SharedInv
BY DEF Init, SharedInv, SavedLate, ObjectKept, RefKept, MetAreExcused, Writing

\* Only a turn that holds the conversation puts its object in place, and its
\* closing save does.
LEMMA SharedMoves ==
    ASSUME StoreKind = "memory", TypeInv, NEW t \in Turn, Step(t) \/ Trouble(t)
    PROVE  /\ excused \subseteq excused'
           /\ \A s \in Turn \ {t} : saved'[s] = saved[s]
           /\ iter'[t] = iter[t] \/ pc[t] = "llm"
           /\ \/ pc[t] = "new" /\ Load(t) /\ Meet(t) /\ UNCHANGED <<iter, memory, saved>>
              \/ /\ pc[t] # "new" /\ (Writing(t)' => Writing(t))
                 /\ pc[t] \in Late => pc'[t] \in Late
                 /\ \/ UNCHANGED memory
                    \/ Writing(t) /\ memory' = [memory EXCEPT ![ConvOf[t]] = ref[t]]
                 /\ \/ saved'[t] = saved[t]
                    \/ /\ pc[t] = "save" /\ pc'[t] = "after"
                       /\ saved'[t] => memory' = [memory EXCEPT ![ConvOf[t]] = ref[t]]
<1>0. pc \in [Turn -> Phase] /\ saved \in [Turn -> BOOLEAN]
      /\ iter \in [Turn -> 0..MaxToolIterations]
  BY DEF TypeInv, TypeOK
<1> USE DEF Go, Writing, Late, Ended
<1>1. CASE LoadStarter(t) \/ LoadConversation(t)
  BY <1>0, <1>1 DEF LoadStarter, LoadConversation, Meet
<1>2. CASE SaveStarter(t) \/ StarterFails(t) \/ WorkflowHandles(t) \/ WorkflowPasses(t)
  BY <1>0, <1>2 DEF SaveStarter, StarterFails, WorkflowHandles, WorkflowPasses, Persist
<1>3. CASE AddUserMessage(t) \/ BuildRequest(t) \/ AddToolResults(t) \/ LlmAnswers(t)
           \/ AddAnswer(t) \/ AfterMessageHooks(t)
  BY <1>0, <1>3
  DEF AddUserMessage, BuildRequest, AddToolResults, LlmAnswers, AddAnswer,
      AfterMessageHooks, Persist
<1>4. CASE \E n \in 1..MaxCalls : LlmCallsTools(t, n)
  BY <1>0, <1>4 DEF LlmCallsTools
<1>5. CASE SaveConversation(t)
  BY <1>0, <1>5 DEF SaveConversation, Persist
<1>6. CASE Raises(t) \/ Disconnects(t)
  BY <1>0, <1>6 DEF Raises, Disconnects
<1>7. CASE WriteBreaks(t)
  BY <1>7 DEF WriteBreaks
<1> QED
  BY <1>1, <1>2, <1>3, <1>4, <1>5, <1>6, <1>7 DEF Step, Trouble

\* No object that is kept or worked on loses a message.
LEMMA SharedGrows ==
    ASSUME TypeInv, ObjectInv, NEW t \in Turn, Step(t) \/ Trouble(t),
           NEW r \in Turn, pc[r] # "new"
    PROVE  ShowsMore(obj[r], obj'[r])
<1>0. obj \in [Turn -> Seq(Message)] /\ ref[t] \in Turn
  BY DEF TypeInv, TypeOK
<1>1. CASE pc[t] = "new" /\ Load(t)
  <2>1. obj'[r] = obj[r]
    BY <1>0, <1>1 DEF Load
  <2> QED
    BY <2>1 DEF ShowsMore
<1>2. CASE Adds(t)
  <2>1. PICK ms \in Seq(Message) : obj' = [obj EXCEPT ![ref[t]] = @ \o ms]
    BY <1>2 DEF Adds, AddMessages
  <2>2. obj'[r] = obj[r] \/ obj'[r] = obj[r] \o ms
    BY <1>0, <2>1
  <2>3. ShowsMore(obj[r], obj[r] \o ms)
    BY <1>0, GrownShowsMore
  <2> QED
    BY <2>2, <2>3 DEF ShowsMore
<1> QED
  BY <1>1, <1>2, OneObject

\* What a turn that is about to save has done is in the object it saves.
LEMMA WorkIsSafe ==
    ASSUME TypeInv, WorkInv, NEW t \in Turn, pc[t] = "save"
    PROVE  SafeIn(obj[ref[t]], t)
<1>1. Shows(obj[ref[t]], t, iter[t])
  BY DEF WorkInv, Working
<1>2. ASSUME NEW i \in 1..iter[t] PROVE HasCalls(obj[ref[t]], t, i)
  <2>1. PICK k \in 1..MaxCalls : Has(obj[ref[t]], CallsMsg(t, i, k))
    BY <1>1 DEF Shows
  <2> QED
    BY <2>1 DEF Has, HasCalls, CallsMsg
<1> QED
  BY <1>1, <1>2 DEF Shows, SafeIn, KeepsUpTo

LEMMA SharedMove ==
    ASSUME StoreKind = "memory", TypeInv, ObjectInv, WorkInv, SharedInv,
           NEW t \in Turn, Step(t) \/ Trouble(t)
    PROVE  SharedInv'
<1>0. /\ pc \in [Turn -> Phase] /\ ref \in [Turn -> Turn]
      /\ memory \in [Conv -> Turn \cup {NoTurn}]
      /\ \A s \in Turn : iter[s] \in Nat /\ ConvOf[s] \in Conv
  BY LimitAssumption, ConvOfAssumption DEF TypeInv, TypeOK
<1>1. \A s \in Turn \ {t} : /\ pc'[s] = pc[s] /\ ref'[s] = ref[s] /\ iter'[s] = iter[s]
                            /\ saved'[s] = saved[s] /\ (Writing(s)' <=> Writing(s))
  BY OthersStand, SharedMoves DEF Writing
<1>2. ~Writing(t) \/ ~saved[t]
  BY DEF SharedInv, SavedLate, Late, Ended, Writing
<1>3. \A u \in Turn : saved[u] => iter'[u] = iter[u] /\ saved'[u]
  <2>1. saved[t] => pc[t] \notin {"new", "llm", "save"}
    BY DEF SharedInv, SavedLate, Late, Ended
  <2> QED
    BY <1>1, <2>1, SharedMoves
<1>4. ASSUME NEW r \in Turn, pc[r] # "new", NEW u \in Turn, iter'[u] = iter[u],
             SafeIn(obj[r], u)
      PROVE  KeepsUpTo(obj'[r], u, iter'[u])
  <2>1. ShowsMore(obj[r], obj'[r])
    BY <1>4, SharedGrows
  <2> QED
    BY <1>0, <1>4, <2>1 DEF ShowsMore, SafeIn
<1>5. \A c \in Conv : memory[c] \in Turn => pc[memory[c]] # "new"
  BY DEF ObjectInv
<1>6. \A s \in Turn : pc[s] # "new" => ref'[s] = ref[s] /\ pc[ref[s]] # "new"
  BY <1>0, ObjectsGrow DEF ObjectInv
<1>7. SavedLate'
  <2>1. SavedLate /\ pc[t] = "new" => ~saved[t]
    BY DEF SavedLate, Late, Ended
  <2> QED
    BY <1>1, <2>1, SharedMoves DEF SharedInv, SavedLate, Late
<1>8. ObjectKept'
  <2> SUFFICES ASSUME NEW u \in Turn, saved'[u], u \notin excused'
               PROVE  /\ memory'[ConvOf[u]] \in Turn
                      /\ KeepsUpTo(obj'[memory'[ConvOf[u]]], u, iter'[u])
    BY DEF ObjectKept, SafeIn
  <2>0. u \notin excused
    BY SharedMoves
  <2>1. CASE saved[u] /\ memory'[ConvOf[u]] = memory[ConvOf[u]]
    BY <1>0, <1>3, <1>4, <1>5, <2>0, <2>1 DEF SharedInv, ObjectKept
  <2>2. CASE saved[u] /\ memory'[ConvOf[u]] # memory[ConvOf[u]]
    <3>1. Writing(t) /\ memory' = [memory EXCEPT ![ConvOf[t]] = ref[t]] /\ pc[t] # "new"
      BY <2>2, SharedMoves
    <3>2. ConvOf[u] = ConvOf[t] /\ memory'[ConvOf[u]] = ref[t] /\ u # t
      BY <1>0, <1>2, <2>2, <3>1
    <3>3. SafeIn(obj[ref[t]], u)
      BY <2>0, <2>2, <3>1, <3>2 DEF SharedInv, RefKept
    <3> QED
      BY <1>0, <1>3, <1>4, <1>6, <2>2, <3>1, <3>2, <3>3
  <2>3. CASE ~saved[u]
    <3>1. /\ u = t /\ pc[t] = "save" /\ memory' = [memory EXCEPT ![ConvOf[t]] = ref[t]]
          /\ iter'[t] = iter[t]
      BY <1>1, <2>3, SharedMoves
    <3>2. SafeIn(obj[ref[t]], t)
      BY <3>1, WorkIsSafe
    <3> QED
      BY <1>0, <1>4, <1>6, <3>1, <3>2
  <2> QED
    BY <2>1, <2>2, <2>3
<1>9. RefKept'
  <2> SUFFICES ASSUME NEW s \in Turn, NEW u \in Turn, s # u, ConvOf[s] = ConvOf[u],
                      Writing(s)', saved'[u], u \notin excused'
               PROVE  KeepsUpTo(obj'[ref'[s]], u, iter'[u])
    BY DEF RefKept, SafeIn
  <2>0. u \notin excused
    BY SharedMoves
  <2>1. saved[u]
    <3> SUFFICES ASSUME ~saved[u] PROVE FALSE
      OBVIOUS
    <3>1. u = t /\ pc[t] = "save"
      BY <1>1, SharedMoves
    <3>2. Writing(s) /\ Writing(t)
      BY <1>1, <3>1 DEF Writing
    <3> QED
      BY <2>0, <3>1, <3>2 DEF SharedInv, MetAreExcused
  <2>2. CASE Writing(s)
    <3>1. SafeIn(obj[ref[s]], u) /\ pc[s] # "new"
      BY <2>0, <2>1, <2>2 DEF SharedInv, RefKept, Writing
    <3> QED
      BY <1>0, <1>3, <1>4, <1>6, <2>1, <3>1
  <2>3. CASE ~Writing(s)
    <3>1. s = t /\ Load(t)
      BY <1>1, <2>3, SharedMoves
    <3>2. memory[ConvOf[t]] \in Turn /\ SafeIn(obj[memory[ConvOf[t]]], u)
      BY <2>0, <2>1, <3>1 DEF SharedInv, ObjectKept
    <3>3. ref'[t] = memory[ConvOf[t]]
      BY <1>0, <3>1, <3>2, NoTurnAssumption DEF Load, Exists
    <3> QED
      BY <1>0, <1>3, <1>4, <1>5, <2>1, <3>1, <3>2, <3>3
  <2> QED
    BY <2>2, <2>3
<1>10. MetAreExcused'
  <2> SUFFICES ASSUME NEW s \in Turn, NEW u \in Turn, s # u, ConvOf[s] = ConvOf[u],
                      Writing(s)', Writing(u)'
               PROVE  u \in excused'
    BY DEF MetAreExcused
  <2>1. CASE Writing(s) /\ Writing(u)
    BY <2>1, SharedMoves DEF SharedInv, MetAreExcused
  <2>2. CASE ~(Writing(s) /\ Writing(u))
    <3>1. Meet(t) /\ (s = t \/ u = t)
      BY <1>1, <2>2, SharedMoves
    <3> QED
      BY <1>1, <3>1 DEF Meet, Rivals
  <2> QED
    BY <2>1, <2>2
<1> QED
  BY <1>7, <1>8, <1>9, <1>10 DEF SharedInv

LEMMA SharedStep ==
    ASSUME StoreKind = "memory", TypeInv, ObjectInv, WorkInv, SharedInv, [Next]_vars
    PROVE  SharedInv'
<1> USE DEF SharedInv, SavedLate, ObjectKept, RefKept, MetAreExcused, SafeIn
<1>1. ASSUME NEW c \in Conv, DeleteConversation(c) PROVE SharedInv'
  <2>1. /\ UNCHANGED <<pc, ref, obj, iter, saved>> /\ excused \subseteq excused'
        /\ \A d \in Conv : d # c => memory'[d] = memory[d]
        /\ \A t \in Turn : ConvOf[t] = c /\ saved[t] => t \in excused'
    BY <1>1 DEF DeleteConversation, SavedIn, TypeInv, TypeOK
  <2>2. ObjectKept'
    BY <2>1, ConvOfAssumption
  <2> QED
    BY <2>1, <2>2 DEF Writing
<1>2. CASE Crash
  <2>1. /\ UNCHANGED <<ref, obj, iter, saved>>
        /\ \A t \in Turn : pc'[t] = pc[t] \/ pc'[t] = "gone"
        /\ \A t \in Turn : saved[t] => t \in excused'
        /\ excused \subseteq excused'
    BY <1>2 DEF Crash
  <2>2. \A t \in Turn : Writing(t)' => Writing(t)
    BY <2>1 DEF Writing
  <2> QED
    BY <2>1, <2>2 DEF Late, Ended
<1>3. CASE UNCHANGED vars
  BY <1>3 DEF vars, Writing
<1> QED
  BY <1>1, <1>2, <1>3, SharedMove DEF Next

\* The memory store keeps a saved turn's message and calls as well, until its
\* process ends, although the turns of a conversation share one object (agent.py:418,
\* 1205; storage.py:32-43).
THEOREM MemoryStoreKeeps ==
    ASSUME StoreKind = "memory"
    PROVE  Spec => []KeptUnlessExcused
<1> DEFINE Inv == TypeInv /\ ObjectInv /\ WorkInv /\ SharedInv
<1>1. Init => Inv
  BY TypeInit, ObjectInit, WorkInit, SharedInit
<1>2. Inv /\ [Next]_vars => Inv'
  BY TypeStep, ObjectStep, WorkStep, SharedStep
<1>3. Inv => KeptUnlessExcused
  BY NoTurnAssumption
  DEF SharedInv, ObjectKept, SafeIn, KeepsUpTo, KeptUnlessExcused, Keeps, Exists, Stored
<1> HIDE DEF Inv
<1> QED
  BY <1>1, <1>2, <1>3, PTL DEF Spec

\* For either store: a saved turn is lost only to another turn of its
\* conversation that overlapped it, a delete, a broken file, or the crash of a
\* store that cannot survive one (agent.py:418, 1205).
THEOREM KeptAlways == Spec => []KeptUnlessExcused
<1>1. CASE StoreKind = "file"
  BY <1>1, FileStoreKeeps
<1>2. CASE StoreKind = "memory"
  BY <1>2, MemoryStoreKeeps
<1> QED
  BY <1>1, <1>2, StoreAssumption
=============================================================================
