------------------------- MODULE LlmRecoveryProofs -------------------------
(***************************************************************************)
(* Theorems about LlmRecovery, for every number of turns, every limit and  *)
(* every history.                                                          *)
(***************************************************************************)
EXTENDS LlmRecovery, Integers, TLAPS

-----------------------------------------------------------------------------
(* The ledger, the service and the streaks.                                *)

\* A pending switch is that of a turn that backs off, and the ledger knows it.
SwitchInv ==
    /\ \A t \in Turn : switch[t] => pc[t] = "backoff" /\ ledger.model = "fallback"
    /\ SwitchIsMadePendingOrLost

\* The shared count is below the threshold until the switch, and no undisturbed
\* exchange has reported more overloads than it counts.
StreakInv ==
    ledger.model # "fallback" =>
        /\ HasFallback => ledger.overloads < MaxConsecutive529
        /\ \A t \in Turn \ disturbed : streak[t] <= ledger.overloads

\* Before the one compaction every request shows its conversation as it is.
RequestInv ==
    \A t \in Turn :
        \/ request[t].msgs = conv[t]
        \/ ledger.compacted /\ request[t].msgs = Compact(conv[t])

LEMMA EntryTypes ==
    ASSUME NEW t \in Turn, NEW i \in Nat, NEW n \in Nat
    PROVE  /\ UserMsg(t) \in Entry
           /\ CallsMsg(t, i, n) \in Entry
           /\ ToolMsgs(t, i, n) \in Seq(Entry)
           /\ Note(n) \in Entry
BY DEF UserMsg, CallsMsg, ToolMsgs, ToolMsg, Note, Entry, Role

LEMMA CompactType ==
    ASSUME NEW m \in Seq(Entry)
    PROVE  Compact(m) \in Seq(Entry)
<1>1. CASE Len(m) <= KeepFirst + KeepRecent
  BY <1>1 DEF Compact
<1>2. CASE ~(Len(m) <= KeepFirst + KeepRecent)
  <2>1. Len(m) - KeepFirst - KeepRecent \in Nat
    BY <1>2, KeepAssumption
  <2>2. Note(Len(m) - KeepFirst - KeepRecent) \in Entry
    BY <2>1 DEF Note, Entry, Role
  <2>3. /\ SubSeq(m, 1, KeepFirst) \in Seq(Entry)
        /\ SubSeq(m, Len(m) - KeepRecent + 1, Len(m)) \in Seq(Entry)
    BY <1>2, KeepAssumption
  <2> DEFINE a == SubSeq(m, 1, KeepFirst)
             b == SubSeq(m, Len(m) - KeepRecent + 1, Len(m))
             x == Note(Len(m) - KeepFirst - KeepRecent)
  <2> HIDE DEF a, b, x
  <2>4. a \o <<x>> \o b \in Seq(Entry)
    BY <2>2, <2>3 DEF a, b, x
  <2> QED
    BY <1>2, <2>4 DEF Compact, a, b, x
<1> QED
  BY <1>1, <1>2

-----------------------------------------------------------------------------
(* Types.                                                                  *)

LEMMA FinishTypes ==
    ASSUME TypeOK, NEW t \in Turn, NEW phase \in Phase, Finish(t, phase)
    PROVE  /\ pc' \in [Turn -> Phase]
           /\ conv' \in [Turn -> Seq(Entry)]
           /\ request' \in [Turn -> [msgs : Seq(Entry), tokens : Tokens]]
           /\ iter' \in [Turn -> 0..MaxToolIterations]
           /\ attempt' \in [Turn -> 0..MaxAttempts]
           /\ error' \in [Turn -> Category]
           /\ switch' \in [Turn -> BOOLEAN]
BY AttemptAssumption, BoundAssumption
DEF TypeOK, Finish, NewRequest, Tokens, Category, Go

LEMMA StartTypes ==
    ASSUME TypeOK, NEW t \in Turn, NEW m \in Seq(Entry), StartExchange(t, m)
    PROVE  /\ pc' \in [Turn -> Phase]
           /\ request' \in [Turn -> [msgs : Seq(Entry), tokens : Tokens]]
           /\ attempt' \in [Turn -> 0..MaxAttempts]
           /\ streak' \in [Turn -> Nat]
           /\ disturbed' \in SUBSET Turn
BY AttemptAssumption DEF TypeOK, StartExchange, NewRequest, Tokens, Phase, Go

LEMMA TypeInit == Init => TypeOK
<1> SUFFICES ASSUME Init PROVE TypeOK
  OBVIOUS
<1>1. <<>> \in Seq(Entry) /\ "config" \in Tokens /\ "new" \in Phase
      /\ "fatal" \in Category /\ "primary" \in Model
  BY DEF Tokens, Phase, Category, Model
<1>2. 0 \in 0..MaxAttempts /\ 0 \in 0..MaxToolIterations
  BY AttemptAssumption, BoundAssumption
<1>3. /\ conv \in [Turn -> Seq(Entry)]
      /\ request \in [Turn -> [msgs : Seq(Entry), tokens : Tokens]]
  BY <1>1 DEF Init, NewRequest
<1>4. /\ iter \in [Turn -> 0..MaxToolIterations]
      /\ attempt \in [Turn -> 0..MaxAttempts]
  BY <1>2 DEF Init
<1>5. ledger \in [escalated : BOOLEAN, compacted : BOOLEAN, overloads : Nat, model : Model]
  BY <1>1 DEF Init
<1> QED
  BY <1>1, <1>3, <1>4, <1>5 DEF Init, TypeOK

LEMMA TypeStep == TypeOK /\ [Next]_vars => TypeOK'
<1> SUFFICES ASSUME TypeOK, [Next]_vars PROVE TypeOK'
  OBVIOUS
<1> USE AttemptAssumption, BoundAssumption DEF Go
<1>1. ASSUME NEW t \in Turn, NEW h \in History, Begin(t, h) PROVE TypeOK'
  <2>1. UserMsg(t) \in Entry /\ h \in Seq(Entry)
    BY EntryTypes, HistoryAssumption
  <2>2. Append(h, UserMsg(t)) \in Seq(Entry)
    BY <2>1
  <2> QED
    BY <1>1, <2>2, StartTypes DEF Begin, TypeOK
<1>2. ASSUME NEW t \in Turn, Answers(t) \/ GivesUp(t) PROVE TypeOK'
  <2>1. \E phase \in Phase : Finish(t, phase)
    BY <1>2 DEF Answers, GivesUp, Phase
  <2>2. UNCHANGED <<ledger, service, streak, disturbed, lost>>
    BY <1>2 DEF Answers, GivesUp
  <2> QED
    BY <2>1, <2>2, FinishTypes DEF TypeOK
<1>3. ASSUME NEW t \in Turn, NEW n \in 1..MaxCalls, CallsTools(t, n) PROVE TypeOK'
  <2> DEFINE x == CallsMsg(t, iter[t] + 1, n)
             y == ToolMsgs(t, iter[t] + 1, n)
             m == conv[t] \o <<x>> \o y
  <2>0. iter[t] + 1 \in Nat /\ n \in Nat /\ conv[t] \in Seq(Entry)
    BY DEF TypeOK
  <2>1. x \in Entry /\ y \in Seq(Entry)
    BY <2>0, EntryTypes
  <2> HIDE DEF x, y
  <2>2. m \in Seq(Entry)
    BY <2>0, <2>1
  <2>3. CASE iter[t] + 1 < MaxToolIterations
    <3>1. /\ StartExchange(t, m) /\ conv' = [conv EXCEPT ![t] = m]
          /\ iter' = [iter EXCEPT ![t] = @ + 1]
          /\ UNCHANGED <<error, switch, ledger, service, lost>>
      BY <1>3, <2>3 DEF CallsTools, x, y
    <3>2. iter' \in [Turn -> 0..MaxToolIterations]
      BY <2>3, <3>1 DEF TypeOK
    <3> HIDE DEF m
    <3> QED
      BY <2>2, <3>1, <3>2, StartTypes DEF TypeOK
  <2>4. CASE ~(iter[t] + 1 < MaxToolIterations)
    <3>1. /\ Finish(t, "done")
          /\ UNCHANGED <<streak, disturbed, ledger, service, lost>>
      BY <1>3, <2>4 DEF CallsTools
    <3> QED
      BY <3>1, FinishTypes DEF TypeOK, Phase
  <2> QED
    BY <2>3, <2>4
<1>4. ASSUME NEW t \in Turn, NEW e \in Category, LlmFails(t, e) PROVE TypeOK'
  <2>1. CASE attempt[t] < MaxAttempts
    <3>1. attempt' = [attempt EXCEPT ![t] = @ + 1] /\ attempt[t] + 1 \in 0..MaxAttempts
      BY <1>4, <2>1 DEF LlmFails, TypeOK
    <3>2. attempt' \in [Turn -> 0..MaxAttempts]
      BY <3>1 DEF TypeOK
    <3>3. /\ error' = [error EXCEPT ![t] = e] /\ pc' = [pc EXCEPT ![t] = "handle"]
          /\ UNCHANGED <<conv, request, iter, switch, ledger, service, streak,
                         disturbed, lost>>
      BY <1>4, <2>1 DEF LlmFails
    <3> QED
      BY <3>2, <3>3 DEF TypeOK, Phase
  <2>2. CASE ~(attempt[t] < MaxAttempts)
    BY <1>4, <2>2, FinishTypes DEF LlmFails, TypeOK, Phase
  <2> QED
    BY <2>1, <2>2
<1>5. ASSUME NEW t \in Turn, CompactsContext(t) PROVE TypeOK'
  <2>1. request[t] \in [msgs : Seq(Entry), tokens : Tokens]
    BY DEF TypeOK
  <2>2. Compact(request[t].msgs) \in Seq(Entry)
    BY <2>1, CompactType
  <2>3. request' \in [Turn -> [msgs : Seq(Entry), tokens : Tokens]]
    BY <1>5, <2>1, <2>2 DEF CompactsContext, TypeOK
  <2> QED
    BY <1>5, <2>3 DEF CompactsContext, TypeOK, Phase
<1>6. ASSUME NEW t \in Turn, EscalatesTokens(t) PROVE TypeOK'
  BY <1>6 DEF EscalatesTokens, TypeOK, Phase, Tokens
<1>7. ASSUME NEW t \in Turn, RetryOrFail(t)
      PROVE  /\ pc' \in [Turn -> Phase]
             /\ conv' \in [Turn -> Seq(Entry)]
             /\ request' \in [Turn -> [msgs : Seq(Entry), tokens : Tokens]]
             /\ iter' \in [Turn -> 0..MaxToolIterations]
             /\ attempt' \in [Turn -> 0..MaxAttempts]
             /\ error' \in [Turn -> Category]
             /\ switch' \in [Turn -> BOOLEAN]
  BY <1>7, FinishTypes DEF RetryOrFail, TypeOK, Phase
<1>8. ASSUME NEW t \in Turn, BacksOffOverloaded(t) PROVE TypeOK'
  <2>1. /\ streak' \in [Turn -> Nat] /\ UNCHANGED <<service, disturbed, lost>>
        /\ ledger' \in [escalated : BOOLEAN, compacted : BOOLEAN,
                        overloads : Nat, model : Model]
    <3>1. \/ ledger' = [ledger EXCEPT !.model = "fallback", !.overloads = 0]
          \/ ledger' = [ledger EXCEPT !.overloads = @ + 1]
      BY <1>8 DEF BacksOffOverloaded
    <3>2. ledger \in [escalated : BOOLEAN, compacted : BOOLEAN,
                      overloads : Nat, model : Model]
      BY DEF TypeOK
    <3>3. ledger' \in [escalated : BOOLEAN, compacted : BOOLEAN,
                       overloads : Nat, model : Model]
      <4>1. /\ ledger.overloads \in Nat /\ ledger.overloads + 1 \in Nat
            /\ 0 \in Nat /\ "fallback" \in Model
        BY <3>2 DEF Model
      <4>2. CASE ledger' = [ledger EXCEPT !.model = "fallback", !.overloads = 0]
        BY <3>2, <4>1, <4>2
      <4>3. CASE ledger' = [ledger EXCEPT !.overloads = @ + 1]
        BY <3>2, <4>1, <4>3
      <4> QED
        BY <3>1, <4>2, <4>3
    <3>4. streak' \in [Turn -> Nat]
      BY <1>8 DEF BacksOffOverloaded, TypeOK
    <3> QED
      BY <1>8, <3>3, <3>4 DEF BacksOffOverloaded
  <2>2. CASE TimeToSwitch
    <3>1. /\ pc' = [pc EXCEPT ![t] = "backoff"] /\ switch' = [switch EXCEPT ![t] = TRUE]
          /\ UNCHANGED <<conv, request, iter, attempt, error>>
      BY <1>8, <2>2 DEF BacksOffOverloaded
    <3> QED
      BY <2>1, <3>1 DEF TypeOK, Phase
  <2>3. CASE ~TimeToSwitch
    BY <1>7, <1>8, <2>1, <2>3 DEF BacksOffOverloaded, TypeOK
  <2> QED
    BY <2>2, <2>3
<1>9. ASSUME NEW t \in Turn, BacksOffTransient(t) PROVE TypeOK'
  BY <1>7, <1>9 DEF BacksOffTransient, TypeOK
<1>10. ASSUME NEW t \in Turn, WakesUp(t) PROVE TypeOK'
  BY <1>10 DEF WakesUp, TypeOK, Phase, Model
<1>11. ASSUME NEW t \in Turn, Disconnects(t) PROVE TypeOK'
  BY <1>11, FinishTypes DEF Disconnects, TypeOK, Phase
<1>12. CASE UNCHANGED vars
  BY <1>12 DEF vars, TypeOK
<1> QED
  BY <1>1, <1>2, <1>3, <1>4, <1>5, <1>6, <1>8, <1>9, <1>10, <1>11, <1>12
  DEF Next, Llm, Handle

-----------------------------------------------------------------------------
(* The request, the ledger and the model.                                  *)

LEMMA RecoveryInit == Init => RequestInv /\ SwitchInv /\ StreakInv
BY StreakAssumption
DEF Init, NewRequest, RequestInv, SwitchInv, StreakInv, SwitchIsMadePendingOrLost

\* A turn that ends takes its conversation, its request and its switch along.
LEMMA FinishFacts ==
    ASSUME TypeOK, NEW t \in Turn, NEW phase, Finish(t, phase)
    PROVE  /\ request'[t].msgs = conv'[t] /\ switch'[t] = FALSE
           /\ \A s \in Turn \ {t} : /\ request'[s] = request[s]
                                   /\ conv'[s] = conv[s]
                                   /\ switch'[s] = switch[s]
                                   /\ pc'[s] = pc[s]
BY DEF TypeOK, Finish, NewRequest, Go

LEMMA RequestStep == TypeOK /\ RequestInv /\ [Next]_vars => RequestInv'
<1> SUFFICES ASSUME TypeOK, RequestInv, [Next]_vars PROVE RequestInv'
  OBVIOUS
<1>0. ASSUME NEW t \in Turn, NEW phase, Finish(t, phase), ledger'.compacted = ledger.compacted
      PROVE  RequestInv'
  BY <1>0, FinishFacts DEF RequestInv
<1>u. ASSUME UNCHANGED <<conv, request>>, ledger'.compacted = ledger.compacted
      PROVE  RequestInv'
  BY <1>u DEF RequestInv
<1>s. ASSUME NEW t \in Turn, NEW m, StartExchange(t, m), conv' = [conv EXCEPT ![t] = m],
             UNCHANGED ledger
      PROVE  RequestInv'
  BY <1>s DEF StartExchange, NewRequest, RequestInv, TypeOK
<1>1. ASSUME NEW t \in Turn, NEW h \in History, Begin(t, h) PROVE RequestInv'
  BY <1>1, <1>s DEF Begin
<1>2. ASSUME NEW t \in Turn, Answers(t) \/ GivesUp(t) \/ Disconnects(t) PROVE RequestInv'
  BY <1>0, <1>2 DEF Answers, GivesUp, Disconnects
<1>3. ASSUME NEW t \in Turn, NEW n \in 1..MaxCalls, CallsTools(t, n) PROVE RequestInv'
  BY <1>0, <1>3, <1>s DEF CallsTools
<1>4. ASSUME NEW t \in Turn, NEW e \in Category, LlmFails(t, e) PROVE RequestInv'
  BY <1>0, <1>4, <1>u DEF LlmFails
<1>5. ASSUME NEW t \in Turn, CompactsContext(t) PROVE RequestInv'
  <2>1. request'[t].msgs = Compact(request[t].msgs) /\ request[t].msgs = conv[t]
    BY <1>5 DEF CompactsContext, TypeOK, RequestInv
  <2>2. ledger'.compacted /\ UNCHANGED conv
    BY <1>5 DEF CompactsContext, TypeOK
  <2>3. \A s \in Turn \ {t} : request'[s] = request[s]
    BY <1>5 DEF CompactsContext, TypeOK
  <2> QED
    BY <2>1, <2>2, <2>3 DEF RequestInv
<1>6. ASSUME NEW t \in Turn, EscalatesTokens(t) PROVE RequestInv'
  <2>1. \A s \in Turn : request'[s].msgs = request[s].msgs
    BY <1>6 DEF EscalatesTokens, TypeOK
  <2>2. UNCHANGED conv /\ ledger'.compacted = ledger.compacted
    BY <1>6 DEF EscalatesTokens, TypeOK
  <2> QED
    BY <2>1, <2>2 DEF RequestInv
<1>7. ASSUME NEW t \in Turn, BacksOffOverloaded(t) \/ BacksOffTransient(t) PROVE RequestInv'
  <2>1. ledger'.compacted = ledger.compacted
    BY <1>7 DEF BacksOffOverloaded, BacksOffTransient, TypeOK
  <2>2. UNCHANGED <<conv, request>> \/ Finish(t, "failed")
    BY <1>7 DEF BacksOffOverloaded, BacksOffTransient, RetryOrFail
  <2> QED
    BY <1>0, <1>u, <2>1, <2>2
<1>8. ASSUME NEW t \in Turn, WakesUp(t) PROVE RequestInv'
  BY <1>8, <1>u DEF WakesUp
<1>9. CASE UNCHANGED vars
  BY <1>9, <1>u DEF vars
<1> QED
  BY <1>1, <1>2, <1>3, <1>4, <1>5, <1>6, <1>7, <1>8, <1>9 DEF Next, Llm, Handle

LEMMA SwitchStep == TypeOK /\ SwitchInv /\ [Next]_vars => SwitchInv'
<1> SUFFICES ASSUME TypeOK, SwitchInv, [Next]_vars PROVE SwitchInv'
  OBVIOUS
<1> USE DEF Go
\* Steps that leave the model, the service and the switches as they are.
<1>q. ASSUME NEW t \in Turn, pc[t] # "backoff", \A s \in Turn \ {t} : pc'[s] = pc[s],
             \A s \in Turn : switch'[s] = switch[s],
             ledger'.model = ledger.model, UNCHANGED <<service, lost>>
      PROVE  SwitchInv'
  BY <1>q DEF SwitchInv, SwitchIsMadePendingOrLost
<1>f. ASSUME NEW t \in Turn, NEW phase, Finish(t, phase), pc[t] # "backoff",
             ledger'.model = ledger.model, UNCHANGED <<service, lost>>
      PROVE  SwitchInv'
  <2>0. switch[t] = FALSE
    BY <1>f DEF SwitchInv, TypeOK
  <2>1. \A s \in Turn : switch'[s] = switch[s]
    BY <1>f, <2>0, FinishFacts
  <2> QED
    BY <1>f, <1>q, <2>1, FinishFacts
<1>1. ASSUME NEW t \in Turn, NEW h \in History, Begin(t, h) PROVE SwitchInv'
  BY <1>1, <1>q DEF Begin, StartExchange, TypeOK
<1>2. ASSUME NEW t \in Turn, Answers(t) \/ GivesUp(t) PROVE SwitchInv'
  BY <1>2, <1>f DEF Answers, GivesUp
<1>3. ASSUME NEW t \in Turn, NEW n \in 1..MaxCalls, CallsTools(t, n) PROVE SwitchInv'
  BY <1>3, <1>f, <1>q DEF CallsTools, StartExchange, TypeOK
<1>4. ASSUME NEW t \in Turn, NEW e \in Category, LlmFails(t, e) PROVE SwitchInv'
  BY <1>4, <1>f, <1>q DEF LlmFails, TypeOK
<1>5. ASSUME NEW t \in Turn, CompactsContext(t) \/ EscalatesTokens(t) PROVE SwitchInv'
  BY <1>5, <1>q DEF CompactsContext, EscalatesTokens, TypeOK
<1>6. ASSUME NEW t \in Turn, BacksOffOverloaded(t) \/ BacksOffTransient(t) PROVE SwitchInv'
  <2>1. CASE BacksOffOverloaded(t) /\ TimeToSwitch
    <3>1. /\ pc' = [pc EXCEPT ![t] = "backoff"] /\ ledger'.model = "fallback"
          /\ switch' = [switch EXCEPT ![t] = TRUE]
      BY <2>1 DEF BacksOffOverloaded, TypeOK
    <3> QED
      BY <3>1 DEF SwitchInv, SwitchIsMadePendingOrLost, TypeOK
  <2>2. CASE ~(BacksOffOverloaded(t) /\ TimeToSwitch)
    <3>1. /\ pc[t] = "handle" /\ ledger'.model = ledger.model
          /\ UNCHANGED <<service, lost>> /\ RetryOrFail(t)
      BY <1>6, <2>2 DEF BacksOffOverloaded, BacksOffTransient, TypeOK
    <3>2. CASE Finish(t, "failed")
      BY <1>f, <3>1, <3>2
    <3>3. CASE pc' = [pc EXCEPT ![t] = "backoff"] /\ UNCHANGED switch
      BY <1>q, <3>1, <3>3 DEF TypeOK
    <3> QED
      BY <3>1, <3>2, <3>3 DEF RetryOrFail
  <2> QED
    BY <2>1, <2>2
<1>7. ASSUME NEW t \in Turn, WakesUp(t) PROVE SwitchInv'
  <2>1. /\ pc' = [pc EXCEPT ![t] = "send"] /\ switch' = [switch EXCEPT ![t] = FALSE]
        /\ service' = IF switch[t] THEN "fallback" ELSE service
        /\ UNCHANGED <<ledger, lost>>
    BY <1>7 DEF WakesUp
  <2>2. switch[t] => ledger.model = "fallback"
    BY DEF SwitchInv
  <2> QED
    BY <2>1, <2>2 DEF SwitchInv, SwitchIsMadePendingOrLost, TypeOK
<1>8. ASSUME NEW t \in Turn, Disconnects(t) PROVE SwitchInv'
  BY <1>8, FinishFacts DEF Disconnects, SwitchInv, SwitchIsMadePendingOrLost, TypeOK
<1>9. CASE UNCHANGED vars
  BY <1>9 DEF vars, SwitchInv, SwitchIsMadePendingOrLost
<1> QED
  BY <1>1, <1>2, <1>3, <1>4, <1>5, <1>6, <1>7, <1>8, <1>9 DEF Next, Llm, Handle

LEMMA StreakStep == TypeOK /\ StreakInv /\ [Next]_vars => StreakInv'
<1> SUFFICES ASSUME TypeOK, StreakInv, [Next]_vars PROVE StreakInv'
  OBVIOUS
<1> USE StreakAssumption, FallbackAssumption
<1>0. ledger.overloads \in Nat /\ \A s \in Turn : streak[s] \in Nat
  BY DEF TypeOK
<1>q. ASSUME ledger'.model = ledger.model, ledger'.overloads = ledger.overloads,
             UNCHANGED <<streak, disturbed>>
      PROVE  StreakInv'
  BY <1>q DEF StreakInv
<1>s. ASSUME NEW t \in Turn, NEW m, StartExchange(t, m), UNCHANGED ledger
      PROVE  StreakInv'
  BY <1>0, <1>s DEF StartExchange, StreakInv, TypeOK
<1>1. ASSUME NEW t \in Turn, NEW h \in History, Begin(t, h) PROVE StreakInv'
  BY <1>1, <1>s DEF Begin
<1>2. ASSUME NEW t \in Turn, Answers(t) \/ GivesUp(t) \/ WakesUp(t) \/ Disconnects(t)
      PROVE  StreakInv'
  BY <1>2, <1>q DEF Answers, GivesUp, WakesUp, Disconnects
<1>3. ASSUME NEW t \in Turn, NEW n \in 1..MaxCalls, CallsTools(t, n) PROVE StreakInv'
  BY <1>3, <1>q, <1>s DEF CallsTools
<1>4. ASSUME NEW t \in Turn, NEW e \in Category, LlmFails(t, e) PROVE StreakInv'
  BY <1>4, <1>q DEF LlmFails
<1>5. ASSUME NEW t \in Turn, CompactsContext(t) \/ EscalatesTokens(t) PROVE StreakInv'
  BY <1>5, <1>q DEF CompactsContext, EscalatesTokens, TypeOK
<1>6. ASSUME NEW t \in Turn, BacksOffOverloaded(t) PROVE StreakInv'
  <2>1. CASE TimeToSwitch
    <3>1. ledger'.model = "fallback"
      BY <1>6, <2>1 DEF BacksOffOverloaded, TypeOK
    <3> QED
      BY <3>1 DEF StreakInv
  <2>2. CASE ~TimeToSwitch
    <3>1. /\ ledger'.model = ledger.model /\ ledger'.overloads = ledger.overloads + 1
          /\ streak' = [streak EXCEPT ![t] = @ + 1] /\ UNCHANGED disturbed
      BY <1>6, <2>2 DEF BacksOffOverloaded, TypeOK
    <3>2. \A s \in Turn : streak'[s] <= streak[s] + 1
      BY <1>0, <3>1 DEF TypeOK
    <3>3. \A s \in Turn : streak'[s] \in Nat
      BY <1>0, <3>1 DEF TypeOK
    <3> QED
      BY <1>0, <2>2, <3>1, <3>2, <3>3 DEF StreakInv, TimeToSwitch
  <2> QED
    BY <2>1, <2>2
<1>7. ASSUME NEW t \in Turn, BacksOffTransient(t) PROVE StreakInv'
  <2>1. /\ ledger'.model = ledger.model /\ ledger'.overloads = 0
        /\ streak' = [streak EXCEPT ![t] = 0]
        /\ disturbed' = disturbed \cup {s \in Turn \ {t} : streak[s] > 0}
    BY <1>7 DEF BacksOffTransient, TypeOK
  <2>2. \A s \in Turn \ disturbed' : streak'[s] <= 0
    BY <1>0, <2>1 DEF TypeOK
  <2> QED
    BY <2>1, <2>2 DEF StreakInv
<1>8. CASE UNCHANGED vars
  BY <1>8, <1>q DEF vars
<1> QED
  BY <1>1, <1>2, <1>3, <1>4, <1>5, <1>6, <1>7, <1>8 DEF Next, Llm, Handle

-----------------------------------------------------------------------------

\* The types, and with them the bounds on attempts and iterations.
THEOREM RecoveryTypeCorrect == Spec => []TypeOK
BY TypeInit, TypeStep, PTL DEF Spec

\* Notes never stand for notes: one compaction in the life of the agent, however
\* many turns ask for one (base.py:363-367).
THEOREM RecoveryShowsConversation == Spec => []RequestShowsConversation
<1>1. RequestInv => RequestShowsConversation
  BY DEF RequestInv, RequestShowsConversation
<1> QED
  BY <1>1, TypeInit, RecoveryInit, TypeStep, RequestStep, PTL DEF Spec

\* Ledger and service disagree about the model only while a switch is pending or
\* after the turn that was to make it has gone (base.py:536, agent.py:1584-1591).
THEOREM RecoverySwitches == Spec => []SwitchIsMadePendingOrLost
<1>1. SwitchInv => SwitchIsMadePendingOrLost
  BY DEF SwitchInv
<1> QED
  BY <1>1, TypeInit, RecoveryInit, TypeStep, SwitchStep, PTL DEF Spec

\* No exchange ends on the overloaded model after as many overloads in a row as
\* the threshold asks for, for every order of the turns' errors
\* (base.py:530-576).
THEOREM RecoveryFallsBack == Spec => []FallbackBeforeGivingUp
<1>1. TypeOK /\ SwitchInv /\ StreakInv => FallbackBeforeGivingUp
  <2> SUFFICES ASSUME TypeOK, SwitchInv, StreakInv, NEW t \in Turn,
                      HasFallback, streak[t] >= MaxConsecutive529, t \notin disturbed
               PROVE  service = "fallback" \/ (\E s \in Turn : switch[s]) \/ lost
    BY DEF FallbackBeforeGivingUp
  <2>1. ledger.overloads \in Nat /\ streak[t] \in Nat
    BY DEF TypeOK
  <2>2. ledger.model = "fallback"
    BY <2>1, StreakAssumption DEF StreakInv
  <2> QED
    BY <2>2 DEF SwitchInv, SwitchIsMadePendingOrLost
<1> QED
  BY <1>1, TypeInit, RecoveryInit, TypeStep, SwitchStep, StreakStep, PTL DEF Spec

-----------------------------------------------------------------------------
(* How many steps a turn can take.                                         *)

LEMMA RoundsTaken ==
    ASSUME NEW r \in Nat, NEW k \in Nat
    PROVE  r * k \in Nat /\ r * (k + 1) = r * k + r
OBVIOUS

\* The step of turn u that takes it from state to state.
LeavesLess(u) ==
    \/ pc'[u] = pc[u] /\ iter'[u] = iter[u] /\ attempt'[u] = attempt[u]
    \/ StepsLeft(u)' \in Nat /\ StepsLeft(u)' < StepsLeft(u)

LEMMA OthersStand ==
    ASSUME TypeOK, NEW t \in Turn, Llm(t) \/ Handle(t) \/ Disconnects(t)
                                   \/ \E h \in History : Begin(t, h),
           NEW u \in Turn \ {t}
    PROVE  pc'[u] = pc[u] /\ iter'[u] = iter[u] /\ attempt'[u] = attempt[u]
<1> USE DEF TypeOK, Go
<1>1. CASE (\E h \in History : Begin(t, h)) \/ Answers(t) \/ GivesUp(t) \/ Disconnects(t)
  BY <1>1 DEF Begin, StartExchange, Answers, GivesUp, Disconnects, Finish
<1>2. CASE \E n \in 1..MaxCalls : CallsTools(t, n)
  BY <1>2 DEF CallsTools, StartExchange, Finish
<1>3. CASE \E e \in Category : LlmFails(t, e)
  BY <1>3 DEF LlmFails, Finish
<1>4. CASE CompactsContext(t) \/ EscalatesTokens(t) \/ WakesUp(t)
  BY <1>4 DEF CompactsContext, EscalatesTokens, WakesUp
<1>5. CASE BacksOffOverloaded(t) \/ BacksOffTransient(t)
  BY <1>5 DEF BacksOffOverloaded, BacksOffTransient, RetryOrFail, Finish
<1> QED
  BY <1>1, <1>2, <1>3, <1>4, <1>5 DEF Llm, Handle

LEMMA OwnStepCounts ==
    ASSUME TypeOK, TypeOK', NEW t \in Turn,
           \/ Llm(t) \/ Handle(t) \/ Disconnects(t)
           \/ \E h \in History : Begin(t, h)
    PROVE  StepsLeft(t)' \in Nat /\ StepsLeft(t)' < StepsLeft(t)
<1> DEFINE left == MaxToolIterations - iter[t]
<1>1. /\ pc \in [Turn -> Phase] /\ iter \in [Turn -> Nat] /\ attempt \in [Turn -> Nat]
      /\ left \in Nat /\ MaxToolIterations - iter'[t] \in Nat
      /\ MaxAttempts - attempt[t] \in Nat /\ MaxAttempts - attempt'[t] \in Nat
      /\ iter[t] \in Nat /\ attempt[t] \in Nat /\ MaxAttempts \in Nat \ {0}
      /\ MaxToolIterations \in Nat
  BY AttemptAssumption, BoundAssumption DEF TypeOK
<1>2. /\ Round \in Nat /\ Round = 3 * MaxAttempts + 2
      /\ Round * left \in Nat
  BY <1>1, RoundsTaken DEF Round
<1>r. pc[t] \in {"new", "send", "handle", "backoff"} => StepsLeft(t) \in Nat /\ StepsLeft(t) > 0
  BY <1>1, <1>2 DEF StepsLeft
\* A step within the exchange.
<1>i. ASSUME iter'[t] = iter[t],
             \/ pc[t] = "send" /\ pc'[t] = "handle" /\ attempt'[t] = attempt[t] + 1
             \/ /\ attempt'[t] = attempt[t]
                /\ \/ pc[t] = "handle" /\ pc'[t] \in {"send", "backoff"}
                   \/ pc[t] = "backoff" /\ pc'[t] = "send"
      PROVE  StepsLeft(t)' \in Nat /\ StepsLeft(t)' < StepsLeft(t)
  <2> DEFINE p == Round * left
  <2>1. p \in Nat /\ Round * (MaxToolIterations - iter'[t]) = p
    BY <1>2, <1>i
  <2>2. StepsLeft(t) = CASE pc[t] = "new"     -> p + Round
                         [] pc[t] = "handle"  -> p + 3 * (MaxAttempts - attempt[t]) + 3
                         [] pc[t] = "backoff" -> p + 3 * (MaxAttempts - attempt[t]) + 2
                         [] pc[t] = "send"    -> p + 3 * (MaxAttempts - attempt[t]) + 1
                         [] OTHER             -> 0
    BY DEF StepsLeft
  <2>3. StepsLeft(t)' = CASE pc'[t] = "new"     -> p + Round
                          [] pc'[t] = "handle"  -> p + 3 * (MaxAttempts - attempt'[t]) + 3
                          [] pc'[t] = "backoff" -> p + 3 * (MaxAttempts - attempt'[t]) + 2
                          [] pc'[t] = "send"    -> p + 3 * (MaxAttempts - attempt'[t]) + 1
                          [] OTHER              -> 0
    BY <2>1 DEF StepsLeft, Round
  <2> HIDE DEF p
  <2> QED
    BY <1>1, <1>i, <2>1, <2>2, <2>3
\* A step that ends the turn.
<1>f. ASSUME NEW phase \in {"done", "failed", "gone"}, Finish(t, phase),
             pc[t] \in {"new", "send", "handle", "backoff"}
      PROVE  StepsLeft(t)' \in Nat /\ StepsLeft(t)' < StepsLeft(t)
  <2>1. pc'[t] = phase
    BY <1>1, <1>f DEF Finish, Go
  <2>2. StepsLeft(t)' = 0
    BY <1>f, <2>1 DEF StepsLeft
  <2> QED
    BY <1>r, <1>f, <2>2
<1>3. ASSUME NEW h \in History, Begin(t, h)
      PROVE  StepsLeft(t)' \in Nat /\ StepsLeft(t)' < StepsLeft(t)
  <2>1. pc[t] = "new" /\ pc'[t] = "send" /\ attempt'[t] = 0 /\ iter' = iter
    BY <1>1, <1>3 DEF Begin, StartExchange, Go, TypeOK
  <2> DEFINE p == Round * left
  <2>2. /\ StepsLeft(t) = p + Round
        /\ StepsLeft(t)' = p + 3 * MaxAttempts + 1
    BY <1>1, <2>1 DEF StepsLeft, Round
  <2>3. p \in Nat
    BY <1>2
  <2> HIDE DEF p
  <2> QED
    BY <1>1, <1>2, <2>2, <2>3
<1>4. ASSUME NEW n \in 1..MaxCalls, CallsTools(t, n)
      PROVE  StepsLeft(t)' \in Nat /\ StepsLeft(t)' < StepsLeft(t)
  <2>1. CASE iter[t] + 1 < MaxToolIterations
    <3>1. /\ pc[t] = "send" /\ pc'[t] = "send" /\ attempt'[t] = 0
          /\ iter'[t] = iter[t] + 1
      BY <1>1, <1>4, <2>1 DEF CallsTools, StartExchange, Go, TypeOK
    <3> DEFINE next == MaxToolIterations - iter'[t]
               p == Round * next
    <3>2. next \in Nat /\ left = next + 1
      BY <1>1, <3>1
    <3> HIDE DEF next
    <3>3. p \in Nat /\ Round * (next + 1) = p + Round
      BY <1>2, <3>2, RoundsTaken
    <3>4. StepsLeft(t) = Round * left + 3 * (MaxAttempts - attempt[t]) + 1
      BY <3>1 DEF StepsLeft
    <3>5. StepsLeft(t)' = p + 3 * MaxAttempts + 1
      BY <1>1, <3>1 DEF StepsLeft, Round, next
    <3>6. Round * left = p + Round
      BY <3>2, <3>3
    <3> HIDE DEF p
    <3> QED
      BY <1>1, <1>2, <3>3, <3>4, <3>5, <3>6
  <2>2. CASE ~(iter[t] + 1 < MaxToolIterations)
    BY <1>4, <1>f, <2>2 DEF CallsTools
  <2> QED
    BY <2>1, <2>2
<1>5. ASSUME NEW e \in Category, LlmFails(t, e)
      PROVE  StepsLeft(t)' \in Nat /\ StepsLeft(t)' < StepsLeft(t)
  <2>1. CASE attempt[t] < MaxAttempts
    <3>1. /\ pc[t] = "send" /\ pc'[t] = "handle" /\ attempt'[t] = attempt[t] + 1
          /\ iter'[t] = iter[t]
      BY <1>1, <1>5, <2>1 DEF LlmFails, Go
    <3> QED
      BY <1>i, <3>1
  <2>2. CASE ~(attempt[t] < MaxAttempts)
    BY <1>5, <1>f, <2>2 DEF LlmFails
  <2> QED
    BY <2>1, <2>2
<1>6. CASE Answers(t) \/ GivesUp(t) \/ Disconnects(t)
  BY <1>6, <1>f DEF Answers, GivesUp, Disconnects
<1>7. CASE CompactsContext(t) \/ EscalatesTokens(t) \/ WakesUp(t)
  <2>1. /\ iter' = iter /\ attempt' = attempt /\ pc[t] \in {"handle", "backoff"}
        /\ pc'[t] = "send"
    BY <1>1, <1>7 DEF CompactsContext, EscalatesTokens, WakesUp, Go
  <2> QED
    BY <1>i, <2>1
<1>8. CASE BacksOffOverloaded(t) \/ BacksOffTransient(t)
  <2>1. /\ pc[t] = "handle"
        /\ \/ Finish(t, "failed")
           \/ pc'[t] = "backoff" /\ iter' = iter /\ attempt' = attempt
    BY <1>1, <1>8 DEF BacksOffOverloaded, BacksOffTransient, RetryOrFail, Go
  <2>2. CASE Finish(t, "failed")
    BY <1>f, <2>1, <2>2
  <2>3. CASE pc'[t] = "backoff" /\ iter' = iter /\ attempt' = attempt
    BY <1>i, <2>1, <2>3
  <2> QED
    BY <2>1, <2>2, <2>3
<1> QED
  BY <1>3, <1>4, <1>5, <1>6, <1>7, <1>8 DEF Llm, Handle

LEMMA EveryStepCounts ==
    TypeOK /\ TypeOK' /\ [Next]_vars => \A u \in Turn : LeavesLess(u)
<1> SUFFICES ASSUME TypeOK, TypeOK', [Next]_vars, NEW u \in Turn PROVE LeavesLess(u)
  OBVIOUS
<1>1. ASSUME NEW t \in Turn, Llm(t) \/ Handle(t) \/ Disconnects(t)
                             \/ \E h \in History : Begin(t, h)
      PROVE  LeavesLess(u)
  <2>1. CASE u = t
    BY <1>1, <2>1, OwnStepCounts DEF LeavesLess
  <2>2. CASE u # t
    BY <1>1, <2>2, OthersStand DEF LeavesLess
  <2> QED
    BY <2>1, <2>2
<1>2. CASE UNCHANGED vars
  BY <1>2 DEF vars, LeavesLess
<1> QED
  BY <1>1, <1>2 DEF Next

\* No turn takes more than (3 * max_recovery_attempts + 2) times
\* (max_tool_iterations + 1) steps: each of its own uses one up, and no turn
\* gives another one back through the ledger or the service they share
\* (agent.py:652, 1568-1638).
THEOREM RecoveryStepsRunOut == Spec => StepsRunOut
<1>1. TypeOK /\ TypeOK' /\ [Next]_vars =>
        [\A t \in Turn :
            \/ UNCHANGED <<pc[t], iter[t], attempt[t]>>
            \/ StepsLeft(t)' \in Nat /\ StepsLeft(t)' < StepsLeft(t)]_vars
  BY EveryStepCounts DEF LeavesLess
<1> QED
  BY <1>1, TypeInit, TypeStep, PTL DEF Spec, StepsRunOut

-----------------------------------------------------------------------------
(* What compaction does to the order of the messages.                      *)

LEMMA EntryNumber ==
    ASSUME NEW m \in Seq(Entry)
    PROVE  \A i \in 1..Len(m) : m[i].n \in Nat
<1>1. \A i \in 1..Len(m) : m[i] \in Entry
  OBVIOUS
<1> QED
  BY <1>1 DEF Entry

\* The windows and the note between them, position by position.
LEMMA Compacted ==
    ASSUME NEW m \in Seq(Entry), Len(m) > KeepFirst + KeepRecent
    PROVE  LET c == Compact(m)
               d == Len(m) - KeepRecent - KeepFirst - 1
           IN  /\ DOMAIN c = 1..(KeepFirst + 1 + KeepRecent)
               /\ d \in Nat
               /\ \A i \in 1..KeepFirst : c[i] = m[i]
               /\ c[KeepFirst + 1].role = "user"
               /\ \A i \in (KeepFirst + 2)..(KeepFirst + 1 + KeepRecent) : c[i] = m[i + d]
<1> DEFINE a == SubSeq(m, 1, KeepFirst)
           b == SubSeq(m, Len(m) - KeepRecent + 1, Len(m))
           x == Note(Len(m) - KeepFirst - KeepRecent)
           d == Len(m) - KeepRecent - KeepFirst - 1
<1>1. KeepFirst \in Nat /\ KeepRecent \in Nat /\ Len(m) \in Nat /\ d \in Nat
  BY KeepAssumption
<1>2. /\ a \in Seq(Entry) /\ Len(a) = KeepFirst
      /\ \A i \in 1..KeepFirst : a[i] = m[i]
  BY <1>1
<1>3. /\ b \in Seq(Entry) /\ Len(b) = KeepRecent
      /\ \A i \in 1..KeepRecent : b[i] = m[i + KeepFirst + 1 + d]
  BY <1>1
<1>4. x \in Entry /\ x.role = "user"
  <2>1. Len(m) - KeepFirst - KeepRecent \in Nat
    BY <1>1
  <2> QED
    BY <2>1 DEF Note, Entry, Role
<1>5. Compact(m) = a \o <<x>> \o b
  BY <1>1 DEF Compact
<1> HIDE DEF a, b, x, d
<1> DEFINE c == a \o <<x>> \o b
<1>6. /\ c \in Seq(Entry) /\ Len(c) = KeepFirst + 1 + KeepRecent
      /\ \A i \in 1..KeepFirst : c[i] = a[i]
      /\ c[KeepFirst + 1] = x
      /\ \A l \in 1..KeepRecent : c[KeepFirst + 1 + l] = b[l]
  <2> DEFINE h == a \o <<x>>
  <2>1. /\ h \in Seq(Entry) /\ Len(h) = KeepFirst + 1
        /\ \A i \in 1..KeepFirst : h[i] = a[i]
        /\ h[KeepFirst + 1] = x
    BY <1>1, <1>2, <1>4
  <2> HIDE DEF h
  <2> DEFINE k == h \o b
  <2>2. /\ k \in Seq(Entry) /\ Len(k) = Len(h) + Len(b)
        /\ \A i \in 1..Len(h) : k[i] = h[i]
        /\ \A l \in 1..Len(b) : k[Len(h) + l] = b[l]
    <3>1. k \in Seq(Entry) /\ Len(k) = Len(h) + Len(b)
      BY <1>3, <2>1
    <3>2. ASSUME NEW i \in 1..Len(h) PROVE k[i] = h[i]
      BY <1>3, <2>1
    <3>3. ASSUME NEW l \in 1..Len(b) PROVE k[Len(h) + l] = b[l]
      BY <1>3, <2>1
    <3> QED
      BY <3>1, <3>2, <3>3
  <2> HIDE DEF k
  <2>3. /\ k \in Seq(Entry) /\ Len(k) = KeepFirst + 1 + KeepRecent
        /\ \A l \in 1..KeepRecent : k[KeepFirst + 1 + l] = b[l]
    BY <1>1, <1>3, <2>1, <2>2
  <2>4. /\ \A i \in 1..KeepFirst : k[i] = a[i]
        /\ k[KeepFirst + 1] = x
    BY <1>1, <2>1, <2>2
  <2> QED
    BY <2>3, <2>4 DEF k, h
<1>7. \A i \in (KeepFirst + 2)..(KeepFirst + 1 + KeepRecent) : c[i] = m[i + d]
  <2> SUFFICES ASSUME NEW i \in (KeepFirst + 2)..(KeepFirst + 1 + KeepRecent)
               PROVE  c[i] = m[i + d]
    OBVIOUS
  <2>1. PICK l \in 1..KeepRecent : i = KeepFirst + 1 + l
    <3>1. i - (KeepFirst + 1) \in 1..KeepRecent /\ i = KeepFirst + 1 + (i - (KeepFirst + 1))
      BY <1>1
    <3> QED
      BY <3>1
  <2>2. c[i] = m[l + KeepFirst + 1 + d]
    BY <1>3, <1>6, <2>1
  <2>3. l + KeepFirst + 1 + d = i + d
    BY <1>1, <2>1
  <2> QED
    BY <2>2, <2>3
<1>8. DOMAIN c = 1..(KeepFirst + 1 + KeepRecent)
  BY <1>1, <1>6
<1> QED
  BY <1>1, <1>2, <1>4, <1>5, <1>6, <1>7, <1>8 DEF d

\* An edge within a block of answers always shows: the calls before the note are
\* not answered, or the answer after it has no call.
LEMMA CutShows ==
    ASSUME NEW m \in Seq(Entry), WellFormed(m), CutsBlock(m)
    PROVE  ~WellFormed(Compact(m))
<1> DEFINE c == Compact(m)
           f == KeepFirst
           d == Len(m) - KeepRecent - KeepFirst - 1
<1>1. f \in Nat /\ KeepRecent \in Nat /\ Len(m) \in Nat /\ Len(m) > f + KeepRecent
  BY KeepAssumption DEF CutsBlock
<1>2. /\ DOMAIN c = 1..(f + 1 + KeepRecent)
      /\ d \in Nat
      /\ \A i \in 1..f : c[i] = m[i]
      /\ c[f + 1].role = "user"
      /\ \A i \in (f + 2)..(f + 1 + KeepRecent) : c[i] = m[i + d]
  BY <1>1, Compacted
<1>3. \A i \in 1..Len(m) : m[i].n \in Nat
  BY EntryNumber
<1> HIDE DEF c
<1> SUFFICES ASSUME WellFormed(c) PROVE FALSE
  BY DEF c
<1>4. CASE m[f + 1].role = "tool"
  <2>1. f + 1 \in DOMAIN m
    BY <1>1
  <2>2. PICK n \in Nat : n = m[f + 1].n
    BY <1>1, <1>3
  <2>3. PICK j \in Int : j = f + 1 - n
    BY <1>1
  <2>4. j \in DOMAIN m /\ m[j].role = "calls" /\ n <= m[j].n
    <3>1. Called(m, f + 1)
      BY <2>1 DEF WellFormed
    <3>2. (f + 1) - n = j
      BY <1>1, <2>3
    <3> QED
      BY <1>4, <2>2, <3>1, <3>2 DEF Called
  <2>5. n # 0 /\ j \in 1..f /\ j + n = f + 1
    BY <1>1, <1>4, <2>3, <2>4
  <2>6. c[j] = m[j] /\ j \in DOMAIN c /\ m[j].n \in Nat
    BY <1>1, <1>2, <1>3, <2>5
  <2>7. c[j + n] = ToolMsg(c[j].turn, c[j].iter, n)
    <3>1. n \in 1..c[j].n /\ c[j].role = "calls"
      BY <2>4, <2>5, <2>6
    <3> QED
      BY <2>6, <3>1 DEF WellFormed, Answered
  <2> QED
    BY <1>2, <2>5, <2>7 DEF ToolMsg
<1>5. CASE KeepRecent > 0 /\ m[Len(m) - KeepRecent + 1].role = "tool"
  <2>1. PICK q \in Nat : q = Len(m) - KeepRecent + 1
    <3>1. Len(m) - KeepRecent + 1 \in Nat
      BY <1>1
    <3> QED
      BY <3>1
  <2>2. q \in 1..Len(m) /\ q = (f + 2) + d /\ f + 2 \in (f + 2)..(f + 1 + KeepRecent)
    BY <1>1, <1>5, <2>1
  <2>3. f + 2 \in DOMAIN c /\ c[f + 2] = m[q]
    BY <1>1, <1>2, <2>2
  <2>4. PICK n \in Nat : n = m[q].n
    BY <1>3, <2>2
  <2>5. PICK j \in Int : j = f + 2 - n
    BY <1>1
  <2>6. q \in DOMAIN m /\ m[q].role = "tool"
    BY <1>5, <2>1, <2>2
  <2>7. m[q - n].role = "calls"
    BY <2>4, <2>6 DEF WellFormed, Called
  <2>8. n # 0
    BY <2>1, <2>6, <2>7
  <2>9. j \in DOMAIN c /\ c[j].role = "calls" /\ n <= c[j].n
    <3>1. Called(c, f + 2)
      BY <2>3 DEF WellFormed
    <3>2. (f + 2) - n = j
      BY <1>1, <2>5
    <3> QED
      BY <2>3, <2>4, <2>6, <3>1, <3>2 DEF Called
  <2>10. n # 1
    BY <1>1, <1>2, <2>5, <2>9
  <2>11. PICK k \in Nat : k = n - 1
    BY <2>8
  <2>12. k # 0 /\ j + k = f + 1 /\ j \in 1..f
    BY <1>1, <1>2, <2>5, <2>8, <2>9, <2>10, <2>11
  <2>13. c[j].n \in Nat
    <3>1. c[j] = m[j] /\ j \in 1..Len(m)
      BY <1>1, <1>2, <2>12
    <3> QED
      BY <1>3, <3>1
  <2>14. k \in 1..c[j].n
    BY <2>9, <2>11, <2>12, <2>13
  <2>15. c[j + k] = ToolMsg(c[j].turn, c[j].iter, k)
    BY <2>9, <2>14 DEF WellFormed, Answered
  <2> QED
    BY <1>2, <2>12, <2>15 DEF ToolMsg
<1> QED
  BY <1>4, <1>5 DEF CutsBlock

\* Windows that end and begin between blocks keep the order legal.
LEMMA UncutStaysLegal ==
    ASSUME NEW m \in Seq(Entry), WellFormed(m), ~CutsBlock(m)
    PROVE  WellFormed(Compact(m))
<1>0. CASE Len(m) <= KeepFirst + KeepRecent
  BY <1>0 DEF Compact
<1>1. CASE Len(m) > KeepFirst + KeepRecent
  <2> DEFINE c == Compact(m)
             f == KeepFirst
             d == Len(m) - KeepRecent - KeepFirst - 1
             e == f + 1 + KeepRecent
  <2>1. f \in Nat /\ KeepRecent \in Nat /\ Len(m) \in Nat /\ e \in Nat
    BY KeepAssumption
  <2>2. /\ DOMAIN c = 1..e
        /\ d \in Nat /\ e + d = Len(m)
        /\ \A i \in 1..f : c[i] = m[i] /\ i \in DOMAIN m
        /\ c[f + 1].role = "user"
        /\ \A i \in (f + 2)..e : c[i] = m[i + d] /\ i + d \in DOMAIN m
    <3>1. /\ DOMAIN c = 1..e
          /\ d \in Nat
          /\ \A i \in 1..f : c[i] = m[i]
          /\ c[f + 1].role = "user"
          /\ \A i \in (f + 2)..e : c[i] = m[i + d]
      BY <1>1, Compacted
    <3>2. e + d = Len(m) /\ DOMAIN m = 1..Len(m)
      BY <2>1
    <3>3. 1..f \subseteq 1..Len(m) /\ \A i \in (f + 2)..e : i + d \in 1..Len(m)
      <4>1. f <= Len(m) /\ d \in Nat /\ e + d = Len(m)
        BY <1>1, <2>1
      <4>2. 1..f \subseteq 1..Len(m)
        BY <2>1, <4>1
      <4>3. ASSUME NEW i \in (f + 2)..e PROVE i + d \in 1..Len(m)
        <5>1. i \in Nat /\ 1 <= i /\ i <= e
          BY <2>1
        <5> HIDE DEF d, e
        <5> QED
          BY <2>1, <4>1, <5>1
      <4> QED
        BY <4>2, <4>3
    <3> QED
      BY <3>1, <3>2, <3>3
  <2>3. \A i \in 1..Len(m) : m[i].n \in Nat
    BY EntryNumber
  <2>4. m[f + 1].role # "tool" /\ (KeepRecent > 0 => m[f + 2 + d].role # "tool")
    <3>1. f + 2 + d = Len(m) - KeepRecent + 1
      BY <2>1
    <3> QED
      BY <1>1, <3>1 DEF CutsBlock
  <2> HIDE DEF c, d, e
  <2>5. ASSUME NEW i \in 1..f PROVE Answered(c, i) /\ Called(c, i)
    <3>1. c[i] = m[i] /\ Answered(m, i) /\ Called(m, i) /\ m[i].n \in Nat
      BY <2>2, <2>3 DEF WellFormed
    <3>2. Answered(c, i)
      <4> SUFFICES ASSUME m[i].role = "calls", NEW k \in 1..m[i].n
                   PROVE  i + k \in DOMAIN c /\ c[i + k] = ToolMsg(m[i].turn, m[i].iter, k)
        BY <3>1 DEF Answered
      <4>0. \A l \in 1..m[i].n : m[i + l] = ToolMsg(m[i].turn, m[i].iter, l)
        BY <3>1 DEF Answered
      <4>1. \A l \in 1..m[i].n : m[i + l].role = "tool"
        <5> SUFFICES ASSUME NEW l \in 1..m[i].n PROVE m[i + l].role = "tool"
          OBVIOUS
        <5>1. m[i + l] = ToolMsg(m[i].turn, m[i].iter, l)
          BY <4>0
        <5> QED
          BY <5>1 DEF ToolMsg
      <4>2. i + k <= f
        <5>1. CASE i + k > f
          <6>1. f + 1 - i \in 1..m[i].n
            BY <2>1, <3>1, <5>1
          <6>2. m[i + (f + 1 - i)].role = "tool"
            BY <4>1, <6>1
          <6>3. i + (f + 1 - i) = f + 1
            BY <2>1
          <6> QED
            BY <2>4, <6>2, <6>3
        <5> QED
          BY <2>1, <3>1, <5>1
      <4>3. i + k \in 1..f /\ i + k \in DOMAIN c
        BY <2>1, <2>2, <3>1, <4>2 DEF e
      <4> QED
        BY <2>2, <3>1, <4>3 DEF Answered
    <3>3. Called(c, i)
      <4> SUFFICES ASSUME m[i].role = "tool" PROVE Called(c, i)
        BY <3>1 DEF Called
      <4> DEFINE j == i - m[i].n
      <4>1. /\ j \in DOMAIN m /\ m[j].role = "calls" /\ m[j].turn = m[i].turn
            /\ m[j].iter = m[i].iter /\ m[i].n <= m[j].n
        BY <3>1 DEF Called
      <4>2. j \in 1..f /\ j \in DOMAIN c
        BY <2>1, <2>2, <3>1, <4>1 DEF e
      <4> QED
        BY <2>2, <3>1, <4>1, <4>2 DEF Called
    <3> QED
      BY <3>2, <3>3
  <2>6. Answered(c, f + 1) /\ Called(c, f + 1)
    BY <2>2 DEF Answered, Called
  <2>7. ASSUME NEW i \in (f + 2)..e PROVE Answered(c, i) /\ Called(c, i)
    <3>1. /\ c[i] = m[i + d] /\ i + d \in DOMAIN m /\ i \in DOMAIN c
          /\ Answered(m, i + d) /\ Called(m, i + d)
          /\ m[i + d].n \in Nat /\ c[i].n \in Nat
      BY <2>1, <2>2, <2>3 DEF WellFormed
    <3>2. Answered(c, i)
      <4> SUFFICES ASSUME c[i].role = "calls", NEW k \in 1..c[i].n
                   PROVE  i + k \in DOMAIN c /\ c[i + k] = ToolMsg(c[i].turn, c[i].iter, k)
        BY DEF Answered
      <4>1. /\ (i + d) + k \in DOMAIN m
            /\ m[(i + d) + k] = ToolMsg(c[i].turn, c[i].iter, k)
        BY <3>1 DEF Answered
      <4>2. i + k \in (f + 2)..e /\ (i + d) + k = (i + k) + d
        BY <2>1, <2>2, <3>1, <4>1
      <4> QED
        BY <2>1, <2>2, <4>1, <4>2
    <3>3. Called(c, i)
      <4> SUFFICES ASSUME c[i].role = "tool" PROVE Called(c, i)
        BY DEF Called
      <4>1. PICK n \in Nat : n = c[i].n
        BY <3>1
      <4>2. PICK j \in Int : j = (i + d) - n
        BY <2>1, <2>2
      <4>3. m[i + d].role = "tool" /\ m[i + d].n = n
        BY <3>1, <4>1
      <4>4. /\ j \in DOMAIN m /\ m[j].role = "calls" /\ m[j].turn = m[i + d].turn
            /\ m[j].iter = m[i + d].iter /\ n <= m[j].n
        BY <3>1, <4>2, <4>3 DEF Called
      <4>5. m[j].n \in Nat /\ j \in 1..Len(m) /\ Answered(m, j)
        BY <2>3, <4>4 DEF WellFormed
      <4>6. j >= f + 2 + d
        <5>1. CASE j < f + 2 + d
          <6>1. PICK k \in Int : k = f + 2 + d - j
            BY <2>1, <2>2
          <6>2. k \in 1..m[j].n /\ j + k = f + 2 + d /\ KeepRecent > 0
            <7>1. k >= 1 /\ k <= n /\ KeepRecent > 0 /\ j + k = f + 2 + d
              BY <2>1, <2>2, <4>2, <4>5, <5>1, <6>1 DEF e
            <7> QED
              BY <4>4, <4>5, <7>1
          <6>3. m[j + k] = ToolMsg(m[j].turn, m[j].iter, k)
            BY <4>4, <4>5, <6>2 DEF Answered
          <6> QED
            BY <2>4, <6>2, <6>3 DEF ToolMsg
        <5> QED
          BY <2>1, <2>2, <4>5, <5>1
      <4>7. i - n \in (f + 2)..e /\ (i - n) + d = j
        BY <2>1, <2>2, <4>2, <4>6
      <4>8. i - n \in DOMAIN c /\ c[i - n] = m[j]
        <5>1. c[i - n] = m[(i - n) + d] /\ i - n \in 1..e
          BY <2>1, <2>2, <4>7
        <5> QED
          BY <2>2, <4>7, <5>1
      <4> QED
        BY <3>1, <4>1, <4>4, <4>8 DEF Called
    <3> QED
      BY <3>2, <3>3
  <2>8. \A i \in DOMAIN c : i \in 1..f \/ i = f + 1 \/ i \in (f + 2)..e
    BY <2>1, <2>2
  <2>9. WellFormed(c)
    BY <2>5, <2>6, <2>7, <2>8 DEF WellFormed
  <2> QED
    BY <2>9 DEF c
<1> QED
  BY <1>0, <1>1, KeepAssumption

\* A compacted request is legal exactly when no edge of a window falls between
\* an assistant message and one of its answers, whatever the windows, the
\* history and the number of turns that ask for it (base.py:618-640).
THEOREM RecoveryLegalUnlessCut == Spec => []LegalUnlessCut
<1>1. TypeOK /\ RequestShowsConversation => LegalUnlessCut
  <2> SUFFICES ASSUME TypeOK, RequestShowsConversation, NEW t \in Turn,
                      WellFormed(conv[t])
               PROVE  WellFormed(request[t].msgs) <=>
                        (request[t].msgs = conv[t] \/ ~CutsBlock(conv[t]))
    BY DEF LegalUnlessCut
  <2>1. conv[t] \in Seq(Entry)
    BY DEF TypeOK
  <2>2. request[t].msgs = conv[t] \/ request[t].msgs = Compact(conv[t])
    BY DEF RequestShowsConversation
  <2>3. CASE request[t].msgs = conv[t]
    BY <2>3
  <2>4. CASE request[t].msgs = Compact(conv[t]) /\ request[t].msgs # conv[t]
    BY <2>1, <2>4, CutShows, UncutStaysLegal
  <2> QED
    BY <2>2, <2>3, <2>4
<1> QED
  BY <1>1, RecoveryTypeCorrect, RecoveryShowsConversation, PTL
=============================================================================
