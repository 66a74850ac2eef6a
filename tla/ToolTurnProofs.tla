--------------------------- MODULE ToolTurnProofs ---------------------------
(***************************************************************************)
(* Proofs about the tool calls of a task: effects are repeated only where  *)
(* the audit trail shows it, rows are those of the user, and the regulator *)
(* charges results to the calls they belong to.  They hold for all tools,  *)
(* policies, queries and data, and for any bounds.                         *)
(***************************************************************************)
EXTENDS ToolTurn, TLAPS

Phase == {"idle", "send", "llm", "exec", "check", "after", "more"}
SeenField == {"cut", "torn", "blocked", "sends", "done", "answer"}
TrailField == {"granted", "denied", "invoked", "results"}

RecordField == {"calls", "successes", "errors", "consecutive", "empties", "lastQuery", "repeats",
                "seenTables", "noNew", "skeletons", "frozen"}

RecordShape(rec) ==
    /\ DOMAIN rec = RecordField
    /\ rec.calls \in Nat /\ rec.successes \in Nat /\ rec.errors \in Nat

(* The parts of the state that the arguments are about have their types.   *)
ToolShape ==
    /\ pc \in Phase
    /\ message \in 0..MaxMessages
    /\ scope \in 0..message
    /\ pc # "idle" => message \in Message
    /\ current \subseteq Regulated
    /\ DOMAIN seen = SeenField
    /\ DOMAIN records = Message
    /\ \A m \in Message : DOMAIN records[m] = Regulated
    /\ \A m \in Message, t \in Regulated : RecordShape(records[m][t])

-----------------------------------------------------------------------------
(* Records                                                                 *)

LEMMA NewRecordShape ==
    /\ RecordShape(NewRecord)
    /\ NewRecord.calls = 0 /\ NewRecord.successes = 0 /\ NewRecord.errors = 0
  BY DEF NewRecord, RecordShape, RecordField

LEMMA CallCounts ==
    ASSUME NEW rec, RecordShape(rec)
    PROVE  /\ RecordShape(WithCall(rec))
           /\ WithCall(rec).calls = rec.calls + 1
           /\ WithCall(rec).successes = rec.successes /\ WithCall(rec).errors = rec.errors
  BY DEF WithCall, RecordShape, RecordField

(* A result is counted once, as a success or as an error.                  *)
LEMMA ResultCounts ==
    ASSUME NEW rec, RecordShape(rec), NEW res, NEW policy
    PROVE  LET after == TryFreeze(WithResult(rec, res), policy, res)
           IN  /\ RecordShape(after)
               /\ after.calls = rec.calls
               /\ after.successes + after.errors = rec.successes + rec.errors + 1
  <1> DEFINE a == WithOutcome(rec, res)
             b == WithQuery(a, res)
             c == WithTables(b, res)
             d == WithEmpty(c, res)
             e == WithSkeleton(d, res)
             f == TryFreeze(e, policy, res)
  <1>1. /\ RecordShape(a) /\ a.calls = rec.calls
        /\ a.successes + a.errors = rec.successes + rec.errors + 1
    BY DEF WithOutcome, RecordShape, RecordField
  <1> HIDE DEF a
  <1>2. RecordShape(b) /\ b.calls = a.calls /\ b.successes = a.successes /\ b.errors = a.errors
    BY <1>1 DEF WithQuery, RecordShape, RecordField
  <1> HIDE DEF b
  <1>3. RecordShape(c) /\ c.calls = b.calls /\ c.successes = b.successes /\ c.errors = b.errors
    BY <1>2 DEF WithTables, RecordShape, RecordField
  <1> HIDE DEF c
  <1>4. RecordShape(d) /\ d.calls = c.calls /\ d.successes = c.successes /\ d.errors = c.errors
    BY <1>3 DEF WithEmpty, RecordShape, RecordField
  <1> HIDE DEF d
  <1>5. RecordShape(e) /\ e.calls = d.calls /\ e.successes = d.successes /\ e.errors = d.errors
    BY <1>4 DEF WithSkeleton, RecordShape, RecordField
  <1> HIDE DEF e
  <1>6. RecordShape(f) /\ f.calls = e.calls /\ f.successes = e.successes /\ f.errors = e.errors
    BY <1>5 DEF TryFreeze, RecordShape, RecordField
  <1> HIDE DEF f
  <1>7. WithResult(rec, res) = e
    BY DEF WithResult, a, b, c, d, e
  <1> QED
    BY <1>1, <1>2, <1>3, <1>4, <1>5, <1>6, <1>7 DEF f

(* before_tool counts a call of a regulated tool and points its hook at it. *)
LEMMA BeforeToolEffect ==
    ASSUME ToolShape, message \in Message, NEW t, BeforeTool(t)
    PROVE  /\ scope' \in {scope, message}
           /\ current \subseteq current' /\ current' \subseteq Regulated
           /\ current' \subseteq current \cup {t}
           /\ current' # current => scope' = message
           /\ t \in Regulated => t \in current' /\ scope' = message
           /\ DOMAIN records' = Message
           /\ \A m \in Message : DOMAIN records'[m] = Regulated
           /\ \A m \in Message, u \in Regulated :
                records'[m][u] = IF m = message /\ u = t THEN WithCall(records[m][u])
                                 ELSE records[m][u]
  <1>1. CASE t \in Regulated
    BY <1>1 DEF BeforeTool, ToolShape
  <1>2. CASE t \notin Regulated
    BY <1>2 DEF BeforeTool, ToolShape
  <1> QED
    BY <1>1, <1>2

(* after_tool changes the records of the hooks that are pointed at a tool. *)
LEMMA RecordedEffect ==
    ASSUME ToolShape, NEW ts
    PROVE  /\ DOMAIN Recorded(ts) = Message
           /\ \A m \in Message : DOMAIN Recorded(ts)[m] = Regulated
           /\ \A m \in Message, t \in Regulated :
                Recorded(ts)[m][t] = IF m = scope /\ t \in ts
                                     THEN TryFreeze(WithResult(records[m][t], result), Policy[t], result)
                                     ELSE records[m][t]
  <1>1. CASE scope = 0
    BY <1>1 DEF Recorded, ToolShape, Message
  <1>2. CASE scope # 0
    <2>1. scope \in Message
      BY <1>2, ToolAssumption DEF ToolShape, Message
    <2> QED
      BY <1>2, <2>1 DEF Recorded, ToolShape
  <1> QED
    BY <1>1, <1>2

(* after_message drops the records of the message in scope.                *)
LEMMA AfterMessageEffect ==
    ASSUME ToolShape, AfterMessage
    PROVE  /\ scope' = 0
           /\ DOMAIN records' = Message
           /\ \A m \in Message : DOMAIN records'[m] = Regulated
           /\ \A m \in Message, t \in Regulated :
                records'[m][t] = IF m = scope THEN NewRecord ELSE records[m][t]
  <1>1. CASE scope = 0
    BY <1>1 DEF AfterMessage, ToolShape, Message
  <1>2. CASE scope # 0
    <2>1. scope \in Message
      BY <1>2, ToolAssumption DEF ToolShape, Message
    <2> QED
      BY <1>2, <2>1 DEF AfterMessage, ToolShape
  <1> QED
    BY <1>1, <1>2

-----------------------------------------------------------------------------
(* Shapes                                                                  *)

LEMMA ShapeInitial == ToolInit => ToolShape
  <1> SUFFICES ASSUME ToolInit
               PROVE  ToolShape
    OBVIOUS
  <1>1. \A m \in Message, t \in Regulated : records[m][t] = NewRecord
    BY DEF ToolInit
  <1>2. \A m \in Message, t \in Regulated : RecordShape(records[m][t])
    BY <1>1, NewRecordShape
  <1> QED
    BY <1>2, ToolAssumption DEF ToolInit, ToolShape, Phase, NoHistory, SeenField, Message

LEMMA ShapeStep == ToolShape /\ [ToolNext]_toolVars => ToolShape'
  <1> SUFFICES ASSUME ToolShape, [ToolNext]_toolVars
               PROVE  ToolShape'
    OBVIOUS
  <1> USE ToolAssumption
  <1>m. message \in Nat /\ MaxMessages \in Nat /\ 0..message \subseteq Nat
    BY DEF ToolShape
  <1>1. ASSUME UNCHANGED <<message, scope, records>>, current' \subseteq Regulated,
               pc' \in Phase, pc' # "idle" => pc # "idle", DOMAIN seen' = SeenField
        PROVE  ToolShape'
    BY <1>1 DEF ToolShape
  <1>2. CASE UNCHANGED toolVars
    BY <1>1, <1>2 DEF toolVars, ToolShape
  <1>3. CASE BeginMessage
    <2>1. message' = message + 1 /\ message' \in 0..MaxMessages /\ message' \in Message
      BY <1>3, <1>m DEF BeginMessage, ToolShape, Message
    <2> QED
      BY <1>3, <1>m, <2>1 DEF BeginMessage, ToolShape, Phase, SeenField
  <1>4. CASE SendRequest \/ LlmRetry \/ NextRound \/ RetriesTool \/ Substitutes \/ KeepsResult
    BY <1>1, <1>4
    DEF SendRequest, LlmRetry, NextRound, RetriesTool, Substitutes, KeepsResult, ToolShape, Phase,
        SeenField
  <1>5. CASE LlmFails \/ AuditRaises
    BY <1>1, <1>5 DEF LlmFails, AuditRaises, Cut, ToolShape, Phase, SeenField
  <1>6. CASE LlmAnswers \/ IterationLimit
    <2>1. AfterMessage /\ UNCHANGED <<message, current, seen>> /\ pc' = "idle"
      BY <1>6 DEF LlmAnswers, IterationLimit
    <2>2. \A m \in Message, t \in Regulated : RecordShape(records'[m][t])
      BY <2>1, AfterMessageEffect, NewRecordShape DEF ToolShape
    <2> QED
      BY <2>1, <2>2, <1>m, AfterMessageEffect DEF ToolShape, Phase
  <1>7. ASSUME message \in Message, NEW t, BeforeTool(t), message' = message, pc' \in Phase,
               DOMAIN seen' = SeenField
        PROVE  ToolShape'
    <2>1. \A m \in Message, u \in Regulated : RecordShape(records'[m][u])
      BY <1>7, BeforeToolEffect, CallCounts DEF ToolShape
    <2>2. scope' \in 0..message
      BY <1>7, BeforeToolEffect, <1>m DEF ToolShape
    <2> QED
      BY <1>7, <2>1, <2>2, BeforeToolEffect DEF ToolShape
  <1>8. ASSUME NEW t, NEW arg, LlmCalls(t, arg) PROVE ToolShape'
    BY <1>7, <1>8 DEF LlmCalls, ToolShape, Phase, SeenField
  <1>9. ASSUME NEW t, NEW ran \in BOOLEAN, HookRaises(t, ran) PROVE ToolShape'
    <2>1. /\ message \in Message /\ message' = message /\ pc' = "idle" /\ DOMAIN seen' = SeenField
      BY <1>9 DEF HookRaises, ToolShape, SeenField
    <2>2. CASE BeforeTool(t)
      BY <2>1, <2>2, <1>7 DEF Phase
    <2>3. CASE UNCHANGED <<scope, current, records>>
      BY <2>1, <2>3, <1>1 DEF ToolShape, Phase
    <2> QED
      BY <1>9, <2>2, <2>3 DEF HookRaises
  <1>10. CASE Refuses
    BY <1>1, <1>10 DEF Refuses, Returns, ToolShape, Phase
  <1>11. ASSUME NEW res, NEW audited \in BOOLEAN, Executes(res, audited) PROVE ToolShape'
    BY <1>1, <1>11 DEF Executes, Returns, ToolShape, Phase, SeenField
  <1>12. CASE AfterTool
    <2>1. \A m \in Message, t \in Regulated : RecordShape(Recorded(Observers)[m][t])
      BY RecordedEffect, ResultCounts DEF ToolShape
    <2> QED
      BY <1>12, <2>1, RecordedEffect DEF AfterTool, ToolShape, Phase, SeenField
  <1> QED
    BY <1>2, <1>3, <1>4, <1>5, <1>6, <1>8, <1>9, <1>10, <1>11, <1>12 DEF ToolNext
-----------------------------------------------------------------------------
(* Effects and the audit trail                                             *)

(* A call that will be executed, or executed again, has no more successes  *)
(* than invocations whose result the trail does not have.                  *)
EffectsInv ==
    /\ DOMAIN trail = TrailField /\ DOMAIN seen = SeenField
    /\ seen.done \in Nat /\ trail.invoked \in Nat /\ trail.results \in Nat
    /\ pc \notin {"exec", "check", "after"} => seen.done = 0 /\ trail = NoTrail
    /\ pc = "exec" \/ (pc = "check" /\ ~result.ok) => seen.done + trail.results <= trail.invoked
    /\ seen.done + trail.results <= 1 + trail.invoked

LEMMA EffectsStep == EffectsInv /\ [ToolNext]_toolVars => EffectsInv'
  <1> SUFFICES ASSUME EffectsInv, [ToolNext]_toolVars
               PROVE  EffectsInv'
    OBVIOUS
  <1>n. /\ DOMAIN NoTrail = TrailField
        /\ NoTrail.invoked = 0 /\ NoTrail.results = 0
    BY DEF NoTrail, TrailField
  <1>1. ASSUME UNCHANGED trail, pc \notin {"exec", "check", "after"}, DOMAIN seen' = SeenField,
               seen'.done = seen.done
        PROVE  EffectsInv'
    BY <1>1, <1>n DEF EffectsInv
  <1>2. CASE UNCHANGED toolVars
    BY <1>2 DEF toolVars, EffectsInv
  <1>3. CASE BeginMessage \/ SendRequest \/ LlmRetry \/ LlmAnswers \/ IterationLimit \/ NextRound
    BY <1>1, <1>3
    DEF BeginMessage, SendRequest, LlmRetry, LlmAnswers, IterationLimit, NextRound, EffectsInv,
        SeenField
  <1>4. CASE LlmFails
    BY <1>4, <1>n DEF LlmFails, Cut, EffectsInv, SeenField
  <1>5. ASSUME NEW t, NEW arg, LlmCalls(t, arg) PROVE EffectsInv'
    BY <1>1, <1>5 DEF LlmCalls, EffectsInv, SeenField
  <1>6. ASSUME NEW t, NEW ran, HookRaises(t, ran) PROVE EffectsInv'
    BY <1>1, <1>6 DEF HookRaises, EffectsInv, SeenField
  <1>7. CASE Refuses
    <2>1. /\ DOMAIN trail' = TrailField
          /\ trail'.invoked = trail.invoked /\ trail'.results = trail.results
      BY <1>7 DEF Refuses, LogAccess, EffectsInv, TrailField
    <2> QED
      BY <1>7, <2>1 DEF Refuses, Returns, EffectsInv
  <1>8. CASE AuditRaises
    BY <1>8, <1>n DEF AuditRaises, Cut, EffectsInv, SeenField
  <1>9. ASSUME NEW res, NEW audited \in BOOLEAN, Executes(res, audited) PROVE EffectsInv'
    <2>1. /\ DOMAIN trail' = TrailField
          /\ trail'.invoked = trail.invoked + 1
          /\ trail'.results = IF audited THEN trail.results + 1 ELSE trail.results
      BY <1>9 DEF Executes, LogAccess, LogInvocation, LogResult, EffectsInv, TrailField
    <2>2. /\ DOMAIN seen' = SeenField
          /\ seen'.done = IF res.ok THEN seen.done + 1 ELSE seen.done
      BY <1>9 DEF Executes, EffectsInv, SeenField
    <2>3. /\ pc = "exec" /\ pc' = "check"
          /\ audited => result' = res
      BY <1>9 DEF Executes, Returns
    <2>4. seen.done + trail.results <= trail.invoked
      BY <2>3 DEF EffectsInv
    <2> QED
      BY <2>1, <2>2, <2>3, <2>4 DEF EffectsInv
  <1>10. CASE RetriesTool
    BY <1>10 DEF RetriesTool, MayRecover, EffectsInv
  <1>11. CASE Substitutes \/ KeepsResult
    BY <1>11 DEF Substitutes, KeepsResult, EffectsInv
  <1>12. CASE AfterTool
    BY <1>12, <1>n DEF AfterTool, EffectsInv, SeenField
  <1> QED
    BY <1>2, <1>3, <1>4, <1>5, <1>6, <1>7, <1>8, <1>9, <1>10, <1>11, <1>12 DEF ToolNext

-----------------------------------------------------------------------------
(* Row-level security                                                      *)

(* The filters that are added let a row pass iff the user sees it.         *)
LEMMA FilterMeansSees ==
    ASSUME NEW groups, NEW table \in DOMAIN Security.protected, NEW row,
           Security.protected[table].by # "nothing", ~FullAccess(groups)
    PROVE  FilterCondition([table |-> table, values |-> Allowed(groups)], row)
              <=> Sees(groups, table, row)
  <1>1. \A h : OwnedBy(h, Allowed(groups)) <=>
                 \E g \in groups : Values(g) # {} /\ h.owner \in Values(g) \cup {Null}
    BY DEF OwnedBy, Allowed
  <1>2. \A g \in groups : "*" \notin Values(g)
    BY DEF FullAccess
  <1>3. CASE Security.protected[table].by = "column"
    BY <1>1, <1>2, <1>3 DEF FilterCondition, Sees
  <1>4. CASE Security.protected[table].by # "column"
    BY <1>1, <1>2, <1>4 DEF FilterCondition, Sees
  <1> QED
    BY <1>3, <1>4

(* What the database answers to a rewritten query that was accepted.       *)
LEMMA RewrittenAnswers ==
    ASSUME NEW q \in Query, Accepted(q), NEW groups
    PROVE  Answer(Transform(q, groups)) = Entitled(q, groups)
  <1> USE GuardAssumption
  <1>1. q.kinds[1] = "SELECT"
    BY DEF Accepted, Governed
  <1>2. /\ {"from", "joins", "filters"} \subseteq DOMAIN q /\ q.filters = {}
    OBVIOUS
  <1> DEFINE bare == [q EXCEPT !.filters = {}]
             named == {u \in TablesOf(q) \cap DOMAIN Security.protected :
                          Security.protected[u].by # "nothing"}
             full == [q EXCEPT !.filters = @ \cup
                        {[table |-> t, values |-> Allowed(groups)] : t \in named}]
  <1>3. TablesOf(bare) = TablesOf(q) /\ bare.filters = {}
    BY <1>2 DEF TablesOf
  <1>4. /\ TablesOf(full) = TablesOf(q)
        /\ full.filters = {[table |-> t, values |-> Allowed(groups)] : t \in named}
    BY <1>2 DEF TablesOf
  <1>5. \A joined :
          joined \in Answer(bare) <=>
            /\ joined \in [TablesOf(q) -> UNION Range(Data)]
            /\ \A t \in TablesOf(q) : joined[t] \in Data[t]
            /\ \A t, u \in TablesOf(q) : joined[t].key = joined[u].key
    BY <1>3 DEF Answer
  <1>6. \A joined :
          joined \in Entitled(q, groups) <=>
            /\ joined \in Answer(bare)
            /\ \A t \in TablesOf(q) : Sees(groups, t, joined[t])
    BY DEF Entitled
  <1>7. CASE FullAccess(groups)
    <2>1. Transform(q, groups) = q
      BY <1>7 DEF Transform, ApplyRls
    <2>2. Answer(q) = Answer(bare)
      <3>1. \A joined :
              joined \in Answer(q) <=>
                /\ joined \in [TablesOf(q) -> UNION Range(Data)]
                /\ \A t \in TablesOf(q) : joined[t] \in Data[t]
                /\ \A t, u \in TablesOf(q) : joined[t].key = joined[u].key
        BY <1>2 DEF Answer
      <3> QED
        BY <3>1, <1>5
    <2>3. \A t, row : Sees(groups, t, row)
      BY <1>7 DEF FullAccess, Sees
    <2> QED
      BY <2>1, <2>2, <2>3, <1>6
  <1>8. CASE ~FullAccess(groups)
    <2>1. Transform(q, groups) = full
      BY <1>8, <1>1 DEF Transform, ApplyRls, DirectTables
    <2>2. \A joined :
            joined \in Answer(full) <=>
              /\ joined \in Answer(bare)
              /\ \A t \in named :
                    FilterCondition([table |-> t, values |-> Allowed(groups)], joined[t])
      <3>1. \A joined :
              joined \in Answer(full) <=>
                /\ joined \in [TablesOf(q) -> UNION Range(Data)]
                /\ \A t \in TablesOf(q) : joined[t] \in Data[t]
                /\ \A t, u \in TablesOf(q) : joined[t].key = joined[u].key
                /\ \A filter \in full.filters : FilterCondition(filter, joined[filter.table])
        BY <1>4 DEF Answer
      <3> HIDE DEF full, named
      <3>2. \A joined :
              (\A filter \in full.filters : FilterCondition(filter, joined[filter.table])) <=>
              (\A t \in named : FilterCondition([table |-> t, values |-> Allowed(groups)], joined[t]))
        BY <1>4
      <3> QED
        BY <3>1, <3>2, <1>5
    <2>3. \A t \in named : \A row :
            FilterCondition([table |-> t, values |-> Allowed(groups)], row) <=> Sees(groups, t, row)
      BY <1>8, FilterMeansSees
    <2>4. \A t \in TablesOf(q) \ named : \A row : Sees(groups, t, row)
      BY DEF Sees
    <2>5. \A joined :
            (\A t \in named : FilterCondition([table |-> t, values |-> Allowed(groups)], joined[t]))
              <=> (\A t \in TablesOf(q) : Sees(groups, t, joined[t]))
      BY <2>3, <2>4
    <2> HIDE DEF full, named, bare
    <2> QED
      BY <2>1, <2>2, <2>5, <1>6
  <1> QED
    BY <1>7, <1>8

(* The arguments of a call to run_sql are queries, or malformed; rows that *)
(* were answered are those of a query that was accepted.                   *)
AnswerInv ==
    /\ DOMAIN seen = SeenField
    /\ DOMAIN call = {"tool", "arg", "attempt"}
    /\ call.tool = RunSql => call.arg \in Query \cup {None}
    /\ EntitledRows

LEMMA AnswerStep == AnswerInv /\ [ToolNext]_toolVars => AnswerInv'
  <1> SUFFICES ASSUME AnswerInv, [ToolNext]_toolVars
               PROVE  AnswerInv'
    OBVIOUS
  <1>a. DOMAIN NoCall = {"tool", "arg", "attempt"} /\ (NoCall.tool = RunSql => NoCall.arg = None)
    BY DEF NoCall
  <1>1. ASSUME UNCHANGED user, DOMAIN call' = {"tool", "arg", "attempt"},
               call'.tool = RunSql => call'.arg \in Query \cup {None},
               DOMAIN seen' = SeenField, seen'.answer \in {seen.answer, None}
        PROVE  AnswerInv'
    BY <1>1 DEF AnswerInv, EntitledRows
  <1>2. CASE UNCHANGED toolVars
    BY <1>1, <1>2 DEF toolVars, AnswerInv
  <1>3. CASE BeginMessage \/ SendRequest \/ LlmRetry \/ LlmAnswers \/ IterationLimit \/ NextRound
             \/ RetriesTool \/ Substitutes \/ KeepsResult
    BY <1>1, <1>3
    DEF BeginMessage, SendRequest, LlmRetry, LlmAnswers, IterationLimit, NextRound, RetriesTool,
        Substitutes, KeepsResult, AnswerInv, SeenField
  <1>4. CASE LlmFails \/ AuditRaises \/ AfterTool
    BY <1>1, <1>4, <1>a DEF LlmFails, AuditRaises, AfterTool, Cut, AnswerInv, SeenField
  <1>5. ASSUME NEW t, NEW arg \in Args(t), LlmCalls(t, arg) PROVE AnswerInv'
    BY <1>1, <1>5 DEF LlmCalls, Args, AnswerInv, SeenField
  <1>6. ASSUME NEW t, NEW ran, HookRaises(t, ran) PROVE AnswerInv'
    BY <1>1, <1>6 DEF HookRaises, AnswerInv, SeenField
  <1>7. CASE Refuses
    BY <1>1, <1>7 DEF Refuses, Returns, AnswerInv
  <1>8. ASSUME NEW res \in Outcomes, NEW audited \in BOOLEAN, Executes(res, audited)
        PROVE  AnswerInv'
    <2>1. /\ UNCHANGED user
          /\ DOMAIN call' = {"tool", "arg", "attempt"}
          /\ call'.tool = call.tool /\ call'.arg = call.arg
          /\ DOMAIN seen' = SeenField
          /\ seen'.answer = IF call.tool = RunSql /\ res.ok
                            THEN [query |-> call.arg, rows |-> Answer(Rewritten)] ELSE seen.answer
      BY <1>8 DEF Executes, Returns, AnswerInv, SeenField
    <2>2. CASE call.tool = RunSql /\ res.ok
      <3>1. Admitted
        BY DEF Outcomes
      <3>2. call.arg \in Query /\ Accepted(call.arg)
        BY <2>2, <3>1 DEF Admitted, AnswerInv
      <3>3. Answer(Rewritten) = Entitled(call.arg, user)
        BY <3>2, RewrittenAnswers DEF Rewritten
      <3>4. seen'.answer.query = call.arg /\ seen'.answer.rows = Answer(Rewritten)
        BY <2>1, <2>2
      <3>5. EntitledRows'
        BY <2>1, <3>3, <3>4 DEF EntitledRows
      <3> QED
        BY <2>1, <3>5 DEF AnswerInv
    <2>3. CASE ~(call.tool = RunSql /\ res.ok)
      BY <2>1, <2>3, <1>1 DEF AnswerInv
    <2> QED
      BY <2>2, <2>3
  <1> QED
    BY <1>2, <1>3, <1>4, <1>5, <1>6, <1>7, <1>8 DEF ToolNext

-----------------------------------------------------------------------------
(* Blocks                                                                  *)

Blocks(t) == t \in Regulated /\ EvaluateState(Policy[t], records[message][t]) = "block"

(* Between a block and the next call of the tool nothing touches its       *)
(* record: the hooks that will record a result belong to other tools.      *)
BlockInv ==
    /\ ToolShape
    /\ DOMAIN request = {"offered", "guided"}
    /\ pc # "idle" /\ seen.blocked # {} => scope = message
    /\ pc # "idle" => \A t \in seen.blocked : Blocks(t)
    /\ pc \in {"send", "llm"} /\ scope = message => current = {}
    /\ pc = "more" => current = {}
    /\ pc \in {"exec", "check", "after"} => current \cap seen.blocked = {}
    /\ BlockedStaysBlocked

LEMMA BlockInitial == ToolInit => BlockInv
  BY ShapeInitial DEF ToolInit, BlockInv, BlockedStaysBlocked, NoHistory

LEMMA BlockStep == BlockInv /\ [ToolNext]_toolVars => BlockInv'
  <1> SUFFICES ASSUME BlockInv, [ToolNext]_toolVars
               PROVE  BlockInv'
    OBVIOUS
  <1> USE ToolAssumption
  <1>s. ToolShape /\ ToolShape'
    BY ShapeStep DEF BlockInv
  <1>i. ASSUME pc' = "idle", DOMAIN request' = {"offered", "guided"} PROVE BlockInv'
    BY <1>i, <1>s DEF BlockInv, BlockedStaysBlocked
  <1>k. ASSUME UNCHANGED <<message, scope, records>>, pc # "idle", seen'.blocked = seen.blocked
        PROVE  /\ seen'.blocked # {} => scope' = message'
               /\ \A t \in seen'.blocked : Blocks(t)'
    BY <1>k DEF BlockInv, Blocks
  <1>1. CASE UNCHANGED toolVars
    BY <1>1, <1>s DEF toolVars, BlockInv, Blocks, BlockedStaysBlocked
  <1>2. CASE BeginMessage
    <2>1. /\ seen'.blocked = {} /\ pc' = "send" /\ DOMAIN request' = {"offered", "guided"}
          /\ scope' = scope /\ message' = message + 1
      BY <1>2, <1>s DEF BeginMessage, BuildRequest, ToolShape, SeenField
    <2>2. scope' # message'
      BY <2>1, <1>s DEF ToolShape
    <2> QED
      BY <2>1, <2>2, <1>s DEF BlockInv, BlockedStaysBlocked
  <1>3. CASE SendRequest
    <2>1. /\ pc = "send" /\ pc' = "llm" /\ request' = Constrain(request)
          /\ UNCHANGED <<message, scope, records, current>>
          /\ seen'.blocked = IF scope = message
                             THEN seen.blocked \cup (request.offered \ request'.offered)
                             ELSE seen.blocked
      BY <1>3, <1>s DEF SendRequest, ToolShape, SeenField
    <2>2. message \in Nat \ {0}
      BY <2>1, <1>s DEF ToolShape, Message
    <2>3. /\ DOMAIN request' = {"offered", "guided"}
          /\ scope = message =>
                request'.offered = {t \in request.offered : ~Blocks(t)}
      <3>1. CASE scope = message /\ request.offered # {}
        BY <2>1, <2>2, <3>1 DEF Constrain, StateOf, Blocks
      <3>2. CASE request.offered = {}
        BY <2>1, <3>2 DEF Constrain, BlockInv
      <3>3. CASE scope # message
        BY <2>1, <3>3 DEF Constrain, BlockInv
      <3> QED
        BY <3>1, <3>2, <3>3
    <2>4. CASE scope = message
      <3>1. \A t \in seen'.blocked : Blocks(t)
        BY <2>1, <2>3, <2>4 DEF BlockInv
      <3>2. \A t \in seen'.blocked : Blocks(t)'
        BY <3>1, <2>1 DEF Blocks
      <3>3. BlockedStaysBlocked'
        BY <2>3, <2>4, <3>1 DEF BlockedStaysBlocked
      <3> QED
        BY <2>1, <2>3, <2>4, <3>2, <3>3, <1>s DEF BlockInv
    <2>5. CASE scope # message
      <3>1. seen'.blocked = {}
        BY <2>1, <2>5 DEF BlockInv
      <3> QED
        BY <2>1, <2>3, <2>5, <3>1, <1>s DEF BlockInv, BlockedStaysBlocked
    <2> QED
      BY <2>4, <2>5
  <1>4. CASE LlmRetry \/ NextRound
    <2>1. /\ pc \in {"llm", "more"} /\ pc' = "send" /\ DOMAIN request' = {"offered", "guided"}
          /\ UNCHANGED <<message, scope, records, current>> /\ seen'.blocked = seen.blocked
      BY <1>4, <1>s DEF LlmRetry, NextRound, BuildRequest, BlockInv, ToolShape, SeenField
    <2> QED
      BY <2>1, <1>k, <1>s DEF BlockInv, BlockedStaysBlocked
  <1>5. CASE LlmFails \/ AuditRaises \/ LlmAnswers \/ IterationLimit
    BY <1>5, <1>i DEF LlmFails, AuditRaises, LlmAnswers, IterationLimit, Cut, BlockInv
  <1>6. ASSUME NEW t, NEW arg, LlmCalls(t, arg) PROVE BlockInv'
    <2>1. /\ pc \in {"llm", "more"} /\ pc' = "exec" /\ BeforeTool(t)
          /\ seen'.blocked = seen.blocked \ {t} /\ UNCHANGED <<message, request>>
      BY <1>6, <1>s DEF LlmCalls, ToolShape, SeenField
    <2>2. message \in Message
      BY <2>1, <1>s DEF ToolShape
    <2>3. seen'.blocked # {} => scope' = message'
      BY <2>1, <2>2, <1>s, BeforeToolEffect DEF BlockInv
    <2>4. \A u \in seen'.blocked : Blocks(u)'
      <3>1. \A u \in seen'.blocked : u # t /\ Blocks(u)
        BY <2>1 DEF BlockInv
      <3>2. \A u \in Regulated : u # t => records'[message][u] = records[message][u]
        BY <2>1, <2>2, <1>s, BeforeToolEffect
      <3> QED
        BY <3>1, <3>2, <2>1 DEF Blocks
    <2>5. current' \cap seen'.blocked = {}
      <3>1. CASE seen.blocked = {}
        BY <3>1, <2>1
      <3>2. CASE seen.blocked # {}
        <4>1. current = {}
          BY <3>2, <2>1 DEF BlockInv
        <4> QED
          BY <4>1, <2>1, <2>2, <1>s, BeforeToolEffect
      <3> QED
        BY <3>1, <3>2
    <2> QED
      BY <2>1, <2>3, <2>4, <2>5, <1>s DEF BlockInv, BlockedStaysBlocked
  <1>7. ASSUME NEW t, NEW ran, HookRaises(t, ran) PROVE BlockInv'
    BY <1>7, <1>i DEF HookRaises, BlockInv
  <1>8. ASSUME pc \in {"exec", "check"}, pc' \in {"exec", "check", "after"},
               UNCHANGED <<message, scope, records, current, request>>, seen'.blocked = seen.blocked
        PROVE  BlockInv'
    BY <1>8, <1>k, <1>s DEF BlockInv, BlockedStaysBlocked
  <1>9. CASE Refuses
    BY <1>8, <1>9 DEF Refuses, Returns
  <1>10. ASSUME NEW res, NEW audited \in BOOLEAN, Executes(res, audited) PROVE BlockInv'
    BY <1>8, <1>10, <1>s DEF Executes, Returns, ToolShape, SeenField
  <1>11. CASE RetriesTool \/ Substitutes \/ KeepsResult
    BY <1>8, <1>11 DEF RetriesTool, Substitutes, KeepsResult
  <1>12. CASE AfterTool
    <2>1. /\ pc = "after" /\ pc' = "more" /\ current' = {} /\ records' = Recorded(current)
          /\ UNCHANGED <<message, scope, request>> /\ seen'.blocked = seen.blocked
      BY <1>12, <1>s DEF AfterTool, Observers, ToolShape, SeenField
    <2>2. message \in Message
      BY <2>1, <1>s DEF ToolShape
    <2>3. \A u \in seen.blocked : u \in Regulated /\ u \notin current
      BY <2>1 DEF BlockInv, Blocks
    <2>4. \A u \in seen.blocked : records'[message][u] = records[message][u]
      BY <2>1, <2>2, <2>3, <1>s, RecordedEffect
    <2>5. \A u \in seen'.blocked : Blocks(u)'
      BY <2>1, <2>4 DEF BlockInv, Blocks
    <2> QED
      BY <2>1, <2>5, <1>s DEF BlockInv, BlockedStaysBlocked
  <1> QED
    BY <1>1, <1>2, <1>3, <1>4, <1>5, <1>6, <1>7, <1>9, <1>10, <1>11, <1>12 DEF ToolNext

-----------------------------------------------------------------------------
(* Results                                                                 *)

(* Unless a message was cut between the hooks, at most one of them has a   *)
(* call whose result it waits for: that of the call in progress.           *)
ResultInv ==
    /\ ToolShape
    /\ ~seen.torn =>
         /\ pc \notin {"exec", "check", "after"} => current = {}
         /\ current # {} => scope = message
    /\ ResultsBelongToCalls

LEMMA ResultInitial == ToolInit => ResultInv
  <1> SUFFICES ASSUME ToolInit
               PROVE  ResultInv
    OBVIOUS
  <1>1. \A m \in Message, t \in Regulated : records[m][t] = NewRecord
    BY DEF ToolInit
  <1> QED
    BY <1>1, ShapeInitial, NewRecordShape DEF ToolInit, ResultInv, ResultsBelongToCalls

LEMMA ResultStep == ResultInv /\ [ToolNext]_toolVars => ResultInv'
  <1> SUFFICES ASSUME ResultInv, [ToolNext]_toolVars
               PROVE  ResultInv'
    OBVIOUS
  <1> USE ToolAssumption
  <1>s. ToolShape /\ ToolShape'
    BY ShapeStep DEF ResultInv
  <1>1. ASSUME UNCHANGED <<scope, records, current>>, seen'.torn = seen.torn,
               message' = message \/ pc = "idle",
               pc' \notin {"exec", "check", "after"} => pc \notin {"exec", "check", "after"}
        PROVE  ResultInv'
    BY <1>1, <1>s DEF ResultInv, ResultsBelongToCalls
  <1>t. ASSUME seen'.torn = TRUE PROVE ResultInv'
    BY <1>t, <1>s DEF ResultInv, ResultsBelongToCalls
  <1>2. CASE UNCHANGED toolVars
    BY <1>1, <1>2 DEF toolVars
  <1>3. CASE BeginMessage \/ SendRequest \/ LlmRetry \/ NextRound \/ LlmFails
    BY <1>1, <1>3, <1>s
    DEF BeginMessage, SendRequest, LlmRetry, NextRound, LlmFails, Cut, ToolShape, SeenField
  <1>4. CASE LlmAnswers \/ IterationLimit
    <2>1. /\ pc \notin {"exec", "check", "after"} /\ AfterMessage
          /\ UNCHANGED <<message, current, seen>>
      BY <1>4 DEF LlmAnswers, IterationLimit
    <2>2. ASSUME ~seen.torn, NEW m \in Message, NEW t \in Regulated
          PROVE  records'[m][t].calls = records'[m][t].successes + records'[m][t].errors
      <3>1. records[m][t].calls = records[m][t].successes + records[m][t].errors + 0
        BY <2>1, <2>2 DEF ResultInv, ResultsBelongToCalls
      <3>2. records'[m][t] \in {records[m][t], NewRecord}
        BY <2>1, <1>s, AfterMessageEffect
      <3> QED
        BY <3>1, <3>2, <1>s, NewRecordShape DEF ToolShape, RecordShape
    <2>3. ~seen.torn => current' = {}
      BY <2>1 DEF ResultInv
    <2>4. ASSUME ~seen.torn, NEW m \in Message, NEW t \in Regulated
          PROVE  records'[m][t].calls = records'[m][t].successes + records'[m][t].errors
                    + (IF m = message' /\ t \in current' THEN 1 ELSE 0)
      BY <2>2, <2>3, <2>4, <1>s DEF ToolShape, RecordShape
    <2> QED
      BY <2>1, <2>3, <2>4, <1>s DEF ResultInv, ResultsBelongToCalls
  <1>5. ASSUME NEW t, BeforeTool(t), pc \in {"llm", "more"}, message' = message, ~seen'.torn,
               ~seen.torn, current' # {} => pc' = "exec"
        PROVE  ResultInv'
    <2>1. current = {} /\ message \in Message
      BY <1>5, <1>s DEF ResultInv, ToolShape
    <2>2. /\ current' \subseteq {t}
          /\ current' # {} => scope' = message'
          /\ t \in Regulated => t \in current'
      BY <2>1, <1>5, <1>s, BeforeToolEffect
    <2>3. ASSUME NEW m \in Message, NEW u \in Regulated
          PROVE  records'[m][u].calls = records'[m][u].successes + records'[m][u].errors
                    + (IF m = message' /\ u \in current' THEN 1 ELSE 0)
      <3>1. records[m][u].calls = records[m][u].successes + records[m][u].errors + 0
        BY <2>1, <1>5 DEF ResultInv, ResultsBelongToCalls
      <3>2. RecordShape(records[m][u])
        BY <1>s DEF ToolShape
      <3>3. CASE m = message /\ u = t
        <4>1. records'[m][u] = WithCall(records[m][u]) /\ u \in current'
          BY <3>3, <2>1, <2>2, <1>5, <1>s, BeforeToolEffect
        <4> QED
          BY <4>1, <3>1, <3>2, <3>3, <1>5, CallCounts DEF RecordShape
      <3>4. CASE ~(m = message /\ u = t)
        <4>1. records'[m][u] = records[m][u] /\ ~(m = message' /\ u \in current')
          BY <3>4, <2>1, <2>2, <1>5, <1>s, BeforeToolEffect
        <4> QED
          BY <4>1, <3>1
      <3> QED
        BY <3>3, <3>4
    <2> QED
      BY <2>2, <2>3, <1>5, <1>s DEF ResultInv, ResultsBelongToCalls
  <1>6. ASSUME NEW t, NEW arg, LlmCalls(t, arg) PROVE ResultInv'
    <2>1. /\ pc \in {"llm", "more"} /\ pc' = "exec" /\ message' = message /\ BeforeTool(t)
          /\ seen'.torn = seen.torn
      BY <1>6, <1>s DEF LlmCalls, ToolShape, SeenField
    <2>2. CASE seen.torn
      BY <2>1, <2>2, <1>s DEF ResultInv, ResultsBelongToCalls
    <2>3. CASE ~seen.torn
      BY <2>1, <2>3, <1>5
    <2> QED
      BY <2>2, <2>3
  <1>7. ASSUME NEW t, NEW ran \in BOOLEAN, HookRaises(t, ran) PROVE ResultInv'
    <2>1. /\ pc \in {"llm", "more"} /\ pc' = "idle" /\ message' = message
          /\ seen'.torn = (seen.torn \/ current' # {})
          /\ BeforeTool(t) \/ UNCHANGED <<scope, current, records>>
      BY <1>7, <1>s DEF HookRaises, ToolShape, SeenField
    <2>2. CASE seen'.torn
      BY <2>2, <1>s DEF ResultInv, ResultsBelongToCalls
    <2>3. CASE ~seen'.torn /\ BeforeTool(t)
      BY <2>1, <2>3, <1>5
    <2>4. CASE ~seen'.torn /\ UNCHANGED <<scope, current, records>>
      BY <2>1, <2>4, <1>s DEF ResultInv, ResultsBelongToCalls
    <2> QED
      BY <2>1, <2>2, <2>3, <2>4
  <1>8. CASE Refuses
    BY <1>1, <1>8 DEF Refuses, Returns
  <1>9. CASE AuditRaises
    <2>1. /\ UNCHANGED <<message, scope, records, current>> /\ pc' = "idle"
          /\ seen'.torn = (seen.torn \/ current # {})
      BY <1>9, <1>s DEF AuditRaises, Cut, ToolShape, SeenField
    <2> QED
      BY <2>1, <1>s DEF ResultInv, ResultsBelongToCalls
  <1>10. ASSUME NEW res, NEW audited \in BOOLEAN, Executes(res, audited) PROVE ResultInv'
    BY <1>1, <1>10, <1>s DEF Executes, Returns, ToolShape, SeenField
  <1>11. CASE RetriesTool \/ Substitutes \/ KeepsResult
    BY <1>1, <1>11 DEF RetriesTool, Substitutes, KeepsResult
  <1>12. CASE AfterTool
    <2>1. /\ current' = {} /\ records' = Recorded(current) /\ pc' = "more"
          /\ UNCHANGED <<message, scope>> /\ seen'.torn = seen.torn
      BY <1>12, <1>s DEF AfterTool, Observers, ToolShape, SeenField
    <2>2. ASSUME ~seen.torn, NEW m \in Message, NEW t \in Regulated
          PROVE  records'[m][t].calls = records'[m][t].successes + records'[m][t].errors + 0
      <3>1. records[m][t].calls = records[m][t].successes + records[m][t].errors
                                     + (IF m = message /\ t \in current THEN 1 ELSE 0)
        BY <2>2 DEF ResultInv, ResultsBelongToCalls
      <3>2. RecordShape(records[m][t])
        BY <1>s DEF ToolShape
      <3>3. current # {} => scope = message
        BY <2>2 DEF ResultInv
      <3>4. CASE m = message /\ t \in current
        <4>1. records'[m][t] = TryFreeze(WithResult(records[m][t], result), Policy[t], result)
          BY <3>3, <3>4, <2>1, <1>s, RecordedEffect
        <4>2. /\ RecordShape(records'[m][t])
              /\ records'[m][t].calls = records[m][t].calls
              /\ records'[m][t].successes + records'[m][t].errors
                    = records[m][t].successes + records[m][t].errors + 1
          BY <4>1, <3>2, ResultCounts
        <4> QED
          BY <4>2, <3>1, <3>2, <3>4 DEF RecordShape
      <3>5. CASE ~(m = message /\ t \in current)
        <4>1. records'[m][t] = records[m][t]
          BY <3>3, <3>5, <2>1, <1>s, RecordedEffect
        <4> QED
          BY <4>1, <3>1, <3>5
      <3> QED
        BY <3>4, <3>5
    <2> QED
      BY <2>1, <2>2, <1>s DEF ResultInv, ResultsBelongToCalls
  <1> QED
    BY <1>2, <1>3, <1>4, <1>6, <1>7, <1>8, <1>9, <1>10, <1>11, <1>12 DEF ToolNext

-----------------------------------------------------------------------------
(* Guidance                                                                *)

(* No policy has anything to say about a tool that was not called.         *)
LEMMA NewRecordIsOk ==
    ASSUME NEW t \in Regulated
    PROVE  EvaluateState(Policy[t], NewRecord) = "ok"
  <1>1. /\ NewRecord.calls = 0 /\ NewRecord.consecutive = 0 /\ NewRecord.empties = 0
        /\ NewRecord.repeats = 0 /\ NewRecord.noNew = 0 /\ NewRecord.frozen = None
    BY DEF NewRecord
  <1>2. /\ ~(0 >= Policy[t].warnCalls) /\ ~(0 >= Policy[t].maxErrors)
        /\ Policy[t].hardBlock => /\ ~(0 >= Policy[t].blockCalls) /\ ~(0 >= Policy[t].maxEmpty)
                                  /\ ~(0 >= Policy[t].maxRepeat) /\ ~(0 >= Policy[t].maxNoNew)
    BY PolicyAssumption
  <1> QED
    BY <1>1, <1>2 DEF EvaluateState, SoftState, HardState, Exhausted

(* As long as no message was cut the scope is that of the message, and a   *)
(* record without calls is as good as new.                                 *)
Uncut ==
    /\ pc = "idle" => scope = 0
    /\ pc # "idle" => scope \in {0, message}
    /\ pc \notin {"exec", "check", "after"} => current = {}
    /\ current # {} => scope = message
    /\ \A t \in current : records[message][t].calls # 0
    /\ \A m \in Message, t \in Regulated :
          records[m][t].calls = 0 => records[m][t] = NewRecord

GuidanceInv ==
    /\ ToolShape
    /\ DOMAIN request = {"offered", "guided"} /\ DOMAIN request.guided = Regulated
    /\ seen.sends \in Nat
    /\ \A t \in Regulated : request.guided[t] \in Nat
    /\ ~seen.cut => Uncut
    /\ pc \in {"send", "llm"} =>
          \A t \in Regulated :
             /\ request.guided[t] <= seen.sends
             /\ request.guided[t] > 0 /\ ~seen.cut => records[message][t].calls > 0

LEMMA GuidanceInitial == ToolInit => GuidanceInv
  <1> SUFFICES ASSUME ToolInit
               PROVE  GuidanceInv
    OBVIOUS
  <1>1. \A m \in Message, t \in Regulated : records[m][t] = NewRecord
    BY DEF ToolInit
  <1> QED
    BY <1>1, ShapeInitial DEF ToolInit, GuidanceInv, Uncut, NoHistory

LEMMA GuidanceStep == GuidanceInv /\ [ToolNext]_toolVars => GuidanceInv'
  <1> SUFFICES ASSUME GuidanceInv, [ToolNext]_toolVars
               PROVE  GuidanceInv'
    OBVIOUS
  <1> USE ToolAssumption
  <1>s. ToolShape /\ ToolShape'
    BY ShapeStep DEF GuidanceInv
  <1>1. CASE UNCHANGED toolVars
    BY <1>1, <1>s DEF toolVars, GuidanceInv, Uncut
  <1>b. /\ DOMAIN BuildRequest = {"offered", "guided"}
        /\ DOMAIN BuildRequest.guided = Regulated
        /\ \A t \in Regulated : BuildRequest.guided[t] = 0
    BY DEF BuildRequest
  <1>2. CASE BeginMessage \/ NextRound
    <2>1. /\ pc \in {"idle", "more"} /\ pc' = "send" /\ request' = BuildRequest
          /\ UNCHANGED <<scope, current, records>>
          /\ message' = message \/ pc = "idle"
          /\ seen'.sends = 0 /\ seen'.cut = seen.cut
      BY <1>2, <1>s DEF BeginMessage, NextRound, ToolShape, SeenField
    <2>2. ASSUME ~seen.cut PROVE Uncut'
      <3>1. Uncut /\ current = {}
        BY <2>1, <2>2 DEF GuidanceInv, Uncut
      <3>2. scope \in {0, message'}
        BY <3>1, <2>1 DEF Uncut
      <3> QED
        BY <3>1, <3>2, <2>1 DEF Uncut
    <2> QED
      BY <2>1, <2>2, <1>b, <1>s DEF GuidanceInv
  <1>3. CASE SendRequest
    <2>1. /\ pc = "send" /\ pc' = "llm" /\ request' = Constrain(request)
          /\ UNCHANGED <<message, scope, records, current>>
          /\ seen'.sends = seen.sends + 1 /\ seen'.cut = seen.cut
      BY <1>3, <1>s DEF SendRequest, ToolShape, SeenField
    <2>2. message \in Message
      BY <2>1, <1>s DEF ToolShape
    <2>3. /\ DOMAIN request' = {"offered", "guided"} /\ DOMAIN request'.guided = Regulated
          /\ \A t \in Regulated :
                \/ request'.guided[t] = request.guided[t]
                \/ /\ request'.guided[t] = request.guided[t] + 1
                   /\ scope # 0 /\ StateOf(t) # "ok"
      <3>1. CASE scope = 0 \/ request.offered = {}
        BY <2>1, <3>1 DEF Constrain, GuidanceInv
      <3>2. CASE ~(scope = 0 \/ request.offered = {})
        BY <2>1, <3>2 DEF Constrain, GuidanceInv
      <3> QED
        BY <3>1, <3>2
    <2>4. ASSUME NEW t \in Regulated, ~seen.cut, scope # 0, StateOf(t) # "ok"
          PROVE  records[message][t].calls > 0
      <3>1. Uncut
        BY <2>4 DEF GuidanceInv
      <3>2. scope = message
        BY <3>1, <2>1, <2>4 DEF Uncut
      <3>3. records[message][t] # NewRecord
        BY <3>2, <2>4, NewRecordIsOk DEF StateOf
      <3>4. records[message][t].calls # 0
        BY <3>1, <3>3, <2>2 DEF Uncut
      <3> QED
        BY <3>4, <2>2, <1>s DEF ToolShape, RecordShape
    <2>5. ASSUME NEW t \in Regulated
          PROVE  /\ request'.guided[t] \in Nat
                 /\ request'.guided[t] <= seen'.sends
                 /\ request'.guided[t] > 0 /\ ~seen'.cut => records'[message'][t].calls > 0
      <3>1. /\ request.guided[t] \in Nat /\ seen.sends \in Nat
            /\ request.guided[t] <= seen.sends
            /\ request.guided[t] > 0 /\ ~seen.cut => records[message][t].calls > 0
        BY <2>1 DEF GuidanceInv
      <3> QED
        BY <3>1, <2>1, <2>3, <2>4
    <2>6. ~seen'.cut => Uncut'
      BY <2>1 DEF GuidanceInv, Uncut
    <2> QED
      BY <2>1, <2>3, <2>5, <2>6, <1>s DEF GuidanceInv
  <1>4. CASE LlmRetry
    BY <1>4, <1>s DEF LlmRetry, GuidanceInv, Uncut
  <1>5. ASSUME seen'.cut = TRUE, seen'.sends = seen.sends, request' = request, pc' = "idle"
        PROVE  GuidanceInv'
    BY <1>5, <1>s DEF GuidanceInv
  <1>6. CASE LlmFails \/ AuditRaises
    BY <1>5, <1>6, <1>s DEF LlmFails, AuditRaises, Cut, ToolShape, SeenField
  <1>7. ASSUME NEW t, NEW ran, HookRaises(t, ran) PROVE GuidanceInv'
    BY <1>5, <1>7, <1>s DEF HookRaises, ToolShape, SeenField
  <1>8. CASE LlmAnswers \/ IterationLimit
    <2>1. /\ pc \in {"llm", "send"} /\ pc' = "idle" /\ AfterMessage
          /\ UNCHANGED <<message, request, current, seen>>
      BY <1>8 DEF LlmAnswers, IterationLimit
    <2>2. ~seen'.cut => Uncut'
      BY <2>1, <1>s, AfterMessageEffect, NewRecordShape DEF GuidanceInv, Uncut
    <2> QED
      BY <2>1, <2>2, <1>s DEF GuidanceInv
  <1>9. ASSUME NEW t, NEW arg, LlmCalls(t, arg) PROVE GuidanceInv'
    <2>1. /\ pc \in {"llm", "more"} /\ pc' = "exec" /\ BeforeTool(t)
          /\ UNCHANGED <<message, request>> /\ seen'.cut = seen.cut /\ seen'.sends = seen.sends
      BY <1>9, <1>s DEF LlmCalls, ToolShape, SeenField
    <2>2. message \in Message
      BY <2>1, <1>s DEF ToolShape
    <2>3. ASSUME ~seen.cut PROVE Uncut'
      <3>1. Uncut /\ current = {}
        BY <2>1, <2>3 DEF GuidanceInv, Uncut
      <3>2. /\ scope' \in {0, message'} /\ current' \subseteq {t}
            /\ current' # {} => scope' = message'
        BY <3>1, <2>1, <2>2, <1>s, BeforeToolEffect DEF Uncut
      <3>3. \A m \in Message, u \in Regulated :
              IF m = message /\ u = t THEN records'[m][u].calls = records[m][u].calls + 1
                                      ELSE records'[m][u] = records[m][u]
        BY <2>1, <2>2, <1>s, BeforeToolEffect, CallCounts DEF ToolShape
      <3>4. \A m \in Message, u \in Regulated : records[m][u].calls \in Nat
        BY <1>s DEF ToolShape, RecordShape
      <3>5. \A u \in current' : records'[message'][u].calls # 0
        BY <3>2, <3>3, <3>4, <2>1, <2>2, <1>s DEF ToolShape
      <3>6. \A m \in Message, u \in Regulated :
              records'[m][u].calls = 0 => records'[m][u] = NewRecord
        BY <3>1, <3>3, <3>4 DEF Uncut
      <3> QED
        BY <3>2, <3>5, <3>6, <2>1 DEF Uncut
    <2> QED
      BY <2>1, <2>3, <1>s DEF GuidanceInv
  <1>10. ASSUME pc \in {"exec", "check"}, pc' \in {"exec", "check", "after"},
                UNCHANGED <<message, scope, records, current, request>>,
                seen'.cut = seen.cut, seen'.sends = seen.sends
         PROVE  GuidanceInv'
    <2>1. ~seen'.cut => Uncut'
      BY <1>10 DEF GuidanceInv, Uncut
    <2> QED
      BY <1>10, <2>1, <1>s DEF GuidanceInv
  <1>11. CASE Refuses
    BY <1>10, <1>11 DEF Refuses, Returns
  <1>12. ASSUME NEW res, NEW audited \in BOOLEAN, Executes(res, audited) PROVE GuidanceInv'
    BY <1>10, <1>12, <1>s DEF Executes, Returns, ToolShape, SeenField
  <1>13. CASE RetriesTool \/ Substitutes \/ KeepsResult
    BY <1>10, <1>13 DEF RetriesTool, Substitutes, KeepsResult
  <1>14. CASE AfterTool
    <2>1. /\ pc = "after" /\ pc' = "more" /\ current' = {} /\ records' = Recorded(current)
          /\ UNCHANGED <<message, scope, request>>
          /\ seen'.cut = seen.cut /\ seen'.sends = seen.sends
      BY <1>14, <1>s DEF AfterTool, Observers, ToolShape, SeenField
    <2>2. ASSUME ~seen.cut PROVE Uncut'
      <3>1. Uncut
        BY <2>2 DEF GuidanceInv
      <3>2. ASSUME NEW m \in Message, NEW t \in Regulated, records'[m][t].calls = 0
            PROVE  records'[m][t] = NewRecord
        <4>1. RecordShape(records[m][t])
          BY <1>s DEF ToolShape
        <4>2. CASE m = scope /\ t \in current
          <5>1. records[m][t].calls # 0
            BY <4>2, <3>1 DEF Uncut
          <5>2. records'[m][t] = TryFreeze(WithResult(records[m][t], result), Policy[t], result)
            BY <4>2, <2>1, <1>s, RecordedEffect
          <5>3. records'[m][t].calls = records[m][t].calls
            BY <5>2, <4>1, ResultCounts
          <5> QED
            BY <5>1, <5>3, <3>2
        <4>3. CASE ~(m = scope /\ t \in current)
          <5>1. records'[m][t] = records[m][t]
            BY <4>3, <2>1, <1>s, RecordedEffect
          <5> QED
            BY <5>1, <3>1, <3>2 DEF Uncut
        <4> QED
          BY <4>2, <4>3
      <3> QED
        BY <3>1, <3>2, <2>1 DEF Uncut
    <2> QED
      BY <2>1, <2>2, <1>s DEF GuidanceInv
  <1> QED
    BY <1>1, <1>2, <1>3, <1>4, <1>6, <1>7, <1>8, <1>9, <1>11, <1>12, <1>13, <1>14 DEF ToolNext

-----------------------------------------------------------------------------
(* A tool that is never executed twice without a trace, whatever the       *)
(* strategy of recovery does (handle_tool_error, execute of the registry). *)
THEOREM EffectsOnceAlways == ToolSpec => []EffectsOnce
  <1>1. ToolInit => EffectsInv
    BY DEF ToolInit, EffectsInv, NoHistory, NoTrail, SeenField, TrailField
  <1>2. EffectsInv /\ [ToolNext]_toolVars => EffectsInv'
    BY EffectsStep
  <1>3. EffectsInv => EffectsOnce
    BY DEF EffectsInv, EffectsOnce
  <1> QED
    BY <1>1, <1>2, <1>3, PTL DEF ToolSpec

(* run_sql returns the rows the user's groups entitle him to: the filters  *)
(* that transform_args adds mean what the configuration says.              *)
THEOREM EntitledRowsAlways == ToolSpec => []EntitledRows
  <1>1. ToolInit => AnswerInv
    BY DEF ToolInit, AnswerInv, EntitledRows, NoHistory, NoCall, SeenField
  <1>2. AnswerInv /\ [ToolNext]_toolVars => AnswerInv'
    BY AnswerStep
  <1>3. AnswerInv => EntitledRows
    BY DEF AnswerInv
  <1> QED
    BY <1>1, <1>2, <1>3, PTL DEF ToolSpec
(* A tool whose calls had it removed stays removed for the rest of the     *)
(* message, unless it is called all the same (before_llm_request).         *)
THEOREM BlockedStaysBlockedAlways == ToolSpec => []BlockedStaysBlocked
  <1>1. ToolInit => BlockInv
    BY BlockInitial
  <1>2. BlockInv /\ [ToolNext]_toolVars => BlockInv'
    BY BlockStep
  <1>3. BlockInv => BlockedStaysBlocked
    BY DEF BlockInv
  <1> QED
    BY <1>1, <1>2, <1>3, PTL DEF ToolSpec

(* Every result is charged to the call it belongs to, unless a message was *)
(* cut between the hooks before and after a call.                          *)
THEOREM ResultsBelongToCallsAlways == ToolSpec => []ResultsBelongToCalls
  <1>1. ToolInit => ResultInv
    BY ResultInitial
  <1>2. ResultInv /\ [ToolNext]_toolVars => ResultInv'
    BY ResultStep
  <1>3. ResultInv => ResultsBelongToCalls
    BY DEF ResultInv
  <1> QED
    BY <1>1, <1>2, <1>3, PTL DEF ToolSpec
(* The guidance in a request is about calls of its own message and there   *)
(* once per sending, unless a message was cut short.                       *)
THEOREM GuidanceIsOwnAlways == ToolSpec => []GuidanceIsOwn
  <1>1. ToolInit => GuidanceInv
    BY GuidanceInitial
  <1>2. GuidanceInv /\ [ToolNext]_toolVars => GuidanceInv'
    BY GuidanceStep
  <1>3. GuidanceInv => GuidanceIsOwn
    BY DEF GuidanceInv, GuidanceIsOwn
  <1> QED
    BY <1>1, <1>2, <1>3, PTL DEF ToolSpec
-----------------------------------------------------------------------------
(* Types                                                                   *)

Request == [offered : SUBSET Tool, guided : [Regulated -> Nat]]

(* The executions of a call stay within its attempts: recovery is asked    *)
(* only as long as one is left, so that an execution that begins is at     *)
(* most the last of them.                                                  *)
AttemptBound ==
    /\ DOMAIN call = {"tool", "arg", "attempt"}
    /\ call.attempt \in 0..(MaxRecovery + 1)
    /\ pc = "exec" => call.attempt \in 0..MaxRecovery

(* No tool was called more often than the LLM made calls, and a message    *)
(* that has not begun has no records.                                      *)
RecordBound ==
    /\ calls \in Nat
    /\ \A m \in Message, t \in Regulated :
          /\ records[m][t].calls \in 0..calls
          /\ m > message => records[m][t] = NewRecord

TypesInv ==
    /\ ToolShape
    /\ user \in Users
    /\ request \in Request
    /\ AttemptBound
    /\ RecordBound

LEMMA TypesInitial == ToolInit => TypesInv
  <1> SUFFICES ASSUME ToolInit
               PROVE  TypesInv
    OBVIOUS
  <1> USE ToolAssumption
  <1>1. ToolShape
    BY ShapeInitial
  <1>2. user \in Users /\ request \in Request
    BY DEF ToolInit, Request
  <1>3. AttemptBound
    BY DEF ToolInit, NoCall, AttemptBound
  <1>4. \A m \in Message, t \in Regulated : records[m][t] = NewRecord
    BY DEF ToolInit
  <1>5. RecordBound
    BY <1>4, NewRecordShape DEF ToolInit, RecordBound
  <1> QED
    BY <1>1, <1>2, <1>3, <1>5 DEF TypesInv

(* What a request becomes on its way to the LLM is a request.              *)
LEMMA ConstrainedIsRequest ==
    ASSUME NEW req \in Request
    PROVE  Constrain(req) \in Request
  <1>1. \A t \in Regulated : (req.guided[t] + IF StateOf(t) = "ok" THEN 0 ELSE 1) \in Nat
    BY DEF Request
  <1>2. {t \in req.offered : t \in Regulated => StateOf(t) # "block"} \subseteq Tool
    BY DEF Request
  <1> HIDE DEF StateOf, Regulated
  <1> QED
    BY <1>1, <1>2 DEF Constrain, Request

LEMMA BuiltIsRequest == BuildRequest \in Request
  BY DEF BuildRequest, Request

(* The steps that leave the call and the records alone.                    *)
LEMMA TypesKept ==
    ASSUME TypesInv, ToolShape', user' = user, request' \in Request, message <= message',
           AttemptBound', records' = records, calls' = calls
    PROVE  TypesInv'
  <1>1. \A m \in Message : m > message' => m > message
    BY ToolAssumption DEF TypesInv, ToolShape, Message
  <1> QED
    BY <1>1 DEF TypesInv, RecordBound

LEMMA TypesStep == TypesInv /\ [ToolNext]_toolVars => TypesInv'
  <1> SUFFICES ASSUME TypesInv, [ToolNext]_toolVars
               PROVE  TypesInv'
    OBVIOUS
  <1> USE ToolAssumption
  <1>s. ToolShape /\ ToolShape' /\ request \in Request /\ message \in Nat /\ AttemptBound
    BY ShapeStep DEF TypesInv, ToolShape
  <1>u. message <= message
    BY <1>s
  <1>1. CASE UNCHANGED toolVars
    <2>1. AttemptBound'
      BY <1>1, <1>s DEF toolVars, AttemptBound
    <2> QED
      BY <1>1, <1>s, <1>u, <2>1, TypesKept DEF toolVars, TypesInv
  <1>2. CASE BeginMessage
    <2>1. AttemptBound' /\ message <= message'
      BY <1>2, <1>s DEF BeginMessage, AttemptBound
    <2> QED
      BY <1>2, <1>s, <2>1, TypesKept, BuiltIsRequest DEF BeginMessage
  <1>3. CASE SendRequest
    <2>1. AttemptBound'
      BY <1>3, <1>s DEF SendRequest, AttemptBound
    <2> QED
      BY <1>3, <1>s, <1>u, <2>1, TypesKept, ConstrainedIsRequest DEF SendRequest
  <1>4. CASE NextRound
    <2>1. AttemptBound'
      BY <1>4, <1>s DEF NextRound, AttemptBound
    <2> QED
      BY <1>4, <1>s, <1>u, <2>1, TypesKept, BuiltIsRequest DEF NextRound
  <1>5. CASE LlmRetry
    <2>1. AttemptBound'
      BY <1>5, <1>s DEF LlmRetry, AttemptBound
    <2> QED
      BY <1>5, <1>s, <1>u, <2>1, TypesKept DEF LlmRetry
  <1>6. CASE RetriesTool \/ Substitutes \/ KeepsResult
    <2>1. AttemptBound'
      <3>1. call' = call /\ (pc' = "exec" => call.attempt <= MaxRecovery)
        BY <1>6 DEF RetriesTool, Substitutes, KeepsResult, MayRecover
      <3> QED
        BY <3>1, <1>s DEF AttemptBound
    <2> QED
      BY <1>6, <1>s, <1>u, <2>1, TypesKept DEF RetriesTool, Substitutes, KeepsResult
  <1>7. CASE LlmFails \/ AuditRaises
    <2>1. Cut
      BY <1>7 DEF LlmFails, AuditRaises
    <2>2. AttemptBound'
      BY <2>1 DEF Cut, NoCall, AttemptBound
    <2> QED
      BY <1>s, <1>u, <2>1, <2>2, TypesKept DEF Cut
  <1>8. ASSUME NEW res, pc = "exec", Returns(res)
        PROVE  TypesInv'
    <2>1. AttemptBound'
      BY <1>8, <1>s DEF Returns, AttemptBound
    <2> QED
      BY <1>8, <1>s, <1>u, <2>1, TypesKept DEF Returns
  <1>9. CASE Refuses
    BY <1>9, <1>8 DEF Refuses
  <1>10. ASSUME NEW res, NEW audited \in BOOLEAN, Executes(res, audited) PROVE TypesInv'
    BY <1>10, <1>8 DEF Executes
  <1>11. CASE LlmAnswers \/ IterationLimit
    <2>1. /\ AfterMessage
          /\ UNCHANGED <<user, message, request, call, calls>> /\ pc' = "idle"
      BY <1>11 DEF LlmAnswers, IterationLimit
    <2>2. AttemptBound'
      BY <2>1, <1>s DEF AttemptBound
    <2>3. RecordBound'
      BY <2>1, <1>s, AfterMessageEffect, NewRecordShape DEF TypesInv, RecordBound
    <2> QED
      BY <1>s, <2>1, <2>2, <2>3 DEF TypesInv
  <1>12. ASSUME pc # "idle", NEW t, calls' = calls + 1,
                BeforeTool(t) \/ UNCHANGED <<scope, current, records>>,
                UNCHANGED <<user, message, request>>, AttemptBound'
         PROVE  TypesInv'
    <2>1. message \in Message
      BY <1>12, <1>s DEF ToolShape
    <2>2. \A m \in Message, u \in Regulated :
             /\ records'[m][u].calls \in 0..calls'
             /\ m > message' => records'[m][u] = NewRecord
      <3> TAKE m \in Message, u \in Regulated
      <3>1. /\ RecordShape(records[m][u]) /\ calls \in Nat /\ records[m][u].calls \in 0..calls
            /\ m > message => records[m][u] = NewRecord
        BY <1>s DEF TypesInv, ToolShape, RecordBound
      <3>2. CASE records'[m][u] = records[m][u]
        BY <1>12, <3>1, <3>2
      <3>3. CASE records'[m][u] = WithCall(records[m][u]) /\ m = message
        BY <1>12, <1>s, <3>1, <3>3, CallCounts
      <3> QED
        BY <1>12, <1>s, <2>1, <3>2, <3>3, BeforeToolEffect
    <2>3. RecordBound'
      BY <1>12, <2>2 DEF TypesInv, RecordBound
    <2> QED
      BY <1>12, <1>s, <2>3 DEF TypesInv
  <1>13. ASSUME NEW t, NEW arg, LlmCalls(t, arg) PROVE TypesInv'
    <2>1. AttemptBound'
      BY <1>13 DEF LlmCalls, AttemptBound
    <2> QED
      BY <1>13, <1>12, <2>1 DEF LlmCalls
  <1>14. ASSUME NEW t, NEW ran \in BOOLEAN, HookRaises(t, ran) PROVE TypesInv'
    <2>1. AttemptBound'
      BY <1>14, <1>s DEF HookRaises, AttemptBound
    <2> QED
      BY <1>14, <1>12, <2>1 DEF HookRaises
  <1>15. CASE AfterTool
    <2>1. /\ records' = Recorded(Observers) /\ pc = "after" /\ pc' = "more" /\ call' = NoCall
          /\ UNCHANGED <<user, message, request, calls>>
      BY <1>15 DEF AfterTool
    <2>2. AttemptBound'
      BY <2>1 DEF NoCall, AttemptBound
    <2>3. RecordBound'
      <3>1. \A m \in Message, t \in Regulated :
               /\ records'[m][t].calls = records[m][t].calls
               /\ m # scope => records'[m][t] = records[m][t]
        BY <1>s, <2>1, RecordedEffect, ResultCounts DEF ToolShape
      <3>2. \A m \in Message : m > message => m # scope
        BY <1>s DEF ToolShape, Message
      <3> QED
        BY <2>1, <3>1, <3>2 DEF TypesInv, RecordBound
    <2> QED
      BY <1>s, <2>1, <2>2, <2>3 DEF TypesInv
  <1> QED
    BY <1>1, <1>2, <1>3, <1>4, <1>5, <1>6, <1>7, <1>9, <1>10, <1>11, <1>13, <1>14, <1>15
    DEF ToolNext

(* The loop of attempts ends, the context variable never runs ahead of the *)
(* message, and a record counts nothing that was not called in its own     *)
(* message (_execute_tool_call, RequestTracker).                           *)
THEOREM ToolTypesHold == ToolSpec => []ToolTypeOK
  <1>1. ToolInit => TypesInv
    BY TypesInitial
  <1>2. TypesInv /\ [ToolNext]_toolVars => TypesInv'
    BY TypesStep
  <1>3. TypesInv => ToolTypeOK
    BY DEF TypesInv, ToolShape, Phase, Request, AttemptBound, RecordBound, ToolTypeOK
  <1> QED
    BY <1>1, <1>2, <1>3, PTL DEF ToolSpec
=============================================================================
