----------------------------- MODULE Regulator -----------------------------
(***************************************************************************)
(* The shared engine of the tool regulators: what a ToolUsageRecord keeps  *)
(* of the calls a message made to a tool, and the state that a policy      *)
(* derives from it.                                                        *)
(*                                                                         *)
(* A result is [ok, query, tables, empty, skeleton, sound]: the metadata   *)
(* the tracker reads, with None for a key that is missing.  skeleton       *)
(* stands for extract_sql_skeleton of the executed SQL, sound for its      *)
(* being aligned in granularity and without gaps.                          *)
(***************************************************************************)
EXTENDS Naturals, FiniteSets

CONSTANTS
    Skeleton,   \* shapes of queries
    None

NewRecord ==
    [calls |-> 0, successes |-> 0, errors |-> 0, consecutive |-> 0, empties |-> 0,
     lastQuery |-> None, repeats |-> 0, seenTables |-> {}, noNew |-> 0,
     skeletons |-> [k \in Skeleton |-> 0], frozen |-> None]

WithCall(rec) == [rec EXCEPT !.calls = @ + 1]

WithOutcome(rec, res) ==
    IF res.ok THEN [rec EXCEPT !.successes = @ + 1, !.consecutive = 0]
              ELSE [rec EXCEPT !.errors = @ + 1, !.consecutive = @ + 1]

WithQuery(rec, res) ==
    IF res.query = None THEN rec
    ELSE [rec EXCEPT !.repeats = IF res.query = rec.lastQuery THEN @ + 1 ELSE 0,
                     !.lastQuery = res.query]

WithTables(rec, res) ==
    IF res.tables = {} THEN rec
    ELSE [rec EXCEPT !.noNew = IF res.tables \subseteq rec.seenTables THEN @ + 1 ELSE 0,
                     !.seenTables = @ \cup res.tables]

WithEmpty(rec, res) == IF res.empty THEN [rec EXCEPT !.empties = @ + 1] ELSE rec

WithSkeleton(rec, res) ==
    IF res.skeleton = None THEN rec ELSE [rec EXCEPT !.skeletons[res.skeleton] = @ + 1]

(* record_result *)
WithResult(rec, res) ==
    WithSkeleton(WithEmpty(WithTables(WithQuery(WithOutcome(rec, res), res), res), res), res)

(* _try_freeze: a shape that is stable and is being run again. *)
TryFreeze(rec, policy, res) ==
    IF /\ res.skeleton # None
       /\ rec.frozen = None
       /\ rec.skeletons[res.skeleton] >= policy.freezeReproduce
       /\ rec.calls >= policy.freezeIterations
       /\ res.sound
    THEN [rec EXCEPT !.frozen = res.skeleton]
    ELSE rec

Exhausted(policy, rec) ==
    \/ rec.calls >= policy.blockCalls
    \/ rec.consecutive >= policy.maxErrors
    \/ rec.empties >= policy.maxEmpty
    \/ rec.repeats >= policy.maxRepeat
    \/ rec.noNew >= policy.maxNoNew

SoftState(policy, rec) ==
    IF rec.calls >= policy.warnCalls \/ rec.consecutive >= policy.maxErrors THEN "warn" ELSE "ok"

HardState(policy, rec) ==
    IF Exhausted(policy, rec) THEN "block"
    ELSE IF rec.calls >= policy.warnCalls THEN "warn" ELSE "ok"

EvaluateState(policy, rec) ==
    IF rec.frozen # None THEN "warn"
    ELSE IF policy.hardBlock THEN HardState(policy, rec) ELSE SoftState(policy, rec)

(* RUN_SQL_POLICY, SCHEMA_SEARCH_POLICY and METRIC_SEARCH_POLICY *)
RunSqlPolicy ==
    [warnCalls |-> 2, blockCalls |-> 0, maxErrors |-> 3, maxEmpty |-> 0, maxRepeat |-> 0,
     maxNoNew |-> 0, hardBlock |-> FALSE, freezeReproduce |-> 2, freezeIterations |-> 3]

SchemaSearchPolicy ==
    [warnCalls |-> 3, blockCalls |-> 5, maxErrors |-> 2, maxEmpty |-> 3, maxRepeat |-> 3,
     maxNoNew |-> 2, hardBlock |-> TRUE, freezeReproduce |-> 2, freezeIterations |-> 3]

MetricSearchPolicy == SchemaSearchPolicy
=============================================================================
