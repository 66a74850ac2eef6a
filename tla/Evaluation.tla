----------------------------- MODULE Evaluation -----------------------------
(***************************************************************************)
(* The evaluation runner: the test cases of all agent variants run as      *)
(* tasks under one semaphore.  compare_agents gathers the variants; the    *)
(* streaming comparison has a worker per variant that puts its results on  *)
(* a queue once they are all there, and a consumer that waits for as many  *)
(* results as there are tasks.                                             *)
(*                                                                         *)
(* The first exception of a gather is raised at once; its other tasks run  *)
(* on.  A case that no evaluator raises on always has a result: errors of  *)
(* the agent are caught.  Scores are in 600ths.                            *)
(***************************************************************************)
EXTENDS Integers, Sequences, FiniteSets, SequencesExt

CONSTANTS
    Variants,      \* the sequence of agent variants
    Cases,         \* the sequence of test cases: what each expects
    NameOf,        \* per variant: its name, possibly shared
    Words,         \* what answers may contain
    JudgeVerdicts, \* the judge's score and word on passing, parsed apart
    MaxConcurrency

VARIABLES
    mode,          \* "gather" or "stream"
    task,          \* per variant and case: its state, result and verdict
    permits,       \* of the semaphore
    worker,        \* per variant: "running", "returned" or "failed"
    queue,         \* results put and not yet yielded
    yielded,       \* the results the consumer got, in order
    comparison,    \* "running", "left", "raised" or "ended"
    best           \* the names a report gives as best, by score and by pass rate

evalVars == <<mode, task, permits, worker, queue, yielded, comparison, best>>

Variant == ToSet(Variants)
Case == DOMAIN Cases

\* What a case expects; "none" when it has no expected outcome.
Expectation == [kind : {"none", "some"}, tools : SUBSET {"run_sql"}, notTools : SUBSET {"run_sql"},
                has : SUBSET Words, hasNot : SUBSET Words]

\* A variant that is given twice is two elements with one name.
ASSUME VariantAssumption == Variants \in Seq(Variant) /\ IsInjective(Variants)

ASSUME EvaluationAssumption ==
    /\ MaxConcurrency \in Nat \ {0}
    /\ Cases \in Seq(Expectation) /\ Len(Cases) > 0
    /\ JudgeVerdicts \subseteq [score : 0..600, passed : BOOLEAN]

Waiting == [at |-> "waiting", error |-> FALSE, answer |-> {}, passed |-> FALSE, score |-> 0]

EvalInit ==
    /\ mode \in {"gather", "stream"}
    /\ task = [v \in Variant |-> [i \in Case |-> Waiting]]
    /\ permits = MaxConcurrency
    /\ worker = [v \in Variant |-> "running"]
    /\ queue = <<>>
    /\ yielded = <<>>
    /\ comparison = "running"
    /\ best = {}

-----------------------------------------------------------------------------
(* Evaluators *)

Pass == 420
Full == 600

\* Half the score is lost over what is missing, half over what should not be there.
Penalty(wanted, wrong) == IF wanted = {} THEN 0 ELSE (300 * Cardinality(wrong)) \div Cardinality(wanted)

Measured(expected, wanted, unwanted, found) ==
    IF expected.kind = "none" THEN Full
    ELSE Full - Penalty(wanted, wanted \ found) - Penalty(unwanted, unwanted \cap found)

(* No tool calls are recorded in a result.                                 *)
TrajectoryScore(expected) == Measured(expected, expected.tools, expected.notTools, {})

OutputScore(expected, answer) == Measured(expected, expected.has, expected.hasNot, answer)

\* The agent's time and tokens are never set in a result: nothing exceeds a limit.
EfficiencyScore == Full

Verdict(score) == [score |-> score, passed |-> score >= Pass]

\* The judge's two words are not compared; a judge that fails gives nothing.
Judgements(error) == {Verdict(0)} \cup (IF error THEN {} ELSE JudgeVerdicts)

Verdicts(expected, error, answer, judged) ==
    <<Verdict(IF error THEN 0 ELSE TrajectoryScore(expected)),
      Verdict(IF error THEN 0 ELSE OutputScore(expected, answer)),
      judged,
      Verdict(EfficiencyScore)>>

OverallPassed(verdicts) == \A i \in DOMAIN verdicts : verdicts[i].passed

Total(seq) == FoldLeft(LAMBDA sum, x : sum + x, 0, seq)

OverallScore(verdicts) ==
    Total([i \in DOMAIN verdicts |-> verdicts[i].score]) \div Len(verdicts)

-----------------------------------------------------------------------------
(* Tasks *)

TaskIs(v, i, state) == task[v][i].at = state

Acquires(v, i) ==
    /\ TaskIs(v, i, "waiting")
    /\ permits > 0
    /\ permits' = permits - 1
    /\ task' = [task EXCEPT ![v][i].at = "running"]
    /\ UNCHANGED <<mode, worker, queue, yielded, comparison, best>>

\* _execute_agent: the components of the answer, or the error.
Executes(v, i) ==
    /\ TaskIs(v, i, "running")
    /\ \E error \in BOOLEAN, answer \in SUBSET Words :
        task' = [task EXCEPT ![v][i].at = "judged", ![v][i].error = error,
                             ![v][i].answer = answer]
    /\ UNCHANGED <<mode, permits, worker, queue, yielded, comparison, best>>

\* Mutant: a finished task keeps its permit.
FinishesHolding(v, i) ==
    /\ TaskIs(v, i, "judged")
    /\ task' = [task EXCEPT ![v][i].at = "done"]
    /\ UNCHANGED <<mode, permits, worker, queue, yielded, comparison, best>>

Finishes(v, i) ==
    /\ TaskIs(v, i, "judged")
    /\ permits' = permits + 1
    /\ \E judged \in Judgements(task[v][i].error) :
        LET all == Verdicts(Cases[i], task[v][i].error, task[v][i].answer, judged)
        IN  task' = [task EXCEPT ![v][i] = [Waiting EXCEPT !.at = "done", !.passed = OverallPassed(all),
                                                    !.score = OverallScore(all)]]
    /\ UNCHANGED <<mode, worker, queue, yielded, comparison, best>>

\* An evaluator raises.
EvaluatorRaises(v, i) ==
    /\ TaskIs(v, i, "judged")
    /\ permits' = permits + 1
    /\ task' = [task EXCEPT ![v][i] = [Waiting EXCEPT !.at = "raised"]]
    /\ UNCHANGED <<mode, worker, queue, yielded, comparison, best>>

-----------------------------------------------------------------------------
(* Reports *)

PassRate(v) == (Full * Cardinality({i \in Case : task[v][i].passed})) \div Len(Cases)

AverageScore(v) == Total([i \in Case |-> task[v][i].score]) \div Len(Cases)

\* The reports are keyed by name: of variants with the same name the last one's counts.
Reported == {v \in 1..Len(Variants) : \A w \in 1..Len(Variants) :
                NameOf[Variants[w]] = NameOf[Variants[v]] => w <= v}

\* get_best_variant: the first best, in the order in which names first occur.
Position(name) == CHOOSE v \in 1..Len(Variants) :
                    /\ NameOf[Variants[v]] = name
                    /\ \A w \in 1..(v - 1) : NameOf[Variants[w]] # name

Best(value) ==
    LET top == {v \in Reported : \A w \in Reported : value[Variants[w]] <= value[Variants[v]]}
        Place(v) == Position(NameOf[Variants[v]])
    IN  NameOf[Variants[CHOOSE v \in top : \A w \in top : Place(v) <= Place(w)]]

-----------------------------------------------------------------------------
(* Workers and comparisons *)

\* Mutant: the result of the last case is not put.
ResultsButLast(v) == [i \in 1..(Len(Cases) - 1) |-> <<v, i>>]

ResultsOf(v) == [i \in Case |-> <<v, i>>]

Returns(v) ==
    /\ worker[v] = "running"
    /\ \A i \in Case : TaskIs(v, i, "done")
    /\ worker' = [worker EXCEPT ![v] = "returned"]
    /\ queue' = IF mode = "stream" THEN queue \o ResultsOf(v) ELSE queue
    /\ UNCHANGED <<mode, task, permits, yielded, comparison, best>>

WorkerFails(v) ==
    /\ worker[v] = "running"
    /\ \E i \in Case : TaskIs(v, i, "raised")
    /\ worker' = [worker EXCEPT ![v] = "failed"]
    /\ UNCHANGED <<mode, task, permits, queue, yielded, comparison, best>>

Compares ==
    /\ mode = "gather" /\ comparison = "running"
    /\ \A v \in Variant : worker[v] = "returned"
    /\ comparison' = "ended"
    /\ best' = {Best([v \in Variant |-> AverageScore(v)]),
              Best([v \in Variant |-> PassRate(v)])}
    /\ UNCHANGED <<mode, task, permits, worker, queue, yielded>>

CompareRaises ==
    /\ mode = "gather" /\ comparison = "running"
    /\ \E v \in Variant : worker[v] = "failed"
    /\ comparison' = "raised"
    /\ UNCHANGED <<mode, task, permits, worker, queue, yielded, best>>

Expected == Len(Variants) * Len(Cases)

Yields ==
    /\ mode = "stream" /\ comparison = "running"
    /\ Len(yielded) < Expected
    /\ queue # <<>>
    /\ yielded' = Append(yielded, Head(queue))
    /\ queue' = Tail(queue)
    /\ UNCHANGED <<mode, task, permits, worker, comparison, best>>

StreamEnds ==
    /\ mode = "stream" /\ comparison = "running"
    /\ Len(yielded) = Expected
    /\ \A v \in Variant : worker[v] = "returned"
    /\ comparison' = "ended"
    /\ UNCHANGED <<mode, task, permits, worker, queue, yielded, best>>

\* The caller closes the generator; the workers are not cancelled.
Leaves ==
    /\ mode = "stream" /\ comparison = "running"
    /\ comparison' = "left"
    /\ UNCHANGED <<mode, task, permits, worker, queue, yielded, best>>

TaskSteps(v, i) == Acquires(v, i) \/ Executes(v, i) \/ Finishes(v, i) \/ EvaluatorRaises(v, i)

EvalNext ==
    \/ \E v \in Variant :
        \/ \E i \in Case : TaskSteps(v, i)
        \/ Returns(v) \/ WorkerFails(v)
    \/ Compares \/ CompareRaises \/ Yields \/ StreamEnds \/ Leaves

\* The event loop runs what can run; agents and evaluators return.
EvalFairness ==
    /\ \A v \in Variant :
        /\ \A i \in Case : WF_evalVars(TaskSteps(v, i))
        /\ WF_evalVars(Returns(v) \/ WorkerFails(v))
    /\ WF_evalVars(Compares \/ CompareRaises \/ Yields \/ StreamEnds)

EvalSpec == EvalInit /\ [][EvalNext]_evalVars /\ EvalFairness

-----------------------------------------------------------------------------
(* However tasks of several variants and of abandoned comparisons end, the *)
(* permits that are out are those of the tasks at work: never more than    *)
(* max_concurrency tasks are, and no permit is lost (runner.py:63, 248).   *)
AtWork == {p \in Variant \X Case : task[p[1]][p[2]].at \in {"running", "judged"}}

PermitsComeBack ==
    mode # "none" => permits >= 0 /\ permits + Cardinality(AtWork) = MaxConcurrency

(* The consumer, which counts results and does not look whose they are,    *)
(* gets every result of every variant that came to its end once, in        *)
(* whatever order the workers put them, and leaves none in the queue when  *)
(* it has counted enough (runner.py:148-173).                              *)
ResultsOnce ==
    mode = "stream" =>
        LET out == yielded \o queue
        IN  /\ IsInjective(out)
            /\ ToSet(out) = {v \in Variant : worker[v] = "returned"} \X Case
            /\ comparison = "ended" => queue = <<>>

(* A comparison ends, in both modes, unless the caller leaves it or an     *)
(* evaluator raises: then a stream's consumer waits for results that       *)
(* never come.                                                             *)
ComparisonEnds ==
    <>(\/ comparison # "running"
       \/ \E v \in Variant : worker[v] = "failed")
=============================================================================
