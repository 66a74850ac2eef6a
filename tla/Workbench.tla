----------------------------- MODULE Workbench -----------------------------
(***************************************************************************)
(* Five parts of the system that share no state: the stores with           *)
(* embeddings, the component tree, the evaluation runner, the file tools   *)
(* and the web client.  Each behaviour is one of a single part; the others *)
(* rest.                                                                   *)
(***************************************************************************)
EXTENDS VectorStore, ComponentTree, Evaluation, Files, Workflow, WebClient

VARIABLE part

workbenchVars == <<part, vectorVars, treeVars, evalVars, fileVars, webVars>>

VectorRests ==
    /\ holds = "memories" /\ table = [r \in Row |-> Absent] /\ column = Absent
    /\ latch = Absent /\ migrating = Absent
    /\ client = [c \in Client |-> [pc |-> "done", stale |-> FALSE, needless |-> FALSE]]

FilesRest ==
    /\ disk = <<>> /\ command = "none" /\ result = [ok |-> TRUE, files |-> {}]
    /\ editing = {} /\ lastEdit = NoEdit /\ fileCalls = 0 /\ fileEdits = 0

\* No comparison was started.
EvaluationRests ==
    /\ mode = "none"
    /\ task = [v \in Variant |-> [i \in Case |-> Waiting]] /\ permits = 0
    /\ worker = [v \in Variant |-> "returned"]
    /\ queue = <<>> /\ yielded = <<>> /\ comparison = "none" /\ best = {}

Init ==
    /\ part \in {"vectors", "tree", "evaluation", "files", "web"}
    /\ TreeInit /\ WebInit
    /\ IF part = "vectors" THEN VectorInit ELSE VectorRests
    /\ IF part = "evaluation" THEN EvalInit ELSE EvaluationRests
    /\ IF part = "files" THEN FileInit ELSE FilesRest

Next ==
    \/ part = "vectors"    /\ VectorNext /\ UNCHANGED <<part, treeVars, evalVars, fileVars, webVars>>
    \/ part = "tree"       /\ TreeNext   /\ UNCHANGED <<part, vectorVars, evalVars, fileVars, webVars>>
    \/ part = "evaluation" /\ EvalNext   /\ UNCHANGED <<part, vectorVars, treeVars, fileVars, webVars>>
    \/ part = "files"      /\ FileNext   /\ UNCHANGED <<part, vectorVars, treeVars, evalVars, webVars>>
    \/ part = "web"        /\ WebNext    /\ UNCHANGED <<part, vectorVars, treeVars, evalVars, fileVars>>

Spec == Init /\ [][Next]_workbenchVars /\ EvalFairness
=============================================================================
