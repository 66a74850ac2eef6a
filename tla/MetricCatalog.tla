--------------------------- MODULE MetricCatalog ---------------------------
(***************************************************************************)
(* The metric tables in PostgreSQL and the admin routes that write them.   *)
(*                                                                         *)
(* A derived metric names its atomic metric and a composite metric its two *)
(* operands, without foreign keys.  A row is the sequence of the ids it    *)
(* names; its texts are left out.  Every store call runs in a worker       *)
(* thread with a connection of its own and commits before it returns, so   *)
(* a call is one step and a request that awaits several is not.            *)
(***************************************************************************)
EXTENDS Naturals, Sequences, FiniteSets

CONSTANTS
    Atomic, Derived, Composite, \* the ids (uuid4) of the three tables
    Editor,                     \* one element per PUT request
    None                        \* no row

VARIABLES
    rows,    \* the three tables
    spent,   \* ids that have been handed out
    edit,    \* where each PUT request is, and the id it is about
    deleted, \* history: ids a DELETE reported as deleted
    excused  \* history: ids deleted under a PUT that had found them

catVars == <<rows, spent, edit, deleted, excused>>

Id == Atomic \cup Derived \cup Composite

\* What a body may hold: the routes do not look the ids up.
RowsOf(id) ==
    {row \in {<<>>} \cup {<<p>> : p \in Atomic} \cup (Derived \X Derived) :
        Len(row) = IF id \in Atomic THEN 0 ELSE IF id \in Derived THEN 1 ELSE 2}

\* A uuid has 128 bits, and a row is no marker of absence.
ASSUME CatalogAssumption ==
    /\ Atomic \cap Derived = {}
    /\ Composite \cap (Atomic \cup Derived) = {}
    /\ None \notin Id
    /\ IsFiniteSet(Id)
    /\ \A id \in Id : None \notin RowsOf(id)

NoEdit   == [pc |-> "new", id |-> None]
Answered == [pc |-> "done", id |-> None]

CatalogTypeOK ==
    /\ \A id \in Id : rows[id] \in RowsOf(id) \cup {None}
    /\ spent \subseteq Id
    /\ \A e \in Editor : /\ edit[e].pc \in {"new", "found", "checked", "done"}
                         /\ edit[e].id \in Id \cup {None}
    /\ excused \subseteq deleted /\ deleted \subseteq spent

CatalogInit ==
    /\ rows = [id \in Id |-> None]
    /\ spent = {}
    /\ edit \in [Editor -> {NoEdit, Answered}]
    /\ deleted = {}
    /\ excused = {}

-----------------------------------------------------------------------------
(* The stores.                                                             *)

Exists(id) == rows[id] # None

ListAtomic    == {id \in Atomic : Exists(id)}
ListDerived   == {id \in Derived : Exists(id)}
ListComposite == {id \in Composite : Exists(id)}

DerivedOf(a) == {d \in ListDerived : rows[d][1] = a}

\* INSERT ... ON CONFLICT (id) DO UPDATE, so the row is there afterwards.
UpsertAtomic(id)         == id \in Atomic    /\ rows' = [rows EXCEPT ![id] = <<>>]
UpsertDerived(id, row)   == id \in Derived   /\ rows' = [rows EXCEPT ![id] = row]
UpsertComposite(id, row) == id \in Composite /\ rows' = [rows EXCEPT ![id] = row]

\* Mutant: the request goes on whether it finds the row or not.
LookAnyway(e, id) ==
    edit' = [edit EXCEPT ![e] = [pc |-> "found", id |-> id]]

\* get_...: 404 unless the row is there.
Look(e, id) ==
    edit' = [edit EXCEPT ![e] =
               IF Exists(id) THEN [pc |-> "found", id |-> id] ELSE Answered]

Arrive(e) == edit' = [edit EXCEPT ![e] = Answered]

-----------------------------------------------------------------------------
(* The routes.                                                             *)

\* Mutant: an id that is not remembered.
FreshUnrecorded(id) == id \notin spent /\ UNCHANGED spent

\* The model's default_factory, uuid4.
Fresh(id) == id \notin spent /\ spent' = spent \cup {id}

\* A PUT looks the metric up before it writes.
FindAtomic(e, id) ==
    /\ edit[e].pc = "new" /\ id \in Atomic
    /\ Look(e, id)
    /\ UNCHANGED <<rows, spent, deleted, excused>>

FindDerived(e, id) ==
    /\ edit[e].pc = "new" /\ id \in Derived
    /\ Look(e, id)
    /\ UNCHANGED <<rows, spent, deleted, excused>>

FindComposite(e, id) ==
    /\ edit[e].pc = "new" /\ id \in Composite
    /\ Look(e, id)
    /\ UNCHANGED <<rows, spent, deleted, excused>>

PostAtomic(id) ==
    /\ Fresh(id)
    /\ UpsertAtomic(id)
    /\ UNCHANGED <<edit, deleted, excused>>

PostDerived(id) ==
    /\ Fresh(id)
    /\ \E row \in RowsOf(id) : UpsertDerived(id, row)
    /\ UNCHANGED <<edit, deleted, excused>>

PostComposite(id) ==
    /\ Fresh(id)
    /\ \E row \in RowsOf(id) : UpsertComposite(id, row)
    /\ UNCHANGED <<edit, deleted, excused>>

\* update_atomic_metric defines a check and does not call it: it upserts.
PutAtomic(e) ==
    /\ edit[e].pc = "found"
    /\ UpsertAtomic(edit[e].id)
    /\ Arrive(e)
    /\ UNCHANGED <<spent, deleted, excused>>

\* The other two stores look once more, in a transaction of its own ...
CheckDerived(e) ==
    /\ edit[e].pc = "found" /\ edit[e].id \in Derived
    /\ IF Exists(edit[e].id)
       THEN edit' = [edit EXCEPT ![e].pc = "checked"]
       ELSE Arrive(e)
    /\ UNCHANGED <<rows, spent, deleted, excused>>

CheckComposite(e) ==
    /\ edit[e].pc = "found" /\ edit[e].id \in Composite
    /\ IF Exists(edit[e].id)
       THEN edit' = [edit EXCEPT ![e].pc = "checked"]
       ELSE Arrive(e)
    /\ UNCHANGED <<rows, spent, deleted, excused>>

\* ... before they upsert.
PutDerived(e) ==
    /\ edit[e].pc = "checked"
    /\ \E row \in RowsOf(edit[e].id) : UpsertDerived(edit[e].id, row)
    /\ Arrive(e)
    /\ UNCHANGED <<spent, deleted, excused>>

PutComposite(e) ==
    /\ edit[e].pc = "checked"
    /\ \E row \in RowsOf(edit[e].id) : UpsertComposite(edit[e].id, row)
    /\ Arrive(e)
    /\ UNCHANGED <<spent, deleted, excused>>

\* A DELETE of ids, of which it reports those it found; nothing cascades.
Remove(ids) ==
    LET gone == {id \in ids : Exists(id)}
    IN  /\ gone # {}
        /\ rows' = [id \in Id |-> IF id \in gone THEN None ELSE rows[id]]
        /\ deleted' = deleted \cup gone
        /\ excused' = excused \cup
             {id \in gone : \E e \in Editor :
                 edit[e].id = id /\ edit[e].pc \in {"found", "checked"}}
        /\ UNCHANGED <<spent, edit>>

DeleteAtomic(id)     == id \in Atomic /\ Remove({id})
DeleteComposite(id)  == id \in Composite /\ Remove({id})
DeleteDerived(id)    == id \in Derived /\ Remove({id})
BatchDeleteDerived(ids) == ids \subseteq Derived /\ Remove(ids)

CatalogNext ==
    \/ \E id \in Atomic : PostAtomic(id) \/ DeleteAtomic(id)
    \/ \E id \in Derived : PostDerived(id) \/ DeleteDerived(id)
    \/ \E id \in Composite : PostComposite(id) \/ DeleteComposite(id)
    \/ BatchDeleteDerived(Derived)
    \/ \E e \in Editor :
        \/ \E id \in Id : FindAtomic(e, id) \/ FindDerived(e, id) \/ FindComposite(e, id)
        \/ PutAtomic(e) \/ CheckDerived(e) \/ CheckComposite(e)
        \/ PutDerived(e) \/ PutComposite(e)

CatalogSpec == CatalogInit /\ [][CatalogNext]_catVars

-----------------------------------------------------------------------------

\* A metric that the admin deleted comes back only through a PUT that had
\* already found it (metric_routes.py:122, derived_metric_store.py:370): update
\* is an upsert, and only the checks in front of it keep it from inserting.
DeletedStaysDeleted == \A id \in deleted : Exists(id) => id \in excused
=============================================================================
