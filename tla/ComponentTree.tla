--------------------------- MODULE ComponentTree ---------------------------
(***************************************************************************)
(* The component manager of a conversation: the components by id, the tree *)
(* the client shows, and the tree's index from ids to nodes.               *)
(*                                                                         *)
(* emit never gives a position, so every node is the root or a child of    *)
(* it.  A component is its id and its data; nodes are objects, numbered in *)
(* the order of their creation, whose component may change.                *)
(***************************************************************************)
EXTENDS Naturals, Sequences

CONSTANTS
    Component,   \* component ids
    Data,        \* what a component may hold
    Missing,     \* no component
    MaxNodes     \* bound: nodes created

VARIABLES
    nodes,       \* ComponentNode: [id, data, children]
    root,        \* a node, 0 for None
    index,       \* flat_index: per id a node, 0 for none
    components,  \* the manager's: per id its data, or Missing
    dropped,     \* history: ids that left the index with a removed parent
    reused       \* history: a replacement took the id of another node

treeVars == <<nodes, root, index, components, dropped, reused>>

ASSUME TreeAssumption == Missing \notin Data /\ MaxNodes \in Nat

TreeInit ==
    /\ nodes = <<>>
    /\ root = 0
    /\ index = [c \in Component |-> 0]
    /\ components = [c \in Component |-> Missing]
    /\ dropped = {}
    /\ reused = FALSE

Children(n) == {nodes[n].children[i] : i \in DOMAIN nodes[n].children}

\* get_all_ids
IdsBelow(n) == {nodes[m].id : m \in {n} \cup Children(n)}

IdsInTree == IF root = 0 THEN {} ELSE IdsBelow(root)

\* remove_child pops the first child with the id.
WithoutChild(seq, c) ==
    IF \E i \in DOMAIN seq : nodes[seq[i]].id = c
    THEN LET i == CHOOSE i \in DOMAIN seq :
                    /\ nodes[seq[i]].id = c
                    /\ \A j \in DOMAIN seq : nodes[seq[j]].id = c => i <= j
         IN  SubSeq(seq, 1, i - 1) \o SubSeq(seq, i + 1, Len(seq))
    ELSE seq

-----------------------------------------------------------------------------
(* add_component: under the root, or as the root. *)
EmitsNew(c, data) ==
    LET n == Len(nodes) + 1
        new == [id |-> c, data |-> data, children |-> <<>>]
    IN  /\ components[c] = Missing
        /\ n <= MaxNodes
        /\ nodes' = Append(IF root = 0 THEN nodes
                           ELSE [nodes EXCEPT ![root].children = Append(@, n)], new)
        /\ root' = IF root = 0 THEN n ELSE root
        /\ index' = [index EXCEPT ![c] = n]
        /\ components' = [components EXCEPT ![c] = data]
        /\ UNCHANGED <<dropped, reused>>

(* An update, or a replacement by a component of the same id.              *)
EmitsAgain(c, data) ==
    /\ components[c] # Missing
    /\ index[c] # 0
    /\ nodes' = [nodes EXCEPT ![index[c]].data = data]
    /\ components' = [components EXCEPT ![c] = data]
    /\ UNCHANGED <<root, index, dropped, reused>>

\* emit returns None: the manager has the component, the tree does not.
EmitIsLost(c) ==
    /\ components[c] # Missing
    /\ index[c] = 0
    /\ UNCHANGED treeVars

Updates(c, data) ==
    /\ index[c] # 0
    /\ nodes' = [nodes EXCEPT ![index[c]].data = data]
    /\ components' = [components EXCEPT ![c] = data]
    /\ UNCHANGED <<root, index, dropped, reused>>

Replaces(old, new, data) ==
    /\ index[old] # 0
    /\ nodes' = [nodes EXCEPT ![index[old]].id = new, ![index[old]].data = data]
    /\ index' = [[index EXCEPT ![old] = 0] EXCEPT ![new] = index[old]]
    /\ components' = [[components EXCEPT ![old] = Missing] EXCEPT ![new] = data]
    /\ reused' = (reused \/ (old # new /\ index[new] # 0))
    /\ UNCHANGED <<root, dropped>>

\* Mutant: what is below the removed component stays in the index.
UnindexedAlone(c) == [index EXCEPT ![c] = 0]

Unindexed(c) == [d \in Component |-> IF d \in {c} \cup IdsBelow(index[c]) THEN 0 ELSE index[d]]

Removes(c) ==
    /\ index[c] # 0
    /\ root' = IF root # 0 /\ nodes[root].id = c THEN 0 ELSE root
    /\ nodes' = IF root' = 0 THEN nodes
                ELSE [nodes EXCEPT ![root].children = WithoutChild(@, c)]
    /\ index' = Unindexed(c)
    /\ components' = [components EXCEPT ![c] = Missing]
    /\ dropped' = dropped \cup (IdsBelow(index[c]) \ {c})
    /\ UNCHANGED reused

TreeNext ==
    \E c \in Component :
        \/ \E data \in Data : \/ EmitsNew(c, data) \/ EmitsAgain(c, data) \/ Updates(c, data)
                              \/ \E new \in Component : Replaces(c, new, data)
        \/ EmitIsLost(c)
        \/ Removes(c)

TreeSpec == TreeInit /\ [][TreeNext]_treeVars

-----------------------------------------------------------------------------
(* What the tree shows of a component is what the manager has of it; a     *)
(* component the manager has and the tree lost, whose later emits are      *)
(* lost, was below a removed one; and the index has the ids of the tree,   *)
(* unless a replacement took an id already in it.                          *)
TreeFollowsManager ==
    \A c \in Component :
        /\ index[c] # 0 => components[c] = nodes[index[c]].data
        /\ components[c] # Missing /\ index[c] = 0 => c \in dropped
        /\ ~reused => (index[c] # 0 <=> c \in IdsInTree)
=============================================================================
