---------------------------- MODULE AgentMemory ----------------------------
(***************************************************************************)
(* What the operations on the agent memory do to it, in the in-memory      *)
(* store of the demos, two lists under a lock, and in PostgreSQL, one      *)
(* table.  A memory is [id, tool, stamp, success, alike]: a text memory    *)
(* has no tool, and alike is its similarity to what is searched for.       *)
(*                                                                         *)
(* The demo store's save_tool_usage has no trajectory and final_sql, which *)
(* save_question_tool_args passes: with it that tool always fails.         *)
(***************************************************************************)
EXTENDS Naturals, Sequences, SequencesExt

CONSTANT NoTool   \* the tool of a text memory, and a filter that is not given

NoDate == 0

Least(a, b) == IF a < b THEN a ELSE b

\* The last n, as FIFO eviction keeps them.
Newest(seq, n) == SubSeq(seq, Len(seq) - Least(n, Len(seq)) + 1, Len(seq))

-----------------------------------------------------------------------------
(* DemoAgentMemory *)

DemoToolSaved(mem, m, max) == [mem EXCEPT !.tools = Newest(Append(@, m), max)]

DemoTextSaved(mem, m, max) == [mem EXCEPT !.texts = Newest(Append(@, m), max)]

\* [-0:] is the whole list.
DemoRecent(seq, limit) == Reverse(IF limit = 0 THEN seq ELSE Newest(seq, limit))

DemoRanked(seq, limit, threshold) ==
    LET near  == SelectSeq(seq, LAMBDA m : m.alike >= threshold)
        order == SetToSortSeq(DOMAIN near, LAMBDA i, j : \/ near[i].alike > near[j].alike
                                                         \/ near[i].alike = near[j].alike /\ i < j)
    IN  [i \in 1..Least(limit, Len(near)) |-> near[order[i]]]

DemoToolsFound(mem, limit, threshold, tool) ==
    DemoRanked(SelectSeq(mem.tools, LAMBDA m : m.success /\ tool \in {NoTool, m.tool}),
               limit, threshold)

DemoTextsFound(mem, limit, threshold) == DemoRanked(mem.texts, limit, threshold)

\* Ids are unique.
DemoToolDeleted(mem, id) == [mem EXCEPT !.tools = SelectSeq(@, LAMBDA m : m.id # id)]

DemoTextDeleted(mem, id) == [mem EXCEPT !.texts = SelectSeq(@, LAMBDA m : m.id # id)]

\* An empty tool name filters no tool memory, and keeps every text memory.
DemoCleared(mem, tool, before) ==
    LET Recent(m) == before # NoDate /\ m.stamp >= before
    IN  [tools |-> SelectSeq(mem.tools, LAMBDA m : tool \notin {NoTool, "", m.tool} \/ Recent(m)),
         texts |-> SelectSeq(mem.texts, LAMBDA m : tool # NoTool \/ Recent(m))]

-----------------------------------------------------------------------------
(* PostgresAgentMemory: rows is a set of memories *)

IsText(m) == m.tool = NoTool

\* Rows the DELETE of clear_memories spares; without a filter it has no WHERE.
PgCleared(rows, tool, before) ==
    {m \in rows : \/ tool \notin {NoTool, "", m.tool}
                  \/ before # NoDate /\ m.stamp >= before}

PgToolDeleted(rows, id) == {m \in rows : m.id # id \/ IsText(m)}

PgTextDeleted(rows, id) == {m \in rows : m.id # id \/ ~IsText(m)}

NewestFirst(rows, limit) ==
    LET all == SetToSortSeq(rows, LAMBDA m, n : m.stamp > n.stamp)
    IN  SubSeq(all, 1, Least(limit, Len(all)))

PgToolsRecent(rows, limit) == NewestFirst({m \in rows : ~IsText(m)}, limit)

PgTextsRecent(rows, limit) == NewestFirst({m \in rows : IsText(m)}, limit)

-----------------------------------------------------------------------------
(* The two agree, for memories saved in the order of their stamps: on what *)
(* clear leaves, unless it is given an empty tool name, on what a deletion *)
(* leaves, and on what is recent, unless the limit is 0.                   *)
RowsOfDemo(mem) == ToSet(mem.tools) \cup ToSet(mem.texts)

BackendsAgree(mem, tools, dates, ids) ==
    LET rows == RowsOfDemo(mem)
    IN  /\ \A tool \in tools \cup {NoTool}, before \in dates \cup {NoDate} :
            RowsOfDemo(DemoCleared(mem, tool, before)) = PgCleared(rows, tool, before)
        /\ \A id \in ids : /\ RowsOfDemo(DemoToolDeleted(mem, id)) = PgToolDeleted(rows, id)
                           /\ RowsOfDemo(DemoTextDeleted(mem, id)) = PgTextDeleted(rows, id)
        /\ \A limit \in 1..3 : /\ DemoRecent(mem.tools, limit) = PgToolsRecent(rows, limit)
                               /\ DemoRecent(mem.texts, limit) = PgTextsRecent(rows, limit)

(* A search of the demo store returns the best of what reaches the         *)
(* threshold, and of each kind it never holds more than its maximum.       *)
DemoSearchesWell(mem, limit, threshold) ==
    LET found == DemoToolsFound(mem, limit, threshold, NoTool)
    IN  \A m \in ToSet(mem.tools) \ ToSet(found) :
            \/ ~m.success \/ m.alike < threshold
            \/ Len(found) = limit /\ \A n \in ToSet(found) : n.alike >= m.alike
=============================================================================
