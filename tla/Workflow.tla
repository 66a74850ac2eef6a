------------------------------ MODULE Workflow ------------------------------
(***************************************************************************)
(* The default workflow handler, which sees a message before the LLM does: *)
(* its commands, and the cards that tell how the agent is set up.          *)
(* A message is its command, with the id for /delete; "other" is a message *)
(* that is none, such as /delete without an id, which the stripped message *)
(* no longer matches.                                                      *)
(***************************************************************************)
EXTENDS AgentMemory

Commands == {"help", "status", "memories", "delete", "other"}

Analysis(tools) ==
    LET sql    == tools \cap {"run_sql", "sql_query", "execute_sql", "query_sql"} # {}
        search == "search_saved_correct_tool_uses" \in tools
        save   == "save_question_tool_args" \in tools
        viz    == tools \cap {"visualize_data", "create_chart", "plot_data", "generate_chart"} # {}
    IN  [sql |-> sql, search |-> search, save |-> save, memory |-> search /\ save, viz |-> viz,
         calculator |-> tools \cap {"calculator", "calc", "calculate"} # {},
         complete |-> sql /\ search /\ save /\ viz, functional |-> sql]

-----------------------------------------------------------------------------
(* Cards *)

AdminStarter(a) ==
    [status  |-> IF ~a.sql THEN "error"
                 ELSE IF a.complete \/ a.memory THEN "success" ELSE "warning",
     actions |-> {x \in {"help", "memories"} : (x = "help" /\ a.sql) \/ (x = "memories" /\ a.memory)}]

UserStarter(a) == [status |-> IF a.sql THEN "welcome" ELSE "error", actions |-> {}]

Starter(tools, admin, custom) ==
    IF custom THEN [status |-> "welcome", actions |-> {}]
    ELSE IF admin THEN AdminStarter(Analysis(tools)) ELSE UserStarter(Analysis(tools))

StatusCards(a) ==
    [sql    |-> IF a.sql THEN "success" ELSE "error",
     memory |-> IF a.memory THEN "success" ELSE "warning",
     viz    |-> IF a.viz THEN "success" ELSE "info"]

Guidance(a) ==
    IF ~a.sql THEN {"sql"}
    ELSE {x \in {"memory", "viz"} : ~a[x]}

StatusReport(tools) ==
    LET setup == Analysis(tools)
    IN  [verdict  |-> IF setup.complete THEN "complete" ELSE IF setup.functional THEN "functional" ELSE "action",
         cards    |-> StatusCards(setup),
         guidance |-> Guidance(setup)]

-----------------------------------------------------------------------------
(* Commands *)

\* Both kinds of memory, ten of each; every card offers its deletion.
MemoryCards(mem) ==
    {[id |-> m.id, action |-> "delete"] :
        m \in ToSet(DemoRecent(mem.texts, 10)) \cup ToSet(DemoRecent(mem.tools, 10))}

MemoryDeleted(mem, id) ==
    IF DemoToolDeleted(mem, id) # mem THEN DemoToolDeleted(mem, id) ELSE DemoTextDeleted(mem, id)

\* try_handle: whether the LLM is skipped, what is answered, what the memory is.
Handled(command, id, admin, mem) ==
    LET Reply(answer, after) == [skip |-> TRUE, answer |-> answer, memory |-> after]
    IN  CASE command = "other" -> [skip |-> FALSE, answer |-> "llm", memory |-> mem]
          [] command = "help"  -> Reply("help", mem)
          [] command \in {"status", "memories", "delete"} /\ ~admin -> Reply("denied", mem)
          [] command = "status" /\ admin   -> Reply("report", mem)
          [] command = "memories" /\ admin ->
                Reply(IF MemoryCards(mem) = {} THEN "no memories" ELSE "memories", mem)
          [] command = "delete" /\ admin   ->
                Reply(IF MemoryDeleted(mem, id) = mem THEN "not found" ELSE "deleted",
                      MemoryDeleted(mem, id))

-----------------------------------------------------------------------------
(* The setup report has no guidance, and only successes on its cards, just *)
(* when it calls the setup complete; and an action a card offers is one    *)
(* the handler serves.                                                     *)
ReportIsCoherent(tools) ==
    LET report == StatusReport(tools)
        complete == report.verdict = "complete"
    IN  /\ complete <=> report.guidance = {}
        /\ complete <=> \A card \in DOMAIN report.cards : report.cards[card] = "success"
        /\ Starter(tools, TRUE, FALSE).actions \subseteq Commands

(* A memory that /memories offers to delete is gone after that, it alone,  *)
(* and nobody but an admin changes or sees the memory.                     *)
CommandsDoAsOffered(mem) ==
    /\ \A card \in MemoryCards(mem) :
        LET done == Handled(card.action, card.id, TRUE, mem)
        IN  /\ done.answer = "deleted"
            /\ RowsOfDemo(done.memory) = {m \in RowsOfDemo(mem) : m.id # card.id}
    /\ \A command \in Commands \ {"other"} :
        LET done == Handled(command, NoTool, FALSE, mem)
        IN  done.skip /\ done.memory = mem /\ done.answer \in {"help", "denied"}
=============================================================================
