-------------------------- MODULE WorkbenchProofs --------------------------
(***************************************************************************)
(* Proofs about five of the parts of Workbench, each for all values of its *)
(* constants: a connection clears embeddings needlessly only through the   *)
(* window between the release of the advisory lock and the commit; a       *)
(* message that the web client takes for sent has shown a whole turn; the  *)
(* component tree shows what its manager has; the evaluation runner's      *)
(* permits come back and its results come out once; edits that keep apart  *)
(* take effect where they are numbered.                                    *)
(***************************************************************************)
EXTENDS VectorStore, ComponentTree, WebClient, Evaluation, Files, FiniteSetTheorems,
        SequenceTheorems, WellFoundedInduction, TLAPS

-----------------------------------------------------------------------------
(* The stores with embeddings                                              *)

Place == {"idle", "ddl", "lock", "read", "migrate", "unlock", "commit", "call", "done"}

Field == {"pc", "model", "ask", "todo", "stale", "needless", "shown", "answer"}

(* The parts of the state that the argument is about have their types.     *)
VectorShape ==
    /\ column \in Model \cup {Absent}
    /\ latch \in Client \cup {Absent}
    /\ migrating \in Client \cup {Absent}
    /\ DOMAIN client = Client
    /\ \A c \in Client :
        /\ DOMAIN client[c] = Field
        /\ client[c].pc \in Place
        /\ client[c].model \in Model
        /\ client[c].stale \in BOOLEAN
        /\ client[c].needless \in BOOLEAN

(* Who reads the dimension, migrates or unlocks has the advisory lock.     *)
LatchHeld ==
    \A c \in Client : client[c].pc \in {"read", "migrate", "unlock"} => latch = c

(* An uncommitted migration is that of a connection on its way to commit.  *)
MigrationPending ==
    \A c \in Client : migrating = c => client[c].pc \in {"unlock", "commit"}

(* After its DDL a connection finds a column.                              *)
ColumnThere ==
    \A c \in Client :
        client[c].pc \in {"lock", "read", "migrate", "unlock", "commit", "call"} => column # Absent

(* A dimension that was read with no migration pending is still the one    *)
(* of the column when the migration begins.                                *)
FreshRead ==
    \A c \in Client :
        client[c].pc = "migrate" /\ ~client[c].stale =>
            migrating = Absent /\ column # client[c].model

VectorInv ==
    /\ VectorShape
    /\ LatchHeld
    /\ MigrationPending
    /\ ColumnThere
    /\ FreshRead
    /\ EmbeddingsSurvive

LEMMA VectorInitial == VectorInit => VectorInv
  <1> SUFFICES ASSUME VectorInit
               PROVE  VectorInv
    OBVIOUS
  <1> USE VectorAssumption
  <1>1. VectorShape
    BY DEF VectorInit, VectorShape, Place, Field
  <1>2. \A c \in Client : client[c].pc = "idle" /\ client[c].needless = FALSE
    BY DEF VectorInit
  <1>3. migrating = Absent
    BY DEF VectorInit
  <1> QED
    BY <1>1, <1>2, <1>3
    DEF VectorInv, LatchHeld, MigrationPending, ColumnThere, FreshRead, EmbeddingsSurvive, Row

(* The steps that change no more of a request than where it is and its     *)
(* answer.                                                                 *)
LEMMA Moved ==
    ASSUME VectorShape, NEW c \in Client, NEW pc \in Place, Goto(c, pc)
    PROVE  /\ DOMAIN client' = Client
           /\ \A d \in Client :
                /\ DOMAIN client'[d] = Field
                /\ client'[d].pc = IF d = c THEN pc ELSE client[d].pc
                /\ client'[d].model = client[d].model
                /\ client'[d].stale = client[d].stale
                /\ client'[d].needless = client[d].needless
  BY DEF VectorShape, Goto, Field

LEMMA Answered ==
    ASSUME VectorShape, NEW c \in Client, NEW answer, Answers(c, answer)
    PROVE  /\ DOMAIN client' = Client
           /\ \A d \in Client :
                /\ DOMAIN client'[d] = Field
                /\ client'[d].pc = IF d = c THEN "done" ELSE client[d].pc
                /\ client'[d].model = client[d].model
                /\ client'[d].stale = client[d].stale
                /\ client'[d].needless = client[d].needless
  BY DEF VectorShape, Answers, Field

LEMMA VectorStep == VectorInv /\ [VectorNext]_vectorVars => VectorInv'
  <1> SUFFICES ASSUME VectorInv, [VectorNext]_vectorVars
               PROVE  VectorInv'
    OBVIOUS
  <1> USE VectorAssumption
  <1> USE DEF VectorInv
  <1>a. VectorShape /\ LatchHeld /\ MigrationPending /\ ColumnThere /\ FreshRead /\ EmbeddingsSurvive
    OBVIOUS
  <1>s. "done" \in Place /\ "lock" \in Place /\ "read" \in Place /\ "commit" \in Place /\ "call" \in Place
    BY DEF Place
  <1>1. CASE UNCHANGED vectorVars
    BY <1>1 DEF vectorVars, VectorShape, LatchHeld, MigrationPending, ColumnThere, FreshRead,
                EmbeddingsSurvive
  <1>2. CASE VectorNext
    <2>1. PICK c \in Client :
            \/ Asks(c) \/ Denies(c)
            \/ Ddl(c) \/ TakesLatch(c) \/ ReadsDimension(c) \/ Migrates(c)
            \/ ReleasesLatch(c) \/ Commits(c) \/ Breaks(c)
            \/ Calls(c) \/ CallFails(c)
      BY <1>2 DEF VectorNext
    <2>c. c # Absent
      BY DEF Row
    <2>2. CASE Asks(c)
      <3>1. /\ DOMAIN client' = Client
            /\ \A d \in Client :
                /\ DOMAIN client'[d] = Field
                /\ client'[d].pc = IF d = c THEN "ddl" ELSE client[d].pc
                /\ client'[d].model = client[d].model
                /\ client'[d].stale = client[d].stale
                /\ client'[d].needless = client[d].needless
        BY <2>2, <1>a DEF Asks, VectorShape, Field
      <3> QED
        BY <3>1, <2>2, <1>a
        DEF Asks, At, VectorShape, Place, LatchHeld, MigrationPending, ColumnThere, FreshRead,
            EmbeddingsSurvive
    <2>3. CASE Denies(c) \/ CallFails(c)
      <3>1. /\ client[c].pc \in {"idle", "call"}
            /\ UNCHANGED <<column, latch, migrating>>
            /\ \E answer \in {"denied", "error"} : Answers(c, answer)
        BY <2>3 DEF Denies, CallFails, At
      <3>2. /\ DOMAIN client' = Client
            /\ \A d \in Client :
                /\ DOMAIN client'[d] = Field
                /\ client'[d].pc = IF d = c THEN "done" ELSE client[d].pc
                /\ client'[d].model = client[d].model
                /\ client'[d].stale = client[d].stale
                /\ client'[d].needless = client[d].needless
        BY <3>1, <1>a, Answered
      <3> QED
        BY <3>1, <3>2, <1>a
        DEF VectorShape, Place, LatchHeld, MigrationPending, ColumnThere, FreshRead, EmbeddingsSurvive
    <2>4. CASE Ddl(c)
      <3>1. /\ DOMAIN client' = Client
            /\ \A d \in Client :
                /\ DOMAIN client'[d] = Field
                /\ client'[d].pc = IF d = c THEN "lock" ELSE client[d].pc
                /\ client'[d].model = client[d].model
                /\ client'[d].stale = client[d].stale
                /\ client'[d].needless = client[d].needless
        BY <2>4, <1>a, <1>s, Moved DEF Ddl
      <3>2. /\ client[c].pc = "ddl" /\ UNCHANGED <<latch, migrating>>
            /\ column' = IF column = Absent THEN client[c].model ELSE column
        BY <2>4 DEF Ddl, At
      <3>3. column' \in Model /\ column' # Absent
        BY <3>2, <1>a DEF VectorShape
      <3>4. \A d \in Client : client[d].pc = "migrate" => column' = column
        BY <3>2, <1>a DEF ColumnThere
      <3> QED
        BY <3>1, <3>2, <3>3, <3>4, <1>a
        DEF VectorShape, Place, LatchHeld, MigrationPending, ColumnThere, FreshRead, EmbeddingsSurvive
    <2>5. CASE TakesLatch(c)
      <3>1. /\ DOMAIN client' = Client
            /\ \A d \in Client :
                /\ DOMAIN client'[d] = Field
                /\ client'[d].pc = IF d = c THEN "read" ELSE client[d].pc
                /\ client'[d].model = client[d].model
                /\ client'[d].stale = client[d].stale
                /\ client'[d].needless = client[d].needless
        BY <2>5, <1>a, <1>s, Moved DEF TakesLatch
      <3>2. /\ client[c].pc = "lock" /\ latch = Absent /\ latch' = c
            /\ UNCHANGED <<column, migrating>>
        BY <2>5 DEF TakesLatch, At
      <3>3. \A d \in Client : client[d].pc \notin {"read", "migrate", "unlock"}
        BY <3>2, <1>a DEF LatchHeld, Row
      <3> QED
        BY <3>1, <3>2, <3>3, <1>a
        DEF VectorShape, Place, LatchHeld, MigrationPending, ColumnThere, FreshRead, EmbeddingsSurvive
    <2>6. CASE ReadsDimension(c)
      <3>1. /\ DOMAIN client' = Client
            /\ \A d \in Client \ {c} : client'[d] = client[d]
            /\ DOMAIN client'[c] = Field
            /\ client'[c].pc = IF column = client[c].model THEN "unlock" ELSE "migrate"
            /\ client'[c].model = client[c].model
            /\ client'[c].stale = (migrating # Absent)
            /\ client'[c].needless = FALSE
        BY <2>6, <1>a DEF ReadsDimension, VectorShape, Field
      <3>2. client[c].pc = "read" /\ UNCHANGED <<column, latch, migrating>>
        BY <2>6 DEF ReadsDimension, At
      <3>3. VectorShape' /\ LatchHeld' /\ ColumnThere'
        BY <3>1, <3>2, <1>a DEF VectorShape, Place, LatchHeld, ColumnThere
      <3>4. MigrationPending'
        BY <3>1, <3>2, <1>a DEF MigrationPending
      <3>5. FreshRead' /\ EmbeddingsSurvive'
        BY <3>1, <3>2, <1>a DEF FreshRead, EmbeddingsSurvive
      <3> QED
        BY <3>3, <3>4, <3>5
    <2>7. CASE Migrates(c)
      <3>1. /\ DOMAIN client' = Client
            /\ \A d \in Client \ {c} : client'[d] = client[d]
            /\ DOMAIN client'[c] = Field
            /\ client'[c].pc = "unlock"
            /\ client'[c].model = client[c].model
            /\ client'[c].stale = client[c].stale
            /\ client'[c].needless = (column = client[c].model)
        BY <2>7, <1>a DEF Migrates, VectorShape, Field
      <3>2. /\ client[c].pc = "migrate" /\ migrating = Absent /\ migrating' = c
            /\ UNCHANGED <<column, latch>>
        BY <2>7 DEF Migrates, At
      <3>3. VectorShape' /\ LatchHeld' /\ ColumnThere' /\ MigrationPending'
        BY <3>1, <3>2, <1>a
        DEF VectorShape, Place, LatchHeld, ColumnThere, MigrationPending
      <3>4. \A d \in Client \ {c} : client[d].pc # "migrate"
        BY <3>2, <1>a DEF LatchHeld
      <3>5. FreshRead'
        BY <3>1, <3>4 DEF FreshRead
      <3>6. EmbeddingsSurvive'
        BY <3>1, <3>2, <1>a DEF FreshRead, EmbeddingsSurvive, VectorShape
      <3> QED
        BY <3>3, <3>5, <3>6
    <2>8. CASE ReleasesLatch(c)
      <3>1. /\ DOMAIN client' = Client
            /\ \A d \in Client :
                /\ DOMAIN client'[d] = Field
                /\ client'[d].pc = IF d = c THEN "commit" ELSE client[d].pc
                /\ client'[d].model = client[d].model
                /\ client'[d].stale = client[d].stale
                /\ client'[d].needless = client[d].needless
        BY <2>8, <1>a, <1>s, Moved DEF ReleasesLatch
      <3>2. client[c].pc = "unlock" /\ latch' = Absent /\ UNCHANGED <<column, migrating>>
        BY <2>8 DEF ReleasesLatch, At
      <3>3. \A d \in Client \ {c} : client[d].pc \notin {"read", "migrate", "unlock"}
        BY <3>2, <1>a DEF LatchHeld
      <3> QED
        BY <3>1, <3>2, <3>3, <1>a
        DEF VectorShape, Place, LatchHeld, MigrationPending, ColumnThere, FreshRead, EmbeddingsSurvive
    <2>9. CASE Commits(c)
      <3>1. /\ DOMAIN client' = Client
            /\ \A d \in Client :
                /\ DOMAIN client'[d] = Field
                /\ client'[d].pc = IF d = c THEN "call" ELSE client[d].pc
                /\ client'[d].model = client[d].model
                /\ client'[d].stale = client[d].stale
                /\ client'[d].needless = client[d].needless
        BY <2>9, <1>a, <1>s, Moved DEF Commits
      <3>2. CASE migrating = c
        <4>1. column' = client[c].model /\ migrating' = Absent /\ latch' = latch /\ client[c].pc = "commit"
          BY <3>2, <2>9 DEF Commits, At
        <4>2. column' \in Model /\ column' # Absent
          BY <4>1, <1>a DEF VectorShape
        <4>3. FreshRead'
          BY <3>1, <3>2, <4>1, <2>c, <1>a DEF FreshRead
        <4>4. MigrationPending'
          BY <4>1 DEF MigrationPending, Row
        <4> QED
          BY <3>1, <4>1, <4>2, <4>3, <4>4, <1>a
          DEF VectorShape, Place, LatchHeld, ColumnThere, EmbeddingsSurvive
      <3>3. CASE migrating # c
        <4>1. UNCHANGED <<column, latch, migrating>> /\ client[c].pc = "commit"
          BY <3>3, <2>9 DEF Commits, At
        <4> QED
          BY <3>1, <3>3, <4>1, <1>a
          DEF VectorShape, Place, LatchHeld, MigrationPending, ColumnThere, FreshRead,
              EmbeddingsSurvive
      <3> QED
        BY <3>2, <3>3
    <2>10. CASE Breaks(c)
      <3>1. /\ DOMAIN client' = Client
            /\ \A d \in Client :
                /\ DOMAIN client'[d] = Field
                /\ client'[d].pc = IF d = c THEN "done" ELSE client[d].pc
                /\ client'[d].model = client[d].model
                /\ client'[d].stale = client[d].stale
                /\ client'[d].needless = client[d].needless
        BY <2>10, <1>a, Answered DEF Breaks
      <3>2. /\ latch' = IF latch = c THEN Absent ELSE latch
            /\ migrating' = IF migrating = c THEN Absent ELSE migrating
            /\ column' = column
        BY <2>10 DEF Breaks
      <3>3. VectorShape' /\ ColumnThere' /\ EmbeddingsSurvive'
        BY <3>1, <3>2, <1>a DEF VectorShape, Place, ColumnThere, EmbeddingsSurvive
      <3>4. LatchHeld' /\ MigrationPending'
        BY <3>1, <3>2, <1>a DEF LatchHeld, MigrationPending, Row
      <3>5. FreshRead'
        BY <3>1, <3>2, <1>a DEF FreshRead
      <3> QED
        BY <3>3, <3>4, <3>5
    <2>11. CASE Calls(c)
      <3>1. PICK rest, told, answer :
              client' = [client EXCEPT ![c].pc = IF rest = <<>> THEN "done" ELSE "ddl",
                                       ![c].todo = rest, ![c].shown = told, ![c].answer = answer]
        BY <2>11 DEF Calls
      <3>2. /\ DOMAIN client' = Client
            /\ \A d \in Client :
                /\ DOMAIN client'[d] = Field
                /\ client'[d].pc = IF d = c THEN (IF rest = <<>> THEN "done" ELSE "ddl") ELSE client[d].pc
                /\ client'[d].model = client[d].model
                /\ client'[d].stale = client[d].stale
                /\ client'[d].needless = client[d].needless
        BY <3>1, <1>a DEF VectorShape, Field
      <3>3. client[c].pc = "call" /\ UNCHANGED <<column, latch, migrating>>
        BY <2>11 DEF Calls, At
      <3> QED
        BY <3>2, <3>3, <1>a
        DEF VectorShape, Place, LatchHeld, MigrationPending, ColumnThere, FreshRead, EmbeddingsSurvive
    <2> QED
      BY <2>1, <2>2, <2>3, <2>4, <2>5, <2>6, <2>7, <2>8, <2>9, <2>10, <2>11
  <1> QED
    BY <1>1, <1>2

-----------------------------------------------------------------------------
(* The strengthening holds in every reachable state, for all clients and   *)
(* models.                                                                 *)
THEOREM VectorInvariant == VectorSpec => []VectorInv
  <1>1. VectorInit => VectorInv
    BY VectorInitial
  <1>2. VectorInv /\ [VectorNext]_vectorVars => VectorInv'
    BY VectorStep
  <1> QED
    BY <1>1, <1>2, PTL DEF VectorSpec

(* No store call clears the embeddings of a column that has its model's    *)
(* dimension, unless it read the dimension in the window that _ensure_table *)
(* leaves between the unlock and the commit.                               *)
THEOREM EmbeddingsSurviveAlways == VectorSpec => []EmbeddingsSurvive
  <1>1. VectorInv => EmbeddingsSurvive
    BY DEF VectorInv
  <1> QED
    BY <1>1, VectorInvariant, PTL

-----------------------------------------------------------------------------
(* The web client                                                          *)

Piece == [run : Nat, place : Nat, sets : Chunk]

Frame == [type : {"chunk"}, chunk : Piece] \cup [type : {"[DONE]", "error"}]

WebShape ==
    /\ sending \in {"none", "fetch", "stream", "poll", "sent", "failed"}
    /\ runs \in Nat
    /\ turn \in [script : Seq(Chunk), sent : Nat, at : {"runs", "ended", "gone"}]
    /\ wire \in Seq(Frame)
    /\ shown \in Seq(Piece)
    /\ swallowed \in BOOLEAN

Unread == turn.sent - Len(shown)

\* Of the first n chunks of a script, the i-th is the last to set the bar.
SetsLast(script, i, n) ==
    script[i] # "content" /\ \A j \in 1..n : j > i => script[j] = "content"

(* What was shown of the streamed turn and what is on the wire make up     *)
(* what was sent of it, and the bar is as the turn's chunks left it.       *)
StreamInOrder ==
    /\ turn.at \in {"runs", "ended"} /\ turn.script \in Turns
    /\ turn.sent <= Len(turn.script)
    /\ Len(shown) <= turn.sent
    /\ \A i \in 1..Len(shown) : shown[i] = ChunkOf(runs, turn.script, i)
    /\ Len(wire) >= Unread
    /\ \A i \in 1..Unread :
          wire[i] = [type |-> "chunk", chunk |-> ChunkOf(runs, turn.script, Len(shown) + i)]
    /\ \A i \in 1..Len(shown) : SetsLast(turn.script, i, Len(shown)) => status = turn.script[i]

(* The last frame is the end of the turn, or an error.                     *)
StreamIsClosed ==
    /\ turn.at = "runs" => Len(wire) = Unread
    /\ turn.at = "ended" =>
         \/ swallowed /\ wire = <<>>
         \/ /\ Len(wire) = Unread + 1
            /\ \/ wire[Len(wire)].type = "error"
               \/ wire[Len(wire)].type = "[DONE]" /\ turn.sent = Len(turn.script)

WebInv ==
    /\ WebShape
    /\ sending = "stream" => StreamInOrder /\ StreamIsClosed
    /\ sending # "stream" => turn.at # "runs"
    /\ sending = "fetch" => shown = <<>> /\ wire = <<>>
    /\ WholeTurnShown

LEMMA NoTurnTyped ==
    NoTurn \in [script : Seq(Chunk), sent : Nat, at : {"runs", "ended", "gone"}] /\ NoTurn.at = "gone"
  <1>1. <<>> \in Seq(Chunk)
    OBVIOUS
  <1> QED
    BY <1>1 DEF NoTurn

LEMMA WebInitial == WebInit => WebInv
  <1> SUFFICES ASSUME WebInit
               PROVE  WebInv
    OBVIOUS
  <1>1. <<>> \in Seq(Frame) /\ <<>> \in Seq(Piece)
    OBVIOUS
  <1>2. WebShape
    BY <1>1, NoTurnTyped DEF WebInit, WebShape
  <1> QED
    BY <1>2, NoTurnTyped DEF WebInit, WebInv, WholeTurnShown

(* A turn closes: one of its chunks is the last to set the bar, and sets   *)
(* it to something else than working.                                      *)
LEMMA TurnsClose ==
    ASSUME NEW script \in Turns
    PROVE  /\ script \in Seq(Chunk)
           /\ \E i \in 1..Len(script) :
                SetsLast(script, i, Len(script)) /\ script[i] # "working"
  <1>1. PICK body \in Bodies, closing \in Closing : script = body \o closing
    BY DEF Turns
  <1>2. body \in Seq(Chunk) /\ Len(body) \in Nat
    BY BodiesAssumption
  <1>3. \A s \in Bar \cup {"content"} : s \in Chunk
    BY DEF Chunk
  <1>4. /\ closing \in Seq(Chunk)
        /\ \E p \in {1, 2} :
             /\ p <= Len(closing) /\ closing[p] \notin {"content", "working"}
             /\ \A j \in 1..Len(closing) : j > p => closing[j] = "content"
    <2>1. CASE closing = <<"idle", "content">>
      <3>1. Len(closing) = 2 /\ closing[1] = "idle" /\ closing[2] = "content" /\ closing \in Seq(Chunk)
        BY <1>3, <2>1 DEF Bar
      <3> QED
        BY <3>1
    <2>2. CASE closing = <<"idle", "content", "content">>
      <3>1. /\ Len(closing) = 3 /\ closing[1] = "idle" /\ closing[2] = "content"
            /\ closing[3] = "content" /\ closing \in Seq(Chunk)
        BY <1>3, <2>2 DEF Bar
      <3> QED
        BY <3>1
    <2>3. CASE closing = <<"warning", "content", "content">>
      <3>1. /\ Len(closing) = 3 /\ closing[1] = "warning" /\ closing[2] = "content"
            /\ closing[3] = "content" /\ closing \in Seq(Chunk)
        BY <1>3, <2>3 DEF Bar
      <3> QED
        BY <3>1
    <2>4. CASE closing = <<"content", "error", "content">>
      <3>1. /\ Len(closing) = 3 /\ closing[2] = "error" /\ closing[3] = "content"
            /\ closing \in Seq(Chunk)
        BY <1>3, <2>4 DEF Bar
      <3> QED
        BY <3>1
    <2> QED
      BY <1>1, <2>1, <2>2, <2>3, <2>4 DEF Closing
  <1>5. PICK p \in {1, 2} :
          /\ p <= Len(closing) /\ closing[p] \notin {"content", "working"}
          /\ \A j \in 1..Len(closing) : j > p => closing[j] = "content"
    BY <1>4
  <1>6. /\ script \in Seq(Chunk) /\ Len(script) = Len(body) + Len(closing) /\ Len(closing) \in Nat
        /\ \A j \in 1..Len(closing) : script[Len(body) + j] = closing[j]
    BY <1>1, <1>2, <1>4
  <1> DEFINE i == Len(body) + p
  <1>7. i \in 1..Len(script) /\ script[i] = closing[p]
    BY <1>2, <1>5, <1>6
  <1>8. ASSUME NEW j \in 1..Len(script), j > i PROVE script[j] = "content"
    <2>1. j - Len(body) \in 1..Len(closing) /\ j - Len(body) > p /\ Len(body) + (j - Len(body)) = j
      BY <1>2, <1>5, <1>6, <1>8
    <2> QED
      BY <1>5, <1>6, <2>1
  <1> QED
    BY <1>5, <1>6, <1>7, <1>8 DEF SetsLast

(* What settles the bar is the chunk that sets it last.                    *)
LEMMA LastSettles ==
    ASSUME NEW script \in Seq(Chunk), NEW s, NEW i \in 1..Len(script),
           SetsLast(script, i, Len(script))
    PROVE  Settles(script, s) <=> s = script[i]
  <1>1. DOMAIN script = 1..Len(script) /\ Len(script) \in Nat
    OBVIOUS
  <1>2. ASSUME s = script[i] PROVE Settles(script, s)
    BY <1>1, <1>2 DEF Settles, SetsLast
  <1>3. ASSUME Settles(script, s) PROVE s = script[i]
    <2>1. PICK k \in 1..Len(script) :
            /\ script[k] = s /\ s # "content"
            /\ \A j \in 1..Len(script) : j > k => script[j] = "content"
      BY <1>1, <1>3 DEF Settles
    <2>2. ~(k > i) /\ ~(i > k)
      BY <2>1 DEF SetsLast
    <2>3. k = i
      BY <1>1, <2>2
    <2> QED
      BY <2>1, <2>3
  <1> QED
    BY <1>2, <1>3

LEMMA TurnTyped ==
    ASSUME NEW script \in Seq(Chunk), NEW run \in Nat
    PROVE  /\ TurnOf(run, script) \in Seq(Piece)
           /\ Len(TurnOf(run, script)) = Len(script)
           /\ \A k \in 1..Len(script) : TurnOf(run, script)[k] = ChunkOf(run, script, k)
  <1>1. \A k \in 1..Len(script) : ChunkOf(run, script, k) \in Piece
    BY DEF ChunkOf, Piece
  <1>2. Len(script) \in Nat
    OBVIOUS
  <1> QED
    BY <1>1, <1>2 DEF TurnOf

(* The chunks of one turn, once shown, are a whole turn at the end.        *)
LEMMA TurnAtEnd ==
    ASSUME NEW before \in Seq(Piece), NEW run \in Nat, NEW script \in Seq(Chunk)
    PROVE  LET all == before \o TurnOf(run, script)
           IN  /\ all \in Seq(Piece)
               /\ Len(all) = Len(before) + Len(script)
               /\ SubSeq(all, Len(all) - Len(script) + 1, Len(all)) = TurnOf(run, script)
  <1> DEFINE t == TurnOf(run, script)
             all == before \o t
             n == Len(script)
  <1>1. t \in Seq(Piece) /\ Len(t) = n /\ n \in Nat /\ t = [i \in 1..n |-> t[i]]
    BY TurnTyped DEF TurnOf
  <1> HIDE DEF t, n
  <1>2. /\ all \in Seq(Piece) /\ Len(all) = Len(before) + n
        /\ \A i \in 1..n : all[Len(before) + i] = t[i]
    BY <1>1
  <1> HIDE DEF all
  <1>3. SubSeq(all, Len(before) + 1, Len(before) + n) = [i \in 1..n |-> all[Len(before) + i]]
    BY <1>1, <1>2
  <1>4. SubSeq(all, Len(before) + 1, Len(before) + n) = t
    BY <1>1, <1>2, <1>3
  <1>5. Len(all) - n + 1 = Len(before) + 1
    BY <1>1, <1>2
  <1> QED
    BY <1>2, <1>4, <1>5 DEF all, t, n

(* One chunk sets the bar or leaves it.                                    *)
LEMMA ProcessOne ==
    ASSUME NEW chunk \in Piece, Process(<<chunk>>)
    PROVE  /\ shown' = shown \o <<chunk>>
           /\ status' = IF chunk.sets = "content" THEN status ELSE chunk.sets
  <1> DEFINE chunks == <<chunk>>
             sets == [i \in DOMAIN chunks |-> chunks[i].sets]
  <1>1. DOMAIN sets = {1} /\ sets[1] = chunk.sets
    OBVIOUS
  <1>2. /\ shown' = shown \o chunks
        /\ \/ (\A i \in DOMAIN sets : sets[i] = "content") /\ status' = status
           \/ status' \in {s \in Bar : Settles(sets, s)}
    BY DEF Process
  <1> HIDE DEF sets
  <1>3. ASSUME NEW s, Settles(sets, s) PROVE s = chunk.sets /\ s # "content"
    BY <1>1, <1>3 DEF Settles
  <1> QED
    BY <1>1, <1>2, <1>3

(* A whole turn settles the bar.                                           *)
LEMMA ProcessTurn ==
    ASSUME NEW script \in Turns, NEW run \in Nat, Process(TurnOf(run, script))
    PROVE  /\ shown' = shown \o TurnOf(run, script)
           /\ Settles(script, status') /\ status' # "working"
  <1>1. PICK last \in 1..Len(script) :
          SetsLast(script, last, Len(script)) /\ script[last] # "working"
    BY TurnsClose
  <1>2. script \in Seq(Chunk) /\ Len(script) \in Nat
    BY TurnsClose
  <1> DEFINE chunks == TurnOf(run, script)
             sets == [i \in DOMAIN chunks |-> chunks[i].sets]
  <1>3. Process(chunks)
    OBVIOUS
  <1>4. /\ DOMAIN chunks = 1..Len(script)
        /\ \A k \in 1..Len(script) : chunks[k] = ChunkOf(run, script, k)
    BY <1>2, TurnTyped
  <1> HIDE DEF chunks
  <1>5. sets = script
    <2>1. \A k \in 1..Len(script) : chunks[k].sets = script[k]
      BY <1>4 DEF ChunkOf
    <2>2. script = [k \in 1..Len(script) |-> script[k]]
      BY <1>2
    <2> QED
      BY <1>4, <2>1, <2>2
  <1>6. /\ shown' = shown \o chunks
        /\ \/ (\A i \in DOMAIN sets : sets[i] = "content") /\ status' = status
           \/ status' \in {s \in Bar : Settles(sets, s)}
    BY <1>3 DEF Process
  <1> HIDE DEF sets
  <1>7. script[last] # "content" /\ last \in DOMAIN script
    BY <1>1, <1>2 DEF SetsLast
  <1>8. Settles(script, status')
    BY <1>5, <1>6, <1>7
  <1>9. status' = script[last]
    BY <1>1, <1>2, <1>8, LastSettles
  <1> QED
    BY <1>1, <1>6, <1>8, <1>9 DEF chunks

LEMMA WebSends ==
    ASSUME WebInv, SendsChunk \/ SendsDone \/ SendsError
    PROVE  WebInv'
  <1> DEFINE script == turn.script
             all == Len(script)
  <1>1. turn.at = "runs" /\ sending = "stream" /\ WebShape /\ StreamInOrder /\ Len(wire) = Unread
    BY DEF WebInv, SendsChunk, SendsDone, SendsError, StreamIsClosed
  <1>2. /\ script \in Seq(Chunk) /\ all \in Nat /\ turn.sent \in Nat /\ turn.sent <= all
        /\ runs \in Nat /\ Len(shown) \in Nat /\ Len(wire) \in Nat
    BY <1>1 DEF WebShape, StreamInOrder
  <1>3. PICK frame \in Frame :
          /\ Emits(frame)
          /\ \/ /\ turn.sent < all
                /\ frame = [type |-> "chunk", chunk |-> ChunkOf(runs, script, turn.sent + 1)]
                /\ turn' = [turn EXCEPT !.sent = @ + 1]
             \/ /\ frame.type = "error" \/ (frame.type = "[DONE]" /\ turn.sent = all)
                /\ turn' = [turn EXCEPT !.at = "ended"]
    <2>1. CASE SendsChunk
      <3>1. turn.sent < all /\ turn.sent + 1 \in 1..all
        BY <1>2, <2>1 DEF SendsChunk
      <3>2. ChunkOf(runs, script, turn.sent + 1) \in Piece
        BY <1>2, <3>1 DEF ChunkOf, Piece
      <3>3. [type |-> "chunk", chunk |-> ChunkOf(runs, script, turn.sent + 1)] \in Frame
        BY <3>2 DEF Frame
      <3> QED
        BY <2>1, <3>1, <3>3 DEF SendsChunk
    <2>2. CASE SendsDone
      <3>1. [type |-> "[DONE]"] \in Frame
        BY DEF Frame
      <3> QED
        BY <2>2, <3>1 DEF SendsDone
    <2>3. CASE SendsError
      <3>1. [type |-> "error"] \in Frame
        BY DEF Frame
      <3> QED
        BY <2>3, <3>1 DEF SendsError
    <2> QED
      BY <2>1, <2>2, <2>3
  <1>4. wire' = Append(wire, frame) /\ UNCHANGED <<sending, runs, shown, status, mine, swallowed>>
    BY <1>3 DEF Emits
  <1>5. /\ wire' \in Seq(Frame) /\ Len(wire') = Len(wire) + 1
        /\ wire'[Len(wire) + 1] = frame
        /\ \A i \in 1..Len(wire) : wire'[i] = wire[i]
    BY <1>1, <1>4 DEF WebShape
  <1>6. turn'.script = script /\ turn'.sent \in Nat /\ WebShape'
    <2>1. /\ turn' \in [script : Seq(Chunk), sent : Nat, at : {"runs", "ended", "gone"}]
          /\ turn'.script = script
      BY <1>1, <1>3 DEF WebShape
    <2> QED
      BY <1>1, <1>4, <1>5, <2>1 DEF WebShape
  <1>7. CASE turn' = [turn EXCEPT !.sent = @ + 1] /\ frame.type = "chunk"
    <2>1. /\ turn'.sent = turn.sent + 1 /\ turn'.at = "runs" /\ turn.sent < all
          /\ frame = [type |-> "chunk", chunk |-> ChunkOf(runs, script, turn.sent + 1)]
      BY <1>1, <1>3, <1>7 DEF WebShape, Frame
    <2>2. Unread' = Unread + 1 /\ Unread \in Nat
      BY <1>1, <1>2, <1>4, <2>1 DEF Unread, StreamInOrder
    <2>3. \A i \in 1..Unread' :
            wire'[i] = [type |-> "chunk", chunk |-> ChunkOf(runs, script, Len(shown) + i)]
      <3> TAKE i \in 1..Unread'
      <3>1. CASE i \in 1..Unread
        BY <1>1, <1>5, <3>1 DEF StreamInOrder
      <3>2. CASE i = Unread + 1
        <4>1. i = Len(wire) + 1 /\ Len(shown) + i = turn.sent + 1
          BY <1>1, <1>2, <3>2 DEF Unread
        <4> QED
          BY <1>5, <2>1, <4>1
      <3> QED
        BY <2>2, <3>1, <3>2
    <2>4. StreamInOrder'
      <3>1. /\ turn'.sent <= Len(turn'.script) /\ Len(shown') <= turn'.sent /\ Len(wire') >= Unread'
        BY <1>1, <1>2, <1>4, <1>5, <1>6, <2>1, <2>2 DEF StreamInOrder
      <3> QED
        BY <1>1, <1>4, <1>6, <2>1, <2>3, <3>1 DEF StreamInOrder
    <2>5. StreamIsClosed'
      BY <1>1, <1>5, <2>1, <2>2 DEF StreamIsClosed
    <2> QED
      BY <1>1, <1>4, <1>6, <2>4, <2>5 DEF WebInv, WholeTurnShown
  <1>8. CASE turn' = [turn EXCEPT !.at = "ended"] /\ frame.type # "chunk"
    <2>1. turn'.sent = turn.sent /\ turn'.at = "ended"
      BY <1>1, <1>8 DEF WebShape
    <2>2. Unread' = Unread /\ Unread = Len(wire)
      BY <1>1, <1>4, <2>1 DEF Unread
    <2>3. \A i \in 1..Unread' :
            wire'[i] = [type |-> "chunk", chunk |-> ChunkOf(runs, script, Len(shown) + i)]
      BY <1>1, <1>5, <2>2 DEF StreamInOrder
    <2>4. StreamInOrder'
      <3>1. Len(wire') >= Unread'
        BY <1>2, <1>5, <2>2
      <3> QED
        BY <1>1, <1>4, <1>6, <2>1, <2>3, <3>1 DEF StreamInOrder
    <2>5. StreamIsClosed'
      <3>1. frame.type = "error" \/ (frame.type = "[DONE]" /\ turn.sent = all)
        BY <1>3, <1>8
      <3> QED
        BY <1>5, <1>6, <2>1, <2>2, <3>1 DEF StreamIsClosed
    <2> QED
      BY <1>1, <1>4, <1>6, <2>4, <2>5 DEF WebInv, WholeTurnShown
  <1> QED
    BY <1>3, <1>7, <1>8

LEMMA WebReads ==
    ASSUME WebInv, Reads
    PROVE  WebInv'
  <1> DEFINE script == turn.script
             all == Len(script)
             n == Len(shown)
  <1>1. /\ sending = "stream" /\ wire # <<>> /\ wire' = Tail(wire) /\ UNCHANGED <<runs, turn>>
        /\ sending' = IF Head(wire).type = "[DONE]" THEN "sent" ELSE "stream"
        /\ swallowed' = (swallowed \/ Head(wire).type = "error")
    BY DEF Reads
  <1>2. WebShape /\ StreamInOrder /\ StreamIsClosed
    BY <1>1 DEF WebInv
  <1>3. /\ wire' \in Seq(Frame) /\ Len(wire) \in Nat \ {0} /\ Len(wire') = Len(wire) - 1
        /\ \A i \in 1..Len(wire') : wire'[i] = wire[i + 1]
        /\ Head(wire) = wire[1]
    BY <1>1, <1>2 DEF WebShape
  <1>4. /\ n \in Nat /\ turn.sent \in Nat /\ runs \in Nat /\ Unread \in Nat
        /\ script \in Turns /\ script \in Seq(Chunk) /\ all \in Nat /\ turn.sent <= all
    BY <1>2 DEF WebShape, StreamInOrder, Unread
  <1>5. swallowed' \in BOOLEAN
    BY <1>1
  <1>6. CASE Unread > 0
    <2> DEFINE chunk == ChunkOf(runs, script, n + 1)
    <2>1. wire[1] = [type |-> "chunk", chunk |-> chunk]
      <3>1. 1 \in 1..Unread
        BY <1>4, <1>6
      <3> QED
        BY <1>2, <3>1 DEF StreamInOrder
    <2>2. n + 1 \in 1..all
      BY <1>4, <1>6 DEF Unread
    <2>3. chunk \in Piece /\ chunk.sets = script[n + 1]
      BY <1>4, <2>2 DEF ChunkOf, Piece
    <2>4. /\ shown' = shown \o <<chunk>>
          /\ status' = IF script[n + 1] = "content" THEN status ELSE script[n + 1]
          /\ sending' = "stream" /\ swallowed' = swallowed
      <3>1. wire[1].type = "chunk" /\ Process(<<chunk>>)
        BY <1>3, <2>1 DEF Reads
      <3>2. swallowed' = swallowed
        BY <1>1, <1>2, <1>3, <3>1 DEF WebShape
      <3> HIDE DEF chunk
      <3> QED
        BY <1>1, <1>3, <2>3, <3>1, <3>2, ProcessOne
    <2>5. /\ shown' \in Seq(Piece) /\ Len(shown') = n + 1
          /\ shown'[n + 1] = chunk
          /\ \A i \in 1..n : shown'[i] = shown[i]
      <3> HIDE DEF chunk
      <3> QED
        BY <1>2, <1>4, <2>3, <2>4 DEF WebShape
    <2>6. WebShape'
      BY <1>1, <1>2, <1>3, <1>5, <2>4, <2>5 DEF WebShape
    <2>7. Unread' = Unread - 1
      BY <1>1, <1>4, <2>5 DEF Unread
    <2>8. \A i \in 1..Len(shown') : shown'[i] = ChunkOf(runs, script, i)
      <3> TAKE i \in 1..Len(shown')
      <3>1. i \in 1..n \/ i = n + 1
        BY <1>4, <2>5
      <3> QED
        BY <1>2, <2>5, <3>1 DEF StreamInOrder
    <2>9. \A i \in 1..Unread' :
            wire'[i] = [type |-> "chunk", chunk |-> ChunkOf(runs, script, Len(shown') + i)]
      <3> TAKE i \in 1..Unread'
      <3>1. i + 1 \in 1..Unread /\ i \in 1..Len(wire') /\ n + (i + 1) = Len(shown') + i
        BY <1>2, <1>3, <1>4, <2>5, <2>7 DEF StreamInOrder
      <3> QED
        BY <1>2, <1>3, <3>1 DEF StreamInOrder
    <2>10. \A i \in 1..Len(shown') : SetsLast(script, i, Len(shown')) => status' = script[i]
      <3> SUFFICES ASSUME NEW i \in 1..(n + 1), SetsLast(script, i, n + 1)
                   PROVE  status' = script[i]
        BY <2>5
      <3>1. CASE i = n + 1
        BY <2>4, <3>1 DEF SetsLast
      <3>2. CASE i \in 1..n
        <4>1. script[n + 1] = "content" /\ SetsLast(script, i, n)
          BY <1>4, <3>2 DEF SetsLast
        <4> QED
          BY <1>2, <2>4, <3>2, <4>1 DEF StreamInOrder
      <3> QED
        BY <1>4, <3>1, <3>2
    <2>11. StreamInOrder'
      <3>1. /\ turn.at \in {"runs", "ended"} /\ Len(wire) >= Unread
        BY <1>2 DEF StreamInOrder
      <3>2. Len(shown') <= turn.sent
        BY <1>4, <1>6, <2>5 DEF Unread
      <3>3. Len(wire') >= Unread'
        BY <1>3, <1>4, <2>7, <3>1
      <3> QED
        BY <1>1, <1>4, <2>8, <2>9, <2>10, <3>1, <3>2, <3>3 DEF StreamInOrder
    <2>12. StreamIsClosed'
      <3>1. turn.at = "runs" => Len(wire') = Unread'
        BY <1>2, <1>3, <1>4, <2>7 DEF StreamIsClosed
      <3>2. CASE turn.at = "ended" /\ swallowed /\ wire = <<>>
        BY <1>1, <3>2
      <3>3. CASE turn.at = "ended" /\ Len(wire) = Unread + 1
        <4>1. /\ Len(wire') = Unread' + 1 /\ Len(wire') \in 1..Len(wire') /\ Len(wire') + 1 = Len(wire)
          BY <1>3, <1>4, <1>6, <2>7, <3>3
        <4>2. wire'[Len(wire')] = wire[Len(wire)]
          BY <1>3, <4>1
        <4> QED
          BY <1>1, <1>2, <1>3, <3>3, <4>1, <4>2 DEF StreamIsClosed
      <3> QED
        BY <1>1, <1>2, <3>1, <3>2, <3>3 DEF StreamInOrder, StreamIsClosed
    <2> QED
      BY <1>1, <2>4, <2>6, <2>11, <2>12 DEF WebInv, WholeTurnShown
  <1>7. CASE Unread = 0
    <2>1. /\ turn.at = "ended" /\ Len(wire) = 1
          /\ wire[1].type = "error" \/ (wire[1].type = "[DONE]" /\ turn.sent = all)
      BY <1>1, <1>2, <1>3, <1>7 DEF StreamInOrder, StreamIsClosed
    <2>2. UNCHANGED <<shown, status>> /\ wire' = <<>>
      BY <1>1, <1>2, <1>3, <2>1 DEF Reads, WebShape
    <2>3. WebShape'
      BY <1>1, <1>2, <1>3, <1>5, <2>2 DEF WebShape
    <2>4. CASE wire[1].type = "error"
      <3>1. sending' = "stream" /\ swallowed'
        BY <1>1, <1>3, <2>4
      <3>2. Unread' = 0
        BY <1>1, <1>7, <2>2 DEF Unread
      <3>3. StreamInOrder'
        BY <1>1, <1>2, <2>2, <3>2 DEF StreamInOrder
      <3>4. StreamIsClosed'
        BY <1>1, <2>1, <2>2, <3>1 DEF StreamIsClosed
      <3> QED
        BY <2>3, <3>1, <3>3, <3>4 DEF WebInv, WholeTurnShown
    <2>5. CASE wire[1].type = "[DONE]" /\ turn.sent = all
      <3>1. sending' = "sent" /\ n = all
        BY <1>1, <1>3, <1>4, <1>7, <2>5 DEF Unread
      <3>2. PICK last \in 1..all : SetsLast(script, last, all) /\ script[last] # "working"
        BY <1>4, TurnsClose
      <3>3. status = script[last]
        BY <1>2, <3>1, <3>2 DEF StreamInOrder
      <3>4. Settles(script, status)
        BY <1>4, <3>2, <3>3, LastSettles
      <3>5. SubSeq(shown, 1, all) = TurnOf(runs, script)
        <4>1. shown \in Seq(Piece)
          BY <1>2 DEF WebShape
        <4>2. SubSeq(shown, 1, all) = [i \in 1..all |-> shown[i]]
          BY <1>4, <3>1, <4>1
        <4>3. \A i \in 1..all : shown[i] = ChunkOf(runs, script, i)
          BY <1>2, <3>1 DEF StreamInOrder
        <4> QED
          BY <4>2, <4>3 DEF TurnOf
      <3>6. WholeTurnShown'
        <4>1. all <= n /\ n - all + 1 = 1
          BY <1>4, <3>1
        <4>2. /\ shown' = shown /\ status' = status /\ runs' = runs /\ turn'.script = script
          BY <1>1, <2>2
        <4>3. SubSeq(shown', Len(shown') - Len(turn'.script) + 1, Len(shown')) = TurnOf(runs', turn'.script)
          BY <3>1, <3>5, <4>1, <4>2
        <4>4. Settles(turn'.script, status') /\ status' # "working"
          BY <3>2, <3>3, <3>4, <4>2
        <4> QED
          BY <4>1, <4>2, <4>3, <4>4 DEF WholeTurnShown, EndsWithTurn
      <3> QED
        BY <1>1, <2>1, <2>3, <3>1, <3>6 DEF WebInv
    <2> QED
      BY <2>1, <2>4, <2>5
  <1> QED
    BY <1>4, <1>6, <1>7

LEMMA WebPolls ==
    ASSUME WebInv, Polls
    PROVE  WebInv'
  <1>1. PICK script \in Turns :
          turn' = [script |-> script, sent |-> Len(script), at |-> "ended"]
          /\ Process(TurnOf(runs + 1, script))
    BY DEF Polls, WholeAnswer
  <1>2. /\ sending = "poll" /\ sending' = "sent" /\ runs' = runs + 1
        /\ UNCHANGED <<wire, mine, swallowed>>
    BY DEF Polls
  <1>3. WebShape /\ runs + 1 \in Nat /\ shown \in Seq(Piece)
    BY DEF WebInv, WebShape
  <1>4. script \in Seq(Chunk) /\ Len(script) \in Nat
    BY TurnsClose
  <1>5. /\ shown' = shown \o TurnOf(runs + 1, script)
        /\ Settles(script, status') /\ status' # "working"
    BY <1>1, <1>3, ProcessTurn
  <1>6. /\ shown' \in Seq(Piece)
        /\ Len(shown') = Len(shown) + Len(script)
        /\ SubSeq(shown', Len(shown') - Len(script) + 1, Len(shown')) = TurnOf(runs + 1, script)
    BY <1>3, <1>4, <1>5, TurnAtEnd
  <1>7. WebShape'
    BY <1>1, <1>2, <1>3, <1>4, <1>6 DEF WebShape
  <1>8. WholeTurnShown'
    <2>1. Len(script) <= Len(shown') /\ turn'.script = script
      BY <1>1, <1>3, <1>4, <1>6
    <2> QED
      BY <1>2, <1>5, <1>6, <2>1 DEF WholeTurnShown, EndsWithTurn
  <1> QED
    BY <1>1, <1>2, <1>7, <1>8 DEF WebInv

(* When nothing is on the wire any more, what was sent is shown.           *)
LEMMA AllSentShown ==
    ASSUME WebShape, StreamInOrder, wire = <<>>
    PROVE  ShowsSent
  <1> DEFINE script == turn.script
             all == TurnOf(runs, script)
  <1>1. /\ script \in Turns /\ runs \in Nat /\ turn.sent \in Nat /\ shown \in Seq(Piece)
        /\ Len(shown) \in Nat /\ turn.sent <= Len(script)
    BY DEF WebShape, StreamInOrder
  <1>2. Len(shown) = turn.sent
    BY <1>1 DEF StreamInOrder, Unread
  <1>3. script \in Seq(Chunk) /\ Len(script) \in Nat
    BY <1>1, TurnsClose
  <1>4. /\ all \in Seq(Piece) /\ Len(all) = Len(script)
        /\ \A i \in 1..Len(script) : all[i] = ChunkOf(runs, script, i)
    BY <1>1, <1>3, TurnTyped
  <1>5. \A i \in 1..turn.sent : shown[i] = all[i]
    BY <1>1, <1>2, <1>3, <1>4 DEF StreamInOrder
  <1> HIDE DEF all
  <1>6. /\ SubSeq(all, 1, turn.sent) \in Seq(Piece) /\ Len(SubSeq(all, 1, turn.sent)) = turn.sent
        /\ \A i \in 1..turn.sent : SubSeq(all, 1, turn.sent)[i] = all[i]
    BY <1>1, <1>3, <1>4
  <1>7. shown = SubSeq(all, 1, turn.sent)
    BY <1>1, <1>2, <1>5, <1>6
  <1> QED
    BY <1>7 DEF ShowsSent, all

LEMMA WebStep == WebInv /\ [WebNext]_webVars => WebInv'
  <1> SUFFICES ASSUME WebInv, [WebNext]_webVars
               PROVE  WebInv'
    OBVIOUS
  <1>1. CASE UNCHANGED webVars
    BY <1>1 DEF webVars, WebInv, WebShape, StreamInOrder, StreamIsClosed, Unread, WholeTurnShown,
       EndsWithTurn, ShowsSent
  <1>2. CASE Accepts
    <2>1. /\ sending = "fetch" /\ sending' = "stream" /\ runs' = runs + 1
          /\ UNCHANGED <<wire, shown, status, mine, swallowed>>
          /\ shown = <<>> /\ wire = <<>>
      BY <1>2 DEF Accepts, WebInv
    <2>2. PICK script \in Turns : turn' = [script |-> script, sent |-> 0, at |-> "runs"]
      BY <1>2 DEF Accepts
    <2>3. script \in Seq(Chunk) /\ Len(script) \in Nat
      BY TurnsClose
    <2>4. WebShape'
      BY <2>1, <2>2, <2>3 DEF WebInv, WebShape
    <2>5. Unread' = 0
      BY <2>1, <2>2 DEF Unread
    <2>6. StreamInOrder' /\ StreamIsClosed'
      BY <2>1, <2>2, <2>3, <2>5 DEF StreamInOrder, StreamIsClosed
    <2> QED
      BY <2>1, <2>4, <2>6 DEF WebInv, WholeTurnShown
  <1>3. CASE SendsChunk \/ SendsDone \/ SendsError
    BY <1>3, WebSends
  <1>4. CASE Reads
    BY <1>4, WebReads
  <1>5. CASE ReadsEnd
    <2>1. /\ sending = "stream" /\ wire = <<>> /\ turn.at = "ended" /\ sending' = "sent"
          /\ UNCHANGED <<runs, turn, wire, shown, status, mine, swallowed>>
      BY <1>5 DEF ReadsEnd
    <2>2. WebShape /\ Unread \in Nat /\ StreamInOrder /\ StreamIsClosed
      BY <2>1 DEF WebInv, WebShape, StreamInOrder, Unread
    <2>3. swallowed
      BY <2>1, <2>2 DEF StreamIsClosed
    <2>4. WebShape'
      BY <2>1, <2>2 DEF WebShape
    <2>5. ShowsSent
      BY <2>1, <2>2, AllSentShown
    <2>6. WholeTurnShown'
      BY <2>1, <2>3, <2>5 DEF WholeTurnShown, ShowsSent
    <2> QED
      BY <2>1, <2>2, <2>4, <2>6 DEF WebInv
  <1>6. CASE StreamBreaks
    <2>1. /\ sending' = "poll" /\ runs' \in {runs, runs + 1} /\ turn' = NoTurn /\ wire' = <<>>
          /\ UNCHANGED <<shown, swallowed>>
      BY <1>6 DEF StreamBreaks
    <2>2. WebShape'
      BY <2>1, NoTurnTyped DEF WebInv, WebShape
    <2> QED
      BY <2>1, <2>2, NoTurnTyped DEF WebInv, WholeTurnShown
  <1>7. CASE Polls
    BY <1>7, WebPolls
  <1>8. CASE PollFails
    <2>1. /\ sending = "poll" /\ sending' = "failed" /\ runs' \in {runs, runs + 1}
          /\ UNCHANGED <<turn, wire, shown, swallowed>>
      BY <1>8 DEF PollFails
    <2>2. WebShape'
      BY <2>1 DEF WebInv, WebShape
    <2> QED
      BY <2>1, <2>2 DEF WebInv, WholeTurnShown
  <1>9. CASE Sends
    <2>1. /\ sending' = "fetch" /\ runs' = 0 /\ turn' = NoTurn /\ wire' = <<>> /\ shown' = <<>>
          /\ swallowed' = FALSE
      BY <1>9 DEF Sends
    <2>2. <<>> \in Seq(Frame) /\ <<>> \in Seq(Piece)
      OBVIOUS
    <2>3. WebShape'
      BY <2>1, <2>2, NoTurnTyped DEF WebShape
    <2> QED
      BY <2>1, <2>3, NoTurnTyped DEF WebInv, WholeTurnShown
  <1> QED
    BY <1>1, <1>2, <1>3, <1>4, <1>5, <1>6, <1>7, <1>8, <1>9 DEF WebNext

(* A message that counts as sent has shown one whole turn, in order and    *)
(* last, and left the status bar as that turn closed, for turns of any     *)
(* number of chunks, whatever they set the bar to on the way and wherever  *)
(* the stream breaks; after an error of the server it has shown what was   *)
(* sent of the turn (handleStreamingResponse, and the two endpoints it     *)
(* calls).                                                                 *)
THEOREM WholeTurnAlwaysShown == WebSpec => []WholeTurnShown
  <1>1. WebInit => WebInv
    BY WebInitial
  <1>2. WebInv /\ [WebNext]_webVars => WebInv'
    BY WebStep
  <1>3. WebInv => WholeTurnShown
    BY DEF WebInv
  <1> QED
    BY <1>1, <1>2, <1>3, PTL DEF WebSpec

-----------------------------------------------------------------------------
(* The component tree                                                      *)

Node == [id : Component, data : Data, children : Seq(Nat)]

TreeShape ==
    /\ nodes \in Seq(Node)
    /\ root \in 0..Len(nodes)
    /\ index \in [Component -> 0..Len(nodes)]
    /\ components \in [Component -> Data \cup {Missing}]
    /\ reused \in BOOLEAN

(* No node is under two ids, so that an update through one of them is not  *)
(* seen through another.                                                   *)
IndexApart == \A c, d \in Component : index[c] # 0 /\ index[c] = index[d] => c = d

ShownData ==
    \A c \in Component : index[c] # 0 => components[c] = nodes[index[c]].data

LostAreDropped ==
    \A c \in Component : components[c] # Missing /\ index[c] = 0 => c \in dropped

(* The children of the root, in order; no child has children.              *)
Kids == nodes[root].children

FlatTree ==
    /\ \A i \in 1..Len(Kids) : /\ Kids[i] \in 1..Len(nodes) /\ Kids[i] # root
                               /\ nodes[Kids[i]].children = <<>>
    /\ \A i, j \in 1..Len(Kids) : Kids[i] = Kids[j] => i = j

(* The index has the nodes of the tree and no others, each under its id.   *)
IndexFollowsTree ==
    /\ index[nodes[root].id] = root
    /\ \A i \in 1..Len(Kids) : index[nodes[Kids[i]].id] = Kids[i]
    /\ \A c \in Component : index[c] # 0 =>
         /\ index[c] = root \/ \E i \in 1..Len(Kids) : index[c] = Kids[i]
         /\ nodes[index[c]].id = c

TreeInv ==
    /\ TreeShape /\ IndexApart /\ ShownData /\ LostAreDropped
    /\ ~reused => IF root = 0 THEN \A c \in Component : index[c] = 0
                              ELSE FlatTree /\ IndexFollowsTree

LEMMA TreeInitial == TreeInit => TreeInv
  <1> SUFFICES ASSUME TreeInit
               PROVE  TreeInv
    OBVIOUS
  <1>1. /\ nodes = <<>> /\ root = 0 /\ index = [c \in Component |-> 0]
        /\ components = [c \in Component |-> Missing] /\ reused = FALSE
    BY DEF TreeInit
  <1>2. nodes \in Seq(Node) /\ 0 \in 0..Len(nodes)
    BY <1>1
  <1>3. TreeShape
    BY <1>1, <1>2 DEF TreeShape
  <1>4. \A c \in Component : index[c] = 0 /\ components[c] = Missing
    BY <1>1
  <1> QED
    BY <1>1, <1>3, <1>4 DEF TreeInv, IndexApart, ShownData, LostAreDropped

(* What is under the root is what the children name.                       *)
LEMMA IdsOfTree ==
    ASSUME TreeShape, root # 0
    PROVE  IdsBelow(root) = {nodes[root].id} \cup {nodes[Kids[i]].id : i \in 1..Len(Kids)}
  <1>1. root \in 1..Len(nodes) /\ Kids \in Seq(Nat)
    <2>1. root \in 1..Len(nodes) /\ nodes[root] \in Node
      BY DEF TreeShape
    <2> QED
      BY <2>1 DEF Node, Kids
  <1>2. DOMAIN Kids = 1..Len(Kids)
    BY <1>1
  <1>3. Children(root) = {Kids[i] : i \in 1..Len(Kids)}
    BY <1>2 DEF Children, Kids
  <1> HIDE DEF Kids
  <1> QED
    BY <1>3 DEF IdsBelow

LEMMA TreeInvFollows == TreeInv => TreeFollowsManager
  <1> SUFFICES ASSUME TreeInv, NEW c \in Component
               PROVE  /\ index[c] # 0 => components[c] = nodes[index[c]].data
                      /\ components[c] # Missing /\ index[c] = 0 => c \in dropped
                      /\ ~reused => (index[c] # 0 <=> c \in IdsInTree)
    BY DEF TreeFollowsManager
  <1>1. CASE root = 0
    BY <1>1 DEF TreeInv, ShownData, LostAreDropped, IdsInTree
  <1>2. CASE root # 0
    <2>1. IdsInTree = {nodes[root].id} \cup {nodes[Kids[i]].id : i \in 1..Len(Kids)}
      BY <1>2, IdsOfTree DEF IdsInTree, TreeInv
    <2>2. ASSUME ~reused, c \in IdsInTree PROVE index[c] # 0
      <3>1. CASE c = nodes[root].id
        BY <1>2, <2>2, <3>1 DEF TreeInv, IndexFollowsTree
      <3>2. ASSUME NEW i \in 1..Len(Kids), c = nodes[Kids[i]].id PROVE index[c] # 0
        <4>1. Kids[i] \in 1..Len(nodes) /\ index[c] = Kids[i]
          BY <1>2, <2>2, <3>2 DEF TreeInv, IndexFollowsTree, FlatTree
        <4>2. Len(nodes) \in Nat
          BY DEF TreeInv, TreeShape
        <4> QED
          BY <4>1, <4>2
      <3> QED
        BY <2>1, <2>2, <3>1, <3>2
    <2>3. ASSUME ~reused, index[c] # 0 PROVE c \in IdsInTree
      BY <1>2, <2>1, <2>3 DEF TreeInv, IndexFollowsTree
    <2> QED
      BY <2>2, <2>3 DEF TreeInv, ShownData, LostAreDropped
  <1> QED
    BY <1>1, <1>2

(* A node that is set anew leaves the others alone.                        *)
LEMMA NodeSet ==
    ASSUME TreeShape, NEW n \in 1..Len(nodes), NEW node \in Node,
           nodes' = [nodes EXCEPT ![n] = node]
    PROVE  /\ nodes' \in Seq(Node) /\ Len(nodes') = Len(nodes)
           /\ \A m \in 1..Len(nodes) : nodes'[m] = IF m = n THEN node ELSE nodes[m]
  BY DEF TreeShape

(* What Indexed ids name are nodes.                                        *)
LEMMA IndexedNode ==
    ASSUME TreeShape, NEW c \in Component, index[c] # 0
    PROVE  index[c] \in 1..Len(nodes) /\ nodes[index[c]] \in Node
  BY DEF TreeShape

(* An emit of an id that is shown, and an update, change its data in both. *)
LEMMA TreeUpdates ==
    ASSUME TreeInv, NEW c \in Component, NEW data \in Data, Updates(c, data)
    PROVE  TreeInv'
  <1> DEFINE n == index[c]
             node == [nodes[n] EXCEPT !.data = data]
  <1>1. /\ n # 0 /\ nodes' = [nodes EXCEPT ![n] = node]
        /\ components' = [components EXCEPT ![c] = data]
        /\ UNCHANGED <<root, index, dropped, reused>>
    BY DEF Updates
  <1>2. n \in 1..Len(nodes) /\ nodes[n] \in Node /\ TreeShape
    BY <1>1, IndexedNode DEF TreeInv
  <1>3. node \in Node /\ node.id = nodes[n].id /\ node.children = nodes[n].children /\ node.data = data
    BY <1>2 DEF Node
  <1> HIDE DEF node
  <1>4. /\ nodes' \in Seq(Node) /\ Len(nodes') = Len(nodes)
        /\ \A m \in 1..Len(nodes) : nodes'[m] = IF m = n THEN node ELSE nodes[m]
    BY <1>1, <1>2, <1>3, NodeSet
  <1>5. \A m \in 1..Len(nodes) : /\ nodes'[m].id = nodes[m].id
                                 /\ nodes'[m].children = nodes[m].children
                                 /\ nodes'[m].data = IF m = n THEN data ELSE nodes[m].data
    BY <1>3, <1>4
  <1>6. \A d \in Component : components'[d] = IF d = c THEN data ELSE components[d]
    BY <1>1, <1>2 DEF TreeShape
  <1>7. TreeShape'
    BY <1>1, <1>2, <1>4 DEF TreeShape
  <1>8. \A d \in Component : index[d] # 0 => index[d] \in 1..Len(nodes)
    BY <1>2, IndexedNode
  <1>9. IndexApart' /\ LostAreDropped'
    BY <1>1, <1>6 DEF TreeInv, IndexApart, LostAreDropped
  <1>10. ShownData'
    BY <1>1, <1>5, <1>6, <1>8 DEF TreeInv, IndexApart, ShownData
  <1>11. ASSUME ~reused, root # 0 PROVE (FlatTree /\ IndexFollowsTree)'
    <2>1. root \in 1..Len(nodes) /\ FlatTree /\ IndexFollowsTree
      BY <1>2, <1>11 DEF TreeInv, TreeShape
    <2>2. Kids' = Kids
      BY <1>1, <1>5, <2>1 DEF Kids
    <2> HIDE DEF Kids
    <2>3. FlatTree'
      BY <1>1, <1>4, <1>5, <2>1, <2>2 DEF FlatTree
    <2>4. IndexFollowsTree'
      BY <1>1, <1>5, <1>8, <2>1, <2>2 DEF FlatTree, IndexFollowsTree
    <2> QED
      BY <2>3, <2>4
  <1> QED
    BY <1>1, <1>7, <1>9, <1>10, <1>11 DEF TreeInv

(* A new component is a node of its own, under the root or as the root.    *)
LEMMA TreeEmitsNew ==
    ASSUME TreeInv, NEW c \in Component, NEW data \in Data, EmitsNew(c, data)
    PROVE  TreeInv'
  <1> USE TreeAssumption
  <1> DEFINE n == Len(nodes) + 1
             new == [id |-> c, data |-> data, children |-> <<>>]
             grown == IF root = 0 THEN nodes ELSE [nodes EXCEPT ![root].children = Append(@, n)]
  <1>1. /\ components[c] = Missing
        /\ nodes' = Append(grown, new)
        /\ root' = IF root = 0 THEN n ELSE root
        /\ index' = [index EXCEPT ![c] = n]
        /\ components' = [components EXCEPT ![c] = data]
        /\ UNCHANGED <<dropped, reused>>
    BY DEF EmitsNew
  <1>2. TreeShape /\ Len(nodes) \in Nat /\ n \in Nat \ {0}
    BY DEF TreeInv, TreeShape
  <1>3. new \in Node /\ new.id = c /\ new.data = data /\ new.children = <<>>
    BY DEF Node
  <1>4. /\ grown \in Seq(Node) /\ Len(grown) = Len(nodes)
        /\ \A m \in 1..Len(nodes) : /\ grown[m].id = nodes[m].id
                                    /\ grown[m].data = nodes[m].data
                                    /\ grown[m].children = IF m = root THEN Append(Kids, n)
                                                           ELSE nodes[m].children
    <2>1. CASE root = 0
      BY <1>2, <2>1 DEF TreeShape
    <2>2. CASE root # 0
      <3> DEFINE node == [nodes[root] EXCEPT !.children = Append(@, n)]
      <3>1. root \in 1..Len(nodes) /\ nodes[root] \in Node /\ grown = [nodes EXCEPT ![root] = node]
        BY <1>2, <2>2 DEF TreeShape
      <3>2. /\ node \in Node /\ node.id = nodes[root].id /\ node.data = nodes[root].data
            /\ node.children = Append(Kids, n)
        <4>1. nodes[root].children \in Seq(Nat)
          BY <3>1 DEF Node
        <4> DEFINE more == Append(nodes[root].children, n)
        <4>2. more \in Seq(Nat)
          BY <1>2, <4>1
        <4> HIDE DEF more
        <4>3. LET r == [nodes[root] EXCEPT !.children = more]
              IN  r \in Node /\ r.id = nodes[root].id /\ r.data = nodes[root].data /\ r.children = more
          BY <3>1, <4>2 DEF Node
        <4> QED
          BY <4>3 DEF more, Kids
      <3> HIDE DEF node, grown
      <3>3. /\ grown \in Seq(Node) /\ Len(grown) = Len(nodes)
            /\ \A m \in 1..Len(nodes) : grown[m] = IF m = root THEN node ELSE nodes[m]
        BY <1>2, <3>1, <3>2 DEF TreeShape
      <3> QED
        BY <3>2, <3>3
    <2> QED
      BY <2>1, <2>2
  <1> HIDE DEF grown, new
  <1>5. /\ nodes' \in Seq(Node) /\ Len(nodes') = n /\ nodes'[n] = new
        /\ \A m \in 1..Len(nodes) : nodes'[m] = grown[m]
    BY <1>1, <1>2, <1>3, <1>4
  <1>6. \A m \in 1..Len(nodes) : /\ nodes'[m].id = nodes[m].id
                                 /\ nodes'[m].data = nodes[m].data
                                 /\ nodes'[m].children = IF m = root THEN Append(Kids, n)
                                                         ELSE nodes[m].children
    BY <1>4, <1>5
  <1>7. \A d \in Component : /\ index[d] \in 0..Len(nodes)
                             /\ index'[d] = IF d = c THEN n ELSE index[d]
                             /\ components'[d] = IF d = c THEN data ELSE components[d]
    BY <1>1, <1>2 DEF TreeShape
  <1>8. TreeShape'
    <2>1. root' \in 0..Len(nodes')
      BY <1>1, <1>2, <1>5 DEF TreeShape
    <2>2. index' \in [Component -> 0..Len(nodes')]
      BY <1>1, <1>2, <1>5 DEF TreeShape
    <2> QED
      BY <1>1, <1>2, <1>5, <2>1, <2>2 DEF TreeShape
  <1>9. IndexApart' /\ LostAreDropped'
    BY <1>1, <1>2, <1>7 DEF TreeInv, IndexApart, LostAreDropped
  <1>10. ShownData'
    <2> SUFFICES ASSUME NEW d \in Component, index'[d] # 0
                 PROVE  components'[d] = nodes'[index'[d]].data
      BY DEF ShownData
    <2>1. CASE d = c
      BY <1>3, <1>5, <1>7, <2>1
    <2>2. CASE d # c
      BY <1>2, <1>6, <1>7, <2>2 DEF TreeInv, ShownData
    <2> QED
      BY <2>1, <2>2
  <1>u. index[c] = 0
    <2>1. components[c] \notin Data
      BY <1>1
    <2>2. index[c] # 0 => nodes[index[c]] \in Node /\ components[c] = nodes[index[c]].data
      BY <1>2, IndexedNode DEF TreeInv, ShownData
    <2> QED
      BY <2>1, <2>2 DEF Node
  <1>11. ASSUME ~reused, root = 0 PROVE root' # 0 /\ FlatTree' /\ IndexFollowsTree'
    <2>1. \A d \in Component : index[d] = 0
      BY <1>11 DEF TreeInv
    <2>2. root' = n /\ Kids' = <<>> /\ nodes'[root'].id = c
      BY <1>1, <1>3, <1>5, <1>11 DEF Kids
    <2>3. Len(Kids') = 0
      BY <2>2
    <2> HIDE DEF Kids
    <2>4. FlatTree'
      BY <2>3 DEF FlatTree
    <2>5. IndexFollowsTree'
      BY <1>7, <2>1, <2>2, <2>3 DEF IndexFollowsTree
    <2> QED
      BY <1>2, <2>2, <2>4, <2>5
  <1>12. ASSUME ~reused, root # 0 PROVE root' # 0 /\ FlatTree' /\ IndexFollowsTree'
    <2>1. root \in 1..Len(nodes) /\ FlatTree /\ IndexFollowsTree /\ root' = root
      BY <1>1, <1>2, <1>12 DEF TreeInv, TreeShape
    <2>2. Kids \in Seq(Nat) /\ Kids' = Append(Kids, n)
      <3>1. nodes[root] \in Node
        BY <1>2, <2>1 DEF TreeShape
      <3> QED
        BY <1>6, <2>1, <3>1 DEF Kids, Node
    <2> HIDE DEF Kids
    <2>3. /\ Len(Kids) \in Nat /\ Len(Kids') = Len(Kids) + 1 /\ Kids'[Len(Kids) + 1] = n
          /\ \A i \in 1..Len(Kids) : Kids'[i] = Kids[i]
      BY <1>2, <2>2
    <2>4. /\ \A i \in 1..Len(Kids) : /\ Kids[i] \in 1..Len(nodes) /\ Kids[i] # root
                                     /\ nodes[Kids[i]].children = <<>>
          /\ \A i, j \in 1..Len(Kids) : Kids[i] = Kids[j] => i = j
      BY <2>1 DEF FlatTree
    <2>5. \A i \in 1..Len(Kids') : i \in 1..Len(Kids) \/ i = Len(Kids) + 1
      BY <2>3
    <2>6. FlatTree'
      <3>1. \A i \in 1..Len(Kids') : /\ Kids'[i] \in 1..Len(nodes') /\ Kids'[i] # root'
                                     /\ nodes'[Kids'[i]].children = <<>>
        BY <1>2, <1>3, <1>5, <1>6, <2>1, <2>3, <2>4, <2>5
      <3>2. \A i, j \in 1..Len(Kids') : Kids'[i] = Kids'[j] => i = j
        BY <1>2, <2>3, <2>4, <2>5
      <3> QED
        BY <3>1, <3>2 DEF FlatTree
    <2>7. IndexFollowsTree'
      <3>1. /\ index[nodes[root].id] = root
            /\ \A i \in 1..Len(Kids) : index[nodes[Kids[i]].id] = Kids[i]
            /\ \A d \in Component : index[d] # 0 =>
                 /\ index[d] = root \/ \E i \in 1..Len(Kids) : index[d] = Kids[i]
                 /\ nodes[index[d]].id = d
        BY <2>1 DEF IndexFollowsTree
      <3>2. \A m \in 1..Len(nodes) : nodes[m].id \in Component
        <4>1. \A m \in 1..Len(nodes) : nodes[m] \in Node
          BY <1>2 DEF TreeShape
        <4> QED
          BY <4>1 DEF Node
      <3>3. index'[nodes'[root'].id] = root'
        BY <1>u, <1>2, <1>6, <1>7, <2>1, <3>1, <3>2
      <3>4. \A i \in 1..Len(Kids') : index'[nodes'[Kids'[i]].id] = Kids'[i]
        <4> TAKE i \in 1..Len(Kids')
        <4>1. CASE i \in 1..Len(Kids)
          <5>1. Kids[i] \in 1..Len(nodes) /\ Kids[i] # 0 /\ index[nodes[Kids[i]].id] = Kids[i]
            BY <1>2, <2>4, <3>1, <4>1
          <5> QED
            BY <1>u, <1>6, <1>7, <2>3, <3>2, <4>1, <5>1
        <4>2. CASE i = Len(Kids) + 1
          BY <1>3, <1>5, <1>7, <2>3, <4>2
        <4> QED
          BY <2>5, <4>1, <4>2
      <3>5. ASSUME NEW d \in Component, index'[d] # 0
            PROVE  /\ index'[d] = root' \/ \E i \in 1..Len(Kids') : index'[d] = Kids'[i]
                   /\ nodes'[index'[d]].id = d
        <4>1. CASE d = c
          <5>1. index'[d] = n /\ nodes'[n].id = d /\ Len(Kids) + 1 \in 1..Len(Kids')
            BY <1>3, <1>5, <1>7, <2>3, <4>1
          <5> QED
            BY <2>3, <5>1
        <4>2. CASE d # c
          <5>1. index'[d] = index[d] /\ index[d] \in 1..Len(nodes)
            BY <1>2, <1>7, <3>5, <4>2
          <5>2. \A i \in 1..Len(Kids) : i \in 1..Len(Kids')
            BY <2>3
          <5> QED
            BY <1>6, <2>1, <2>3, <3>1, <3>5, <5>1, <5>2
        <4> QED
          BY <4>1, <4>2
      <3> QED
        BY <3>3, <3>4, <3>5 DEF IndexFollowsTree
    <2> QED
      BY <1>12, <2>1, <2>6, <2>7
  <1> QED
    BY <1>1, <1>8, <1>9, <1>10, <1>11, <1>12 DEF TreeInv

(* A replacement renames the node and moves its place in the index.        *)
LEMMA TreeReplaces ==
    ASSUME TreeInv, NEW old \in Component, NEW new \in Component, NEW data \in Data,
           Replaces(old, new, data)
    PROVE  TreeInv'
  <1> USE TreeAssumption
  <1> DEFINE n == index[old]
             node == [nodes[n] EXCEPT !.id = new, !.data = data]
  <1>1. /\ n # 0 /\ nodes' = [nodes EXCEPT ![n] = node]
        /\ index' = [[index EXCEPT ![old] = 0] EXCEPT ![new] = n]
        /\ components' = [[components EXCEPT ![old] = Missing] EXCEPT ![new] = data]
        /\ reused' = (reused \/ (old # new /\ index[new] # 0))
        /\ UNCHANGED <<root, dropped>>
    <2>1. [nodes EXCEPT ![n].id = new, ![n].data = data] = [nodes EXCEPT ![n] = node]
      <3>1. TreeShape /\ n # 0
        BY DEF TreeInv, Replaces
      <3>2. n \in DOMAIN nodes /\ nodes[n] \in Node
        BY <3>1, IndexedNode DEF TreeShape
      <3> QED
        BY <3>2 DEF Node
    <2> QED
      BY <2>1 DEF Replaces
  <1>2. n \in 1..Len(nodes) /\ nodes[n] \in Node /\ TreeShape
    BY <1>1, IndexedNode DEF TreeInv
  <1>3. node \in Node /\ node.id = new /\ node.children = nodes[n].children /\ node.data = data
    BY <1>2 DEF Node
  <1> HIDE DEF node
  <1>4. /\ nodes' \in Seq(Node) /\ Len(nodes') = Len(nodes)
        /\ \A m \in 1..Len(nodes) : nodes'[m] = IF m = n THEN node ELSE nodes[m]
    BY <1>1, <1>2, <1>3, NodeSet
  <1>5. \A m \in 1..Len(nodes) : /\ nodes'[m].id = IF m = n THEN new ELSE nodes[m].id
                                 /\ nodes'[m].children = nodes[m].children
                                 /\ nodes'[m].data = IF m = n THEN data ELSE nodes[m].data
    BY <1>3, <1>4
  <1>6. \A d \in Component :
          /\ components'[d] = IF d = new THEN data ELSE IF d = old THEN Missing ELSE components[d]
          /\ index'[d] = IF d = new THEN n ELSE IF d = old THEN 0 ELSE index[d]
    BY <1>1, <1>2 DEF TreeShape
  <1>7. TreeShape'
    <2>1. index' \in [Component -> 0..Len(nodes)] /\ components' \in [Component -> Data \cup {Missing}]
      BY <1>1, <1>2 DEF TreeShape
    <2> QED
      BY <1>1, <1>2, <1>4, <2>1 DEF TreeShape
  <1>8. \A d \in Component : index[d] # 0 => index[d] \in 1..Len(nodes)
    BY <1>2, IndexedNode
  <1>9. IndexApart'
    BY <1>1, <1>6 DEF TreeInv, IndexApart
  <1>10. LostAreDropped'
    BY <1>1, <1>6 DEF TreeInv, LostAreDropped
  <1>11. ShownData'
    <2> SUFFICES ASSUME NEW d \in Component, index'[d] # 0
                 PROVE  components'[d] = nodes'[index'[d]].data
      BY DEF ShownData
    <2>1. CASE d = new
      BY <1>2, <1>5, <1>6, <2>1
    <2>2. CASE d # new
      <3>1. d # old /\ index'[d] = index[d] /\ components'[d] = components[d]
        BY <1>6, <2>2
      <3>2. index[d] # n /\ index[d] \in 1..Len(nodes)
        BY <1>1, <1>8, <3>1 DEF TreeInv, IndexApart
      <3> QED
        BY <1>5, <3>1, <3>2 DEF TreeInv, ShownData
    <2> QED
      BY <2>1, <2>2
  <1>12. ASSUME ~reused' PROVE root # 0 /\ FlatTree' /\ IndexFollowsTree'
    <2>1. ~reused /\ (old # new => index[new] = 0)
      BY <1>1, <1>12
    <2>2. root # 0
      BY <1>1, <2>1 DEF TreeInv
    <2>3. root \in 1..Len(nodes) /\ FlatTree /\ IndexFollowsTree
      BY <1>2, <2>1, <2>2 DEF TreeInv, TreeShape
    <2>4. Kids' = Kids
      BY <1>1, <1>5, <2>3 DEF Kids
    <2> HIDE DEF Kids
    <2>5. FlatTree'
      BY <1>1, <1>4, <1>5, <2>3, <2>4 DEF FlatTree
    <2>6. \A m \in 1..Len(nodes) : nodes[m].id \in Component
      <3>1. \A m \in 1..Len(nodes) : nodes[m] \in Node
        BY <1>2 DEF TreeShape
      <3> QED
        BY <3>1 DEF Node
    <2>7. ASSUME NEW m \in 1..Len(nodes), index[nodes[m].id] = m
          PROVE  index'[nodes'[m].id] = m
      <3>1. CASE m = n
        BY <1>5, <1>6, <3>1
      <3>2. CASE m # n
        <4>1. nodes'[m].id = nodes[m].id /\ nodes[m].id # old
          BY <1>5, <2>7, <3>2
        <4>2. nodes[m].id # new
          BY <1>2, <2>1, <2>7, <4>1
        <4> QED
          BY <1>6, <2>6, <2>7, <4>1, <4>2
      <3> QED
        BY <3>1, <3>2
    <2>8. index'[nodes'[root'].id] = root'
      BY <1>1, <2>3, <2>7 DEF IndexFollowsTree
    <2>9. \A i \in 1..Len(Kids') : index'[nodes'[Kids'[i]].id] = Kids'[i]
      BY <2>3, <2>4, <2>7 DEF FlatTree, IndexFollowsTree
    <2>10. ASSUME NEW d \in Component, index'[d] # 0
           PROVE  /\ index'[d] = root' \/ \E i \in 1..Len(Kids') : index'[d] = Kids'[i]
                  /\ nodes'[index'[d]].id = d
      <3>1. \A x \in Component : index[x] # 0 =>
              /\ index[x] = root \/ \E i \in 1..Len(Kids) : index[x] = Kids[i]
              /\ nodes[index[x]].id = x
        BY <2>3 DEF IndexFollowsTree
      <3>2. CASE d = new
        <4>1. index'[d] = index[old] /\ nodes'[index[old]].id = d /\ index[old] # 0
          BY <1>1, <1>2, <1>5, <1>6, <3>2
        <4>2. index[old] = root \/ \E i \in 1..Len(Kids) : index[old] = Kids[i]
          BY <3>1, <4>1
        <4>3. root' = root
          BY <1>1
        <4> QED
          BY <2>4, <4>1, <4>2, <4>3
      <3>3. CASE d # new
        <4>1. d # old /\ index'[d] = index[d] /\ index[d] # 0
          BY <1>6, <2>10, <3>3
        <4>2. index[d] # n /\ index[d] \in 1..Len(nodes)
          BY <1>1, <1>8, <4>1 DEF TreeInv, IndexApart
        <4>3. /\ index[d] = root \/ \E i \in 1..Len(Kids) : index[d] = Kids[i]
              /\ nodes[index[d]].id = d
          BY <3>1, <4>1
        <4>4. nodes'[index[d]].id = d /\ root' = root
          BY <1>1, <1>5, <4>2, <4>3
        <4> QED
          BY <2>4, <4>1, <4>3, <4>4
      <3> QED
        BY <3>2, <3>3
    <2> QED
      BY <2>2, <2>5, <2>8, <2>9, <2>10 DEF IndexFollowsTree
  <1> QED
    BY <1>1, <1>7, <1>9, <1>10, <1>11, <1>12 DEF TreeInv

LEMMA Concatenated ==
    ASSUME NEW a \in Seq(Nat), NEW b \in Seq(Nat)
    PROVE  /\ a \o b \in Seq(Nat) /\ Len(a \o b) = Len(a) + Len(b)
           /\ \A j \in 1..(Len(a) + Len(b)) :
                (a \o b)[j] = IF j <= Len(a) THEN a[j] ELSE b[j - Len(a)]
  OBVIOUS

(* Among places there is a first.                                          *)
LEMMA LeastPlace ==
    ASSUME NEW places \in SUBSET Nat, places # {}
    PROVE  \E k \in places : \A j \in places : k <= j
  <1>1. \E less : IsWellFoundedOn(less, Nat) /\ \A j, k \in Nat : <<j, k>> \in less <=> j < k
    <2>1. \A j, k \in Nat : <<j, k>> \in OpToRel(<, Nat) <=> j < k
      BY DEF OpToRel
    <2> QED
      BY <2>1, NatLessThanWellFounded, Zenon
  <1>2. PICK less : IsWellFoundedOn(less, Nat) /\ \A j, k \in Nat : <<j, k>> \in less <=> j < k
    BY <1>1
  <1>3. PICK k \in places : \A j \in places : <<j, k>> \notin less
    <2>1. places \subseteq Nat /\ IsWellFoundedOn(less, Nat)
      BY <1>2
    <2>2. \E k \in places : \A j \in places : ~(<<j, k>> \in less)
      BY <2>1, WFMin
    <2> QED
      BY <2>2
  <1>4. \A j \in places : k <= j
    <2> TAKE j \in places
    <2>1. k \in Nat /\ j \in Nat /\ ~(j < k)
      BY <1>2, <1>3
    <2> QED
      BY <2>1
  <1> QED
    BY <1>4

(* Taking a place out of a sequence shifts those behind it.                *)
LEMMA WithoutPlace ==
    ASSUME NEW seq \in Seq(Nat), NEW k \in 1..Len(seq)
    PROVE  LET rest == SubSeq(seq, 1, k - 1) \o SubSeq(seq, k + 1, Len(seq))
           IN  /\ rest \in Seq(Nat) /\ Len(rest) = Len(seq) - 1
               /\ \A j \in 1..Len(rest) : rest[j] = seq[IF j < k THEN j ELSE j + 1]
  <1> DEFINE a == SubSeq(seq, 1, k - 1)
             b == SubSeq(seq, k + 1, Len(seq))
  <1>1. a \in Seq(Nat) /\ Len(a) = k - 1 /\ \A j \in 1..(k - 1) : a[j] = seq[j]
    OBVIOUS
  <1>2. /\ b \in Seq(Nat) /\ Len(b) = Len(seq) - k
        /\ \A j \in 1..(Len(seq) - k) : b[j] = seq[j + k]
    OBVIOUS
  <1> HIDE DEF a, b
  <1>n. Len(seq) \in Nat /\ k \in Nat \ {0} /\ k <= Len(seq)
    OBVIOUS
  <1>3. /\ a \o b \in Seq(Nat) /\ Len(a \o b) = Len(a) + Len(b)
        /\ \A j \in 1..(Len(a) + Len(b)) :
             (a \o b)[j] = IF j <= Len(a) THEN a[j] ELSE b[j - Len(a)]
    BY <1>1, <1>2, Concatenated
  <1> DEFINE rest == a \o b
  <1> HIDE DEF rest
  <1>4. Len(a) + Len(b) = Len(seq) - 1
    BY <1>1, <1>2, <1>n
  <1>5. \A j \in 1..(Len(seq) - 1) : rest[j] = seq[IF j < k THEN j ELSE j + 1]
    <2> TAKE j \in 1..(Len(seq) - 1)
    <2>1. CASE j < k
      <3>1. j \in 1..(k - 1) /\ j <= Len(a) /\ j \in 1..(Len(a) + Len(b))
        BY <1>1, <1>4, <1>n, <2>1
      <3> QED
        BY <1>1, <1>3, <2>1, <3>1 DEF rest
    <2>2. CASE ~(j < k)
      <3>1. /\ j - Len(a) = j - k + 1 /\ j - k + 1 \in 1..(Len(seq) - k) /\ (j - k + 1) + k = j + 1
            /\ ~(j <= Len(a)) /\ j \in 1..(Len(a) + Len(b))
        BY <1>1, <1>4, <1>n, <2>2
      <3>2. rest[j] = b[j - k + 1]
        BY <1>3, <3>1 DEF rest
      <3>3. b[j - k + 1] = seq[(j - k + 1) + k]
        BY <1>2, <3>1
      <3> QED
        BY <2>2, <3>1, <3>2, <3>3
    <2> QED
      BY <2>1, <2>2
  <1> QED
    BY <1>3, <1>4, <1>5 DEF a, b, rest

(* remove_child takes out the first child with the id, and keeps the order *)
(* of the others.                                                          *)
LEMMA WithoutChildKids ==
    ASSUME NEW seq \in Seq(Nat), NEW c
    PROVE  LET left == WithoutChild(seq, c)
           IN  /\ left \in Seq(Nat)
               /\ \A i \in 1..Len(seq) : nodes[seq[i]].id = c =>
                    \E k \in 1..Len(seq) :
                       /\ nodes[seq[k]].id = c
                       /\ Len(left) = Len(seq) - 1
                       /\ \A j \in 1..Len(left) : left[j] = seq[IF j < k THEN j ELSE j + 1]
  <1> DEFINE Earliest(i) == /\ nodes[seq[i]].id = c
                            /\ \A j \in DOMAIN seq : nodes[seq[j]].id = c => i <= j
             first == CHOOSE i \in DOMAIN seq : Earliest(i)
             rest == SubSeq(seq, 1, first - 1) \o SubSeq(seq, first + 1, Len(seq))
             left == WithoutChild(seq, c)
  <1>1. DOMAIN seq = 1..Len(seq) /\ 1..Len(seq) \subseteq Nat
    OBVIOUS
  <1>2. CASE \E i \in DOMAIN seq : nodes[seq[i]].id = c
    <2>1. left = rest
      BY <1>2 DEF WithoutChild
    <2>2. \E i \in DOMAIN seq : Earliest(i)
      <3> DEFINE places == {i \in DOMAIN seq : nodes[seq[i]].id = c}
      <3>1. places \in SUBSET Nat /\ places # {}
        BY <1>1, <1>2
      <3>2. PICK k \in places : \A j \in places : k <= j
        <4> HIDE DEF places
        <4> QED
          BY <3>1, LeastPlace
      <3> QED
        BY <3>2
    <2>3. first \in DOMAIN seq /\ Earliest(first)
      BY <2>2
    <2> HIDE DEF first
    <2>4. first \in 1..Len(seq) /\ nodes[seq[first]].id = c
      BY <1>1, <2>3
    <2>5. /\ rest \in Seq(Nat) /\ Len(rest) = Len(seq) - 1
          /\ \A j \in 1..Len(rest) : rest[j] = seq[IF j < first THEN j ELSE j + 1]
      BY <2>4, WithoutPlace
    <2> HIDE DEF rest, left
    <2>6. /\ left \in Seq(Nat)
          /\ \E k \in 1..Len(seq) :
                /\ nodes[seq[k]].id = c
                /\ Len(left) = Len(seq) - 1
                /\ \A j \in 1..Len(left) : left[j] = seq[IF j < k THEN j ELSE j + 1]
      BY <2>1, <2>4, <2>5
    <2> QED
      BY <2>6 DEF left
  <1>3. CASE ~\E i \in DOMAIN seq : nodes[seq[i]].id = c
    BY <1>1, <1>3 DEF WithoutChild
  <1> QED
    BY <1>2, <1>3

(* The nodes' data and ids outlast a removal; the index forgets the ids of *)
(* the component and of what is below it.                                  *)
LEMMA TreeRemoves ==
    ASSUME TreeInv, NEW c \in Component, Removes(c)
    PROVE  TreeInv'
  <1> USE TreeAssumption
  <1> DEFINE k == index[c]
             below == IdsBelow(k)
             gone == {c} \cup below
  <1>1. /\ k # 0
        /\ root' = IF root # 0 /\ nodes[root].id = c THEN 0 ELSE root
        /\ nodes' = IF root' = 0 THEN nodes
                    ELSE [nodes EXCEPT ![root].children = WithoutChild(@, c)]
        /\ index' = [d \in Component |-> IF d \in gone THEN 0 ELSE index[d]]
        /\ components' = [components EXCEPT ![c] = Missing]
        /\ dropped' = dropped \cup (below \ {c})
        /\ reused' = reused
    BY DEF Removes, Unindexed
  <1>2. TreeShape /\ k \in 1..Len(nodes) /\ nodes[k] \in Node
    BY <1>1, IndexedNode DEF TreeInv
  <1>3. ASSUME root' # 0
        PROVE  /\ root' = root /\ root \in 1..Len(nodes) /\ nodes[root].id # c
               /\ Kids \in Seq(Nat) /\ Kids' = WithoutChild(Kids, c)
               /\ nodes' \in Seq(Node) /\ Len(nodes') = Len(nodes)
               /\ \A m \in 1..Len(nodes) :
                    /\ nodes'[m].id = nodes[m].id /\ nodes'[m].data = nodes[m].data
                    /\ m # root => nodes'[m].children = nodes[m].children
    <2>1. root' = root /\ root \in 1..Len(nodes) /\ nodes[root].id # c
      BY <1>1, <1>2, <1>3 DEF TreeShape
    <2>2. nodes[root] \in Node
      BY <1>2, <2>1 DEF TreeShape
    <2>3. Kids \in Seq(Nat)
      BY <2>2 DEF Node, Kids
    <2> DEFINE left == WithoutChild(Kids, c)
               node == [nodes[root] EXCEPT !.children = left]
    <2>4. left \in Seq(Nat)
      BY <2>3, WithoutChildKids
    <2>5. nodes' = [nodes EXCEPT ![root] = node]
      BY <1>1, <1>3, <2>1 DEF Kids
    <2> HIDE DEF left
    <2>6. node \in Node /\ node.id = nodes[root].id /\ node.data = nodes[root].data /\ node.children = left
      BY <2>2, <2>4 DEF Node
    <2> HIDE DEF node
    <2>7. /\ nodes' \in Seq(Node) /\ Len(nodes') = Len(nodes)
          /\ \A m \in 1..Len(nodes) : nodes'[m] = IF m = root THEN node ELSE nodes[m]
      BY <1>2, <2>1, <2>5, <2>6, NodeSet
    <2>8. Kids' = left
      BY <2>1, <2>6, <2>7 DEF Kids
    <2> QED
      BY <2>1, <2>3, <2>6, <2>7, <2>8 DEF left
  <1>4. /\ nodes' \in Seq(Node) /\ Len(nodes') = Len(nodes)
        /\ \A m \in 1..Len(nodes) : nodes'[m].id = nodes[m].id /\ nodes'[m].data = nodes[m].data
    BY <1>1, <1>2, <1>3 DEF TreeShape
  <1>5. \A d \in Component : /\ index'[d] = IF d \in gone THEN 0 ELSE index[d]
                             /\ components'[d] = IF d = c THEN Missing ELSE components[d]
                             /\ index[d] # 0 => index[d] \in 1..Len(nodes)
    BY <1>1, <1>2, IndexedNode DEF TreeShape
  <1> HIDE DEF below
  <1>6. TreeShape'
    <2>1. /\ index' \in [Component -> 0..Len(nodes)] /\ components' \in [Component -> Data \cup {Missing}]
          /\ root' \in 0..Len(nodes) /\ reused' \in BOOLEAN
      BY <1>1, <1>2 DEF TreeShape
    <2> QED
      BY <1>4, <2>1 DEF TreeShape
  <1>7. IndexApart'
    BY <1>5 DEF TreeInv, IndexApart
  <1>8. ShownData'
    BY <1>4, <1>5 DEF TreeInv, ShownData
  <1>9. LostAreDropped'
    BY <1>1, <1>5 DEF TreeInv, LostAreDropped
  <1>10. ASSUME ~reused, root' = 0 PROVE \A d \in Component : index'[d] = 0
    <2>1. root # 0 /\ FlatTree /\ IndexFollowsTree
      BY <1>1, <1>10 DEF TreeInv
    <2>2. nodes[root].id = c /\ k = root
      BY <1>1, <1>10, <2>1 DEF IndexFollowsTree
    <2>3. below = {nodes[root].id} \cup {nodes[Kids[i]].id : i \in 1..Len(Kids)}
      BY <1>2, <2>1, <2>2, IdsOfTree DEF below
    <2>4. ASSUME NEW d \in Component, index[d] # 0 PROVE d \in below
      BY <2>1, <2>3, <2>4 DEF IndexFollowsTree
    <2> QED
      BY <1>5, <2>4
  <1>11. ASSUME ~reused, root' # 0 PROVE FlatTree' /\ IndexFollowsTree'
    <2>1. /\ root' = root /\ root \in 1..Len(nodes) /\ nodes[root].id # c
          /\ Kids \in Seq(Nat) /\ Kids' = WithoutChild(Kids, c)
          /\ \A m \in 1..Len(nodes) : m # root => nodes'[m].children = nodes[m].children
      BY <1>3, <1>11
    <2>2. /\ index[nodes[root].id] = root
          /\ \A i \in 1..Len(Kids) : index[nodes[Kids[i]].id] = Kids[i]
          /\ \A d \in Component : index[d] # 0 =>
               /\ index[d] = root \/ \E i \in 1..Len(Kids) : index[d] = Kids[i]
               /\ nodes[index[d]].id = d
      BY <1>11, <2>1 DEF TreeInv, IndexFollowsTree
    <2>3. /\ \A i \in 1..Len(Kids) : /\ Kids[i] \in 1..Len(nodes) /\ Kids[i] # root
                                     /\ nodes[Kids[i]].children = <<>>
          /\ \A i, j \in 1..Len(Kids) : Kids[i] = Kids[j] => i = j
      BY <1>11, <2>1 DEF TreeInv, FlatTree
    <2> HIDE DEF Kids
    <2>4. PICK i \in 1..Len(Kids) : k = Kids[i]
      BY <1>1, <2>1, <2>2
    <2>5. nodes[k].id = c /\ nodes[k].children = <<>>
      BY <1>1, <2>2, <2>3, <2>4
    <2>6. below = {c}
      <3>1. DOMAIN nodes[k].children = {}
        BY <2>5
      <3> QED
        BY <2>5, <3>1 DEF below, IdsBelow, Children
    <2> DEFINE left == Kids'
    <2>7. PICK p \in 1..Len(Kids) :
            /\ nodes[Kids[p]].id = c
            /\ Len(left) = Len(Kids) - 1
            /\ \A j \in 1..Len(left) : left[j] = Kids[IF j < p THEN j ELSE j + 1]
      <3> DEFINE out == WithoutChild(Kids, c)
      <3>1. \A l \in 1..Len(Kids) : nodes[Kids[l]].id = c =>
              \E p \in 1..Len(Kids) :
                 /\ nodes[Kids[p]].id = c
                 /\ Len(out) = Len(Kids) - 1
                 /\ \A j \in 1..Len(out) : out[j] = Kids[IF j < p THEN j ELSE j + 1]
        BY <2>1, WithoutChildKids
      <3>2. left = out
        BY <2>1
      <3> HIDE DEF out, left
      <3>3. nodes[Kids[i]].id = c
        BY <2>4, <2>5
      <3> QED
        BY <3>1, <3>2, <3>3
    <2> HIDE DEF left
    <2>8. p = i
      BY <2>2, <2>3, <2>4, <2>7
    <2> DEFINE Old(j) == IF j < p THEN j ELSE j + 1
    <2>9. Len(Kids) \in Nat
      BY <2>1
    <2>10. \A j \in 1..Len(left) : Old(j) \in 1..Len(Kids) /\ Old(j) # p /\ left[j] = Kids[Old(j)]
      BY <2>7, <2>9
    <2>11. \A j, l \in 1..Len(left) : Old(j) = Old(l) => j = l
      BY <2>7, <2>9
    <2>12. ASSUME NEW q \in 1..Len(Kids), q # p PROVE \E j \in 1..Len(left) : left[j] = Kids[q]
      <3>1. CASE q < p
        BY <2>7, <2>9, <3>1
      <3>2. CASE q > p
        <4>1. q - 1 \in 1..Len(left) /\ left[q - 1] = Kids[q]
          BY <2>7, <2>9, <3>2
        <4> QED
          BY <4>1
      <3> QED
        BY <2>9, <2>12, <3>1, <3>2
    <2> HIDE DEF Old
    <2>13. \A d \in Component : index'[d] = IF d = c THEN 0 ELSE index[d]
      BY <1>5, <2>6
    <2>14. \A m \in 1..Len(nodes) : nodes[m].id \in Component
      <3>1. \A m \in 1..Len(nodes) : nodes[m] \in Node
        BY <1>2 DEF TreeShape
      <3> QED
        BY <3>1 DEF Node
    <2>15. FlatTree'
      <3>1. \A j \in 1..Len(left) : /\ left[j] \in 1..Len(nodes') /\ left[j] # root'
                                    /\ nodes'[left[j]].children = <<>>
        <4> TAKE j \in 1..Len(left)
        <4>1. Old(j) \in 1..Len(Kids) /\ left[j] = Kids[Old(j)]
          BY <2>10
        <4>2. /\ left[j] \in 1..Len(nodes) /\ left[j] # root /\ nodes[left[j]].children = <<>>
          BY <2>3, <4>1
        <4> QED
          BY <1>4, <2>1, <4>2
      <3>2. \A j, l \in 1..Len(left) : left[j] = left[l] => j = l
        <4> TAKE j, l \in 1..Len(left)
        <4>1. /\ Old(j) \in 1..Len(Kids) /\ left[j] = Kids[Old(j)]
              /\ Old(l) \in 1..Len(Kids) /\ left[l] = Kids[Old(l)]
          BY <2>10
        <4> QED
          BY <2>3, <2>11, <4>1
      <3> QED
        BY <3>1, <3>2 DEF FlatTree, left
    <2>16. IndexFollowsTree'
      <3>1. index'[nodes'[root'].id] = root'
        BY <1>4, <2>1, <2>2, <2>13, <2>14
      <3>2. \A j \in 1..Len(left) : index'[nodes'[left[j]].id] = left[j]
        <4> TAKE j \in 1..Len(left)
        <4>1. /\ left[j] \in 1..Len(nodes) /\ left[j] # k /\ index[nodes[left[j]].id] = left[j]
          BY <2>2, <2>3, <2>4, <2>8, <2>10
        <4>2. nodes[left[j]].id # c
          BY <4>1
        <4> QED
          BY <1>4, <2>13, <2>14, <4>1, <4>2
      <3>3. ASSUME NEW d \in Component, index'[d] # 0
            PROVE  /\ index'[d] = root' \/ \E j \in 1..Len(left) : index'[d] = left[j]
                   /\ nodes'[index'[d]].id = d
        <4>1. d # c /\ index'[d] = index[d] /\ index[d] # 0
          BY <2>13, <3>3
        <4>2. index[d] # k /\ index[d] \in 1..Len(nodes)
          BY <1>1, <1>5, <4>1 DEF TreeInv, IndexApart
        <4>3. nodes'[index[d]].id = d
          BY <1>4, <2>2, <4>1, <4>2
        <4>4. index[d] = root \/ \E j \in 1..Len(left) : index[d] = left[j]
          BY <2>2, <2>4, <2>8, <2>12, <4>1, <4>2
        <4> QED
          BY <2>1, <4>1, <4>3, <4>4
      <3> QED
        BY <3>1, <3>2, <3>3 DEF IndexFollowsTree, left
    <2> QED
      BY <2>15, <2>16
  <1> QED
    BY <1>1, <1>6, <1>7, <1>8, <1>9, <1>10, <1>11 DEF TreeInv

LEMMA TreeStep == TreeInv /\ [TreeNext]_treeVars => TreeInv'
  <1> SUFFICES ASSUME TreeInv, [TreeNext]_treeVars
               PROVE  TreeInv'
    OBVIOUS
  <1>1. CASE UNCHANGED treeVars
    BY <1>1 DEF treeVars, TreeInv, TreeShape, IndexApart, ShownData, LostAreDropped, FlatTree,
                IndexFollowsTree, Kids
  <1>2. ASSUME NEW c \in Component, NEW data \in Data, EmitsAgain(c, data) PROVE TreeInv'
    <2>1. Updates(c, data)
      BY <1>2 DEF EmitsAgain, Updates
    <2> QED
      BY <2>1, TreeUpdates
  <1> QED
    BY <1>1, <1>2, TreeEmitsNew, TreeUpdates, TreeReplaces, TreeRemoves DEF TreeNext, EmitIsLost

(* What the tree shows is what the manager has, and what the manager has   *)
(* and the tree lost was below a removed component, in conversations of    *)
(* any length (ComponentManager, ComponentTree).                           *)
THEOREM TreeAlwaysFollowsManager == TreeSpec => []TreeFollowsManager
  <1>1. TreeInit => TreeInv
    BY TreeInitial
  <1>2. TreeInv /\ [TreeNext]_treeVars => TreeInv'
    BY TreeStep
  <1>3. TreeInv => TreeFollowsManager
    BY TreeInvFollows
  <1> QED
    BY <1>1, <1>2, <1>3, PTL DEF TreeSpec

-----------------------------------------------------------------------------
(* The evaluation                                                          *)

(* Every task of every variant has a state.                                *)
TaskShape ==
    /\ DOMAIN task = Variant
    /\ \A v \in Variant :
        /\ DOMAIN task[v] = Case
        /\ \A i \in Case : "at" \in DOMAIN task[v][i]

PermitInv ==
    /\ TaskShape
    /\ permits \in Nat
    /\ permits + Cardinality(AtWork) = MaxConcurrency

LEMMA VariantsCounted ==
    /\ Len(Variants) \in Nat /\ Len(Cases) \in Nat
    /\ IsFiniteSet(Variant) /\ Cardinality(Variant) = Len(Variants)
    /\ IsFiniteSet(Case) /\ Cardinality(Case) = Len(Cases)
    /\ IsFiniteSet(Variant \X Case)
    /\ Cardinality(Variant \X Case) = Len(Variants) * Len(Cases)
  <1>1. /\ Len(Variants) \in Nat /\ DOMAIN Variants = 1..Len(Variants)
        /\ Len(Cases) \in Nat /\ Case = 1..Len(Cases)
    BY VariantAssumption, EvaluationAssumption DEF Case
  <1>2. Variant = {Variants[i] : i \in 1..Len(Variants)}
    BY <1>1 DEF Variant, ToSet
  <1>3. Variants \in Bijection(1..Len(Variants), Variant)
    <2>1. Variants \in [1..Len(Variants) -> Variant]
      BY VariantAssumption, <1>1
    <2>2. Variants \in Injection(1..Len(Variants), Variant)
      BY <2>1, VariantAssumption DEF Injection
    <2>3. Variants \in Surjection(1..Len(Variants), Variant)
      BY <1>2, <2>1 DEF Surjection
    <2> QED
      BY <2>2, <2>3 DEF Bijection
  <1>i. ASSUME NEW n \in Nat PROVE IsFiniteSet(1..n) /\ Cardinality(1..n) = n
    <2>1. 1 \in Int /\ n \in Int
      OBVIOUS
    <2>2. IsFiniteSet(1..n) /\ Cardinality(1..n) = IF 1 > n THEN 0 ELSE n - 1 + 1
      BY <2>1, FS_Interval
    <2>3. (IF 1 > n THEN 0 ELSE n - 1 + 1) = n
      OBVIOUS
    <2> QED
      BY <2>2, <2>3
  <1>4. IsFiniteSet(1..Len(Variants)) /\ Cardinality(1..Len(Variants)) = Len(Variants)
    BY <1>1, <1>i
  <1>5. IsFiniteSet(Variant) /\ Cardinality(Variant) = Len(Variants)
    BY <1>3, <1>4, FS_Bijection DEF ExistsBijection
  <1>6. IsFiniteSet(Case) /\ Cardinality(Case) = Len(Cases)
    BY <1>1, <1>i
  <1> QED
    BY <1>1, <1>5, <1>6, FS_Product

(* A step of one task.                                                     *)
LEMMA TaskMoves ==
    ASSUME TaskShape, NEW v \in Variant, NEW i \in Case, NEW r, "at" \in DOMAIN r,
           task' = [task EXCEPT ![v][i] = r]
    PROVE  /\ TaskShape'
           /\ task'[v][i] = r
           /\ \A p \in Variant \X Case : p # <<v, i>> => task'[p[1]][p[2]] = task[p[1]][p[2]]
  <1>1. /\ DOMAIN task' = Variant
        /\ \A w \in Variant \ {v} : task'[w] = task[w]
        /\ task'[v] = [task[v] EXCEPT ![i] = r]
    BY DEF TaskShape
  <1>2. /\ DOMAIN task'[v] = Case
        /\ task'[v][i] = r
        /\ \A j \in Case \ {i} : task'[v][j] = task[v][j]
    BY <1>1 DEF TaskShape
  <1>3. TaskShape'
    BY <1>1, <1>2 DEF TaskShape
  <1>4. ASSUME NEW p \in Variant \X Case, p # <<v, i>>
        PROVE  task'[p[1]][p[2]] = task[p[1]][p[2]]
    <2>1. p = <<p[1], p[2]>> /\ p[1] \in Variant /\ p[2] \in Case
      OBVIOUS
    <2>2. p[1] # v \/ p[2] # i
      BY <1>4, <2>1
    <2> QED
      BY <1>1, <1>2, <2>1, <2>2
  <1> QED
    BY <1>2, <1>3, <1>4

LEMMA WorkCounted ==
    ASSUME TaskShape, NEW v \in Variant, NEW i \in Case, NEW r, "at" \in DOMAIN r,
           task' = [task EXCEPT ![v][i] = r]
    PROVE  /\ Cardinality(AtWork) \in Nat
           /\ Cardinality(AtWork') =
                (IF task[v][i].at \in {"running", "judged"} THEN Cardinality(AtWork) - 1
                                                           ELSE Cardinality(AtWork))
                + (IF r.at \in {"running", "judged"} THEN 1 ELSE 0)
  <1> DEFINE rest == AtWork \ {<<v, i>>}
  <1>1. IsFiniteSet(AtWork)
    <2>1. AtWork \in SUBSET (Variant \X Case)
      BY DEF AtWork
    <2> QED
      BY <2>1, VariantsCounted, FS_Subset
  <1>2. /\ IsFiniteSet(rest)
        /\ Cardinality(AtWork) \in Nat
        /\ Cardinality(rest) = IF <<v, i>> \in AtWork THEN Cardinality(AtWork) - 1
                                                     ELSE Cardinality(AtWork)
    BY <1>1, FS_RemoveElement, FS_CardinalityType
  <1>3. <<v, i>> \in AtWork <=> task[v][i].at \in {"running", "judged"}
    BY DEF AtWork
  <1>4. AtWork' = IF r.at \in {"running", "judged"} THEN rest \cup {<<v, i>>} ELSE rest
    <2>1. \A p \in Variant \X Case : p \in AtWork' <=>
            (IF p = <<v, i>> THEN r.at \in {"running", "judged"} ELSE p \in AtWork)
      <3>1. ASSUME NEW p \in Variant \X Case, p = <<v, i>>
            PROVE  p \in AtWork' <=> r.at \in {"running", "judged"}
        <4>1. p[1] = v /\ p[2] = i /\ task'[v][i] = r
          <5>1. p[1] = v /\ p[2] = i
            BY <3>1
          <5>2. task'[v][i] = r
            BY DEF TaskShape
          <5> QED
            BY <5>1, <5>2
        <4> QED
          BY <4>1 DEF AtWork
      <3>2. ASSUME NEW p \in Variant \X Case, p # <<v, i>>
            PROVE  p \in AtWork' <=> p \in AtWork
        <4>1. task'[p[1]][p[2]] = task[p[1]][p[2]]
          BY <3>2, TaskMoves
        <4> QED
          BY <4>1 DEF AtWork
      <3> QED
        BY <3>1, <3>2
    <2>2. AtWork \subseteq Variant \X Case /\ AtWork' \subseteq Variant \X Case
      BY DEF AtWork
    <2>3. <<v, i>> \in Variant \X Case
      OBVIOUS
    <2> HIDE DEF AtWork
    <2> QED
      BY <2>1, <2>2, <2>3
  <1>5. <<v, i>> \notin rest
    OBVIOUS
  <1>6. Cardinality(rest \cup {<<v, i>>}) = Cardinality(rest) + 1
    BY <1>2, <1>5, FS_AddElement
  <1> HIDE DEF rest
  <1>7. CASE r.at \in {"running", "judged"}
    BY <1>2, <1>3, <1>4, <1>6, <1>7
  <1>8. CASE ~(r.at \in {"running", "judged"})
    BY <1>2, <1>3, <1>4, <1>8
  <1> QED
    BY <1>7, <1>8

LEMMA PermitInitial == EvalInit => PermitInv
  <1> SUFFICES ASSUME EvalInit PROVE PermitInv
    OBVIOUS
  <1>1. TaskShape
    BY DEF EvalInit, TaskShape, Waiting
  <1>2. AtWork = {}
    BY DEF EvalInit, AtWork, Waiting
  <1> QED
    BY <1>1, <1>2, FS_EmptySet, EvaluationAssumption DEF EvalInit, PermitInv

LEMMA PermitStep == PermitInv /\ [EvalNext]_evalVars => PermitInv'
  <1> SUFFICES ASSUME PermitInv, [EvalNext]_evalVars PROVE PermitInv'
    OBVIOUS
  <1>0. TaskShape /\ permits \in Nat /\ MaxConcurrency \in Nat
        /\ permits + Cardinality(AtWork) = MaxConcurrency
    BY EvaluationAssumption DEF PermitInv
  <1>u. ASSUME UNCHANGED <<task, permits>> PROVE PermitInv'
    <2>1. TaskShape' /\ AtWork' = AtWork
      BY <1>0, <1>u DEF TaskShape, AtWork
    <2> QED
      BY <1>0, <1>u, <2>1 DEF PermitInv
  <1>1. ASSUME NEW v \in Variant, NEW i \in Case, Acquires(v, i) PROVE PermitInv'
    <2> DEFINE r == [task[v][i] EXCEPT !.at = "running"]
    <2>1. "at" \in DOMAIN r /\ r.at = "running"
      BY <1>0 DEF TaskShape
    <2>2. task' = [task EXCEPT ![v][i] = r]
      BY <1>1 DEF Acquires
    <2> HIDE DEF r
    <2>3. TaskShape' /\ Cardinality(AtWork) \in Nat
          /\ Cardinality(AtWork') = Cardinality(AtWork) + 1
      <3>1. task[v][i].at = "waiting"
        BY <1>1 DEF Acquires, TaskIs
      <3>2. TaskShape'
        BY <1>0, <2>1, <2>2, TaskMoves
      <3> QED
        BY <1>0, <2>1, <2>2, <3>1, <3>2, WorkCounted
    <2>4. permits > 0 /\ permits' = permits - 1
      BY <1>1 DEF Acquires
    <2> QED
      BY <1>0, <2>3, <2>4 DEF PermitInv
  <1>2. ASSUME NEW v \in Variant, NEW i \in Case, Executes(v, i) PROVE PermitInv'
    <2>1. PICK error \in BOOLEAN, answer \in SUBSET Words :
            task' = [task EXCEPT ![v][i].at = "judged", ![v][i].error = error,
                                 ![v][i].answer = answer]
      BY <1>2 DEF Executes
    <2> DEFINE r == [task[v][i] EXCEPT !.at = "judged", !.error = error, !.answer = answer]
    <2>2. "at" \in DOMAIN r /\ r.at = "judged"
      BY <1>0 DEF TaskShape
    <2>3. task' = [task EXCEPT ![v][i] = r]
      BY <1>0, <2>1 DEF TaskShape
    <2> HIDE DEF r
    <2>4. TaskShape' /\ Cardinality(AtWork) \in Nat
          /\ Cardinality(AtWork') = Cardinality(AtWork)
      <3>1. task[v][i].at = "running"
        BY <1>2 DEF Executes, TaskIs
      <3>2. TaskShape'
        BY <1>0, <2>2, <2>3, TaskMoves
      <3>3. /\ Cardinality(AtWork) \in Nat
            /\ Cardinality(AtWork') = Cardinality(AtWork) - 1 + 1
        BY <1>0, <2>2, <2>3, <3>1, WorkCounted
      <3> QED
        BY <3>2, <3>3
    <2>5. UNCHANGED permits
      BY <1>2 DEF Executes
    <2> QED
      BY <1>0, <2>4, <2>5 DEF PermitInv
  <1>3. ASSUME NEW v \in Variant, NEW i \in Case, Finishes(v, i) \/ EvaluatorRaises(v, i)
        PROVE  PermitInv'
    <2>1. PICK r : /\ task' = [task EXCEPT ![v][i] = r]
                   /\ "at" \in DOMAIN r /\ r.at \in {"done", "raised"}
      <3>1. CASE EvaluatorRaises(v, i)
        <4> DEFINE r == [Waiting EXCEPT !.at = "raised"]
        <4>1. "at" \in DOMAIN r /\ r.at = "raised"
          BY DEF Waiting
        <4>2. task' = [task EXCEPT ![v][i] = r]
          BY <3>1 DEF EvaluatorRaises
        <4> QED
          BY <4>1, <4>2
      <3>2. CASE Finishes(v, i)
        <4>1. PICK passed, score :
                task' = [task EXCEPT ![v][i] = [Waiting EXCEPT !.at = "done", !.passed = passed,
                                                               !.score = score]]
          BY <3>2 DEF Finishes
        <4> DEFINE r == [Waiting EXCEPT !.at = "done", !.passed = passed, !.score = score]
        <4>2. "at" \in DOMAIN r /\ r.at = "done"
          BY DEF Waiting
        <4> QED
          BY <4>1, <4>2
      <3> QED
        BY <1>3, <3>1, <3>2
    <2>2. TaskShape' /\ Cardinality(AtWork) \in Nat
          /\ Cardinality(AtWork') = Cardinality(AtWork) - 1
      <3>1. task[v][i].at = "judged"
        BY <1>3 DEF Finishes, EvaluatorRaises, TaskIs
      <3>2. TaskShape'
        BY <1>0, <2>1, TaskMoves
      <3> QED
        <4>1. /\ Cardinality(AtWork) \in Nat
              /\ Cardinality(AtWork') = Cardinality(AtWork) - 1 + 0
          BY <1>0, <2>1, <3>1, WorkCounted
        <4> QED
          BY <3>2, <4>1
    <2>3. permits' = permits + 1
      BY <1>3 DEF Finishes, EvaluatorRaises
    <2> QED
      BY <1>0, <2>2, <2>3 DEF PermitInv
  <1>4. ASSUME NEW v \in Variant, Returns(v) \/ WorkerFails(v) PROVE PermitInv'
    BY <1>4, <1>u DEF Returns, WorkerFails
  <1>5. CASE Compares \/ CompareRaises \/ Yields \/ StreamEnds \/ Leaves
    BY <1>5, <1>u DEF Compares, CompareRaises, Yields, StreamEnds, Leaves
  <1>6. CASE UNCHANGED evalVars
    BY <1>6, <1>u DEF evalVars
  <1> QED
    BY <1>1, <1>2, <1>3, <1>4, <1>5, <1>6 DEF EvalNext, TaskSteps

(* The permits that are out are those of the tasks at work, for any number *)
(* of variants, cases and permits, whichever evaluators raise and whether  *)
(* the caller is still there (runner.py:63, 248).                          *)
THEOREM PermitsAlwaysComeBack == EvalSpec => []PermitsComeBack
  <1>1. PermitInv => PermitsComeBack
    BY DEF PermitInv, PermitsComeBack
  <1> QED
    BY <1>1, PermitInitial, PermitStep, PTL DEF EvalSpec

(* What went through the queue of a stream.                                *)
Result == Variant \X Case

Returned == {v \in Variant : worker[v] = "returned"}

(* Each result of the variants in ended, once.                             *)
Complete(out, ended) ==
    /\ \A j, k \in DOMAIN out : out[j] = out[k] => j = k
    /\ \A j \in DOMAIN out : out[j][1] \in ended
    /\ \A p \in Result : p[1] \in ended => \E j \in DOMAIN out : out[j] = p

StreamInv ==
    /\ worker \in [Variant -> {"running", "returned", "failed"}]
    /\ yielded \in Seq(Result) /\ queue \in Seq(Result)
    /\ mode = "stream" =>
        /\ Complete(yielded \o queue, Returned)
        /\ comparison = "ended" => Len(yielded) = Expected

LEMMA StreamInitial == EvalInit => StreamInv
  <1> SUFFICES ASSUME EvalInit PROVE StreamInv
    OBVIOUS
  <1>1. yielded = <<>> /\ queue = <<>> /\ worker = [v \in Variant |-> "running"]
        /\ comparison = "running"
    BY DEF EvalInit
  <1>2. yielded \o queue = <<>> /\ Returned = {}
    BY <1>1 DEF Returned
  <1> QED
    BY <1>1, <1>2 DEF StreamInv, Complete, Result

(* What a returning worker puts.                                           *)
LEMMA ResultsPut ==
    ASSUME NEW v \in Variant
    PROVE  /\ ResultsOf(v) \in Seq(Result)
           /\ \A i \in DOMAIN ResultsOf(v) : ResultsOf(v)[i] = <<v, i>>
           /\ DOMAIN ResultsOf(v) = Case
  <1>1. Case = 1..Len(Cases) /\ Len(Cases) \in Nat
    BY EvaluationAssumption DEF Case
  <1>2. \A i \in Case : <<v, i>> \in Result
    BY DEF Result
  <1>3. ResultsOf(v) \in [1..Len(Cases) -> Result]
    BY <1>1, <1>2 DEF ResultsOf
  <1> QED
    BY <1>1, <1>3 DEF ResultsOf

LEMMA WorkerReturns ==
    ASSUME NEW out \in Seq(Result), NEW ended \in SUBSET Variant, Complete(out, ended),
           NEW v \in Variant \ ended
    PROVE  Complete(out \o ResultsOf(v), ended \cup {v})
  <1> DEFINE more == ResultsOf(v)
             all == out \o more
  <1>1. more \in Seq(Result) /\ DOMAIN more = 1..Len(more) /\ DOMAIN more = Case
        /\ \A i \in DOMAIN more : more[i] = <<v, i>>
    BY ResultsPut
  <1> HIDE DEF more
  <1>3. /\ all \in Seq(Result)
        /\ DOMAIN all = 1..(Len(out) + Len(more))
        /\ \A j \in 1..Len(out) : all[j] = out[j]
        /\ \A i \in 1..Len(more) : all[Len(out) + i] = more[i]
    <2>1. all \in Seq(Result) /\ DOMAIN all = 1..(Len(out) + Len(more))
      BY <1>1
    <2>2. ASSUME NEW j \in 1..Len(out) PROVE all[j] = out[j]
      BY <1>1
    <2>3. ASSUME NEW i \in 1..Len(more) PROVE all[Len(out) + i] = more[i]
      BY <1>1
    <2> QED
      BY <2>1, <2>2, <2>3
  <1>4. Len(out) \in Nat /\ DOMAIN out = 1..Len(out) /\ Len(more) \in Nat
    BY <1>1
  <1> HIDE DEF all
  <1>5. \A j \in DOMAIN all :
          \/ j \in 1..Len(out) /\ all[j] = out[j] /\ all[j][1] \in ended
          \/ \E i \in 1..Len(more) : j = Len(out) + i /\ all[j] = <<v, i>>
    <2> SUFFICES ASSUME NEW j \in DOMAIN all, j \notin 1..Len(out)
                 PROVE  \E i \in 1..Len(more) : j = Len(out) + i /\ all[j] = <<v, i>>
      BY <1>3, <1>4 DEF Complete
    <2>1. j - Len(out) \in 1..Len(more) /\ j = Len(out) + (j - Len(out))
      BY <1>3, <1>4
    <2> QED
      BY <1>1, <1>3, <2>1
  <1>6. ASSUME NEW j \in DOMAIN all, NEW k \in DOMAIN all, all[j] = all[k] PROVE j = k
    <2>1. CASE j \in 1..Len(out) /\ k \in 1..Len(out)
      BY <1>3, <1>4, <1>6, <2>1 DEF Complete
    <2>2. CASE j \notin 1..Len(out) /\ k \notin 1..Len(out)
      <3>1. PICK i \in 1..Len(more) : j = Len(out) + i /\ all[j] = <<v, i>>
        BY <1>5, <2>2
      <3>2. PICK l \in 1..Len(more) : k = Len(out) + l /\ all[k] = <<v, l>>
        BY <1>5, <2>2
      <3> QED
        BY <1>6, <3>1, <3>2
    <2>3. CASE j \in 1..Len(out) /\ k \notin 1..Len(out)
      <3>1. all[j][1] \in ended
        BY <1>3, <1>4, <2>3 DEF Complete
      <3>2. all[k][1] = v
        BY <1>5, <2>3
      <3> QED
        BY <1>6, <3>1, <3>2
    <2>4. CASE j \notin 1..Len(out) /\ k \in 1..Len(out)
      <3>1. all[k][1] \in ended
        BY <1>3, <1>4, <2>4 DEF Complete
      <3>2. all[j][1] = v
        BY <1>5, <2>4
      <3> QED
        BY <1>6, <3>1, <3>2
    <2> QED
      BY <2>1, <2>2, <2>3, <2>4
  <1>7. \A j \in DOMAIN all : all[j][1] \in (ended \cup {v})
    BY <1>5
  <1>8. ASSUME NEW p \in Result, p[1] \in (ended \cup {v}) PROVE \E j \in DOMAIN all : all[j] = p
    <2>1. CASE p[1] \in ended
      <3>1. PICK j \in DOMAIN out : out[j] = p
        BY <2>1 DEF Complete
      <3>2. j \in DOMAIN all /\ all[j] = p
        BY <1>3, <1>4, <3>1
      <3> QED
        BY <3>2
    <2>2. CASE p[1] = v
      <3>1. PICK i \in Case : p = <<v, i>>
        BY <2>2 DEF Result
      <3>2. i \in 1..Len(more) /\ more[i] = p
        BY <1>1, <3>1
      <3>3. Len(out) + i \in DOMAIN all /\ all[Len(out) + i] = p
        BY <1>3, <1>4, <3>2
      <3> QED
        BY <3>3
    <2> QED
      BY <1>8, <2>1, <2>2
  <1>9. Complete(all, ended \cup {v})
    <2>1. \A j, k \in DOMAIN all : all[j] = all[k] => j = k
      BY <1>6
    <2> QED
      BY <1>7, <1>8, <2>1 DEF Complete
  <1> QED
    BY <1>9 DEF all, more

(* What the consumer takes is the next to come.                            *)
LEMMA HeadMoves ==
    ASSUME NEW S, NEW s \in Seq(S), NEW t \in Seq(S), t # <<>>
    PROVE  /\ Append(s, Head(t)) \in Seq(S) /\ Tail(t) \in Seq(S)
           /\ Append(s, Head(t)) \o Tail(t) = s \o t
  <1>1. Head(t) \in S /\ Tail(t) \in Seq(S) /\ <<Head(t)>> \in Seq(S)
    BY HeadTailProperties
  <1>2. Append(s, Head(t)) = s \o <<Head(t)>>
    BY <1>1
  <1>3. <<Head(t)>> \o Tail(t) = t
    <2>1. 1 \in 1..Len(t) /\ Len(t) \in Len(t)..Len(t) /\ Len(t) \in 1..Len(t)
      BY EmptySeq
    <2>2. SubSeq(t, 1, Len(t)) = <<t[1]>> \o SubSeq(t, 2, Len(t))
      BY <2>1, SubSeqRecursiveFirst
    <2> QED
      BY <2>2, SubSeqFull, TailIsSubSeq
  <1>4. s \o <<Head(t)>> \in Seq(S) /\ (s \o <<Head(t)>>) \o Tail(t) = s \o (<<Head(t)>> \o Tail(t))
    BY <1>1, ConcatAssociative
  <1> QED
    BY <1>1, <1>2, <1>3, <1>4

LEMMA StreamStep == StreamInv /\ [EvalNext]_evalVars => StreamInv'
  <1> SUFFICES ASSUME StreamInv, [EvalNext]_evalVars PROVE StreamInv'
    OBVIOUS
  <1>0. /\ worker \in [Variant -> {"running", "returned", "failed"}]
        /\ yielded \in Seq(Result) /\ queue \in Seq(Result)
    BY DEF StreamInv
  <1>c. /\ Result' = Result
        /\ Expected' = Expected
    BY DEF Result, Case, Variant, Expected
  (* The results and the comparison stay, and no worker comes to its end.  *)
  <1>u. ASSUME worker' \in [Variant -> {"running", "returned", "failed"}],
               Returned' = Returned, mode' = mode, UNCHANGED <<yielded, queue>>,
               comparison' = comparison \/ comparison' # "ended" \/ mode # "stream"
        PROVE  StreamInv'
    BY <1>0, <1>c, <1>u DEF StreamInv, Complete
  <1>w. ASSUME UNCHANGED worker PROVE Returned' = Returned
    BY <1>w DEF Returned, Variant
  <1>1. ASSUME NEW v \in Variant, NEW i \in Case, TaskSteps(v, i) PROVE StreamInv'
    <2>1. UNCHANGED <<mode, worker, queue, yielded, comparison>>
      BY <1>1 DEF TaskSteps, Acquires, Executes, Finishes, EvaluatorRaises
    <2> QED
      BY <1>0, <1>u, <1>w, <2>1
  <1>2. ASSUME NEW v \in Variant, Returns(v) PROVE StreamInv'
    <2>1. /\ worker[v] = "running" /\ worker' = [worker EXCEPT ![v] = "returned"]
          /\ UNCHANGED <<mode, yielded, comparison>>
          /\ queue' = IF mode = "stream" THEN queue \o ResultsOf(v) ELSE queue
      BY <1>2 DEF Returns
    <2>2. worker' \in [Variant -> {"running", "returned", "failed"}]
      BY <1>0, <2>1
    <2>3. CASE mode = "stream"
      <3> DEFINE more == ResultsOf(v)
      <3>1. more \in Seq(Result)
        BY ResultsPut
      <3> HIDE DEF more
      <3>2. /\ yielded \o queue \in Seq(Result)
            /\ queue \o more \in Seq(Result)
            /\ yielded \o (queue \o more) = (yielded \o queue) \o more
        BY <1>0, <3>1, ConcatAssociative, ConcatProperties
      <3>3. queue' = queue \o more
        BY <2>1, <2>3 DEF more
      <3>4. Returned' = Returned \cup {v} /\ v \notin Returned /\ Returned \in SUBSET Variant
        BY <1>0, <2>1 DEF Returned
      <3>5. Complete(yielded \o queue, Returned)
        BY <2>3 DEF StreamInv
      <3>6. Complete((yielded \o queue) \o more, Returned \cup {v})
        BY <3>2, <3>4, <3>5, WorkerReturns DEF more
      <3>7. Complete(yielded' \o queue', Returned')
        BY <2>1, <3>2, <3>3, <3>4, <3>6
      <3>8. comparison' = "ended" => Len(yielded') = Expected
        BY <2>1, <2>3 DEF StreamInv
      <3> QED
        BY <1>0, <1>c, <2>1, <2>2, <2>3, <3>2, <3>3, <3>7, <3>8 DEF StreamInv, Complete
    <2>4. CASE mode # "stream"
      BY <1>0, <1>c, <2>1, <2>2, <2>4 DEF StreamInv
    <2> QED
      BY <2>3, <2>4
  <1>3. ASSUME NEW v \in Variant, WorkerFails(v) PROVE StreamInv'
    <2>1. /\ worker[v] = "running" /\ worker' = [worker EXCEPT ![v] = "failed"]
          /\ UNCHANGED <<mode, yielded, queue, comparison>>
      BY <1>3 DEF WorkerFails
    <2>2. worker' \in [Variant -> {"running", "returned", "failed"}] /\ Returned' = Returned
      BY <1>0, <2>1 DEF Returned
    <2> QED
      BY <1>u, <2>1, <2>2
  <1>4. CASE Compares \/ CompareRaises \/ Leaves
    <2>1. /\ UNCHANGED <<mode, worker, yielded, queue>>
          /\ comparison' # "ended" \/ mode # "stream"
      BY <1>4 DEF Compares, CompareRaises, Leaves
    <2> QED
      BY <1>0, <1>u, <1>w, <2>1
  <1>5. CASE Yields
    <2>1. /\ mode = "stream" /\ comparison = "running" /\ queue # <<>>
          /\ yielded' = Append(yielded, Head(queue)) /\ queue' = Tail(queue)
          /\ UNCHANGED <<mode, worker, comparison>>
      BY <1>5 DEF Yields
    <2>2. /\ yielded' \in Seq(Result) /\ queue' \in Seq(Result)
          /\ yielded' \o queue' = yielded \o queue
      BY <1>0, <2>1, HeadMoves
    <2>3. Returned' = Returned
      BY <1>w, <2>1
    <2>4. Complete(yielded' \o queue', Returned')
      BY <2>1, <2>2, <2>3 DEF StreamInv
    <2> QED
      BY <1>0, <1>c, <2>1, <2>2, <2>4 DEF StreamInv, Complete
  <1>6. CASE StreamEnds
    <2>1. /\ mode = "stream" /\ Len(yielded) = Expected
          /\ UNCHANGED <<mode, worker, yielded, queue>>
      BY <1>6 DEF StreamEnds
    <2>2. Returned' = Returned
      BY <1>w, <2>1
    <2> QED
      BY <1>0, <1>c, <2>1, <2>2 DEF StreamInv, Complete
  <1>7. CASE UNCHANGED evalVars
    BY <1>0, <1>7, <1>u, <1>w DEF evalVars
  <1> QED
    BY <1>1, <1>2, <1>3, <1>4, <1>5, <1>6, <1>7 DEF EvalNext

(* There are no more results than the consumer counts.                     *)
LEMMA NoMoreThanExpected ==
    ASSUME NEW out \in Seq(Result), Complete(out, Returned)
    PROVE  Len(out) <= Expected
  <1>1. /\ IsFiniteSet(Result) /\ Cardinality(Result) = Expected
    BY VariantsCounted DEF Result, Expected
  <1>2. out \in Injection(1..Len(out), Result)
    BY DEF Complete, Injection, IsInjective
  <1>3. Cardinality(1..Len(out)) <= Cardinality(Result)
    BY <1>1, <1>2, FS_Injection
  <1>4. Cardinality(1..Len(out)) = Len(out)
    <2>1. Len(out) \in Nat
      OBVIOUS
    <2>2. Cardinality(1..Len(out)) = IF 1 > Len(out) THEN 0 ELSE Len(out) - 1 + 1
      BY <2>1, FS_Interval
    <2> QED
      BY <2>1, <2>2
  <1> QED
    BY <1>1, <1>3, <1>4

(* The consumer of a stream gets each result of each variant that came to  *)
(* its end once, and stops with an empty queue, for any number of variants *)
(* and cases, in whatever order the workers come to their ends             *)
(* (runner.py:148-173).                                                    *)
THEOREM ResultsAlwaysOnce == EvalSpec => []ResultsOnce
  <1>1. StreamInv => ResultsOnce
    <2> SUFFICES ASSUME StreamInv, mode = "stream" PROVE ResultsOnce
      BY DEF ResultsOnce
    <2> DEFINE out == yielded \o queue
    <2>1. /\ yielded \in Seq(Result) /\ queue \in Seq(Result)
          /\ out \in Seq(Result) /\ Len(out) = Len(yielded) + Len(queue)
          /\ Len(yielded) \in Nat /\ Len(queue) \in Nat
      BY DEF StreamInv
    <2>2. Complete(out, Returned) /\ (comparison = "ended" => Len(yielded) = Expected)
      BY DEF StreamInv
    <2> HIDE DEF out
    <2>3. IsInjective(out)
      BY <2>2 DEF Complete, IsInjective
    <2>4. ToSet(out) = Returned \X Case
      <3>1. ToSet(out) = {out[j] : j \in DOMAIN out}
        BY DEF ToSet
      <3>2. ASSUME NEW j \in DOMAIN out PROVE out[j] \in Returned \X Case
        <4>1. out[j] \in Variant \X Case /\ out[j][1] \in Returned
          BY <2>1, <2>2 DEF Complete, Result
        <4> QED
          BY <4>1
      <3>3. ASSUME NEW p \in Returned \X Case PROVE \E j \in DOMAIN out : out[j] = p
        <4>1. p \in Result /\ p[1] \in Returned
          BY DEF Result, Returned
        <4> QED
          BY <2>2, <4>1 DEF Complete
      <3> QED
        BY <3>1, <3>2, <3>3
    <2>5. comparison = "ended" => queue = <<>>
      <3> SUFFICES ASSUME comparison = "ended" PROVE queue = <<>>
        OBVIOUS
      <3>1. Len(out) <= Expected /\ Len(yielded) = Expected
        BY <2>1, <2>2, NoMoreThanExpected
      <3>2. Len(queue) = 0
        BY <2>1, <3>1
      <3> QED
        BY <2>1, <3>2
    <2> QED
      BY <2>3, <2>4, <2>5 DEF ResultsOnce, out, Returned
  <1> QED
    BY <1>1, StreamInitial, StreamStep, PTL DEF EvalSpec

-----------------------------------------------------------------------------
(* Numbers and recursions                                                  *)

(* What holds of 0 and, when of n, of n + 1 holds of all numbers up to k.  *)
LEMMA UpTo ==
    ASSUME NEW k \in Nat, NEW S, 0 \in S, \A n \in 0..(k - 1) : n \in S => n + 1 \in S
    PROVE  \A n \in 0..k : n \in S
  <1> DEFINE bad == {n \in 0..k : n \notin S}
  <1>1. SUFFICES ASSUME bad # {} PROVE FALSE
    OBVIOUS
  <1>2. bad \in SUBSET Nat
    OBVIOUS
  <1>3. PICK n \in bad : \A j \in bad : n <= j
    BY <1>1, <1>2, LeastPlace
  <1>4. n \in 0..k /\ n \notin S /\ n # 0
    BY <1>3
  <1>5. n - 1 \in 0..(k - 1) /\ n - 1 \in S /\ (n - 1) + 1 = n
    BY <1>3, <1>4
  <1> QED
    BY <1>4, <1>5

(* f recurs over the numbers up to k.                                      *)
Recurs(f, k, V, a, step) ==
    f \in [0..k -> V] /\ f[0] = a /\ \A n \in 1..k : f[n] = step[<<n, f[n - 1]>>]

(* A recursion over the numbers up to k has a solution.                    *)
LEMMA Iterated ==
    ASSUME NEW k \in Nat, NEW V, NEW a \in V, NEW step \in [(1..k) \X V -> V]
    PROVE  \E f : Recurs(f, k, V, a, step)
  <1> DEFINE Solves(f, n) == f[0] = a /\ \A m \in 1..n : f[m] = step[<<m, f[m - 1]>>]
             S == {n \in 0..k : \E f \in [0..n -> V] : Solves(f, n)}
  <1>1. 0 \in S
    <2> DEFINE f == [n \in 0..0 |-> a]
    <2>1. f \in [0..0 -> V] /\ f[0] = a
      OBVIOUS
    <2>2. 1..0 = {} /\ 0 \in 0..k
      OBVIOUS
    <2> HIDE DEF f
    <2> QED
      BY <2>1, <2>2
  <1>2. ASSUME NEW n \in 0..(k - 1), n \in S PROVE n + 1 \in S
    <2>1. PICK f \in [0..n -> V] : Solves(f, n)
      BY <1>2
    <2>2. n \in Nat /\ n + 1 \in 1..k /\ n + 1 \in 0..k
      OBVIOUS
    <2> DEFINE g == [m \in 0..(n + 1) |-> IF m <= n THEN f[m] ELSE step[<<n + 1, f[n]>>]]
    <2>3. f[n] \in V /\ step[<<n + 1, f[n]>>] \in V
      BY <2>1, <2>2
    <2>4. g \in [0..(n + 1) -> V]
      BY <2>1, <2>2, <2>3
    <2>5. \A m \in 0..n : g[m] = f[m]
      BY <2>2
    <2>6. g[n + 1] = step[<<n + 1, f[n]>>]
      BY <2>2
    <2> HIDE DEF g
    <2>7. g[0] = a
      BY <2>1, <2>2, <2>5
    <2>8. ASSUME NEW m \in 1..(n + 1) PROVE g[m] = step[<<m, g[m - 1]>>]
      <3>1. CASE m <= n
        <4>1. m \in 0..n /\ m - 1 \in 0..n /\ m \in 1..n
          BY <2>2, <3>1
        <4> QED
          BY <2>1, <2>5, <4>1
      <3>2. CASE ~(m <= n)
        <4>1. m = n + 1 /\ m - 1 = n /\ n \in 0..n
          BY <2>2, <3>2
        <4> QED
          BY <2>5, <2>6, <4>1
      <3> QED
        BY <3>1, <3>2
    <2>9. Solves(g, n + 1)
      BY <2>7, <2>8
    <2> QED
      BY <2>2, <2>4, <2>9
  <1>3. k \in S
    <2>1. \A n \in 0..(k - 1) : n \in S => n + 1 \in S
      BY <1>2
    <2> HIDE DEF S
    <2>2. \A n \in 0..k : n \in S
      BY <1>1, <2>1, UpTo
    <2> QED
      BY <2>2
  <1> QED
    BY <1>3 DEF Recurs

-----------------------------------------------------------------------------
(* Lines put together are lines *)

LEMMA GluedLine ==
    ASSUME NEW content \in Seq(FileLine), NEW line \in FileLine
    PROVE  Glued(content, line) \in Seq(FileLine)
  <1>1. CASE content # <<>> /\ ~content[Len(content)].ended
    <2>1. Len(content) \in DOMAIN content /\ content[Len(content)] \in FileLine
      BY <1>1
    <2> DEFINE longer == [text  |-> content[Len(content)].text \o line.text,
                          ended |-> line.ended]
    <2>2. content[Len(content)].text \in Seq(Word) /\ line.text \in Seq(Word) /\ line.ended \in BOOLEAN
      BY <2>1 DEF FileLine
    <2>3. content[Len(content)].text \o line.text \in Seq(Word)
      BY <2>2
    <2>4. longer \in FileLine
      BY <2>2, <2>3 DEF FileLine
    <2>5. Glued(content, line) = [content EXCEPT ![Len(content)] = longer]
      BY <1>1 DEF Glued
    <2> HIDE DEF longer
    <2> QED
      BY <2>1, <2>4, <2>5
  <1>2. CASE ~(content # <<>> /\ ~content[Len(content)].ended)
    <2>1. Glued(content, line) = Append(content, line)
      BY <1>2 DEF Glued
    <2> QED
      BY <2>1
  <1> QED
    BY <1>1, <1>2

LEMMA JoinedLines ==
    ASSUME NEW lines \in Seq(FileLine)
    PROVE  Joined(lines) \in Seq(FileLine)
  <1> DEFINE k == Len(lines)
             Solves(g) == g = [n \in 0..k |-> IF n = 0 THEN <<>> ELSE Glued(g[n - 1], lines[n])]
             upTo == CHOOSE g : Solves(g)
             step == [p \in (1..k) \X Seq(FileLine) |-> Glued(p[2], lines[p[1]])]
  <1>1. k \in Nat /\ \A n \in 1..k : lines[n] \in FileLine
    OBVIOUS
  <1> HIDE DEF k
  <1>2. /\ step \in [(1..k) \X Seq(FileLine) -> Seq(FileLine)]
        /\ \A n \in 1..k, v \in Seq(FileLine) : step[<<n, v>>] = Glued(v, lines[n])
    BY <1>1, GluedLine
  <1> HIDE DEF step
  <1>3. <<>> \in Seq(FileLine)
    OBVIOUS
  <1>4. PICK f \in [0..k -> Seq(FileLine)] :
            f[0] = <<>> /\ \A n \in 1..k : f[n] = step[<<n, f[n - 1]>>]
    <2>1. \E f : Recurs(f, k, Seq(FileLine), <<>>, step)
      BY <1>1, <1>2, <1>3, Iterated
    <2> QED
      BY <2>1 DEF Recurs
  <1>5. \A n \in 1..k : n - 1 \in 0..k
    BY <1>1
  <1>6. \A n \in 1..k : f[n] = Glued(f[n - 1], lines[n])
    BY <1>2, <1>4, <1>5
  <1>7. Solves(f)
    <2>1. \A n \in 0..k : n # 0 => n \in 1..k
      BY <1>1
    <2>2. \A n \in 0..k : f[n] = IF n = 0 THEN <<>> ELSE Glued(f[n - 1], lines[n])
      BY <1>4, <1>6, <2>1
    <2> QED
      BY <1>4, <2>2
  <1>8. Solves(upTo)
    BY <1>7
  <1> HIDE DEF upTo
  <1>9. upTo[0] = <<>> /\ \A n \in 1..k : upTo[n] = Glued(upTo[n - 1], lines[n])
    BY <1>1, <1>8
  <1> DEFINE S == {n \in 0..k : upTo[n] \in Seq(FileLine)}
  <1>10. 0 \in S
    <2>1. 0 \in 0..k /\ upTo[0] \in Seq(FileLine)
      BY <1>1, <1>3, <1>9
    <2> HIDE DEF k
    <2> QED
      BY <2>1
  <1>11. \A n \in 0..(k - 1) : n \in S => n + 1 \in S
    <2> SUFFICES ASSUME NEW n \in 0..(k - 1), n \in S PROVE n + 1 \in S
      OBVIOUS
    <2>1. n + 1 \in 1..k /\ n + 1 \in 0..k /\ (n + 1) - 1 = n
      BY <1>1
    <2>2. upTo[n + 1] = Glued(upTo[n], lines[n + 1])
      BY <1>9, <2>1
    <2> QED
      BY <1>1, <2>1, <2>2, GluedLine
  <1> HIDE DEF S
  <1>12. \A n \in 0..k : n \in S
    BY <1>1, <1>10, <1>11, UpTo
  <1>13. upTo[k] \in Seq(FileLine)
    BY <1>1, <1>12 DEF S
  <1>14. Joined(lines) = upTo[k]
    BY DEF Joined, upTo, k
  <1> QED
    BY <1>13, <1>14

-----------------------------------------------------------------------------
(* What edits mean *)

LEMMA EditShape ==
    ASSUME NEW e \in LineEdit
    PROVE  /\ e.start \in 1..MaxLine /\ e.end \in 0..MaxLine /\ e.end >= e.start - 1
           /\ e.start \in Nat /\ e.end \in Nat
           /\ e.text \in Seq(FileLine)
  <1>1. e.start \in 1..MaxLine /\ e.end \in 0..MaxLine /\ e.text \in EditTexts /\ e.end >= e.start - 1
    BY DEF LineEdit
  <1> QED
    BY <1>1, FileAssumption

LEMMA PiecesAreLines ==
    ASSUME NEW content \in Seq(FileLine), NEW k \in Nat, NEW edits \in [1..k -> LineEdit],
           NEW n \in 1..(Len(content) + 1)
    PROVE  Pieces(content, edits, n) \in Seq(FileLine)
  <1> DEFINE at   == {i \in DOMAIN edits : edits[i].start = n}
             text == IF at # {} THEN edits[CHOOSE i \in at : TRUE].text ELSE <<>>
             gone == n > Len(content) \/ \E i \in DOMAIN edits : n \in edits[i].start..edits[i].end
             kept == IF gone THEN <<>> ELSE <<content[n]>>
  <1>1. text \in Seq(FileLine)
    <2>1. CASE at # {}
      <3>1. (CHOOSE i \in at : TRUE) \in at
        BY <2>1
      <3> HIDE DEF at
      <3>2. PICK i \in DOMAIN edits : text = edits[i].text
        BY <2>1, <3>1 DEF at
      <3> HIDE DEF text
      <3>3. edits[i] \in LineEdit
        OBVIOUS
      <3> QED
        BY <3>2, <3>3, EditShape
    <2>2. CASE at = {}
      BY <2>2
    <2> QED
      BY <2>1, <2>2
  <1>2. kept \in Seq(FileLine)
    <2>1. CASE gone
      BY <2>1
    <2>2. CASE ~gone
      <3>1. n \in 1..Len(content)
        BY <2>2
      <3>2. content[n] \in FileLine
        BY <3>1
      <3> HIDE DEF gone
      <3> QED
        BY <2>2, <3>2
    <2> QED
      BY <2>1, <2>2
  <1> HIDE DEF text, kept
  <1>3. text \o kept \in Seq(FileLine)
    BY <1>1, <1>2
  <1> QED
    BY <1>3 DEF Pieces, text, kept, gone, at

(* from[n] is what n and the lines behind it become.                       *)
Follows(from, content, edits) ==
    /\ \A n \in 1..(Len(content) + 2) : from[n] \in Seq(FileLine)
    /\ from[Len(content) + 2] = <<>>
    /\ \A n \in 1..(Len(content) + 1) : from[n] = Pieces(content, edits, n) \o from[n + 1]

LEMMA MeantFollows ==
    ASSUME NEW content \in Seq(FileLine), NEW k \in Nat, NEW edits \in [1..k -> LineEdit]
    PROVE  \E from : Follows(from, content, edits) /\ Meant(content, edits) = Joined(from[1])
  <1> DEFINE z == Len(content) + 2
             Solves(g) == g = [n \in 1..z |-> IF n = z THEN <<>>
                                              ELSE Pieces(content, edits, n) \o g[n + 1]]
             from == CHOOSE g : Solves(g)
             step == [p \in (1..(z - 1)) \X Seq(FileLine) |->
                        Pieces(content, edits, z - p[1]) \o p[2]]
  <1>1. z \in Nat /\ z - 1 \in Nat /\ z >= 2
    OBVIOUS
  <1>2. \A n \in 1..(z - 1) : Pieces(content, edits, n) \in Seq(FileLine)
    BY PiecesAreLines
  <1>3. Meant(content, edits) = Joined(from[1])
    BY DEF Meant
  <1>z. z = Len(content) + 2 /\ z - 1 = Len(content) + 1
    OBVIOUS
  <1> HIDE DEF z
  <1>4. step \in [(1..(z - 1)) \X Seq(FileLine) -> Seq(FileLine)]
    <2> SUFFICES ASSUME NEW p \in (1..(z - 1)) \X Seq(FileLine)
                 PROVE  Pieces(content, edits, z - p[1]) \o p[2] \in Seq(FileLine)
      OBVIOUS
    <2>1. p[1] \in 1..(z - 1) /\ p[2] \in Seq(FileLine)
      OBVIOUS
    <2>2. z - p[1] \in 1..(z - 1)
      BY <1>1, <2>1
    <2> QED
      BY <1>2, <2>1, <2>2
  <1>5. \A n \in 1..(z - 1), v \in Seq(FileLine) : step[<<n, v>>] = Pieces(content, edits, z - n) \o v
    OBVIOUS
  <1>6. <<>> \in Seq(FileLine)
    OBVIOUS
  <1> HIDE DEF step
  <1>7. PICK f : Recurs(f, z - 1, Seq(FileLine), <<>>, step)
    BY <1>1, <1>4, <1>6, Iterated
  <1>8. /\ f \in [0..(z - 1) -> Seq(FileLine)] /\ f[0] = <<>>
        /\ \A n \in 1..(z - 1) : f[n] = step[<<n, f[n - 1]>>]
    BY <1>7 DEF Recurs
  <1>9. \A n \in 1..(z - 1) : f[n] = Pieces(content, edits, z - n) \o f[n - 1]
    <2> TAKE n \in 1..(z - 1)
    <2>1. n - 1 \in 0..(z - 1)
      BY <1>1
    <2> QED
      BY <1>5, <1>8, <2>1
  <1> DEFINE g == [n \in 1..z |-> f[z - n]]
  <1>10. Solves(g)
    <2>1. ASSUME NEW n \in 1..z
          PROVE  f[z - n] = IF n = z THEN <<>> ELSE Pieces(content, edits, n) \o g[n + 1]
      <3>1. CASE n = z
        BY <1>1, <1>8, <3>1
      <3>2. CASE n # z
        <4>1. z - n \in 1..(z - 1) /\ z - (z - n) = n /\ n + 1 \in 1..z /\ (z - n) - 1 = z - (n + 1)
          BY <1>1, <3>2
        <4>2. g[n + 1] = f[z - (n + 1)]
          BY <4>1
        <4>3. f[z - n] = Pieces(content, edits, z - (z - n)) \o f[(z - n) - 1]
          BY <1>9, <4>1
        <4> HIDE DEF g
        <4> QED
          BY <3>2, <4>1, <4>2, <4>3
      <3> QED
        BY <3>1, <3>2
    <2> QED
      BY <2>1
  <1> HIDE DEF g
  <1>11. Solves(from)
    BY <1>10
  <1> HIDE DEF from
  <1>12. from[z] = <<>> /\ \A n \in 1..(z - 1) : from[n] = Pieces(content, edits, n) \o from[n + 1]
    <2>1. z \in 1..z /\ \A n \in 1..(z - 1) : n \in 1..z /\ n # z
      BY <1>1
    <2>2. \A n \in 1..z : from[n] = IF n = z THEN <<>> ELSE Pieces(content, edits, n) \o from[n + 1]
      BY <1>11, Zenon
    <2>3. from[z] = <<>>
      BY <2>1, <2>2, Zenon
    <2>4. \A n \in 1..(z - 1) : from[n] = Pieces(content, edits, n) \o from[n + 1]
      BY <2>1, <2>2, Zenon
    <2> QED
      BY <2>3, <2>4
  <1> DEFINE S == {n \in 0..(z - 1) : from[z - n] \in Seq(FileLine)}
  <1>13. 0 \in S
    <2>1. 0 \in 0..(z - 1) /\ z - 0 = z
      BY <1>1
    <2> QED
      BY <1>6, <1>12, <2>1
  <1>14. ASSUME NEW n \in 0..((z - 1) - 1), n \in S PROVE n + 1 \in S
    <2>1. z - (n + 1) \in 1..(z - 1) /\ (z - (n + 1)) + 1 = z - n /\ n + 1 \in 0..(z - 1)
      BY <1>1
    <2>2. from[z - n] \in Seq(FileLine)
      BY <1>14
    <2>3. from[z - (n + 1)] = Pieces(content, edits, z - (n + 1)) \o from[z - n]
      BY <1>12, <2>1
    <2>4. Pieces(content, edits, z - (n + 1)) \in Seq(FileLine)
      BY <1>2, <2>1
    <2> DEFINE piece == Pieces(content, edits, z - (n + 1))
               rest  == from[z - n]
    <2>5. piece \o rest \in Seq(FileLine)
      <3> HIDE DEF piece, rest
      <3>1. piece \in Seq(FileLine) /\ rest \in Seq(FileLine)
        BY <2>2, <2>4 DEF piece, rest
      <3> QED
        BY <3>1
    <2> QED
      BY <2>1, <2>3, <2>5
  <1>15. \A n \in 0..(z - 1) : from[z - n] \in Seq(FileLine)
    <2>1. \A n \in 0..((z - 1) - 1) : n \in S => n + 1 \in S
      BY <1>14
    <2> HIDE DEF S
    <2>2. \A n \in 0..(z - 1) : n \in S
      BY <1>1, <1>13, <2>1, UpTo
    <2> QED
      BY <2>2 DEF S
  <1>16. \A n \in 1..z : from[n] \in Seq(FileLine)
    <2> TAKE n \in 1..z
    <2>1. z - n \in 0..(z - 1) /\ z - (z - n) = n
      BY <1>1
    <2> QED
      BY <1>15, <2>1
  <1>17. Follows(from, content, edits)
    BY <1>12, <1>16, <1>z DEF Follows
  <1> QED
    BY <1>3, <1>17

-----------------------------------------------------------------------------
(* Edits are made one after another *)

LEMMA NextFromBottom ==
    ASSUME NEW k \in Nat, NEW edits \in [1..k -> LineEdit],
           NEW left \in SUBSET (1..k), left # {}
    PROVE  LET i == FromTheBottom(edits, left)
           IN  i \in left /\ \A j \in left : edits[j].start <= edits[i].start
  <1> DEFINE Lowest(i) ==
               \A j \in left \ {i} : \/ edits[i].start > edits[j].start
                                     \/ edits[i].start = edits[j].start /\ i < j
             above == {MaxLine - edits[j].start : j \in left}
  <1>1. \A j \in left : j \in Nat /\ edits[j] \in LineEdit
    OBVIOUS
  <1>2. \A j \in left : edits[j].start \in 1..MaxLine
    BY <1>1, EditShape
  <1>3. above \in SUBSET Nat /\ above # {}
    <2>1. \A j \in left : MaxLine - edits[j].start \in Nat
      BY <1>2, FileAssumption
    <2> QED
      BY <2>1
  <1>4. PICK m \in above : \A n \in above : m <= n
    BY <1>3, LeastPlace
  <1>5. PICK i1 \in left : m = MaxLine - edits[i1].start
    BY <1>4
  <1>6. \A j \in left : edits[j].start <= edits[i1].start
    <2> TAKE j \in left
    <2>1. MaxLine - edits[j].start \in above
      OBVIOUS
    <2>2. MaxLine - edits[i1].start <= MaxLine - edits[j].start
      BY <1>4, <1>5, <2>1
    <2> QED
      BY <1>2, <2>2, FileAssumption
  <1> DEFINE same == {j \in left : edits[j].start = edits[i1].start}
  <1>7. PICK i \in same : \A j \in same : i <= j
    <2>1. same \in SUBSET Nat /\ same # {}
      BY <1>1
    <2> QED
      BY <2>1, LeastPlace
  <1>8. i \in left /\ Lowest(i)
    <2>1. i \in left /\ edits[i].start = edits[i1].start
      BY <1>7
    <2>2. ASSUME NEW j \in left \ {i}
          PROVE  \/ edits[i].start > edits[j].start
                 \/ edits[i].start = edits[j].start /\ i < j
      <3>1. edits[j].start <= edits[i].start
        BY <1>6, <2>1
      <3>2. edits[j].start = edits[i].start => i < j
        <4>1. edits[j].start = edits[i].start => j \in same
          BY <2>1
        <4>2. edits[j].start = edits[i].start => i <= j
          BY <1>7, <4>1
        <4>3. i \in Nat /\ j \in Nat /\ i # j
          BY <1>1, <2>1
        <4> HIDE DEF same
        <4> QED
          BY <4>2, <4>3
      <3> QED
        BY <1>2, <2>1, <3>1, <3>2
    <2>3. Lowest(i)
      BY <2>2, Zenon
    <2> QED
      BY <2>1, <2>3, Zenon
  <1>9. FromTheBottom(edits, left) = CHOOSE j \in left : Lowest(j)
    BY DEF FromTheBottom
  <1> DEFINE next == FromTheBottom(edits, left)
  <1>10. next \in left /\ Lowest(next)
    <2> HIDE DEF Lowest
    <2> QED
      BY <1>8, <1>9
  <1> HIDE DEF next
  <1>11. \A j \in left : edits[j].start <= edits[next].start
    BY <1>2, <1>10
  <1> QED
    BY <1>10, <1>11 DEF next

LEMMA SplitLines ==
    ASSUME NEW lines \in Seq(FileLine), NEW m \in Nat, NEW n \in Nat,
           m <= n, n <= Len(lines)
    PROVE  /\ SubSeq(lines, 1, m) \in Seq(FileLine)
           /\ SubSeq(lines, n + 1, Len(lines)) \in Seq(FileLine)
  OBVIOUS

LEMMA ApplyLines ==
    ASSUME NEW lines \in Seq(FileLine), NEW e \in LineEdit, ~OutOfRange(e, Len(lines))
    PROVE  ApplyEdit(lines, e) \in Seq(FileLine)
  <1>1. e.start - 1 \in Nat /\ e.end \in Nat /\ e.start - 1 <= e.end /\ e.end <= Len(lines)
    <2>1. Len(lines) \in Nat
      OBVIOUS
    <2> QED
      BY <2>1, EditShape DEF OutOfRange, Inserts
  <1> DEFINE above == SubSeq(lines, 1, e.start - 1)
             below == SubSeq(lines, e.end + 1, Len(lines))
             text  == e.text
  <1>2. above \in Seq(FileLine) /\ below \in Seq(FileLine)
    BY <1>1, SplitLines
  <1>3. text \in Seq(FileLine)
    BY EditShape
  <1>4. ApplyEdit(lines, e) = above \o text \o below
    BY DEF ApplyEdit
  <1> HIDE DEF above, below, text
  <1> QED
    BY <1>2, <1>3, <1>4

(* What the tool has while it makes k edits.                               *)
Underway(k) == [ok : BOOLEAN, lines : Seq(FileLine), left : SUBSET (1..k)]

LEMMA OneMoreEdit ==
    ASSUME NEW k \in Nat, NEW edits \in [1..k -> LineEdit],
           NEW done \in Underway(k), done.left # {}
    PROVE  LET i == FromTheBottom(edits, done.left)
           IN  /\ OneMore(edits, done) \in Underway(k)
               /\ OneMore(edits, done).left = done.left \ {i}
               /\ i \in done.left
  <1> DEFINE i     == FromTheBottom(edits, done.left)
             fits  == done.ok /\ ~OutOfRange(edits[i], Len(done.lines))
             lines == IF fits THEN ApplyEdit(done.lines, edits[i]) ELSE done.lines
  <1>1. done.ok \in BOOLEAN /\ done.lines \in Seq(FileLine) /\ done.left \in SUBSET (1..k)
    BY DEF Underway
  <1>2. i \in done.left
    BY <1>1, NextFromBottom
  <1>3. OneMore(edits, done) = [ok |-> fits, lines |-> lines, left |-> done.left \ {i}]
    BY DEF OneMore
  <1> HIDE DEF i
  <1>4. edits[i] \in LineEdit
    BY <1>1, <1>2
  <1>5. lines \in Seq(FileLine)
    BY <1>1, <1>4, ApplyLines
  <1>6. fits \in BOOLEAN
    OBVIOUS
  <1> HIDE DEF fits, lines
  <1>7. [ok |-> fits, lines |-> lines, left |-> done.left \ {i}] \in Underway(k)
    BY <1>1, <1>5, <1>6 DEF Underway
  <1> QED
    BY <1>2, <1>3, <1>7 DEF i

NoneMade(content, k) == [ok |-> TRUE, lines |-> content, left |-> 1..k]

LEMMA EditsTyped ==
    ASSUME NEW content \in Seq(FileLine), NEW k \in Nat, NEW edits \in [1..k -> LineEdit],
           NEW done, done[0] = NoneMade(content, k),
           \A n \in 1..k : done[n - 1] \in Underway(k) /\ done[n - 1].left # {} =>
                              done[n] = OneMore(edits, done[n - 1])
    PROVE  \A n \in 0..k : done[n] \in Underway(k) /\ Cardinality(done[n].left) = k - n
  <1> DEFINE S == {n \in 0..k : done[n] \in Underway(k) /\ Cardinality(done[n].left) = k - n}
  <1>1. 0 \in S
    <2>1. done[0].left = 1..k /\ done[0] \in Underway(k)
      BY DEF NoneMade, Underway
    <2>2. Cardinality(1..k) = k
      <3>1. 1 \in Int /\ k \in Int /\ (IF 1 > k THEN 0 ELSE (k - 1) + 1) = k
        OBVIOUS
      <3>2. Cardinality(1..k) = IF 1 > k THEN 0 ELSE (k - 1) + 1
        BY <3>1, FS_Interval
      <3> QED
        BY <3>1, <3>2
    <2>3. 0 \in 0..k /\ k - 0 = k
      OBVIOUS
    <2> QED
      BY <2>1, <2>2, <2>3
  <1>2. ASSUME NEW n \in 0..(k - 1), n \in S PROVE n + 1 \in S
    <2>1. n + 1 \in 1..k /\ n + 1 \in 0..k /\ (n + 1) - 1 = n /\ n \in Nat
      OBVIOUS
    <2>2. done[n] \in Underway(k) /\ Cardinality(done[n].left) = k - n
      BY <1>2
    <2> DEFINE left == done[n].left
    <2>3. left \in SUBSET (1..k) /\ IsFiniteSet(left)
      <3>1. left \in SUBSET (1..k)
        BY <2>2 DEF Underway
      <3>2. IsFiniteSet(1..k)
        BY FS_Interval
      <3> QED
        BY <3>1, <3>2, FS_Subset
    <2>4. left # {}
      <3>1. Cardinality(left) # 0
        BY <2>1, <2>2
      <3> QED
        BY <3>1, FS_EmptySet
    <2>5. done[n + 1] = OneMore(edits, done[n])
      BY <2>1, <2>2, <2>4
    <2> DEFINE i == FromTheBottom(edits, left)
    <2>6. done[n + 1] \in Underway(k) /\ done[n + 1].left = left \ {i} /\ i \in left
      BY <2>2, <2>4, <2>5, OneMoreEdit
    <2> HIDE DEF i
    <2>7. Cardinality(left \ {i}) = Cardinality(left) - 1
      BY <2>3, <2>6, FS_RemoveElement
    <2>8. Cardinality(left \ {i}) = k - (n + 1)
      BY <2>1, <2>2, <2>7
    <2> QED
      BY <2>1, <2>6, <2>8
  <1>3. \A n \in 0..(k - 1) : n \in S => n + 1 \in S
    BY <1>2
  <1> HIDE DEF S
  <1>4. \A n \in 0..k : n \in S
    BY <1>1, <1>3, UpTo
  <1> QED
    BY <1>4 DEF S

(* The edits of a call, one after another.                                 *)
Makes(done, content, k, edits) ==
    /\ done[0] = NoneMade(content, k)
    /\ \A n \in 1..k : done[n] = OneMore(edits, done[n - 1])
    /\ \A n \in 0..k : done[n] \in Underway(k) /\ Cardinality(done[n].left) = k - n

LEMMA EditedMakes ==
    ASSUME NEW content \in Seq(FileLine), NEW k \in Nat, NEW edits \in [1..k -> LineEdit]
    PROVE  \E done : Makes(done, content, k, edits) /\ Edited(content, edits) = done[k]
  <1> DEFINE Solves(g) == g = [n \in 0..k |->
                                IF n = 0 THEN NoneMade(content, k) ELSE OneMore(edits, g[n - 1])]
             done == CHOOSE g : Solves(g)
             step == [p \in (1..k) \X Underway(k) |->
                        IF p[2].left = {} THEN p[2] ELSE OneMore(edits, p[2])]
  <1>1. Edited(content, edits) = done[k]
    <2>1. edits \in Seq(LineEdit) /\ Len(edits) = k /\ DOMAIN edits = 1..k
      OBVIOUS
    <2> QED
      BY <2>1 DEF Edited, NoneMade
  <1>2. NoneMade(content, k) \in Underway(k)
    BY DEF NoneMade, Underway
  <1>3. step \in [(1..k) \X Underway(k) -> Underway(k)]
    <2> SUFFICES ASSUME NEW p \in (1..k) \X Underway(k)
                 PROVE  (IF p[2].left = {} THEN p[2] ELSE OneMore(edits, p[2])) \in Underway(k)
      OBVIOUS
    <2>1. p[2] \in Underway(k)
      OBVIOUS
    <2> QED
      BY <2>1, OneMoreEdit
  <1>4. \A n \in 1..k, v \in Underway(k) : v.left # {} => step[<<n, v>>] = OneMore(edits, v)
    OBVIOUS
  <1> HIDE DEF step
  <1>5. PICK f : Recurs(f, k, Underway(k), NoneMade(content, k), step)
    BY <1>2, <1>3, Iterated
  <1>6. /\ f \in [0..k -> Underway(k)] /\ f[0] = NoneMade(content, k)
        /\ \A n \in 1..k : f[n] = step[<<n, f[n - 1]>>]
    BY <1>5 DEF Recurs
  <1>7. \A n \in 1..k : f[n - 1] \in Underway(k) /\ f[n - 1].left # {} =>
                            f[n] = OneMore(edits, f[n - 1])
    BY <1>4, <1>6
  <1>8. \A n \in 0..k : f[n] \in Underway(k) /\ Cardinality(f[n].left) = k - n
    BY <1>6, <1>7, EditsTyped
  <1>9. \A n \in 1..k : f[n] = OneMore(edits, f[n - 1])
    <2> TAKE n \in 1..k
    <2>1. n - 1 \in 0..k /\ k - (n - 1) # 0
      OBVIOUS
    <2>2. f[n - 1] \in Underway(k) /\ Cardinality(f[n - 1].left) # 0
      BY <1>8, <2>1
    <2>3. f[n - 1].left # {}
      BY <2>2, FS_EmptySet
    <2> QED
      BY <1>7, <2>2, <2>3
  <1>10. Solves(f)
    <2>1. \A n \in 0..k : n # 0 => n \in 1..k
      OBVIOUS
    <2>2. \A n \in 0..k :
            f[n] = IF n = 0 THEN NoneMade(content, k) ELSE OneMore(edits, f[n - 1])
      BY <1>6, <1>9, <2>1
    <2> QED
      BY <1>6, <2>2
  <1>11. Solves(done)
    BY <1>10
  <1> HIDE DEF done
  <1>12. done[0] = NoneMade(content, k) /\ \A n \in 1..k : done[n] = OneMore(edits, done[n - 1])
    <2>1. \A n \in 0..k :
            done[n] = IF n = 0 THEN NoneMade(content, k) ELSE OneMore(edits, done[n - 1])
      BY <1>11, Zenon
    <2>2. 0 \in 0..k /\ \A n \in 1..k : n \in 0..k /\ n # 0
      OBVIOUS
    <2> QED
      BY <2>1, <2>2, Zenon
  <1>13. \A n \in 0..k : done[n] \in Underway(k) /\ Cardinality(done[n].left) = k - n
    BY <1>12, EditsTyped
  <1> QED
    BY <1>1, <1>12, <1>13 DEF Makes

-----------------------------------------------------------------------------
(* Edits made from the bottom find their lines where they are numbered *)

Top(content, n) == SubSeq(content, 1, IF n <= Len(content) THEN n ELSE Len(content))

\* The lines above n as they were, and from n on as they become.
Whole(content, from, n) == Top(content, n - 1) \o from[n]

\* No edit puts in or takes out anything at n.
Untouched(edits, n) ==
    \A i \in DOMAIN edits : edits[i].start # n /\ n \notin edits[i].start..edits[i].end

LEMMA TopLines ==
    ASSUME NEW content \in Seq(FileLine), NEW n \in Nat
    PROVE  /\ Top(content, n) \in Seq(FileLine)
           /\ n <= Len(content) => Len(Top(content, n)) = n
           /\ n >= Len(content) => Top(content, n) = content
           /\ n \in 1..Len(content) => Top(content, n) = Top(content, n - 1) \o <<content[n]>>
  <1> DEFINE m == IF n <= Len(content) THEN n ELSE Len(content)
  <1>1. m \in 0..Len(content) /\ m \in Int /\ 1 \in Int
    OBVIOUS
  <1>2. \A i \in 1..m : content[i] \in FileLine
    BY <1>1
  <1>3. Top(content, n) = SubSeq(content, 1, m)
    BY DEF Top
  <1>4. /\ SubSeq(content, 1, m) \in Seq(FileLine)
        /\ Len(SubSeq(content, 1, m)) = IF 1 <= m THEN (m - 1) + 1 ELSE 0
    <2> HIDE DEF m
    <2> QED
      BY <1>1, <1>2, SubSeqProperties
  <1>5. n <= Len(content) => Len(Top(content, n)) = n
    BY <1>1, <1>3, <1>4
  <1>6. n >= Len(content) => Top(content, n) = content
    <2>1. n >= Len(content) => m = Len(content)
      OBVIOUS
    <2>2. SubSeq(content, 1, Len(content)) = content
      BY SubSeqFull
    <2> QED
      BY <1>3, <2>1, <2>2
  <1>7. ASSUME n \in 1..Len(content) PROVE Top(content, n) = Top(content, n - 1) \o <<content[n]>>
    <2>1. /\ 1 \in 1..(Len(content) + 1) /\ n - 1 \in (1 - 1)..Len(content)
          /\ n \in (n - 1)..Len(content) /\ (n - 1) + 1 = n
      BY <1>7
    <2>2. SubSeq(content, 1, n - 1) \o SubSeq(content, (n - 1) + 1, n) = SubSeq(content, 1, n)
      BY <2>1, ConcatAdjacentSubSeq
    <2>3. SubSeq(content, n, n) = <<content[n]>>
      <3>1. n \in Int /\ (n - n) + 1 = 1 /\ n <= n /\ \A i \in n..n : content[i] \in FileLine
        BY <1>7
      <3> DEFINE t == SubSeq(content, n, n)
      <3>2. /\ t \in Seq(FileLine) /\ Len(t) = 1
            /\ \A i \in 1..1 : t[i] = content[(n + i) - 1]
        BY <3>1, SubSeqProperties
      <3>3. 1 \in 1..1 /\ (n + 1) - 1 = n
        OBVIOUS
      <3> HIDE DEF t
      <3>4. t[1] = content[n] /\ content[n] \in FileLine
        BY <3>1, <3>2, <3>3
      <3> DEFINE line == <<content[n]>>
      <3>5. line \in Seq(FileLine) /\ Len(line) = 1 /\ line[1] = content[n]
        BY <3>4
      <3> HIDE DEF line
      <3>6. Len(t) = Len(line) /\ \A i \in 1..Len(t) : t[i] = line[i]
        BY <3>2, <3>4, <3>5
      <3>7. t = line
        BY <3>2, <3>5, <3>6, SeqEqual
      <3> QED
        BY <3>7 DEF t, line
    <2>4. Top(content, n) = SubSeq(content, 1, n) /\ Top(content, n - 1) = SubSeq(content, 1, n - 1)
      BY <1>7 DEF Top
    <2> QED
      BY <2>1, <2>2, <2>3, <2>4
  <1> QED
    BY <1>3, <1>4, <1>5, <1>6, <1>7

LEMMA PassOver ==
    ASSUME NEW content \in Seq(FileLine), NEW k \in Nat, NEW edits \in [1..k -> LineEdit],
           NEW from, Follows(from, content, edits),
           NEW n \in 1..(Len(content) + 1), Untouched(edits, n)
    PROVE  Whole(content, from, n) = Whole(content, from, n + 1)
  <1> DEFINE rest == from[n + 1]
             above == Top(content, n - 1)
  <1>1. n \in Nat /\ n - 1 \in Nat /\ n + 1 \in 1..(Len(content) + 2)
    OBVIOUS
  <1>2. rest \in Seq(FileLine) /\ from[n] = Pieces(content, edits, n) \o rest
    BY <1>1 DEF Follows
  <1>3. above \in Seq(FileLine)
    BY <1>1, TopLines
  <1>4. /\ {i \in DOMAIN edits : edits[i].start = n} = {}
        /\ ~\E i \in DOMAIN edits : n \in edits[i].start..edits[i].end
    BY DEF Untouched
  <1>5. Pieces(content, edits, n) = <<>> \o (IF n > Len(content) THEN <<>> ELSE <<content[n]>>)
    BY <1>4 DEF Pieces
  <1>6. ASSUME n > Len(content) PROVE Top(content, n - 1) \o from[n] = Top(content, n) \o from[n + 1]
    <2>1. n - 1 >= Len(content) /\ n >= Len(content)
      BY <1>1, <1>6
    <2>2. above = content /\ Top(content, n) = content
      BY <1>1, <2>1, TopLines
    <2>3. Pieces(content, edits, n) = <<>>
      BY <1>5, <1>6
    <2> HIDE DEF rest, above
    <2>4. <<>> \o rest = rest
      BY <1>2
    <2> QED
      BY <1>2, <2>2, <2>3, <2>4 DEF rest, above
  <1>7. ASSUME n <= Len(content) PROVE Top(content, n - 1) \o from[n] = Top(content, n) \o from[n + 1]
    <2> DEFINE line == <<content[n]>>
    <2>1. n \in 1..Len(content)
      BY <1>1, <1>7
    <2>2. line \in Seq(FileLine)
      BY <2>1
    <2>3. Top(content, n) = above \o line
      BY <1>1, <2>1, TopLines
    <2>4. Pieces(content, edits, n) = line
      BY <1>5, <1>7, <1>1
    <2> HIDE DEF rest, above, line
    <2>5. (above \o line) \o rest = above \o (line \o rest)
      BY <1>2, <1>3, <2>2, ConcatAssociative
    <2> QED
      BY <1>2, <2>3, <2>4, <2>5 DEF rest, above
  <1>8. n > Len(content) \/ n <= Len(content)
    BY <1>1
  <1>9. Top(content, n - 1) \o from[n] = Top(content, n) \o from[n + 1]
    BY <1>6, <1>7, <1>8
  <1>10. (n + 1) - 1 = n
    BY <1>1
  <1> QED
    BY <1>9, <1>10 DEF Whole

LEMMA PassOverAll ==
    ASSUME NEW content \in Seq(FileLine), NEW k \in Nat, NEW edits \in [1..k -> LineEdit],
           NEW from, Follows(from, content, edits),
           NEW a \in 1..(Len(content) + 2), NEW b \in a..(Len(content) + 2),
           \A n \in a..(b - 1) : Untouched(edits, n)
    PROVE  Whole(content, from, a) = Whole(content, from, b)
  <1> DEFINE S == {d \in 0..(b - a) : Whole(content, from, a) = Whole(content, from, a + d)}
  <1>1. b - a \in Nat /\ 0 \in 0..(b - a) /\ a + 0 = a /\ a + (b - a) = b /\ a \in Nat
    OBVIOUS
  <1>2. 0 \in S
    BY <1>1
  <1>3. ASSUME NEW d \in 0..((b - a) - 1), d \in S PROVE d + 1 \in S
    <2> DEFINE n == a + d
    <2>1. /\ n \in 1..(Len(content) + 1) /\ n \in a..(b - 1) /\ d + 1 \in 0..(b - a)
          /\ a + (d + 1) = n + 1
      OBVIOUS
    <2>2. Whole(content, from, a) = Whole(content, from, n)
      BY <1>3
    <2>3. Untouched(edits, n)
      BY <2>1
    <2> HIDE DEF n
    <2>4. Whole(content, from, n) = Whole(content, from, n + 1)
      BY <2>1, <2>3, PassOver
    <2> QED
      BY <2>1, <2>2, <2>4
  <1>4. b - a \in S
    <2>1. \A d \in 0..((b - a) - 1) : d \in S => d + 1 \in S
      BY <1>3
    <2> HIDE DEF S
    <2>2. \A d \in 0..(b - a) : d \in S
      BY <1>1, <1>2, <2>1, UpTo
    <2>3. b - a \in 0..(b - a)
      BY <1>1
    <2> QED
      BY <2>2, <2>3
  <1> QED
    BY <1>1, <1>4

\* An edit that keeps to the file.
Fits(e, content) == ~OutOfRange(e, Len(content))

LEMMA FitShape ==
    ASSUME NEW content \in Seq(FileLine), NEW e \in LineEdit, Fits(e, content)
    PROVE  /\ e.start \in 1..(Len(content) + 1) /\ e.end \in 0..Len(content)
           /\ e.end >= e.start - 1 /\ e.start \in Nat /\ e.end \in Nat
           /\ ~Inserts(e) => e.start \in 1..Len(content) /\ e.end >= e.start
           /\ Inserts(e) => e.end = e.start - 1
  <1>1. Len(content) \in Nat
    OBVIOUS
  <1> QED
    BY <1>1, EditShape DEF Fits, OutOfRange, Inserts

(* What is left of the lines from e on when e takes effect.                *)
Behind(content, from, e) ==
    (IF Inserts(e) /\ e.start <= Len(content) THEN <<content[e.start]>> ELSE <<>>)
    \o from[(IF Inserts(e) THEN e.start ELSE e.end) + 1]

\* The lines that e replaces are gone.
LEMMA Skips ==
    ASSUME NEW content \in Seq(FileLine), NEW k \in Nat, NEW edits \in [1..k -> LineEdit],
           Apart(edits), NEW from, Follows(from, content, edits),
           NEW i \in 1..k, Fits(edits[i], content), ~Inserts(edits[i])
    PROVE  from[edits[i].start + 1] = from[edits[i].end + 1]
  <1> DEFINE s == edits[i].start
             e == edits[i].end
             S == {d \in 0..(e - s) : from[s + 1] = from[(s + 1) + d]}
  <1>1. s \in 1..Len(content) /\ e \in s..Len(content) /\ s \in Nat /\ e \in Nat
    BY FitShape
  <1>2. \A n \in (s + 1)..e : Pieces(content, edits, n) = <<>>
    <2> SUFFICES ASSUME NEW n \in (s + 1)..e PROVE Pieces(content, edits, n) = <<>>
      OBVIOUS
    <2>1. n \in s..e /\ n # s
      BY <1>1
    <2>2. i \in DOMAIN edits
      OBVIOUS
    <2>3. ASSUME NEW j \in DOMAIN edits PROVE edits[j].start # n
      <3>1. CASE j = i
        BY <2>1, <3>1
      <3>2. CASE j # i
        <4>1. edits[j].start \notin s..e
          BY <2>2, <3>2 DEF Apart
        <4> QED
          BY <2>1, <4>1
      <3> QED
        BY <3>1, <3>2
    <2>4. {j \in DOMAIN edits : edits[j].start = n} = {}
      BY <2>3
    <2>5. \E j \in DOMAIN edits : n \in edits[j].start..edits[j].end
      BY <2>1, <2>2
    <2>6. Pieces(content, edits, n) = <<>> \o <<>>
      BY <2>4, <2>5 DEF Pieces
    <2> QED
      BY <2>6
  <1> HIDE DEF s, e
  <1>3. e - s \in Nat /\ 0 \in 0..(e - s) /\ (s + 1) + 0 = s + 1 /\ (s + 1) + (e - s) = e + 1
        /\ e - s \in 0..(e - s)
    BY <1>1
  <1>4. 0 \in S
    BY <1>3
  <1>5. ASSUME NEW d \in 0..((e - s) - 1), d \in S PROVE d + 1 \in S
    <2> DEFINE n == (s + 1) + d
               rest == from[n + 1]
    <2>1. /\ n \in (s + 1)..e /\ n \in 1..(Len(content) + 1) /\ n + 1 \in 1..(Len(content) + 2)
          /\ (s + 1) + (d + 1) = n + 1 /\ d + 1 \in 0..(e - s)
      BY <1>1
    <2>2. from[s + 1] = from[n]
      BY <1>5
    <2> HIDE DEF n
    <2>3. from[n] = <<>> \o rest /\ rest \in Seq(FileLine)
      BY <1>2, <2>1 DEF Follows
    <2> HIDE DEF rest
    <2>4. from[n] = rest
      BY <2>3
    <2> QED
      BY <2>1, <2>2, <2>4 DEF rest
  <1>6. \A d \in 0..((e - s) - 1) : d \in S => d + 1 \in S
    BY <1>5
  <1>7. e - s \in S
    <2> HIDE DEF S
    <2>1. \A d \in 0..(e - s) : d \in S
      BY <1>3, <1>4, <1>6, UpTo
    <2> QED
      BY <1>3, <2>1
  <1>8. from[s + 1] = from[e + 1]
    BY <1>3, <1>7
  <1> QED
    BY <1>8 DEF s, e

\* Where the lines behind an edit begin.
After(e) == (IF Inserts(e) THEN e.start ELSE e.end) + 1

LEMMA BehindLines ==
    ASSUME NEW content \in Seq(FileLine), NEW k \in Nat, NEW edits \in [1..k -> LineEdit],
           NEW from, Follows(from, content, edits),
           NEW e \in LineEdit, Fits(e, content)
    PROVE  /\ After(e) \in 1..(Len(content) + 2)
           /\ from[After(e)] \in Seq(FileLine)
           /\ Behind(content, from, e) \in Seq(FileLine)
           /\ Whole(content, from, After(e)) = Top(content, e.end) \o Behind(content, from, e)
  <1> DEFINE s    == e.start
             rest == from[After(e)]
             above == Top(content, e.end)
             kept == IF Inserts(e) /\ s <= Len(content) THEN <<content[s]>> ELSE <<>>
  <1>1. /\ s \in 1..(Len(content) + 1) /\ e.end \in 0..Len(content)
        /\ ~Inserts(e) => s \in 1..Len(content) /\ e.end >= s
        /\ Inserts(e) => e.end = s - 1
    BY FitShape
  <1>2. After(e) \in 1..(Len(content) + 2) /\ After(e) \in Nat
    BY <1>1 DEF After
  <1>3. rest \in Seq(FileLine)
    BY <1>2 DEF Follows
  <1>4. kept \in Seq(FileLine)
    <2>1. CASE Inserts(e) /\ s <= Len(content)
      <3>1. s \in 1..Len(content)
        BY <1>1, <2>1
      <3>2. content[s] \in FileLine
        BY <3>1
      <3> HIDE DEF s
      <3> QED
        BY <2>1, <3>2
    <2>2. CASE ~(Inserts(e) /\ s <= Len(content))
      BY <2>2
    <2> QED
      BY <2>1, <2>2
  <1>5. above \in Seq(FileLine)
    <2>1. e.end \in Nat
      BY <1>1
    <2> QED
      BY <2>1, TopLines
  <1>6. Behind(content, from, e) = kept \o rest
    BY DEF Behind, After
  <1>7. Top(content, After(e) - 1) = above \o kept
    <2>1. CASE ~Inserts(e)
      <3>1. After(e) - 1 = e.end /\ kept = <<>>
        BY <1>1, <2>1 DEF After
      <3> HIDE DEF kept
      <3>2. above \o <<>> = above
        BY <1>5, ConcatEmptySeq
      <3> QED
        BY <3>1, <3>2
    <2>2. CASE Inserts(e) /\ s <= Len(content)
      <3>1. After(e) - 1 = s /\ kept = <<content[s]>> /\ e.end = s - 1 /\ s \in 1..Len(content) /\ s \in Nat
        BY <1>1, <2>2 DEF After
      <3>2. Top(content, s) = Top(content, s - 1) \o <<content[s]>>
        BY <3>1, TopLines
      <3> QED
        BY <3>1, <3>2
    <2>3. CASE Inserts(e) /\ ~(s <= Len(content))
      <3>1. After(e) - 1 = s /\ kept = <<>> /\ e.end >= Len(content) /\ s >= Len(content) /\ s \in Nat /\ e.end \in Nat
        BY <1>1, <2>3 DEF After
      <3>2. Top(content, s) = content /\ above = content
        BY <3>1, TopLines
      <3> HIDE DEF kept, above
      <3>3. above \o <<>> = above
        BY <1>5, ConcatEmptySeq
      <3> QED
        BY <3>1, <3>2, <3>3
    <2> QED
      BY <2>1, <2>2, <2>3
  <1> HIDE DEF rest, above, kept, s
  <1>8. kept \o rest \in Seq(FileLine) /\ (above \o kept) \o rest = above \o (kept \o rest)
    BY <1>3, <1>4, <1>5, ConcatAssociative
  <1> QED
    BY <1>2, <1>3, <1>6, <1>7, <1>8 DEF Whole, rest, above

LEMMA AtStart ==
    ASSUME NEW content \in Seq(FileLine), NEW k \in Nat, NEW edits \in [1..k -> LineEdit],
           Apart(edits), NEW from, Follows(from, content, edits),
           NEW i \in 1..k, Fits(edits[i], content)
    PROVE  from[edits[i].start] = edits[i].text \o Behind(content, from, edits[i])
  <1> DEFINE s    == edits[i].start
             text == edits[i].text
             kept == IF Inserts(edits[i]) /\ s <= Len(content) THEN <<content[s]>> ELSE <<>>
             rest == from[After(edits[i])]
             at   == {j \in DOMAIN edits : edits[j].start = s}
  <1>0. i \in DOMAIN edits /\ edits[i] \in LineEdit
    OBVIOUS
  <1>1. /\ s \in 1..(Len(content) + 1) /\ edits[i].end \in 0..Len(content)
        /\ ~Inserts(edits[i]) => s \in 1..Len(content) /\ edits[i].end >= s
        /\ Inserts(edits[i]) => edits[i].end = s - 1
    BY <1>0, FitShape
  <1>2. at = {i}
    BY <1>0 DEF Apart
  <1>3. (\E j \in DOMAIN edits : s \in edits[j].start..edits[j].end) <=> ~Inserts(edits[i])
    <2>1. \A j \in DOMAIN edits : j # i => s \notin edits[j].start..edits[j].end
      BY <1>0 DEF Apart
    <2>2. s \in edits[i].start..edits[i].end <=> ~Inserts(edits[i])
      BY <1>1
    <2> QED
      BY <1>0, <2>1, <2>2
  <1>4. Pieces(content, edits, s) = text \o kept
    <2>1. (CHOOSE j \in at : TRUE) = i /\ at # {}
      BY <1>2
    <2>2. (s > Len(content) \/ ~Inserts(edits[i])) <=> ~(Inserts(edits[i]) /\ s <= Len(content))
      BY <1>1
    <2> HIDE DEF s
    <2>3. Pieces(content, edits, s) =
            text \o (IF s > Len(content) \/ ~Inserts(edits[i]) THEN <<>> ELSE <<content[s]>>)
      BY <1>3, <2>1 DEF Pieces
    <2> QED
      BY <2>2, <2>3
  <1>5. text \in Seq(FileLine)
    BY <1>0, EditShape
  <1>6. kept \in Seq(FileLine)
    <2>1. CASE Inserts(edits[i]) /\ s <= Len(content)
      <3>1. s \in 1..Len(content)
        BY <1>1, <2>1
      <3>2. content[s] \in FileLine
        BY <3>1
      <3> HIDE DEF s
      <3> QED
        BY <2>1, <3>2
    <2>2. CASE ~(Inserts(edits[i]) /\ s <= Len(content))
      BY <2>2
    <2> QED
      BY <2>1, <2>2
  <1>7. rest \in Seq(FileLine)
    BY <1>0, BehindLines
  <1>8. from[s + 1] = rest
    <2>1. CASE Inserts(edits[i])
      BY <2>1 DEF After
    <2>2. CASE ~Inserts(edits[i])
      BY <2>2, Skips DEF After
    <2> QED
      BY <2>1, <2>2
  <1>9. from[s] = Pieces(content, edits, s) \o from[s + 1]
    BY <1>1 DEF Follows
  <1>10. Behind(content, from, edits[i]) = kept \o rest
    BY DEF Behind, After
  <1> HIDE DEF s, text, kept, rest
  <1>11. (text \o kept) \o rest = text \o (kept \o rest)
    BY <1>5, <1>6, <1>7, ConcatAssociative
  <1>12. from[s] = text \o Behind(content, from, edits[i])
    BY <1>4, <1>8, <1>9, <1>10, <1>11
  <1> QED
    BY <1>12 DEF s, text

LEMMA Cut ==
    ASSUME NEW u \in Seq(FileLine), NEW v \in Seq(FileLine), NEW m \in 0..Len(u)
    PROVE  /\ SubSeq(u \o v, 1, m) = SubSeq(u, 1, m)
           /\ SubSeq(u \o v, Len(u) + 1, Len(u \o v)) = v
           /\ Len(u \o v) >= Len(u)
  <1> DEFINE w == u \o v
  <1>1. /\ w \in Seq(FileLine) /\ Len(w) = Len(u) + Len(v)
        /\ \A j \in 1..(Len(u) + Len(v)) : w[j] = IF j <= Len(u) THEN u[j] ELSE v[j - Len(u)]
    BY ConcatProperties
  <1> HIDE DEF w
  <1>2. Len(u) \in Nat /\ Len(v) \in Nat /\ m \in Nat /\ m <= Len(u)
    OBVIOUS
  <1>3. SubSeq(w, 1, m) = SubSeq(u, 1, m)
    <2>1. 1 \in Int /\ m \in Int /\ \A j \in 1..m : j \in 1..(Len(u) + Len(v)) /\ w[j] = u[j] /\ u[j] \in FileLine
      BY <1>1, <1>2
    <2> DEFINE p == SubSeq(w, 1, m)
               q == SubSeq(u, 1, m)
    <2>2. p \in Seq(FileLine) /\ Len(p) = (IF 1 <= m THEN (m - 1) + 1 ELSE 0)
          /\ \A j \in 1..((m - 1) + 1) : p[j] = w[(1 + j) - 1]
      BY <2>1, SubSeqProperties
    <2>3. q \in Seq(FileLine) /\ Len(q) = (IF 1 <= m THEN (m - 1) + 1 ELSE 0)
          /\ \A j \in 1..((m - 1) + 1) : q[j] = u[(1 + j) - 1]
      BY <2>1, SubSeqProperties
    <2> HIDE DEF p, q
    <2>4. (m - 1) + 1 = m /\ Len(p) = m /\ Len(q) = m
      BY <1>2, <2>2, <2>3
    <2>5. \A j \in 1..Len(p) : p[j] = q[j]
      <3> TAKE j \in 1..Len(p)
      <3>1. j \in 1..m /\ (1 + j) - 1 = j /\ j \in 1..((m - 1) + 1)
        BY <2>4
      <3> QED
        BY <2>1, <2>2, <2>3, <3>1
    <2>6. p = q
      BY <2>2, <2>3, <2>4, <2>5, SeqEqual
    <2> QED
      BY <2>6 DEF p, q
  <1>4. SubSeq(w, Len(u) + 1, Len(w)) = v
    <2> DEFINE a == Len(u) + 1
               b == Len(w)
    <2>1. a \in Int /\ b \in Int /\ a = Len(u) + 1 /\ b = Len(u) + Len(v) /\ (b - a) + 1 = Len(v)
          /\ (IF a <= b THEN (b - a) + 1 ELSE 0) = Len(v)
      BY <1>1, <1>2
    <2>2. \A j \in a..b : w[j] \in FileLine
      BY <1>1, <1>2
    <2> HIDE DEF a, b
    <2> DEFINE p == SubSeq(w, a, b)
    <2>3. p \in Seq(FileLine) /\ Len(p) = Len(v)
          /\ \A j \in 1..((b - a) + 1) : p[j] = w[(a + j) - 1]
      BY <2>1, <2>2, SubSeqProperties
    <2> HIDE DEF p
    <2>4. \A j \in 1..Len(p) : p[j] = v[j]
      <3> TAKE j \in 1..Len(p)
      <3>1. /\ j \in 1..((b - a) + 1) /\ (a + j) - 1 = Len(u) + j /\ Len(u) + j \in 1..(Len(u) + Len(v))
            /\ ~(Len(u) + j <= Len(u)) /\ (Len(u) + j) - Len(u) = j
        BY <1>2, <2>1, <2>3
      <3> QED
        BY <1>1, <2>3, <3>1
    <2>5. p = v
      BY <2>3, <2>4, SeqEqual
    <2> QED
      BY <2>5 DEF p, a, b
  <1>5. Len(w) >= Len(u)
    BY <1>1, <1>2
  <1> QED
    BY <1>3, <1>4, <1>5 DEF w

\* An edit made when the lines behind it are as they become, and those above as
\* they were.
LEMMA MadeInPlace ==
    ASSUME NEW content \in Seq(FileLine), NEW k \in Nat, NEW edits \in [1..k -> LineEdit],
           Apart(edits), NEW from, Follows(from, content, edits),
           NEW i \in 1..k, Fits(edits[i], content),
           NEW lines, lines = Whole(content, from, After(edits[i]))
    PROVE  /\ ~OutOfRange(edits[i], Len(lines))
           /\ ApplyEdit(lines, edits[i]) = Whole(content, from, edits[i].start)
  <1> DEFINE s == edits[i].start
             e == edits[i].end
             text  == edits[i].text
             above == Top(content, e)
             below == Behind(content, from, edits[i])
  <1>0. edits[i] \in LineEdit
    OBVIOUS
  <1>1. /\ s \in 1..(Len(content) + 1) /\ e \in 0..Len(content) /\ e >= s - 1
        /\ s \in Nat /\ e \in Nat /\ s - 1 \in Nat /\ s - 1 <= Len(content)
        /\ ~Inserts(edits[i]) => s \in 1..Len(content) /\ e >= s
        /\ Inserts(edits[i]) => e = s - 1
    BY <1>0, FitShape
  <1>2. lines = above \o below /\ below \in Seq(FileLine)
    BY <1>0, BehindLines
  <1>3. above \in Seq(FileLine) /\ Len(above) = e
    <2>1. e \in Nat /\ e <= Len(content)
      BY <1>1
    <2> HIDE DEF e
    <2> QED
      BY <2>1, TopLines
  <1>4. text \in Seq(FileLine)
    BY <1>0, EditShape
  <1>5. SubSeq(above, 1, s - 1) = Top(content, s - 1)
    <2> DEFINE tail == SubSeq(content, (s - 1) + 1, e)
    <2>1. /\ 1 \in 1..(Len(content) + 1) /\ s - 1 \in (1 - 1)..Len(content) /\ e \in (s - 1)..Len(content)
      BY <1>1
    <2>2. SubSeq(content, 1, s - 1) \o tail = SubSeq(content, 1, e)
      BY <2>1, ConcatAdjacentSubSeq
    <2>3. above = SubSeq(content, 1, e) /\ Top(content, s - 1) = SubSeq(content, 1, s - 1)
      BY <1>1 DEF Top
    <2>4. Top(content, s - 1) \in Seq(FileLine) /\ Len(Top(content, s - 1)) = s - 1
      BY <1>1, TopLines
    <2>5. tail \in Seq(FileLine)
      <3>1. (s - 1) + 1 \in Int /\ e \in Int /\ \A j \in ((s - 1) + 1)..e : content[j] \in FileLine
        BY <1>1
      <3> QED
        BY <3>1, SubSeqProperties
    <2> DEFINE head == Top(content, s - 1)
    <2> HIDE DEF tail, head, s, e
    <2>6. above = head \o tail /\ head \in Seq(FileLine) /\ Len(head) = s - 1
      BY <2>2, <2>3, <2>4 DEF head
    <2>7. s - 1 \in 0..Len(head)
      BY <1>1, <2>6
    <2>8. SubSeq(head \o tail, 1, s - 1) = SubSeq(head, 1, s - 1)
      BY <2>5, <2>6, <2>7, Cut
    <2>9. SubSeq(head, 1, s - 1) = head
      BY <2>6, SubSeqFull
    <2> QED
      BY <2>6, <2>8, <2>9 DEF head
  <1>6. ApplyEdit(lines, edits[i]) = SubSeq(lines, 1, s - 1) \o text \o SubSeq(lines, e + 1, Len(lines))
    BY DEF ApplyEdit
  <1>7. Whole(content, from, s) = Top(content, s - 1) \o (text \o below)
    BY AtStart DEF Whole
  <1>8. Top(content, s - 1) \in Seq(FileLine)
    BY <1>1, TopLines
  <1> DEFINE head == Top(content, s - 1)
  <1>9. OutOfRange(edits[i], Len(lines)) <=>
            IF Inserts(edits[i]) THEN s > Len(lines) + 1 ELSE s > Len(lines) \/ e > Len(lines)
    BY DEF OutOfRange
  <1> HIDE DEF s, e, text, above, below
  <1>10. s - 1 \in 0..Len(above)
    BY <1>1, <1>3
  <1>11. /\ SubSeq(lines, 1, s - 1) = head
         /\ SubSeq(lines, e + 1, Len(lines)) = below
         /\ Len(lines) >= e
    <2> HIDE DEF head
    <2>1. /\ SubSeq(above \o below, 1, s - 1) = SubSeq(above, 1, s - 1)
          /\ SubSeq(above \o below, Len(above) + 1, Len(above \o below)) = below
          /\ Len(above \o below) >= Len(above)
      BY <1>2, <1>3, <1>10, Cut
    <2>2. SubSeq(above, 1, s - 1) = head
      BY <1>5 DEF head
    <2> QED
      BY <1>2, <1>3, <2>1, <2>2
  <1>12. ~OutOfRange(edits[i], Len(lines))
    <2>1. lines \in Seq(FileLine)
      BY <1>2, <1>3
    <2>2. Len(lines) \in Nat
      BY <2>1
    <2> QED
      BY <1>1, <1>9, <1>11, <2>2
  <1>13. head \o text \o below = head \o (text \o below)
    <2> HIDE DEF head
    <2> QED
      BY <1>2, <1>4, <1>8, ConcatAssociative DEF head
  <1> QED
    BY <1>6, <1>7, <1>11, <1>12, <1>13 DEF s

(* No edit of those made begins above those left; and where the edits made *)
(* begin at t and those left end above it, the lines from t on are as they *)
(* become, and those above t as they were.                                 *)
InPlace(content, from, k, edits, d) ==
    /\ d.ok
    /\ \A i \in (1..k) \ d.left, j \in d.left : edits[j].start <= edits[i].start
    /\ \A t \in 1..(Len(content) + 2) :
        /\ \A i \in d.left : edits[i].start < t /\ edits[i].end < t
        /\ \A i \in (1..k) \ d.left : edits[i].start >= t
        => d.lines = Whole(content, from, t)

LEMMA NoneInPlace ==
    ASSUME NEW content \in Seq(FileLine), NEW k \in Nat, NEW edits \in [1..k -> LineEdit],
           NEW from, Follows(from, content, edits)
    PROVE  InPlace(content, from, k, edits, NoneMade(content, k))
  <1> DEFINE z == Len(content) + 2
  <1>1. Whole(content, from, z) = content
    <2>1. z - 1 \in Nat /\ z - 1 >= Len(content)
      OBVIOUS
    <2>2. Top(content, z - 1) = content
      BY <2>1, TopLines
    <2>3. from[z] = <<>>
      BY DEF Follows
    <2>4. content \o <<>> = content
      BY ConcatEmptySeq
    <2> HIDE DEF z
    <2> QED
      BY <2>2, <2>3, <2>4 DEF Whole
  <1>2. ASSUME NEW t \in 1..(Len(content) + 2),
               \A i \in 1..k : edits[i].start < t /\ edits[i].end < t
        PROVE  content = Whole(content, from, t)
    <2>1. \A n \in t..(z - 1) : Untouched(edits, n)
      <3> SUFFICES ASSUME NEW n \in t..(z - 1), NEW i \in 1..k
                   PROVE  edits[i].start # n /\ n \notin edits[i].start..edits[i].end
        BY DEF Untouched
      <3>1. edits[i] \in LineEdit /\ edits[i].start < t /\ edits[i].end < t
        BY <1>2
      <3>2. edits[i].start \in Nat /\ edits[i].end \in Nat
        BY <3>1, EditShape
      <3>3. n \in Nat /\ t \in Nat /\ t <= n
        OBVIOUS
      <3> QED
        BY <3>1, <3>2, <3>3
    <2>2. z \in t..(Len(content) + 2)
      OBVIOUS
    <2>3. Whole(content, from, t) = Whole(content, from, z)
      <3> HIDE DEF z
      <3> QED
        BY <2>1, <2>2, PassOverAll
    <2> QED
      BY <1>1, <2>3
  <1> DEFINE d == NoneMade(content, k)
  <1>3. d.ok /\ d.lines = content /\ d.left = 1..k
    BY DEF NoneMade
  <1> HIDE DEF d
  <1>4. InPlace(content, from, k, edits, d)
    <2>1. (1..k) \ d.left = {}
      BY <1>3
    <2> QED
      BY <1>2, <1>3, <2>1 DEF InPlace
  <1> QED
    BY <1>4 DEF d

LEMMA OneMoreInPlace ==
    ASSUME NEW content \in Seq(FileLine), NEW k \in Nat, NEW edits \in [1..k -> LineEdit],
           Apart(edits), \A i \in 1..k : Fits(edits[i], content),
           NEW from, Follows(from, content, edits),
           NEW d \in Underway(k), d.left # {}, InPlace(content, from, k, edits, d)
    PROVE  InPlace(content, from, k, edits, OneMore(edits, d))
  <1> DEFINE i == FromTheBottom(edits, d.left)
             e == edits[i]
             m == OneMore(edits, d)
             t0 == After(e)
  <1>1. d.left \in SUBSET (1..k) /\ d.lines \in Seq(FileLine) /\ d.ok
    BY DEF Underway, InPlace
  <1>2. i \in d.left /\ \A j \in d.left : edits[j].start <= edits[i].start
    BY <1>1, NextFromBottom
  <1>3. m = [ok    |-> d.ok /\ ~OutOfRange(e, Len(d.lines)),
             lines |-> IF d.ok /\ ~OutOfRange(e, Len(d.lines)) THEN ApplyEdit(d.lines, e) ELSE d.lines,
             left  |-> d.left \ {i}]
    BY DEF OneMore
  <1> HIDE DEF i, m
  <1>4. i \in 1..k /\ e \in LineEdit /\ Fits(e, content) /\ DOMAIN edits = 1..k
    BY <1>1, <1>2
  <1>5. \A j \in 1..k : edits[j] \in LineEdit
    OBVIOUS
  <1>6. \A j \in 1..k : edits[j].start \in Nat /\ edits[j].end \in Nat
    BY <1>5, EditShape
  <1>7. /\ e.start \in Nat /\ e.end \in Nat /\ e.end >= e.start - 1 /\ e.start \in 1..(Len(content) + 1)
        /\ ~Inserts(e) => e.end >= e.start
        /\ Inserts(e) => e.end = e.start - 1
    BY <1>4, FitShape
  \* The edits left begin and end above this one, those made begin behind it.
  <1>8. \A j \in d.left : j # i => edits[j].start < e.start /\ edits[j].end < e.start
    <2> SUFFICES ASSUME NEW j \in d.left, j # i
                 PROVE  edits[j].start < e.start /\ edits[j].end < e.start
      OBVIOUS
    <2>1. edits[j].start <= e.start /\ edits[j].start # e.start /\ e.start \notin edits[j].start..edits[j].end
      BY <1>1, <1>2, <1>4 DEF Apart
    <2> QED
      BY <1>1, <1>6, <1>7, <2>1
  <1>9. \A j \in (1..k) \ d.left : edits[j].start >= t0 /\ edits[j].start > e.start
    <2> SUFFICES ASSUME NEW j \in (1..k) \ d.left
                 PROVE  edits[j].start >= t0 /\ edits[j].start > e.start
      OBVIOUS
    <2>1. j # i /\ e.start <= edits[j].start
      BY <1>2 DEF InPlace
    <2>2. edits[j].start # e.start /\ edits[j].start \notin e.start..e.end
      BY <1>4, <2>1 DEF Apart
    <2>3. edits[j].start > e.start /\ edits[j].start > e.end
      BY <1>6, <1>7, <2>1, <2>2
    <2> QED
      BY <1>6, <1>7, <2>3 DEF After
  <1>10. d.lines = Whole(content, from, t0)
    <2>1. t0 \in 1..(Len(content) + 2)
      BY <1>4, BehindLines
    <2>2. e.start < t0 /\ e.end < t0
      BY <1>7 DEF After
    <2>3. ASSUME NEW j \in d.left PROVE edits[j].start < t0 /\ edits[j].end < t0
      <3>1. t0 \in Nat /\ edits[j].start \in Nat /\ edits[j].end \in Nat
        BY <1>1, <1>6, <2>1
      <3>2. CASE j = i
        BY <2>2, <3>2
      <3>3. CASE j # i
        BY <1>7, <1>8, <2>2, <3>1, <3>3
      <3> QED
        BY <3>2, <3>3
    <2> HIDE DEF t0, e
    <2> QED
      BY <1>9, <2>1, <2>3 DEF InPlace
  <1>11. ~OutOfRange(e, Len(d.lines)) /\ ApplyEdit(d.lines, e) = Whole(content, from, e.start)
    BY <1>4, <1>10, MadeInPlace
  <1>12. m.ok /\ m.lines = Whole(content, from, e.start) /\ m.left = d.left \ {i}
    BY <1>1, <1>3, <1>11
  <1>13. ASSUME NEW a \in (1..k) \ m.left, NEW b \in m.left PROVE edits[b].start <= edits[a].start
    <2>1. b \in d.left /\ b # i /\ (a = i \/ a \in (1..k) \ d.left)
      BY <1>12
    <2>2. CASE a = i
      BY <1>2, <2>1, <2>2
    <2>3. CASE a \in (1..k) \ d.left
      BY <2>1, <2>3 DEF InPlace
    <2> QED
      BY <2>1, <2>2, <2>3
  <1>14. ASSUME NEW t \in 1..(Len(content) + 2),
                \A j \in m.left : edits[j].start < t /\ edits[j].end < t,
                \A j \in (1..k) \ m.left : edits[j].start >= t
         PROVE  m.lines = Whole(content, from, t)
    <2>1. t \in Nat /\ t <= e.start
      BY <1>4, <1>12, <1>14
    <2>2. \A n \in t..(e.start - 1) : Untouched(edits, n)
      <3> SUFFICES ASSUME NEW n \in t..(e.start - 1), NEW j \in 1..k
                   PROVE  edits[j].start # n /\ n \notin edits[j].start..edits[j].end
        BY DEF Untouched
      <3>1. n \in Nat /\ t <= n /\ n < e.start
        BY <1>7, <2>1
      <3>2. CASE j \in m.left
        BY <1>6, <1>14, <2>1, <3>1, <3>2
      <3>3. CASE j \notin m.left
        <4>1. edits[j].start >= e.start
          <5>1. j = i \/ j \in (1..k) \ d.left
            BY <1>12, <3>3
          <5> QED
            BY <1>6, <1>7, <1>9, <5>1
        <4> QED
          BY <1>6, <1>7, <3>1, <4>1
      <3> QED
        BY <3>2, <3>3
    <2>3. e.start \in t..(Len(content) + 2)
      BY <1>7, <2>1
    <2>4. Whole(content, from, t) = Whole(content, from, e.start)
      <3> DEFINE b == e.start
      <3>1. b \in t..(Len(content) + 2) /\ \A n \in t..(b - 1) : Untouched(edits, n)
        BY <2>2, <2>3
      <3> HIDE DEF b, e
      <3>2. Whole(content, from, t) = Whole(content, from, b)
        BY <3>1, PassOverAll
      <3> QED
        BY <3>2 DEF b
    <2> QED
      BY <1>12, <2>4
  <1> HIDE DEF e
  <1>15. InPlace(content, from, k, edits, m)
    BY <1>12, <1>13, <1>14 DEF InPlace
  <1> QED
    BY <1>15 DEF m

(* Edits that keep apart and fit in the file are all made, as meant.       *)
LEMMA AllMade ==
    ASSUME NEW content \in Seq(FileLine), NEW k \in Nat, NEW edits \in [1..k -> LineEdit],
           Apart(edits), \A i \in 1..k : Fits(edits[i], content)
    PROVE  Edited(content, edits).ok /\ Joined(Edited(content, edits).lines) = Meant(content, edits)
  <1>1. PICK from : Follows(from, content, edits) /\ Meant(content, edits) = Joined(from[1])
    BY MeantFollows
  <1>2. PICK done : Makes(done, content, k, edits) /\ Edited(content, edits) = done[k]
    BY EditedMakes
  <1>3. /\ done[0] = NoneMade(content, k)
        /\ \A n \in 1..k : done[n] = OneMore(edits, done[n - 1])
        /\ \A n \in 0..k : done[n] \in Underway(k) /\ Cardinality(done[n].left) = k - n
    BY <1>2 DEF Makes
  <1> DEFINE S == {n \in 0..k : InPlace(content, from, k, edits, done[n])}
  <1>4. 0 \in S
    BY <1>1, <1>3, NoneInPlace
  <1>5. ASSUME NEW n \in 0..(k - 1), n \in S PROVE n + 1 \in S
    <2>1. n \in 0..k /\ n + 1 \in 1..k /\ n + 1 \in 0..k /\ (n + 1) - 1 = n /\ k - n # 0
      OBVIOUS
    <2>2. done[n] \in Underway(k) /\ Cardinality(done[n].left) # 0
      BY <1>3, <2>1
    <2>3. done[n].left # {}
      BY <2>2, FS_EmptySet
    <2>4. InPlace(content, from, k, edits, done[n])
      BY <1>5
    <2>5. InPlace(content, from, k, edits, OneMore(edits, done[n]))
      BY <1>1, <2>2, <2>3, <2>4, OneMoreInPlace
    <2> QED
      BY <1>3, <2>1, <2>5
  <1>6. InPlace(content, from, k, edits, done[k])
    <2>1. \A n \in 0..(k - 1) : n \in S => n + 1 \in S
      BY <1>5
    <2> HIDE DEF S
    <2>2. k \in 0..k /\ \A n \in 0..k : n \in S
      BY <1>4, <2>1, UpTo
    <2>3. k \in S
      BY <2>2
    <2> QED
      BY <2>3 DEF S
  <1>7. done[k].left = {}
    <2>1. k \in 0..k /\ k - k = 0
      OBVIOUS
    <2>2. done[k] \in Underway(k) /\ Cardinality(done[k].left) = 0
      BY <1>3, <2>1
    <2>3. done[k].left \in SUBSET (1..k)
      BY <2>2 DEF Underway
    <2>4. IsFiniteSet(done[k].left)
      <3>1. IsFiniteSet(1..k)
        BY FS_Interval
      <3> QED
        BY <2>3, <3>1, FS_Subset
    <2> QED
      BY <2>2, <2>4, FS_EmptySet
  <1>8. done[k].ok /\ done[k].lines = Whole(content, from, 1)
    <2>1. \A i \in 1..k : edits[i].start >= 1
      <3> TAKE i \in 1..k
      <3>1. edits[i] \in LineEdit
        OBVIOUS
      <3> QED
        BY <3>1, EditShape
    <2>2. 1 \in 1..(Len(content) + 2)
      OBVIOUS
    <2> QED
      BY <1>6, <1>7, <2>1, <2>2 DEF InPlace
  <1>9. Whole(content, from, 1) = from[1]
    <2>1. Top(content, 0) \in Seq(FileLine) /\ Len(Top(content, 0)) = 0
      <3>1. 0 \in Nat /\ 0 <= Len(content)
        OBVIOUS
      <3> QED
        BY <3>1, TopLines
    <2>2. Top(content, 0) = <<>>
      BY <2>1, EmptySeq
    <2>3. 1 \in 1..(Len(content) + 2)
      OBVIOUS
    <2> DEFINE rest == from[1]
    <2>4. rest \in Seq(FileLine)
      BY <1>1, <2>3 DEF Follows
    <2> HIDE DEF rest
    <2>5. <<>> \o rest = rest
      BY <2>4, ConcatEmptySeq
    <2>6. 1 - 1 = 0
      OBVIOUS
    <2> QED
      BY <2>2, <2>5, <2>6 DEF Whole, rest
  <1> QED
    BY <1>1, <1>2, <1>8, <1>9

(* If an edit of a call whose edits keep apart does not fit, the first that *)
(* is tried does not.                                                      *)
LEMMA FirstBeyond ==
    ASSUME NEW content \in Seq(FileLine), NEW k \in Nat, NEW edits \in [1..k -> LineEdit],
           Apart(edits), NEW j \in 1..k, ~Fits(edits[j], content)
    PROVE  ~Fits(edits[FromTheBottom(edits, 1..k)], content)
  <1> DEFINE i == FromTheBottom(edits, 1..k)
  <1>1. i \in 1..k /\ edits[j].start <= edits[i].start
    <2>1. 1..k # {} /\ 1..k \in SUBSET (1..k)
      OBVIOUS
    <2> QED
      BY <2>1, NextFromBottom
  <1> HIDE DEF i
  <1>2. edits[i] \in LineEdit /\ edits[j] \in LineEdit /\ DOMAIN edits = 1..k
    BY <1>1
  <1>3. /\ edits[i].start \in Nat /\ edits[i].end \in Nat /\ edits[i].end >= edits[i].start - 1
        /\ edits[j].start \in Nat /\ edits[j].end \in Nat /\ edits[j].end >= edits[j].start - 1
    BY <1>2, EditShape
  <1>4. Len(content) \in Nat
    OBVIOUS
  <1>5. CASE i = j
    BY <1>5 DEF i
  <1>6. CASE i # j
    <2>1. edits[i].start # edits[j].start /\ edits[i].start \notin edits[j].start..edits[j].end
      BY <1>1, <1>2, <1>6 DEF Apart
    <2>2. edits[i].start > edits[j].start /\ edits[i].start > edits[j].end
      BY <1>1, <1>3, <2>1
    <2>3. edits[j].start > Len(content) \/ edits[j].end > Len(content)
      BY <1>3, <1>4 DEF Fits, OutOfRange
    <2>4. edits[i].start > Len(content) + 1
      BY <1>3, <1>4, <2>2, <2>3
    <2>5. OutOfRange(edits[i], Len(content))
      BY <1>3, <1>4, <2>4 DEF OutOfRange
    <2> QED
      BY <2>5 DEF Fits, i
  <1> QED
    BY <1>5, <1>6

LEMMA OneMoreFails ==
    ASSUME NEW edits, NEW d,
           ~d.ok \/ OutOfRange(edits[FromTheBottom(edits, d.left)], Len(d.lines))
    PROVE  ~OneMore(edits, d).ok
  <1> DEFINE fits == d.ok /\ ~OutOfRange(edits[FromTheBottom(edits, d.left)], Len(d.lines))
  <1>1. OneMore(edits, d).ok = fits
    BY DEF OneMore
  <1>2. ~fits
    OBVIOUS
  <1> HIDE DEF fits
  <1> QED
    BY <1>1, <1>2

(* An edit that does not fit is the end of the call.                       *)
LEMMA BeyondRejected ==
    ASSUME NEW content \in Seq(FileLine), NEW k \in Nat, NEW edits \in [1..k -> LineEdit],
           Apart(edits), NEW j \in 1..k, ~Fits(edits[j], content)
    PROVE  ~Edited(content, edits).ok
  <1>1. PICK done : Makes(done, content, k, edits) /\ Edited(content, edits) = done[k]
    BY EditedMakes
  <1>2. /\ done[0] = NoneMade(content, k)
        /\ \A n \in 1..k : done[n] = OneMore(edits, done[n - 1])
    BY <1>1 DEF Makes
  <1> DEFINE S == {n \in 0..(k - 1) : ~done[n + 1].ok}
  <1>3. k - 1 \in Nat /\ 0 \in 0..(k - 1) /\ 1 \in 1..k
    OBVIOUS
  <1>4. \A n \in 1..k : ~done[n - 1].ok => ~done[n].ok
    BY <1>2, OneMoreFails
  <1>5. 0 \in S
    <2>1. done[1] = OneMore(edits, done[0])
      BY <1>2, <1>3
    <2>2. done[0].left = 1..k /\ done[0].lines = content
      BY <1>2 DEF NoneMade
    <2>3. OutOfRange(edits[FromTheBottom(edits, 1..k)], Len(content))
      BY FirstBeyond DEF Fits
    <2>4. ~done[1].ok
      <3> DEFINE d == done[0]
      <3>1. OutOfRange(edits[FromTheBottom(edits, d.left)], Len(d.lines))
        BY <2>2, <2>3
      <3> HIDE DEF d
      <3>2. ~OneMore(edits, d).ok
        BY <3>1, OneMoreFails
      <3> QED
        BY <2>1, <3>2 DEF d
    <2> QED
      BY <1>3, <2>4
  <1>6. ASSUME NEW n \in 0..((k - 1) - 1), n \in S PROVE n + 1 \in S
    <2>1. n + 1 \in 0..(k - 1) /\ (n + 1) + 1 \in 1..k /\ ((n + 1) + 1) - 1 = n + 1
      BY <1>3
    <2>2. ~done[n + 1].ok
      BY <1>6
    <2>3. ~done[(n + 1) + 1].ok
      BY <1>4, <2>1, <2>2
    <2> QED
      BY <2>1, <2>3
  <1>7. \A n \in 0..((k - 1) - 1) : n \in S => n + 1 \in S
    BY <1>6
  <1>8. k - 1 \in S
    <2> HIDE DEF S
    <2>1. \A n \in 0..(k - 1) : n \in S
      BY <1>3, <1>5, <1>7, UpTo
    <2>2. k - 1 \in 0..(k - 1)
      BY <1>3
    <2> QED
      BY <2>1, <2>2
  <1>9. (k - 1) + 1 = k
    OBVIOUS
  <1> QED
    BY <1>1, <1>8, <1>9

-----------------------------------------------------------------------------
(* The files *)

(* An edit that was read and not yet written is right.                     *)
EditUnderway ==
    \A e \in editing :
        /\ e.file \in File
        /\ e.content \in Seq(FileLine)
        /\ AsNumbered(EditOf(e, "updated", e.content))

FileInv ==
    /\ disk \in [File -> Seq(FileLine) \cup {NoFile}]
    /\ EditUnderway
    /\ EditsAsNumbered

\* Where nothing was edited there is nothing to compare.
LEMMA NothingEdited == lastEdit = NoEdit => EditsAsNumbered
  <1> SUFFICES ASSUME lastEdit = NoEdit PROVE EditsAsNumbered
    OBVIOUS
  <1> DEFINE edits == <<>>
             content == <<>>
  <1>1. /\ edits \in [1..0 -> LineEdit] /\ DOMAIN edits = {} /\ content \in Seq(FileLine)
    OBVIOUS
  <1>2. 0 \in Nat /\ 1..0 = {}
    OBVIOUS
  <1>3. /\ lastEdit.edits = edits /\ lastEdit.before = content /\ lastEdit.after = content
        /\ lastEdit.outcome = "none"
    BY DEF NoEdit
  <1> HIDE DEF edits
  <1>4. PICK from : Follows(from, content, edits) /\ Meant(content, edits) = Joined(from[1])
    BY <1>1, <1>2, MeantFollows
  <1>5. from[1] = <<>>
    <2>1. Len(content) = 0
      OBVIOUS
    <2>2. from[2] = <<>> /\ from[1] = Pieces(content, edits, 1) \o from[2]
      BY <1>4, <2>1 DEF Follows
    <2>3. {i \in DOMAIN edits : edits[i].start = 1} = {}
      BY <1>1
    <2>4. Pieces(content, edits, 1) = <<>> \o <<>>
      BY <2>1, <2>3 DEF Pieces
    <2> QED
      BY <2>2, <2>4
  <1>6. Joined(<<>>) = <<>>
    <2> DEFINE Solves(g) == g = [n \in 0..0 |-> IF n = 0 THEN <<>> ELSE Glued(g[n - 1], <<>>[n])]
               f == [n \in 0..0 |-> <<>>]
               g == CHOOSE h : Solves(h)
    <2>1. Solves(f)
      OBVIOUS
    <2>2. Solves(g)
      BY <2>1
    <2>3. Joined(<<>>) = g[0]
      BY DEF Joined
    <2> HIDE DEF g
    <2>4. g[0] = <<>>
      BY <2>2
    <2> QED
      BY <2>3, <2>4
  <1>7. lastEdit.after = Meant(lastEdit.before, lastEdit.edits)
    BY <1>3, <1>4, <1>5, <1>6
  <1> HIDE DEF content
  <1> QED
    BY <1>1, <1>3, <1>7 DEF EditsAsNumbered, AsNumbered

LEMMA FileInitial == FileInit => FileInv
  <1> SUFFICES ASSUME FileInit PROVE FileInv
    OBVIOUS
  <1>1. disk \in [File -> Seq(FileLine) \cup {NoFile}]
    <2>1. Texts \subseteq Seq(FileLine)
      BY FileAssumption
    <2>2. disk \in [File -> Texts \cup {NoFile}]
      BY DEF FileInit
    <2> QED
      BY <2>1, <2>2
  <1>2. lastEdit = NoEdit /\ editing = {}
    BY DEF FileInit
  <1> QED
    BY <1>1, <1>2, NothingEdited DEF FileInv, EditUnderway

\* What edit_file computes, whether it is written or not, is as numbered.
LEMMA ComputedAsNumbered ==
    ASSUME NEW content \in Seq(FileLine), NEW k \in Nat, NEW edits \in [1..k -> LineEdit]
    PROVE  LET new  == Edited(content, edits)
               text == Joined(new.lines)
           IN  /\ text \in Seq(FileLine)
               /\ new.ok \in BOOLEAN
               /\ Apart(edits) =>
                    /\ ~new.ok <=> \E i \in DOMAIN edits : OutOfRange(edits[i], Len(content))
                    /\ new.ok => text = Meant(content, edits)
  <1> DEFINE new == Edited(content, edits)
             Beyond == \E i \in DOMAIN edits : OutOfRange(edits[i], Len(content))
  <1>1. DOMAIN edits = 1..k
    OBVIOUS
  <1>2. new.lines \in Seq(FileLine) /\ new.ok \in BOOLEAN
    <2>1. PICK done : Makes(done, content, k, edits) /\ new = done[k]
      BY EditedMakes
    <2>2. k \in 0..k
      OBVIOUS
    <2>3. new \in Underway(k)
      BY <2>1, <2>2 DEF Makes
    <2> QED
      BY <2>3 DEF Underway
  <1>3. Joined(new.lines) \in Seq(FileLine)
    BY <1>2, JoinedLines
  <1>4. ASSUME Apart(edits), Beyond PROVE ~new.ok
    <2>1. PICK j \in 1..k : ~Fits(edits[j], content)
      BY <1>1, <1>4 DEF Fits
    <2> QED
      BY <1>4, <2>1, BeyondRejected
  <1>5. ASSUME Apart(edits), ~Beyond PROVE new.ok /\ Joined(new.lines) = Meant(content, edits)
    <2>1. \A j \in 1..k : Fits(edits[j], content)
      BY <1>1, <1>5 DEF Fits
    <2> QED
      BY <1>5, <2>1, AllMade
  <1> HIDE DEF new
  <1> QED
    BY <1>2, <1>3, <1>4, <1>5 DEF new

LEMMA EditReadsAsNumbered ==
    ASSUME FileInv, NEW f \in File, EditReads(f)
    PROVE  FileInv'
  <1>1. PICK edits \in UNION {[1..n -> LineEdit] : n \in 1..MaxBatch} :
            LET new == Edited(disk[f], edits)
                e   == [file |-> f, before |-> disk[f], edits |-> edits, content |-> Joined(new.lines)]
            IN  IF new.ok /\ e.content # e.before
                THEN editing' = {e} /\ lastEdit' = NoEdit
                ELSE /\ lastEdit' = EditOf(e, IF new.ok THEN "unchanged" ELSE "rejected", e.before)
                     /\ UNCHANGED editing
    BY DEF EditReads
  <1>2. PICK k \in Nat : edits \in [1..k -> LineEdit]
    OBVIOUS
  <1> DEFINE content == disk[f]
             new == Edited(content, edits)
             text == Joined(new.lines)
             fine == new.ok
             e == [file |-> f, before |-> content, edits |-> edits, content |-> text]
             Beyond == \E i \in DOMAIN edits : OutOfRange(edits[i], Len(content))
  <1>3. disk' = disk /\ disk \in [File -> Seq(FileLine) \cup {NoFile}] /\ content \in Seq(FileLine)
    BY DEF FileInv, EditReads, Exists
  <1>4. /\ text \in Seq(FileLine) /\ fine \in BOOLEAN
        /\ Apart(edits) => (~fine <=> Beyond) /\ (fine => text = Meant(content, edits))
    BY <1>2, <1>3, ComputedAsNumbered
  <1>5. IF fine /\ text # content
        THEN editing' = {e} /\ lastEdit' = NoEdit
        ELSE /\ lastEdit' = EditOf(e, IF fine THEN "unchanged" ELSE "rejected", content)
             /\ UNCHANGED editing
    BY <1>1
  <1> HIDE DEF content, new, text, fine, Beyond
  <1>6. ASSUME NEW outcome \in {"updated", "unchanged", "rejected"},
               outcome = "rejected" <=> ~fine, NEW after,
               after = IF fine THEN text ELSE content
        PROVE  AsNumbered(EditOf(e, outcome, after))
    <2> DEFINE edit == EditOf(e, outcome, after)
    <2>1. /\ edit.before = content /\ edit.edits = edits /\ edit.outcome = outcome
          /\ edit.after = after
      BY DEF EditOf
    <2> HIDE DEF edit
    <2>2. /\ outcome = "rejected" => after = content
          /\ Apart(edits) =>
              /\ outcome = "rejected" <=> Beyond
              /\ ~Beyond => after = Meant(content, edits)
      BY <1>4, <1>6
    <2>3. AsNumbered(edit)
      BY <2>1, <2>2 DEF AsNumbered, Beyond
    <2> QED
      BY <2>3 DEF edit
  <1>7. CASE fine /\ text # content
    <2>1. editing' = {e} /\ lastEdit' = NoEdit
      BY <1>5, <1>7
    <2>2. AsNumbered(EditOf(e, "updated", text))
      BY <1>6, <1>7
    <2>3. e.file \in File /\ e.content = text
      OBVIOUS
    <2> HIDE DEF e
    <2>4. EditUnderway'
      BY <1>4, <2>1, <2>2, <2>3 DEF EditUnderway, AsNumbered, EditOf
    <2>5. (lastEdit = NoEdit => EditsAsNumbered)'
      BY NothingEdited, PTL
    <2> QED
      BY <1>3, <2>1, <2>4, <2>5 DEF FileInv
  <1>8. CASE ~(fine /\ text # content)
    <2> DEFINE outcome == IF fine THEN "unchanged" ELSE "rejected"
    <2>1. lastEdit' = EditOf(e, outcome, content) /\ editing' = editing
      BY <1>5, <1>8
    <2>2. outcome \in {"updated", "unchanged", "rejected"} /\ (outcome = "rejected" <=> ~fine)
      BY <1>4
    <2>3. content = IF fine THEN text ELSE content
      BY <1>8
    <2> HIDE DEF outcome, e
    <2>4. AsNumbered(EditOf(e, outcome, content))
      BY <1>6, <2>2, <2>3
    <2>5. EditsAsNumbered'
      BY <2>1, <2>4 DEF EditsAsNumbered, AsNumbered, EditOf
    <2>6. EditUnderway'
      BY <2>1 DEF FileInv, EditUnderway, AsNumbered, EditOf
    <2> QED
      BY <1>3, <2>5, <2>6 DEF FileInv
  <1> QED
    BY <1>7, <1>8

LEMMA EditLeavesAsNumbered ==
    ASSUME FileInv, EditWrites \/ EditWriteFails
    PROVE  FileInv'
  <1>1. PICK e \in editing :
          \/ /\ disk' = Written(e.file, e.content)
             /\ lastEdit' = EditOf(e, "updated", e.content)
          \/ /\ disk' \in Spoilt(e.file, e.content)
             /\ lastEdit' = EditOf(e, "failed", disk'[e.file])
    BY DEF EditWrites, EditWriteFails
  <1>2. editing' = {}
    BY DEF EditWrites, EditWriteFails
  <1>3. /\ e.file \in File /\ e.content \in Seq(FileLine)
        /\ AsNumbered(EditOf(e, "updated", e.content))
        /\ disk \in [File -> Seq(FileLine) \cup {NoFile}]
    BY DEF FileInv, EditUnderway
  <1>4. disk' \in [File -> Seq(FileLine) \cup {NoFile}]
    <2>1. \A text \in Seq(FileLine) : Written(e.file, text) \in [File -> Seq(FileLine) \cup {NoFile}]
      BY <1>3 DEF Written
    <2>2. \A n \in 0..Len(e.content) : SubSeq(e.content, 1, n) \in Seq(FileLine)
      BY <1>3
    <2> QED
      BY <1>1, <1>3, <2>1, <2>2 DEF Spoilt
  <1>5. EditsAsNumbered'
    <2>1. CASE lastEdit' = EditOf(e, "updated", e.content)
      BY <1>3, <2>1 DEF EditsAsNumbered, AsNumbered
    <2>2. CASE lastEdit' = EditOf(e, "failed", disk'[e.file])
      <3>1. lastEdit'.outcome = "failed"
        BY <2>2 DEF EditOf
      <3> QED
        BY <3>1 DEF EditsAsNumbered, AsNumbered
    <2> QED
      BY <1>1, <2>1, <2>2
  <1> QED
    BY <1>2, <1>4, <1>5 DEF FileInv, EditUnderway

LEMMA FileStep == FileInv /\ [FileNext]_fileVars => FileInv'
  <1> SUFFICES ASSUME FileInv, [FileNext]_fileVars PROVE FileInv'
    OBVIOUS
  <1>1. \A text \in Texts \cup {NoFile} : text \in Seq(FileLine) \cup {NoFile}
    BY FileAssumption
  <1>2. disk \in [File -> Seq(FileLine) \cup {NoFile}]
    BY DEF FileInv
  <1>3. ASSUME lastEdit' = NoEdit, editing' = editing, disk' \in [File -> Seq(FileLine) \cup {NoFile}]
        PROVE  FileInv'
    <2>1. (lastEdit = NoEdit => EditsAsNumbered)'
      BY NothingEdited, PTL
    <2>2. EditUnderway'
      BY <1>3 DEF FileInv, EditUnderway, AsNumbered, EditOf
    <2> QED
      BY <1>3, <2>1, <2>2 DEF FileInv
  <1>4. CASE ListsFiles
    BY <1>2, <1>3, <1>4 DEF ListsFiles, Leave
  <1>5. CASE SearchesFiles
    BY <1>2, <1>3, <1>5 DEF SearchesFiles, Leave
  <1>6. CASE RunsCommand
    BY <1>2, <1>3, <1>6 DEF RunsCommand, Leave
  <1>7. CASE CommandExits
    BY <1>2, <1>3, <1>7 DEF CommandExits, Leave
  <1>8. CASE TimesOut
    BY <1>2, <1>3, <1>8 DEF TimesOut, Leave
  <1>9. ASSUME NEW f \in File, ReadsFile(f) PROVE FileInv'
    BY <1>2, <1>3, <1>9 DEF ReadsFile, Leave
  <1>10. ASSUME NEW f \in File, WritesFile(f) PROVE FileInv'
    <2>1. lastEdit' = NoEdit /\ editing' = editing
      BY <1>10 DEF WritesFile, Leave
    <2>2. PICK text \in Texts : disk' = Written(f, text)
      BY <1>10 DEF WritesFile
    <2> QED
      BY <1>1, <1>2, <1>3, <2>1, <2>2 DEF Written
  <1>11. ASSUME NEW f \in File, WriteFails(f) PROVE FileInv'
    <2>1. lastEdit' = NoEdit /\ editing' = editing
      BY <1>11 DEF WriteFails, Leave
    <2>2. PICK text \in Texts : disk' \in Spoilt(f, text)
      BY <1>11 DEF WriteFails, Spoilt
    <2>3. text \in Seq(FileLine)
      BY FileAssumption
    <2>4. \A n \in 0..Len(text) : SubSeq(text, 1, n) \in Seq(FileLine)
      BY <2>3
    <2>5. disk' \in [File -> Seq(FileLine) \cup {NoFile}]
      BY <1>2, <2>2, <2>4 DEF Spoilt, Written
    <2> QED
      BY <1>3, <2>1, <2>5
  <1>12. ASSUME NEW f \in File, EditReads(f) PROVE FileInv'
    BY <1>12, EditReadsAsNumbered
  <1>13. CASE EditWrites \/ EditWriteFails
    BY <1>13, EditLeavesAsNumbered
  <1>14. ASSUME NEW f \in File, EditFails(f) PROVE FileInv'
    BY <1>2, <1>3, <1>14 DEF EditFails, Leave
  <1>15. ASSUME NEW f \in File, RunFails(f) PROVE FileInv'
    BY <1>2, <1>3, <1>15 DEF RunFails, Leave
  <1>16. ASSUME NEW f \in File, CommandWrites(f) PROVE FileInv'
    <2>1. lastEdit' = NoEdit /\ editing' = editing
      BY <1>16 DEF CommandWrites, Leave
    <2>2. PICK text \in Texts \cup {NoFile} : disk' = [disk EXCEPT ![f] = text]
      BY <1>16 DEF CommandWrites
    <2> QED
      BY <1>1, <1>2, <1>3, <2>1, <2>2
  <1>17. CASE UNCHANGED fileVars
    <2>1. disk' = disk /\ lastEdit' = lastEdit /\ editing' = editing
      BY <1>17 DEF fileVars
    <2> QED
      BY <2>1 DEF FileInv, EditUnderway, EditsAsNumbered, AsNumbered, EditOf
  <1> QED
    BY <1>4, <1>5, <1>6, <1>7, <1>8, <1>9, <1>10, <1>11, <1>12, <1>13, <1>14, <1>15, <1>16, <1>17
       DEF FileNext

(* Edits of a call that keep apart take effect at the lines the caller     *)
(* numbered in the file as it was, all of them or, if one is out of the    *)
(* file, none (edit_file sorts them from the bottom and works on a list of *)
(* lines that it writes only at the end).                                  *)
THEOREM EditsAlwaysAsNumbered == FileSpec => []EditsAsNumbered
  <1>1. FileInv => EditsAsNumbered
    BY DEF FileInv
  <1> QED
    BY <1>1, FileInitial, FileStep, PTL DEF FileSpec
=============================================================================
