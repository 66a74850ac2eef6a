----------------------------- MODULE WebClient -----------------------------
(***************************************************************************)
(* The web component sending messages: it reads a turn's chunks from an    *)
(* event stream and, when that throws, sends the same request again to the *)
(* polling endpoint, which runs another turn and answers with all of its   *)
(* chunks at once.                                                         *)
(*                                                                         *)
(* The status bar has two writers.  Chunks that are status bar updates set *)
(* it directly; the chat component sets a property of its own, of which    *)
(* the template copies only changes to the bar.  Frames arrive whole and   *)
(* in order; only the end of the connection is uncertain.  A message is    *)
(* sent after the one before it has ended.                                 *)
(***************************************************************************)
EXTENDS Naturals, Sequences

Bar == {"idle", "working", "success", "warning", "error"}

\* What a chunk does to the status bar: sets it, or leaves it alone.
Chunk == Bar \cup {"content"}

CONSTANT Bodies   \* the chunks that turns send before those they close with

ASSUME BodiesAssumption == Bodies \subseteq Seq(Chunk)

VARIABLES
    sending,  \* handleStreamingResponse: "none" yet, "fetch", "stream", "poll", "sent" or "failed"
    runs,     \* how many turns the server has started for the message
    turn,     \* the last turn shown: its chunks, how many were sent, and whether it
              \* "runs", has "ended" or is "gone"
    wire,     \* frames on their way
    shown,    \* the message's chunks given to the component manager
    status,   \* the status bar
    mine,     \* the chat component's status property
    swallowed \* history: the server reported an error that nobody saw

webVars == <<sending, runs, turn, wire, shown, status, mine, swallowed>>

NoTurn == [script |-> <<>>, sent |-> 0, at |-> "gone"]

WebInit ==
    /\ sending = "none"
    /\ runs = 0
    /\ turn = NoTurn
    /\ wire = <<>>
    /\ shown = <<>>
    /\ status = "idle" /\ mine = "idle"
    /\ swallowed = FALSE

-----------------------------------------------------------------------------
(* What a turn sends.  It closes without an answer (a workflow's, or the   *)
(* model had nothing to say), with one, at the tool limit, or with an      *)
(* error card.                                                             *)
Closing ==
    {<<"idle", "content">>, <<"idle", "content", "content">>,
     <<"warning", "content", "content">>, <<"content", "error", "content">>}

Turns == {body \o closing : body \in Bodies, closing \in Closing}

ChunkOf(run, script, k) == [run |-> run, place |-> k, sets |-> script[k]]

TurnOf(run, script) == [k \in 1..Len(script) |-> ChunkOf(run, script, k)]

\* The last update of the bar among what was sent leaves it at s.
Settles(script, s) ==
    \E i \in DOMAIN script :
        /\ script[i] = s /\ s # "content"
        /\ \A j \in DOMAIN script : j > i => script[j] = "content"

-----------------------------------------------------------------------------
(* _sendMessageInternal                                                    *)

\* The binding passes a value on to the bar when it is not the last it passed on.
SetStatus(s) ==
    /\ mine' = s
    /\ status' = IF s # mine THEN s ELSE status

Sends ==
    /\ sending \in {"none", "sent", "failed"}
    /\ sending' = "fetch"
    /\ runs' = 0 /\ turn' = NoTurn /\ wire' = <<>> /\ shown' = <<>> /\ swallowed' = FALSE
    /\ SetStatus("working")

-----------------------------------------------------------------------------
(* chat_sse                                                                *)

Accepts ==
    /\ sending = "fetch"
    /\ sending' = "stream"
    /\ runs' = runs + 1
    /\ \E script \in Turns : turn' = [script |-> script, sent |-> 0, at |-> "runs"]
    /\ UNCHANGED <<wire, shown, status, mine, swallowed>>

Emits(frame) ==
    /\ wire' = Append(wire, frame)
    /\ UNCHANGED <<sending, runs, shown, status, mine, swallowed>>

SendsChunk ==
    /\ turn.at = "runs" /\ turn.sent < Len(turn.script)
    /\ turn' = [turn EXCEPT !.sent = @ + 1]
    /\ Emits([type |-> "chunk", chunk |-> ChunkOf(runs, turn.script, turn.sent + 1)])

SendsDone ==
    /\ turn.at = "runs" /\ turn.sent = Len(turn.script)
    /\ turn' = [turn EXCEPT !.at = "ended"]
    /\ Emits([type |-> "[DONE]"])

\* A chunk could not be made or put into JSON.  The frame has no "rich" part,
\* and ends the body.
SendsError ==
    /\ turn.at = "runs"
    /\ turn' = [turn EXCEPT !.at = "ended"]
    /\ Emits([type |-> "error"])

-----------------------------------------------------------------------------
(* streamChat and processChunk                                             *)

Process(chunks) ==
    /\ shown' = shown \o chunks
    /\ LET sets == [i \in DOMAIN chunks |-> chunks[i].sets]
       IN  \/ /\ \A i \in DOMAIN sets : sets[i] = "content"
              /\ status' = status
           \/ status' \in {s \in Bar : Settles(sets, s)}

Reads ==
    /\ sending = "stream" /\ wire # <<>>
    /\ wire' = Tail(wire)
    /\ IF Head(wire).type = "chunk" THEN Process(<<Head(wire).chunk>>)
                                    ELSE UNCHANGED <<shown, status>>
    /\ sending' = IF Head(wire).type = "[DONE]" THEN "sent" ELSE sending
    /\ swallowed' = (swallowed \/ Head(wire).type = "error")
    /\ UNCHANGED <<runs, turn, mine>>

ReadsEnd ==
    /\ sending = "stream" /\ wire = <<>> /\ turn.at = "ended"
    /\ sending' = "sent"
    /\ UNCHANGED <<runs, turn, wire, shown, status, mine, swallowed>>

\* fetch or read throws, or the answer is not ok: what was on its way is lost,
\* and the server may or may not have started the turn.
StreamBreaks ==
    /\ sending \in {"fetch", "stream"}
    /\ sending' = "poll"
    /\ runs' \in IF sending = "fetch" THEN {runs, runs + 1} ELSE {runs}
    /\ turn' = NoTurn
    /\ wire' = <<>>
    /\ SetStatus("working")
    /\ UNCHANGED <<shown, swallowed>>

-----------------------------------------------------------------------------
(* The fallback                                                            *)

WholeAnswer(script) == turn' = [script |-> script, sent |-> Len(script), at |-> "ended"]

\* Mutant: of the answer only what seems to be missing is processed.
PollsRest ==
    /\ sending = "poll"
    /\ sending' = "sent"
    /\ runs' = runs + 1
    /\ \E script \in Turns :
        /\ WholeAnswer(script)
        /\ Process(SubSeq(TurnOf(runs + 1, script), Len(shown) + 1, Len(script)))
    /\ UNCHANGED <<wire, mine, swallowed>>

Polls ==
    /\ sending = "poll"
    /\ sending' = "sent"
    /\ runs' = runs + 1
    /\ \E script \in Turns : WholeAnswer(script) /\ Process(TurnOf(runs + 1, script))
    /\ UNCHANGED <<wire, mine, swallowed>>

PollFails ==
    /\ sending = "poll"
    /\ sending' = "failed"
    /\ runs' \in {runs, runs + 1}
    /\ SetStatus("error")
    /\ UNCHANGED <<turn, wire, shown, swallowed>>

WebNext ==
    \/ Sends
    \/ Accepts \/ SendsChunk \/ SendsDone \/ SendsError
    \/ Reads \/ ReadsEnd \/ StreamBreaks
    \/ Polls \/ PollFails

WebSpec == WebInit /\ [][WebNext]_webVars

-----------------------------------------------------------------------------
\* Shown last is a whole turn, and the bar is at what that turn set it to at its end.
EndsWithTurn ==
    /\ Len(turn.script) <= Len(shown)
    /\ SubSeq(shown, Len(shown) - Len(turn.script) + 1, Len(shown)) = TurnOf(runs, turn.script)
    /\ Settles(turn.script, status)
    /\ status # "working"

\* Shown is what was sent of one turn, and nothing else.
ShowsSent == shown = SubSeq(TurnOf(runs, turn.script), 1, turn.sent)

(* A message that counts as sent has shown one whole turn, in order and    *)
(* with nothing after it, and the status bar is as that turn's own last    *)
(* update left it, and not working, whatever part of an earlier run came   *)
(* before it.  An error of the server, which the client does not           *)
(* recognise (routes.py:59), costs no more than the rest of the turn: what *)
(* was sent before it is shown, in order, once, and alone                  *)
(* (easyq2sql-chat.ts:1329-1360).                                          *)
WholeTurnShown == sending = "sent" => EndsWithTurn \/ (swallowed /\ ShowsSent)
=============================================================================
