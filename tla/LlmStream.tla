----------------------------- MODULE LlmStream -----------------------------
(***************************************************************************)
(* The OpenAI service: the payload it sends, and the response it reads,    *)
(* whole or streamed.                                                      *)
(*                                                                         *)
(* A text is a sequence of pieces.  A tool call as the API sends it is     *)
(* [id, name, args], with Unset for what is missing, and the pieces of its *)
(* JSON arguments; an event of a stream is [kind |-> "text", text],        *)
(* [kind |-> "call", index, id, name, args], or one with no delta.         *)
(***************************************************************************)
EXTENDS Naturals, Sequences, FiniteSets, SequencesExt, FiniteSetsExt

CONSTANTS Unset,      \* nothing given
          ObjectArgs, \* argument texts that are JSON objects
          OtherArgs   \* argument texts that are other JSON; the rest is no JSON

-----------------------------------------------------------------------------
(* _build_payload *)

PayloadMessage(m) ==
    [role |-> m.role, content |-> m.content,
     callId |-> IF m.role = "tool" THEN m.callId ELSE Unset,
     calls  |-> IF m.role = "assistant" THEN m.calls ELSE <<>>]

Payload(request) ==
    [messages |-> (IF request.system = Unset THEN <<>>
                   ELSE <<[role |-> "system", content |-> request.system,
                           callId |-> Unset, calls |-> <<>>]>>)
                  \o [i \in DOMAIN request.messages |-> PayloadMessage(request.messages[i])],
     maxTokens |-> request.maxTokens,
     choice    |-> IF request.tools = {} THEN Unset ELSE "auto",
     tools     |-> request.tools]

-----------------------------------------------------------------------------
(* Arguments: an object is taken as it is, other JSON as the value of      *)
(* "args", and what is no JSON as that of "_raw".                          *)
Parsed(args) ==
    [as |-> IF args \in ObjectArgs THEN "object" ELSE IF args \in OtherArgs THEN "args" ELSE "_raw",
     value |-> args]

EmptyObject == <<>>

Given(x, default) == IF x = Unset THEN default ELSE x

-----------------------------------------------------------------------------
(* A whole response *)

ExtractToolCalls(calls) ==
    [i \in DOMAIN calls |-> [id |-> calls[i].id, name |-> calls[i].name,
                             args |-> Parsed(calls[i].args)]]

Response(message) == [content |-> message.text, calls |-> ExtractToolCalls(message.calls),
                      finish |-> message.finish]

-----------------------------------------------------------------------------
(* A streamed response *)

NoBuilder == [id |-> Unset, name |-> Unset, args |-> <<>>]

\* The builders are a sequence in the order in which their indices first occur.
Place(builders, index) ==
    IF \E i \in DOMAIN builders : builders[i].index = index
    THEN CHOOSE i \in DOMAIN builders : builders[i].index = index
    ELSE Len(builders) + 1

WithDelta(builders, event) ==
    LET place == Place(builders, event.index)
        old == IF place > Len(builders) THEN [index |-> event.index, call |-> NoBuilder]
               ELSE builders[place]
        new == [old EXCEPT !.call.id = Given(event.id, @), !.call.name = Given(event.name, @),
                           !.call.args = @ \o event.args]
    IN  [i \in 1..(IF place > Len(builders) THEN place ELSE Len(builders)) |->
            IF i = place THEN new ELSE builders[i]]

FinalCalls(builders) ==
    LET named == SelectSeq(builders, LAMBDA b : b.call.name # Unset)
    IN  [i \in DOMAIN named |-> [id |-> Given(named[i].call.id, "tool_call"),
                                 name |-> named[i].call.name,
                                 args |-> IF named[i].call.args = <<>> THEN [as |-> "object", value |-> EmptyObject]
                                          ELSE Parsed(named[i].call.args)]]

Streamed(events) ==
    LET Read(state, event) ==
            CASE event.kind = "none" -> state
              [] event.kind = "text" -> [state EXCEPT !.content = @ \o event.text]
              [] event.kind = "call" -> [state EXCEPT !.builders = WithDelta(@, event)]
        end == FoldLeft(Read, [content |-> <<>>, builders |-> <<>>], events)
    IN  [content |-> end.content, calls |-> FinalCalls(end.builders)]

\* The agent collects the chunks; the reason why the response ended is not kept.
HandleStreamingResponse(events) ==
    [content |-> Streamed(events).content, calls |-> Streamed(events).calls, finish |-> Unset]

-----------------------------------------------------------------------------
(* Events that carry a message: the pieces of its text, and for each call  *)
(* its id and name, then the pieces of its arguments; between them events  *)
(* without a delta.                                                        *)
TextEvents(message) ==
    [i \in DOMAIN message.text |-> [kind |-> "text", text |-> <<message.text[i]>>]]

CallEvents(message, n) ==
    LET call == message.calls[n]
    IN  <<[kind |-> "call", index |-> n - 1, id |-> call.id, name |-> call.name, args |-> <<>>]>>
        \o [i \in DOMAIN call.args |->
                [kind |-> "call", index |-> n - 1, id |-> Unset, name |-> Unset,
                 args |-> <<call.args[i]>>]]

\* s and r read into one, s at the given places.
Merged(s, r, places) ==
    [i \in 1..(Len(s) + Len(r)) |->
        LET before == Cardinality({p \in places : p <= i})
        IN  IF i \in places THEN s[before] ELSE r[i - before]]

Merges(s, r) == {Merged(s, r, places) : places \in kSubset(Len(s), 1..(Len(s) + Len(r)))}

WithIdleEvents(events) == FoldLeft(LAMBDA out, e : out \o <<[kind |-> "none"], e>>, <<>>, events)

\* The first call's first delta comes before the second's.
Events(message) ==
    LET calls == CASE Len(message.calls) = 0 -> {<<>>}
                   [] Len(message.calls) = 1 -> {CallEvents(message, 1)}
                   [] Len(message.calls) = 2 ->
                        {<<Head(CallEvents(message, 1))>> \o rest :
                            rest \in Merges(Tail(CallEvents(message, 1)), CallEvents(message, 2))}
    IN  UNION {{WithIdleEvents(all) : all \in Merges(TextEvents(message), c)} : c \in calls}

(* A streamed response says what the whole one does, also when events      *)
(* without a delta come between and the deltas of different calls are      *)
(* interleaved; but not why it ended, and an empty text of arguments is    *)
(* an empty object only when it is streamed.                               *)
StreamSaysTheSame(message, events) ==
    LET streamed == HandleStreamingResponse(events)
        whole    == Response(message)
    IN  /\ streamed.content = whole.content
        /\ Len(streamed.calls) = Len(whole.calls)
        /\ \A i \in DOMAIN whole.calls :
            /\ streamed.calls[i].id = whole.calls[i].id
            /\ streamed.calls[i].name = whole.calls[i].name
            /\ message.calls[i].args # <<>> => streamed.calls[i].args = whole.calls[i].args

(* The payload answers the calls that the messages answer, and no other.   *)
PayloadKeepsAnswers(request) ==
    LET Ids(messages)     == {m.callId : m \in {m \in ToSet(messages) : m.role = "tool"}}
        Offered(messages) == UNION {{c.id : c \in ToSet(m.calls)} :
                                    m \in {m \in ToSet(messages) : m.role = "assistant"}}
        sent == Payload(request).messages
    IN  /\ Ids(sent) = Ids(request.messages)
        /\ Offered(sent) = Offered(request.messages)
        /\ Len(sent) - Len(request.messages) \in {0, 1}
=============================================================================
