-------------------------- MODULE AnthropicMessages --------------------------
(***************************************************************************)
(* One POST /v1/messages through the proxy: serveMessages translates the   *)
(* conversation to OpenAI messages and dials the engine; relayAnthropicSSE *)
(* turns the engine's chunks into Anthropic events, block by block, with   *)
(* the anthropicStreamer's record of what is open; relayAnthropicJSON      *)
(* answers at once.  The engine and the client are external.               *)
(*                                                                         *)
(* Texts, arguments, token counts and stop reasons are left out.  A chunk  *)
(* carries thinking, or text, or a piece of a tool call: its index, its id *)
(* if it has one, and whether it has arguments.  One that carries several  *)
(* is as many lines here: translateChunk takes them one after the other.   *)
(***************************************************************************)
EXTENDS Integers, FiniteSets, Sequences, SequencesExt

CONSTANTS
    Calls,      \* indices of the engine's tool calls
    Ids,        \* the ids it gives them
    MaxTurns,   \* bound: turns of the conversation
    MaxBlocks,  \* bound: content blocks of a turn
    MaxLines    \* bound: lines of the engine's stream

ASSUME TurnBounds == MaxTurns \in Nat \ {0} /\ MaxBlocks \in Nat /\ MaxLines \in Nat

VARIABLES
    turns,      \* the conversation; forgotten once it has been sent
    msgs,       \* its translation; forgotten likewise
    stage,      \* the handler: "recv", "count", "dial", "json", "relay", "tail", "end" or "closed"
    resp,       \* the status the client was answered with
    ctxDone,    \* the client has gone, and r.Context() says so
    bodyOver,   \* the upstream body has ended, or broken
    n,          \* lines of the stream so far
    reader,     \* the reader goroutine: "none", "scan", "send" or "exit"
    hand,       \* the line the reader is sending
    s,          \* the streamer
    unsent,     \* the events of the step under way that are still to be written
    client,     \* history: where the events have brought the client's parser
    row         \* the registry row

askVars == <<turns, msgs>>
pipeVars == <<bodyOver, n, reader, hand>>
turnVars == <<turns, msgs, stage, resp, ctxDone, bodyOver, n, reader, hand, s, unsent, client, row>>

---------------------------------------------------------------------------
(* The request *)

UserBlocks == {"text", "image", "tool_result", "document"}
AssistantBlocks == {"text", "thinking", "tool_use"}
Turns == [role : {"user"}, blocks : BoundedSeq(UserBlocks, MaxBlocks)]
            \cup [role : {"assistant"}, blocks : BoundedSeq(AssistantBlocks, MaxBlocks)]
Messages == {"user", "image", "tool", "assistant", "calls"}

Has(t, b) == \E i \in 1..Len(t.blocks) : t.blocks[i] = b
Count(q, x) == Cardinality({i \in 1..Len(q) : q[i] = x})
Each(t, b, m) == [i \in 1..Count(t.blocks, b) |-> m]

\* the text and the tool calls of a turn make one message; a turn of results has none
OwnMessage(t) ==
    IF t.role = "assistant"
    THEN IF Has(t, "tool_use") THEN <<"calls">>
         ELSE IF Has(t, "text") THEN <<"assistant">> ELSE <<>>
    ELSE IF ~Has(t, "text") /\ Has(t, "tool_result") THEN <<>> ELSE <<"user">>

\* mutant: the results come after the turn's own text
TurnToMessagesLate(t) ==
    Each(t, "image", "image") \o OwnMessage(t) \o Each(t, "tool_result", "tool")

\* an image becomes a message as it is met, tool results are collected and come next
TurnToMessages(t) ==
    Each(t, "image", "image") \o Each(t, "tool_result", "tool") \o OwnMessage(t)

Unsupported == \E i \in 1..Len(turns) : Has(turns[i], "document")

Translate ==
    /\ stage = "recv"
    /\ IF Unsupported
       THEN stage' = "closed" /\ resp' = "400" /\ UNCHANGED msgs
       ELSE /\ msgs' = FlattenSeq([i \in 1..Len(turns) |-> TurnToMessages(turns[i])])
            /\ stage' = "count" /\ UNCHANGED resp
    /\ UNCHANGED <<turns, ctxDone, pipeVars, s, unsent, client, row>>

\* the token ceiling: the engine may count more than it allows
CheckCeiling ==
    /\ stage = "count"
    /\ \/ stage' = "closed" /\ resp' = "400" /\ ~ctxDone
       \/ stage' = "dial" /\ UNCHANGED resp
    /\ UNCHANGED <<askVars, ctxDone, pipeVars, s, unsent, client, row>>

---------------------------------------------------------------------------
(* What an Anthropic client accepts, event by event: a reference for the   *)
(* streamer.  A block is its type and the tool call it was opened for.     *)

NoCall == "none"
Fresh == [phase |-> "none", blocks |-> <<>>, open |-> -1,
          late |-> FALSE, broken |-> FALSE]
Broken(c) == [c EXCEPT !.broken = TRUE]

Accepts(c, e) ==
    CASE e.ev = "message_start" -> c.phase = "none"
      [] e.ev \in {"ping", "error"} -> c.phase = "open"
      [] e.ev = "block_start" -> c.phase = "open" /\ c.open = -1 /\ e.index = Len(c.blocks)
      [] e.ev = "block_stop" -> c.open = e.index
      [] e.ev = "block_delta" /\ e.block.type # "tool_use" ->
            c.open = e.index /\ c.blocks[e.index + 1] = e.block
      [] e.ev = "block_delta" ->
            e.index \in 0..(Len(c.blocks) - 1) /\ c.blocks[e.index + 1] = e.block
      [] e.ev = "message_delta" -> c.phase = "open" /\ c.open = -1
      [] e.ev = "message_stop" -> c.phase = "stopping"

Parse(c, e) ==
    IF c.broken \/ ~Accepts(c, e) THEN Broken(c)
    ELSE CASE e.ev = "message_start" -> [c EXCEPT !.phase = "open"]
           [] e.ev = "block_start" -> [c EXCEPT !.blocks = Append(@, e.block), !.open = e.index]
           [] e.ev = "block_stop" -> [c EXCEPT !.open = -1]
           [] e.ev = "message_delta" -> [c EXCEPT !.phase = "stopping"]
           [] e.ev = "message_stop" -> [c EXCEPT !.phase = "ended"]
           [] e.ev = "block_delta" -> [c EXCEPT !.late = @ \/ c.open # e.index]
           [] OTHER -> c

\* s.event: one write and one flush; the handler does nothing else meanwhile
Writes(events) == unsent = <<>> /\ unsent' = events /\ UNCHANGED client
Idle == unsent = <<>>

Event(ev) == [ev |-> ev]
BlockEvent(ev, index, block) == [ev |-> ev, index |-> index, block |-> block]
Block(type, call) == [type |-> type, call |-> call]

---------------------------------------------------------------------------
(* anthropicStreamer: a step is the streamer after it and the events it wrote *)

Closed == "closed"
NoId == "no id"
Generated == "generated"

TurnTypeOK ==
    /\ turns \in BoundedSeq(Turns, MaxTurns) /\ msgs \in Seq(Messages)
    /\ stage \in {"recv", "count", "dial", "json", "relay", "tail", "end", "closed"}
    /\ resp \in {"none", "200", "400", "502", "503"}
    /\ ctxDone \in BOOLEAN /\ bodyOver \in BOOLEAN /\ n \in 0..MaxLines
    /\ reader \in {"none", "scan", "send", "exit"}
    /\ s.idx \in Nat /\ s.open \in {Closed, "thinking", "text", "tool_use"}
    /\ s.cur \in Ids \cup {NoId, Generated} /\ s.tool \in [Calls -> -1..(s.idx - 1)]
    /\ client.open \in -1..(s.idx - 1) /\ {client.late, client.broken} \subseteq BOOLEAN
    /\ row \in [in : {"none", "live", "ring"}, first : BOOLEAN, aborted : BOOLEAN,
                phase : {"prefill", "decoding", "done", "error", "aborted"}]

NewStreamer == [idx |-> 0, open |-> Closed, cur |-> NoId, tool |-> [c \in Calls |-> -1]]
Step(st, ev) == [s |-> st, ev |-> ev]

CloseBlock(x) ==
    IF x.s.open = Closed THEN x
    ELSE Step([x.s EXCEPT !.open = Closed, !.cur = NoId],
              Append(x.ev, BlockEvent("block_stop", x.s.idx - 1, Block("any", NoCall))))

\* mutant: the block before is not closed
OpenBlockOnly(x, block, id) ==
    Step([x.s EXCEPT !.idx = @ + 1, !.open = block.type, !.cur = id],
         Append(x.ev, BlockEvent("block_start", x.s.idx, block)))

OpenBlock(x, block, id) ==
    LET y == CloseBlock(x)
    IN  Step([y.s EXCEPT !.idx = @ + 1, !.open = block.type, !.cur = id],
             Append(y.ev, BlockEvent("block_start", y.s.idx, block)))

\* thinking and text: a delta into the block of that type, opened if it is not
Delta(x, type) ==
    LET y == IF x.s.open = type THEN x ELSE OpenBlock(x, Block(type, NoCall), NoId)
    IN  Step(y.s, Append(y.ev, BlockEvent("block_delta", y.s.idx - 1, Block(type, NoCall))))

\* a piece of a tool call: a new index, or another id than the open block's,
\* opens a block; arguments go to the block noted for the index
ToolDelta(x, p) ==
    LET new == x.s.tool[p.call] = -1 \/ (p.id # NoId /\ x.s.cur # p.id)
        o == OpenBlock(x, Block("tool_use", p.call), IF p.id = NoId THEN Generated ELSE p.id)
        y == IF new THEN Step([o.s EXCEPT !.tool[p.call] = o.s.idx - 1], o.ev) ELSE x
    IN  IF p.args
        THEN Step(y.s, Append(y.ev, BlockEvent("block_delta", y.s.tool[p.call],
                                               Block("tool_use", p.call))))
        ELSE y

Pieces == [call : Calls, id : Ids \cup {NoId}, args : BOOLEAN]
Chunks == {[type |-> "thinking"], [type |-> "text"]} \cup [piece : Pieces]
NoLine == [line |-> "none"]

\* translateChunk
Translated(c) ==
    IF "type" \in DOMAIN c THEN Delta(Step(s, <<>>), c.type) ELSE ToolDelta(Step(s, <<>>), c.piece)

Generates(c) == "type" \in DOMAIN c \/ c.piece.args

---------------------------------------------------------------------------

TurnInit ==
    /\ turns \in BoundedSeq(Turns, MaxTurns) \ {<<>>} /\ msgs = <<>>
    /\ stage = "recv" /\ resp = "none" /\ ctxDone = FALSE
    /\ bodyOver = FALSE /\ n = 0 /\ reader = "none" /\ hand = NoLine
    /\ s = NewStreamer /\ unsent = <<>> /\ client = Fresh
    /\ row = [in |-> "none", first |-> FALSE, aborted |-> FALSE, phase |-> "prefill"]

\* client.Do: a 503, or a live row and one of the two relays
Dial ==
    /\ stage = "dial"
    /\ turns' = <<>> /\ msgs' = <<>>
    /\ \/ /\ stage' = "closed" /\ resp' = "503"
          /\ UNCHANGED <<reader, unsent, client, row>>
       \/ /\ ~ctxDone /\ row' = [row EXCEPT !.in = "live"]
          /\ stage' = "json" /\ UNCHANGED <<resp, reader, unsent, client>>
       \/ /\ ~ctxDone /\ row' = [row EXCEPT !.in = "live"]
          /\ stage' = "relay" /\ resp' = "200" /\ reader' = "scan"
          /\ Writes(<<Event("message_start"), Event("ping")>>)
    /\ UNCHANGED <<ctxDone, bodyOver, n, hand, s>>

\* the row is closed by the status alone; an answer without a choice is a 502
RelayJSON ==
    /\ stage = "json" /\ (bodyOver \/ ctxDone)
    /\ stage' = "closed" /\ resp' \in {"200", "502"}
    /\ \E p \in {"done", "error"} :
          /\ p = "error" => resp' = "502"
          /\ row' = [row EXCEPT !.in = "ring", !.first = TRUE, !.phase = p]
    /\ UNCHANGED <<askVars, ctxDone, pipeVars, s, unsent, client>>

EndBody ==
    /\ stage \in {"json", "relay"} /\ ~bodyOver
    /\ bodyOver' = TRUE
    /\ UNCHANGED <<askVars, stage, resp, ctxDone, n, reader, hand, s, unsent, client, row>>

ClientLeaves ==
    /\ stage # "closed" /\ ~ctxDone
    /\ ctxDone' = TRUE
    /\ UNCHANGED <<askVars, stage, resp, pipeVars, s, unsent, client, row>>

\* the write of an event whose client has gone fails, and nobody looks
WriteEvent ==
    /\ unsent # <<>>
    /\ unsent' = Tail(unsent) /\ client' = Parse(client, Head(unsent))
    /\ UNCHANGED <<askVars, stage, resp, ctxDone, pipeVars, s, row>>

---------------------------------------------------------------------------
(* The reader goroutine.  A line is a chunk, "error", "[DONE]" or one that  *)
(* is passed over.                                                          *)

ReaderScan ==
    /\ reader = "scan" /\ n < MaxLines
    /\ hand' \in Chunks \cup {[line |-> l] : l \in {"error", "[DONE]", "ignored"}}
    /\ n' = n + 1 /\ reader' = "send"
    /\ UNCHANGED <<askVars, stage, resp, ctxDone, bodyOver, s, unsent, client, row>>

\* the upstream context is derived from the client's
ReaderEnd ==
    /\ reader = "scan" /\ (bodyOver \/ ctxDone \/ stage = "closed")
    /\ reader' = "exit"
    /\ UNCHANGED <<askVars, stage, resp, ctxDone, bodyOver, n, hand, s, unsent, client, row>>

\* the next line is above the scanner's 4 MB
ReaderFails ==
    /\ reader = "scan" /\ n < MaxLines
    /\ reader' = "exit"
    /\ UNCHANGED <<askVars, stage, resp, ctxDone, bodyOver, n, hand, s, unsent, client, row>>

---------------------------------------------------------------------------
(* The relay loop *)

Received == stage = "relay" /\ Idle /\ reader = "send" /\ reader' = "scan" /\ hand' = NoLine
Is(l) == hand = [line |-> l]

TakeChunk ==
    /\ Received /\ hand \in Chunks
    /\ LET x == Translated(hand) IN s' = x.s /\ Writes(x.ev)
    /\ row' = IF Generates(hand) /\ ~row.first
              THEN [row EXCEPT !.first = TRUE, !.phase = "decoding"] ELSE row
    /\ UNCHANGED <<askVars, stage, resp, ctxDone, bodyOver, n>>

TakeError ==
    /\ Received /\ Is("error")
    /\ Writes(<<Event("error")>>)
    /\ row' = [row EXCEPT !.phase = "error"]
    /\ UNCHANGED <<askVars, stage, resp, ctxDone, bodyOver, n, s>>

TakeDone ==
    /\ Received /\ Is("[DONE]")
    /\ stage' = "tail"
    /\ UNCHANGED <<askVars, resp, ctxDone, bodyOver, n, s, unsent, client, row>>

TakeIgnored ==
    /\ Received /\ Is("ignored")
    /\ UNCHANGED <<askVars, stage, resp, ctxDone, bodyOver, n, s, unsent, client, row>>

\* mutant: the end of the lines ends the handler too
LinesClosedEnds ==
    /\ stage = "relay" /\ Idle /\ reader = "exit"
    /\ stage' = "closed" /\ row' = [row EXCEPT !.in = "ring"]
    /\ UNCHANGED <<askVars, resp, ctxDone, pipeVars, s, unsent, client>>

LinesClosed ==
    /\ stage = "relay" /\ Idle /\ reader = "exit"
    /\ stage' = "tail"
    /\ UNCHANGED <<askVars, resp, ctxDone, pipeVars, s, unsent, client, row>>

Ping ==
    /\ stage = "relay"
    /\ Writes(<<Event("ping")>>)
    /\ UNCHANGED <<askVars, stage, resp, ctxDone, pipeVars, s, row>>

ClientGone ==
    /\ stage = "relay" /\ Idle /\ ctxDone
    /\ stage' = "closed"
    /\ row' = [row EXCEPT !.in = "ring", !.aborted = TRUE, !.phase = "aborted"]
    /\ UNCHANGED <<askVars, resp, ctxDone, pipeVars, s, unsent, client>>

\* after the loop: close what is open, message_delta, message_stop; then the row
WriteTail ==
    /\ stage = "tail" /\ Idle
    /\ LET x == CloseBlock(Step(s, <<>>))
       IN  s' = x.s /\ Writes(x.ev \o <<Event("message_delta"), Event("message_stop")>>)
    /\ stage' = "end"
    /\ UNCHANGED <<askVars, resp, ctxDone, pipeVars, row>>

CloseRow ==
    /\ stage = "end" /\ Idle
    /\ stage' = "closed"
    /\ row' = [row EXCEPT !.in = "ring", !.phase = IF @ = "error" THEN @ ELSE "done"]
    /\ UNCHANGED <<askVars, resp, ctxDone, pipeVars, s, unsent, client>>

---------------------------------------------------------------------------

Loop == TakeChunk \/ TakeError \/ TakeDone \/ TakeIgnored \/ LinesClosed
ServeMessages == Translate \/ CheckCeiling \/ Dial \/ RelayJSON \/ WriteEvent \/ WriteTail \/ CloseRow

TurnNext ==
    \/ ServeMessages \/ Loop \/ ReaderScan \/ ReaderEnd \/ ReaderFails
    \/ EndBody \/ ClientLeaves \/ Ping \/ ClientGone

TurnSpec == TurnInit /\ [][TurnNext]_turnVars

\* Goroutines are scheduled, and select picks at random among the cases that are
\* ready, so that a ticker does not keep the lines away.  The engine owes no line
\* and no end.
FairTurn == TurnSpec /\ WF_turnVars(ServeMessages) /\ SF_turnVars(Loop) /\ SF_turnVars(ClientGone)
                 /\ WF_turnVars(ReaderEnd)

---------------------------------------------------------------------------
(* Properties *)

\* anthropic.go:7: the events are the Anthropic protocol, whatever the engine's
\* chunks mix: blocks are numbered in order, one is open at a time, thinking and
\* text go to the open block of their type, the arguments of a tool call to a block
\* that was opened for that call, and nothing follows message_stop.
ProtocolKept == ~client.broken

\* A client that stays gets its message_stop once the engine has sent [DONE], ended,
\* broken off or sent a line that cannot be read: the turn never just stops.
TurnEnds ==
    stage = "relay" /\ (bodyOver \/ Is("[DONE]") \/ reader = "exit") ~> client.phase = "ended" \/ ctxDone

\* A conversation an agent builds: results answer the calls of the turn before.
Answering(i) == i > 1 /\ turns[i - 1].role = "assistant" /\ Has(turns[i - 1], "tool_use")
WellFormed == \A i \in 1..Len(turns) : Has(turns[i], "tool_result") => Answering(i)
HasImage == \E i \in 1..Len(turns) : Has(turns[i], "image")

\* "tool_results must sit at the message start in OpenAI ordering": in a well-formed
\* conversation every tool result reaches the engine, right after the calls it
\* answers (images aside).
ResultsFollowCalls ==
    stage = "count" /\ WellFormed /\ ~HasImage =>
        /\ \A i \in 1..Len(msgs) : msgs[i] = "tool" => i > 1 /\ msgs[i - 1] \in {"tool", "calls"}
        /\ Count(msgs, "tool") = Count(FlattenSeq([i \in 1..Len(turns) |-> turns[i].blocks]),
                                       "tool_result")

\* The same with images: an image in the turn is sent ahead of its tool results.
ResultsFirst ==
    stage = "count" /\ WellFormed =>
        \A i \in 1..Len(msgs) : msgs[i] = "tool" => i > 1 /\ msgs[i - 1] \in {"tool", "calls"}

\* Stricter than the parser above: a delta goes to the block that is open at the time.
DeltaInOpenBlock == ~client.late
=============================================================================
