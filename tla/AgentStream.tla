----------------------------- MODULE AgentStream -----------------------------
(***************************************************************************)
(* A streamed run, from Pi's events to the chunks a browser reads:         *)
(* translatePiEvent (packages/harness-pi-raw/src/pi-translate.ts), stream  *)
(* and createAsyncQueue (packages/agent/src/create-agent.ts), and the      *)
(* chunk converter and response of ui-message-stream.ts.                   *)
(*                                                                         *)
(* Pi and the AI SDK client are external.  Of Pi it is assumed that text   *)
(* and thinking come within a message, and tools between messages; it may  *)
(* fail anywhere.  The client is the reader of the UI message protocol: it *)
(* refers a chunk to the part it opened before.                            *)
(*                                                                         *)
(* A part and a chunk are [type, kind, id]: the id of a text or reasoning  *)
(* block is a number, that of a tool call a member of Tool.                *)
(***************************************************************************)
EXTENDS Integers, Sequences

CONSTANTS
  Tool,          \* tool calls of the run
  Hidden,        \* calls that are not sent: policy "hidden", or internal tools
  SendReasoning,
  MaxEvents,     \* bound: Pi events of the run
  MaxTurns       \* bound: the first turn and its repairs

ASSUME StreamAssumption ==
  /\ Hidden \subseteq Tool
  /\ SendReasoning \in BOOLEAN
  /\ MaxEvents \in Nat /\ MaxTurns \in Nat \ {0}

VARIABLES
  pi,       \* where Pi is: between turns, in a turn, in a message
  running,  \* tool calls that run
  called,   \* tool calls made so far
  events,   \* Pi events so far
  block,    \* translator: the open text and reasoning block, 0 if none
  nextId,   \* translator: the next block id
  wire,     \* parts emitted by the harness and not read by the run
  turns,    \* turns the run has started
  run,      \* the run and its result promise
  buffer,   \* queue: parts pushed and not taken
  reader,   \* the for await over the queue, and what comes after it
  hand,     \* the part the reader was given
  handed,   \* ghost: visible tool calls that the run has handed on
  conv,     \* the converter's variables
  response, \* the body of the response
  client    \* the reader of the chunks

piVars == <<pi, running, called, events, block, nextId>>
queueVars == <<buffer, reader, hand, handed>>
chunkVars == <<conv, response, client>>
streamVars == <<piVars, wire, turns, run, queueVars, chunkVars>>

Kind == {"text", "reasoning"}
Ids == 1..MaxEvents
BlockPart == [type : {"start", "delta", "end"}, kind : Kind, id : Ids]
ToolPart == [type : {"call", "result"}, kind : {"tool"}, id : Tool]
Sign(type) == [type |-> type, kind |-> "run", id |-> 0]
Part == BlockPart \cup ToolPart \cup {Sign("finish"), Sign("error")}

StreamInit ==
  /\ pi = "off" /\ running = {} /\ called = {} /\ events = 0
  /\ block = [k \in Kind |-> 0] /\ nextId = 1
  /\ wire = <<>> /\ turns = 0 /\ run = "set up"
  /\ buffer = <<>> /\ reader = "next" /\ hand = Sign("finish") /\ handed = {}
  /\ conv = [started |-> FALSE, step |-> FALSE, open |-> [k \in Kind |-> 0]]
  /\ response = "open"
  /\ client = [started |-> FALSE, step |-> FALSE, open |-> [k \in Kind |-> {}],
               inputs |-> {}, over |-> FALSE, lost |-> FALSE]

-----------------------------------------------------------------------------
\* translatePiEvent

BlockIs(type, k, id) == [type |-> type, kind |-> k, id |-> id]
Other(k) == IF k = "text" THEN "reasoning" ELSE "text"

Event ==
  /\ run = "turn" /\ events < MaxEvents
  /\ events' = events + 1

\* turn_start and message_start forget the blocks of the message before.
MessageStarts ==
  /\ pi = "turn" /\ Event
  /\ pi' = "message"
  /\ block' = [k \in Kind |-> 0]
  /\ UNCHANGED <<running, called, nextId, wire, turns, run, queueVars, chunkVars>>

\* text_delta and thinking_delta: the other block is closed, this one opened.
Delta(k) ==
  /\ pi = "message" /\ Event
  /\ LET o == Other(k)
         id == IF block[k] = 0 THEN nextId ELSE block[k] IN
       /\ wire' = wire
            \o (IF block[o] # 0 THEN <<BlockIs("end", o, block[o])>> ELSE <<>>)
            \o (IF block[k] = 0 THEN <<BlockIs("start", k, id)>> ELSE <<>>)
            \o <<BlockIs("delta", k, id)>>
       /\ block' = [block EXCEPT ![k] = id, ![o] = 0]
       /\ nextId' = IF block[k] = 0 THEN nextId + 1 ELSE nextId
  /\ UNCHANGED <<pi, running, called, turns, run, queueVars, chunkVars>>

\* message_end and turn_end: text that was not streamed is filled in, the
\* open blocks are closed.
MessageEnds(gap) ==
  /\ pi = "message" /\ Event
  /\ pi' = "turn"
  /\ wire' = wire
       \o (IF gap /\ block["text"] # 0 THEN <<BlockIs("delta", "text", block["text"])>> ELSE <<>>)
       \o (IF block["text"] # 0 THEN <<BlockIs("end", "text", block["text"])>> ELSE <<>>)
       \o (IF block["reasoning"] # 0
           THEN <<BlockIs("end", "reasoning", block["reasoning"])>> ELSE <<>>)
  /\ block' = [k \in Kind |-> 0]
  /\ UNCHANGED <<running, called, nextId, turns, run, queueVars, chunkVars>>

ToolIs(type, t) == [type |-> type, kind |-> "tool", id |-> t]

ToolStarts(t) ==
  /\ pi = "turn" /\ t \notin called /\ Event
  /\ running' = running \cup {t} /\ called' = called \cup {t}
  /\ wire' = Append(wire, ToolIs("call", t))
  /\ UNCHANGED <<pi, block, nextId, turns, run, queueVars, chunkVars>>

ToolEnds(t) ==
  /\ pi = "turn" /\ t \in running /\ Event
  /\ running' = running \ {t}
  /\ wire' = Append(wire, ToolIs("result", t))
  /\ UNCHANGED <<pi, called, block, nextId, turns, run, queueVars, chunkVars>>

\* The turn of the session settles: a finish part if Pi came to its end or the
\* turn was ended on purpose, an error part if it failed, wherever it was.
TurnSettles ==
  /\ run = "turn" /\ pi # "off"
  /\ pi' = "off" /\ running' = {}
  /\ \/ pi = "turn" /\ wire' = Append(wire, Sign("finish"))
     \/ wire' = Append(wire, Sign("error"))
  /\ UNCHANGED <<called, events, block, nextId, turns, run, queueVars, chunkVars>>

-----------------------------------------------------------------------------
\* createAsyncQueue

\* push: to the reader that waits, else into the buffer.
Push(part) ==
  IF reader = "waits"
    THEN reader' = "has part" /\ hand' = part /\ UNCHANGED buffer
    ELSE buffer' = Append(buffer, part) /\ UNCHANGED <<reader, hand>>

\* close that does not resolve the promise of the waiting reader.
Close_ReaderWaits == UNCHANGED queueVars

\* close: the reader that waits is told; run is what the queue's done follows.
Close ==
  /\ reader' = IF reader = "waits" THEN "has end" ELSE reader
  /\ UNCHANGED <<buffer, hand, handed>>

Done == run \in {"resolved", "cut short", "rejected"}

\* next that looks at done before it looks into the buffer.
ReaderNext_DoneFirst ==
  /\ reader = "next"
  /\ \/ /\ buffer # <<>> /\ ~ Done
        /\ hand' = Head(buffer) /\ buffer' = Tail(buffer)
        /\ reader' = "has part"
     \/ /\ buffer = <<>> \/ Done
        /\ reader' = IF Done THEN "has end" ELSE "waits"
        /\ UNCHANGED <<buffer, hand>>
  /\ UNCHANGED <<piVars, wire, turns, run, handed, chunkVars>>

\* next, called by the for await.
ReaderNext ==
  /\ reader = "next"
  /\ \/ /\ buffer # <<>>
        /\ hand' = Head(buffer) /\ buffer' = Tail(buffer)
        /\ reader' = "has part"
     \/ /\ buffer = <<>>
        /\ reader' = IF Done THEN "has end" ELSE "waits"
        /\ UNCHANGED <<buffer, hand>>
  /\ UNCHANGED <<piVars, wire, turns, run, handed, chunkVars>>

-----------------------------------------------------------------------------
\* The run, as far as the stream is concerned.

\* A turn starts: the first, or a repair turn after one that finished.
TurnStarts ==
  /\ run \in {"set up", "turn over"} /\ turns < MaxTurns
  /\ run' = "turn" /\ turns' = turns + 1
  /\ pi' = "turn"
  /\ block' = [k \in Kind |-> 0]
  /\ UNCHANGED <<running, called, events, nextId, wire, queueVars, chunkVars>>

\* The tool calls among some parts that are to be sent.
VisibleCalls(q) == {q[i].id : i \in {j \in DOMAIN q : q[j].type = "call"}} \ Hidden

\* The run reads a part of the turn's stream and hands it to onStreamPart.
RunReads ==
  /\ run = "turn" /\ wire # <<>>
  /\ wire' = Tail(wire)
  /\ Push(Head(wire))
  /\ handed' = handed \cup VisibleCalls(<<Head(wire)>>)
  /\ run' = CASE Head(wire) = Sign("finish") -> "turn over"
              [] Head(wire) = Sign("error") -> "turn failed"
              [] OTHER -> run
  /\ UNCHANGED <<piVars, turns, chunkVars>>

\* The result: a turn that failed can still have been given its result by
\* submitResult.  So can one whose parts are not all read, when the stream or
\* the handling of a part threw: the rest is never read.  (Which submissions
\* were accepted is not followed here.)  A run may reject at any time, or
\* before it has started.
RunSettles ==
  /\ \/ run \in {"turn over", "turn failed"} /\ run' = "resolved"
     \/ run = "turn" /\ run' = "cut short"
     \/ run \in {"set up", "turn", "turn over", "turn failed"} /\ run' = "rejected"
  /\ pi' = "off" /\ running' = {} /\ wire' = <<>>
  /\ Close
  /\ UNCHANGED <<called, events, block, nextId, turns, chunkVars>>

-----------------------------------------------------------------------------
\* createUIMessageChunkConverter.  Each operator gives the chunks and the
\* converter after them.

Gives(chunks, c) == [chunks |-> chunks, conv |-> c]

\* openMessageAndStep
OpenChunks(c) ==
  (IF c.started THEN <<>> ELSE <<Sign("message-start")>>)
  \o (IF c.step THEN <<>> ELSE <<Sign("start-step")>>)
Opened(c) == [c EXCEPT !.started = TRUE, !.step = TRUE]

\* closeOpenBlocks
EndChunk(c, k) == IF c.open[k] = 0 THEN <<>> ELSE <<BlockIs("end", k, c.open[k])>>
CloseChunks(c) == EndChunk(c, "text") \o EndChunk(c, "reasoning")
Closed(c) == [c EXCEPT !.open = [k \in Kind |-> 0]]

\* text-start, reasoning-start
OnStart(c, p) ==
  Gives(OpenChunks(c) \o <<p>>, [Opened(c) EXCEPT !.open[p.kind] = p.id])

\* text-delta, reasoning-delta: a bare delta opens its block.
OnDelta(c, p) ==
  LET id == IF c.open[p.kind] = 0 THEN p.id ELSE c.open[p.kind]
      start == IF c.open[p.kind] = 0 THEN <<BlockIs("start", p.kind, id)>> ELSE <<>> IN
  Gives(OpenChunks(c) \o start \o <<BlockIs("delta", p.kind, id)>>,
        [Opened(c) EXCEPT !.open[p.kind] = id])

\* text-end, reasoning-end
OnEnd(c, p) == Gives(EndChunk(c, p.kind), [c EXCEPT !.open[p.kind] = 0])

\* tool-call
OnCall(c, p) ==
  Gives(OpenChunks(c) \o CloseChunks(c) \o <<p>>, Closed(Opened(c)))

\* tool-result
OnResult(c, p) == Gives(OpenChunks(c) \o <<p>>, Opened(c))

\* finish
OnFinish(c) ==
  IF c.step THEN Gives(CloseChunks(c) \o <<Sign("finish-step")>>,
                       [Closed(c) EXCEPT !.step = FALSE])
  ELSE Gives(<<>>, c)

Dropped(p) ==
  \/ p.kind = "reasoning" /\ p.type # "end" /\ ~ SendReasoning
  \/ p.kind = "tool" /\ p.id \in Hidden
  \/ p = Sign("error")

HandlePart(c, p) ==
  IF Dropped(p) THEN Gives(<<>>, c)
  ELSE CASE p.type = "start" -> OnStart(c, p)
         [] p.type = "delta" -> OnDelta(c, p)
         [] p.type = "end" -> OnEnd(c, p)
         [] p.type = "call" -> OnCall(c, p)
         [] p.type = "result" -> OnResult(c, p)
         [] OTHER -> OnFinish(c)

\* finish and fail that trust the turn to have closed its blocks.
Terminal_BlocksOpen(c, type) ==
  (IF c.started THEN <<>> ELSE <<Sign("message-start")>>)
  \o (IF c.step THEN <<Sign("finish-step")>> ELSE <<>>)
  \o <<Sign(type)>>

\* finish and fail: whatever is open is closed before the terminal chunk.
Terminal(c, type) ==
  (IF c.started THEN <<>> ELSE <<Sign("message-start")>>)
  \o CloseChunks(c)
  \o (IF c.step THEN <<Sign("finish-step")>> ELSE <<>>)
  \o <<Sign(type)>>

-----------------------------------------------------------------------------
\* The client

\* The chunk has its place in what the client has seen.
Fits(s, ch) ==
  /\ ~ s.over
  /\ s.started = (ch.type # "message-start")
  /\ CASE ch.type = "message-start" -> TRUE
       [] ch.type = "start-step" -> ~ s.step
       [] ch.type = "finish-step" -> s.step /\ \A k \in Kind : s.open[k] = {}
       [] ch.type = "start" -> s.step /\ ch.id \notin s.open[ch.kind]
       [] ch.type \in {"delta", "end"} -> s.step /\ ch.id \in s.open[ch.kind]
       [] ch.type = "call" -> s.step /\ ch.id \notin s.inputs
       [] ch.type = "result" -> s.step /\ ch.id \in s.inputs
       [] OTHER -> ~ s.step /\ \A k \in Kind : s.open[k] = {}

Takes(s, ch) ==
  LET t == [s EXCEPT !.lost = @ \/ ~ Fits(s, ch)] IN
  CASE ch.type = "message-start" -> [t EXCEPT !.started = TRUE]
    [] ch.type = "start-step" -> [t EXCEPT !.step = TRUE]
    [] ch.type = "finish-step" -> [t EXCEPT !.step = FALSE]
    [] ch.type = "start" -> [t EXCEPT !.open[ch.kind] = @ \cup {ch.id}]
    [] ch.type = "end" -> [t EXCEPT !.open[ch.kind] = @ \ {ch.id}]
    [] ch.type = "call" -> [t EXCEPT !.inputs = @ \cup {ch.id}]
    [] ch.type \in {"finished", "failed"} -> [t EXCEPT !.over = TRUE]
    [] OTHER -> t

\* What the client has seen after it has taken the chunks one after the other.
Reads(s, chunks) ==
  LET seen[n \in 0..Len(chunks)] == IF n = 0 THEN s ELSE Takes(seen[n - 1], chunks[n])
  IN  seen[Len(chunks)]

\* The response's loop sends the chunks.  After the client has gone, enqueue
\* throws and the loop is over.
Send(chunks) ==
  IF response = "open" THEN client' = Reads(client, chunks) ELSE UNCHANGED client

\* The reader converts the part it has.
ReaderConverts ==
  /\ reader = "has part"
  /\ LET r == HandlePart(conv, hand) IN
       /\ conv' = r.conv
       /\ Send(r.chunks)
       /\ reader' = IF response = "left" /\ r.chunks # <<>> THEN "stopped" ELSE "next"
       /\ response' = IF reader' = "stopped" THEN "error" ELSE response
  /\ UNCHANGED <<piVars, wire, turns, run, buffer, hand, handed>>

\* The parts are over: the result decides the last chunks.
ReaderEnds ==
  /\ reader = "has end" /\ Done
  /\ Send(Terminal(conv, IF run = "rejected" THEN "failed" ELSE "finished"))
  /\ reader' = "stopped"
  /\ response' = IF response = "left" THEN "error" ELSE "closed"
  /\ UNCHANGED <<piVars, wire, turns, run, buffer, hand, handed, conv>>

\* The browser goes away; the run goes on.
ClientLeaves ==
  /\ response = "open"
  /\ response' = "left"
  /\ UNCHANGED <<piVars, wire, turns, run, queueVars, conv, client>>

StreamNext ==
  \/ MessageStarts
  \/ \E k \in Kind : Delta(k)
  \/ \E gap \in BOOLEAN : MessageEnds(gap)
  \/ \E t \in Tool : ToolStarts(t) \/ ToolEnds(t)
  \/ TurnSettles
  \/ TurnStarts \/ RunReads \/ RunSettles
  \/ ReaderNext \/ ReaderConverts \/ ReaderEnds
  \/ ClientLeaves

StreamSpec == StreamInit /\ [][StreamNext]_streamVars

\* The event loop resumes the reader, whose promises were resolved.
FairStream == StreamSpec /\ WF_streamVars(ReaderNext \/ ReaderConverts \/ ReaderEnds)

-----------------------------------------------------------------------------
\* Every variable has its type; a reader that waits has nothing to wait for in
\* the buffer, and the queue is not closed under it.
StreamTypeOK ==
  /\ pi \in {"off", "turn", "message"}
  /\ running \subseteq called /\ called \subseteq Tool
  /\ events \in 0..MaxEvents
  /\ block \in [Kind -> 0..MaxEvents] /\ nextId \in 1..MaxEvents + 1
  /\ wire \in Seq(Part) /\ buffer \in Seq(Part) /\ hand \in Part
  /\ handed \subseteq Tool
  /\ turns \in 0..MaxTurns
  /\ run \in {"set up", "turn", "turn over", "turn failed",
              "resolved", "cut short", "rejected"}
  /\ reader \in {"next", "waits", "has part", "has end", "stopped"}
  /\ reader = "waits" => buffer = <<>> /\ ~ Done
  /\ conv \in [started : BOOLEAN, step : BOOLEAN, open : [Kind -> 0..MaxEvents]]
  /\ response \in {"open", "left", "closed", "error"}

\* The client understands the stream, however Pi, the run, the repair turns and
\* the failures interleave: no chunk refers to a block or a tool call it has
\* not seen or that is closed, steps and message open and close in order, and
\* the terminal chunk, which comes once, finds nothing open.
ClientUnderstands == ~ client.lost

\* A body that closes is whole, however late a part came before the end of the
\* run and whether the run had a result, was cut short or failed: the client
\* has its terminal chunk, no part is left in the queue, and of the visible
\* tool calls it knows each one the run has handed on.  After a run that came
\* to the end of its turns these are all that Pi has made.
BodyIsWhole ==
  response = "closed" =>
    /\ client.over /\ buffer = <<>>
    /\ client.inputs = handed
    /\ run = "resolved" => handed = called \ Hidden

\* A client that stays gets its terminal chunk once the run has settled, and
\* the body is closed.
EveryBodyEnds == Done ~> (response \in {"closed", "error"})
=============================================================================
