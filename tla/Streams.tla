---------------------------------- MODULE Streams ----------------------------------
(* A streamed chat completion on its way through the gateway. The upstream's wire  *)
(* format is parsed into events of the internal representation by one goroutine,   *)
(* passed through bounded channels (a second goroutine closes an HTTP body after   *)
(* the last event), and written in the client's dialect by the request's handler.  *)
(* A piece of text or of a call's arguments is a number, in the order the upstream *)
(* says them; a chunk is what one message on the upstream's wire carries.          *)
EXTENDS Naturals, FiniteSets, SequencesExt

CONSTANTS Backends,   \* of "openai", "anthropic", "gemini", "bedrock", "plugin"
          Dialects,   \* of "openai", "anthropic", "gemini"
          Cap,        \* capacity of a channel (16 in the code)
          MaxPieces,  \* bound: pieces of text and arguments the upstream says
          MaxCalls    \* bound: tool calls the upstream makes

VARIABLES backend, client,  \* chosen by the route and by the path called
          up,       \* the upstream's side of the connection
          said,     \* history: the lanes of the pieces the upstream has said
          wire,     \* the chunk sent and not yet read
          parser,   \* the parsing goroutine: its locals and the events it must still send
          ch, out,  \* the parser's channel and the one the handler reads
          closed,   \* the goroutine of wrapClose has closed the body and `out`
          writer,   \* locals of WriteStream
          shown,    \* the frames the client has received
          gone,     \* the client has hung up: the request's context is cancelled
          reply     \* "none", "ok", "error", or "broken" by a failed write

vars == <<backend, client, up, said, wire, parser, ch, out, closed, writer, shown, gone, reply>>

Http == backend \in {"openai", "anthropic", "gemini"}

Chunk == [start |-> FALSE, text |-> 0, calls |-> <<>>, fin |-> "none", use |-> 0, bad |-> FALSE]
Event(kind) == [kind |-> kind, tool |-> 0, n |-> 0, id |-> <<>>, fin |-> "none", use |-> 0]
Frame(typ, at, ns) == [typ |-> typ, at |-> at, ns |-> ns, id |-> <<>>]

Init == /\ backend \in Backends /\ client \in Dialects
        /\ up = [phase |-> "before", open |-> "none", blocks |-> 0, calls |-> 0, n |-> 0, use |-> 0]
        /\ said = <<>> /\ wire = <<>>
        /\ parser = [pc |-> "read", started |-> FALSE, blocks |-> <<>>, calls |-> 0, pend |-> <<>>]
        /\ ch = <<>> /\ out = <<>> /\ closed = FALSE
        /\ writer = [started |-> FALSE, next |-> 0, cur |-> "none", tool |-> 0, at |-> 0,
                     held |-> <<>>, use |-> 0]
        /\ shown = <<>> /\ gone = FALSE /\ reply = "none"

-----------------------------------------------------------------------------
(* The upstream. Blocks follow one another, and a call's arguments come before     *)
(* anything else is opened; Gemini sends a call whole and leaves its id out.       *)
Talks == up.phase = "talking" \/ (up.phase = "before" /\ backend \in {"openai", "gemini", "bedrock"})

Say(chunk, u, pieces) ==
    /\ wire = <<>>
    /\ wire' = <<chunk>> /\ up' = u /\ said' = said \o pieces
    /\ UNCHANGED <<backend, client, parser, ch, out, closed, writer, shown, gone, reply>>

SayStart == /\ up.phase = "before" /\ backend # "gemini"
            /\ Say([Chunk EXCEPT !.start = TRUE], [up EXCEPT !.phase = "talking"], <<>>)

SayText == /\ Talks /\ up.n < MaxPieces
           /\ Say([Chunk EXCEPT !.text = up.n + 1],
                  [up EXCEPT !.phase = "talking", !.n = @ + 1, !.open = "text",
                             !.blocks = IF up.open = "text" THEN @ ELSE @ + 1],
                  <<0>>)

\* A block carries its index in the message, a call of the OpenAI format its own.
WireIndex(k) == IF backend \in {"anthropic", "bedrock"} THEN up.blocks + k - 1 ELSE up.calls + k - 1

SayCall ==
    /\ Talks /\ up.calls < MaxCalls
    /\ \E whole \in BOOLEAN :
         /\ backend # "openai" => whole = (backend = "gemini")
         /\ whole => up.n < MaxPieces
         /\ Say([Chunk EXCEPT !.calls =
                   <<[at |-> WireIndex(1), opens |-> TRUE, id |-> <<"own", up.calls>>,
                      args |-> IF whole THEN up.n + 1 ELSE 0]>>],
                [up EXCEPT !.phase = "talking", !.open = "call", !.blocks = @ + 1, !.calls = @ + 1,
                           !.n = IF whole THEN @ + 1 ELSE @],
                IF whole THEN <<up.calls + 1>> ELSE <<>>)

\* Gemini may put text and a call in one chunk.
SayTogether ==
    /\ backend = "gemini" /\ Talks /\ up.calls < MaxCalls /\ up.n + 1 < MaxPieces
    /\ Say([Chunk EXCEPT !.text = up.n + 1, !.calls =
               <<[at |-> up.calls, opens |-> TRUE, id |-> <<>>, args |-> up.n + 2]>>],
           [up EXCEPT !.phase = "talking", !.open = "call", !.calls = @ + 1, !.n = @ + 2],
           <<0, up.calls + 1>>)

SayArgs == /\ up.phase = "talking" /\ up.open = "call" /\ backend # "gemini" /\ up.n < MaxPieces
           /\ Say([Chunk EXCEPT !.calls = <<[at |-> WireIndex(0), opens |-> FALSE, id |-> <<>>,
                                             args |-> up.n + 1]>>],
                  [up EXCEPT !.n = @ + 1], <<up.calls>>)

\* Usage comes with the finish (Anthropic, some OpenAI-compatible servers) or after it.
SayFinish ==
    /\ Talks
    /\ \E use \in 0..1 : /\ backend = "bedrock" => use = 0
                         /\ backend = "anthropic" => use = 1
                         /\ Say([Chunk EXCEPT !.fin = IF up.calls > 0 /\ backend # "gemini"
                                                      THEN "tool_calls" ELSE "stop", !.use = use],
                                [up EXCEPT !.phase = "finished", !.use = use], <<>>)
SayUsage == /\ up.phase = "finished" /\ up.use = 0 /\ backend \in {"openai", "bedrock"}
            /\ Say([Chunk EXCEPT !.use = 1], [up EXCEPT !.use = 1], <<>>)
\* The upstream reports a failure of its own in the stream, and says no more.
SayFailure == /\ up.phase \in {"before", "talking"} /\ backend # "bedrock"
              /\ Say([Chunk EXCEPT !.bad = TRUE], [up EXCEPT !.phase = "failed"], <<>>)

\* The connection ends: cleanly, or cut with a read error.
HangUp == /\ up.phase \notin {"ended", "complete", "cut"}
          /\ up' = [up EXCEPT !.phase = IF @ = "finished" THEN "complete" ELSE "ended"]
          /\ UNCHANGED <<backend, client, said, wire, parser, ch, out, closed, writer, shown, gone, reply>>
Cut == /\ up.phase \notin {"ended", "complete", "cut"}
       /\ up' = [up EXCEPT !.phase = "cut"]
       /\ UNCHANGED <<backend, client, said, wire, parser, ch, out, closed, writer, shown, gone, reply>>
Hung == up.phase \in {"ended", "complete"}

-----------------------------------------------------------------------------
(* The parsers: the events of a chunk, and the parser's locals after it.           *)
Starts == <<Event("start")>>
TextOf(c) == IF c.text = 0 THEN <<>> ELSE <<[Event("text") EXCEPT !.n = c.text]>>
Opened(tool, id) == [Event("call") EXCEPT !.tool = tool, !.id = id]
Args(tool, n) == IF n = 0 THEN <<>> ELSE <<[Event("args") EXCEPT !.tool = tool, !.n = n]>>
Ends(fin, use) == <<[Event("end") EXCEPT !.fin = fin, !.use = use]>>

\* A tool index opens a call the first time it is seen.
ParseOpenAI(c, p) ==
    LET choices == c.start \/ c.text # 0 \/ c.calls # <<>> \/ c.fin # "none"
        Call(k) == (IF k.at \in Range(p.blocks) THEN <<>> ELSE <<Opened(k.at, k.id)>>) \o Args(k.at, k.args)
    IN IF ~choices
       THEN [p EXCEPT !.pend = IF c.use > 0 THEN Ends("none", c.use) ELSE <<>>]
       ELSE [p EXCEPT !.started = TRUE,
                      !.blocks = @ \o [i \in DOMAIN c.calls |-> c.calls[i].at],
                      !.pend = (IF p.started THEN <<>> ELSE Starts) \o TextOf(c)
                               \o FlattenSeq([i \in DOMAIN c.calls |-> Call(c.calls[i])])
                               \o (IF c.fin = "none" THEN <<>> ELSE Ends(c.fin, c.use))]

\* Mutant for NothingLost: arguments carry the index of their content block.
BlockIndex(p, block) == block

\* The ordinal of the call a content block opened; 0 for a block that opened none.
Ordinal(p, block) == IF block \in Range(p.blocks) THEN (CHOOSE i \in DOMAIN p.blocks : p.blocks[i] = block) - 1
                     ELSE 0

\* Content blocks are counted with the text blocks, calls on their own.
BlockCall(p, k) == IF k.opens THEN <<Opened(Len(p.blocks), k.id)>> ELSE Args(Ordinal(p, k.at), k.args)
BlockSeen(p, c) ==
    [p EXCEPT !.blocks = @ \o FlattenSeq([i \in DOMAIN c.calls |->
                                IF c.calls[i].opens THEN <<c.calls[i].at>> ELSE <<>>])]

ParseAnthropic(c, p) ==
    [BlockSeen(p, c) EXCEPT
       !.pend = (IF c.start THEN Starts ELSE <<>>) \o TextOf(c)
                \o FlattenSeq([i \in DOMAIN c.calls |-> BlockCall(p, c.calls[i])])
                \o (IF c.fin = "none" THEN <<>> ELSE Ends(c.fin, c.use))]

\* A call without an id is given one from its place among the parts of its chunk.
GeminiCalls(c, p) ==
    LET before == IF c.text = 0 THEN 0 ELSE 1
        Call(i) == <<Opened(p.calls + i - 1, <<"call_gemini", before + i - 1>>)>>
                   \o Args(p.calls + i - 1, c.calls[i].args)
    IN FlattenSeq([i \in DOMAIN c.calls |-> Call(i)])

\* usageMetadata is not read from a stream.
ParseGemini(c, p) ==
    LET calls == p.calls + Len(c.calls)
        fin == IF calls > 0 /\ c.fin = "stop" THEN "tool_calls" ELSE c.fin
    IN [p EXCEPT !.started = TRUE, !.calls = calls,
                 !.pend = (IF p.started THEN <<>> ELSE Starts) \o TextOf(c) \o GeminiCalls(c, p)
                          \o (IF fin = "none" THEN <<>> ELSE Ends(fin, 0))]

MapConverse(c, p) ==
    LET events == (IF c.start THEN Starts ELSE <<>>) \o TextOf(c)
                  \o FlattenSeq([i \in DOMAIN c.calls |-> BlockCall(p, c.calls[i])])
                  \o (IF c.fin = "none" /\ c.use = 0 THEN <<>> ELSE Ends(c.fin, c.use))
    IN [BlockSeen(p, c) EXCEPT
          !.started = @ \/ events # <<>>,
          !.pend = (IF p.started \/ c.start \/ events = <<>> THEN <<>> ELSE Starts) \o events]

\* A plugin sends events; one that reports an error ends the stream for the handler.
FromProto(c, p) ==
    [p EXCEPT !.pend = (IF c.start THEN Starts ELSE <<>>) \o TextOf(c)
                       \o FlattenSeq([i \in DOMAIN c.calls |->
                             IF c.calls[i].opens THEN <<Opened(c.calls[i].at, c.calls[i].id)>>
                             ELSE Args(c.calls[i].at, c.calls[i].args)])
                       \o (IF c.fin = "none" THEN <<>> ELSE Ends(c.fin, c.use))
                       \o (IF c.bad THEN <<Event("error")>> ELSE <<>>)]

Parse(c, p) == CASE backend = "openai" -> ParseOpenAI(c, p)
                 [] backend = "anthropic" -> ParseAnthropic(c, p)
                 [] backend = "gemini" -> ParseGemini(c, p)
                 [] backend = "bedrock" -> MapConverse(c, p)
                 [] OTHER -> FromProto(c, p)

-----------------------------------------------------------------------------
(* The goroutines between the upstream and the handler.                            *)
Cancelled == gone \/ reply # "none"

Read == /\ parser.pc = "read" /\ parser.pend = <<>> /\ wire # <<>>
        /\ parser' = Parse(Head(wire), parser)
        /\ wire' = <<>>
        /\ UNCHANGED <<backend, client, up, said, ch, out, closed, writer, shown, gone, reply>>

\* Mutant for CutIsReported: the scanner's error is not looked at.
ReadStops == /\ parser.pc = "read" /\ parser.pend = <<>>
             /\ Cancelled \/ (up.phase = "cut" /\ wire = <<>>)
             /\ parser' = [parser EXCEPT !.pc = "last"]
             /\ UNCHANGED <<backend, client, up, said, wire, ch, out, closed, writer, shown, gone, reply>>
\* Mutant for StreamEnds: the upstream's request does not carry the client's context.
ReadIsCut == /\ parser.pc = "read" /\ parser.pend = <<>>
             /\ up.phase = "cut" /\ wire = <<>>
             /\ parser' = [parser EXCEPT !.pc = "last", !.pend = <<Event("error")>>]
             /\ UNCHANGED <<backend, client, up, said, wire, ch, out, closed, writer, shown, gone, reply>>
\* The body was read to its end; or the read failed: the connection was cut, or the
\* context it was opened with is cancelled. A failure is the parser's last event.
ReadEnd == /\ parser.pc = "read" /\ parser.pend = <<>> /\ wire = <<>>
           /\ Hung
           /\ parser' = [parser EXCEPT !.pc = "closed"]
           /\ UNCHANGED <<backend, client, up, said, wire, ch, out, closed, writer, shown, gone, reply>>
ReadFails == /\ parser.pc = "read" /\ parser.pend = <<>>
             /\ Cancelled \/ (up.phase = "cut" /\ wire = <<>>)
             /\ parser' = [parser EXCEPT !.pc = "last", !.pend = <<Event("error")>>]
             /\ UNCHANGED <<backend, client, up, said, wire, ch, out, closed, writer, shown, gone, reply>>
ClosesParser == /\ parser.pc = "last" /\ parser.pend = <<>>
                /\ parser' = [parser EXCEPT !.pc = "closed"]
                /\ UNCHANGED <<backend, client, up, said, wire, ch, out, closed, writer, shown, gone, reply>>

\* The parsers of Bedrock and of the plugins send to the handler's channel itself.
Push == /\ parser.pend # <<>>
        /\ Len(IF Http THEN ch ELSE out) < Cap
        /\ parser' = [parser EXCEPT !.pend = Tail(@)]
        /\ IF Http THEN ch' = Append(ch, Head(parser.pend)) /\ UNCHANGED out
           ELSE out' = Append(out, Head(parser.pend)) /\ UNCHANGED ch
        /\ UNCHANGED <<backend, client, up, said, wire, closed, writer, shown, gone, reply>>

Forward == /\ ch # <<>> /\ Len(out) < Cap
           /\ ch' = Tail(ch) /\ out' = Append(out, Head(ch))
           /\ UNCHANGED <<backend, client, up, said, wire, parser, closed, writer, shown, gone, reply>>
CloseBody == /\ Http /\ ~closed /\ ch = <<>> /\ parser.pc = "closed"
             /\ closed' = TRUE
             /\ UNCHANGED <<backend, client, up, said, wire, parser, ch, out, writer, shown, gone, reply>>
Closed == IF Http THEN closed ELSE parser.pc = "closed"

-----------------------------------------------------------------------------
(* The dialects' writers: the writer's locals after an event, the frames it writes.*)
Wrote(w, frames) == [w |-> w, frames |-> frames]
Sum(w, use) == [w EXCEPT !.use = IF use > 0 THEN use ELSE @]

WriteOpenAI(e, w) ==
    CASE e.kind = "start" -> Wrote(w, <<Frame("role", 0, <<>>)>>)
      [] e.kind = "text"  -> Wrote(w, <<Frame("text", 0, <<e.n>>)>>)
      [] e.kind = "call"  -> Wrote(w, <<[Frame("call", e.tool, <<>>) EXCEPT !.id = e.id]>>)
      [] e.kind = "args"  -> Wrote(w, <<Frame("args", e.tool, <<e.n>>)>>)
      [] OTHER -> Wrote(Sum(w, e.use), <<Frame("finish", 0, <<>>)>>
                                       \o IF e.use > 0 THEN <<Frame("usage", 0, <<>>)>> ELSE <<>>)

\* Mutant for FramesNest: a text block is left open when a call begins.
CloseCall(w) == IF w.cur = "call" THEN <<Frame("close", w.at, <<>>)>> ELSE <<>>
\* Content blocks are numbered in order, and the open one is closed before the next.
EnsureStarted(w) == IF w.started THEN <<>> ELSE <<Frame("role", 0, <<>>)>>
CloseCur(w) == IF w.cur = "none" THEN <<>> ELSE <<Frame("close", w.at, <<>>)>>
Block(w, cur, tool) == [w EXCEPT !.started = TRUE, !.cur = cur, !.tool = tool, !.at = w.next, !.next = @ + 1]

WriteAnthropic(e, w) ==
    LET begun == [w EXCEPT !.started = TRUE]
        fresh == Block(w, IF e.kind = "text" THEN "text" ELSE "call", e.tool)
    IN CASE e.kind = "start" -> Wrote(begun, EnsureStarted(w))
         [] e.kind = "text" /\ w.cur = "text" ->
              Wrote(begun, EnsureStarted(w) \o <<Frame("text", w.at, <<e.n>>)>>)
         [] e.kind = "text" /\ w.cur # "text" ->
              Wrote(fresh, EnsureStarted(w) \o CloseCur(w)
                           \o <<Frame("open", w.next, <<>>), Frame("text", w.next, <<e.n>>)>>)
         [] e.kind = "call" ->
              Wrote(fresh, EnsureStarted(w) \o CloseCur(w)
                           \o <<[Frame("call", w.next, <<>>) EXCEPT !.id = e.id]>>)
         [] e.kind = "args" ->
              Wrote(w, IF w.cur = "call" /\ w.tool = e.tool
                       THEN <<Frame("args", w.at, <<e.n>>)>> ELSE <<>>)
         [] OTHER ->
              Wrote([Sum(w, e.use) EXCEPT !.cur = "none"],
                    CloseCur(w) \o <<Frame("finish", 0, <<>>), Frame("stop", 0, <<>>)>>)

\* Calls are held back until the message ends, then sent whole.
WriteGemini(e, w) ==
    LET holds == \E i \in DOMAIN w.held : w.held[i].tool = e.tool
        Filled(call) == IF call.tool = e.tool THEN [call EXCEPT !.ns = Append(@, e.n)] ELSE call
    IN CASE e.kind = "start" -> Wrote(w, <<>>)
         [] e.kind = "text" -> Wrote(w, <<Frame("text", 0, <<e.n>>)>>)
         [] e.kind = "call" ->
              Wrote(IF holds THEN w ELSE [w EXCEPT !.held =
                        Append(@, [tool |-> e.tool, id |-> e.id, ns |-> <<>>])], <<>>)
         [] e.kind = "args" ->
              Wrote([w EXCEPT !.held = [i \in DOMAIN @ |-> Filled(@[i])]], <<>>)
         [] OTHER ->
              Wrote([Sum(w, e.use) EXCEPT !.held = <<>>],
                    [i \in DOMAIN w.held |->
                        [Frame("call", i - 1, w.held[i].ns) EXCEPT !.id = w.held[i].id]]
                    \o <<Frame("finish", 0, <<>>)>>)

WriteEvent(e, w) == CASE client = "openai" -> WriteOpenAI(e, w)
                      [] client = "anthropic" -> WriteAnthropic(e, w)
                      [] OTHER -> WriteGemini(e, w)

-----------------------------------------------------------------------------
(* The handler. Only a client that has hung up makes a write fail.                 *)
Receive == /\ reply = "none" /\ out # <<>> /\ Head(out).kind # "error"
           /\ out' = Tail(out)
           /\ LET done == WriteEvent(Head(out), writer) IN
              \/ /\ writer' = done.w
                 /\ shown' = IF gone THEN shown ELSE shown \o done.frames
                 /\ UNCHANGED reply
              \/ /\ gone /\ done.frames # <<>>
                 /\ reply' = "broken"
                 /\ UNCHANGED <<writer, shown>>
           /\ UNCHANGED <<backend, client, up, said, wire, parser, ch, closed, gone>>

ReceiveError == /\ reply = "none" /\ out # <<>> /\ Head(out).kind = "error"
                /\ out' = Tail(out)
                /\ reply' = "error"
                /\ UNCHANGED <<backend, client, up, said, wire, parser, ch, closed, writer, shown, gone>>

WriteDone == IF client = "openai" THEN <<Frame("done", 0, <<>>)>> ELSE <<>>
Finish == /\ reply = "none" /\ out = <<>> /\ Closed
          /\ \/ /\ reply' = "ok"
                /\ shown' = IF gone THEN shown ELSE shown \o WriteDone
             \/ /\ gone /\ WriteDone # <<>>
                /\ reply' = "broken" /\ UNCHANGED shown
          /\ UNCHANGED <<backend, client, up, said, wire, parser, ch, out, closed, writer, gone>>

Leave == /\ ~gone /\ reply = "none"
         /\ gone' = TRUE
         /\ UNCHANGED <<backend, client, up, said, wire, parser, ch, out, closed, writer, shown, reply>>

Upstream == SayStart \/ SayText \/ SayCall \/ SayTogether \/ SayArgs \/ SayFinish \/ SayUsage
            \/ SayFailure \/ HangUp \/ Cut
ParserStep == Read \/ ReadEnd \/ ReadFails \/ ClosesParser \/ Push
ForwardStep == Forward \/ CloseBody
HandlerStep == Receive \/ ReceiveError \/ Finish

Next == Upstream \/ ParserStep \/ ForwardStep \/ HandlerStep \/ Leave

\* Goroutines that can run are run; the upstream and the client owe nothing.
Spec == Init /\ [][Next]_vars /\ WF_vars(ParserStep) /\ WF_vars(ForwardStep) /\ WF_vars(HandlerStep)

-----------------------------------------------------------------------------
\* What a client of its dialect makes of the frames: the pieces of a lane, where
\* lane 0 is the text and lane k the arguments of the k-th call it was shown, which
\* come with the call or after it, under the number the call was shown with.
Nth(i) == Cardinality({j \in 1..i : shown[j].typ = "call"})
Belongs(i, lane) ==
    \/ lane = 0 /\ shown[i].typ = "text"
    \/ \E j \in DOMAIN shown : /\ i = j \/ (shown[i].typ = "args" /\ shown[i].at = shown[j].at)
                               /\ shown[j].typ = "call" /\ Nth(j) = lane
Pieces(i) == {shown[i].ns[x] : x \in DOMAIN shown[i].ns}
Heard(lane) == UNION {Pieces(i) : i \in {j \in DOMAIN shown : Belongs(j, lane)}}
Spoken(lane) == {n \in DOMAIN said : said[n] = lane}
InOrder(lane) ==
    \A i, j \in {k \in DOMAIN shown : Belongs(k, lane)} :
      \A x \in DOMAIN shown[i].ns, y \in DOMAIN shown[j].ns :
        i < j \/ (i = j /\ x < y) => shown[i].ns[x] < shown[j].ns[y]
Lanes == 0..MaxCalls

\* Whatever the upstream's format and the client's dialect, text and the arguments of
\* each call arrive in order and with nothing in between left out, and all of it has
\* arrived when a message the upstream finished is answered without an error.
NothingLost ==
    /\ \A lane \in Lanes :
         /\ Heard(lane) \subseteq Spoken(lane) /\ InOrder(lane)
         /\ \A n \in Heard(lane), m \in Spoken(lane) : m < n => m \in Heard(lane)
    /\ reply = "ok" /\ ~gone /\ up.phase = "complete" =>
         /\ Nth(Len(shown)) = up.calls
         /\ \A lane \in Lanes : Heard(lane) = Spoken(lane)

\* The client can follow the stream: it begins with the message, a call's arguments
\* come after the call; in the Anthropic dialect blocks are numbered as they open, a
\* block is closed before the next one and before the end, what is said belongs to
\* the open block, and nothing but ends follows an end.
FramesNest ==
    LET Opens(i) == shown[i].typ = "open" \/ (client = "anthropic" /\ shown[i].typ = "call")
        ClosedBy(i, at) == \E j \in 1..i : shown[j].typ = "close" /\ shown[j].at = at
    IN \A i \in DOMAIN shown :
         LET f == shown[i]
             opened == {j \in 1..i : Opens(j)}
             ends == {j \in 1..(i - 1) : shown[j].typ = "finish"}
         IN /\ client # "gemini" /\ f.typ # "done" => (f.typ = "role") = (i = 1)
            /\ f.typ = "args" => \E j \in 1..i : shown[j].typ = "call" /\ shown[j].at = f.at
            /\ f.typ = "done" => i = Len(shown)
            /\ client = "anthropic" =>
                 /\ Opens(i) => f.at = Cardinality(opened) - 1
                 /\ Opens(i) \/ f.typ = "finish" =>
                      \A j \in opened \ {i} : ClosedBy(i, shown[j].at)
                 /\ f.typ \in {"text", "args"} =>
                      f.at = Cardinality(opened) - 1 /\ ~ClosedBy(i, f.at)
                 /\ ends # {} => f.typ \in {"finish", "stop"}

\* A stream is recorded as answered only if the upstream's was read to its end, and
\* a client is told of an end only after the upstream said it (OpenAI's [DONE]: only
\* after all of it was read); one that was cut off is recorded as an error.
CutIsReported ==
    /\ reply = "ok" => Hung
    /\ \A i \in DOMAIN shown :
         /\ shown[i].typ = "finish" => up.phase \in {"finished", "complete", "cut"}
         /\ shown[i].typ = "done" => Hung /\ reply = "ok"

\* When the upstream hangs up or the client leaves, the handler returns, the goroutines
\* end and the upstream's body is closed; unless a write failed.
StreamEnds ==
    (Hung \/ up.phase = "cut" \/ gone \/ reply \in {"ok", "error"}) ~>
      (reply = "broken" \/ (reply # "none" /\ Closed /\ parser.pc = "closed"))
=============================================================================
