--------------------------------- MODULE Dialogue ---------------------------------
(* A conversation through the gateway. The client keeps the history and sends all  *)
(* of it with every request, in its own dialect; the gateway decodes it into the   *)
(* internal representation and encodes it for the backend the route chose this     *)
(* time, and takes the answer back the other way. Any request may meet another     *)
(* backend than the one before. What is said is a part: a text, an image, a tool   *)
(* call or a call's result, numbered in the order they are made (a result has the  *)
(* number of its call).                                                            *)
EXTENDS Naturals, FiniteSets, SequencesExt

CONSTANTS Dialects,   \* of "openai", "anthropic", "gemini"
          Backends,   \* of "openai", "anthropic", "gemini", "bedrock"
          Tools,      \* names of tools
          OwnIds,     \* Gemini gives its calls ids
          MaxAnswers, \* bound: answers in a conversation
          MaxCalls,   \* bound: calls in an answer
          NoId

VARIABLES dialect,    \* of the client
          echoes,     \* a Gemini client sends back the ids it was given
          history,    \* the client's messages, in its dialect
          spoken,     \* history: what client and backends have said, in order
          phase,      \* "client", "gateway", "backend", or "refused"
          backend,    \* of the request in hand
          body        \* what it receives

vars == <<dialect, echoes, history, spoken, phase, backend, body>>

Part(kind, v) == [kind |-> kind, v |-> v, id |-> NoId, name |-> NoId]
Call(v, id, name) == [kind |-> "call", v |-> v, id |-> id, name |-> name]
Message(role, parts) == [role |-> role, parts |-> parts]
Kinds(parts, kinds) == SelectSeq(parts, LAMBDA p : p.kind \in kinds)
Bare(parts) == [i \in DOMAIN parts |-> [kind |-> parts[i].kind, v |-> parts[i].v]]
Said(messages) == FlattenSeq([i \in DOMAIN messages |-> messages[i].parts])
Assistant == IF dialect = "gemini" THEN "model" ELSE "assistant"

Nothing == [system |-> <<>>, turns |-> <<>>]
Init == /\ dialect \in Dialects
        /\ echoes \in BOOLEAN /\ (dialect # "gemini" => echoes)
        /\ history = <<>> /\ spoken = <<>>
        /\ phase = "client" /\ backend = NoId
        /\ body = Nothing

-----------------------------------------------------------------------------
(* The decoders: from the client's messages to the internal representation, whose  *)
(* messages hold text, the parts if there is an image among them, and calls; a     *)
(* tool's result is a message of its own.                                          *)
IRMessage(role, parts) ==
    [role |-> role, text |-> Kinds(parts, {"text"}), calls |-> Kinds(parts, {"call"}),
     parts |-> IF Kinds(parts, {"image"}) = <<>> THEN <<>> ELSE Kinds(parts, {"text", "image"})]
ToolMessage(p) == [role |-> "tool", text |-> <<p>>, calls |-> <<>>, parts |-> <<>>]

\* An unknown role is passed on if it says something.
DecodeOpenAIRequest(messages) ==
    LET Decode(m) == CASE m.role = "system" -> <<>>
                       [] m.role = "tool" -> <<ToolMessage(m.parts[1])>>
                       [] m.role \in {"user", "assistant"} -> <<IRMessage(m.role, m.parts)>>
                       [] OTHER -> IF Kinds(m.parts, {"text", "call"}) = <<>> THEN <<>>
                                   ELSE <<IRMessage(m.role, m.parts)>>
    IN [system |-> Said(SelectSeq(messages, LAMBDA m : m.role = "system")),
        messages |-> FlattenSeq([i \in DOMAIN messages |-> Decode(messages[i])])]

\* The results of a user message come before what else it says.
UserMessages(parts) ==
    LET results == Kinds(parts, {"result"})
        rest == Kinds(parts, {"text", "image"})
    IN [i \in DOMAIN results |-> ToolMessage(results[i])]
       \o (IF rest = <<>> THEN <<>> ELSE <<IRMessage("user", rest)>>)

DecodeAnthropicRequest(messages) ==
    LET Decode(m) == CASE m.role = "user" -> UserMessages(m.parts)
                       [] m.role = "assistant" -> <<IRMessage("assistant", m.parts)>>
                       [] OTHER -> <<>>
    IN [system |-> Said(SelectSeq(messages, LAMBDA m : m.role = "system")),
        messages |-> FlattenSeq([i \in DOMAIN messages |-> Decode(messages[i])])]

\* Mutant for PairsKept: the ids already given to results are not counted.
IdentifyFirst(p, s) ==
    LET fresh == <<"call_gemini", s.number>>
        id == IF p.id # NoId THEN p.id
              ELSE IF p.kind = "call" THEN fresh
              ELSE IF s.ids[p.name] # <<>> THEN s.ids[p.name][1] ELSE fresh
    IN [s EXCEPT !.number = IF p.kind = "call" THEN @ + 1 ELSE @,
                 !.ids[p.name] = IF p.kind = "call" THEN Append(@, id) ELSE @,
                 !.parts = Append(@, [p EXCEPT !.id = id])]

\* A call without an id is given its number in the request; a result without one the
\* first id of its tool that no such result has had, or a number of its own.
Identify(p, s) ==
    LET fresh == <<"call_gemini", s.number>>
        id == IF p.id # NoId THEN p.id
              ELSE IF p.kind = "call" THEN fresh
              ELSE IF s.used[p.name] < Len(s.ids[p.name]) THEN s.ids[p.name][s.used[p.name] + 1]
              ELSE fresh
    IN [number |-> IF p.kind = "call" \/ (p.id = NoId /\ id = fresh) THEN s.number + 1 ELSE s.number,
        ids |-> IF p.kind = "call" THEN [s.ids EXCEPT ![p.name] = Append(@, id)] ELSE s.ids,
        used |-> IF p.kind = "result" /\ p.id = NoId /\ id # fresh
                 THEN [s.used EXCEPT ![p.name] = @ + 1] ELSE s.used,
        parts |-> Append(s.parts, [p EXCEPT !.id = id])]
IdentifyAll(parts) ==
    LET none == [number |-> 0, ids |-> [t \in Tools |-> <<>>], used |-> [t \in Tools |-> 0], parts |-> <<>>]
        Step(p, s) == IF p.kind \in {"call", "result"} THEN Identify(p, s)
                      ELSE [s EXCEPT !.parts = Append(@, p)]
    IN FoldLeft(LAMBDA s, p : Step(p, s), none, parts).parts

DecodeGeminiRequest(messages) ==
    LET identified == IdentifyAll(Said(messages))
        Before(i) == Len(Said(SubSeq(messages, 1, i - 1)))
        Parts(i) == SubSeq(identified, Before(i) + 1, Before(i) + Len(messages[i].parts))
        Decode(i) == CASE messages[i].role = "model" -> <<IRMessage("assistant", Parts(i))>>
                       [] messages[i].role = "user" -> UserMessages(Parts(i))
                       [] OTHER -> <<>>
    IN [system |-> Said(SelectSeq(messages, LAMBDA m : m.role = "system")),
        messages |-> FlattenSeq([i \in DOMAIN messages |-> Decode(i)])]

DecodeRequest(messages) == CASE dialect = "openai" -> DecodeOpenAIRequest(messages)
                             [] dialect = "anthropic" -> DecodeAnthropicRequest(messages)
                             [] OTHER -> DecodeGeminiRequest(messages)

-----------------------------------------------------------------------------
(* The encoders: the body for the backend, or a refusal.                           *)
Content(m) == (IF m.parts # <<>> THEN m.parts ELSE m.text) \o m.calls
Body(req, turns) == [refused |-> turns = <<>>, system |-> req.system, turns |-> turns]
Refusal == [refused |-> TRUE, system |-> <<>>, turns |-> <<>>]
Unknown(req) == \E i \in DOMAIN req.messages : req.messages[i].role \notin {"user", "assistant", "tool"}

EncodeOpenAI(req) == Body(req, [i \in DOMAIN req.messages |->
                                  Message(req.messages[i].role, Content(req.messages[i]))])

\* Messages of one side are put together, results with the user's; a message of an
\* unknown role is left out, and so is a turn with nothing in it.
EncodeAnthropic(req) ==
    LET Side(m) == IF m.role = "assistant" THEN "assistant" ELSE "user"
        known == SelectSeq(req.messages, LAMBDA m : m.role \in {"user", "assistant", "tool"})
        Add(turns, m) ==
            IF turns # <<>> /\ Last(turns).role = Side(m)
            THEN [turns EXCEPT ![Len(turns)].parts = @ \o Content(m)]
            ELSE Append(turns, Message(Side(m), Content(m)))
    IN Body(req, SelectSeq(FoldLeft(Add, <<>>, known), LAMBDA t : t.parts # <<>>))

\* A result goes back under the name of its call: the last one with its id.
EncodeGeminiRequest(req) ==
    LET calls == FlattenSeq([i \in DOMAIN req.messages |-> req.messages[i].calls])
        CallsOf(id) == SelectSeq(calls, LAMBDA c : c.id = id)
        Encode(m) == IF m.role = "tool"
                     THEN <<Message("user", <<[m.text[1] EXCEPT !.name = Last(CallsOf(m.text[1].id)).name]>>)>>
                     ELSE IF Content(m) = <<>> THEN <<>>
                     ELSE <<Message(IF m.role = "assistant" THEN "model" ELSE "user", Content(m))>>
        matched == \A i \in DOMAIN req.messages : req.messages[i].role = "tool" =>
                       CallsOf(req.messages[i].text[1].id) # <<>>
    IN IF Unknown(req) \/ ~matched THEN Refusal
       ELSE Body(req, FlattenSeq([i \in DOMAIN req.messages |-> Encode(req.messages[i])]))

\* Bedrock takes images inline only.
ConverseInput(req) ==
    LET Encode(m) == IF Content(m) = <<>> THEN <<>>
                     ELSE <<Message(IF m.role = "assistant" THEN "assistant" ELSE "user", Content(m))>>
        linked == \E i \in DOMAIN req.messages : \E k \in DOMAIN req.messages[i].parts :
                      req.messages[i].parts[k].kind = "image" /\ req.messages[i].parts[k].name = "url"
    IN IF Unknown(req) \/ linked THEN Refusal
       ELSE Body(req, FlattenSeq([i \in DOMAIN req.messages |-> Encode(req.messages[i])]))

EncodeRequest(b, req) == CASE b = "openai" -> EncodeOpenAI(req)
                           [] b = "anthropic" -> EncodeAnthropic(req)
                           [] b = "gemini" -> EncodeGeminiRequest(req)
                           [] OTHER -> ConverseInput(req)

-----------------------------------------------------------------------------
(* The answer, from the backend's response to the client's message.                *)
\* A call Gemini gave no id gets its number in the response.
GeminiIds(calls) == [i \in DOMAIN calls |-> IF calls[i].id # NoId THEN calls[i]
                                            ELSE [calls[i] EXCEPT !.id = <<"call_gemini", i - 1>>]]
DecodeResponse(b, parts) ==
    [text |-> Kinds(parts, {"text"}),
     calls |-> IF b = "gemini" THEN GeminiIds(Kinds(parts, {"call"})) ELSE Kinds(parts, {"call"})]
EncodeResponse(resp) == resp.text \o resp.calls

-----------------------------------------------------------------------------
(* The client. It speaks first, with a system message perhaps; it answers every    *)
(* call, in any order (in theirs, if it does not send ids back), and may add to it.*)
Calls(parts) == Kinds(parts, {"call"})
Pending == IF history = <<>> THEN <<>> ELSE Calls(Last(history).parts)
Answers == Len(SelectSeq(history, LAMBDA m : m.role = Assistant))

n == Len(spoken)
Say(messages) == /\ history' = history \o messages
                 /\ spoken' = spoken \o Bare(Said(messages))
                 /\ phase' = "gateway"
                 /\ UNCHANGED <<dialect, echoes, backend, body>>

Ask == /\ phase = "client" /\ Pending = <<>>
       /\ \E first \in {"none", "system", "developer"}, image \in {"none", "data", "url"} :
            LET k == IF first = "none" THEN n ELSE n + 1 IN
            /\ first # "none" \/ image # "none" => history = <<>>
            /\ first = "developer" => dialect = "openai"
            /\ Say((IF first = "none" THEN <<>> ELSE <<Message(first, <<Part("text", k)>>)>>)
                   \o <<Message("user", <<Part("text", k + 1)>>
                          \o IF image = "none" THEN <<>>
                             ELSE <<[Part("image", k + 2) EXCEPT !.name = image]>>)>>)

Result(c) == [kind |-> "result", v |-> c.v, id |-> c.id, name |-> IF dialect = "gemini" THEN c.name ELSE NoId]
AnswerCalls ==
    /\ phase = "client" /\ Pending # <<>>
    /\ \E order \in SetToSeqs(DOMAIN Pending), more \in BOOLEAN :
         LET results == [i \in DOMAIN order |-> Result(Pending[order[i]])]
             text == IF more THEN <<Part("text", n + Len(order) + 1)>> ELSE <<>>
         IN /\ ~echoes => order = [i \in DOMAIN Pending |-> i]
            /\ Say(IF dialect = "openai"
                   THEN [i \in DOMAIN results |-> Message("tool", <<results[i]>>)]
                        \o (IF more THEN <<Message("user", text)>> ELSE <<>>)
                   ELSE <<Message("user", results \o text)>>)

\* The request: decoded, and encoded for the backend chosen for it.
ChatIR == /\ phase = "gateway"
          /\ \E b \in Backends :
               LET sent == EncodeRequest(b, DecodeRequest(history)) IN
               /\ backend' = b
               /\ body' = [system |-> sent.system, turns |-> sent.turns]
               /\ phase' = IF sent.refused THEN "refused" ELSE "backend"
          /\ UNCHANGED <<dialect, echoes, history, spoken>>

\* The backend answers with text, calls, both, or (having nothing to add) neither.
Keep(parts) == IF echoes THEN parts ELSE [i \in DOMAIN parts |-> [parts[i] EXCEPT !.id = NoId]]
Respond ==
    /\ phase = "backend" /\ Answers < MaxAnswers
    /\ \E text \in BOOLEAN, names \in SeqOf(Tools, MaxCalls) :
         LET k == IF text THEN n + 1 ELSE n
             Id(v) == IF backend = "gemini" /\ ~OwnIds THEN NoId ELSE <<"own", v>>
             parts == (IF text THEN <<Part("text", k)>> ELSE <<>>)
                      \o [i \in DOMAIN names |-> Call(k + i, Id(k + i), names[i])]
         IN /\ history' = Append(history,
                  Message(Assistant, Keep(EncodeResponse(DecodeResponse(backend, parts)))))
            /\ spoken' = spoken \o Bare(parts)
    /\ phase' = "client" /\ backend' = NoId /\ body' = Nothing
    /\ UNCHANGED <<dialect, echoes>>

Next == Ask \/ AnswerCalls \/ ChatIR \/ Respond
Spec == Init /\ [][Next]_vars

-----------------------------------------------------------------------------
\* Every result a backend is sent names, by its id, one call of that conversation, the
\* one it answers; it comes before the assistant speaks again; and a Gemini backend
\* is told the name of that call.
PairsKept ==
    phase = "backend" =>
      \A i \in DOMAIN body.turns : \A r \in Range(Kinds(body.turns[i].parts, {"result"})) :
        \E j \in 1..(i - 1) :
          /\ \E c \in Range(Calls(body.turns[j].parts)) :
               /\ c.v = r.v /\ c.id = r.id
               /\ backend = "gemini" => c.name = r.name
          /\ \A k \in DOMAIN body.turns : \A c \in Range(Calls(body.turns[k].parts)) :
               c.id = r.id => c.v = r.v
          /\ \A k \in (j + 1)..i : body.turns[k].role \notin {"assistant", "model"}
=============================================================================
