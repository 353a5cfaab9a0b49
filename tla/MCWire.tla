------------------------------- MODULE MCWire -------------------------------
(* A route's answers are streamed or not: either one stream through its goroutines *)
(* (Streams) or a conversation of whole answers (Dialogue).                        *)
EXTENDS Naturals, FiniteSets, SequencesExt

CONSTANTS Modes, Dialects, Backends, Plugins, Cap, MaxPieces, MaxStreamCalls, Tools, OwnIds, MaxAnswers,
          MaxCalls, NoId

\* Streams writes these three; they are the ones the gateway's routes speak.
ASSUME DialectsAssumption == Dialects \subseteq {"openai", "anthropic", "gemini"}

VARIABLES mode,
          backend, client, up, said, wire, parser, ch, out, closed, writer, shown, gone, reply,
          dialect, echoes, history, spoken, phase, served, body

S == INSTANCE Streams WITH Backends <- Backends \cup Plugins, MaxCalls <- MaxStreamCalls
D == INSTANCE Dialogue WITH backend <- served

stream == <<backend, client, up, said, wire, parser, ch, out, closed, writer, shown, gone, reply>>
talk == <<dialect, echoes, history, spoken, phase, served, body>>
vars == <<mode, stream, talk>>

Aside == /\ dialect = NoId /\ echoes = NoId /\ history = <<>> /\ spoken = <<>>
         /\ phase = NoId /\ served = NoId /\ body = D!Nothing
Init == /\ mode \in Modes
        /\ IF mode = "stream" THEN S!Init /\ Aside
           ELSE D!Init /\ S!Init /\ backend = "openai" /\ client = "openai"
Next == \/ mode = "stream" /\ S!Next /\ UNCHANGED <<mode, talk>>
        \/ mode = "whole" /\ D!Next /\ UNCHANGED <<mode, stream>>
Spec == Init /\ [][Next]_vars

\* Streams: every piece of text and every call the backend sent reaches the client
\* that stays, whole, in order, and under the call it belongs to.
NothingLost == S!NothingLost
\* Streams: the frames a client is sent open and close one block at a time.
FramesNest == S!FramesNest
\* Streams: a stream the backend cut off or failed is never shown as a finished answer.
CutIsReported == S!CutIsReported
\* Dialogue: each result a backend is sent names the one call it answers.
PairsKept == D!PairsKept
=============================================================================
