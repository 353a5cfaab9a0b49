------------------------------ MODULE MCGatewayCall ------------------------------
(* That calls end: one call from its request to its answer (GatewayCall), or one   *)
(* stream through its goroutines (Streams). A behaviour is one of the two.         *)
EXTENDS GatewayCall

CONSTANTS Parts, Backends, Dialects, Cap, MaxPieces, MaxStreamCalls

VARIABLES part,
          backend, client, up, said, wire, parser, ch, out, closed, writer, shown, gone, written

S == INSTANCE Streams WITH reply <- written, MaxCalls <- MaxStreamCalls

stream == <<backend, client, up, said, wire, parser, ch, out, closed, writer, shown, gone, written>>

MCInit == /\ part \in Parts
          /\ CallInit /\ S!Init
          /\ IF part = "call" THEN backend = "openai" /\ client = "openai"
             ELSE mode = "stream" /\ ~ask.known

CallStep == part = "call" /\ CallNext /\ UNCHANGED <<part, stream>>
Streaming(step_) == part = "stream" /\ step_ /\ UNCHANGED <<part, callVars>>
MCNext == CallStep \/ Streaming(S!Next)

\* The handler of a call, and the parser, the forwarder and the handler of a stream, run
\* while they can; the upstream and the client owe nothing.
MCSpec == /\ MCInit /\ [][MCNext]_<<part, callVars, stream>>
          /\ WF_<<part, callVars, stream>>(CallStep \/ Streaming(S!HandlerStep))
          /\ WF_<<part, callVars, stream>>(Streaming(S!ParserStep))
          /\ WF_<<part, callVars, stream>>(Streaming(S!ForwardStep))

\* Streams: a handler whose backend hangs up, fails or is cut off returns, and so does
\* one whose client leaves; the goroutines end.
StreamEnds == S!StreamEnds

MCModes == {"chat", "stream", "audio"}

provider(type, env, caps) ==
  [type |-> type, env |-> env, optional |-> type = "bedrock", caps |-> caps,
   defaults |-> IF type = "openai" THEN {"chat", "stream", "tts", "stt"} ELSE {"chat", "stream"}]

MCProviders ==
  [p1 |-> provider("openai", TRUE, {}),
   p2 |-> provider("anthropic", FALSE, {"chat", "tts"}),
   p3 |-> provider("bedrock", FALSE, {}),
   p4 |-> provider("openai", FALSE, {"chat"})]

MCKeys ==
  {[id |-> "k1", org |-> "o1", project |-> "pr", signing |-> FALSE, active |-> TRUE],
   [id |-> "k2", org |-> "o2", project |-> "px", signing |-> TRUE, active |-> FALSE]}

credential(id, type, name, active) ==
  [id |-> id, org |-> "o1", type |-> type, name |-> name, active |-> active]

MCCredentials ==
  {credential("c1", "openai", "acme", TRUE), credential("c2", "openai", "own", TRUE),
   credential("c3", "openai", "old", FALSE), credential("c4", "anthropic", "acme", TRUE)}

MCAssignments ==
  {<<"openai", <<"api_key", "k1">>, "c3">>, <<"openai", <<"project", "pr">>, "c2">>,
   <<"openai", <<"organization", "o1">>, "c1">>}

hop(p, m) == [provider |-> p, target |-> m]

MCRoute(p, strategy, fallbacks, hint) ==
  [org |-> "o1", model |-> "m", provider |-> p, target |-> "t", strategy |-> strategy,
   fallbacks |-> fallbacks, hint |-> hint]

policy(name, priority, when, then) ==
  [org |-> "o1", enabled |-> TRUE, name |-> name, priority |-> priority, when |-> when,
   fails |-> {}, then |-> then]

act(type) == [type |-> type, name |-> ""]
use(name) == [type |-> "use_credential", name |-> name]

AllContexts ==
  {NoContext} \cup ({"openai", "anthropic", "bedrock"} \X {"none", "c1", "c2", "c3", "c4"})

\* The partner's credential where there is one, never with anthropic's, and no platform keys.
Partner == policy(1, 200, AllContexts, <<act("set_header"), use("acme")>>)
NotC4   == policy(2, 100, {<<"anthropic", "c4">>}, <<act("deny")>>)
OnlyOwn == policy(3, 100, {c \in AllContexts : c[2] = "none"}, <<act("deny")>>)
AllowC1 == policy(4, 150, {<<"openai", "c1">>}, <<act("allow")>>)
Broken  == [policy(5, 50, {}, <<>>) EXCEPT !.fails = {<<"openai", "c2">>}]

config(policies, r, orgs) ==
  [orgs |-> orgs, keys |-> MCKeys, policies |-> policies, credentials |-> MCCredentials,
   assignments |-> MCAssignments, routes |-> {r}, providers |-> MCProviders]

Plain   == MCRoute("p1", "ordered", <<hop("gone", "u"), hop("p2", "u"), hop("p3", "")>>, "none")
Picked  == MCRoute("p4", "weighted", <<hop("p1", ""), hop("p3", "v")>>, "none")
Fast    == MCRoute("p1", "latency", <<hop("p2", "u"), hop("p4", "w")>>, "none")
Cheap   == MCRoute("p3", "cost", <<hop("p1", ""), hop("p2", "u")>>, "none")
Speech  == MCRoute("p1", "ordered", <<hop("p2", "u"), hop("p3", "")>>, "tts")
Whisper == MCRoute("p1", "latency", <<hop("p4", "")>>, "stt")

request(s, k, need, signals) == [snap |-> s, key |-> k, model |-> "m", needs |-> need, signals |-> signals]

MCSignals == (<<"p2", "u">> :> 1) @@ (<<"p4", "w">> :> 4)
MCPrices  == (<<"p1", "t">> :> 2) @@ (<<"p2", "u">> :> 1)

MCAsks ==
  <<request(config({}, Plain, Unrestricted), "k1", {}, MCSignals),
    request(config({}, Picked, Unrestricted), "k1", {}, MCSignals),
    request(config({}, Fast, {"o1"}), "k1", {}, MCSignals),
    request(config({}, Cheap, {"o1"}), "k1", {}, MCSignals),
    request(config({Partner, NotC4, AllowC1}, Plain, {"o1"}), "k1", {}, MCSignals),
    request(config({Partner, NotC4, AllowC1}, Fast, {"o1"}), "k1", {}, MCSignals),
    request(config({OnlyOwn}, Plain, {"o1"}), "k1", {}, MCSignals),
    request(config({Broken}, Picked, {"o1"}), "k1", {}, MCSignals),
    request(config({Broken}, Plain, {"o1"}), "k1", {}, MCSignals),
    request(config({}, Plain, {"o2"}), "k1", {}, MCSignals),
    request(config({}, Plain, {"o2"}), "k2", {}, MCSignals),
    request(config({}, Speech, {"o1"}), "k1", {"tts"}, MCSignals),
    request(config({}, Speech, {"o1"}), "k1", {"stt"}, MCSignals),
    request(config({NotC4}, Whisper, {"o1"}), "k1", {"stt"}, MCSignals)>>
=============================================================================
