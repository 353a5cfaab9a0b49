------------------------------ MODULE SingleCalls ------------------------------
(* The calls a gateway makes once, without a loop over targets: embeddings, images *)
(* (whose results may be moved to the organization's object store), MCP and A2A    *)
(* proxying, and agent cards. Handlers run concurrently in one process and share   *)
(* its memory of the nonces of signed requests, which a restart empties. The same  *)
(* request may be delivered again: by a client that retries, or by what is between.*)
(* gateCall is one step here; its gates are in GatewayCall.                        *)
EXTENDS Integers, FiniteSets, Sequences, SequencesExt

CONSTANTS Kinds,       \* of "embedding", "image", "mcp", "a2a", "card"
          OpenAILike,  \* provider types that have an OpenAI transport
          Types,       \* provider types
          Requests, Deliveries,
          Skew,        \* how far a signer's clock may be off (defaultSignedRequestMaxSkew)
          ReplayTTL,   \* how long a nonce is remembered (defaultReplayTTL)
          MaxTime, MaxRestarts, MaxImages  \* bounds

VARIABLES request,   \* what each request is
          now,
          nonces,    \* memoryReplayStore.items: nonce (its request) -> when it expires
          run,       \* restarts of the gateway so far
          job,       \* the handler of each delivery
          stored,    \* objects of the bucket: <<delivery, image>>
          passed     \* history: <<request, run, delivery>> of authenticated signed requests

vars == <<request, now, nonces, run, job, stored, passed>>

NoRequest == 0
Idle == [at |-> "idle", r |-> NoRequest, began |-> 0, reached |-> FALSE, answer |-> "none", moved |-> 0,
         body |-> "none", status |-> "none", usages |-> 0, afters |-> 0]

Init == /\ request \in [Requests -> [kind : Kinds, signed : BOOLEAN, created : 0..Skew, images : {MaxImages},
                                     type : Types, keeps : BOOLEAN]]
        /\ \A r \in Requests : /\ ~request[r].signed => request[r].created = 0
                               /\ request[r].kind # "image" => ~request[r].keeps
                               /\ request[r].kind \notin {"embedding", "image"} =>
                                    request[r].type = CHOOSE t \in OpenAILike : TRUE
        /\ now = 0 /\ run = 0
        /\ nonces = << >>
        /\ job = [d \in Deliveries |-> Idle]
        /\ stored = {} /\ passed = {}

kind(d) == request[job[d].r].kind
Goes(d, to) == job' = [job EXCEPT ![d].at = to]
Refuse(d) == job' = [job EXCEPT ![d].at = "done", ![d].body = "error"]

-----------------------------------------------------------------------------
(* Signed requests *)

Live(e) == e > now

\* Mutant for ServedOnce: entries are kept for as long as the clock may be off one way.
UseBriefly(nonce) ==
    LET kept == [k \in {k \in DOMAIN nonces : Live(nonces[k])} |-> nonces[k]]
    IN /\ nonce \notin DOMAIN kept
       /\ nonces' = [k \in DOMAIN kept \cup {nonce} |-> IF k = nonce THEN now + Skew ELSE kept[k]]

\* memoryReplayStore.Use, under its lock: what has expired is forgotten, and a nonce that
\* has not is refused.
Use(nonce) ==
    LET kept == [k \in {k \in DOMAIN nonces : Live(nonces[k])} |-> nonces[k]]
    IN /\ nonce \notin DOMAIN kept
       /\ nonces' = [k \in DOMAIN kept \cup {nonce} |-> IF k = nonce THEN now + ReplayTTL ELSE kept[k]]

\* The signer's clock is within Skew of the gateway's (which has moved on by the time the
\* nonce is looked up).
Fresh(created) == created - Skew <= now /\ now < created + Skew

\* Key or signature; a region serves the organizations of its list only (401, 403).
Authenticate(d) ==
    LET r == job[d].r IN
    /\ job[d].at = "arrived"
    /\ \/ Refuse(d) /\ UNCHANGED <<nonces, passed>>
       \/ ~request[r].signed /\ Goes(d, "gate") /\ UNCHANGED <<nonces, passed>>
       \/ /\ request[r].signed /\ Fresh(request[r].created) /\ Use(r)
          /\ passed' = passed \cup {<<r, run, d>>}
          /\ Goes(d, "gate")
    /\ UNCHANGED <<request, now, run, stored>>

-----------------------------------------------------------------------------
(* The handlers *)

Quiet == UNCHANGED <<request, now, nonces, run, stored, passed>>

\* gateCall: policy, hooks, quota. It may write the refusal itself.
Gate(d) == /\ job[d].at = "gate"
           /\ Refuse(d) \/ Goes(d, "find")
           /\ Quiet

\* EmbeddingsBackend, ImagesBackend: providers that speak OpenAI.
Backend(type) == type \in OpenAILike

\* What follows the gate and precedes the call is not recorded when it refuses.
Finds(d, k, found) == /\ job[d].at = "find" /\ kind(d) = k
                      /\ Refuse(d) \/ (found /\ Goes(d, "call"))
                      /\ Quiet

\* The route of the model, whose provider must have the capability and a backend; the name
\* of the model; then the secret and the client.
FindEmbeddings(d) == Finds(d, "embedding", Backend(request[job[d].r].type))
FindImages(d) == Finds(d, "image", Backend(request[job[d].r].type))
\* The backend of the alias, a method it allows, its secret.
FindMCP(d) == Finds(d, "mcp", TRUE)
\* The agent of the alias and its secret.
FindAgent(d) == \E k \in {"a2a", "card"} : Finds(d, k, TRUE)

Answered(d, k) == /\ job[d].at = "call" /\ kind(d) = k
                  /\ \E answer \in {"failed", "status", "ok", "cut"} :
                       job' = [job EXCEPT ![d].at = "reply", ![d].reached = TRUE, ![d].answer = answer]
                  /\ Quiet

\* One request to the upstream, which may fail, answer with a status of 400 or more, or be
\* cut off in its body.
Call(d) == \E k \in {"embedding", "image", "mcp", "a2a"} : Answered(d, k)

\* loadA2AAgentCard: the card may be in the snapshot already.
LoadCard(d) == \/ Answered(d, "card")
               \/ /\ job[d].at = "call" /\ kind(d) = "card"
                  /\ job' = [job EXCEPT ![d].at = "reply", ![d].answer = "ok"]
                  /\ Quiet

Ended(j, body, status) == [j EXCEPT !.at = "record", !.body = body, !.status = status]

\* The upstream did not answer, or (embeddings, images, cards) not all of it arrived; a card
\* of a status of 400 or more is none.
ReplyFailed(d) ==
    /\ job[d].at = "reply"
    /\ \/ job[d].answer = "failed"
       \/ job[d].answer = "cut" /\ kind(d) \in {"embedding", "image", "card"}
       \/ job[d].answer = "status" /\ kind(d) = "card"
    /\ job' = [job EXCEPT ![d] = Ended(@, "error", "error")]
    /\ Quiet

\* CopyResponse: the client is sent what there is, and a copy that fails is an error.
CopyResponse(d) ==
    \E sent \in BOOLEAN :
      job' = [job EXCEPT ![d] = Ended(@, IF sent /\ @.answer # "cut" THEN "upstream" ELSE "part",
                                      IF @.answer = "ok" /\ sent THEN "ok" ELSE "error")]

\* MCP answers are copied whatever their status.
ReplyMCP(d) == /\ job[d].at = "reply" /\ job[d].answer # "failed" /\ kind(d) = "mcp"
               /\ CopyResponse(d)
               /\ Quiet

\* proxyA2AResponse: so are those of agents.
ReplyA2A(d) == /\ job[d].at = "reply" /\ job[d].answer # "failed" /\ kind(d) = "a2a"
               /\ CopyResponse(d)
               /\ Quiet

ReplyStatus(d) == /\ job[d].at = "reply" /\ job[d].answer = "status" /\ kind(d) \in {"embedding", "image"}
                  /\ CopyResponse(d)
                  /\ Quiet

\* Embeddings are written from memory, and whether the client takes them is not looked at.
ReplyEmbeddings(d) ==
    /\ job[d].at = "reply" /\ job[d].answer = "ok" /\ kind(d) = "embedding"
    /\ job' = [job EXCEPT ![d] = Ended(@, "upstream", "ok")]
    /\ Quiet

\* An agent card is rewritten to point at the gateway; one that is no card is answered as
\* an error, and is neither recorded nor told to the hooks.
ReplyCard(d) ==
    /\ job[d].at = "reply" /\ job[d].answer = "ok" /\ kind(d) = "card"
    /\ job' = [job EXCEPT ![d] = Ended(@, "rewritten", "ok")] \/ Refuse(d)
    /\ Quiet

\* Images: without a store, the upstream's answer; with one, each image in turn.
ReplyImages(d) ==
    /\ job[d].at = "reply" /\ job[d].answer = "ok" /\ kind(d) = "image"
    /\ \/ job' = [job EXCEPT ![d] = Ended(@, "upstream", "ok")] /\ ~request[job[d].r].keeps
       \/ Goes(d, "persist") /\ request[job[d].r].keeps
    /\ Quiet

\* One image is fetched, put and given an address, under a name of its own. If the store
\* cannot be opened or any of it fails, the upstream's answer is sent as it came; what was
\* put before that stays in the bucket.
Persist(d) ==
    LET left == request[job[d].r].images - job[d].moved IN
    /\ job[d].at = "persist"
    /\ \/ /\ left > 0
          /\ job' = [job EXCEPT ![d] = Ended(@, "upstream", "ok")]
          /\ stored' \in {stored, stored \cup {<<d, job[d].moved + 1>>}}
       \/ /\ left > 0
          /\ stored' = stored \cup {<<d, job[d].moved + 1>>}
          /\ job' = [job EXCEPT ![d].moved = @ + 1]
       \/ left = 0 /\ job' = [job EXCEPT ![d] = Ended(@, "rewritten", "ok")] /\ UNCHANGED stored
    /\ UNCHANGED <<request, now, nonces, run, passed>>

Find(d) == FindEmbeddings(d) \/ FindImages(d) \/ FindMCP(d) \/ FindAgent(d)
Reply(d) == \/ ReplyFailed(d) \/ ReplyStatus(d) \/ ReplyMCP(d) \/ ReplyA2A(d)
            \/ ReplyEmbeddings(d) \/ ReplyCard(d) \/ ReplyImages(d)

\* Mutant for RecordedOnce: only what was answered is recorded.
RecordAnswered(d) == /\ job[d].at = "record"
                     /\ job' = [job EXCEPT ![d].at = "after", ![d].usages = @ + IF job[d].status = "ok" THEN 1 ELSE 0]
                     /\ Quiet

\* recordUsage, then runAfterCall.
Record(d) == /\ job[d].at = "record"
             /\ job' = [job EXCEPT ![d].at = "after", ![d].usages = @ + 1]
             /\ Quiet
After(d) == /\ job[d].at = "after"
            /\ job' = [job EXCEPT ![d].at = "done", ![d].afters = @ + 1]
            /\ Quiet

Step(d) == \/ Authenticate(d) \/ Gate(d) \/ Find(d) \/ Call(d) \/ LoadCard(d)
           \/ Reply(d) \/ Persist(d) \/ Record(d) \/ After(d)

-----------------------------------------------------------------------------
(* What is around it *)

Deliver(d) == /\ job[d].at = "idle"
              /\ \A e \in Deliveries : e < d => job[e].at # "idle"
              /\ \E r \in Requests : job' = [job EXCEPT ![d] = [Idle EXCEPT !.at = "arrived", !.r = r, !.began = run]]
              /\ Quiet
Tick == /\ now < MaxTime
        /\ now' = now + 1
        /\ UNCHANGED <<request, nonces, run, job, stored, passed>>
\* The handlers in flight are lost, and so is the memory of nonces.
Restart == /\ run < MaxRestarts
           /\ run' = run + 1 /\ nonces' = << >>
           /\ job' = [d \in Deliveries |-> IF job[d].at \in {"idle", "done"} THEN job[d]
                                           ELSE [job[d] EXCEPT !.at = "lost"]]
           /\ UNCHANGED <<request, now, stored, passed>>

Next == \/ \E d \in Deliveries : Step(d) \/ Deliver(d)
        \/ Tick \/ Restart
Spec == Init /\ [][Next]_vars

-----------------------------------------------------------------------------
\* While it runs a gateway lets a signed request in once, whenever its copies arrive and
\* however far the signer's clock is off. (defaultReplayTTL is twice the skew.)
ServedOnce ==
    \A a, b \in passed : a[1] = b[1] /\ a[2] = b[2] => a[3] = b[3]

\* A call that has reached its upstream ends recorded once, and its hooks told once; as
\* answered only if the upstream's whole answer, one below 400, was read. The exception is
\* a card that is none.
RecordedOnce ==
    \A d \in Deliveries : job[d].at = "done" =>
      /\ job[d].usages = job[d].afters
      /\ job[d].reached => \/ job[d].usages = 1
                           \/ kind(d) = "card" /\ job[d].answer = "ok" /\ job[d].body = "error"
      /\ job[d].status = "ok" => job[d].answer = "ok" /\ job[d].body # "part"
=============================================================================
