------------------------------- MODULE GatewayCall -------------------------------
(***************************************************************************)
(* One chat or audio call from the request to the answer: the gate, the    *)
(* route and the order of its targets, and the loop over them with the     *)
(* credential each one is called with.                                     *)
(*                                                                         *)
(* The loop is that of UpstreamAttempts, every step of which is a step     *)
(* here; before the loop its variables wait in their initial state.  The   *)
(* call keeps the snapshot it started under.                               *)
(***************************************************************************)
EXTENDS UpstreamAttempts, CallConfig

CONSTANTS
  Asks,    \* a sequence of requests, each with the snapshot it meets: the key presented, the
           \* model, the capabilities it needs ({} for chat) and the latencies the gateway knows
  Prices   \* prices of the catalogue, by provider and target

\* Prices and latencies are not negative, and a route lists its fallbacks.
ASSUME CallAssumption ==
  /\ Prices \in [DOMAIN Prices -> Nat]
  /\ \A a \in DOMAIN Asks :
       /\ Asks[a].signals \in [DOMAIN Asks[a].signals -> Nat]
       /\ \A r \in Asks[a].snap.routes : r.fallbacks \in Seq(Range(r.fallbacks))

VARIABLES
  stage,     \* where the handler is: before the loop, in it, or "refused"
  ask,       \* the request, one of Asks, with what its snapshot says to it
  attempts,  \* the targets in the order they are tried
  secret,    \* the credential of the target being called
  counted,   \* the request quotas have been incremented
  refusal,   \* why the call was refused before the loop
  spent      \* history: <<provider, credential>> of the upstream calls

callVars == <<vars, stage, ask, attempts, secret, counted, refusal, spent>>

\* The requests with a key the snapshot knows, and those of them it has a route for.
KeyOf(a) == CHOOSE k \in LookupKey(Asks[a].snap, Asks[a].key) : TRUE
Known == {a \in DOMAIN Asks : LookupKey(Asks[a].snap, Asks[a].key) # {}}
RoutesOf(a) == LookupRoute(Asks[a].snap, KeyOf(a).org, Asks[a].model)
Routed == {a \in Known : RoutesOf(a) # {}}

\* A request with what its snapshot says to it, which never changes: the key, the verdict
\* of the policies, the orders its targets may be tried in and the credential of each.
Said(a) ==
  LET s == Asks[a].snap
      k == KeyOf(a)
      route == CHOOSE r \in RoutesOf(a) : TRUE
      fit == /\ a \in Routed
             /\ Asks[a].needs # {} => /\ Usable(s, route.provider, Asks[a].needs)
                                     /\ route.hint \in Asks[a].needs
  IN IF a \notin Known THEN [of |-> a, known |-> FALSE]
     ELSE [of |-> a, known |-> TRUE, key |-> k,
           allowed |-> AllowsOrganization(s, k.org),
           verdict |-> PolicyVerdict(s, k, Asks[a].model),
           orders  |-> IF fit THEN BuildAttempts(s, route, Asks[a].needs, Asks[a].signals, Prices) ELSE {},
           secret  |-> [p \in DOMAIN s.providers |-> bindProviderSecret(s, k, s.providers[p])]]

snap == Asks[ask.of].snap
needs == Asks[ask.of].needs
key == ask.key
Targeted == Candidates(snap, CHOOSE r \in RoutesOf(ask.of) : TRUE, needs)

CallInit ==
  /\ Init
  /\ ask \in {Said(a) : a \in DOMAIN Asks}
  /\ (mode = "audio") = (needs # {})
  /\ n = IF ask.of \in Routed THEN Max({1, Len(Targeted)}) ELSE 1
  /\ stage = "auth"
  /\ attempts = <<>> /\ secret = NoCredential
  /\ counted = FALSE /\ refusal = "none"
  /\ spent = {}

-----------------------------------------------------------------------------
(* Before the loop *)

Goes(from, to) ==
  /\ stage = from
  /\ stage' = to
  /\ UNCHANGED <<vars, ask, secret, refusal, spent>>

Refuse(from, why) ==
  /\ stage = from
  /\ stage' = "refused"
  /\ refusal' = why
  /\ UNCHANGED <<vars, ask, attempts, secret, spent>>

\* The key or the signer is known, its signature holds, and its organization may call here.
Authenticate ==
  \/ Refuse("auth", "unauthorized") /\ UNCHANGED counted
  \/ ask.known /\ ~ask.allowed /\ Refuse("auth", "region") /\ UNCHANGED counted
  \/ ask.known /\ ask.allowed /\ Goes("auth", "decode") /\ UNCHANGED <<attempts, counted>>

Decode ==
  \/ Refuse("decode", "malformed") /\ UNCHANGED counted
  \/ Goes("decode", "policy") /\ UNCHANGED <<attempts, counted>>

\* The policies of the organization; an error in one is a 500.
Policies ==
  /\ stage = "policy"
  /\ UNCHANGED counted
  /\ \/ ask.verdict = "deny" /\ Refuse("policy", "denied")
     \/ ask.verdict = "error" /\ Refuse("policy", "broken")
     \/ ask.verdict = "allow" /\ Goes("policy", "hooks") /\ UNCHANGED attempts

\* The BeforeCall hooks and then the WASM hooks of the organization: the first that denies
\* or fails ends the call.
BeforeCall ==
  \/ \E why \in {"denied", "broken"} : Refuse("hooks", why) /\ UNCHANGED counted
  \/ Goes("hooks", "quota") /\ UNCHANGED <<attempts, counted>>

\* Mutation: the quotas are taken as soon as the policies have been asked.
QuotaEarly ==
  \/ Goes("hooks", "hooks") /\ ~counted /\ counted' = TRUE /\ UNCHANGED attempts
  \/ Goes("quota", "route") /\ counted' = TRUE /\ UNCHANGED attempts

\* The request quotas, last of the gates; a counter that fails leaves some incremented.
Quota ==
  \/ Refuse("quota", "exhausted") /\ UNCHANGED counted
  \/ Refuse("quota", "broken") /\ counted' \in BOOLEAN
  \/ Goes("quota", "route") /\ counted' = TRUE /\ UNCHANGED attempts

\* The route of the model; for audio its primary provider and its model must be fit for it.
FindRoute ==
  /\ stage = "route"
  /\ UNCHANGED counted
  /\ \/ ask.orders = {} /\ Refuse("route", "unroutable")
     \/ /\ attempts' \in ask.orders
        /\ Goes("route", IF mode = "audio" THEN "loop" ELSE "chat hooks")

\* The chat hooks rewrite messages; the model and streaming stay those of the request.
BeforeChat ==
  \/ Refuse("chat hooks", "broken") /\ UNCHANGED counted
  \/ Goes("chat hooks", "loop") /\ UNCHANGED <<attempts, counted>>

-----------------------------------------------------------------------------
(* The loop *)

attempted == attempts[target].provider

Resolved == ask.secret[attempted]

Looping ==
  /\ stage = "loop"
  /\ UNCHANGED <<stage, ask, attempts, counted, refusal>>

BindSecret ==
  /\ Looping
  /\ Resolved # Missing
  /\ Bind
  /\ secret' = Resolved
  /\ UNCHANGED spent

\* The credential does not resolve or does not open, or in audio the backend is missing.
BindSecretFails ==
  /\ Looping
  /\ mode = "audio" \/ Resolved # NoCredential
  /\ BindFails
  /\ UNCHANGED <<secret, spent>>

CallUpstream ==
  /\ Looping
  /\ CallFails \/ CallAnswers
  /\ spent' = spent \cup {<<attempted, secret>>}
  /\ UNCHANGED secret

Rest ==
  /\ Looping
  /\ \/ Sleep
     \/ ReplyError
     \/ ReplyUpstream
     \/ ReplyAudio
     \/ ReplyChat
     \/ ReplyStream
  /\ UNCHANGED <<secret, spent>>

CallNext ==
  \/ Authenticate
  \/ Decode
  \/ Policies
  \/ BeforeCall
  \/ Quota
  \/ FindRoute
  \/ BeforeChat
  \/ BindSecret
  \/ BindSecretFails
  \/ CallUpstream
  \/ Rest

CallSpec == CallInit /\ [][CallNext]_callVars

\* A handler is a goroutine whose upstream calls have timeouts: it keeps running.
FairCallSpec == CallSpec /\ WF_callVars(CallNext)

-----------------------------------------------------------------------------
(* Properties *)

\* Who is turned away by authentication, by the region's allowlist or by a policy or a
\* hook has used none of its request quota (gateCall asks the quotas last).
DenialIsFree == refusal \in {"unauthorized", "region", "malformed", "denied"} => ~counted

\* A call that ends with the error of its last target has tried every target of its route
\* that could be used, each as often as it may be, in whatever order the strategy put them.
EveryCandidateTried ==
  step = "done" /\ reply = "error" /\ err # "cancelled" =>
    \A i \in DOMAIN Targeted :
      \E t \in DOMAIN attempts :
        /\ attempts[t] = Targeted[i]
        /\ calls[t] = MaxTries \/ t \in unbound

typeOf(provider) == snap.providers[provider].type
Selected(context) == Apply(snap.policies, key.org, context).credential

Contexts == {NoContext} \cup {<<typeOf(p), c>> : p \in DOMAIN snap.providers,
                                                 c \in {"none"} \cup {d.id : d \in snap.credentials}}

\* Shown any credential, the policies select the one they select unseen, or none.
Steady == \A c \in Contexts : Selected(c) \in {"", Selected(NoContext)}

\* No upstream call, a fallback's neither, is made with a credential the policies deny,
\* unless they change their choice with the credential they are shown: the gate looks only
\* at the primary's credential and the loop must ask again.
NoDeniedSecret ==
  \A s \in spent :
    \/ Apply(snap.policies, key.org, <<typeOf(s[1]), s[2].id>>).verdict = "allow"
    \/ ~Steady

\* A call that writes no stream is refused or ends with an answer.
CallEnds == mode # "stream" => <>(stage = "refused" \/ (step = "done" /\ reply # "none"))
=============================================================================
