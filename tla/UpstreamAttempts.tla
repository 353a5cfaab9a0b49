---------------------------- MODULE UpstreamAttempts ----------------------------
(***************************************************************************)
(* One gateway call after the gate: the retry and failover loop over the   *)
(* targets of its route, and the answer made of what the loop left behind. *)
(*                                                                         *)
(* The chat and the audio handlers run the same loop over different        *)
(* variables.  Audio holds a response that it drops before every further   *)
(* try.  Chat holds a result and, apart from it, whether there has ever    *)
(* been one: a failed call overwrites the first and leaves the second.     *)
(***************************************************************************)
EXTENDS Naturals

CONSTANTS
  NTargets,  \* bound: targets of a route, the primary and its fallbacks
  MaxTries,  \* tries per target, maxTriesFor of the effective retry settings
  Modes      \* handlers: "chat", "stream" (chat answered as a stream) and "audio"

ASSUME AttemptsAssumption ==
  /\ NTargets \in Nat \ {0}
  /\ MaxTries \in Nat \ {0}
  /\ Modes \subseteq {"chat", "stream", "audio"}

Targets == 1..NTargets

VARIABLES
  mode,     \* the handler
  n,        \* len(attempts)
  target,   \* the target tried
  try,      \* the try at it, from 0
  step,     \* where the handler is
  result,   \* result, resp: "none" is the zero result and the nil response
  err,      \* lastErr
  have,     \* haveResult
  used,     \* usedProvider, usedTarget, usedCredentialID: a target, 0 before any
  reply,    \* what the client has been sent
  usages,   \* usage events recorded
  afters,   \* AfterCall runs
  calls,    \* history: calls[t] upstream calls of target t
  unbound,  \* history: targets with no credential or backend
  last,     \* history: outcome of the last upstream call
  source    \* history: target of the last call that was answered

loop == <<target, try, step>>
history == <<calls, unbound, last, source>>
vars == <<mode, n, loop, result, err, have, used, reply, usages, afters, history>>

Answers == {"ok", "refused", "busy"}  \* below 400; 4xx; 5xx and 429
Errors  == {"failed", "unsupported"}  \* transport errors; no such feature or no streaming

Init ==
  /\ mode \in Modes
  /\ n \in Targets
  /\ target = 1 /\ try = 0 /\ step = "bind"
  /\ result = "none" /\ err = "none" /\ have = FALSE
  /\ used = 0
  /\ reply = "none" /\ usages = 0 /\ afters = 0
  /\ calls = [t \in Targets |-> 0]
  /\ unbound = {}
  /\ last = "none"
  /\ source = 0

-----------------------------------------------------------------------------
(* The loop *)

Retry ==
  /\ try + 1 < MaxTries
  /\ try' = try + 1
  /\ step' = "sleep"
  /\ UNCHANGED target

Failover ==
  /\ target < n
  /\ target' = target + 1
  /\ try' = 0
  /\ step' = "bind"

Stop ==
  /\ step' = "reply"
  /\ UNCHANGED <<target, try>>

\* The same target again, else the next one, else the end of the loop.
Onward ==
  \/ Retry
  \/ try + 1 = MaxTries /\ Failover
  \/ try + 1 = MaxTries /\ target = n /\ Stop

\* The wait before a retry, which the client may cut short.
Sleep ==
  /\ step = "sleep"
  /\ \/ step' = "bind" /\ UNCHANGED <<target, try, result, err>>
     \/ /\ err' = "cancelled"
        /\ result' = IF mode = "audio" THEN "none" ELSE result
        /\ Stop
  /\ UNCHANGED <<mode, n, have, used, reply, usages, afters, history>>

Bind ==
  /\ step = "bind"
  /\ step' = "call"
  /\ used' = target
  /\ UNCHANGED <<mode, n, target, try, result, err, have, reply, usages, afters, history>>

\* The credential of the target does not resolve, or in audio its backend is missing:
\* the target is not retried.  Only the backend is looked up after the target is noted.
BindFails ==
  /\ step = "bind"
  /\ err' = "bind"
  /\ Failover \/ (target = n /\ Stop)
  /\ used' \in {used} \cup {t \in {target} : mode = "audio"}
  /\ unbound' = unbound \cup {target}
  /\ UNCHANGED <<mode, n, result, have, reply, usages, afters, calls, last, source>>

Called(outcome) ==
  /\ step = "call"
  /\ calls' = [calls EXCEPT ![target] = @ + 1]
  /\ last' = outcome
  /\ UNCHANGED <<mode, n, used, reply, usages, afters, unbound>>

\* The call fails; its zero result replaces the one of an earlier try.
CallFails ==
  \E outcome \in Errors :
    /\ outcome = "unsupported" => mode # "audio"
    /\ Called(outcome)
    /\ result' = "none"
    /\ err' = outcome
    /\ IF outcome = "failed" THEN Onward ELSE Stop
    /\ UNCHANGED <<have, source>>

\* The call is answered; only 5xx and 429 go on, and audio drops the response then.
CallAnswers ==
  \E outcome \in Answers :
    /\ Called(outcome)
    /\ err' = "none"
    /\ have' = TRUE
    /\ source' = target
    /\ IF outcome = "busy" /\ (try + 1 < MaxTries \/ target < n)
         THEN Onward /\ result' = IF mode = "audio" THEN "none" ELSE outcome
         ELSE Stop /\ result' = outcome

-----------------------------------------------------------------------------
(* The answer *)

\* Mutation: audio goes by whether there has ever been a response, as chat does.
HoldsEver == have

Holds == IF mode = "audio" THEN result # "none" ELSE have

Account ==
  /\ usages' = usages + 1
  /\ afters' = afters + 1

Ended(answer) ==
  /\ step = "reply"
  /\ reply' = answer
  /\ UNCHANGED <<mode, n, target, try, result, err, have, used, history>>

\* Nothing to answer with: 400 for an unsupported feature, else 502 with the last error.
ReplyError ==
  /\ ~Holds
  /\ err # "none"
  /\ step' = "done"
  /\ \/ err = "unsupported" /\ Ended("unsupported") /\ UNCHANGED <<usages, afters>>
     \/ err # "unsupported" /\ Ended("error") /\ Account

\* The status and body of the upstream's refusal.
ReplyUpstream ==
  /\ Holds
  /\ result \in {"refused", "busy"}
  /\ Ended("upstream")
  /\ step' = "done"
  /\ Account

ReplyAudio ==
  /\ mode = "audio"
  /\ result = "ok"
  /\ Ended("ok")
  /\ step' = "done"
  /\ Account

\* The zero result passes for a status below 400 and has no response: 502, as for a
\* response that does not encode, and in both cases nothing is recorded.
ReplyChat ==
  /\ mode = "chat"
  /\ Holds
  /\ result \in {"none", "ok"}
  /\ step' = "done"
  /\ \/ result = "none" /\ Ended("empty") /\ UNCHANGED <<usages, afters>>
     \/ result = "ok" /\ Ended("unencodable") /\ UNCHANGED <<usages, afters>>
     \/ result = "ok" /\ Ended("ok") /\ Account

\* 200 and the headers of a stream, then its events: the zero result has no channel and
\* the handler waits on nil for ever.
ReplyStream ==
  /\ mode = "stream"
  /\ Holds
  /\ \/ result = "none" /\ Ended("ok") /\ step' = "stuck" /\ UNCHANGED <<usages, afters>>
     \/ result = "ok" /\ Ended("ok") /\ step' = "done" /\ Account

-----------------------------------------------------------------------------
Next ==
  \/ Sleep
  \/ Bind
  \/ BindFails
  \/ CallFails
  \/ CallAnswers
  \/ ReplyError
  \/ ReplyUpstream
  \/ ReplyAudio
  \/ ReplyChat
  \/ ReplyStream

Spec == Init /\ [][Next]_vars

\* A handler is a goroutine and its upstream calls have timeouts: it keeps running.
FairSpec == Spec /\ WF_vars(Next)

-----------------------------------------------------------------------------
(* Properties *)

Steps == {"sleep", "bind", "call", "reply", "done", "stuck"}
Replies == {"none", "ok", "upstream", "error", "unsupported", "empty", "unencodable"}

\* Every variable has its type.
TypeOK ==
  /\ mode \in Modes
  /\ n \in Targets
  /\ target \in 1..n
  /\ try \in 0..(MaxTries - 1)
  /\ step \in Steps
  /\ result \in Answers \cup {"none"}
  /\ err \in Errors \cup {"none", "bind", "cancelled"}
  /\ have \in BOOLEAN
  /\ used \in 0..n
  /\ reply \in Replies
  /\ usages \in Nat /\ afters \in Nat
  /\ calls \in [Targets -> Nat]
  /\ unbound \in SUBSET Targets
  /\ last \in Answers \cup Errors \cup {"none"}
  /\ source \in 0..n

Over == step \in {"done", "stuck"}

\* What the client is not to pay for twice is not asked for twice: after an answer that
\* is not 5xx or 429, or a feature no retry can bring, there is no further upstream call.
AnswerIsFinal == [][(last \in {"ok", "refused", "unsupported"}) => calls' = calls]_vars

\* A fallback is called only after the targets before it have had all their tries or
\* could not be bound, and no target has more than its tries.
TargetsExhausted ==
  \A t \in Targets :
    /\ t < target => calls[t] = MaxTries \/ t \in unbound
    /\ calls[t] <= MaxTries

\* A result the client gets is recorded exactly once, under the provider, target and
\* credential it came from, also when later targets were looked at.
RecordedAsAnswered ==
  step = "done" /\ reply \in {"ok", "upstream"} =>
    usages = 1 /\ afters = 1 /\ used = source /\ used # 0

\* Outside streams, a 200 carries an answer of the last upstream call.
OkMeansOk == reply = "ok" /\ mode # "stream" => last = "ok"

\* A handler that writes no stream ends with an answer.
Ends == mode # "stream" => <>(step = "done" /\ reply # "none")

\* When the last call failed the client is told so.
LastFailureReported ==
  Over =>
    /\ last = "failed" => reply = "error"
    /\ last = "busy" => reply \in {"upstream", "error"}
=============================================================================
