------------------------------- MODULE QuotaGate -------------------------------
(***************************************************************************)
(* The request quotas of the gateways.                                     *)
(*                                                                         *)
(* A call resolves, for every window, the quota of its key's most specific *)
(* scope in the snapshot it started under.  It reads all the counters      *)
(* first and is denied at the first one at its limit; only then does it    *)
(* increment them, one after another.  Nothing is locked: the counters are *)
(* in Postgres (lifetime) and Redis (fixed windows), shared by the calls   *)
(* of every gateway.  Token quotas are counted after the answer, with      *)
(* errors ignored, and never read.                                         *)
(***************************************************************************)
EXTENDS Integers, Sequences, FiniteSets

CONSTANTS
  Requests,     \* calls in flight at once, in any number of gateways
  Keys,         \* authenticated keys: each the sequence of its scopes, most specific first
  Scopes,       \* api keys, users, projects, teams and organizations
  Snapshots,    \* the quota lists of the snapshots calls may hold
  NWindows,     \* quota windows, numbered in the order of RequestWindows
  Timed,        \* those that are fixed windows in Redis
  Ceiling,      \* Ceiling[c]: the greatest limit a snapshot gives counter c
  MaxTokens,    \* bound: tokens of one answer
  MaxCalls,     \* bound: calls
  MaxRolls      \* bound: times a fixed window ends

Windows  == 1..NWindows
Metrics  == {"requests", "tokens"}
Counters == Scopes \X Metrics \X Windows
Quota    == [scope : Scopes, metric : Metrics, window : Windows, limit : Nat]

CounterOf(q) == <<q.scope, q.metric, q.window>>

ASSUME QuotaAssumption ==
  /\ IsFiniteSet(Requests)
  /\ Keys \subseteq Seq(Scopes)
  /\ Snapshots \subseteq Seq(Quota)
  /\ NWindows \in Nat \ {0}
  /\ Timed \subseteq Windows
  /\ Ceiling \in [Counters -> Nat]
  /\ \A s \in Snapshots : \A i \in DOMAIN s : s[i].limit <= Ceiling[CounterOf(s[i])]
  /\ MaxTokens \in Nat /\ MaxCalls \in Nat /\ MaxRolls \in Nat

VARIABLES
  used,    \* used[c]: counter c, of its current fixed window if it is timed
  pc,      \* pc[r]: the next step of call r
  key,     \* key[r]: the scopes of its key
  quotas,  \* quotas[r]: the quota list of the snapshot it holds
  window,  \* window[r]: the window it looks at
  hits,    \* hits[r]: counters it has found below their limit and not yet incremented
  tokens,  \* tokens[r]: tokens of its answer
  reply,   \* reply[r]: what the gate answered it last
  taken,   \* history: counters call r has incremented
  full,    \* history: counters of r at their limit since before r arrived
  calls,   \* calls started (bounded by MaxCalls)
  rolls    \* windows ended (bounded by MaxRolls)

localVars == <<key, quotas, window, hits, tokens>>
vars == <<used, pc, localVars, reply, taken, full, calls, rolls>>

-----------------------------------------------------------------------------
(* Resolution *)

\* The positions in s of the quotas on metric m and window w that a scope of k matches.
Matching(k, s, m, w) ==
  {i \in DOMAIN s : /\ s[i].metric = m
                    /\ s[i].window = w
                    /\ \E d \in DOMAIN k : k[d] = s[i].scope}

\* Quota i of s is on a more specific scope than quota j, or the same and listed before.
Outranks(k, s, i, j) ==
  \E d \in DOMAIN k :
    /\ k[d] = s[i].scope
    /\ \A e \in DOMAIN k : k[e] = s[j].scope => d <= e
    /\ s[i].scope = s[j].scope => i <= j

\* The quota that applies to key k, if any: at most one element.
ResolveQuota(k, s, m, w) ==
  {s[i] : i \in {i \in Matching(k, s, m, w) :
                   \A j \in Matching(k, s, m, w) : Outranks(k, s, i, j)}}

\* The request counters a call with key k and quotas s is measured by.
Gates(k, s) == UNION {ResolveQuota(k, s, "requests", w) : w \in Windows}

Init ==
  /\ used = [c \in Counters |-> 0]
  /\ pc = [r \in Requests |-> "idle"]
  /\ key = [r \in Requests |-> << >>]
  /\ quotas = [r \in Requests |-> << >>]
  /\ window = [r \in Requests |-> 1]
  /\ hits = [r \in Requests |-> {}]
  /\ tokens = [r \in Requests |-> 0]
  /\ reply = [r \in Requests |-> "none"]
  /\ taken = [r \in Requests |-> {}]
  /\ full = [r \in Requests |-> {}]
  /\ calls = 0
  /\ rolls = 0

-----------------------------------------------------------------------------
(* The gate *)

\* A call passes authentication, policies and hooks, and comes to the quota gate.
Arrive(r) ==
  /\ pc[r] = "idle"
  /\ calls < MaxCalls
  /\ calls' = calls + 1
  /\ \E k \in Keys, s \in Snapshots :
       /\ key' = [key EXCEPT ![r] = k]
       /\ quotas' = [quotas EXCEPT ![r] = s]
       /\ full' = [full EXCEPT ![r] =
            {CounterOf(q) : q \in {q \in Gates(k, s) : used[CounterOf(q)] >= q.limit}}]
  /\ pc' = [pc EXCEPT ![r] = "check"]
  /\ reply' = [reply EXCEPT ![r] = "none"]
  /\ taken' = [taken EXCEPT ![r] = {}]
  /\ UNCHANGED <<used, window, hits, tokens, rolls>>

\* The call is over: its locals are gone.
Leave(r) ==
  /\ pc' = [pc EXCEPT ![r] = "idle"]
  /\ key' = [key EXCEPT ![r] = << >>]
  /\ quotas' = [quotas EXCEPT ![r] = << >>]
  /\ window' = [window EXCEPT ![r] = 1]
  /\ hits' = [hits EXCEPT ![r] = {}]
  /\ tokens' = [tokens EXCEPT ![r] = 0]

\* On to the next window, and after the last one to another step.
Advance(r, step) ==
  IF window[r] = NWindows
    THEN /\ window' = [window EXCEPT ![r] = 1]
         /\ pc' = [pc EXCEPT ![r] = step]
    ELSE /\ window' = [window EXCEPT ![r] = @ + 1]
         /\ UNCHANGED pc

\* What applies to call r in the window it looks at.
Current(r, m) == ResolveQuota(key[r], quotas[r], m, window[r])

Reached(q) == used[CounterOf(q)] >= q.limit

\* Get, and the comparison with the limit: the call remembers the quota it passed.
Pass(r) ==
  /\ pc[r] = "check"
  /\ \A q \in Current(r, "requests") : ~Reached(q)
  /\ hits' = [hits EXCEPT ![r] = @ \cup {CounterOf(q) : q \in Current(r, "requests")}]
  /\ Advance(r, "incr")
  /\ UNCHANGED <<used, key, quotas, tokens, reply, taken, full, calls, rolls>>

\* The first counter at its limit denies the call (429); nothing is incremented.
Deny(r) ==
  /\ pc[r] = "check"
  /\ \E q \in Current(r, "requests") : Reached(q)
  /\ Leave(r)
  /\ reply' = [reply EXCEPT ![r] = "denied"]
  /\ UNCHANGED <<used, taken, full, calls, rolls>>

\* The counters passed in the window the call looks at.
Due(r) == {c \in hits[r] : c[3] = window[r]}

\* Mutation: a counter may be incremented twice.
IncrTwice(r) ==
  /\ pc[r] = "incr"
  /\ used' = [c \in Counters |-> used[c] + IF c \in Due(r) THEN 2 ELSE 0]
  /\ taken' = [taken EXCEPT ![r] = @ \cup Due(r)]
  /\ hits' = [hits EXCEPT ![r] = @ \ Due(r)]
  /\ Advance(r, "call")
  /\ UNCHANGED <<key, quotas, tokens, reply, full, calls, rolls>>

\* Incr of the quotas passed, in the order of the windows.
Incr(r) ==
  /\ pc[r] = "incr"
  /\ used' = [c \in Counters |-> used[c] + IF c \in Due(r) THEN 1 ELSE 0]
  /\ taken' = [taken EXCEPT ![r] = @ \cup Due(r)]
  /\ hits' = [hits EXCEPT ![r] = @ \ Due(r)]
  /\ Advance(r, "call")
  /\ UNCHANGED <<key, quotas, tokens, reply, full, calls, rolls>>

\* A counter store fails, or the window has none (no AFI_REDIS_URL, no Postgres): the
\* call ends with 500, and what it has incremented stays.
StoreFails(r) ==
  /\ pc[r] \in {"check", "incr"}
  /\ Current(r, "requests") # {}
  /\ Leave(r)
  /\ reply' = [reply EXCEPT ![r] = "error"]
  /\ UNCHANGED <<used, taken, full, calls, rolls>>

\* The increment is made but its answer is lost: 500 again, with one more counted.
IncrLost(r) ==
  /\ pc[r] = "incr"
  /\ Due(r) # {}
  /\ used' = [c \in Counters |-> used[c] + IF c \in Due(r) THEN 1 ELSE 0]
  /\ taken' = [taken EXCEPT ![r] = @ \cup Due(r)]
  /\ Leave(r)
  /\ reply' = [reply EXCEPT ![r] = "error"]
  /\ UNCHANGED <<full, calls, rolls>>

-----------------------------------------------------------------------------
(* After the gate *)

\* The call is made, or refused further on; an answer may come with a token count.
Call(r) ==
  /\ pc[r] = "call"
  /\ reply' = [reply EXCEPT ![r] = "admitted"]
  /\ \/ Leave(r)
     \/ \E n \in 1..MaxTokens :
          /\ tokens' = [tokens EXCEPT ![r] = n]
          /\ pc' = [pc EXCEPT ![r] = "tokens"]
          /\ UNCHANGED <<key, quotas, window, hits>>
  /\ UNCHANGED <<used, taken, full, calls, rolls>>

\* incrTokens, one window after another; an error is dropped.
IncrTokens(r) ==
  /\ pc[r] = "tokens"
  /\ LET counted == {CounterOf(q) : q \in Current(r, "tokens")}
     IN  used' \in {used, [c \in Counters |->
                             used[c] + IF c \in counted THEN tokens[r] ELSE 0]}
  /\ IF window[r] = NWindows
       THEN Leave(r)
       ELSE /\ window' = [window EXCEPT ![r] = @ + 1]
            /\ UNCHANGED <<pc, key, quotas, hits, tokens>>
  /\ UNCHANGED <<reply, taken, full, calls, rolls>>

\* A fixed window ends: its counters start again from 0 under another Redis key.
Roll(w) ==
  /\ rolls < MaxRolls
  /\ rolls' = rolls + 1
  /\ used' = [c \in Counters |-> IF c[3] = w THEN 0 ELSE used[c]]
  /\ full' = [r \in Requests |-> {c \in full[r] : c[3] # w}]
  /\ UNCHANGED <<pc, localVars, reply, taken, calls>>

-----------------------------------------------------------------------------
Step(r) ==
  \/ Arrive(r)
  \/ Pass(r)
  \/ Deny(r)
  \/ Incr(r)
  \/ StoreFails(r)
  \/ IncrLost(r)
  \/ Call(r)
  \/ IncrTokens(r)

Next == (\E r \in Requests : Step(r)) \/ (\E w \in Timed : Roll(w))

Spec == Init /\ [][Next]_vars

-----------------------------------------------------------------------------
(* Properties *)

Steps == {"idle", "check", "incr", "call", "tokens"}
Replies == {"none", "denied", "error", "admitted"}

\* Every variable has its type.
TypeOK ==
  /\ used \in [Counters -> Nat]
  /\ pc \in [Requests -> Steps]
  /\ key \in [Requests -> Keys \cup {<< >>}]
  /\ quotas \in [Requests -> Snapshots \cup {<< >>}]
  /\ window \in [Requests -> Windows]
  /\ hits \in [Requests -> SUBSET Counters]
  /\ tokens \in [Requests -> Nat]
  /\ reply \in [Requests -> Replies]
  /\ taken \in [Requests -> SUBSET Counters]
  /\ full \in [Requests -> SUBSET Counters]
  /\ calls \in Nat
  /\ rolls \in Nat

\* How far a request counter can go: one call of the last unit and every other call
\* that read the counter before it moved; a counter limited to 0 never moves.
Allowance(c) == IF Ceiling[c] = 0 THEN 0 ELSE Ceiling[c] - 1 + Cardinality(Requests)

\* Reading before incrementing lets concurrent calls over the limit, but by no more
\* than the calls in flight, even across the end of a window, a change of the limits
\* and failures half-way through the increments.
OvershootBounded ==
  \A c \in Counters : c[2] = "requests" => used[c] <= Allowance(c)

\* A call that arrives when one of its counters is at its limit is not admitted,
\* unless that window ends meanwhile.
ExhaustedDenies == \A r \in Requests : pc[r] \in {"call", "tokens"} => full[r] = {}

\* A call denied by a quota has consumed none: not even an earlier window's.
DeniedTakesNothing == \A r \in Requests : reply[r] = "denied" => taken[r] = {}

\* A call that passed the gate has been counted in every window its most specific
\* quota covers.
AdmittedTookAll ==
  \A r \in Requests : pc[r] \in {"call", "tokens"} =>
    taken[r] = {CounterOf(q) : q \in Gates(key[r], quotas[r])}
=============================================================================
