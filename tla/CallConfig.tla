------------------------------- MODULE CallConfig -------------------------------
(***************************************************************************)
(* What a gateway call reads from its snapshot: who may call, where a      *)
(* model is routed, which policies apply and which credential is used.     *)
(* A snapshot never changes, so these are functions of it.                 *)
(*                                                                         *)
(* A policy's expression is given by the credential contexts it is true in *)
(* and those its evaluation fails in: of what it may look at, only the     *)
(* credential differs between the evaluations of one call.  Names and      *)
(* prices are numbers, in their order.                                     *)
(***************************************************************************)
EXTENDS Integers, Sequences, FiniteSets, SequencesExt

Unrestricted == {"*"}   \* AllowedOrganizationIDs = nil: no allowlist

NoCredential == [id |-> "none"]     \* none is assigned
Missing      == [id |-> "missing"]  \* a policy names one there is not

\* A context policies see: the type of the provider and the id of its credential.
NoContext == <<"", "none">>

-----------------------------------------------------------------------------
(* Who may call and where *)

AllowsOrganization(s, org) == s.orgs = Unrestricted \/ org \in s.orgs

\* Keys by their secret, signing keys only while active.
LookupKey(s, id) == {k \in s.keys : k.id = id /\ (k.signing => k.active)}

LookupRoute(s, org, model) ==
  {r \in s.routes : r.org = org /\ r.model = model /\ r.provider \in DOMAIN s.providers}

\* Older snapshots hold fewer capabilities: the type's own fill the gaps.
NormalizeCapabilities(p) ==
  IF p.caps = {} THEN p.defaults
  ELSE p.caps \cup (p.defaults \cap {"embedding", "image"})
              \cup (IF p.caps \cap {"tts", "stt"} = {} THEN p.defaults \cap {"tts", "stt"} ELSE {})

Usable(s, id, needs) ==
  id \in DOMAIN s.providers /\ needs \subseteq NormalizeCapabilities(s.providers[id])

-----------------------------------------------------------------------------
(* The order of the targets *)

\* The k-th of some indices by ascending score, those of equal score as they come.
Nth(I, score, k) ==
  LET Before(i, j) == score[i] < score[j] \/ (score[i] = score[j] /\ i < j)
  IN CHOOSE i \in I : Cardinality({j \in I : Before(j, i)}) = k - 1

SortedBy(cands, score) == [k \in DOMAIN cands |-> cands[Nth(DOMAIN cands, score, k)]]

\* Twice the latency of each candidate: the median of the known ones where none is.
LatencyScores(cands, signals) ==
  LET At(i) == <<cands[i].provider, cands[i].target>>
      Known == {i \in DOMAIN cands : At(i) \in DOMAIN signals}
      latency == [i \in Known |-> signals[At(i)]]
      sorted(k) == latency[Nth(Known, latency, k)]
      half == Cardinality(Known) \div 2
      median == IF Cardinality(Known) % 2 = 0 THEN sorted(half) + sorted(half + 1) ELSE 2 * sorted(half + 1)
  IN [i \in DOMAIN cands |-> IF i \in Known THEN 2 * signals[At(i)] ELSE median]

\* The dearest price plus one where the catalogue has none.
CostScores(cands, prices) ==
  LET At(i) == <<cands[i].provider, cands[i].target>>
      Known == {i \in DOMAIN cands : At(i) \in DOMAIN prices}
  IN [i \in DOMAIN cands |->
        IF i \in Known THEN prices[At(i)] ELSE 1 + Max({prices[At(j)] : j \in Known} \cup {0})]

\* Mutation: the picked candidate takes the place of the first, which is lost.
OrdersLosing(strategy, cands, signals, prices) == {<<cands[i]>> \o Tail(cands) : i \in DOMAIN cands}

\* The orders a strategy may give: weights are at least 1, so any candidate may be first.
Orders(strategy, cands, signals, prices) ==
  CASE strategy = "weighted" /\ cands # <<>> ->
         {<<cands[i]>> \o RemoveAt(cands, i) : i \in DOMAIN cands}
    [] strategy = "latency" /\ (\E i \in DOMAIN cands : <<cands[i].provider, cands[i].target>> \in DOMAIN signals) ->
         {SortedBy(cands, LatencyScores(cands, signals))}
    [] strategy = "cost" -> {SortedBy(cands, CostScores(cands, prices))}
    [] OTHER -> {cands}

\* The primary and the fallbacks whose provider is there and can do what is needed.
Candidates(s, route, needs) ==
  LET primary == [provider |-> route.provider, target |-> route.target]
      Named(f) == [provider |-> f.provider, target |-> IF f.target = "" THEN route.target ELSE f.target]
      all == <<primary>> \o [i \in DOMAIN route.fallbacks |-> Named(route.fallbacks[i])]
      fit == {i \in DOMAIN all : Usable(s, all[i].provider, needs)}
  IN [k \in 1..Cardinality(fit) |-> all[Nth(fit, [i \in fit |-> i], k)]]

BuildAttempts(s, route, needs, signals, prices) ==
  Orders(route.strategy, Candidates(s, route, needs), signals, prices)

-----------------------------------------------------------------------------
(* Policies *)

sortedOrgPolicies(policies, org) ==
  SetToSortSeq({p \in policies : p.enabled /\ p.org = org},
               LAMBDA p, q : p.priority > q.priority \/ (p.priority = q.priority /\ p.name < q.name))

\* What an action does: it goes on, ends the walk or is in error.
applyAction(act) ==
  CASE act.type = "use_credential" /\ act.name = "" -> "error"
    [] act.type \in {"use_credential", "set_header"} -> "on"
    [] act.type \in {"allow", "deny"} -> act.type
    [] OTHER -> "error"

\* The actions of a policy; one whose expression fails or that has none is in error.
EffectiveActions(p, context) ==
  IF context \in p.fails \/ (context \in p.when /\ p.then = <<>>)
    THEN <<[type |-> "error", name |-> ""]>>
  ELSE IF context \in p.when THEN p.then ELSE <<>>

\* The policies of an organization, highest first, up to the action that ends the walk;
\* the last credential named on the way is the one selected.
Apply(policies, org, context) ==
  LET sorted == sortedOrgPolicies(policies, org)
      acts   == FlattenSeq([i \in DOMAIN sorted |-> EffectiveActions(sorted[i], context)])
      stop   == SelectInSeq(acts, LAMBDA a : applyAction(a) # "on")
      walked == IF stop = 0 THEN acts ELSE SubSeq(acts, 1, stop - 1)
      last   == SelectLastInSeq(walked, LAMBDA a : a.type = "use_credential")
  IN [verdict    |-> IF stop = 0 THEN "allow" ELSE applyAction(acts[stop]),
      credential |-> IF last = 0 THEN "" ELSE walked[last].name]

-----------------------------------------------------------------------------
(* Credentials *)

Active(s) == {c \in s.credentials : c.active}

\* The named credential of the organization, or that of the most specific scope. A
\* snapshot's map of credentials is never nil: Compile makes it, and JSON keeps it.
ResolveCredentialForCall(s, type, key, name) ==
  LET Named    == {c \in Active(s) : c.org = key.org /\ c.type = type /\ c.name = name}
      scopes   == <<<<"api_key", key.id>>, <<"project", key.project>>, <<"organization", key.org>>>>
      Bound(i) == {c \in Active(s) : <<type, scopes[i], c.id>> \in s.assignments}
      hit      == SelectInSeq(<<1, 2, 3>>, LAMBDA i : Bound(i) # {})
  IN IF name # "" THEN (IF Named = {} THEN Missing ELSE CHOOSE c \in Named : TRUE)
     ELSE IF hit = 0 THEN NoCredential ELSE CHOOSE c \in Bound(hit) : TRUE

CredentialFromSnapshot(s, type, key, name) ==
  LET cred == ResolveCredentialForCall(s, type, key, name)
  IN <<type, IF cred = Missing THEN "none" ELSE cred.id>>

\* The gate: once without a credential, once with the one of the primary provider.
PolicyVerdict(s, key, model) ==
  LET first == Apply(s.policies, key.org, NoContext)
      Again(r) ==
        LET type == s.providers[r.provider].type
        IN Apply(s.policies, key.org, CredentialFromSnapshot(s, type, key, first.credential)).verdict
      routes == LookupRoute(s, key.org, model)
  IN IF first.verdict # "allow" \/ routes = {} THEN first.verdict
     ELSE Again(CHOOSE r \in routes : TRUE)

\* Mutation: the second walk is left out, and with it what policies say of the credential.
bindOnce(s, key, provider) ==
  LET first == Apply(s.policies, key.org, NoContext)
      cred  == ResolveCredentialForCall(s, provider.type, key, first.credential)
  IN IF first.verdict # "allow" \/ cred = Missing
          \/ (cred = NoCredential /\ ~provider.env /\ ~provider.optional)
       THEN Missing ELSE cred

\* The credential a call to a provider is made with, NoCredential for the gateway's own
\* environment, Missing when it cannot be made.
bindProviderSecret(s, key, provider) ==
  LET first  == Apply(s.policies, key.org, NoContext)
      second == Apply(s.policies, key.org, CredentialFromSnapshot(s, provider.type, key, first.credential))
      name   == IF second.credential # "" THEN second.credential ELSE first.credential
      cred   == ResolveCredentialForCall(s, provider.type, key, name)
  IN IF first.verdict # "allow" \/ second.verdict # "allow" \/ cred = Missing
          \/ (cred = NoCredential /\ ~provider.env /\ ~provider.optional)
       THEN Missing ELSE cred
=============================================================================
