------------------------------ MODULE MCCallsAtOnce ------------------------------
(* What calls that run at once share: the counters of their quotas, which all      *)
(* gateways share (QuotaGate), one gateway's memory of nonces and the              *)
(* organization's bucket (SingleCalls), or one gateway's hooks with their plugins, *)
(* modules and guest instances (Extensions). The three share nothing: a behaviour  *)
(* is one of them.                                                                 *)
EXTENDS QuotaGate, TLC

CONSTANTS r1, r2, r3, apiKey, org,
          Parts, Kinds, OpenAILike, Types, Signed, Deliveries, Skew, ReplayTTL, MaxTime, MaxRestarts, MaxImages,
          Calls, OrgOf, Orgs, Manifests, Snaps, Contents, Exports, PoolSize, MaxUploads

VARIABLES part, request, now, nonces, run, job, stored, passed,
          gateway, procs, conns, closers, blobs, uploads, cache, modules, insts, call

S == INSTANCE SingleCalls WITH Requests <- Signed
X == INSTANCE Extensions WITH Snapshots <- Snaps

\* A nonce is remembered for as long as any signer's clock lets its request look fresh.
ASSUME ReplayAssumption ==
  /\ Skew \in Nat /\ ReplayTTL \in Nat /\ ReplayTTL >= 2 * Skew
  /\ MaxImages \in Nat

\* Priorities are whole numbers, and no two hooks that are asked together have one place.
ASSUME HooksAssumption ==
  /\ Len(Manifests) \in Nat
  /\ \A snap \in Snaps :
       /\ IsFiniteSet(snap)
       /\ \A h \in snap : h.priority \in Int /\ h.order \in Int
       /\ \A g, h \in snap :
            g.org = h.org /\ g.phase = h.phase /\ g.priority = h.priority /\ g.order = h.order => g = h

single == <<request, now, nonces, run, job, stored, passed>>
hooked == <<gateway, procs, conns, closers, blobs, uploads, cache, modules, insts, call>>

MCInit == /\ part \in Parts
          /\ Init
          /\ IF part = "single" THEN S!Init
             ELSE /\ request = <<>> /\ now = 0 /\ nonces = <<>> /\ run = 0
                  /\ job = [d \in Deliveries |-> S!Idle]
                  /\ stored = {} /\ passed = {}
          /\ IF part = "hooks" THEN X!Init
             ELSE /\ gateway = "none" /\ procs = <<>> /\ conns = {} /\ closers = <<>>
                  /\ blobs = <<>> /\ uploads = 0
                  /\ cache = <<>> /\ modules = <<>> /\ insts = <<>>
                  /\ call = [c \in Calls |-> X!Idle]
MCNext == \/ part = "quota" /\ Next /\ UNCHANGED <<part, single, hooked>>
          \/ part = "single" /\ S!Next /\ UNCHANGED <<part, vars, hooked>>
          \/ part = "hooks" /\ X!Next /\ UNCHANGED <<part, vars, single>>
MCSpec == MCInit /\ [][MCNext]_<<part, vars, single, hooked>>

\* SingleCalls: while it runs a gateway lets a signed request in once.
ServedOnce == S!ServedOnce
\* SingleCalls: a call that reached its upstream is recorded once, as it was answered.
RecordedOnce == S!RecordedOnce
\* Extensions: a guest instance serves one call at a time.
OneCallPerInstance == part = "hooks" => X!OneCallPerInstance
\* Extensions: quota and upstream come after every hook that is due, in order.
GatedInOrder == part = "hooks" => X!GatedInOrder
\* Extensions: plugins and modules that were started are ended.
NothingLeaks == part = "hooks" => X!NothingLeaks

\* Calls under quotas are interchangeable.
MCSymmetry == Permutations(Requests)

MCHook(id, o, phase, priority, uri, digest) ==
  [id |-> id, org |-> o, phase |-> phase, priority |-> priority, order |-> 1, enabled |-> TRUE,
   uri |-> uri, digest |-> digest]

\* A plugin that may name another principal, and asks again after the call.
MCManifests == <<[id |-> "p1", spawned |-> TRUE, caps |-> {"before_call", "after_call"}, rewrites |-> TRUE]>>

\* Two hooks of one URI, one pinned to a digest and one not; then the first is pinned to
\* another, and the other organization has a hook of its own.
MCSnaps ==
  {{MCHook("h1", "o1", "before_call", 1, "u", "none"), MCHook("h2", "o1", "before_call", 2, "u", "b1"),
    [MCHook("off", "o1", "before_call", 3, "u", "none") EXCEPT !.enabled = FALSE]},
   {MCHook("h1", "o1", "before_call", 1, "u", "b2"), MCHook("h3", "o2", "before_chat", 1, "u", "b2")}}
MCOrgOf == [c \in Calls |-> "o1"]
MCExports == [b \in Contents |-> IF b = "b1" THEN {"before_call", "after_call"} ELSE {"before_call", "before_chat"}]

\* Two keys of one organization: one with quotas of its own, one with the organization's.
MCKeys == {<<apiKey, org>>, <<org>>}
MCScopes == {apiKey, org}

On(scope, metric, w, limit) ==
  [scope |-> scope, metric |-> metric, window |-> w, limit |-> limit]

\* Window 1 is timed, window 2 lifetime.  The two snapshots differ in the limits, in what
\* the key's own scope covers, and in a duplicate quota, of which the first counts.
MCSnapshots ==
  {<<On(org, "requests", 1, 1), On(org, "requests", 2, 2), On(apiKey, "requests", 1, 2),
     On(org, "tokens", 1, 1)>>,
   <<On(org, "requests", 2, 1), On(org, "requests", 2, 2), On(apiKey, "requests", 2, 0)>>}

MCCeiling == [c \in Counters |->
  CASE c = <<org, "requests", 1>> -> 1
    [] c = <<org, "requests", 2>> -> 2
    [] c = <<apiKey, "requests", 1>> -> 2
    [] c = <<org, "tokens", 1>> -> 1
    [] OTHER -> 0]
=============================================================================
