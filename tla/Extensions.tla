------------------------------ MODULE Extensions ------------------------------
(* The hooks a gateway runs around a call. gRPC plugins are started with the        *)
(* gateway and asked first, in the order of its configuration; the WASM hooks of    *)
(* the call's snapshot follow, by priority. Their modules are fetched and compiled  *)
(* by the first call that needs them and shared through a cache; each keeps a pool  *)
(* of guest instances. SIGTERM kills the plugins at once, while running calls may   *)
(* take ten more seconds. A digest is the content it is the digest of.              *)
EXTENDS Integers, FiniteSets, Sequences, SequencesExt

CONSTANTS Calls, OrgOf,
          Orgs,        \* OrgOf[c]: the organization of the key of call c; Orgs: all of them
          Manifests,   \* the plugins: [id, spawned: started by the gateway and not only
                       \* dialed, caps: the phases it has hooks for, rewrites: its answers
                       \* carry a principal]
          Snapshots,   \* the WASM hooks a snapshot may hold: [id, org, phase, priority,
                       \* order: its place among those of its priority, by name and then as
                       \* the snapshot has them, enabled, uri, digest]
          Contents,    \* what may be stored under a URI
          Exports,     \* Exports[b]: the phases module b exports; {} when it does not compile
          PoolSize,    \* instances a module keeps (8); 0 stands for a disabled pool
          MaxUploads   \* bound: how often what a URI holds is replaced

NoDigest == "none"
Uris == {h.uri : h \in UNION Snapshots}

VARIABLES gateway,  \* [step, at]: what main is doing, and the plugin it starts
          procs,    \* procs[i]: the process of plugin i
          conns,    \* plugins with an open connection
          closers,  \* Runtime.closer
          blobs,    \* blobs[uri]: what the URI holds
          uploads,
          cache,    \* ModuleCache.mods
          modules,  \* every module compiled: [bytes, closed, pool]
          insts,    \* every guest instance: [module, state]
          call      \* call[c]: the locals of a call

plugins == <<gateway, procs, conns, closers>>
guests  == <<cache, modules, insts>>
store   == <<blobs, uploads>>
vars    == <<plugins, guests, store, call>>

Plugins == 1..Len(Manifests)
Idle == [step |-> "idle"]

Init == /\ gateway = [step |-> "load", at |-> 1]
        /\ procs = [i \in Plugins |-> "none"] /\ conns = {} /\ closers = <<>>
        /\ blobs \in [Uris -> Contents] /\ uploads = 0
        /\ cache = <<>> /\ modules = <<>> /\ insts = <<>>
        /\ call = [c \in Calls |-> Idle]

Serving == gateway.step \in {"serving", "stopping", "sweeping", "closing"}

-----------------------------------------------------------------------------
(* Starting and stopping the plugins *)

\* Runtime.Close: closerList.closeAll.
closeAll(ps) == /\ procs' = [i \in Plugins |-> IF <<"proc", i>> \in Range(closers) THEN "gone" ELSE ps[i]]
                /\ conns' = {i \in conns : <<"conn", i>> \notin Range(closers)}
                /\ closers' = <<>>

\* Start gives up at the first plugin that does not load; main exits.
Refuse(ps) == closeAll(ps) /\ gateway' = [gateway EXCEPT !.step = "refused"]

startProcess ==
  /\ gateway.step = "load" /\ gateway.at \in Plugins
  /\ LET i == gateway.at IN
     \/ ~Manifests[i].spawned /\ gateway' = [gateway EXCEPT !.step = "dial"] /\ UNCHANGED <<procs, conns, closers>>
     \/ /\ Manifests[i].spawned
        /\ \/ /\ procs' = [procs EXCEPT ![i] = "running"]
              /\ closers' = Append(closers, <<"proc", i>>)
              /\ gateway' = [gateway EXCEPT !.step = "dial"] /\ UNCHANGED conns
           \* It does not start, or its socket never answers and it is closed again.
           \/ \E left \in {"none", "gone"} : Refuse([procs EXCEPT ![i] = left])
  /\ UNCHANGED <<guests, store, call>>

dialTarget ==
  /\ gateway.step = "dial"
  /\ \/ /\ procs[gateway.at] # "gone"
        /\ conns' = conns \cup {gateway.at} /\ closers' = Append(closers, <<"conn", gateway.at>>)
        /\ gateway' = [gateway EXCEPT !.step = "handshake"] /\ UNCHANGED procs
     \/ Refuse(procs)
  /\ UNCHANGED <<guests, store, call>>

\* The handshake names the capabilities, and a provider's type.
Handshake ==
  /\ gateway.step = "handshake"
  /\ \/ /\ procs[gateway.at] # "gone"
        /\ gateway' = [step |-> "load", at |-> gateway.at + 1] /\ UNCHANGED <<procs, conns, closers>>
     \/ Refuse(procs)
  /\ UNCHANGED <<guests, store, call>>

\* Start returns, ApplyHooks registers the hooks, the server listens.
Serve == /\ gateway.step = "load" /\ gateway.at > Len(Manifests)
         /\ gateway' = [gateway EXCEPT !.step = "serving"]
         /\ UNCHANGED <<procs, conns, closers, guests, store, call>>

\* Something else main sets up fails, and os.Exit skips what it deferred.
Abort == /\ gateway.step = "load" /\ gateway.at > Len(Manifests)
         /\ gateway' = [gateway EXCEPT !.step = "aborted"]
         /\ UNCHANGED <<procs, conns, closers, guests, store, call>>

\* A plugin's process ends by itself. Nothing starts it again.
Crash(i) == /\ procs[i] = "running" /\ procs' = [procs EXCEPT ![i] = "gone"]
            /\ UNCHANGED <<gateway, conns, closers, guests, store, call>>

\* SIGTERM cancels the context the plugins' commands were started with.
Stop == /\ gateway.step = "serving"
        /\ gateway' = [gateway EXCEPT !.step = "stopping"]
        /\ procs' = [i \in Plugins |-> IF procs[i] = "running" THEN "gone" ELSE procs[i]]
        /\ UNCHANGED <<conns, closers, guests, store, call>>

\* Shutdown has waited for the calls, or for ten seconds.
Drained == /\ gateway.step = "stopping"
           /\ gateway' = [gateway EXCEPT !.step = "sweeping"]
           /\ UNCHANGED <<procs, conns, closers, guests, store, call>>

-----------------------------------------------------------------------------
(* The modules *)

Close(m) == [m EXCEPT !.closed = TRUE, !.pool = <<>>]
Shut(S) == [n \in DOMAIN insts |-> IF n \in S THEN [insts[n] EXCEPT !.state = "closed"] ELSE insts[n]]
InstancesOf(m) == {n \in DOMAIN insts : insts[n].module = m}

\* ModuleCache.Close holds the cache while it closes one module after the other, in any
\* order; the runtime takes the instances with it.
SweepModule(k) ==
  /\ gateway.step = "sweeping" /\ k \in DOMAIN cache
  /\ modules' = [modules EXCEPT ![cache[k]] = Close(@)]
  /\ insts' = Shut(InstancesOf(cache[k]))
  /\ cache' = [j \in DOMAIN cache \ {k} |-> cache[j]]
  /\ UNCHANGED <<plugins, store, call>>

Swept == /\ gateway.step = "sweeping" /\ cache = <<>>
         /\ gateway' = [gateway EXCEPT !.step = "closing"]
         /\ UNCHANGED <<procs, conns, closers, guests, store, call>>

\* The last deferred call, and the end of the process with the calls still running.
Exit == /\ gateway.step = "closing"
        /\ closeAll(procs) /\ gateway' = [gateway EXCEPT !.step = "exited"]
        /\ cache' = <<>> /\ modules' = <<>> /\ insts' = <<>>
        /\ call' = [c \in Calls |-> Idle]
        /\ UNCHANGED store

\* A new build under the same URI.
Upload == /\ Serving /\ uploads < MaxUploads
          /\ \E u \in Uris, b \in Contents : b # blobs[u] /\ blobs' = [blobs EXCEPT ![u] = b]
          /\ uploads' = uploads + 1
          /\ UNCHANGED <<plugins, guests, call>>

-----------------------------------------------------------------------------
(* The hooks of a call *)

\* HookChain: the plugins' hooks of a phase, by the plugin's place.
registered(phase) == {<<"plugin", i>> : i \in {j \in Plugins : phase \in Manifests[j].caps}}

filterWasmHooks(snap, org, phase) ==
  {<<"wasm", h>> : h \in {g \in snap : g.enabled /\ g.org = org /\ g.phase = phase}}

\* Mutation: the lowest priority first.
SoonerByPriorityUp(g, h) == g.priority < h.priority \/ (g.priority = h.priority /\ g.order < h.order)

\* How filterWasmHooks sorts.
sooner(g, h) == g.priority > h.priority \/ (g.priority = h.priority /\ g.order < h.order)

\* The chain runs in the order it was registered in, the WASM hooks after it.
before(g, h) == \/ g[1] = "plugin" /\ (h[1] = "plugin" => g[2] < h[2])
                \/ g[1] = "wasm" /\ h[1] = "wasm" /\ sooner(g[2], h[2])

inOrder(asked) == [n \in 1..Cardinality(asked) |->
                    CHOOSE h \in asked : Cardinality({g \in asked : before(g, h)}) = n - 1]

hooks(c) ==
  inOrder(registered(call[c].phase) \cup filterWasmHooks(call[c].snap, call[c].org, call[c].phase))

current(c) == hooks(c)[call[c].at]
At(c, step) == Serving /\ call[c].step = step
AtHook(c, kind) == At(c, "hooks") /\ call[c].at <= Len(hooks(c)) /\ current(c)[1] = kind

Done(reply) == [step |-> "done", reply |-> reply]

\* What becomes of the call when its hook has answered.
Answered(c, answer, org) ==
  LET onward == [call[c] EXCEPT !.step = "hooks", !.at = @ + 1, !.org = org, !.module = 0, !.inst = 0, !.answer = "none"]
  IN CASE call[c].phase = "after_call" -> onward
       [] call[c].phase # "after_call" /\ answer = "allow" ->
            [onward EXCEPT !.passed = Append(@, <<call[c].phase, current(c)>>)]
       [] OTHER -> Done(answer)

Proceed(c, answer) == call' = [call EXCEPT ![c] = Answered(c, answer, call[c].org)]

Arrive(c) ==
  /\ gateway.step = "serving" /\ call[c] = Idle
  /\ \E snap \in Snapshots :
       call' = [call EXCEPT ![c] =
         [step |-> "hooks", phase |-> "before_call", at |-> 1, org |-> OrgOf[c], snap |-> snap,
          passed |-> <<>>, charged |-> FALSE, module |-> 0, inst |-> 0, answer |-> "none"]]
  /\ UNCHANGED <<plugins, guests, store>>

\* A plugin's hook, within its time: only BeforeCall denies, and only its answer may carry
\* another principal.
AskPlugin(c) ==
  /\ AtHook(c, "plugin")
  /\ LET i == current(c)[2]
         gate == call[c].phase = "before_call"
         up == procs[i] # "gone" /\ i \in conns
     IN \/ Proceed(c, "error")
        \/ up /\ gate /\ Proceed(c, "deny")
        \/ up /\ \E org \in IF gate /\ Manifests[i].rewrites THEN Orgs ELSE {call[c].org} :
                   call' = [call EXCEPT ![c] = Answered(c, "allow", org)]
  /\ UNCHANGED <<plugins, guests, store>>

cacheKey(h) == IF h.digest # NoDigest THEN <<"sha256", h.digest>> ELSE <<"uri", h.uri>>
VerifyDigest(b, h) == h.digest \in {NoDigest, b}
CacheFree == gateway.step # "sweeping"

\* ModuleCache.Get, up to the first unlock.
Lookup(c) ==
  /\ AtHook(c, "wasm") /\ CacheFree
  /\ LET k == cacheKey(current(c)[2]) IN
     call' = [call EXCEPT ![c] = IF k \in DOMAIN cache THEN [@ EXCEPT !.step = "ready", !.module = cache[k]]
                                 ELSE [@ EXCEPT !.step = "load"]]
  /\ UNCHANGED <<plugins, guests, store>>

loadBytes(h) == blobs[h.uri]

\* The bytes are read, checked and compiled outside the lock.
Compile(c) ==
  /\ At(c, "load")
  /\ LET h == current(c)[2]
         b == loadBytes(h)
     IN \/ Proceed(c, "error") /\ UNCHANGED modules
        \/ /\ VerifyDigest(b, h) /\ Exports[b] # {}
           /\ modules' = Append(modules, [bytes |-> b, closed |-> FALSE, pool |-> <<>>])
           /\ call' = [call EXCEPT ![c].step = "install", ![c].module = Len(modules) + 1]
  /\ UNCHANGED <<plugins, cache, insts, store>>

\* Mutation: the faster call's module is replaced and left open.
InstallAnyway(c) ==
  /\ At(c, "install") /\ CacheFree
  /\ LET k == cacheKey(current(c)[2])
     IN cache' = [j \in DOMAIN cache \cup {k} |-> IF j = k THEN call[c].module ELSE cache[j]]
  /\ call' = [call EXCEPT ![c].step = "ready"]
  /\ UNCHANGED <<plugins, modules, insts, store>>

\* Back under the lock: a call that was faster has its module kept.
Install(c) ==
  /\ At(c, "install") /\ CacheFree
  /\ LET k == cacheKey(current(c)[2])
         m == call[c].module
     IN IF k \in DOMAIN cache
        THEN /\ modules' = [modules EXCEPT ![m] = Close(@)]
             /\ call' = [call EXCEPT ![c].step = "ready", ![c].module = cache[k]]
             /\ UNCHANGED cache
        ELSE /\ cache' = [j \in DOMAIN cache \cup {k} |-> IF j = k THEN m ELSE cache[j]]
             /\ call' = [call EXCEPT ![c].step = "ready"]
             /\ UNCHANGED modules
  /\ UNCHANGED <<plugins, insts, store>>

\* What an adapter asks of its module.
usable(c) == LET m == modules[call[c].module] IN ~m.closed /\ call[c].phase \in Exports[m.bytes]

\* The client is still there; an instance that waits in the pool is taken.
acquire(c) ==
  /\ At(c, "ready")
  /\ LET m == modules[call[c].module]
     IN \/ Proceed(c, "error") /\ UNCHANGED modules
        \/ /\ usable(c) /\ m.pool # <<>>
           /\ call' = [call EXCEPT ![c].step = "guest", ![c].inst = Head(m.pool)]
           /\ modules' = [modules EXCEPT ![call[c].module].pool = Tail(@)]
        \/ usable(c) /\ m.pool = <<>> /\ call' = [call EXCEPT ![c].step = "instantiate"] /\ UNCHANGED modules
  /\ UNCHANGED <<plugins, cache, insts, store>>

\* The module may have been closed since it was looked at: its runtime is closed, or nil and
\* the handler panics.
newInst(c) ==
  /\ At(c, "instantiate")
  /\ \/ Proceed(c, "error") /\ UNCHANGED insts
     \/ /\ modules[call[c].module].closed
        /\ call' = [call EXCEPT ![c] = Done("panic")] /\ UNCHANGED insts
     \/ /\ ~modules[call[c].module].closed
        /\ insts' = Append(insts, [module |-> call[c].module, state |-> "live"])
        /\ call' = [call EXCEPT ![c].step = "guest", ![c].inst = Len(insts) + 1]
  /\ UNCHANGED <<plugins, cache, modules, store>>

\* What a guest's output decodes to: only before_call denies.
answers(c) == {"error"} \cup
  (IF insts[call[c].inst].state # "live" THEN {}
   ELSE {"allow"} \cup IF call[c].phase = "before_call" THEN {"deny"} ELSE {})

\* The guest returns, traps or ends its instance; an ended instance only fails. A guest
\* that does not return is not interrupted.
CallGuest(c) ==
  /\ At(c, "guest")
  /\ LET n == call[c].inst IN
     \E answer \in answers(c), ends \in BOOLEAN :
       /\ ends => answer = "error" /\ insts[n].state = "live"
       /\ insts' = IF ends THEN [insts EXCEPT ![n].state = "ended"] ELSE insts
       /\ call' = [call EXCEPT ![c].step = "release", ![c].answer = answer]
  /\ UNCHANGED <<plugins, cache, modules, store>>

\* Mutation: an instance goes back into the pool of a module closed meanwhile.
ReleaseUnchecked(c) ==
  /\ At(c, "release")
  /\ modules' = [modules EXCEPT ![call[c].module].pool = IF Len(@) < PoolSize THEN Append(@, call[c].inst) ELSE @]
  /\ Proceed(c, call[c].answer)
  /\ UNCHANGED <<plugins, cache, insts, store>>

\* release, whatever the guest did.
release(c) ==
  /\ At(c, "release")
  /\ LET m == modules[call[c].module]
         keep == ~m.closed /\ Len(m.pool) < PoolSize
     IN /\ modules' = IF keep THEN [modules EXCEPT ![call[c].module].pool = Append(@, call[c].inst)] ELSE modules
        /\ insts' = IF keep THEN insts ELSE Shut({call[c].inst})
  /\ Proceed(c, call[c].answer)
  /\ UNCHANGED <<plugins, cache, store>>

\* The last hook of a phase has answered: quota, upstream or the end follow.
PhaseEnds(c) ==
  /\ At(c, "hooks") /\ call[c].at > Len(hooks(c))
  /\ call' = [call EXCEPT ![c] = CASE @.phase = "before_call" -> [@ EXCEPT !.step = "quota"]
                                   [] @.phase = "before_chat" -> [@ EXCEPT !.step = "upstream"]
                                   [] OTHER -> Done("answered")]
  /\ UNCHANGED <<plugins, guests, store>>

Enter(c, phase) == [call[c] EXCEPT !.step = "hooks", !.phase = phase, !.at = 1]

CheckQuota(c) ==
  /\ At(c, "quota")
  /\ \/ call' = [call EXCEPT ![c] = [Enter(c, "before_chat") EXCEPT !.charged = TRUE]]
     \/ call' = [call EXCEPT ![c] = Done("quota")]
  /\ UNCHANGED <<plugins, guests, store>>

Execute(c) ==
  /\ At(c, "upstream")
  /\ call' = [call EXCEPT ![c] = Enter(c, "after_call")]
  /\ UNCHANGED <<plugins, guests, store>>

-----------------------------------------------------------------------------
Walk(c) == \/ Arrive(c) \/ AskPlugin(c) \/ Lookup(c) \/ Compile(c) \/ Install(c) \/ acquire(c)
           \/ newInst(c) \/ CallGuest(c) \/ release(c) \/ PhaseEnds(c) \/ CheckQuota(c) \/ Execute(c)

Next == \/ startProcess \/ dialTarget \/ Handshake \/ Serve \/ Abort \/ Stop \/ Drained \/ Swept \/ Exit \/ Upload
        \/ \E i \in Plugins : Crash(i)
        \/ \E k \in DOMAIN cache : SweepModule(k)
        \/ \E c \in Calls : Walk(c)

Spec == Init /\ [][Next]_vars

-----------------------------------------------------------------------------
Held(n) == {c \in Calls : call[c].step \in {"guest", "release"} /\ call[c].inst = n}
Waiting(n) == {w \in (DOMAIN modules) \X (1..PoolSize) :
                 w[2] <= Len(modules[w[1]].pool) /\ modules[w[1]].pool[w[2]] = n}

\* A guest instance serves one call at a time: it is held by one, or waits once in the pool
\* of an open module, which is its own, or neither.
OneCallPerInstance ==
  \A n \in DOMAIN insts :
    /\ \A c, d \in Held(n) : c = d
    /\ \A v, w \in Waiting(n) : v = w
    /\ Held(n) = {} \/ Waiting(n) = {}
    /\ \A w \in Waiting(n) : w[1] = insts[n].module /\ ~modules[w[1]].closed /\ insts[n].state # "closed"

Due(c, phase) == {<<"plugin", i>> : i \in {j \in Plugins : phase \in Manifests[j].caps}}
                 \cup {<<"wasm", h>> : h \in {g \in call[c].snap : g.enabled /\ g.org = call[c].org /\ g.phase = phase}}

Asked(c, phase) == {i \in DOMAIN call[c].passed : call[c].passed[i][1] = phase}

Follows(h, earlier) ==
  \/ earlier[1] = "plugin" /\ (h[1] = "plugin" => earlier[2] < h[2])
  \/ earlier[1] = "wasm" /\ h[1] = "wasm" /\ h[2].priority <= earlier[2].priority

\* A request quota is charged only when every hook of the gate has allowed the call, once
\* each, plugins first as they are configured and WASM hooks by priority, those of the
\* organization the plugins left it with; the upstream is asked only when those of the chat
\* have, too.
GatedInOrder ==
  \A c \in Calls : call[c].step \notin {"idle", "done"} =>
    \A phase \in (IF call[c].charged THEN {"before_call"} ELSE {})
                 \cup (IF call[c].phase = "after_call" THEN {"before_chat"} ELSE {}) :
      /\ {call[c].passed[i][2] : i \in Asked(c, phase)} = Due(c, phase)
      /\ \A i, j \in Asked(c, phase) : i # j => call[c].passed[i][2] # call[c].passed[j][2]
      /\ \A i, j \in Asked(c, phase) : i < j => Follows(call[c].passed[j][2], call[c].passed[i][2])

\* What was started is ended: a gateway that a plugin keeps from starting, or that has
\* stopped, leaves no plugin behind, and a compiled module is open only while the cache or the call that
\* compiles it has it.
NothingLeaks ==
  /\ gateway.step \in {"refused", "exited"} => conns = {} /\ \A i \in Plugins : procs[i] # "running"
  /\ \A m \in DOMAIN modules : \/ modules[m].closed
                               \/ m \in {cache[k] : k \in DOMAIN cache}
                               \/ \E c \in Calls : call[c].step = "install" /\ call[c].module = m
=============================================================================
