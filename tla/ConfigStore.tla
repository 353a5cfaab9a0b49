----------------------------- MODULE ConfigStore -----------------------------
(***************************************************************************)
(* The configuration tables of one organization and the commands that      *)
(* change them: providers and routes, policies, hooks and backends,        *)
(* quotas, API keys, signing keys, credentials and their assignments.      *)
(*                                                                         *)
(* A command is one request handler of the control plane.  Its checks, its *)
(* writes and the publish that ends it are steps of their own, so handlers *)
(* interleave between what one has read and what it writes.  Ids are drawn *)
(* at random and never come again.  Publishing is one step here;           *)
(* SnapshotDistribution has its steps.                                     *)
(***************************************************************************)
EXTENDS Naturals, FiniteSets, Sequences

CONSTANTS
  Handlers,     \* request handlers
  Providers,    \* ids of providers of the organization
  Foreign,      \* ids of providers of other organizations
  Routes, Models,
  Policies, WasmHooks, MCPBackends, A2AAgents,  \* ids of rows that are patched
  Aliases, Priorities,
  Orders,       \* the batches of priorities asked for, each of which names a policy once
  Credentials, SigningKeys, APIKeys,
  None,         \* no row
  Seeds,        \* the tables to start from
  MaxCommands,  \* bound on the commands
  MaxFaults     \* bound on the statements and publishes that fail

VARIABLES
  providers, routes,   \* ids; rows by id
  items,               \* request_policies, wasm_hooks, mcp_backends, a2a_agents by id
  creds, slots,        \* credential status by id; credential_assignments by scope
  signing, keys,       \* signing key status by id; ids of API keys
  quotas,              \* scopes that have a quota
  born,                \* ids ever drawn
  pc, cmd,             \* each handler's next step and command
  asked,               \* history: the rows of items the answered patches add up to
  stale,               \* history: items whose row was overwritten with one read earlier
  filled,              \* history: the assignments made and not yet taken back
  lost,                \* history: scopes whose assignment a race or a failure took away
  commands, faults

tables == <<providers, routes, items, creds, slots, signing, keys, quotas, born>>
hist   == <<asked, stale, filled, lost>>
vars   == <<tables, pc, cmd, hist, commands, faults>>

Items  == Policies \cup WasmHooks \cup MCPBackends \cup A2AAgents
Scopes == {"organization"} \cup APIKeys
Route  == [model : Models, provider : Providers \cup Foreign, fallbacks : SUBSET (Providers \cup Foreign)]

\* The rows that are patched, as their validation lets them in.
PolicyRow  == [enabled : BOOLEAN, priority : Priorities]
HookRow    == [enabled : BOOLEAN, priority : Priorities]
BackendRow == [alias : Aliases, enabled : BOOLEAN]
AgentRow   == [alias : Aliases, enabled : BOOLEAN]
Row(i) == CASE i \in Policies    -> PolicyRow
            [] i \in WasmHooks   -> HookRow
            [] i \in MCPBackends -> BackendRow
            [] i \in A2AAgents   -> AgentRow

Present(table) == {id \in DOMAIN table : table[id] # None}

Init ==
  \E s \in Seeds :
    /\ providers = s.providers /\ routes = s.routes /\ items = s.items /\ creds = s.creds
    /\ slots = s.slots /\ signing = s.signing /\ keys = s.keys /\ quotas = s.quotas
    /\ born = s.providers \cup s.keys \cup Present(s.routes) \cup Present(s.items)
              \cup Present(s.creds) \cup Present(s.signing)
    /\ asked = s.items /\ filled = s.slots /\ stale = {} /\ lost = {}
    /\ pc = [h \in Handlers |-> "idle"] /\ cmd = [h \in Handlers |-> <<>>]
    /\ commands = 0 /\ faults = 0

\* A request that has passed its validation.
Begin(h, step, what) ==
  /\ pc[h] = "idle" /\ commands < MaxCommands
  /\ pc' = [pc EXCEPT ![h] = step]
  /\ cmd' = [cmd EXCEPT ![h] = what]
  /\ commands' = commands + 1
  /\ UNCHANGED faults

\* A command whose one statement is its check as well.
Written(h) == Begin(h, "publish", <<>>)

\* A command of several steps: nothing is written yet.
Started(h, step, what) == Begin(h, step, what) /\ UNCHANGED <<tables, hist>>

Goto(h, step) ==
  /\ pc' = [pc EXCEPT ![h] = step]
  /\ UNCHANGED <<cmd, commands, faults>>

\* The last write of a command: it publishes next.
Stored(h) ==
  /\ pc' = [pc EXCEPT ![h] = "publish"]
  /\ cmd' = [cmd EXCEPT ![h] = <<>>]
  /\ UNCHANGED <<commands, faults>>

\* The handler answers without having written.
Refused(h) ==
  /\ pc' = [pc EXCEPT ![h] = "idle"]
  /\ cmd' = [cmd EXCEPT ![h] = <<>>]
  /\ UNCHANGED <<tables, hist, commands, faults>>

Draw(id) == id \notin born /\ born' = born \cup {id}

-----------------------------------------------------------------------------
(* Providers and routes *)

CreateProvider(h, p) ==
  /\ Draw(p) /\ providers' = providers \cup {p}
  /\ Written(h)
  /\ UNCHANGED <<routes, items, creds, slots, signing, keys, quotas, hist>>

\* All the columns of a provider are given: nothing the tables here tell apart changes.
UpdateProvider(h, p) ==
  /\ p \in providers
  /\ Written(h)
  /\ UNCHANGED <<tables, hist>>

\* The routes on it go with it, by their foreign key; fallbacks to it stay.
DeleteProvider(h, p) ==
  /\ p \in providers
  /\ providers' = providers \ {p}
  /\ routes' = [r \in Routes |-> IF routes[r] # None /\ routes[r].provider = p THEN None ELSE routes[r]]
  /\ Written(h)
  /\ UNCHANGED <<items, creds, slots, signing, keys, quotas, born, hist>>

\* The providers a route's command checks, one statement each.
assertRouteProviders(row) == {row.provider} \cup row.fallbacks

CreateRoute(h, r, row) ==
  /\ Draw(r)
  /\ Begin(h, "assertProviders", [id |-> r, new |-> TRUE, row |-> row, todo |-> assertRouteProviders(row)])
  /\ UNCHANGED <<providers, routes, items, creds, slots, signing, keys, quotas, hist>>

UpdateRoute(h, r, row) ==
  /\ routes[r] # None
  /\ Started(h, "assertProviders", [id |-> r, new |-> FALSE, row |-> row, todo |-> assertRouteProviders(row)])

\* A provider that is gone, or another organization's, ends the command.
AssertProviderInOrg(h) ==
  /\ pc[h] = "assertProviders"
  /\ \E p \in cmd[h].todo :
       IF p \notin providers THEN Refused(h)
       ELSE /\ cmd' = [cmd EXCEPT ![h].todo = @ \ {p}]
            /\ UNCHANGED <<tables, hist, pc, commands, faults>>

\* The insert or the update, held to the route's foreign key and to one route by model.
StoreRoute(h) ==
  LET r == cmd[h].id
      ok == /\ cmd[h].row.provider \in providers \cup Foreign
            /\ ~cmd[h].new => routes[r] # None
            /\ \A q \in Present(routes) \ {r} : routes[q].model # cmd[h].row.model
  IN /\ pc[h] = "assertProviders" /\ cmd[h].todo = {}
     /\ IF ~ok THEN Refused(h)
        ELSE /\ routes' = [routes EXCEPT ![r] = cmd[h].row]
             /\ Stored(h)
             /\ UNCHANGED <<providers, items, creds, slots, signing, keys, quotas, born, hist>>

DeleteRoute(h, r) ==
  /\ routes[r] # None
  /\ routes' = [routes EXCEPT ![r] = None]
  /\ Written(h)
  /\ UNCHANGED <<providers, items, creds, slots, signing, keys, quotas, born, hist>>

-----------------------------------------------------------------------------
(* Policies, hooks, MCP backends and A2A agents: rows that are patched *)

\* The fields given, over the row that was read.
ApplyPatch(row, patch) ==
  [f \in DOMAIN row |-> IF f \in DOMAIN patch THEN patch[f] ELSE row[f]]

\* UNIQUE (organization_id, alias) of the backends and of the agents.
AliasFree(i, row) ==
  \A S \in {MCPBackends, A2AAgents} : i \in S =>
    \A j \in (S \ {i}) \cap Present(items) : items[j].alias # row.alias

\* A reorder holds the rows it has updated until it commits.
Locked(i, h) == \E g \in Handlers \ {h} : pc[g] = "reorder" /\ i \in cmd[g].held

CreateItem(h, i, row) ==
  /\ AliasFree(i, row)
  /\ Draw(i)
  /\ items' = [items EXCEPT ![i] = row]
  /\ asked' = [asked EXCEPT ![i] = row]
  /\ Written(h)
  /\ UNCHANGED <<providers, routes, creds, slots, signing, keys, quotas, stale, filled, lost>>

CreatePolicy(h, i, row)     == i \in Policies /\ CreateItem(h, i, row)
CreateWasmHook(h, i, row)   == i \in WasmHooks /\ CreateItem(h, i, row)
CreateMCPBackend(h, i, row) == i \in MCPBackends /\ CreateItem(h, i, row)
CreateA2AAgent(h, i, row)   == i \in A2AAgents /\ CreateItem(h, i, row)

\* The row is read and patched; what the handler writes is the whole row.
ReadItem(h, i, patch) ==
  /\ items[i] # None
  /\ Started(h, "writeItem", [id |-> i, was |-> items[i], row |-> ApplyPatch(items[i], patch), patch |-> patch])

UpdatePolicy(h, i, patch)     == i \in Policies /\ ReadItem(h, i, patch)
UpdateWasmHook(h, i, patch)   == i \in WasmHooks /\ ReadItem(h, i, patch)
UpdateMCPBackend(h, i, patch) == i \in MCPBackends /\ ReadItem(h, i, patch)
UpdateA2AAgent(h, i, patch)   == i \in A2AAgents /\ ReadItem(h, i, patch)

WriteItem(h) ==
  LET c == cmd[h]
      give(row) == [f \in DOMAIN row |-> IF f \in DOMAIN c.patch THEN c.patch[f] ELSE row[f]]
  IN /\ pc[h] = "writeItem" /\ ~Locked(c.id, h)
     /\ IF items[c.id] = None \/ ~AliasFree(c.id, c.row) THEN Refused(h)
        ELSE /\ items' = [items EXCEPT ![c.id] = c.row]
             /\ asked' = [asked EXCEPT ![c.id] = give(@)]
             /\ stale' = IF items[c.id] = c.was THEN stale ELSE stale \cup {c.id}
             /\ Stored(h)
             /\ UNCHANGED <<providers, routes, creds, slots, signing, keys, quotas, born, filled, lost>>

DeleteItem(h, i) ==
  /\ items[i] # None /\ ~Locked(i, h)
  /\ items' = [items EXCEPT ![i] = None]
  /\ asked' = [asked EXCEPT ![i] = None]
  /\ Written(h)
  /\ UNCHANGED <<providers, routes, creds, slots, signing, keys, quotas, born, stale, filled, lost>>

\* ReorderPolicies: one transaction over the policies in the order given.
ReorderPolicies(h, order) ==
  Started(h, "reorder", [order |-> order, todo |-> order, held |-> {}])

\* Mutation: each update is committed by itself.
UpdatePrioritiesLoose(h) ==
  LET i == Head(cmd[h].todo) IN
  /\ pc[h] = "reorder" /\ cmd[h].todo # <<>> /\ ~Locked(i.id, h)
  /\ IF items[i.id] = None THEN Refused(h)
     ELSE /\ items' = [items EXCEPT ![i.id].priority = i.priority]
          /\ cmd' = [cmd EXCEPT ![h].todo = Tail(@)]
          /\ UNCHANGED <<providers, routes, creds, slots, signing, keys, quotas, born, hist, pc,
                         commands, faults>>

\* The next update of the transaction: a policy that is gone rolls it back.
UpdatePriorities(h) ==
  LET i == Head(cmd[h].todo) IN
  /\ pc[h] = "reorder" /\ cmd[h].todo # <<>> /\ ~Locked(i.id, h)
  /\ IF items[i.id] = None THEN Refused(h)
     ELSE /\ cmd' = [cmd EXCEPT ![h].todo = Tail(@), ![h].held = @ \cup {i.id}]
          /\ UNCHANGED <<tables, hist, pc, commands, faults>>

CommitReorder(h) ==
  LET c == cmd[h].order
      put(table) == [i \in Items |-> IF \E n \in DOMAIN c : c[n].id = i
                                       THEN [table[i] EXCEPT !.priority = c[CHOOSE n \in DOMAIN c : c[n].id = i].priority]
                                       ELSE table[i]]
  IN /\ pc[h] = "reorder" /\ cmd[h].todo = <<>>
     /\ items' = put(items) /\ asked' = put(asked)
     /\ Stored(h)
     /\ UNCHANGED <<providers, routes, creds, slots, signing, keys, quotas, born, stale, filled, lost>>

\* Two reorders that wait for each other's rows: the database ends one of them.
Deadlock(h) ==
  /\ pc[h] = "reorder" /\ cmd[h].todo # <<>>
  /\ \E g \in Handlers \ {h} :
       /\ pc[g] = "reorder" /\ cmd[g].todo # <<>>
       /\ Head(cmd[h].todo).id \in cmd[g].held /\ Head(cmd[g].todo).id \in cmd[h].held
  /\ Refused(h)

-----------------------------------------------------------------------------
(* Credentials and their assignments *)

CreateCredential(h, c) ==
  /\ Draw(c)
  /\ creds' = [creds EXCEPT ![c] = "active"]
  /\ Written(h)
  /\ UNCHANGED <<providers, routes, items, slots, signing, keys, quotas, hist>>

\* One statement: a field not given keeps its value, and an assigned credential may be disabled.
UpdateCredential(h, c, status) ==
  /\ creds[c] # None
  /\ creds' = [creds EXCEPT ![c] = IF status = "" THEN @ ELSE status]
  /\ Written(h)
  /\ UNCHANGED <<providers, routes, items, slots, signing, keys, quotas, born, hist>>

\* The secret changes, the status does not.
RotateSecret(h, c) ==
  /\ creds[c] # None
  /\ Written(h)
  /\ UNCHANGED <<tables, hist>>

\* Mutation: assignments are left to their foreign key.
DeleteAtOnce(h, c) == creds[c] # None /\ Started(h, "dropCredential", [id |-> c, fresh |-> {}])

\* DeleteCredential: refused while it is assigned.
DeleteCredential(h, c) ==
  /\ creds[c] # None /\ \A s \in Scopes : slots[s] # c
  /\ Started(h, "dropCredential", [id |-> c, fresh |-> {}])

\* The assignments made since the check go with it, by their foreign key.
DropCredential(h) ==
  LET c == cmd[h].id IN
  /\ pc[h] = "dropCredential"
  /\ IF creds[c] = None THEN Refused(h)
     ELSE /\ creds' = [creds EXCEPT ![c] = None]
          /\ slots' = [s \in Scopes |-> IF slots[s] = c THEN None ELSE slots[s]]
          /\ lost' = lost \cup {s \in cmd[h].fresh : slots[s] = c}
          /\ Stored(h)
          /\ UNCHANGED <<providers, routes, items, signing, keys, quotas, born, asked, stale, filled>>

\* Assign: an active credential, and a scope of the organization; both only read.
Assign(h, c, s) ==
  /\ creds[c] = "active" /\ s \in {"organization"} \cup keys
  /\ Started(h, "clearSlot", [id |-> c, scope |-> s])

\* UpsertAssignment: the old one goes first, in a statement of its own.
ClearSlot(h) ==
  /\ pc[h] = "clearSlot"
  /\ slots' = [slots EXCEPT ![cmd[h].scope] = None]
  /\ Goto(h, "fillSlot")
  /\ UNCHANGED <<providers, routes, items, creds, signing, keys, quotas, born, hist>>

\* Refused by the foreign key if the credential is gone, by UNIQUE if the slot was filled.
InsertAssignment(h) ==
  LET s == cmd[h].scope IN
  /\ pc[h] = "fillSlot"
  /\ IF creds[cmd[h].id] = None \/ slots[s] # None
     THEN /\ pc' = [pc EXCEPT ![h] = "idle"] /\ cmd' = [cmd EXCEPT ![h] = <<>>]
          /\ lost' = IF slots[s] = None THEN lost \cup {s} ELSE lost
          /\ UNCHANGED <<tables, asked, stale, filled, commands, faults>>
     ELSE /\ slots' = [slots EXCEPT ![s] = cmd[h].id]
          /\ filled' = [filled EXCEPT ![s] = cmd[h].id]
          /\ lost' = lost \ {s}
          /\ pc' = [pc EXCEPT ![h] = "publish"]
          /\ cmd' = [g \in Handlers |-> IF g = h THEN <<>>
                                         ELSE IF pc[g] = "dropCredential" THEN [cmd[g] EXCEPT !.fresh = @ \cup {s}]
                                         ELSE cmd[g]]
          /\ UNCHANGED <<providers, routes, items, creds, signing, keys, quotas, born, asked, stale,
                         commands, faults>>

Unassign(h, s) ==
  /\ slots[s] # None
  /\ slots' = [slots EXCEPT ![s] = None]
  /\ filled' = [filled EXCEPT ![s] = None]
  /\ Written(h)
  /\ UNCHANGED <<providers, routes, items, creds, signing, keys, quotas, born, asked, stale, lost>>

-----------------------------------------------------------------------------
(* Keys and quotas *)

CreateAPIKey(h, k) ==
  /\ Draw(k) /\ keys' = keys \cup {k}
  /\ Written(h)
  /\ UNCHANGED <<providers, routes, items, creds, slots, signing, quotas, hist>>

\* Quotas and assignments of the key stay: their scope is no foreign key.
DeleteAPIKey(h, k) ==
  /\ k \in keys /\ keys' = keys \ {k}
  /\ Written(h)
  /\ UNCHANGED <<providers, routes, items, creds, slots, signing, quotas, born, hist>>

CreateSigningKey(h, k) ==
  /\ Draw(k)
  /\ signing' = [signing EXCEPT ![k] = "active"]
  /\ Written(h)
  /\ UNCHANGED <<providers, routes, items, creds, slots, keys, quotas, hist>>

UpdateSigningKey(h, k, status) ==
  /\ signing[k] # None
  /\ signing' = [signing EXCEPT ![k] = IF status = "" THEN @ ELSE status]
  /\ Written(h)
  /\ UNCHANGED <<providers, routes, items, creds, slots, keys, quotas, born, hist>>

\* New material, and active again whatever it was.
RotateSigningKey(h, k) ==
  /\ signing[k] # None
  /\ signing' = [signing EXCEPT ![k] = "active"]
  /\ Written(h)
  /\ UNCHANGED <<providers, routes, items, creds, slots, keys, quotas, born, hist>>

DeleteSigningKey(h, k) ==
  /\ signing[k] # None
  /\ signing' = [signing EXCEPT ![k] = None]
  /\ Written(h)
  /\ UNCHANGED <<providers, routes, items, creds, slots, keys, quotas, born, hist>>

\* CreateQuota: the scope is checked, and may be gone when the quota is inserted.
CreateQuota(h, s) ==
  /\ s \in {"organization"} \cup keys
  /\ Started(h, "insertQuota", [scope |-> s])

InsertQuota(h) ==
  /\ pc[h] = "insertQuota"
  /\ quotas' = quotas \cup {cmd[h].scope}
  /\ Stored(h)
  /\ UNCHANGED <<providers, routes, items, creds, slots, signing, keys, born, hist>>

\* The limit alone changes.
UpdateQuota(h, s) ==
  /\ s \in quotas
  /\ Written(h)
  /\ UNCHANGED <<tables, hist>>

\* The organization's own retry and object store, each one column of its row.
SetOrgDefaultRetry(h) == Written(h) /\ UNCHANGED <<tables, hist>>
SetOrgObjectStore(h) == Written(h) /\ UNCHANGED <<tables, hist>>

DeleteQuota(h, s) ==
  /\ s \in quotas /\ quotas' = quotas \ {s}
  /\ Written(h)
  /\ UNCHANGED <<providers, routes, items, creds, slots, signing, keys, born, hist>>

-----------------------------------------------------------------------------
\* The tables are loaded, compiled and put; the event is emitted; the handler answers.
Publish(h) ==
  /\ pc[h] = "publish"
  /\ pc' = [pc EXCEPT ![h] = "idle"]
  /\ UNCHANGED <<tables, cmd, hist, commands, faults>>

\* A statement or the publish fails, or the process dies: a transaction is rolled back,
\* what was written before stays, and nothing publishes it.
Fail(h) ==
  /\ pc[h] # "idle" /\ faults < MaxFaults
  /\ faults' = faults + 1
  /\ pc' = [pc EXCEPT ![h] = "idle"]
  /\ cmd' = [cmd EXCEPT ![h] = <<>>]
  /\ lost' = IF pc[h] = "fillSlot" THEN lost \cup {cmd[h].scope} ELSE lost
  /\ UNCHANGED <<tables, asked, stale, filled, commands>>

\* A patch gives one field or all of them.
Patches(i) == Row(i) \cup {[f \in {g} |-> row[f]] : g \in DOMAIN (CHOOSE r \in Row(i) : TRUE), row \in Row(i)}

RouteCommand(h) ==
  \/ \E p \in Providers : CreateProvider(h, p) \/ UpdateProvider(h, p) \/ DeleteProvider(h, p)
  \/ \E r \in Routes, row \in Route : CreateRoute(h, r, row) \/ UpdateRoute(h, r, row)
  \/ \E r \in Routes : DeleteRoute(h, r)

ItemCommand(h) ==
  \/ \E i \in Items : \E row \in Row(i) :
       CreatePolicy(h, i, row) \/ CreateWasmHook(h, i, row)
       \/ CreateMCPBackend(h, i, row) \/ CreateA2AAgent(h, i, row)
  \/ \E i \in Items : \E patch \in Patches(i) :
       UpdatePolicy(h, i, patch) \/ UpdateWasmHook(h, i, patch)
       \/ UpdateMCPBackend(h, i, patch) \/ UpdateA2AAgent(h, i, patch)
  \/ \E i \in Items : DeleteItem(h, i)
  \/ \E order \in Orders : ReorderPolicies(h, order)

KeyCommand(h) ==
  \/ \E c \in Credentials : CreateCredential(h, c) \/ RotateSecret(h, c) \/ DeleteCredential(h, c)
  \/ \E c \in Credentials, st \in {"", "active", "disabled"} : UpdateCredential(h, c, st)
  \/ \E c \in Credentials, s \in Scopes : Assign(h, c, s)
  \/ \E s \in Scopes : Unassign(h, s) \/ CreateQuota(h, s) \/ UpdateQuota(h, s) \/ DeleteQuota(h, s)
  \/ SetOrgDefaultRetry(h) \/ SetOrgObjectStore(h)
  \/ \E k \in APIKeys : CreateAPIKey(h, k) \/ DeleteAPIKey(h, k)
  \/ \E k \in SigningKeys : CreateSigningKey(h, k) \/ RotateSigningKey(h, k) \/ DeleteSigningKey(h, k)
  \/ \E k \in SigningKeys, st \in {"", "active", "disabled"} : UpdateSigningKey(h, k, st)

Step(h) ==
  \/ AssertProviderInOrg(h) \/ StoreRoute(h)
  \/ WriteItem(h) \/ UpdatePriorities(h) \/ CommitReorder(h) \/ Deadlock(h)
  \/ DropCredential(h) \/ ClearSlot(h) \/ InsertAssignment(h) \/ InsertQuota(h)
  \/ Publish(h)

Command(h) == commands < MaxCommands /\ (RouteCommand(h) \/ ItemCommand(h) \/ KeyCommand(h))

Next == \E h \in Handlers : Command(h) \/ Step(h) \/ Fail(h)

Spec == Init /\ [][Next]_vars

-----------------------------------------------------------------------------
(* Properties *)

\* Every variable holds what the tables and the handlers can hold.
TypeOK ==
  /\ providers \subseteq Providers /\ routes \in [Routes -> Route \cup {None}]
  /\ \A i \in Items : items[i] \in Row(i) \cup {None}
  /\ creds \in [Credentials -> {None, "active", "disabled"}]
  /\ signing \in [SigningKeys -> {None, "active", "disabled"}]
  /\ slots \in [Scopes -> Credentials \cup {None}]
  /\ keys \subseteq APIKeys /\ quotas \subseteq Scopes

\* A policy, hook, backend or agent is what the patches and reorders answered so far add up
\* to, a batch of priorities all at once or not at all, unless a handler has overwritten
\* its row with one it had read before another command changed it.
AsAsked == \A i \in Items \ stale : items[i] = asked[i]

\* An assignment once made stays until it is taken back or replaced: only one made while
\* its credential was being deleted goes with it, and only an assign that fails after it
\* has removed the old assignment leaves the scope without one.
SlotsKept ==
  \A s \in Scopes : slots[s] # filled[s] =>
    s \in lost \/ \E h \in Handlers : pc[h] = "fillSlot" /\ cmd[h].scope = s
=============================================================================
