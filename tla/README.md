# TLA+ models of AFI

AFI is an AI gateway. A control plane owns the configuration and compiles it
into versioned snapshots; gateways (the data plane) serve calls from a snapshot
held in memory and send them to upstream providers; workers drain outboxes;
regional control planes follow a hub. This directory holds TLA+ modules of the
parts of AFI where processes, requests and failures interleave, the TLC
configurations that check them on small instances, and proofs of their main
safety properties for every instance.

- [The system](#the-system): the components, what they keep, what is hard in them
- [The modules](#the-modules): how state and actions correspond to the code
- [The runs](#the-runs): what is checked, with which bounds
- [Fairness](#fairness)
- [The proofs](#the-proofs)
- [What the models found](#what-the-models-found)
- [Notes from reading the code](#notes-from-reading-the-code)
- [What is not modelled](#what-is-not-modelled)
- [Plan](#plan)

Check a run and a module's proofs with

    tlc -workers 2 -config SnapshotRace.cfg MCSnapshotDistribution
    tlapm SnapshotDistributionProofs.tla

Paths below are relative to the repository's root, and to `internal/` where
they name a Go file in no other directory.

## The system

    platform API, CLI, seed          regional control plane
            |  commands                    |  pull loop, join token
            v                              v
    configuration tables  ---------> federation export / apply
            | load, compile                ^
            v                              | revision, mirror of the region
    gateway_snapshots --> mirror (global, and one prefix per region)
            |  poll + NOTIFY       |  poll
            v                      v
         gateways: authenticate, policies, hooks, quotas, routing,
            |      retry and failover, dialects, streams
            v
    counters (Redis, Postgres), usage_outbox --> workers --> usage_events
                                                     |
                           usage pages <-- reports of the regions

Components interact through Postgres tables, objects in an object store, Redis
keys and HTTP calls. There is no lock shared between processes, and few
transactions span more than one statement; most hard behaviours come from that.
Inside a gateway, handlers share the replay store, the WASM cache and its
pools, the plugins' connections and the channels of a stream.

| Component | State | Operations | What is hard | What makes it correct |
|---|---|---|---|---|
| **Snapshot distribution** (`adapters/postgres/platform_seeder.go`, `snapshot.go`, `adapters/objectstore/snapshot.go`) | configuration tables, `gateway_snapshots` and its serial, mirror objects and `latest` pointers, the federation revision, each gateway's `Holder` | a command commits and publishes; load, compile, insert, commit, mirror, regions, bump; a gateway watches | publishers race from load to pointer; serials commit out of order; a publish dies half-way; wake-ups are lost; gateways restart | the mirror agrees with Postgres; a snapshot covers what was committed before it; gateways do not go back; they catch up |
| **Federation pull sync** (`federation`, `adapters/federationclient`) | hub: revision; region: cursor, memberships, overlays, snapshots | export since a cursor, apply, save the cursor | the hub changes between the reads of an export; an apply stops half-way | a cursor equal to the hub's revision vouches for the region's data; the region catches up |
| **Federation peers**, **deployments** (`federation/service.go`, `regions/service.go`) | rows with a token's hash, a status, the sealed token | register, patch, rotate, authenticate, heartbeat | rows are read, checked and written back whole | a rotated token is dead; a disabled peer stays out; the sealed token is the valid one |
| **Regions** and **regional compilation** (`regions`) | region, memberships, overlays, the region's blob | bind, unbind, overlay, disable, publish; merge | each command is a write and a publish; overlays merge by id | the blob is what the tables say; an overlay replaces its own organization's part |
| **Gateway configuration**, **keys and credentials** (`gatewayconfig`, `access`, `credentials`) | configuration tables, assignments | commands that read, check, write, publish | read-patch-write; check, then a cascade; delete, then insert; a reorder in one transaction | no update is lost unseen; assignments stay until taken back |
| **Gateway admission**, **routing** (`dataplane/pipeline.go`, `auth_signed.go`, `policy`, `dataplane/routing`) | the snapshot, a replay store in memory | authenticate, allowlist, policies, hooks, quotas, route, order, credential | precedence of scopes and policies; a credential chosen again per target | a denial is free; every candidate is tried; no denied secret is used; a nonce is used once |
| **Request quotas** (`dataplane/quota.go`) | counters in Redis (fixed windows) and Postgres (lifetime) | resolve, check all windows, increment all, count tokens | check and increment are apart; stores fail half-way; windows end in between | bounded overshoot; an exhausted quota denies; a denial consumes nothing |
| **Retry and failover** (`dataplane/chat_exec.go`, `audio.go`, `retry.go`) | the handler's locals | targets of a route in order, tries per target, the answer | which of several tries the locals speak of; what is final | a final answer ends the calls; fallbacks wait their turn; records and answers agree |
| **Hooks and extensions** (`dataplane/call_hooks.go`, `adapters/wasm`, `adapters/grpcprovider`) | plugins' processes, module cache, instance pools | start, call, crash, kill; fetch, compile, pool, close | two calls compile one module; pools are closed under running calls; start-up fails half-way | hooks in order before the quota; one call per instance; nothing is left running |
| **Single-call modalities** (`embeddings.go`, `images.go`, `mcp.go`, `a2a.go`) | the handler's locals, the replay store | one upstream call | early returns; duplicate deliveries | a signed request is let in once; a call is recorded once |
| **Dialects and providers** (`dataplane/dialect`, `dataplane/ir`, `adapters/llm`) | stream goroutines and channels; a conversation's history | translate requests, answers, stream events | parallel tool calls; cuts; a reader that leaves; ids that are made up | nothing is lost, frames nest, a cut shows, a stream ends, results meet their calls |
| **Outbox drain** (`workers`, `adapters/postgres/outbox.go`, `platform_events.go`) | `usage_outbox`, `platform_event_outbox` | enqueue, claim, deliver, mark | several workers; death between deliver and mark; a row that never decodes | nothing is processed undelivered; only faults deliver again; eventual delivery |
| **Usage reporting** (`controlplane/usage_federation.go`) | `usage_events` here and in regions | list, summary, pull, merge | limits on every side while events arrive | a list holds the newest |
| **Organization members and invites** (`tenancy`) | accounts, members, invites | change a role, invite, resend, revoke, accept | handlers read in several statements and write what they read | one owner; a revoke is final |
| **Teams, projects and environments** (`tenancy`, `access`) | teams, members, projects, environments, API keys | create, add, change, remove, delete | counts before writes; a key's environment goes away | a team keeps an owner; published keys fit |
| **Accounts and sign-in** (`app/platform/auth.go`, `identity`) | users, links, reset tokens, SSO states | register, log in, reset, OIDC and SAML | a reset writes before it consumes; look up, then create | a proof opens one session; a subject is one user |
| Platform service and events, control-plane HTTP, schema and telemetry, web UI, SDKs, clients | none of their own | routing, start-up, presentation | - | - |

`PROJECT.json` lists the same components with the modules that model them, and
under `hazards` the places where these behaviours bite, with the properties that
cover each.

## The modules

Each component has a module (state, `Init`, one action per step, `Next`, `Spec`,
the properties). An `MC` module gives it the constants of a run; a `Proofs`
module extends it with theorems. A definition whose comment starts with
"Mutation:" is a plausible bug of the one after it; nothing uses it but the
experiments that show that a property would notice it (`mutants` in
`PROJECT.json`). History variables (marked at their declaration) are written and
never read by guards.

A step is one statement against a shared store, one call of a remote system, or
one operation on a channel or under a mutex. Several statements are one action
only where the module says why. A handler may fail or die after any of its
steps, as often as `MaxFaults` or the like allows. `TypeOK` documents each
module's variables; the proofs establish it where there is a proofs module.

| Module | Models | Actions |
|---|---|---|
| `VersionedFeed` | abstract: write-once versions per feed, consumers that only advance | `Publish`, `Advance`, `Boot`, `Stop` |
| `SnapshotDistribution` | `publishWithRegions`, `SnapshotStore` (Postgres and object store), `FanoutStore`, `Watch` | `ChangeConfig`, `ChangeRegion`, `Republish`, `EarlyBump`, `ReadTable`, `InsertRow`, `CommitRow`, `PutBlob`, `PutPointer`, `ReadMembers`, `FinalBump`, `Fail`; gateways `Start`, `Exit`, `Check`, `ReadPointer`, `ReadBlob` |
| `FederationSync` | `PullOnce`, `BuildRegionExport`, `ApplyExport`; extends `SnapshotDistribution`, which is the hub | `HubStep`, `BeginPull`, `Export...` (one per read), `Apply...` (one per replace), `SaveCursor`, `Abandon` |
| `JoinTokens` | peers and deployments: register, patch, rotate, `AuthenticatePeerToken`, heartbeats, the sealed token | one per statement of an administrator's request; `Pull`, `Beat`, `Configure`, `BumpRevision`, `Fail` |
| `RegionConfig` | pure: `BuildRegionSource`, the overlays, `Compile`, `CompileRegion` | - |
| `Regions` | the commands on a region and the publish after each | one per statement: membership, overlay, status, load, read members, upload; `Fail` |
| `ConfigStore` | providers, routes, policies, hooks, backends, agents, credentials, assignments, keys, quotas with their foreign keys and unique indexes | one per statement of over thirty commands; `UpdatePriorities` in a transaction that holds its rows, `Deadlock`; `Publish`, `Fail` |
| `CallConfig` | pure: who may call, route, order of targets by strategy, policies, credential | - |
| `GatewayCall` | a chat or audio call; extends `UpstreamAttempts` and `CallConfig` | `Authenticate`, `Decode`, `Policies`, `BeforeCall`, `Quota`, `FindRoute`, `BeforeChat`, `BindSecret`, `CallUpstream`, the rest of the loop |
| `QuotaGate` | `checkAndIncrRequests`, `ResolveQuota`, `CompositeCounters`, `incrTokens` | `Arrive`, `Pass`, `Deny`, `Incr`, `StoreFails`, `IncrLost`, `Call`, `IncrTokens`, `Roll` |
| `UpstreamAttempts` | `executeChat`, the audio handlers, `retry.go` | `Sleep`, `Bind`, `BindFails`, `CallFails`, `CallAnswers`, `ReplyError`, `ReplyUpstream`, `ReplyAudio`, `ReplyChat`, `ReplyStream` |
| `Extensions` | plugins from start to kill, the WASM cache, pools, the hooks of a call | `startProcess`, `dialTarget`, `Handshake`, `Serve`, `Abort`, `Stop`, `Drained`, `Swept`, `SweepModule`, `Exit`, `Upload`, `Crash`, and a call's walk through its hooks |
| `SingleCalls` | embeddings, images, MCP, A2A, agent cards, signed requests | one per stage of a handler; `Deliver`, `Tick`, `Restart` |
| `Streams` | a streamed answer: parser, `wrapClose`, channels, `WriteStream` of the three dialects over five kinds of upstream | `Upstream`, `ParserStep`, `ForwardStep`, `HandlerStep`, `Leave` |
| `Dialogue` | a conversation through the codecs, every request to any backend | `Ask`, `AnswerCalls`, `ChatIR`, `Respond` |
| `Delivery` | abstract: accepted, delivered, settled | `Accept`, `Deliver`, `Settle` |
| `OutboxDrain` | `ProcessOnce`, `ProcessPlatformEventsOnce`, both outboxes | `Insert`, `Commit`, `EnqueueFails`, `ClaimBatch`, `Deliver`, `MarkProcessed`, `DecodeFails`, `Fault` |
| `UsageReports` | the usage list, summary and pulled reports | `InsertRecord`, `Ask`, `ReadLocal`, `ListPeers`, `Pull`, `Answer` |
| `Tenancy` | `UpdateOrgMemberRole`, `InviteOrgMember`, `RevokeInvite`, `ResendInvite`, `AcceptInvite` | one per statement of the five handlers, `Fail`, `Register`, `Expire` |
| `Teams` | teams and their members, projects, environments, the keys made for them and their publish | one per statement, `OrgChange`, `Fail` |
| `SignIn` | register, log in, request and confirm a reset, begin and complete SSO | one per statement, `Fault` in each, `ExpireToken`, `ExpireState` |

How data is abstracted:

- **Snapshot payloads.** In `SnapshotDistribution` a table is the number of changes
  committed to it and a payload the vector of the numbers it was loaded with: enough
  to say which changes a snapshot holds. In `Regions`, where the merge matters, it
  has rows; in `Teams` only keys.
- **`SnapshotStore.Put`.** The serial of `gateway_snapshots` advances at the INSERT
  and is not taken back; the row is visible at COMMIT. The two PUTs of the mirror
  are two steps. The revision is moved by one SQL upsert, hence one step.
- **Gateways.** `Check` stands for the first load, the ticker and the NOTIFY
  wake-up of `Watch`, which do the same. A mirror gateway reads the pointer and the
  object it names in two steps. A gateway that exits loses its `Holder`.
- **The export** takes the revision first and then reads each part; hub commands
  may run between any two of these. Replaces are row by row in the code: one
  that fails half-way leaves something that counts as no version (0), and one
  whose DELETE fails keeps the old value (the code drops that error).
- **Quotas.** Keys are sequences of scopes, most specific first; a snapshot is a
  sequence of quotas. `ResolveQuota` is the code's loop written as the choice of
  the one element no other outranks.
- **Policies** are given by the credential contexts their expression is true in and
  those its evaluation fails in: of what an expression may look at, only the
  credential differs between the evaluations of one call. Latencies, error rates
  and prices are numbers in their order; a weighted strategy is any order that its
  weights allow.
- **Upstream calls** end in one of five ways: below 400, other 4xx, 5xx or 429, a
  transport error, and "this provider does not support it".
- **Tokens, signatures, passwords and digests** are what they prove: a token is
  its number, a digest is the content, a password is who set it.
- **Streams.** A piece of text or arguments is a number in the order it was said; what is
  remembered of it is its lane, the text or the call it belongs to. A
  chunk is what one message on the wire carries; what each backend puts into a chunk
  and each dialect makes of it is written per format.
- **Conversations** are parts: text, image, call, result, numbered as they are made.
- **Usage events** are their places in the order of `created_at`.
- **Configuration rows** keep the columns that keys, indexes and other commands look
  at, and what a patch may change.

Composition: `FederationSync` runs the hub's publishers as they are,
`GatewayCall` runs the loop of `UpstreamAttempts` with targets and credentials from
`CallConfig`, and `Regions` uses `RegionConfig`. `SnapshotDistribution` and
`OutboxDrain` each refine an abstract module (`FeedSpec`, `KeepsPromise`), and
`GatewayCall` refines `UpstreamAttempts` (by proof). Several runs check two or three
modules that share no row they both write: a behaviour starts by choosing its part
(`part`, `mode`), and the others stay where they started. This is a way of running
them, and no statement about their interaction.

## The runs

No state space is cut by a constraint: every bound is a constant that a guard
names. Deadlock is not checked because every bounded system may come to rest:
commands, calls and faults run out and a handler ends. Where an unwanted stop
matters it is a property (`CallEnds`, `StreamEnds`, `LastFailureReported`).
Symmetry is declared only in runs without liveness. The streams' liveness is
checked apart from their invariants, with that of calls.

| Run | Instance | Shows |
|---|---|---|
| `SnapshotRace` | 2 publishers, a gateway on Postgres, a gateway on a region's mirror, 2 tables, 1 region, 2 commands, 1 exit; fair gateways | `MirrorAgreesWithPrimary`, `SnapshotCoversItsStart`, the refinement `FeedSpec`; `PgCatchesUp` |
| `SnapshotStaleLoad` | 2 publishers, 1 table | *violated*: `NewestHoldsAcked` |
| `Federation` | hub with mirror, 1 publisher, 2 tables, 1 region, 2 commands, 1 fair pull loop, 1 failed pull; or 1 peer, 1 deployment, 2 administrators, 3 commands, 3 tokens, an open and a closed region, 1 failed statement | `CursorMeansApplied`, `CursorMeansConfigured`, `RegionCatchesUp`; `RevokedStaysOut`, `SealedIsCurrent`, `DisabledStaysOut` |
| `CallsAtOnce` | 3 calls at once, 4 in all, 2 keys, 2 snapshots of quotas, a fixed and a lifetime window, 1 window end; or 2 deliveries of single calls, one signed request, 4 ticks, 1 restart, 2 images; or 2 calls through 1 plugin and up to 3 hooks of 2 organizations, pools of 1, 1 upload | `OvershootBounded`; `ServedOnce`, `RecordedOnce`; `OneCallPerInstance`, `GatedInOrder`, `NothingLeaks` |
| `GatewayCall` | chat, stream and audio; 14 requests and snapshots; routes of 3 targets, 3 tries; or one stream of every backend in every dialect, 2 pieces, 1 call, channels of 1; fair handlers and goroutines | `DenialIsFree`, `EveryCandidateTried`, `NoDeniedSecret`, `CallEnds`; `StreamEnds` |
| `AttemptsStream` | streams, 3 targets, 2 tries | *violated*: `LastFailureReported` |
| `Wire` | every backend and a plugin behind every dialect, 2 pieces, 2 calls, channels of 1; or conversations of 2 answers with up to 2 calls of 2 tools | `NothingLost`, `FramesNest`, `CutIsReported`; `PairsKept` |
| `OutboxDelivers` | 2 emitters, 2 workers, 3 rows, batches of 2, row 3 undecodable, 1 fault per worker, fair; or 3 events over a hub and 2 peers with limits 1 and 2 | `RedeliveredByFaults`, the refinement `KeepsPromise`, `EventuallyProcessed`; `ListNewest` |
| `OutboxTwoWorkers` | 2 workers, 2 rows, no faults | *violated*: `DeliveredOnce` |
| `Accounts` | 4 people, 2 handlers, 2 invites, 5 operations; or 1 team, 2 projects, 2 environments, 1 key, 4 operations; or 4 requests with 2 addresses, 1 subject, an OIDC and a SAML provider, 1 fault | `OwnerUnlessOverlap`, `RevokeHolds`; `TeamOwnerUnlessOverlap`, `PublishedKeysFit`; `OneSessionPerProof`, `SubjectIsOneUser`, `LaterRequestVoids` |
| `Configuration` | 2 administrators, 2 commands of any kind over 2 providers, 2 routes, 3 policies, a hook, 2 backends, an agent, 3 credentials, 2 keys, 1 fault; or 2 organizations, 2 hub configurations, 2 overlays, 4 commands, 1 fault | `AsAsked`, `SlotsKept`; `Settled`, `OverlayReplaces` |
| `RegionOverlaySpills` | the same region without faults | *violated*: `OverlayStaysHome` |

Why the bounds are enough to mean something:

- Two publishers and two commands are the least with which loads, serials, commits
  and pointer writes can be ordered differently from one another; two tables the least
  for a mixed load; one region the least for a second prefix. A gateway that exits once
  restarts behind or ahead of the pointer.
- One pull loop with one failure starts a pull from every state a failed one leaves. Two
  commands let the hub move between any two reads of an export that already carries
  an earlier change.
- Two administrators and three commands are two overlapping rotations after a
  registration, or a disable between a rotation and a first use; or a rotation that
  fails between its statements and the next one, which must make up for it. Three tokens are the
  first, a replaced one and the newest.
- Three calls exceed a limit of one by two, so a bound that is off by one shows. Two
  windows make the order of checks and increments visible, the fixed one ends while
  calls are inside, and a fourth call arrives at counters the first three used up.
- Two calls of a gateway compile the same module at once, or one takes the instance
  the other gives back; an upload changes what a URI holds between them; pools of one
  make the overflow of a pool happen. Four ticks with a skew of one and a memory of
  two (the code has the same ratio) let a duplicate arrive before and after its nonce
  is forgotten.
- Three targets give a fallback that is neither first nor last, three tries a retry
  that is neither. Every combination of outcomes is explored; the fourteen requests
  cover each strategy, a policy that selects, denies, allows or fails, each way a
  credential is found, and the capabilities of audio.
- Two calls interleave with text before, between and after them in two pieces; with a
  channel of one (16 in the code) every sender can be blocked. Whether a stream ends
  depends on how many events wait for room and not on whose they are: a start, one
  call, two pieces, an end and its usage, or an error, are more than two channels of one
  hold. Two answers of two calls
  are what ids can be confused between.
- Three rows and batches of two leave a row for another claim; the undecodable row is
  behind the others, so it can be alone in a batch and follow another.
- Four people are an owner, an actor, a target and somebody else; five operations are
  enough for an invite, a revoke, a resend, an accept and a role change. Four
  operations on a team are its creation, an added member and two overlapping changes;
  on keys a project, an environment, a key, and the environment's deletion.
- Two commands of the configuration overlap in every step; the tables start with
  assigned and free credentials and with a route that has a fallback, so that two
  commands meet rows. Two organizations on one provider are the least for an overlay
  to reach the other; four commands bind both, give one an overlay, and change the hub.

Model values are shared between parts where that keeps one small group of
permutations sound for all of them: in `Accounts` calls are named like people
and addresses like handlers, in `Configuration` handlers like administrators.
They are never compared with one another.

## Fairness

Fairness is stated only where the code has a loop, a timeout or a runnable goroutine
that justifies it, and only for what a liveness property needs:

- `SnapshotRace`: weak fairness of each gateway's `Check`, or of `ReadPointer` and
  `ReadBlob`: `Watch` runs on a ticker (`AFI_SNAPSHOT_POLL_INTERVAL`, 2 s), whatever
  happens to NOTIFY. Nothing makes a publisher go on, a command succeed or a gateway
  restart, so `PgCatchesUp` speaks of gateways that stay up. A poll that fails ends
  `Watch` and with it the gateway process: that is `Exit`.
- `Federation`: weak fairness of the pull loop's next step (`RunPullLoop`, a ticker of
  `AFI_FEDERATION_PULL_INTERVAL`, 30 s; its HTTP calls time out). Failures are
  bounded: a hub that is unreachable for ever cannot be caught up with.
- `GatewayCall`: weak fairness of the handler's next step: a goroutine whose upstream
  calls and waits end. And weak fairness of the parser, the forwarder and the handler of
  a stream, as goroutines that can run do. The upstream is not fair: `StreamEnds` assumes that
  it hangs up, fails or is cut off.
- `OutboxDelivers`: weak fairness of each worker's loop (a ticker of 2 s in
  `cmd/worker/main.go`) and of an insert's end. Faults are bounded per worker.
- The other runs promise nothing about progress, and assume nothing.

## The proofs

The theorems hold for every value of the constants: any number of publishers,
gateways, tables, regions, calls, windows, targets, tries, plugins, workers, rows,
people, teams, keys and handlers, and without the bounds mattering. They assume the
`ASSUME`s of the modules, which TLC evaluates in every run:

- Most only type the constants (`DistributionAssumption`, `FederationAssumption`,
  `OutboxAssumption`, `QuotaAssumption`, `TenancyAssumption`, `AttemptsAssumption`), or say
  that names of different kinds are different (`JoinAssumption`, `SignInAssumption`,
  `SeedsAssumption`), or that rows have their columns (`CallAssumption`,
  `RegionsAssumption`), or that the hub is no region and a page without a limit is not the
  longest (`UsageAssumption`; 50 and 200 in `usage.go`).
- `DialectsAssumption` says that clients speak the three dialects `WriteStream` has.
- `ReplayAssumption` says that a nonce is remembered for at least twice the skew.
  `auth_signed.go:150` passes `defaultReplayTTL`, ten minutes, twice the skew of
  `auth_signed.go`. Without it `ServedOnce` does not hold: a request signed
  ahead of the gateway's clock is fresh for twice the skew.
- `HooksAssumption` says that priorities are whole numbers and that hooks asked together
  have different places: `filterWasmHooks` sorts them stably, by priority, then by name,
  then as the snapshot has them, and `order` stands for the last two.

Two theorems of the federation have hypotheses of their own, named in their
statements: `OnePuller`, and for `CursorMeansConfigured` also `OnePublisher` and
`MirrorOn`. They say which deployments the promise is for, see below. One of the
distribution, `AckedUnlessOverlap`, speaks of the behaviours in which no two commands
publish at the same time (`NoOverlap`).

Every safety theorem follows the same argument: an inductive invariant, checked by
TLC on the run of its property first, proved by one lemma per action or per conjunct,
then the property from it. A proofs module extends the `MC` module of the run whose
properties it proves, so that the theorem is about the very formula the run checks.
What has to be added to the properties to make them inductive:

- **`SnapshotDistributionProofs`** (`IInv`). `LoadedWindow`: what a publisher has
  loaded lies between the configuration its command began with and the present
  one, table by table as far as it has come. `SerialUnique`: no two publishers hold
  the same serial and no row has one that is still to be committed.
  `CommittedRow`: past its COMMIT a publisher mirrors the row it committed.
  `MirrorProgress`: a publisher writes the prefixes upwards, so its version is not
  yet an object at the prefix it is about to write; without that, the PUT might
  overwrite an object, and immutability and the refinement would not follow. The
  refinement maps rows and objects to the log of `VersionedFeed` and holders to
  its views; every step is a `Publish`, `Advance`, `Boot`, `Stop` or a stutter.
  `NewestHoldsAcked`, which `SnapshotStaleLoad` refutes, holds as long as publishes do not
  overlap (`AckInv`): then the version of the command under way is the last one drawn
  (`LastDrawn`), so the row it commits is the newest, and what was acknowledged before
  was committed when the command began.
- **`FederationProofs`**. *The cursor* (`FedIInv`, `ConfIInv`). The revision is read
  before the data, so as long as the hub's revision is still the one the export
  carries, what was read later is at least as new as that revision announced
  (`ReadAfterRevision`, `SnapshotReadAfterRevision`), before and after it is applied.
  `FromCursor` says that a pull works from the present cursor, which is where one
  puller per region is needed: with two, a slow one may overwrite newer memberships and
  then save its older revision, and in the time between the cursor vouches for data
  that is gone. For the hub's snapshot the invariant is that of the hub with
  `MirrorHoldsAcked` and `RegionPointed`: before the revision moves, the region's
  pointer holds what was acknowledged. That is where one publisher is needed: with two,
  the older command can be the last to move the pointer, and TLC finds
  `CursorMeansConfigured` violated. Without a mirror the revision does not move.
  *Tokens* (`JoinInv`). `TokensApart`: a token is known to one row or carried by the
  one handler about to write it, and a retired one by neither.
  `SealsItsOwn`: since a rotation of a peer ran alone and until one overlaps another or
  fails, at most one rotates it, and a handler that seals does so with the token whose
  hash it stored. `StaysDisabled`: of a peer disabled while nobody held an earlier status
  of it, no handler ever gets one to write; pulls, rotations and whoever carries the
  record otherwise may be under way.
- **`CallsAtOnceProofs`**. *Quotas* (`IInv`). `Room`: the counter plus the calls that
  have passed it and not yet incremented it stay within the allowance; the counter alone
  is not inductive. `StillFull`: a counter at its limit at arrival still is, and lies
  ahead of the call. `Progress`: which windows are passed, and which are counted.
  *Single calls* (`SingleInv`). `Remembered`: whoever was let in since the last restart
  left a nonce that is remembered for as long as the request looks fresh. `Accounted`:
  how often a handler has recorded its call at each of its places.
  *Hooks* (`HookInv`). `InClosers`: what is running or open is in the list of what start
  or exit will close, or is what `main` is about to add. `UsesItsOwn`: a call runs an
  instance of the module it looked up. `HeldApart` and `PoolOf`: an instance is held by
  one call or in its module's pool once, never both. `Reachable`: a module is open only
  while the cache or the call that compiled it has it.
  *Their order* (`GateInv`). The hooks a phase asks are a line, in which a hook's place is
  the number of those before it (`Lines`, proved of any finite set that is strictly
  ordered). `Walking`: a call at its k-th hook was let on by the first k - 1 of the line,
  in turn, as its last k - 1. A plugin may name another organization meanwhile, which
  changes the line, but only behind the plugins, which come first for everybody
  (`PluginsFirst`). `Behind`: of a phase that is over every hook has answered.
- **`GatewayCallProofs`**. *The loop* (`IInv` of `UpstreamAttempts`). `LoopInv`: inside
  the loop nothing has been answered and the try is the number of calls of the target.
  `TargetsInv`: targets before are used up, targets after are untouched. `ResultInv`: a
  result belongs to the target that is noted, although a later target may fail to bind.
  `ReplyInv`. *The call* (`CallImplementsLoop`, `EndInv`, `CallInv`). Every step of a call
  is a step of the loop or leaves its variables alone, so what is proved of the loop
  holds of every call for every snapshot. `EndInv`: what the end of the loop says of the
  targets. `CallInv`: the order tried is one the strategy may give, and a permutation of
  the candidates whatever the prices, latencies and weights (a lemma about the ranks);
  a target is called with the credential it was bound to. `NoDeniedSecret` speaks of
  snapshots whose policies are `Steady`: shown any credential
  they select the one they select unseen, or none, since the code shows a credential
  that the second evaluation selects to no policy again.
- **`OutboxDrainProofs`** (`IInv`). `DeliveriesInv`: a worker has delivered a row no more
  often than it has failed, but for the delivery it is about to mark. `DeliveredInv`,
  `BatchInv`: a batch has every row the worker saw and nobody has processed, up to its
  last. *The usage page* (`PageInv`). `Ranks`: in a finite strict order every element has
  a rank of its own and every rank an element, which is why `NewestFirst` and `Descending`
  sort. `Cutting`, `Counting`: a cut keeps the `Top` of a set, and loses nothing but what a
  whole page is newer than. `RowsInv`, `RemoteInv`: what is due of the hub is among the rows
  read, or a page of newer ones is; the same of each region that has answered, up to what
  it reports. An event that arrives afterwards only takes others out of `Reported`.
- **`AccountsProofs`**. *Organizations* (`IInv` of `Tenancy`). `JobsOK`: what a handler has
  looked up (an invite, an account, a membership) exists and is its own. `OwnerInv`: until a
  transfer of ownership overlaps another role change, whoever changes a role was allowed
  to by the one owner, knows who that is, and has seen the guard hold; changes that
  transfer nothing may overlap as they like, since none of them can move the ownership.
  `RevokeInv`: nobody holds an invite whose last revocation nobody raced.
  *Teams* (`TeamInv`, `KeyInv`). `OneLoss`: in a team where no two removals or demotions
  have overlapped at most one is under way; `Leaves`: once it has passed its guard there
  is another owner, and there still is when it writes, whatever members are added or made
  owners meanwhile. For keys: one that has passed its checks
  names an environment of its project, which may have been deleted but never becomes
  another's; and a difference between the keys and the published ones has a publish
  pending or lost. *Sign-in* (`SignInInv`). `Consumed`, `Taken`: what a request has used up
  or taken out is no longer there for others (`TakenOnce`, `UsedOnce`). `Linked`: a
  callback that found or made a link goes on with the user the subject is linked to.
- **`ConfigurationProofs`** (`ConfigInv`). *Regions* (`SettledInv`): a command that runs
  alone has read what the tables still say, whatever earlier ones left behind, so its
  publish brings everything in; and since the last such publish, until a command fails,
  meets another or finds the region disabled, the tables and the snapshot differ only in
  what the one under way has yet to publish. `OverlayReplaces` is a fact about the merge for every
  configuration, proved from the definitions. *One organization* (`StoreInv`): a patch
  under way is the row it was read from with the fields given; a filled slot holds the
  assignment made last; and a delete knows the assignments made since it found its
  credential free.
- **`WireProofs`** (`PipeInv`, `NestInv`, `LossInv`). *Parsers*. `Parsed`: whatever the
  backend's format, what a parser makes of a chunk is at most a start, a text, a call, its arguments, an end and an
  error, in that order, with what makes each of them due. *Pipeline*. `EndWasSaid`: an end
  that is in flight (on the wire, with the parser, in a channel or shown) was said by the
  upstream; `StopIsReported`: a parser that stopped before the upstream's end has left an
  error in flight. Moving an event from the parser to a channel and from there to the
  next leaves the flow as it is, so the handler's last look finds the error or the end.
  *Frames*. `FramesNest` depends on the order of the events in flight as much as on the
  writers. `StartOnce`, `StartIsSent`: what is in flight opens with the start, unless the
  client has had it, and whatever else the upstream says is said after its start; the
  parsers keep to that in two ways, by remembering that they have begun or by passing on
  the upstream's own start. `EndsLast`: after an end only ends and an error are in flight.
  `CallIsSent`: arguments name a call that is in flight ahead of them or has been shown;
  for a parser that counts calls itself the count is tied to the blocks it has seen.
  `Tracks`: the Anthropic writer's locals (`started`, `next`, `cur`, `at`) are what its
  frames say: the next number is how many blocks were opened, and at most the last of
  them is open. The Gemini writer needs none of this: its call frames carry their
  arguments. *Pieces*. `NothingLost` needs the numbers of the pieces and of the calls to be
  followed all the way. `Reached`: what the writer has shown, or the Gemini writer holds
  back, is the first `r` pieces and the first `c` calls. `InFlight`: what is on its way to
  the writer carries the next numbers, each once and in order (`Climbs`), and names
  the lane it was said in (`Labelled`). `OnWire`: the chunks still on the wire carry the
  rest (`Continues`), and the parser has counted the calls before them (`Counted`).
  `Attached`: in the Anthropic dialect arguments come to the writer while their call's
  block is the open one, so they go where they belong although they carry no name.
  `Upheld`: nothing is said after an end, the end of a finished message is in flight or
  shown, and a parser that stopped has read everything. When a finished message is
  answered the flow and the wire are empty, so what was shown is all there was
  (`AllShown`). When the stream fails or the client leaves, what was shown stays a
  sound prefix (`Shown`).

The theorems state more than the runs check: `ExhaustedDenies`, `DeniedTakesNothing`,
`AdmittedTookAll`, `AnswerIsFinal`, `RecordedAsAnswered`, `TargetsExhausted`, `InOrder`,
`AcceptedIsMember`, `JoiningKeepsRoles`, `PublishedIsImmutable`, `HeldOnlyMovesForward`,
`HeldWasPublished`, `PointerNamesBlob` and the types are proved, and need no run.

Only model-checked, and why:

- Liveness under fairness is out of the prover's reach: `PgCatchesUp`,
  `RegionCatchesUp`, `CallEnds`, `StreamEnds`, `EventuallyProcessed`.
- `PairsKept` is about folds over a conversation of any length (`FoldLeft`,
  `SelectSeq` with a condition as a parameter), which is induction over data.
- ENABLED and induction over recursive data are out of reach; no module uses ENABLED or
  declares a RECURSIVE operator.

## What the models found

With a run that shows it (`findings` in `PROJECT.json` quotes the promise):

1. **A newer snapshot may hold an older configuration** (`SnapshotStaleLoad`,
   `platform_seeder.go:158`). Two publishers load in one order and draw their
   versions in the other. The newest snapshot then misses a change whose command
   answered success, until somebody publishes again. The overlap is the only way
   (theorem `AckedUnlessOverlap`).
2. **A chat stream may hang after a 200** (`AttemptsStream`, `chat_exec.go:253`):
   a 5xx followed by a transport error leaves `haveResult` true and the result
   empty. The handler writes 200 and ranges over a nil channel. Without streaming
   the client is told 502 "empty upstream response" and nothing is recorded.
3. **Two workers deliver a row twice** without any fault (`OutboxTwoWorkers`,
   `outbox.go:26`): the claim locks nothing, and `usage_events` has no key that
   would notice.
4. **An organization's overlay changes other organizations** (`RegionOverlaySpills`,
   `regions/source.go:257`): the providers of all overlays of a region are merged by
   id, after the hub's, and credentials and assignments are kept one per key.

Shown by the same modules with other constants or properties, without a run of
their own here:

- *Without a mirror, a configuration publish never reaches regions*
  (`platform_seeder.go:171`): `publishRegionalSnapshots` returns before it moves the
  revision, so an export is "unchanged" until a membership or overlay changes.
  `FederationSync` with `MirrorOn = FALSE` violates `CursorMeansConfigured`.
  `examples/federation/README.md:188` runs this way.
- *An organization may lose its last owner* (`tenancy/service.go:105`): a transfer
  and another role change that overlap each pass the guard; overlapping transfers may
  also leave two owners. `OwnerUnlessOverlap` states what remains true: nothing but an
  overlapping transfer does it. Of a team the last owner goes with two overlapping
  removals or demotions (`tenancy/service.go:264`, `:308`), and by
  `TeamOwnerUnlessOverlap` with nothing else.
- *Calls of a Gemini backend may be confused* (`adapters/llm/gemini_ir.go:90`): calls
  without an id are named `call_gemini_<n>` and `n` starts again in every answer, so
  two answers share an id and a result is paired with the wrong call. `PairsKept` is
  checked with `OwnIds = TRUE` and violated with FALSE. `docs/api/dialects.md:182`
  speaks of a round trip.

## Notes from reading the code

What the models had to take over from the code, where a reader might expect
something else. Nothing here is a checked claim.

Snapshots and federation
- The mirror's `latest` may move back to an older version
  (`objectstore/snapshot.go:71`). Running gateways ignore it (`Newer`); one that
  starts meanwhile serves the older snapshot until the next publish.
- Two control-plane replicas of a region both pull (`pull.go:42`); see `OnePuller`.
- Errors of the deletes of a replace are dropped (`federation_store.go:211`): the
  cursor is saved, and what was unbound stays bound until the next full replace.
  `CursorMeansApplied` excepts exactly that, through `dropped`. The replace of the
  memberships already deletes the overlays of organizations no longer bound (`:210`).
- The revision bump after a membership or overlay change has its error dropped
  (`platform_store.go:856`): the change waits for the next bump.
- `handlePullPeerUsageReports` does not refuse a disabled peer;
  `fetchFederationUsageForOrg` does.

- Two rotations of a peer's token that overlap, or one that fails between its two
  statements, leave the hash of one token and the sealed copy of another
  (`federation_store.go:51`), until the next rotation that runs alone
  (`SealedIsCurrent`). A first use, or a patch without a status, that has read a peer
  before it was disabled makes it active again (`federation/service.go:108`); nothing
  else does (`DisabledStaysOut`).
- A control plane reports all its `usage_events`, and the hub merges what its peers
  report without a look at the ids (`usage_federation.go:127`). A region may be
  registered as two peers, whose events would then be on the page twice; `UsageReports`
  takes every peer to be a region of its own.

Regions and configuration
- `CompileRegion` copies an empty allowlist to nil, "no allowlist", although
  `compile.go:136` says it is non-nil.
- A disabled region's blob is never republished, and enabling it publishes nothing. A
  rename writes back the status it read. `BindAll` checks the region's status again for
  each organization, and refused midway leaves bindings without a publish, until the next
  command that publishes (`Settled`). A put of an overlay that races an unbind leaves an orphan overlay,
  against `regions/service.go:183` ("removes membership and any overlay").
- `RotateSigningKey` makes a disabled key active. Quotas and assignments of a deleted
  API key stay, and keep `DeleteCredential` from succeeding.
- `NormalizeCapabilities` gives disabled embedding, image, tts and stt back.

Calls
- Token quotas are counted after the answer and never read (`quota.go:54`), while
  `docs/guides/web-ui.md:13` speaks of "usage limits the gateway enforces".
- Policies are evaluated first without a credential, in the gate and in
  `bindProviderSecret`, so `!credential.is_byok` denies every call there
  (`pipeline.go:324`, compare `web/src/lib/cel-policy-catalog.ts:62`). A credential
  selected by the second evaluation is not shown to the policies again.
- A quota is consumed before a missing route (400), an MCP method (403) or a chat hook
  refuses. Latencies of failed attempts count for the routing signals.
- `AfterCall` does not run for an empty, unencodable or unsupported chat answer or an
  invalid agent card, against `docs/development/hooks/usage.md:9`.
- `config-reference.md:228` calls the nonce cache bounded: only expiry bounds it. MCP
  methods and models are read before or after hooks rewrite a body, depending on the
  modality, and an unreadable MCP method is allowed. Objects of earlier images stay when
  a later one fails. `p.HTTP`'s timeout of 120 s bounds MCP and A2A streams.

Hooks and extensions
- The guest timeout never interrupts a guest that loops: the runtime is created without
  `WithCloseOnContextDone` (`adapters/wasm/module.go:79`;
  `docs/development/hooks/wasm.md` says 100 ms). An instance that trapped or exited goes
  back to the pool and fails later calls.
- A module without a digest is cached by its URI for ever, whatever the URI holds later;
  hooks of different organizations with one digest share a module.
- SIGTERM kills plugins at once while calls drain for 10 s: their hooks fail with 500. A
  failed start after `grpcprovider` began leaves no plugin, but `os.Exit` elsewhere in
  `main` does; a crashed plugin is never restarted. An answer of a plugin may replace
  the principal, and the later hooks and quotas are then those of that principal.

Streams and dialects
- Anthropic clients are sent `message_delta` and `message_stop` twice behind Bedrock and
  OpenAI, and parallel tool calls whose pieces alternate are dropped for them
  (`dialect/anthropic.go:150`).
- Upstream `error` events inside a stream are ignored and the call is recorded as ok; a
  clean end of the body without a finish is answered ok. A failed client write leaves
  the forwarder blocked on its channel and the body open (`adapters/llm/chat_ir.go:95`).
- `developer` messages are dropped for Anthropic and refused by Gemini and Bedrock;
  images in tool messages are dropped; roles do not alternate after an empty answer.

Accounts, teams and usage
- A resend or an accept that looked an invite up before it was revoked writes its status
  afterwards (`tenancy/invite.go:129`); `RevokeHolds` states what remains true.
- Two confirms with one token both write a password, and the one answered with an error
  may be the one that stays (`app/platform/auth.go:210`). A later reset request may
  delete a token between a confirm's read and its consumption. Failed mail is answered
  ok.
- A project takes any team id. Deleting an environment makes its keys keys of the whole
  project (`ON DELETE SET NULL`). Organization memberships are never removed.
- The list of a usage page takes the newest 500 of a region before its filter. A limit
  over 200 is 50 for the local part. A summary by day without a range restricts the
  local part to 30 days and the remote ones not at all. Failing peers are skipped. Every
  page view adds the pulled reports to the counters again.

## What is not modelled

- *Time.* Windows end, invites and tokens expire and tickers fire at any moment; only the
  replay store has a clock. All gateways see a window end at once.
- *Payloads*: the content of requests and answers beyond what dialects tell apart, audio
  formats; sizes (an export above 32 MiB is cut off, `federationclient/client.go:84`);
  prices and SQL aggregation by single fields.
- *`afi db reset`*, which drops the tables and restarts the serial while gateways
  may hold greater versions. All the results about versions assume that the serial
  never restarts.
- *Validation* of single fields. Models start where a handler has passed it;
  authorization is modelled where it belongs to a race (roles of members and teams).
- *The in-process bus and the audit trail*: handlers run in line and errors are logged.
- *Cryptography, mail, the WASM runtime, SQL planning, telemetry, start-up, the web UI,
  SDKs and clients*: external, or without concurrent state of their own. What a guest
  or a plugin answers is any of its possible answers.
- *Interaction across the parts of one run*, see [The modules](#the-modules): a publish is
  one step in `Regions`, `ConfigStore` and `Teams`, and its races are those of
  `SnapshotDistribution`.

## Plan

1. `ConfigStore` as the source of the changes of `SnapshotDistribution`, so that an
   acknowledged command is followed to the gateway in one model.
2. Two gateways with two replay stores, and the clock skew between their windows.
