------------------------- MODULE SnapshotDistribution -------------------------
(***************************************************************************)
(* How a configuration change reaches the gateways.                        *)
(*                                                                         *)
(* Control-plane handlers ("publishers") run concurrently, in one or more  *)
(* control-plane processes, with no lock between them.  A handler commits  *)
(* its change to the configuration tables, loads every table with one      *)
(* SELECT each (no transaction around them), compiles, inserts a           *)
(* gateway_snapshots row whose version is drawn from a serial, and commits.*)
(* When snapshot distribution is on, it then writes {version}.json and the *)
(* "latest" object of the mirror, the same pair for each region, and bumps *)
(* the federation revision.  Any step may fail, or the process may die:    *)
(* what was committed stays, the rest is never done.                       *)
(*                                                                         *)
(* A gateway watches either Postgres or one prefix of the mirror, and      *)
(* replaces the snapshot it serves when it sees a greater version.         *)
(*                                                                         *)
(* Abstraction: a configuration table is the number of changes committed   *)
(* to it, so a compiled payload is the vector of the numbers it was loaded *)
(* with; a region's memberships and overlays are one more such number.     *)
(***************************************************************************)
EXTENDS Integers, FiniteSets

CONSTANTS
  Publishers,      \* concurrent publishing handlers (HTTP, CLI, seeding)
  PgGateways,      \* gateways with AFI_SNAPSHOT_BACKEND=postgres
  MirrorGateways,  \* gateways with AFI_SNAPSHOT_BACKEND=objectstore
  PrefixOf,        \* the mirror prefix each mirror gateway watches
  NTables,         \* configuration tables, numbered in the order they are loaded
  NRegions,        \* active or draining regions, numbered in listing order
  MirrorOn,        \* AFI_SNAPSHOT_DIST_ENABLED
  MaxCommands,     \* bound: commands started
  MaxExits         \* bound: gateway exits

Tables   == 1..NTables
Regions  == 1..NRegions
Prefixes == 0..NRegions          \* 0 is the global, un-prefixed mirror
Gateways == PgGateways \cup MirrorGateways

ASSUME DistributionAssumption ==
  /\ NTables \in Nat \ {0}
  /\ NRegions \in Nat
  /\ MirrorOn \in BOOLEAN
  /\ MaxCommands \in Nat
  /\ MaxExits \in Nat
  /\ PrefixOf \in [MirrorGateways -> Prefixes]
  /\ PgGateways \cap MirrorGateways = {}

VARIABLES
  rows,       \* rows[t]: changes committed to configuration table t
  memb,       \* memb[r]: changes committed to region r's memberships and overlays
  pc,         \* pc[p]: the next step of publisher p
  own,        \* own[p]: the table p's command changed, 0 if none
  only,       \* only[p]: the one region p publishes, 0 for all of them
  next,       \* next[p]: the next table p loads
  base,       \* base[p]: what p has loaded
  members,    \* members[p]: region data p read for the region it is writing
  version,    \* version[p]: the serial p's INSERT returned
  prefix,     \* prefix[p]: the mirror prefix p is writing
  seq,        \* last value of the gateway_snapshots serial
  snapshots,  \* committed gateway_snapshots rows
  blobs,      \* {prefix}/{version}.json objects of the mirror
  latest,     \* latest[x]: the version in {x}/latest, 0 if there is no such object
  revision,   \* the hub's federation revision
  up,         \* up[g]: gateway g is running
  held,       \* held[g]: the snapshot in g's Holder (version 0: none yet)
  ptr,        \* ptr[g]: the pointer g has read and not yet followed, 0 if none
  commands,   \* commands started (bounded by MaxCommands)
  exits,      \* gateway exits (bounded by MaxExits)
  began,      \* history: began[p] is rows when p's command began to publish
  acked       \* history: acked[t] is the newest change of t whose command succeeded

configVars  == <<rows, memb>>
localVars   == <<pc, own, only, next, base, members, version, prefix, began>>
storeVars   == <<seq, snapshots, blobs, latest, revision>>
gatewayVars == <<up, held, ptr, exits>>
vars == <<configVars, localVars, storeVars, gatewayVars, commands, acked>>

-----------------------------------------------------------------------------
Vector == [Tables -> Nat]
Zero   == [t \in Tables |-> 0]

Payload  == [version : Nat, base : Vector, members : Nat]
Nothing  == [version |-> 0, base |-> Zero, members |-> 0]
Row      == [version : Nat, base : Vector, began : Vector]
Blob     == [prefix : Prefixes, version : Nat, base : Vector, members : Nat]

\* Component-wise order of two vectors of table versions.
Within(a, b) == \A t \in Tables : a[t] <= b[t]

\* The row SnapshotStore.Latest returns: the greatest committed version.
IsNewest(s) == /\ s \in snapshots
               /\ \A o \in snapshots : o.version <= s.version

\* What PublishRegionSnapshots writes after the global mirror, in listing order.
Targets(p) == IF only[p] = 0 THEN Regions ELSE {only[p]}
Following(p) == {r \in Targets(p) : r > prefix[p]}

Init ==
  /\ rows = Zero
  /\ memb = [r \in Regions |-> 0]
  /\ pc = [p \in Publishers |-> "idle"]
  /\ own = [p \in Publishers |-> 0]
  /\ only = [p \in Publishers |-> 0]
  /\ next = [p \in Publishers |-> 1]
  /\ base = [p \in Publishers |-> Zero]
  /\ members = [p \in Publishers |-> 0]
  /\ version = [p \in Publishers |-> 0]
  /\ prefix = [p \in Publishers |-> 0]
  /\ began = [p \in Publishers |-> Zero]
  /\ seq = 0
  /\ snapshots = {}
  /\ blobs = {}
  /\ latest = [x \in Prefixes |-> 0]
  /\ revision = 0
  /\ up = [g \in Gateways |-> FALSE]
  /\ held = [g \in Gateways |-> Nothing]
  /\ ptr = [g \in Gateways |-> 0]
  /\ commands = 0
  /\ exits = 0
  /\ acked = Zero

-----------------------------------------------------------------------------
(* Publishers *)

\* What every command does when it starts to publish.
Begin(p, step, table, region) ==
  /\ pc[p] = "idle"
  /\ commands < MaxCommands
  /\ commands' = commands + 1
  /\ pc' = [pc EXCEPT ![p] = step]
  /\ own' = [own EXCEPT ![p] = table]
  /\ only' = [only EXCEPT ![p] = region]
  /\ began' = [began EXCEPT ![p] = rows']
  /\ UNCHANGED <<next, base, members, version, prefix, storeVars, gatewayVars, acked>>

\* A gateway-configuration command: the change commits, then the publish begins.
ChangeConfig(p, t) ==
  /\ rows' = [rows EXCEPT ![t] = @ + 1]
  /\ UNCHANGED memb
  /\ Begin(p, "load", t, 0)

\* A bare publish: POST /internal/v1/snapshots/publish, the CLI, start-up seeding.
Republish(p) ==
  /\ UNCHANGED configVars
  /\ Begin(p, "load", 0, 0)

\* Bind, unbind or an overlay change of region r.
ChangeRegion(p, r) ==
  /\ memb' = [memb EXCEPT ![r] = @ + 1]
  /\ UNCHANGED rows
  /\ Begin(p, "early", 0, r)

\* The store's own revision bump after a region change; its error is dropped.
EarlyBump(p) ==
  /\ pc[p] = "early"
  /\ revision' \in {revision, revision + 1}
  /\ pc' = [pc EXCEPT ![p] = "load"]
  /\ UNCHANGED <<configVars, own, only, next, base, members, version, prefix, began,
                 seq, snapshots, blobs, latest, gatewayVars, commands, acked>>

\* Mutation: the last table of the load is forgotten.
ReadTableForgetsLast(p) ==
  /\ pc[p] = "load"
  /\ IF next[p] = NTables
       THEN /\ pc' = [pc EXCEPT ![p] = "insert"]
            /\ next' = [next EXCEPT ![p] = 1]
            /\ UNCHANGED base
       ELSE /\ base' = [base EXCEPT ![p][next[p]] = rows[next[p]]]
            /\ next' = [next EXCEPT ![p] = @ + 1]
            /\ UNCHANGED pc
  /\ UNCHANGED <<configVars, own, only, members, version, prefix, began,
                 storeVars, gatewayVars, commands, acked>>

\* One SELECT of LoadSnapshotSource.
ReadTable(p) ==
  /\ pc[p] = "load"
  /\ base' = [base EXCEPT ![p][next[p]] = rows[next[p]]]
  /\ IF next[p] = NTables
       THEN /\ pc' = [pc EXCEPT ![p] = "insert"]
            /\ next' = [next EXCEPT ![p] = 1]
       ELSE /\ next' = [next EXCEPT ![p] = @ + 1]
            /\ UNCHANGED pc
  /\ UNCHANGED <<configVars, own, only, members, version, prefix, began,
                 storeVars, gatewayVars, commands, acked>>

\* INSERT ... RETURNING version: the serial advances even if the tx never commits.
InsertRow(p) ==
  /\ pc[p] = "insert"
  /\ seq' = seq + 1
  /\ version' = [version EXCEPT ![p] = seq + 1]
  /\ pc' = [pc EXCEPT ![p] = "commit"]
  /\ UNCHANGED <<configVars, own, only, next, base, members, prefix, began,
                 snapshots, blobs, latest, revision, gatewayVars, commands, acked>>

\* Back to the caller: the locals are gone.
Return(p) ==
  /\ pc' = [pc EXCEPT ![p] = "idle"]
  /\ own' = [own EXCEPT ![p] = 0]
  /\ only' = [only EXCEPT ![p] = 0]
  /\ next' = [next EXCEPT ![p] = 1]
  /\ base' = [base EXCEPT ![p] = Zero]
  /\ members' = [members EXCEPT ![p] = 0]
  /\ version' = [version EXCEPT ![p] = 0]
  /\ prefix' = [prefix EXCEPT ![p] = 0]
  /\ began' = [began EXCEPT ![p] = Zero]

\* The command answers success: its change counts as acknowledged.
Succeed(p) ==
  /\ Return(p)
  /\ acked' = [t \in Tables |-> IF t = own[p] /\ began[p][t] > acked[t]
                                  THEN began[p][t] ELSE acked[t]]

\* COMMIT of the snapshot row (and of its NOTIFY).
CommitRow(p) ==
  /\ pc[p] = "commit"
  /\ snapshots' = snapshots \cup
       {[version |-> version[p], base |-> base[p], began |-> began[p]]}
  /\ IF MirrorOn
       THEN /\ pc' = [pc EXCEPT ![p] = "blob"]
            /\ UNCHANGED <<own, only, next, base, members, version, prefix, began, acked>>
       ELSE Succeed(p)
  /\ UNCHANGED <<configVars, seq, blobs, latest, revision, gatewayVars, commands>>

\* {prefix}/{version}.json: the object is created or overwritten.
PutBlob(p) ==
  /\ pc[p] = "blob"
  /\ blobs' = {b \in blobs : ~(b.prefix = prefix[p] /\ b.version = version[p])} \cup
       {[prefix |-> prefix[p], version |-> version[p],
         base |-> base[p], members |-> members[p]]}
  /\ pc' = [pc EXCEPT ![p] = "pointer"]
  /\ UNCHANGED <<configVars, own, only, next, base, members, version, prefix, began,
                 seq, snapshots, latest, revision, gatewayVars, commands, acked>>

\* {prefix}/latest: overwritten whatever it held; then the next region, if any.
PutPointer(p) ==
  /\ pc[p] = "pointer"
  /\ latest' = [latest EXCEPT ![prefix[p]] = version[p]]
  /\ \/ /\ Following(p) = {}
        /\ pc' = [pc EXCEPT ![p] = "bump"]
        /\ UNCHANGED prefix
     \/ \E r \in Following(p) :
          /\ \A other \in Following(p) : r <= other
          /\ prefix' = [prefix EXCEPT ![p] = r]
          /\ pc' = [pc EXCEPT ![p] = "members"]
  /\ UNCHANGED <<configVars, own, only, next, base, members, version, began,
                 seq, snapshots, blobs, revision, gatewayVars, commands, acked>>

\* Mutation: the region is compiled from a base loaded again.
ReadMembersAndBase(p) ==
  /\ pc[p] = "members"
  /\ members' = [members EXCEPT ![p] = memb[prefix[p]]]
  /\ base' = [base EXCEPT ![p] = rows]
  /\ pc' = [pc EXCEPT ![p] = "blob"]
  /\ UNCHANGED <<configVars, own, only, next, version, prefix, began,
                 storeVars, gatewayVars, commands, acked>>

\* The region's memberships and overlays, read now, over the base loaded earlier.
ReadMembers(p) ==
  /\ pc[p] = "members"
  /\ members' = [members EXCEPT ![p] = memb[prefix[p]]]
  /\ pc' = [pc EXCEPT ![p] = "blob"]
  /\ UNCHANGED <<configVars, own, only, next, base, version, prefix, began,
                 storeVars, gatewayVars, commands, acked>>

\* BumpFederationRevision once every region is written.
FinalBump(p) ==
  /\ pc[p] = "bump"
  /\ revision' = revision + 1
  /\ Succeed(p)
  /\ UNCHANGED <<configVars, seq, snapshots, blobs, latest, gatewayVars, commands>>

\* An error at any step, or the death of the process: an uncommitted row is
\* rolled back, everything already written stays, the rest is not done.
Fail(p) ==
  /\ pc[p] # "idle"
  /\ Return(p)
  /\ UNCHANGED <<configVars, storeVars, gatewayVars, commands, acked>>

-----------------------------------------------------------------------------
(* Gateways *)

\* The process starts: nothing in the Holder, Watch begins.
Start(g) ==
  /\ ~up[g]
  /\ up' = [up EXCEPT ![g] = TRUE]
  /\ UNCHANGED <<configVars, localVars, storeVars, held, ptr, exits, commands, acked>>

\* The process exits: a Watch error cancels it, or it crashes or is stopped.
Exit(g) ==
  /\ up[g]
  /\ exits < MaxExits
  /\ exits' = exits + 1
  /\ up' = [up EXCEPT ![g] = FALSE]
  /\ held' = [held EXCEPT ![g] = Nothing]
  /\ ptr' = [ptr EXCEPT ![g] = 0]
  /\ UNCHANGED <<configVars, localVars, storeVars, commands, acked>>

\* Mutations of Watch's guard: any other version is taken; the next one is missed.
AnyOther(v, g) == v # held[g].version
NotNext(v, g) == v > held[g].version + 1

\* Watch's guard, the same for both backends.
Newer(v, g) == v > held[g].version

\* Watch's first Latest, its ticker, and the NOTIFY wake-up all run this check.
Check(g) ==
  /\ up[g]
  /\ \E s \in snapshots :
       /\ IsNewest(s)
       /\ Newer(s.version, g)
       /\ held' = [held EXCEPT ![g] =
            [version |-> s.version, base |-> s.base, members |-> 0]]
  /\ UNCHANGED <<configVars, localVars, storeVars, up, ptr, exits, commands, acked>>

\* The object {x}/{v}.json, if it exists.
BlobAt(x, v) == {b \in blobs : b.prefix = x /\ b.version = v}

\* objectstore Latest, first GET: the pointer.
ReadPointer(g) ==
  /\ up[g]
  /\ ptr[g] = 0
  /\ ptr' = [ptr EXCEPT ![g] = latest[PrefixOf[g]]]
  /\ UNCHANGED <<configVars, localVars, storeVars, up, held, exits, commands, acked>>

\* objectstore Latest, second GET, and Watch's guard on a greater version.
ReadBlob(g) ==
  /\ up[g]
  /\ ptr[g] # 0
  /\ ptr' = [ptr EXCEPT ![g] = 0]
  /\ \/ \E b \in BlobAt(PrefixOf[g], ptr[g]) :
          /\ Newer(ptr[g], g)
          /\ held' = [held EXCEPT ![g] =
               [version |-> b.version, base |-> b.base, members |-> b.members]]
     \/ /\ BlobAt(PrefixOf[g], ptr[g]) = {} \/ ~Newer(ptr[g], g)
        /\ UNCHANGED held
  /\ UNCHANGED <<configVars, localVars, storeVars, up, exits, commands, acked>>

-----------------------------------------------------------------------------
PublisherStep(p) ==
  \/ \E t \in Tables : ChangeConfig(p, t)
  \/ \E r \in Regions : ChangeRegion(p, r)
  \/ Republish(p)
  \/ EarlyBump(p)
  \/ ReadTable(p)
  \/ InsertRow(p)
  \/ CommitRow(p)
  \/ PutBlob(p)
  \/ PutPointer(p)
  \/ ReadMembers(p)
  \/ FinalBump(p)
  \/ Fail(p)

Next ==
  \/ \E p \in Publishers : PublisherStep(p)
  \/ \E g \in Gateways : Start(g) \/ Exit(g)
  \/ \E g \in PgGateways : Check(g)
  \/ \E g \in MirrorGateways : ReadPointer(g) \/ ReadBlob(g)

Spec == Init /\ [][Next]_vars

\* A running gateway's ticker fires forever (AFI_SNAPSHOT_POLL_INTERVAL), so its
\* checks are fair.  Commands, failures, exits and restarts are not.
Fairness ==
  /\ \A g \in PgGateways : WF_vars(Check(g))
  /\ \A g \in MirrorGateways : WF_vars(ReadPointer(g)) /\ WF_vars(ReadBlob(g))

FairSpec == Spec /\ Fairness

-----------------------------------------------------------------------------
(* Properties *)

Steps == {"idle", "early", "load", "insert", "commit", "blob", "pointer",
          "members", "bump"}

\* Every variable has its type, and a publisher that is about to read a region's
\* memberships stands at a region's prefix.
TypeOK ==
  /\ rows \in Vector
  /\ memb \in [Regions -> Nat]
  /\ pc \in [Publishers -> Steps]
  /\ own \in [Publishers -> Tables \cup {0}]
  /\ only \in [Publishers -> Regions \cup {0}]
  /\ next \in [Publishers -> Tables]
  /\ base \in [Publishers -> Vector]
  /\ members \in [Publishers -> Nat]
  /\ version \in [Publishers -> Nat]
  /\ prefix \in [Publishers -> Prefixes]
  /\ began \in [Publishers -> Vector]
  /\ seq \in Nat
  /\ snapshots \subseteq Row
  /\ blobs \subseteq Blob
  /\ latest \in [Prefixes -> Nat]
  /\ revision \in Nat
  /\ up \in [Gateways -> BOOLEAN]
  /\ held \in [Gateways -> Payload]
  /\ ptr \in [Gateways -> Nat]
  /\ commands \in Nat
  /\ exits \in Nat
  /\ acked \in Vector
  /\ \A p \in Publishers : pc[p] = "members" => prefix[p] \in Regions

\* The pointer object of a prefix always names an object that exists under that
\* prefix, whatever publishers race or die between the two writes: a mirror
\* gateway that follows it never misses.
PointerNamesBlob ==
  \A x \in Prefixes : latest[x] # 0 =>
    \E b \in blobs : b.prefix = x /\ b.version = latest[x]

\* Every object of the mirror, global or regional, was compiled from the very
\* configuration that Postgres committed under the same version.
MirrorAgreesWithPrimary ==
  \A b \in blobs : \E s \in snapshots : s.version = b.version /\ s.base = b.base

\* A snapshot holds every change that was committed when its command began to
\* publish (its own among them), and nothing that is not committed now, although
\* the tables are read one by one without a transaction.
SnapshotCoversItsStart ==
  \A s \in snapshots : Within(s.began, s.base) /\ Within(s.base, rows)

\* What a gateway serves was published, as a whole and under that version, in the
\* feed it watches: never another region's payload, never an uncommitted row.
HeldWasPublished ==
  \A g \in Gateways : held[g].version # 0 =>
    IF g \in PgGateways
      THEN \E s \in snapshots : held[g].version = s.version /\ held[g].base = s.base
      ELSE [prefix |-> PrefixOf[g], version |-> held[g].version,
            base |-> held[g].base, members |-> held[g].members] \in blobs

\* While it runs a gateway never goes back to an older snapshot, even when racing
\* publishers commit out of order or move the mirror's pointer backwards.
HeldOnlyMovesForward ==
  [][\A g \in Gateways : up[g] /\ up'[g] => held'[g].version >= held[g].version]_vars

\* A published version is never changed, in Postgres or in the mirror.
PublishedIsImmutable ==
  [][/\ blobs \subseteq blobs'
     /\ \A s, o \in snapshots' : s.version = o.version => s = o]_vars

\* A gateway that stays up ends on the newest committed row.
PgCatchesUp ==
  \A g \in PgGateways : <>[]up[g] =>
    <>[](\A s \in snapshots : IsNewest(s) => held[g].version = s.version)

\* Once a command has answered success, the newest snapshot holds its change: the
\* next snapshot a gateway loads puts it into effect.
NewestHoldsAcked ==
  \A s \in snapshots : IsNewest(s) => Within(acked, s.base)

-----------------------------------------------------------------------------
(* The abstract specification and its mapping *)

PrimaryFeed == -1

\* Committed rows are the entries of the primary feed, the mirror's objects those
\* of the feed of their prefix.
PublishedLog ==
  {[feed |-> PrimaryFeed,
    snap |-> [version |-> s.version, base |-> s.base, members |-> 0]] : s \in snapshots}
  \cup
  {[feed |-> b.prefix,
    snap |-> [version |-> b.version, base |-> b.base, members |-> b.members]] : b \in blobs}

GatewayFeed == [g \in Gateways |-> IF g \in PgGateways THEN PrimaryFeed ELSE PrefixOf[g]]

Feed == INSTANCE VersionedFeed WITH
  Consumers <- Gateways, FeedOf <- GatewayFeed, Nowhere <- Nothing,
  log <- PublishedLog, view <- held, online <- up

\* Distribution, with its races, failures, crashes and pointer regressions, is a
\* write-once versioned feed whose consumers only move forward.
FeedSpec == Feed!Spec
=============================================================================
