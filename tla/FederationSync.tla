----------------------------- MODULE FederationSync -----------------------------
(***************************************************************************)
(* A regional control plane pulls its region from the hub.                 *)
(*                                                                         *)
(* The hub is SnapshotDistribution.  A puller (one RunPullLoop goroutine   *)
(* per regional control-plane process) reads its cursor, asks the hub for  *)
(* an export since that cursor, applies what it got and saves the export's *)
(* revision as the new cursor.  The hub builds the export with one read    *)
(* after another: the revision first, then memberships, overlays and a     *)
(* snapshot, while its own commands go on.  A pull may fail or its process *)
(* die at any step; the next tick starts again from the cursor.            *)
(*                                                                         *)
(* Memberships and overlays are both numbered by memb of the region, as in *)
(* SnapshotDistribution, but they are read and replaced one after another. *)
(***************************************************************************)
EXTENDS SnapshotDistribution

CONSTANTS
  Pullers,        \* pull loops of the regional control plane
  Region,         \* AFI_FEDERATION_REGION_SLUG
  MaxPullFailures \* bound: failed pulls

ASSUME FederationAssumption ==
  /\ Region \in Regions
  /\ MaxPullFailures \in Nat

VARIABLES
  cursor,     \* the regional sync state's cursor, 0 if there is none
  regMemb,    \* the regional memberships
  regOver,    \* the regional overlays
  regSnap,    \* the newest snapshot of the regional store
  stage,      \* stage[u]: the next step of puller u
  since,      \* since[u]: the cursor u pulls from
  export,     \* export[u]: what u has received of the hub's export
  pullFailures,
  announced,  \* history: the region's memb when the revision last moved
  dropped     \* history: what the last replace has lost a delete of

regionVars == <<cursor, regMemb, regOver, regSnap>>
pullVars   == <<stage, since, export, pullFailures>>
history    == <<announced, dropped>>
fedVars    == <<vars, regionVars, pullVars, history>>

Stages == {"idle", "revision", "memberships", "overlays", "snapshot", "tables",
           "applyMemberships", "applyOverlays", "applySnapshot", "save"}
Applying == {"applyMemberships", "applyOverlays", "applySnapshot", "save"}

Document == [revision : Nat, memb : Nat, over : Nat, base : Vector, next : Tables]
NoDocument == [revision |-> 0, memb |-> 0, over |-> 0, base |-> Zero, next |-> 1]

FedInit ==
  /\ Init
  /\ cursor = 0
  /\ regMemb = 0
  /\ regOver = 0
  /\ regSnap = Zero
  /\ stage = [u \in Pullers |-> "idle"]
  /\ since = [u \in Pullers |-> 0]
  /\ export = [u \in Pullers |-> NoDocument]
  /\ pullFailures = 0
  /\ announced = 0
  /\ dropped = {}

-----------------------------------------------------------------------------
(* The hub goes on as before *)

HubStep ==
  /\ \E p \in Publishers : PublisherStep(p)
  /\ announced' = IF revision' # revision THEN memb[Region] ELSE announced
  /\ UNCHANGED <<regionVars, pullVars, dropped>>

-----------------------------------------------------------------------------
(* The export *)

Goto(u, s) == stage' = [stage EXCEPT ![u] = s]

\* A tick of the pull loop: the cursor is read, the hub is asked.
BeginPull(u) ==
  /\ stage[u] = "idle"
  /\ since' = [since EXCEPT ![u] = cursor]
  /\ Goto(u, "revision")
  /\ UNCHANGED <<vars, regionVars, export, pullFailures, history>>

\* Mutation: an export that is one revision behind passes for unchanged.
UnchangedByOne(s, rev) == s > 0 /\ s + 1 >= rev

\* The export carries no data when the puller's cursor is the hub's revision.
Unchanged(s, rev) == s > 0 /\ s >= rev

\* The revision is read before any of the data it stands for.
ExportRevision(u) ==
  /\ stage[u] = "revision"
  /\ export' = [export EXCEPT ![u].revision = revision]
  /\ Goto(u, IF Unchanged(since[u], revision) THEN "save" ELSE "memberships")
  /\ UNCHANGED <<vars, regionVars, since, pullFailures, history>>

ExportMemberships(u) ==
  /\ stage[u] = "memberships"
  /\ export' = [export EXCEPT ![u].memb = memb[Region]]
  /\ Goto(u, "overlays")
  /\ UNCHANGED <<vars, regionVars, since, pullFailures, history>>

\* Mutation: the revision is read last, as the number of what was just read.
ExportOverlaysLate(u) ==
  /\ stage[u] = "overlays"
  /\ export' = [export EXCEPT ![u].over = memb[Region], ![u].revision = revision]
  /\ Goto(u, "snapshot")
  /\ UNCHANGED <<vars, regionVars, since, pullFailures, history>>

ExportOverlays(u) ==
  /\ stage[u] = "overlays"
  /\ export' = [export EXCEPT ![u].over = memb[Region]]
  /\ Goto(u, "snapshot")
  /\ UNCHANGED <<vars, regionVars, since, pullFailures, history>>

\* The newest object of the region's mirror, else a snapshot compiled on the spot.
\* Pointer and object are read at once: an object never changes and a pointer always
\* names one (PublishedIsImmutable, PointerNamesBlob).
ExportSnapshot(u) ==
  /\ stage[u] = "snapshot"
  /\ \/ \E b \in BlobAt(Region, latest[Region]) :
          /\ export' = [export EXCEPT ![u].base = b.base]
          /\ Goto(u, "applyMemberships")
     \/ /\ latest[Region] = 0
        /\ Goto(u, "tables")
        /\ UNCHANGED export
  /\ UNCHANGED <<vars, regionVars, since, pullFailures, history>>

\* The snapshot compiled for the export reads one table after another.
ExportTable(u) ==
  /\ stage[u] = "tables"
  /\ LET t == export[u].next
     IN  /\ export' = [export EXCEPT ![u].base[t] = rows[t],
                                     ![u].next = IF t = NTables THEN 1 ELSE t + 1]
         /\ IF t = NTables THEN Goto(u, "applyMemberships") ELSE UNCHANGED stage
  /\ UNCHANGED <<vars, regionVars, since, pullFailures, history>>

-----------------------------------------------------------------------------
(* The apply *)

\* Upserts the exported memberships, then deletes the others and their overlays; the errors
\* of the deletes are dropped, and an unbound organization may stay, with its overlay or
\* without.  Overlays some of which are gone count for no version.
ApplyMemberships(u) ==
  /\ stage[u] = "applyMemberships"
  /\ \/ regMemb' = export[u].memb /\ dropped' = dropped \ {"memberships"}
     \/ /\ regMemb # export[u].memb
        /\ dropped' = dropped \cup {"memberships"}
        /\ UNCHANGED regMemb
  /\ regOver' \in {regOver} \cup IF regMemb # export[u].memb THEN {0} ELSE {}
  /\ Goto(u, "applyOverlays")
  /\ UNCHANGED <<vars, cursor, regSnap, since, export, pullFailures, announced>>

ApplyOverlays(u) ==
  /\ stage[u] = "applyOverlays"
  /\ \/ regOver' = export[u].over /\ dropped' = dropped \ {"overlays"}
     \/ /\ regOver # export[u].over
        /\ dropped' = dropped \cup {"overlays"}
        /\ UNCHANGED regOver
  /\ Goto(u, "applySnapshot")
  /\ UNCHANGED <<vars, cursor, regMemb, regSnap, since, export, pullFailures, announced>>

\* The exported snapshot becomes the newest of the regional store.
ApplySnapshot(u) ==
  /\ stage[u] = "applySnapshot"
  /\ regSnap' = export[u].base
  /\ Goto(u, "save")
  /\ UNCHANGED <<vars, cursor, regMemb, regOver, since, export, pullFailures, history>>

\* The pull is over: its locals are gone.
EndPull(u) ==
  /\ Goto(u, "idle")
  /\ since' = [since EXCEPT ![u] = 0]
  /\ export' = [export EXCEPT ![u] = NoDocument]

\* Mutation: a pull that brought data saves the cursor it started from.
SaveCursorStale(u) ==
  /\ stage[u] = "save"
  /\ cursor' = since[u]
  /\ EndPull(u)
  /\ UNCHANGED <<vars, regMemb, regOver, regSnap, pullFailures, history>>

\* The export's revision becomes the cursor, with data or without.
SaveCursor(u) ==
  /\ stage[u] = "save"
  /\ cursor' = export[u].revision
  /\ EndPull(u)
  /\ UNCHANGED <<vars, regMemb, regOver, regSnap, pullFailures, history>>

\* A step fails or the process dies.  An apply that fails writes back the cursor it
\* started from; a dead process, or one that failed to reach the hub, writes nothing.
\* A replace goes row by row: what a half-done one leaves counts for no version (0).
Abandon(u) ==
  /\ stage[u] # "idle"
  /\ pullFailures < MaxPullFailures
  /\ pullFailures' = pullFailures + 1
  /\ \/ UNCHANGED cursor
     \/ stage[u] \in Applying /\ cursor' = since[u]
  /\ regMemb' \in {regMemb} \cup IF stage[u] = "applyMemberships" THEN {0} ELSE {}
  /\ regOver' \in {regOver} \cup IF stage[u] \in {"applyMemberships", "applyOverlays"} THEN {0} ELSE {}
  /\ EndPull(u)
  /\ UNCHANGED <<vars, regSnap, history>>

-----------------------------------------------------------------------------
PullStep(u) ==
  \/ BeginPull(u)
  \/ ExportRevision(u)
  \/ ExportMemberships(u)
  \/ ExportOverlays(u)
  \/ ExportSnapshot(u)
  \/ ExportTable(u)
  \/ ApplyMemberships(u)
  \/ ApplyOverlays(u)
  \/ ApplySnapshot(u)
  \/ SaveCursor(u)

FedNext == HubStep \/ \E u \in Pullers : PullStep(u) \/ Abandon(u)

Sync == FedInit /\ [][FedNext]_fedVars

\* A pull loop ticks forever and its steps end (AFI_FEDERATION_PULL_INTERVAL); the
\* hub's commands are not fair.
FairSync == Sync /\ \A u \in Pullers : WF_fedVars(PullStep(u))

-----------------------------------------------------------------------------
(* Properties *)

\* Every variable of the pull has its type, and the cursor is a revision the hub had.
FedTypeOK ==
  /\ cursor \in 0..revision
  /\ regMemb \in Nat
  /\ regOver \in Nat
  /\ regSnap \in Vector
  /\ stage \in [Pullers -> Stages]
  /\ since \in [Pullers -> 0..revision]
  /\ export \in [Pullers -> Document]
  /\ \A u \in Pullers : export[u].revision <= revision
  /\ pullFailures \in Nat
  /\ announced \in Nat /\ announced <= memb[Region]
  /\ dropped \subseteq {"memberships", "overlays"}

\* A region whose cursor is the hub's revision has every membership and overlay change
\* the revision stands for: the cursor never vouches for data that was read too early,
\* although the hub changes while it builds the export and an apply may stop half-way.
\* The one exception is what a dropped delete has left until the next full replace.
MembershipsHeld == "memberships" \in dropped \/ regMemb >= announced
OverlaysHeld    == "overlays" \in dropped \/ regOver >= announced

CursorMeansApplied ==
  cursor = revision /\ cursor > 0 => MembershipsHeld /\ OverlaysHeld

\* A region whose cursor is the hub's revision serves every acknowledged change of the
\* configuration.
CursorMeansConfigured ==
  cursor = revision /\ cursor > 0 => Within(acked, regSnap)

\* Once the hub's commands are over, the region ends at the hub's revision.
RegionCatchesUp == <>[](cursor = revision)
=============================================================================
