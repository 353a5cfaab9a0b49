------------------------------- MODULE Regions -------------------------------
(***************************************************************************)
(* One region of the hub: platform administrators bind organizations to    *)
(* it, give them overlays, disable it, and every such command publishes    *)
(* the region's snapshot.                                                  *)
(*                                                                         *)
(* A command is one request handler; each of its SQL statements is a step, *)
(* so the handlers of several administrators interleave between the check  *)
(* a command makes and the write it makes after it.  Putting the snapshot  *)
(* in the mirror is one step here; SnapshotDistribution has its steps.     *)
(***************************************************************************)
EXTENDS RegionConfig

CONSTANTS
  Admins,       \* request handlers of the control plane
  Orgs,         \* the organizations, numbers from 1
  Bases,        \* configurations of the hub
  Payloads,     \* overlays an administrator may put
  MaxCommands,  \* bound on the commands
  MaxFaults     \* bound on the statements and uploads that fail

ASSUME RegionsAssumption ==
  /\ Orgs \subseteq Nat \ {0} /\ IsFiniteSet(Orgs)
  /\ MaxCommands \in Nat /\ MaxFaults \in Nat
  /\ NoOverlay \notin Payloads
  /\ \A c \in Bases \cup Payloads :
       /\ \A r \in c.routes : {"org", "model", "provider"} \subseteq DOMAIN r
       /\ \A r \in c.rest : {"org", "val"} \subseteq DOMAIN r

VARIABLES
  status,    \* regions.status
  member,    \* org_region_memberships of the region: its status by organization, or "none"
  overlay,   \* region_config_overlays of the region
  base,      \* the configuration LoadSnapshotSource reads
  pc,        \* the next step of each handler
  arg,       \* what its command is about
  loaded,    \* the configuration it has loaded
  seen,      \* the memberships it has read
  blob,      \* the snapshot the region's gateways are given
  commands,  \* commands begun
  faults,    \* failures so far
  mixed,     \* history: two commands have been under way at once since the last pause
  behind     \* history: one has failed, was mixed or found the region disabled since the last
             \* publish that ran alone

storeVars == <<status, member, overlay, base>>
localVars == <<arg, loaded, seen>>
histVars  == <<commands, faults, mixed, behind>>
vars == <<storeVars, pc, localVars, blob, histVars>>

Steps == {"idle", "upsertMember", "bindNext", "bindMember", "dropOverlay", "dropMember", "upsertOverlay",
          "renamed", "load", "members", "overlays"}
Statuses == {"active", "draining", "disabled"}
NoArg == [org |-> 0]

Init ==
  /\ status = "active" /\ member = [o \in Orgs |-> "none"] /\ overlay = [o \in Orgs |-> NoOverlay]
  /\ base \in Bases
  /\ pc = [a \in Admins |-> "idle"]
  /\ arg = [a \in Admins |-> NoArg]
  /\ loaded = [a \in Admins |-> NoOverlay] /\ seen = [a \in Admins |-> <<>>]
  /\ blob = NoOverlay
  /\ commands = 0 /\ faults = 0 /\ mixed = FALSE /\ behind = FALSE

Others(a) == \E b \in Admins \ {a} : pc[b] # "idle"

\* A command that has passed its checks goes on at a step.
Begin(a, step, what) ==
  /\ pc[a] = "idle" /\ commands < MaxCommands
  /\ pc' = [pc EXCEPT ![a] = step]
  /\ arg' = [arg EXCEPT ![a] = what]
  /\ commands' = commands + 1
  /\ mixed' = (mixed \/ Others(a))
  /\ behind' = (behind \/ Others(a))
  /\ UNCHANGED <<loaded, seen, blob, faults>>

Go(a, step) ==
  /\ pc' = [pc EXCEPT ![a] = step]
  /\ UNCHANGED <<localVars, blob, histVars>>

\* The handler answers; its locals are gone.
Return(a) ==
  /\ pc' = [pc EXCEPT ![a] = "idle"]
  /\ arg' = [arg EXCEPT ![a] = NoArg]
  /\ loaded' = [loaded EXCEPT ![a] = NoOverlay]
  /\ seen' = [seen EXCEPT ![a] = <<>>]
  /\ mixed' = (mixed /\ Others(a))

End(a) == Return(a) /\ UNCHANGED <<blob, commands, faults, behind>>

-----------------------------------------------------------------------------
(* Commands *)

\* BindOrgToRegion: refused while the region is disabled.
Bind(a, o, st) ==
  /\ status # "disabled"
  /\ Begin(a, "upsertMember", [org |-> o, status |-> st])
  /\ UNCHANGED storeVars

UpsertMember(a) ==
  /\ pc[a] = "upsertMember"
  /\ member' = [member EXCEPT ![arg[a].org] = arg[a].status]
  /\ Go(a, "load")
  /\ UNCHANGED <<status, overlay, base>>

\* BindAllOrganizations: BindOrgToRegion of one after the other; a refusal ends it without
\* a publish.
BindAll(a) ==
  /\ Begin(a, "bindNext", [left |-> Orgs])
  /\ UNCHANGED storeVars

BindNext(a) ==
  /\ pc[a] = "bindNext"
  /\ \/ arg[a].left = {} /\ Go(a, "load")
     \/ arg[a].left # {} /\ status = "disabled" /\ End(a)
     \/ arg[a].left # {} /\ status # "disabled" /\ Go(a, "bindMember")
  /\ UNCHANGED storeVars

BindMember(a) ==
  LET o == Min(arg[a].left) IN
  /\ pc[a] = "bindMember"
  /\ member' = [member EXCEPT ![o] = "active"]
  /\ arg' = [arg EXCEPT ![a].left = @ \ {o}]
  /\ pc' = [pc EXCEPT ![a] = "bindNext"]
  /\ UNCHANGED <<status, overlay, base, loaded, seen, blob, histVars>>

\* UnbindOrgFromRegion: the overlay, its error dropped, then the membership.
Unbind(a, o) ==
  /\ member[o] # "none"
  /\ Begin(a, "dropOverlay", [org |-> o])
  /\ UNCHANGED storeVars

DropOverlay(a) ==
  /\ pc[a] = "dropOverlay"
  /\ pc' = [pc EXCEPT ![a] = "dropMember"]
  /\ \/ /\ overlay' = [overlay EXCEPT ![arg[a].org] = NoOverlay]
        /\ UNCHANGED faults
     \/ /\ faults < MaxFaults
        /\ faults' = faults + 1
        /\ UNCHANGED overlay
  /\ UNCHANGED <<status, member, base, localVars, blob, commands, mixed, behind>>

\* Mutation: the command ends without a publish.
DropMemberQuietly(a) ==
  /\ pc[a] = "dropMember"
  /\ member' = [member EXCEPT ![arg[a].org] = "none"]
  /\ End(a)
  /\ UNCHANGED <<status, overlay, base>>

\* The membership may be gone by now: the command fails without a publish.
DropMember(a) ==
  /\ pc[a] = "dropMember"
  /\ member' = [member EXCEPT ![arg[a].org] = "none"]
  /\ IF member[arg[a].org] = "none" THEN End(a) ELSE Go(a, "load")
  /\ UNCHANGED <<status, overlay, base>>

\* PutOverlay: only for an organization actively bound.
PutOverlay(a, o, p) ==
  /\ member[o] = "active"
  /\ Begin(a, "upsertOverlay", [org |-> o, payload |-> p])
  /\ UNCHANGED storeVars

UpsertOverlay(a) ==
  /\ pc[a] = "upsertOverlay"
  /\ overlay' = [overlay EXCEPT ![arg[a].org] = arg[a].payload]
  /\ Go(a, "load")
  /\ UNCHANGED <<status, member, base>>

\* DeleteOverlay: no check, and no error when there is none.
DeleteOverlay(a, o) ==
  /\ Begin(a, "load", [org |-> o])
  /\ overlay' = [overlay EXCEPT ![o] = NoOverlay]
  /\ UNCHANGED <<status, member, base>>

\* UpdateRegion: the fields not given are those just read; nothing is published.
UpdateRegion(a, st) ==
  /\ Begin(a, "renamed", [status |-> IF st = "" THEN status ELSE st])
  /\ UNCHANGED storeVars

WriteRegion(a) ==
  /\ pc[a] = "renamed"
  /\ status' = arg[a].status
  /\ End(a)
  /\ UNCHANGED <<member, overlay, base>>

\* A change of the hub's configuration, which publishes every region.
ChangeBase(a, b) ==
  /\ b # base
  /\ base' = b
  /\ Begin(a, "load", NoArg)
  /\ UNCHANGED <<status, member, overlay>>

-----------------------------------------------------------------------------
(* The publish that ends a command *)

\* LoadSnapshotSource, before the regions are listed.
Load(a) ==
  /\ pc[a] = "load"
  /\ loaded' = [loaded EXCEPT ![a] = base]
  /\ pc' = [pc EXCEPT ![a] = "members"]
  /\ UNCHANGED <<storeVars, arg, seen, blob, histVars>>

\* A disabled region is passed over.
ReadMembers(a) ==
  /\ pc[a] = "members"
  /\ IF status = "disabled"
       THEN /\ Return(a)
            /\ behind' = TRUE
       ELSE /\ seen' = [seen EXCEPT ![a] = member]
            /\ pc' = [pc EXCEPT ![a] = "overlays"]
            /\ UNCHANGED <<arg, loaded, mixed, behind>>
  /\ UNCHANGED <<storeVars, blob, commands, faults>>

\* The overlays are read after the memberships; the snapshot of both is put.
PutRegion(a) ==
  /\ pc[a] = "overlays"
  /\ Return(a)
  /\ blob' = RegionSnapshot(loaded[a], seen[a], overlay)
  /\ behind' = (behind /\ mixed)
  /\ UNCHANGED <<storeVars, commands, faults>>

\* A statement or the upload fails, or the process dies: what is written stays.
Fail(a) ==
  /\ pc[a] # "idle" /\ faults < MaxFaults
  /\ faults' = faults + 1
  /\ Return(a)
  /\ behind' = TRUE
  /\ UNCHANGED <<storeVars, blob, commands>>

-----------------------------------------------------------------------------
Begins(a) ==
  \/ \E o \in Orgs, st \in {"active", "disabled"} : Bind(a, o, st)
  \/ BindAll(a)
  \/ \E o \in Orgs : Unbind(a, o) \/ DeleteOverlay(a, o)
  \/ \E o \in Orgs, p \in Payloads : PutOverlay(a, o, p)
  \/ \E st \in Statuses \cup {""} : UpdateRegion(a, st)
  \/ \E b \in Bases : ChangeBase(a, b)

Step(a) ==
  \/ UpsertMember(a) \/ BindNext(a) \/ BindMember(a) \/ DropOverlay(a) \/ DropMember(a)
  \/ UpsertOverlay(a) \/ WriteRegion(a) \/ Load(a) \/ ReadMembers(a) \/ PutRegion(a)

Command(a) == commands < MaxCommands /\ Begins(a)

Next == \E a \in Admins : Command(a) \/ Step(a) \/ Fail(a)

Spec == Init /\ [][Next]_vars

-----------------------------------------------------------------------------
(* Properties *)

\* Every variable holds what the tables and the handlers can hold.
TypeOK ==
  /\ status \in Statuses
  /\ member \in [Orgs -> {"none", "active", "disabled"}]
  /\ overlay \in [Orgs -> Payloads \cup {NoOverlay}]
  /\ base \in Bases
  /\ pc \in [Admins -> Steps]
  /\ loaded \in [Admins -> Bases \cup {NoOverlay}]
  /\ seen \in [Admins -> [Orgs -> {"none", "active", "disabled"}] \cup {<<>>}]
  /\ commands \in 0..MaxCommands /\ faults \in 0..MaxFaults
  /\ mixed \in BOOLEAN /\ behind \in BOOLEAN

Now == RegionSnapshot(base, member, overlay)
Active == {o \in Orgs : member[o] = "active"}

\* When no command is under way the gateways of the region are given exactly what the
\* tables say, unless a command since the last publish that ran alone has failed, overlapped
\* another or found the region disabled: no path through a command changes the tables
\* without the publish that makes it known, and whatever failures and overlaps have left
\* behind, the next publish that runs alone brings in.
Settled ==
  ~behind /\ (\A a \in Admins : pc[a] = "idle")
    => (blob = Now \/ (blob = NoOverlay /\ Active = {}))

\* An organization's overlay replaces its configuration and nothing else of it: its routes
\* and the rest are those of its overlay, or those of the hub if it has none, and its keys
\* are those of the hub whatever the overlay says.
OverlayReplaces ==
  \A o \in Active :
    LET Mine(rows, owned) == IF overlay[o] = NoOverlay THEN OfOrg(rows, o) ELSE owned IN
    /\ OfOrg(Now.snap.keys, o) = OfOrg(base.keys, o)
    /\ {<<r.model, r.provider>> : r \in RoutesOf(Now, o)} =
         {<<r.model, r.provider>> : r \in Mine(base.routes, overlay[o].routes)}
    /\ {r.val : r \in OfOrg(Now.snap.rest, o)} = {r.val : r \in Mine(base.rest, overlay[o].rest)}

\* What architecture.md says of an overlay, that it "replace[s] that org's gateway slice in
\* a region": the calls of an organization meet the same routes, providers and credentials
\* whatever overlays the other organizations have.
OverlayStaysHome ==
  \A o \in Active :
    Meets(Now, o) = Meets(RegionSnapshot(base, member,
                            [p \in Orgs |-> IF p = o THEN overlay[o] ELSE NoOverlay]), o)
=============================================================================
