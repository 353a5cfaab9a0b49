------------------------------ MODULE RegionConfig ------------------------------
(***************************************************************************)
(* What the snapshot of one region is made of: the configuration of the    *)
(* hub, the organizations bound to the region and the overlays that take   *)
(* the place of their configuration there.                                 *)
(*                                                                         *)
(* Organizations are numbers, in the order their rows are listed in; 0 is  *)
(* the empty id.  "rest" is everything of an organization that the lookups *)
(* here do not tell apart: quotas, policies, hooks, MCP backends, A2A      *)
(* agents, the default retry and the object store.                         *)
(***************************************************************************)
EXTENDS Naturals, FiniteSets, FiniteSetsExt, Functions

NoOverlay    == [none |-> TRUE]
Unrestricted == {"*"}   \* AllowedOrganizationIDs = nil: no allowlist

OfOrg(rows, o) == {r \in rows : r.org = o}
Owned(rows, o) == {[r EXCEPT !.org = o] : r \in rows}

\* The slice of organization o: an assignment belongs to the owner of its credential.
IndexBaseByOrg(base, o) ==
  [keys   |-> OfOrg(base.keys, o),
   routes |-> OfOrg(base.routes, o),
   creds  |-> OfOrg(base.creds, o),
   binds  |-> {b \in base.binds : \E c \in OfOrg(base.creds, o) : c.id = b.cred},
   rest   |-> OfOrg(base.rest, o),
   names  |-> {}]

\* Mutation: what the overlay does not name is still inherited.
OverlayMerged(o, slice, payload) ==
  [keys |-> slice.keys, routes |-> slice.routes \cup Owned(payload.routes, o),
   creds |-> Owned(payload.creds, o), binds |-> payload.binds,
   rest |-> Owned(payload.rest, o), names |-> DOMAIN payload.providers]

\* Everything but the keys comes from the overlay, as rows of o; assignments as they are.
OverlayToSlice(o, slice, payload) ==
  [keys   |-> slice.keys,
   routes |-> Owned(payload.routes, o),
   creds  |-> Owned(payload.creds, o),
   binds  |-> payload.binds,
   rest   |-> Owned(payload.rest, o),
   names  |-> DOMAIN payload.providers]

\* The region's organizations: those with an active membership.
Bound(members) == {o \in DOMAIN members : members[o] = "active"}

Slice(base, overlays, o) ==
  IF overlays[o] = NoOverlay THEN IndexBaseByOrg(base, o)
  ELSE OverlayToSlice(o, IndexBaseByOrg(base, o), overlays[o])

\* Every provider of the hub, under the definition of the last overlay that has one.
ProvByID(base, overlays) ==
  LET Overlaid == {o \in DOMAIN overlays : overlays[o] # NoOverlay}
      Of(o)    == DOMAIN overlays[o].providers
      With(id) == {o \in Overlaid : id \in Of(o)}
  IN [id \in DOMAIN base.providers \cup UNION {Of(o) : o \in Overlaid} |->
        IF With(id) = {} THEN base.providers[id] ELSE overlays[Max(With(id))].providers[id]]

\* The providers a slice needs.
NeededProviders(slice) ==
  slice.names \cup {r.provider : r \in slice.routes} \cup UNION {r.fallbacks : r \in slice.routes}

\* The slices of the bound organizations, in listing order, and the providers they need.
BuildRegionSource(base, members, overlays) ==
  LET all == ProvByID(base, overlays)
      slices == [o \in Bound(members) |-> Slice(base, overlays, o)]
      needed == UNION {NeededProviders(slices[o]) : o \in Bound(members)}
  IN [slices |-> slices, providers |-> Restrict(all, needed \cap DOMAIN all)]

\* Rows kept in a map: of several with one key the last organization's stays.
LastRows(rows, key) ==
  UNION {{r \in rows[o] : \A p \in DOMAIN rows : \A q \in rows[p] : q[key] = r[key] => p <= o}
         : o \in DOMAIN rows}

Compile(src) ==
  LET All(kind) == UNION {src.slices[o][kind] : o \in DOMAIN src.slices}
  IN [keys        |-> All("keys"),
      routes      |-> All("routes"),
      rest        |-> All("rest"),
      credentials |-> LastRows([o \in DOMAIN src.slices |-> src.slices[o].creds], "id"),
      assignments |-> LastRows([o \in DOMAIN src.slices |-> src.slices[o].binds], "scope"),
      providers   |-> src.providers]

\* The allowlist is copied onto a nil slice: with nobody bound there is none.
CompileRegion(src, allowed) ==
  [snap |-> Compile(src), orgs |-> IF allowed = {} THEN Unrestricted ELSE allowed]

RegionSnapshot(base, members, overlays) ==
  CompileRegion(BuildRegionSource(base, members, overlays), Bound(members))

-----------------------------------------------------------------------------
(* What calls of an organization meet in a snapshot *)

RoutesOf(s, o) == OfOrg(s.snap.routes, o)

\* The routes of o with the definitions of their providers, and the credential bound to it.
Meets(s, o) ==
  [routes |-> {[route |-> r, by |-> [p \in ({r.provider} \cup r.fallbacks) \cap DOMAIN s.snap.providers
                                       |-> s.snap.providers[p]]] : r \in RoutesOf(s, o)},
   secrets |-> {c \in s.snap.credentials :
                  \E b \in s.snap.assignments : b.scope = o /\ b.cred = c.id}]
=============================================================================
