---------------------------- MODULE FederationProofs ----------------------------
(***************************************************************************)
(* What a cursor vouches for, proved for a regional control plane with one *)
(* pull loop and any hub: any number of publishers, tables and regions,    *)
(* with or without the mirror.  Then what the tokens of JoinTokens promise *)
(* for any number of administrators, peers, gateways and tokens.           *)
(***************************************************************************)
EXTENDS MCFederation, SnapshotDistributionProofs


USE DistributionAssumption, FederationAssumption DEF MembershipsHeld, OverlaysHeld

OnePuller == \A u, v \in Pullers : u = v

\* The stages in which an export that carries data is under way.
Exporting == {"memberships", "overlays", "snapshot", "tables"}
Carrying  == Exporting \cup {"applyMemberships", "applyOverlays", "applySnapshot"}

\* Types of the pull, without the bound of FedTypeOK on what an idle puller holds.
PullType ==
  /\ cursor \in Nat /\ regMemb \in Nat /\ regOver \in Nat
  /\ stage \in [Pullers -> Stages]
  /\ since \in [Pullers -> Nat]
  /\ export \in [Pullers -> Document]
  /\ announced \in Nat

\* Nothing is ahead of the hub.
Behind ==
  /\ cursor <= revision
  /\ \A u \in Pullers : export[u].revision <= revision
  /\ announced <= memb[Region]

\* A pull works from the cursor; one that carries data does so because the cursor was
\* behind the revision it read, or absent.
FromCursor ==
  \A u \in Pullers :
    /\ stage[u] # "idle" => since[u] = cursor
    /\ stage[u] \in Carrying => since[u] = 0 \/ since[u] < export[u].revision

\* As long as the hub's revision is the one the export carries, what was read after it
\* is as new as the revision says, before and after it is applied.
ReadAfterRevision ==
  \A u \in Pullers : export[u].revision = revision =>
    /\ stage[u] \in {"overlays", "snapshot", "tables", "applyMemberships"}
         => export[u].memb >= announced
    /\ stage[u] \in {"snapshot", "tables", "applyMemberships", "applyOverlays"}
         => export[u].over >= announced
    /\ stage[u] \in {"applyOverlays", "applySnapshot", "save"} => MembershipsHeld
    /\ stage[u] \in {"applySnapshot", "save"} => OverlaysHeld

FedIInv ==
  /\ TypeOK
  /\ PullType
  /\ Behind
  /\ FromCursor
  /\ ReadAfterRevision
  /\ CursorMeansApplied

\* Nothing is known and nothing has been pulled at the start.
LEMMA InitFed == FedInit => FedIInv
<1> SUFFICES ASSUME FedInit PROVE FedIInv
  OBVIOUS
<1>1. TypeOK
  BY InitType DEF FedInit
<1>2. NoDocument \in Document
  BY DEF NoDocument, Document, Zero, Vector, Tables
<1>3. PullType
  BY <1>2 DEF FedInit, PullType, Stages
<1>4. Behind
  BY DEF FedInit, Init, Behind, NoDocument
<1>5. FromCursor /\ ReadAfterRevision /\ CursorMeansApplied
  BY DEF FedInit, Init, FromCursor, ReadAfterRevision, CursorMeansApplied, Carrying, Exporting
<1> QED
  BY <1>1, <1>3, <1>4, <1>5 DEF FedIInv

\* A publisher moves the revision by one, and then leaves the region's data alone; a
\* region's data only moves forward.
LEMMA HubMoves ==
  ASSUME TypeOK, NEW p \in Publishers, PublisherStep(p)
  PROVE  /\ revision' = revision \/ (revision' = revision + 1 /\ memb' = memb)
         /\ memb[Region] <= memb'[Region]
<1>1. CASE \E r \in Regions : ChangeRegion(p, r)
  BY <1>1 DEF ChangeRegion, Begin, storeVars, TypeOK
<1>2. CASE EarlyBump(p) \/ FinalBump(p)
  BY <1>2 DEF EarlyBump, FinalBump, configVars, TypeOK
<1>3. CASE revision' = revision /\ memb' = memb
  BY <1>3 DEF TypeOK
<1> QED
  BY <1>1, <1>2, <1>3 DEF PublisherStep, ChangeConfig, Republish, Begin, ReadTable, InsertRow,
     CommitRow, PutBlob, PutPointer, ReadMembers, Fail, configVars, storeVars

\* The hub's own steps keep the invariant: a new revision makes every export and cursor
\* of the region old at once.
LEMMA HubStepFed ==
  ASSUME FedIInv, HubStep
  PROVE  FedIInv'
<1>1. PICK p \in Publishers : PublisherStep(p)
  BY DEF HubStep
<1>2. TypeOK' /\ revision \in Nat /\ memb[Region] \in Nat /\ memb'[Region] \in Nat
  BY <1>1, PublisherType DEF FedIInv, TypeOK
<1>3. /\ revision' = revision \/ (revision' = revision + 1 /\ memb' = memb)
      /\ memb[Region] <= memb'[Region]
  BY <1>1, HubMoves DEF FedIInv
<1>4. /\ announced' = IF revision' # revision THEN memb[Region] ELSE announced
      /\ UNCHANGED <<cursor, regMemb, regOver, stage, since, export, dropped>>
  BY DEF HubStep, regionVars, pullVars
<1>5. PullType'
  BY <1>2, <1>4 DEF FedIInv, PullType
<1>6. Behind'
  BY <1>2, <1>3, <1>4 DEF FedIInv, PullType, Behind, Document
<1>7. FromCursor'
  BY <1>4 DEF FedIInv, FromCursor
<1>8. CASE revision' = revision
  BY <1>2, <1>4, <1>5, <1>6, <1>7, <1>8
  DEF FedIInv, ReadAfterRevision, CursorMeansApplied
<1>9. CASE revision' = revision + 1
  <2>1. cursor # revision' /\ \A u \in Pullers : export[u].revision # revision'
    BY <1>2, <1>9 DEF FedIInv, Behind, PullType, Document
  <2> QED
    BY <1>2, <1>4, <1>5, <1>6, <1>7, <2>1
    DEF FedIInv, ReadAfterRevision, CursorMeansApplied
<1> QED
  BY <1>3, <1>8, <1>9

\* The pull touches nothing of the hub.
LEMMA PullFrame ==
  ASSUME NEW u \in Pullers, PullStep(u) \/ Abandon(u)
  PROVE  UNCHANGED <<vars, announced>>
BY DEF PullStep, Abandon, BeginPull, ExportRevision, ExportMemberships, ExportOverlays,
   ExportSnapshot, ExportTable, ApplyMemberships, ApplyOverlays, ApplySnapshot, SaveCursor, history

\* The pull's steps keep its types.
LEMMA PullTypes ==
  ASSUME TypeOK, PullType, NEW u \in Pullers, PullStep(u) \/ Abandon(u)
  PROVE  PullType'
<1> USE DEF PullType, Goto, history
<1>1. rows \in Vector /\ revision \in Nat /\ memb[Region] \in Nat
  BY DEF TypeOK
<1>2. NoDocument \in Document
  BY DEF NoDocument, Document, Zero, Vector, Tables
<1>3. CASE BeginPull(u)
  BY <1>3 DEF BeginPull, Stages, regionVars
<1>4. CASE ExportRevision(u)
  BY <1>1, <1>4 DEF ExportRevision, Stages, Document, regionVars
<1>5. CASE ExportMemberships(u)
  BY <1>1, <1>5 DEF ExportMemberships, Stages, Document, regionVars
<1>6. CASE ExportOverlays(u)
  BY <1>1, <1>6 DEF ExportOverlays, Stages, Document, regionVars
<1>7. CASE ExportSnapshot(u)
  <2>1. \A b \in BlobAt(Region, latest[Region]) : b.base \in Vector
    BY DEF BlobAt, TypeOK, Blob
  <2>2. export' \in [Pullers -> Document] /\ stage' \in [Pullers -> Stages]
    BY <1>7, <2>1 DEF ExportSnapshot, Stages, Document
  <2> QED
    BY <1>7, <2>2 DEF ExportSnapshot, regionVars
<1>8. CASE ExportTable(u)
  <2> DEFINE t == export[u].next
  <2>1. t \in Tables /\ export[u] \in Document
    BY DEF Document
  <2>2. [export[u].base EXCEPT ![t] = rows[t]] \in Vector
    BY <1>1, <2>1 DEF Vector, Document
  <2>3. (IF t = NTables THEN 1 ELSE t + 1) \in Tables
    BY <2>1 DEF Tables
  <2>4. export' = [export EXCEPT ![u] =
          [export[u] EXCEPT !.base = [export[u].base EXCEPT ![t] = rows[t]],
                            !.next = IF t = NTables THEN 1 ELSE t + 1]]
    BY <1>8, <2>1 DEF ExportTable, Document
  <2>5. [export[u] EXCEPT !.base = [export[u].base EXCEPT ![t] = rows[t]],
                          !.next = IF t = NTables THEN 1 ELSE t + 1] \in Document
    BY <2>1, <2>2, <2>3 DEF Document
  <2>6. export' \in [Pullers -> Document]
    BY <2>4, <2>5
  <2>7. stage' \in [Pullers -> Stages]
    BY <1>8 DEF ExportTable, Stages
  <2> QED
    BY <1>8, <2>6, <2>7 DEF ExportTable, regionVars
<1>9. CASE ApplyMemberships(u)
  BY <1>9 DEF ApplyMemberships, Stages, Document
<1>10. CASE ApplyOverlays(u)
  BY <1>10 DEF ApplyOverlays, Stages, Document
<1>11. CASE ApplySnapshot(u)
  BY <1>11 DEF ApplySnapshot, Stages, Document
<1>12. CASE SaveCursor(u)
  BY <1>2, <1>12 DEF SaveCursor, EndPull, Stages, Document
<1>13. CASE Abandon(u)
  BY <1>2, <1>13 DEF Abandon, EndPull, Stages, Document
<1> QED
  BY <1>3, <1>4, <1>5, <1>6, <1>7, <1>8, <1>9, <1>10, <1>11, <1>12, <1>13 DEF PullStep

\* What is left to show of a step of the only puller, which is about that puller.
LEMMA OnlyThisPuller ==
  ASSUME OnePuller, FedIInv, NEW u \in Pullers, PullStep(u) \/ Abandon(u),
         cursor' <= revision, export'[u].revision <= revision,
         stage'[u] # "idle" => since'[u] = cursor',
         stage'[u] \in Carrying => since'[u] = 0 \/ since'[u] < export'[u].revision,
         export'[u].revision = revision =>
           /\ stage'[u] \in {"overlays", "snapshot", "tables", "applyMemberships"}
                => export'[u].memb >= announced
           /\ stage'[u] \in {"snapshot", "tables", "applyMemberships", "applyOverlays"}
                => export'[u].over >= announced
           /\ stage'[u] \in {"applyOverlays", "applySnapshot", "save"}
                => "memberships" \in dropped' \/ regMemb' >= announced
           /\ stage'[u] \in {"applySnapshot", "save"}
                => "overlays" \in dropped' \/ regOver' >= announced,
         cursor' = revision /\ cursor' > 0 =>
           /\ "memberships" \in dropped' \/ regMemb' >= announced
           /\ "overlays" \in dropped' \/ regOver' >= announced
  PROVE  FedIInv'
<1>1. UNCHANGED vars /\ announced' = announced
  BY PullFrame
<1>2. revision' = revision /\ memb' = memb
  BY <1>1 DEF vars, configVars, storeVars
<1>3. TypeOK'
  BY <1>1 DEF FedIInv, TypeOK, vars, configVars, localVars, storeVars, gatewayVars
<1>4. PullType'
  BY PullTypes DEF FedIInv
<1>5. \A v \in Pullers : v = u
  BY DEF OnePuller
<1>6. Behind'
  BY <1>1, <1>2, <1>5 DEF FedIInv, Behind
<1>7. FromCursor'
  BY <1>5 DEF FromCursor
<1>8. ReadAfterRevision'
  BY <1>1, <1>2, <1>5 DEF ReadAfterRevision
<1>9. CursorMeansApplied'
  BY <1>1, <1>2 DEF CursorMeansApplied
<1> QED
  BY <1>3, <1>4, <1>6, <1>7, <1>8, <1>9 DEF FedIInv

\* Every step of the only puller keeps the invariant: the revision is read before the
\* data, the data is applied before the cursor, and an abandoned pull leaves the cursor.
LEMMA PullStepFed ==
  ASSUME OnePuller, FedIInv, NEW u \in Pullers, PullStep(u) \/ Abandon(u)
  PROVE  FedIInv'
<1> USE DEF Carrying, Exporting, Goto
<1>0. /\ cursor \in Nat /\ revision \in Nat /\ announced \in Nat /\ memb[Region] \in Nat
      /\ regMemb \in Nat /\ regOver \in Nat
      /\ since[u] \in Nat /\ export[u] \in Document /\ stage[u] \in Stages
      /\ stage \in [Pullers -> Stages] /\ since \in [Pullers -> Nat]
      /\ export \in [Pullers -> Document]
  BY DEF FedIInv, PullType, TypeOK
<1>1. cursor <= revision /\ export[u].revision <= revision /\ announced <= memb[Region]
  BY DEF FedIInv, Behind
<1>2. /\ stage[u] # "idle" => since[u] = cursor
      /\ stage[u] \in Carrying => since[u] = 0 \/ since[u] < export[u].revision
  BY DEF FedIInv, FromCursor
<1>3. export[u].revision = revision =>
        /\ stage[u] \in {"overlays", "snapshot", "tables", "applyMemberships"}
             => export[u].memb >= announced
        /\ stage[u] \in {"snapshot", "tables", "applyMemberships", "applyOverlays"}
             => export[u].over >= announced
        /\ stage[u] \in {"applyOverlays", "applySnapshot", "save"} => MembershipsHeld
        /\ stage[u] \in {"applySnapshot", "save"} => OverlaysHeld
  BY DEF FedIInv, ReadAfterRevision
<1>4. cursor = revision /\ cursor > 0 => MembershipsHeld /\ OverlaysHeld
  BY DEF FedIInv, CursorMeansApplied
<1>5. CASE BeginPull(u)
  <2>1. /\ stage'[u] = "revision" /\ since'[u] = cursor /\ export' = export
        /\ cursor' = cursor /\ regMemb' = regMemb /\ regOver' = regOver
        /\ dropped' = dropped
    BY <1>0, <1>5 DEF BeginPull, regionVars, history
  <2> QED
    BY <1>1, <1>3, <1>4, <1>5, <2>1, OnlyThisPuller DEF PullStep
<1>6. CASE ExportRevision(u)
  <2>1. /\ export'[u].revision = revision /\ since' = since
        /\ cursor' = cursor /\ regMemb' = regMemb /\ regOver' = regOver
        /\ dropped' = dropped
    BY <1>0, <1>6 DEF ExportRevision, regionVars, history, Document
  <2>2. since[u] = cursor
    BY <1>2, <1>6 DEF ExportRevision
  <2>3. CASE Unchanged(since[u], revision)
    <3>1. stage'[u] = "save" /\ cursor = revision /\ cursor > 0
      BY <1>0, <1>1, <1>6, <2>2, <2>3 DEF ExportRevision, Unchanged
    <3> QED
      BY <1>0, <1>1, <1>4, <1>6, <2>1, <2>2, <3>1, OnlyThisPuller DEF PullStep
  <2>4. CASE ~Unchanged(since[u], revision)
    <3>1. stage'[u] = "memberships" /\ (since[u] = 0 \/ since[u] < revision)
      BY <1>0, <1>6, <2>4 DEF ExportRevision, Unchanged
    <3> QED
      BY <1>0, <1>1, <1>4, <1>6, <2>1, <2>2, <3>1, OnlyThisPuller DEF PullStep
  <2> QED
    BY <2>3, <2>4
<1>7. CASE ExportMemberships(u)
  <2>1. /\ stage[u] = "memberships" /\ stage'[u] = "overlays" /\ since' = since
        /\ export'[u].memb = memb[Region] /\ export'[u].revision = export[u].revision
        /\ cursor' = cursor /\ regMemb' = regMemb /\ regOver' = regOver
        /\ dropped' = dropped
    BY <1>0, <1>7 DEF ExportMemberships, regionVars, history, Document
  <2> QED
    BY <1>0, <1>1, <1>2, <1>4, <1>7, <2>1, OnlyThisPuller DEF PullStep
<1>8. CASE ExportOverlays(u)
  <2>1. /\ stage[u] = "overlays" /\ stage'[u] = "snapshot" /\ since' = since
        /\ export'[u].over = memb[Region] /\ export'[u].revision = export[u].revision
        /\ export'[u].memb = export[u].memb
        /\ cursor' = cursor /\ regMemb' = regMemb /\ regOver' = regOver
        /\ dropped' = dropped
    BY <1>0, <1>8 DEF ExportOverlays, regionVars, history, Document
  <2> QED
    BY <1>0, <1>1, <1>2, <1>3, <1>4, <1>8, <2>1, OnlyThisPuller DEF PullStep
<1>9. CASE ExportSnapshot(u)
  <2>1. /\ stage[u] = "snapshot" /\ stage'[u] \in {"tables", "applyMemberships"}
        /\ since' = since /\ export'[u].revision = export[u].revision
        /\ export'[u].memb = export[u].memb /\ export'[u].over = export[u].over
        /\ cursor' = cursor /\ regMemb' = regMemb /\ regOver' = regOver
        /\ dropped' = dropped
    BY <1>0, <1>9 DEF ExportSnapshot, regionVars, history, Document
  <2> QED
    BY <1>1, <1>2, <1>3, <1>4, <1>9, <2>1, OnlyThisPuller DEF PullStep
<1>10. CASE ExportTable(u)
  <2>1. /\ stage[u] = "tables" /\ stage'[u] \in {"tables", "applyMemberships"}
        /\ since' = since /\ export'[u].revision = export[u].revision
        /\ export'[u].memb = export[u].memb /\ export'[u].over = export[u].over
        /\ cursor' = cursor /\ regMemb' = regMemb /\ regOver' = regOver
        /\ dropped' = dropped
    BY <1>0, <1>10 DEF ExportTable, regionVars, history, Document
  <2> QED
    BY <1>1, <1>2, <1>3, <1>4, <1>10, <2>1, OnlyThisPuller DEF PullStep
<1>11. CASE ApplyMemberships(u)
  <2>1. /\ stage[u] = "applyMemberships" /\ stage'[u] = "applyOverlays" /\ since' = since
        /\ export' = export /\ cursor' = cursor
        /\ regMemb' = export[u].memb \/ "memberships" \in dropped'
    BY <1>0, <1>11 DEF ApplyMemberships
  <2>2. ~(cursor = revision /\ cursor > 0)
    BY <1>0, <1>1, <1>2, <2>1 DEF Document
  <2> QED
    BY <1>1, <1>2, <1>3, <1>11, <2>1, <2>2, OnlyThisPuller DEF PullStep
<1>12. CASE ApplyOverlays(u)
  <2>1. /\ stage[u] = "applyOverlays" /\ stage'[u] = "applySnapshot" /\ since' = since
        /\ export' = export /\ cursor' = cursor /\ regMemb' = regMemb
        /\ regOver' = export[u].over \/ "overlays" \in dropped'
        /\ "memberships" \in dropped => "memberships" \in dropped'
    BY <1>0, <1>12 DEF ApplyOverlays
  <2>2. ~(cursor = revision /\ cursor > 0)
    BY <1>0, <1>1, <1>2, <2>1 DEF Document
  <2> QED
    BY <1>1, <1>2, <1>3, <1>12, <2>1, <2>2, OnlyThisPuller DEF PullStep
<1>13. CASE ApplySnapshot(u)
  <2>1. /\ stage[u] = "applySnapshot" /\ stage'[u] = "save" /\ since' = since
        /\ export' = export /\ cursor' = cursor /\ regMemb' = regMemb /\ regOver' = regOver
        /\ dropped' = dropped
    BY <1>0, <1>13 DEF ApplySnapshot, history
  <2> QED
    BY <1>1, <1>2, <1>3, <1>4, <1>13, <2>1, OnlyThisPuller DEF PullStep
<1>14. CASE SaveCursor(u)
  <2>1. /\ stage[u] = "save" /\ stage'[u] = "idle" /\ export'[u] = NoDocument
        /\ cursor' = export[u].revision /\ regMemb' = regMemb /\ regOver' = regOver
        /\ dropped' = dropped
    BY <1>0, <1>14 DEF SaveCursor, EndPull, history
  <2> QED
    BY <1>0, <1>1, <1>3, <1>14, <2>1, OnlyThisPuller DEF PullStep, NoDocument
<1>15. CASE Abandon(u)
  <2>1. cursor' = cursor
    BY <1>2, <1>15 DEF Abandon
  <2>2. stage'[u] = "idle" /\ export'[u] = NoDocument
    BY <1>0, <1>15 DEF Abandon, EndPull
  <2>3. CASE stage[u] \in {"applyMemberships", "applyOverlays"}
    <3>1. ~(cursor = revision /\ cursor > 0)
      BY <1>0, <1>1, <1>2, <2>3 DEF Document
    <3> QED
      BY <1>0, <1>1, <1>15, <2>1, <2>2, <3>1, OnlyThisPuller DEF NoDocument
  <2>4. CASE stage[u] \notin {"applyMemberships", "applyOverlays"}
    <3>1. regMemb' = regMemb /\ regOver' = regOver /\ dropped' = dropped
      BY <1>15, <2>4 DEF Abandon, history
    <3> QED
      BY <1>0, <1>1, <1>4, <1>15, <2>1, <2>2, <3>1, OnlyThisPuller DEF NoDocument
  <2> QED
    BY <2>3, <2>4
<1> QED
  BY <1>5, <1>6, <1>7, <1>8, <1>9, <1>10, <1>11, <1>12, <1>13, <1>14, <1>15 DEF PullStep

\* A regional control plane with one pull loop never holds a cursor that vouches for
\* memberships or overlays it has not applied, but for what a dropped delete has left.
THEOREM CursorIsHonest ==
  ASSUME OnePuller
  PROVE  Sync => []CursorMeansApplied
<1>1. FedIInv /\ [FedNext]_fedVars => FedIInv'
  <2> SUFFICES ASSUME FedIInv, [FedNext]_fedVars PROVE FedIInv'
    OBVIOUS
  <2>1. CASE UNCHANGED fedVars
    BY <2>1 DEF fedVars, vars, configVars, localVars, storeVars, gatewayVars, regionVars,
       pullVars, history, FedIInv, TypeOK, PullType, Behind, FromCursor, ReadAfterRevision,
       CursorMeansApplied
  <2> QED
    BY <2>1, HubStepFed, PullStepFed DEF FedNext
<1>2. FedIInv => CursorMeansApplied
  BY DEF FedIInv
<1> QED
  BY <1>1, <1>2, InitFed, PTL DEF Sync

-----------------------------------------------------------------------------
(* What a cursor vouches for in the snapshot *)

OnePublisher == \A p, q \in Publishers : p = q

\* Only a command that changed a table acknowledges something, and it publishes to
\* every region.
ChangesGoEverywhere == \A p \in Publishers : own[p] # 0 => only[p] = 0

\* The object the region's pointer names holds whatever is acknowledged.
MirrorHoldsAcked == \A b \in BlobAt(Region, latest[Region]) : Within(acked, b.base)

\* A command that has gone past the region on its way through all of them has left
\* the region's pointer at its own version.
RegionPointed ==
  \A p \in Publishers :
    /\ only[p] = 0
    /\ \/ pc[p] = "bump"
       \/ pc[p] \in {"members", "blob", "pointer"} /\ prefix[p] > Region
    => latest[Region] = version[p]

\* As long as the hub's revision is the one the export carries, the snapshot it carries
\* holds whatever is acknowledged: table by table, once it is read, once it is applied.
SnapshotReadAfterRevision ==
  \A u \in Pullers :
    /\ stage[u] # "tables" => export[u].next = 1
    /\ export[u].revision = revision =>
         /\ stage[u] = "tables" =>
              \A t \in Tables : t < export[u].next => acked[t] <= export[u].base[t]
         /\ stage[u] \in {"applyMemberships", "applyOverlays", "applySnapshot"} =>
              Within(acked, export[u].base)
         /\ stage[u] = "save" => Within(acked, regSnap)

ConfIInv ==
  /\ FedIInv
  /\ IInv
  /\ regSnap \in Vector
  /\ AckedCommitted
  /\ ChangesGoEverywhere
  /\ MirrorHoldsAcked
  /\ RegionPointed
  /\ SnapshotReadAfterRevision
  /\ CursorMeansConfigured

\* At the start nothing is acknowledged and nothing is pulled.
LEMMA InitConf == FedInit => ConfIInv
<1> SUFFICES ASSUME FedInit PROVE ConfIInv
  OBVIOUS
<1>1. FedIInv /\ IInv
  BY InitFed, InitIInv DEF FedInit
<1>2. regSnap \in Vector
  BY DEF FedInit, Zero, Vector
<1>3. AckedCommitted /\ ChangesGoEverywhere /\ MirrorHoldsAcked
  BY DEF FedInit, Init, AckedCommitted, ChangesGoEverywhere, MirrorHoldsAcked, BlobAt,
     Within, Zero
<1>4. RegionPointed
  BY DEF FedInit, Init, RegionPointed
<1>5. SnapshotReadAfterRevision /\ CursorMeansConfigured
  BY DEF FedInit, Init, SnapshotReadAfterRevision, CursorMeansConfigured, NoDocument
<1> QED
  BY <1>1, <1>2, <1>3, <1>4, <1>5 DEF ConfIInv

\* An object with the version a publisher is mirroring holds what that publisher's
\* command began with.
LEMMA MirrorsItsStart ==
  ASSUME IInv, NEW p \in Publishers, pc[p] \in Committed,
         NEW b \in blobs, b.version = version[p]
  PROVE  Within(began[p], b.base)
<1>1. PICK s \in snapshots : s.version = b.version /\ s.base = b.base
  BY DEF IInv, MirrorAgreesWithPrimary
<1>2. [version |-> version[p], base |-> base[p], began |-> began[p]] \in snapshots
  BY DEF IInv, CommittedRow
<1>3. s = [version |-> version[p], base |-> base[p], began |-> began[p]]
  BY <1>1, <1>2 DEF IInv, SerialUnique
<1>4. s.began = began[p]
  BY <1>3
<1> QED
  BY <1>1, <1>4 DEF IInv, SnapshotCoversItsStart

\* With the mirror a change is acknowledged by the last step of its command only.
LEMMA AckedMoves ==
  ASSUME MirrorOn, NEW p \in Publishers, PublisherStep(p)
  PROVE  acked' = acked \/ FinalBump(p)
BY DEF PublisherStep, ChangeConfig, ChangeRegion, Republish, Begin, EarlyBump, ReadTable,
   InsertRow, CommitRow, PutBlob, PutPointer, ReadMembers, Fail

\* What that step acknowledges is what its command began with.
LEMMA AckedIs ==
  ASSUME TypeOK, NEW p \in Publishers, FinalBump(p), NEW v \in Vector,
         Within(acked, v), own[p] # 0 => Within(began[p], v)
  PROVE  Within(acked', v)
BY SucceedAcks DEF FinalBump

\* A command starts from what is committed, and no other command acknowledges
\* anything before it ends.
LEMMA AckedCommittedStep ==
  ASSUME OnePublisher, MirrorOn, ConfIInv, NEW p \in Publishers, PublisherStep(p)
  PROVE  AckedCommitted'
<1>1. TypeOK /\ TypeOK'
  BY PublisherType DEF ConfIInv, IInv
<1>2. acked \in Vector /\ acked' \in Vector /\ rows \in Vector /\ rows' \in Vector
  BY <1>1 DEF TypeOK
<1>3. Within(rows, rows') /\ Within(acked, rows) /\ Within(acked, rows')
  <2>1. Within(rows, rows') /\ Within(acked, rows)
    BY <1>1, RowsGrow DEF ConfIInv, AckedCommitted
  <2> QED
    BY <1>2, <2>1, WithinTrans
<1>4. \A q \in Publishers : q = p
  BY DEF OnePublisher
<1>5. CASE FinalBump(p)
  <2>1. rows' = rows /\ pc'[p] = "idle"
    BY <1>1, <1>5 DEF FinalBump, configVars, Succeed, Return, TypeOK
  <2>2. Within(began[p], rows)
    BY <1>5 DEF ConfIInv, IInv, LoadedWindow, FinalBump
  <2>3. Within(acked', rows')
    BY <1>1, <1>2, <1>3, <1>5, <2>1, <2>2, AckedIs
  <2>4. \A q \in Publishers : pc'[q] = "idle"
    BY <1>4, <2>1
  <2>5. \A q \in Publishers : pc'[q] # "idle" => Within(acked', began'[q])
    BY <2>4
  <2> QED
    BY <2>3, <2>5 DEF AckedCommitted, Within
<1>6. CASE acked' = acked
  <2>1. ASSUME pc'[p] # "idle" PROVE Within(acked, began'[p])
    <3>1. CASE began'[p] = began[p] /\ pc[p] # "idle"
      BY <3>1 DEF ConfIInv, AckedCommitted
    <3>2. CASE began'[p] = rows'
      BY <1>3, <3>2
    <3>3. \/ began'[p] = began[p] /\ pc[p] # "idle"
          \/ began'[p] = rows'
          \/ pc'[p] = "idle"
      BY <1>1 DEF TypeOK, PublisherStep, ChangeConfig, ChangeRegion, Republish, Begin, EarlyBump,
         ReadTable, InsertRow, CommitRow, PutBlob, PutPointer, ReadMembers, FinalBump,
         Fail, Succeed, Return
    <3> QED
      BY <2>1, <3>1, <3>2, <3>3
  <2>2. \A q \in Publishers : pc'[q] # "idle" => Within(acked', began'[q])
    BY <1>4, <1>6, <2>1
  <2> QED
    BY <1>3, <1>6, <2>2 DEF AckedCommitted, Within
<1> QED
  BY <1>5, <1>6, AckedMoves

\* A command that changed a table publishes everywhere, from its first step to its last.
LEMMA ChangesGoEverywhereStep ==
  ASSUME TypeOK, ChangesGoEverywhere, NEW p \in Publishers, PublisherStep(p)
  PROVE  ChangesGoEverywhere'
<1> SUFFICES ASSUME NEW q \in Publishers PROVE own'[q] # 0 => only'[q] = 0
  BY DEF ChangesGoEverywhere
<1>1. CASE q # p
  BY <1>1, OthersUntouched DEF ChangesGoEverywhere
<1>2. CASE q = p
  <2>1. CASE \E t \in Tables : ChangeConfig(p, t)
    BY <1>2, <2>1 DEF ChangeConfig, Begin, TypeOK
  <2>2. CASE (\E r \in Regions : ChangeRegion(p, r)) \/ Republish(p)
    BY <1>2, <2>2 DEF ChangeRegion, Republish, Begin, TypeOK
  <2>3. CASE (own'[p] = own[p] /\ only'[p] = only[p]) \/ own'[p] = 0
    BY <1>2, <2>3 DEF ChangesGoEverywhere
  <2>4. \/ \E t \in Tables : ChangeConfig(p, t)
        \/ (\E r \in Regions : ChangeRegion(p, r)) \/ Republish(p)
        \/ (own'[p] = own[p] /\ only'[p] = only[p]) \/ own'[p] = 0
    BY DEF TypeOK, PublisherStep, EarlyBump, ReadTable, InsertRow, CommitRow, PutBlob,
       PutPointer, ReadMembers, FinalBump, Fail, Succeed, Return
  <2> QED
    BY <2>1, <2>2, <2>3, <2>4
<1> QED
  BY <1>1, <1>2

\* On its way through the regions, in listing order, a command leaves none out.
LEMMA RegionPointedStep ==
  ASSUME OnePublisher, TypeOK, PrefixReset, RegionPointed, NEW p \in Publishers, PublisherStep(p)
  PROVE  RegionPointed'
<1> SUFFICES ASSUME NEW q \in Publishers, only'[q] = 0,
                    \/ pc'[q] = "bump"
                    \/ pc'[q] \in {"members", "blob", "pointer"} /\ prefix'[q] > Region
             PROVE  latest'[Region] = version'[q]
  BY DEF RegionPointed
<1>1. q = p
  BY DEF OnePublisher
<1>2. /\ Region \in Regions /\ Region \in Int /\ Region > 0 /\ Region \in Prefixes
      /\ prefix[p] \in Int /\ Regions \subseteq Int
  BY DEF TypeOK, Regions, Prefixes
<1>3. CASE PutPointer(p)
  <2>1. /\ version'[p] = version[p] /\ only[p] = 0 /\ pc[p] = "pointer"
        /\ latest' = [latest EXCEPT ![prefix[p]] = version[p]]
    BY <1>1, <1>3 DEF PutPointer
  <2>2. CASE prefix[p] = Region
    BY <1>1, <1>2, <2>1, <2>2 DEF TypeOK
  <2>3. CASE prefix[p] > Region
    <3>1. latest[Region] = version[p]
      BY <2>1, <2>3 DEF RegionPointed
    <3> QED
      BY <1>1, <1>2, <2>1, <2>3, <3>1 DEF TypeOK
  <2>4. CASE prefix[p] < Region
    <3>1. Region \in Following(p)
      BY <1>2, <2>1, <2>4 DEF Following, Targets
    <3>2. pc'[p] = "members" /\ prefix'[p] <= Region
      BY <1>2, <1>3, <3>1 DEF PutPointer, TypeOK
    <3>3. Following(p) \subseteq Regions
      BY <2>1 DEF Following, Targets
    <3>4. prefix'[p] \in Int
      BY <1>2, <1>3, <3>1, <3>3 DEF PutPointer, TypeOK
    <3> QED
      BY <1>1, <1>2, <3>2, <3>4
  <2> QED
    BY <1>2, <2>2, <2>3, <2>4
<1>4. CASE CommitRow(p)
  <2>1. pc'[p] = "blob" \/ pc'[p] = "idle"
    BY <1>4 DEF CommitRow, Succeed, Return, TypeOK
  <2>2. prefix[p] = 0 /\ (prefix'[p] = prefix[p] \/ prefix'[p] = 0)
    BY <1>4 DEF CommitRow, Succeed, Return, PrefixReset, TypeOK
  <2> QED
    BY <1>1, <1>2, <2>1, <2>2
<1>5. CASE ReadMembers(p) \/ PutBlob(p)
  <2>1. /\ latest' = latest /\ version' = version /\ prefix' = prefix /\ only' = only
        /\ pc[p] \in {"members", "blob"} /\ pc'[p] \in {"blob", "pointer"}
    BY <1>5 DEF ReadMembers, PutBlob, storeVars, TypeOK
  <2> QED
    BY <1>1, <2>1 DEF RegionPointed
<1>6. ~PutPointer(p) /\ ~CommitRow(p) /\ ~ReadMembers(p) /\ ~PutBlob(p)
        => pc'[p] \notin {"bump", "members", "blob", "pointer"}
  BY DEF TypeOK, PublisherStep, ChangeConfig, ChangeRegion, Republish, Begin, EarlyBump,
     ReadTable, InsertRow, FinalBump, Fail, Succeed, Return
<1> QED
  BY <1>1, <1>3, <1>4, <1>5, <1>6

\* The region's pointer is moved to an object of the command that moves it, and an
\* object is compiled from what its command began with.
LEMMA MirrorHoldsAckedStep ==
  ASSUME MirrorOn, ConfIInv, NEW p \in Publishers, PublisherStep(p)
  PROVE  MirrorHoldsAcked'
<1>1. TypeOK /\ MirrorProgress /\ Region \in Regions /\ Region \in Prefixes
  BY DEF ConfIInv, IInv, Regions, Prefixes
<1>2. /\ acked \in Vector /\ began[p] \in Vector /\ base[p] \in Vector
      /\ \A b \in blobs : b.base \in Vector
  BY <1>1 DEF TypeOK, Blob
<1>3. pc[p] # "idle" => Within(acked, began[p])
  BY DEF ConfIInv, AckedCommitted
<1>4. pc[p] \in Committed =>
        \A b \in blobs : b.version = version[p] => Within(began[p], b.base)
  BY MirrorsItsStart DEF ConfIInv
<1> SUFFICES ASSUME NEW b \in BlobAt(Region, latest[Region])' PROVE Within(acked', b.base)
  BY DEF MirrorHoldsAcked
<1>5. b \in blobs' /\ b.prefix = Region /\ b.version = latest'[Region]
  BY DEF BlobAt
<1>6. CASE PutBlob(p)
  <2>1. /\ latest' = latest /\ acked' = acked /\ pc[p] = "blob"
        /\ blobs' = blobs \cup {[prefix |-> prefix[p], version |-> version[p],
                                 base |-> base[p], members |-> members[p]]}
    BY <1>1, <1>6, PutBlobAdds DEF PutBlob
  <2>2. Within(began[p], base[p])
    BY <2>1 DEF ConfIInv, IInv, LoadedWindow, Loaded
  <2>3. Within(acked, base[p])
    BY <1>2, <1>3, <2>1, <2>2, WithinTrans
  <2>4. CASE b \in blobs
    BY <1>5, <2>1, <2>4 DEF ConfIInv, MirrorHoldsAcked, BlobAt
  <2>5. CASE b = [prefix |-> prefix[p], version |-> version[p],
                  base |-> base[p], members |-> members[p]]
    <3>1. b.base = base[p]
      BY <2>5
    <3> QED
      BY <2>1, <2>3, <3>1
  <2> QED
    BY <1>5, <2>1, <2>4, <2>5
<1>7. CASE PutPointer(p)
  <2>1. /\ latest' = [latest EXCEPT ![prefix[p]] = version[p]] /\ acked' = acked
        /\ pc[p] = "pointer" /\ blobs' = blobs
    BY <1>7 DEF PutPointer
  <2>2. CASE prefix[p] = Region
    <3>1. b.version = version[p]
      BY <1>1, <1>5, <2>1, <2>2 DEF TypeOK
    <3>2. Within(began[p], b.base)
      BY <1>4, <1>5, <2>1, <3>1 DEF Committed
    <3> QED
      BY <1>2, <1>3, <1>5, <2>1, <3>2, WithinTrans
  <2>3. CASE prefix[p] # Region
    <3>1. latest'[Region] = latest[Region]
      BY <1>1, <2>1, <2>3 DEF TypeOK
    <3> QED
      BY <1>5, <2>1, <3>1 DEF ConfIInv, MirrorHoldsAcked, BlobAt
  <2> QED
    BY <2>2, <2>3
<1>8. CASE FinalBump(p)
  <2>1. latest' = latest /\ blobs' = blobs /\ pc[p] = "bump"
    BY <1>8 DEF FinalBump
  <2>2. b \in blobs /\ Within(acked, b.base)
    BY <1>5, <2>1 DEF ConfIInv, MirrorHoldsAcked, BlobAt
  <2>3. ASSUME own[p] # 0 PROVE Within(began[p], b.base)
    <3>1. latest[Region] = version[p]
      BY <2>1, <2>3 DEF ConfIInv, ChangesGoEverywhere, RegionPointed
    <3> QED
      BY <1>4, <1>5, <2>1, <3>1 DEF Committed
  <2> QED
    BY <1>1, <1>2, <1>8, <2>2, <2>3, AckedIs
<1>9. CASE ~PutBlob(p) /\ ~PutPointer(p) /\ ~FinalBump(p)
  <2>1. blobs' = blobs /\ acked' = acked
    BY <1>9, BlobsKept, AckedMoves
  <2>2. latest' = latest
    BY <1>9 DEF PublisherStep, ChangeConfig, ChangeRegion, Republish, Begin, EarlyBump,
       ReadTable, InsertRow, CommitRow, ReadMembers, Fail, storeVars
  <2> QED
    BY <1>5, <2>1, <2>2 DEF ConfIInv, MirrorHoldsAcked, BlobAt
<1> QED
  BY <1>6, <1>7, <1>8, <1>9

\* The hub's own steps keep the invariant: a change is acknowledged together with a
\* revision no export and no cursor carries yet.
LEMMA HubStepConf ==
  ASSUME OnePublisher, MirrorOn, ConfIInv, HubStep
  PROVE  ConfIInv'
<1>1. PICK p \in Publishers : PublisherStep(p)
  BY DEF HubStep
<1>2. FedIInv' /\ IInv'
  BY <1>1, HubStepFed, NextIInv DEF ConfIInv, Next
<1>3. AckedCommitted' /\ MirrorHoldsAcked'
  BY <1>1, AckedCommittedStep, MirrorHoldsAckedStep
<1>4. ChangesGoEverywhere' /\ RegionPointed'
  BY <1>1, ChangesGoEverywhereStep, RegionPointedStep DEF ConfIInv, IInv
<1>5. UNCHANGED <<cursor, regSnap, stage, export>>
  BY DEF HubStep, regionVars, pullVars
<1>6. regSnap' \in Vector
  BY <1>5 DEF ConfIInv
<1>7. revision \in Nat /\ cursor <= revision /\ cursor \in Nat
      /\ \A u \in Pullers : export[u].revision <= revision /\ export[u].revision \in Nat
  BY DEF ConfIInv, FedIInv, TypeOK, PullType, Behind, Document
<1>8. CASE acked' = acked
  <2>1. revision' = revision \/ revision' = revision + 1
    BY <1>1, HubMoves DEF ConfIInv, IInv
  <2>2. /\ cursor' = revision' => cursor = revision
        /\ \A u \in Pullers : export'[u].revision = revision' => export[u].revision = revision
    BY <1>5, <1>7, <2>1
  <2>3. SnapshotReadAfterRevision'
    BY <1>5, <1>8, <2>2 DEF ConfIInv, SnapshotReadAfterRevision, Within
  <2>4. CursorMeansConfigured'
    BY <1>5, <1>8, <2>2 DEF ConfIInv, CursorMeansConfigured, Within
  <2> QED
    BY <1>2, <1>3, <1>4, <1>6, <2>3, <2>4 DEF ConfIInv
<1>9. CASE FinalBump(p)
  <2>1. revision' = revision + 1
    BY <1>9 DEF FinalBump
  <2>2. cursor' # revision' /\ \A u \in Pullers : export'[u].revision # revision'
    BY <1>5, <1>7, <2>1
  <2>3. SnapshotReadAfterRevision' /\ CursorMeansConfigured'
    BY <1>5, <2>2 DEF ConfIInv, SnapshotReadAfterRevision, CursorMeansConfigured
  <2> QED
    BY <1>2, <1>3, <1>4, <1>6, <2>3 DEF ConfIInv
<1> QED
  BY <1>1, <1>8, <1>9, AckedMoves

\* What is left to show of a step of the only puller.
LEMMA OnlyThisPullerConf ==
  ASSUME OnePuller, ConfIInv, NEW u \in Pullers, PullStep(u) \/ Abandon(u),
         regSnap' \in Vector,
         stage'[u] # "tables" => export'[u].next = 1,
         export'[u].revision = revision =>
           /\ stage'[u] = "tables" =>
                \A t \in Tables : t < export'[u].next => acked[t] <= export'[u].base[t]
           /\ stage'[u] \in {"applyMemberships", "applyOverlays", "applySnapshot"} =>
                Within(acked, export'[u].base)
           /\ stage'[u] = "save" => Within(acked, regSnap'),
         cursor' = revision /\ cursor' > 0 => Within(acked, regSnap')
  PROVE  ConfIInv'
<1>1. UNCHANGED vars
  BY PullFrame
<1>2. UNCHANGED <<configVars, localVars, storeVars, gatewayVars, acked>>
  BY <1>1 DEF vars
<1>3. FedIInv' /\ IInv'
  BY <1>1, PullStepFed, NextIInv DEF ConfIInv
<1>4. AckedCommitted' /\ ChangesGoEverywhere' /\ RegionPointed'
  BY <1>2 DEF ConfIInv, AckedCommitted, ChangesGoEverywhere, RegionPointed, Within,
     configVars, localVars, storeVars
<1>5. MirrorHoldsAcked'
  BY <1>2 DEF ConfIInv, MirrorHoldsAcked, BlobAt, Within, storeVars
<1>6. acked' = acked /\ revision' = revision
  BY <1>2 DEF storeVars
<1>7. \A v \in Pullers : v = u
  BY DEF OnePuller
<1>8. SnapshotReadAfterRevision'
  BY <1>6, <1>7 DEF SnapshotReadAfterRevision, Within
<1>9. CursorMeansConfigured'
  BY <1>6 DEF CursorMeansConfigured, Within
<1> QED
  BY <1>3, <1>4, <1>5, <1>8, <1>9 DEF ConfIInv

\* Every step of the only puller keeps the invariant: the mirror's object and the tables
\* are read after the revision, and the snapshot is applied before the cursor is saved.
LEMMA PullStepConf ==
  ASSUME OnePuller, ConfIInv, NEW u \in Pullers, PullStep(u) \/ Abandon(u)
  PROVE  ConfIInv'
<1> USE DEF Goto
<1>0. /\ cursor \in Nat /\ revision \in Nat /\ acked \in Vector /\ rows \in Vector
      /\ export[u] \in Document /\ stage[u] \in Stages /\ regSnap \in Vector
      /\ stage \in [Pullers -> Stages] /\ since \in [Pullers -> Nat]
      /\ export \in [Pullers -> Document]
  BY DEF ConfIInv, FedIInv, PullType, TypeOK
<1>1. cursor <= revision /\ export[u].revision <= revision /\ export[u].revision \in Nat
  BY <1>0 DEF ConfIInv, FedIInv, Behind, Document
<1>2. /\ stage[u] # "idle" => since[u] = cursor
      /\ stage[u] \in Carrying => since[u] = 0 \/ since[u] < export[u].revision
  BY DEF ConfIInv, FedIInv, FromCursor
<1>3. /\ stage[u] # "tables" => export[u].next = 1
      /\ export[u].revision = revision =>
           /\ stage[u] = "tables" =>
                \A t \in Tables : t < export[u].next => acked[t] <= export[u].base[t]
           /\ stage[u] \in {"applyMemberships", "applyOverlays", "applySnapshot"} =>
                Within(acked, export[u].base)
           /\ stage[u] = "save" => Within(acked, regSnap)
  BY DEF ConfIInv, SnapshotReadAfterRevision
<1>4. cursor = revision /\ cursor > 0 => Within(acked, regSnap)
  BY DEF ConfIInv, CursorMeansConfigured
<1>5. Within(acked, rows)
  BY DEF ConfIInv, AckedCommitted
<1>6. CASE BeginPull(u)
  <2>1. /\ stage[u] = "idle" /\ stage'[u] = "revision" /\ export' = export
        /\ cursor' = cursor /\ regSnap' = regSnap
    BY <1>0, <1>6 DEF BeginPull, regionVars
  <2> QED
    BY <1>0, <1>3, <1>4, <1>6, <2>1, OnlyThisPullerConf DEF PullStep
<1>7. CASE ExportRevision(u)
  <2>1. /\ stage[u] = "revision" /\ export'[u].revision = revision
        /\ export'[u].next = export[u].next /\ cursor' = cursor /\ regSnap' = regSnap
        /\ stage'[u] = IF Unchanged(since[u], revision) THEN "save" ELSE "memberships"
    BY <1>0, <1>7 DEF ExportRevision, regionVars, Document
  <2>2. ASSUME stage'[u] = "save" PROVE Within(acked, regSnap)
    BY <1>0, <1>1, <1>2, <1>4, <2>1, <2>2 DEF Unchanged
  <2>3. stage'[u] \in {"save", "memberships"}
    BY <2>1
  <2> QED
    BY <1>0, <1>3, <1>4, <1>7, <2>1, <2>2, <2>3, OnlyThisPullerConf DEF PullStep
<1>8. CASE ExportMemberships(u) \/ ExportOverlays(u)
  <2>1. /\ stage[u] # "tables" /\ stage'[u] \in {"overlays", "snapshot"}
        /\ export'[u].next = export[u].next /\ cursor' = cursor /\ regSnap' = regSnap
    BY <1>0, <1>8 DEF ExportMemberships, ExportOverlays, regionVars, Document
  <2> QED
    BY <1>0, <1>3, <1>4, <1>8, <2>1, OnlyThisPullerConf DEF PullStep
<1>9. CASE ExportSnapshot(u)
  <2>1. /\ stage[u] = "snapshot" /\ export'[u].next = export[u].next
        /\ cursor' = cursor /\ regSnap' = regSnap
        /\ \/ stage'[u] = "tables"
           \/ /\ stage'[u] = "applyMemberships"
              /\ \E b \in BlobAt(Region, latest[Region]) : export'[u].base = b.base
    BY <1>0, <1>9 DEF ExportSnapshot, regionVars, Document
  <2>2. \A b \in BlobAt(Region, latest[Region]) : Within(acked, b.base)
    BY DEF ConfIInv, MirrorHoldsAcked
  <2>3. stage'[u] = "applyMemberships" => Within(acked, export'[u].base)
    BY <2>1, <2>2
  <2>4. export'[u].next = 1 /\ \A t \in Tables : ~(t < 1)
    BY <1>3, <2>1 DEF Tables
  <2>5. stage'[u] \in {"tables", "applyMemberships"}
    BY <2>1
  <2>6. \A t \in Tables : t < export'[u].next => acked[t] <= export'[u].base[t]
    BY <2>4
  <2> QED
    BY <1>0, <1>4, <1>9, <2>1, <2>3, <2>4, <2>5, <2>6, OnlyThisPullerConf DEF PullStep
<1>10. CASE ExportTable(u)
  <2> DEFINE n == export[u].next
             read == [export[u].base EXCEPT ![n] = rows[n]]
  <2>1. n \in Tables /\ export[u].base \in Vector /\ export[u] \in Document
    BY <1>0 DEF Document
  <2>2. export' = [export EXCEPT ![u] =
          [export[u] EXCEPT !.base = [export[u].base EXCEPT ![n] = rows[n]],
                            !.next = IF n = NTables THEN 1 ELSE n + 1]]
    BY <1>0, <1>10, <2>1 DEF ExportTable, Document
  <2>3. /\ export'[u].base = read /\ export'[u].revision = export[u].revision
        /\ export'[u].next = IF n = NTables THEN 1 ELSE n + 1
    BY <1>0, <2>1, <2>2 DEF Document
  <2>4. /\ stage[u] = "tables" /\ cursor' = cursor /\ regSnap' = regSnap
        /\ stage'[u] = IF n = NTables THEN "applyMemberships" ELSE "tables"
    BY <1>0, <1>10 DEF ExportTable, regionVars
  <2>5. n \in 1..NTables /\ NTables \in Nat
    BY <2>1 DEF Tables
  <2>6. ASSUME export[u].revision = revision, NEW t \in Tables, t < n + 1
        PROVE  acked[t] <= read[t]
    <3>1. CASE t = n
      BY <1>5, <2>1, <3>1 DEF Vector, Within
    <3>2. CASE t # n
      <4>1. t < n
        BY <2>5, <2>6, <3>2 DEF Tables
      <4> QED
        BY <1>3, <2>1, <2>4, <2>6, <3>2, <4>1 DEF Vector
    <3> QED
      BY <3>1, <3>2
  <2>7. CASE n = NTables
    <3>1. stage'[u] = "applyMemberships" /\ export'[u].next = 1
      BY <2>3, <2>4, <2>7
    <3>2. \A t \in Tables : t < n + 1
      BY <2>5, <2>7 DEF Tables
    <3>3. export[u].revision = revision => Within(acked, export'[u].base)
      BY <2>3, <2>6, <3>2 DEF Within
    <3> QED
      BY <1>0, <1>4, <1>10, <2>3, <2>4, <3>1, <3>3, OnlyThisPullerConf DEF PullStep
  <2>8. CASE n # NTables
    <3>1. stage'[u] = "tables" /\ export'[u].next = n + 1
      BY <2>3, <2>4, <2>8
    <3>2. export[u].revision = revision =>
            \A t \in Tables : t < export'[u].next => acked[t] <= export'[u].base[t]
      BY <2>3, <2>6, <3>1
    <3> QED
      BY <1>0, <1>4, <1>10, <2>3, <2>4, <3>1, <3>2, OnlyThisPullerConf DEF PullStep
  <2> QED
    BY <2>7, <2>8
<1>11. CASE ApplyMemberships(u) \/ ApplyOverlays(u)
  <2>1. /\ stage[u] \in {"applyMemberships", "applyOverlays"}
        /\ stage'[u] \in {"applyOverlays", "applySnapshot"}
        /\ export' = export /\ cursor' = cursor /\ regSnap' = regSnap
    BY <1>0, <1>11 DEF ApplyMemberships, ApplyOverlays
  <2> QED
    BY <1>0, <1>3, <1>4, <1>11, <2>1, OnlyThisPullerConf DEF PullStep
<1>12. CASE ApplySnapshot(u)
  <2>1. /\ stage[u] = "applySnapshot" /\ stage'[u] = "save"
        /\ export' = export /\ cursor' = cursor /\ regSnap' = export[u].base
    BY <1>0, <1>12 DEF ApplySnapshot
  <2>2. ~(cursor = revision /\ cursor > 0)
    BY <1>0, <1>1, <1>2, <2>1 DEF Carrying, Exporting
  <2>3. export[u].base \in Vector
    BY <1>0 DEF Document
  <2> QED
    BY <1>3, <1>12, <2>1, <2>2, <2>3, OnlyThisPullerConf DEF PullStep
<1>13. CASE SaveCursor(u) \/ Abandon(u)
  <2>1. /\ stage'[u] = "idle" /\ export'[u] = NoDocument /\ regSnap' = regSnap
    BY <1>0, <1>13 DEF SaveCursor, Abandon, EndPull
  <2>2. cursor' = cursor \/ (stage[u] = "save" /\ cursor' = export[u].revision)
    BY <1>2, <1>13 DEF SaveCursor, Abandon
  <2>3. cursor' = revision /\ cursor' > 0 => Within(acked, regSnap)
    BY <1>3, <1>4, <2>2
  <2> QED
    BY <1>0, <1>13, <2>1, <2>3, OnlyThisPullerConf DEF PullStep, NoDocument
<1> QED
  BY <1>6, <1>7, <1>8, <1>9, <1>10, <1>11, <1>12, <1>13 DEF PullStep

\* A regional control plane with one pull loop, under a hub that mirrors its snapshots
\* and handles one command at a time, never holds a cursor that vouches for a change it
\* does not serve.  With two commands at once it may: the older one can be the last to
\* move the region's pointer.
THEOREM CursorVouchesForSnapshot ==
  ASSUME OnePuller, OnePublisher, MirrorOn
  PROVE  Sync => []CursorMeansConfigured
<1>1. ConfIInv /\ [FedNext]_fedVars => ConfIInv'
  <2> SUFFICES ASSUME ConfIInv, [FedNext]_fedVars PROVE ConfIInv'
    OBVIOUS
  <2>1. CASE UNCHANGED fedVars
    <3>1. UNCHANGED <<vars, regionVars, pullVars, history>>
      BY <2>1 DEF fedVars
    <3>2. IInv'
      BY <3>1, NextIInv DEF ConfIInv
    <3>3. FedIInv'
      BY <3>1 DEF vars, configVars, localVars, storeVars, gatewayVars, regionVars,
         pullVars, history, ConfIInv, FedIInv, TypeOK, PullType, Behind, FromCursor,
         ReadAfterRevision, CursorMeansApplied
    <3>4. AckedCommitted' /\ ChangesGoEverywhere' /\ RegionPointed' /\ MirrorHoldsAcked'
      BY <3>1 DEF vars, configVars, localVars, storeVars, ConfIInv, AckedCommitted,
         ChangesGoEverywhere, RegionPointed, MirrorHoldsAcked, BlobAt, Within
    <3>5. SnapshotReadAfterRevision' /\ CursorMeansConfigured' /\ regSnap' \in Vector
      BY <3>1 DEF vars, storeVars, regionVars, pullVars, ConfIInv,
         SnapshotReadAfterRevision, CursorMeansConfigured, Within
    <3> QED
      BY <3>2, <3>3, <3>4, <3>5 DEF ConfIInv
  <2> QED
    BY <2>1, HubStepConf, PullStepConf DEF FedNext
<1>2. ConfIInv => CursorMeansConfigured
  BY DEF ConfIInv
<1> QED
  BY <1>1, <1>2, InitConf, PTL DEF Sync

-----------------------------------------------------------------------------
(* JoinTokens: the inductive invariant *)

\* The token a handler carries that no row has yet, 0 without one.
Minting == {"createPeer", "rehash", "insertDeployment", "rehashDeployment"}
Carried(h) == IF adminStep[h] \in Minting THEN cmd[h].token ELSE 0

\* The token an owner's row is known by, 0 without a row.
Known(o) == IF o \in Peers THEN IF peers[o] = None THEN 0 ELSE peers[o].hash
            ELSE IF deployments[o] = None THEN 0 ELSE deployments[o].hash

PeerRecord ==
  [region : Slugs, status : J!Statuses, hash : Nat \ {0}, enc : Nat, cursor : Nat]
DeploymentRecord == [region : Slugs, status : {"pending", "healthy"}, hash : Nat \ {0}]

JoinTypes ==
  /\ peers \in [Peers -> PeerRecord \cup {None}]
  /\ deployments \in [Deployments -> DeploymentRecord \cup {None}]
  /\ minted \in Nat /\ peerRevision \in Nat /\ faults \in Nat
  /\ adminStep = [h \in J!Handlers |-> adminStep[h]]
  /\ cmd = [h \in J!Handlers |-> cmd[h]]

\* What a handler knows when it comes to a step, and who may come there.
About(h) ==
  LET step == adminStep[h]
      id == cmd[h].id
  IN
  /\ h \in Admins => step \in Minting \cup {"idle", "seal", "writePeer"}
  /\ h \in Peers => step \in {"idle", "activate", "export", "record"}
  /\ h \in Deployments => step \in {"idle", "heartbeat"}
  /\ step = "idle" => id = None
  /\ h \notin Admins /\ step # "idle" => id = h
  /\ step \in {"activate", "export", "record"} => peers[h] # None
  /\ step = "heartbeat" => deployments[h] # None
  /\ step \in {"createPeer", "rehash", "seal", "writePeer"} => id \in Peers
  /\ step \in {"rehash", "seal", "writePeer"} => peers[id] # None
  /\ step = "createPeer" => peers[id] = None /\ J!Busy(h, id) = {}
  /\ step \in {"insertDeployment", "rehashDeployment"} => id \in Deployments
  /\ step = "rehashDeployment" => deployments[id] # None
  /\ step \in {"createPeer", "insertDeployment"} => cmd[h].region \in Slugs
  /\ step \in Minting \cup {"seal"} => cmd[h].token \in Nat \ {0}
  /\ step = "writePeer" => cmd[h].asked \in J!Statuses \cup {""} /\ cmd[h].was \in PeerRecord
  /\ step = "record" => cmd[h].revision \in Nat

\* A token is in one place: one row, one handler, or with those that were replaced.
TokensApart ==
  /\ retired \subseteq 1..minted
  /\ \A o \in J!Owners : Known(o) \in 0..minted /\ Known(o) \notin retired
  /\ \A h \in J!Handlers : Carried(h) \in 0..minted /\ Carried(h) \notin retired
  /\ \A o, q \in J!Owners : Known(o) = Known(q) /\ Known(o) # 0 => o = q
  /\ \A h, g \in J!Handlers : Carried(h) = Carried(g) /\ Carried(h) # 0 => h = g
  /\ \A o \in J!Owners, h \in J!Handlers : Known(o) = Carried(h) => Known(o) = 0

Rotates(h, p) == adminStep[h] \in {"rehash", "seal"} /\ cmd[h].id = p

\* A rotation that no other overlaps seals the token the peer is known by.
SealsItsOwn ==
  \A p \in Peers \ crossed :
    /\ \A h, g \in Admins : Rotates(h, p) /\ Rotates(g, p) => h = g
    /\ \A h \in Admins : adminStep[h] = "seal" /\ cmd[h].id = p => cmd[h].token = peers[p].hash

\* No handler is to write a status other than disabled that it has read of a barred peer.
StaysDisabled ==
  \A p \in barred :
    /\ p \in Peers /\ peers[p] # None /\ peers[p].status = "disabled"
    /\ adminStep[p] # "activate"
    /\ \A h \in Admins : adminStep[h] = "writePeer" /\ cmd[h].id = p /\ cmd[h].asked = "" =>
         cmd[h].was.status = "disabled"

JoinInv ==
  /\ JoinTypes /\ (\A h \in J!Handlers : About(h))
  /\ TokensApart /\ SealsItsOwn /\ SealedIsCurrent /\ StaysDisabled

-----------------------------------------------------------------------------
(* JoinTokens: how a step moves a handler *)

\* The other handlers stay where they are.
Alone(h) == \A g \in J!Handlers \ {h} : adminStep'[g] = adminStep[g] /\ cmd'[g] = cmd[g]

HandlersTyped ==
  adminStep = [h \in J!Handlers |-> adminStep[h]] /\ cmd = [h \in J!Handlers |-> cmd[h]]

LEMMA Goes ==
  ASSUME JoinTypes, NEW h \in J!Handlers, NEW step, NEW what, J!Goto(h, step, what)
  PROVE  /\ Alone(h) /\ adminStep'[h] = step /\ cmd'[h] = what
         /\ HandlersTyped' /\ faults' = faults
<1>1. HandlersTyped /\ adminStep' = [adminStep EXCEPT ![h] = step] /\ cmd' = [cmd EXCEPT ![h] = what]
  BY DEF J!Goto, JoinTypes, HandlersTyped
<1> QED
  BY <1>1 DEF HandlersTyped, Alone, J!Goto

LEMMA Commands ==
  ASSUME JoinTypes, NEW h \in J!Handlers, NEW step, NEW what, J!Command(h, step, what)
  PROVE  /\ adminStep[h] = "idle" /\ Alone(h) /\ adminStep'[h] = step /\ cmd'[h] = what
         /\ HandlersTyped' /\ faults' = faults
<1>1. HandlersTyped /\ adminStep' = [adminStep EXCEPT ![h] = step] /\ cmd' = [cmd EXCEPT ![h] = what]
  BY DEF J!Command, JoinTypes, HandlersTyped
<1> QED
  BY <1>1 DEF HandlersTyped, Alone, J!Command

\* A row that is there stays, and only the handler that creates a peer brings one.
RowsStay(h) ==
  /\ \A p \in Peers : peers[p] # None => peers'[p] # None
  /\ \A d \in Deployments : deployments[d] # None => deployments'[d] # None
  /\ \A p \in Peers : peers[p] = None /\ peers'[p] # None =>
       adminStep[h] = "createPeer" /\ cmd[h].id = p

\* A request does not come between a registration and its row.
Enters(h) ==
  LET id == cmd'[h].id IN
  \/ id \in {cmd[h].id, None} \cup Deployments
  \/ peers[id] # None
  \/ J!Busy(h, id) = {}

LEMMA OthersKnow ==
  ASSUME JoinInv, NEW h \in J!Handlers, Alone(h), RowsStay(h), Enters(h),
         NEW g \in J!Handlers, g # h
  PROVE  About(g)'
<1> DEFINE id == cmd[g].id
<1>1. About(g) /\ adminStep'[g] = adminStep[g] /\ cmd'[g] = cmd[g]
  BY DEF JoinInv, Alone
<1>2. adminStep[g] = "createPeer" => id \in Peers /\ peers[id] = None /\ J!Busy(g, id) = {}
  BY <1>1 DEF About
<1>3. ASSUME adminStep[g] = "createPeer" PROVE peers'[id] = None
  <2>1. id \in Peers /\ peers[id] = None /\ cmd[h].id # id
    BY <1>2, <1>3 DEF J!Busy
  <2> QED
    BY <2>1 DEF RowsStay
<1>4. ASSUME adminStep[g] = "createPeer"
      PROVE  \A e \in J!Handlers \ {g} : cmd'[e].id # cmd'[g].id
  <2>1. /\ id \in Peers /\ id # None /\ id \notin Deployments /\ peers[id] = None
        /\ \A e \in J!Handlers \ {g} : cmd[e].id # id
    BY <1>2, <1>4, JoinAssumption DEF J!Busy
  <2>2. cmd'[h].id # id
    <3>1. g \in J!Busy(h, id)
      BY DEF J!Busy
    <3> QED
      BY <2>1, <3>1 DEF Enters
  <2>3. \A e \in J!Handlers \ {g} : cmd'[e].id # id
    BY <2>1, <2>2 DEF Alone
  <2> QED
    BY <1>1, <2>3
<1>5. \A p \in Peers : peers[p] # None => peers'[p] # None
  BY DEF RowsStay
<1>6. \A d \in Deployments : deployments[d] # None => deployments'[d] # None
  BY DEF RowsStay
<1> QED
  BY <1>1, <1>3, <1>4, <1>5, <1>6 DEF About, J!Busy, J!Handlers, J!Owners, Minting, PeerRecord, J!Statuses

LEMMA JoinMoves ==
  ASSUME JoinInv, JoinTypes', NEW h \in J!Handlers, Alone(h), RowsStay(h), Enters(h),
         About(h)', TokensApart', SealsItsOwn', SealedIsCurrent', StaysDisabled'
  PROVE  JoinInv'
BY OthersKnow DEF JoinInv

-----------------------------------------------------------------------------
(* JoinTokens: where the tokens are *)

KnownStays == \A o \in J!Owners : Known(o)' = Known(o)

\* A token is drawn: it is nobody's yet.
LEMMA DrawsToken ==
  ASSUME TokensApart, minted \in Nat, NEW h \in J!Handlers, Alone(h), KnownStays,
         retired' = retired, minted' = minted + 1, Carried(h)' = minted + 1
  PROVE  TokensApart'
<1>1. \A g \in J!Handlers \ {h} : Carried(g)' = Carried(g)
  BY DEF Alone, Carried
<1> HIDE DEF Carried, Known
<1> QED
  BY <1>1 DEF TokensApart, KnownStays

\* A token stays where it is, or is lost with the handler that carries it.
LEMMA LeavesTokens ==
  ASSUME TokensApart, minted \in Nat, NEW h \in J!Handlers, Alone(h), KnownStays,
         retired' = retired, minted' = minted, Carried(h)' = 0
  PROVE  TokensApart'
<1>1. \A g \in J!Handlers \ {h} : Carried(g)' = Carried(g)
  BY DEF Alone, Carried
<1> HIDE DEF Carried, Known
<1> QED
  BY <1>1 DEF TokensApart, KnownStays

\* A token goes from its handler to a row; the one it replaces is gone for good.
LEMMA PutsToken ==
  ASSUME TokensApart, minted \in Nat, NEW h \in J!Handlers, Alone(h), NEW o \in J!Owners,
         \A q \in J!Owners \ {o} : Known(q)' = Known(q),
         Known(o)' = Carried(h), Carried(h)' = 0, minted' = minted,
         retired' = retired \/ (Known(o) # 0 /\ retired' = retired \cup {Known(o)})
  PROVE  TokensApart'
<1>1. \A g \in J!Handlers \ {h} : Carried(g)' = Carried(g)
  BY DEF Alone, Carried
<1> HIDE DEF Carried, Known
<1>2. retired' \subseteq 1..minted'
  <2>1. retired \subseteq 1..minted /\ Known(o) \in 0..minted
    BY DEF TokensApart
  <2>2. Known(o) # 0 => Known(o) \in 1..minted
    BY <2>1
  <2> QED
    BY <2>1, <2>2
<1>3. \A q \in J!Owners : Known(q)' \in 0..minted' /\ Known(q)' \notin retired'
  <2>1. Known(o)' \in 0..minted' /\ Known(o)' \notin retired'
    BY DEF TokensApart
  <2>2. ASSUME NEW q \in J!Owners \ {o} PROVE Known(q)' \in 0..minted' /\ Known(q)' \notin retired'
    BY DEF TokensApart
  <2> QED
    BY <2>1, <2>2
<1>4. \A g \in J!Handlers : Carried(g)' \in 0..minted' /\ Carried(g)' \notin retired'
  BY <1>1 DEF TokensApart
<1>5. \A q, r \in J!Owners : Known(q)' = Known(r)' /\ Known(q)' # 0 => q = r
  BY DEF TokensApart
<1>6. \A g, e \in J!Handlers : Carried(g)' = Carried(e)' /\ Carried(g)' # 0 => g = e
  BY <1>1 DEF TokensApart
<1>7. \A q \in J!Owners, g \in J!Handlers : Known(q)' = Carried(g)' => Known(q)' = 0
  BY <1>1 DEF TokensApart
<1> QED
  BY <1>2, <1>3, <1>4, <1>5, <1>6, <1>7 DEF TokensApart

-----------------------------------------------------------------------------
(* JoinTokens: what the hub's copies and the bar rest on *)

\* A peer that nobody rotates was rotated by nobody else before.
LEMMA RotatingKept ==
  ASSUME JoinInv, NEW h \in J!Handlers, Alone(h), NEW p \in Peers, J!Rotating(p)' = {},
         ~Rotates(h, p) \/ Rotates(h, p)'
  PROVE  J!Rotating(p) = {}
<1> SUFFICES ASSUME NEW g \in J!Rotating(p) PROVE FALSE
  OBVIOUS
<1>1. g \in J!Handlers /\ Rotates(g, p)
  BY DEF J!Rotating, Rotates
<1>2. Rotates(g, p)'
  BY <1>1 DEF Alone, Rotates
<1> QED
  BY <1>1, <1>2 DEF J!Rotating, Rotates

\* No hash and no copy is written, no rotation begins, and one that ends has failed.
LEMMA LeavesSeals ==
  ASSUME JoinInv, NEW h \in J!Handlers, Alone(h), crossed \subseteq crossed',
         \A p \in Peers : IF peers[p] = None THEN peers'[p] = None
                          ELSE /\ peers'[p] # None
                               /\ peers'[p].hash = peers[p].hash /\ peers'[p].enc = peers[p].enc,
         adminStep'[h] \notin {"rehash", "seal"},
         \A p \in Peers : Rotates(h, p) => p \in crossed'
  PROVE  SealsItsOwn' /\ SealedIsCurrent'
<1>1. Admins \subseteq J!Handlers
  BY DEF J!Handlers
<1>2. \A g \in Admins : adminStep'[g] \in {"rehash", "seal"} =>
        g # h /\ adminStep'[g] = adminStep[g] /\ cmd'[g] = cmd[g]
  BY <1>1 DEF Alone
<1>3. SealsItsOwn'
  <2>1. ASSUME NEW p \in Peers \ crossed', NEW g \in Admins, NEW e \in Admins,
               Rotates(g, p)', Rotates(e, p)'
        PROVE  g = e
    BY <1>2, <2>1 DEF Rotates, JoinInv, SealsItsOwn
  <2>2. ASSUME NEW p \in Peers \ crossed', NEW g \in Admins, adminStep'[g] = "seal", cmd'[g].id = p
        PROVE  cmd'[g].token = peers'[p].hash
    <3>1. adminStep[g] = "seal" /\ cmd[g].id = p /\ cmd'[g] = cmd[g]
      BY <1>2, <2>2
    <3>2. peers[p] # None
      BY <1>1, <3>1 DEF JoinInv, About
    <3>3. cmd[g].token = peers[p].hash
      BY <3>1 DEF JoinInv, SealsItsOwn
    <3> QED
      BY <3>1, <3>2, <3>3
  <2> QED
    BY <2>1, <2>2 DEF SealsItsOwn
<1>4. SealedIsCurrent'
  <2> SUFFICES ASSUME NEW p \in Peers, peers'[p] # None, p \notin crossed', J!Rotating(p)' = {}
               PROVE  peers'[p].enc = peers'[p].hash
    BY DEF SealedIsCurrent, J!SealedIsCurrent
  <2>1. J!Rotating(p) = {}
    BY RotatingKept
  <2> QED
    BY <2>1 DEF JoinInv, SealedIsCurrent, J!SealedIsCurrent
<1> QED
  BY <1>3, <1>4

\* No peer that is barred is written, and who reads one reads that it is disabled.
LEMMA LeavesBar ==
  ASSUME JoinInv, NEW h \in J!Handlers, Alone(h), barred' \subseteq barred,
         \A p \in barred' : peers'[p] # None /\ peers'[p].status = peers[p].status,
         adminStep'[h] = "activate" => h \notin barred',
         adminStep'[h] = "writePeer" => cmd'[h].was = peers[cmd'[h].id]
  PROVE  StaysDisabled'
<1> SUFFICES ASSUME NEW p \in barred'
             PROVE  /\ p \in Peers /\ peers'[p] # None /\ peers'[p].status = "disabled"
                    /\ adminStep'[p] # "activate"
                    /\ \A g \in Admins : /\ adminStep'[g] = "writePeer" /\ cmd'[g].id = p
                                         /\ cmd'[g].asked = ""
                                         => cmd'[g].was.status = "disabled"
  BY DEF StaysDisabled
<1>1. /\ p \in Peers /\ peers[p] # None /\ peers[p].status = "disabled"
      /\ adminStep[p] # "activate"
      /\ \A g \in Admins : adminStep[g] = "writePeer" /\ cmd[g].id = p /\ cmd[g].asked = "" =>
           cmd[g].was.status = "disabled"
  BY DEF JoinInv, StaysDisabled
<1>2. p \in J!Handlers /\ Admins \subseteq J!Handlers
  BY <1>1 DEF J!Handlers, J!Owners
<1>3. adminStep'[p] # "activate"
  BY <1>1, <1>2 DEF Alone
<1> QED
  BY <1>1, <1>2, <1>3 DEF Alone

-----------------------------------------------------------------------------
(* JoinTokens: the steps *)

RowsTyped ==
  /\ peers \in [Peers -> PeerRecord \cup {None}]
  /\ deployments \in [Deployments -> DeploymentRecord \cup {None}]
  /\ minted \in Nat /\ peerRevision \in Nat

LEMMA JoinFacts ==
  ASSUME JoinInv, NEW h \in J!Handlers
  PROVE  JoinTypes /\ RowsTyped /\ HandlersTyped /\ faults \in Nat /\ TokensApart /\ About(h)
BY DEF JoinInv, JoinTypes, RowsTyped, HandlersTyped

\* The hash of no row is written.
HashesStay ==
  /\ \A p \in Peers : IF peers[p] = None THEN peers'[p] = None
                      ELSE peers'[p] # None /\ peers'[p].hash = peers[p].hash
  /\ \A d \in Deployments : IF deployments[d] = None THEN deployments'[d] = None
                            ELSE deployments'[d] # None /\ deployments'[d].hash = deployments[d].hash

LEMMA HashesKnown ==
  ASSUME HashesStay
  PROVE  KnownStays /\ \A h : RowsStay(h)
BY DEF HashesStay, KnownStays, Known, RowsStay, J!Owners

LEMMA LeavesRows ==
  ASSUME JoinInv, NEW h \in J!Handlers, Alone(h), HandlersTyped',
         UNCHANGED <<peers, deployments, peerRevision, retired, barred>>,
         crossed \subseteq crossed', \A p \in Peers : Rotates(h, p) => p \in crossed',
         \/ minted' = minted /\ Carried(h)' = 0
         \/ minted' = minted + 1 /\ Carried(h)' = minted + 1,
         faults' \in Nat,
         Enters(h), About(h)',
         adminStep'[h] \notin {"rehash", "seal"},
         adminStep'[h] = "activate" => h \notin barred,
         adminStep'[h] = "writePeer" => cmd'[h].was = peers[cmd'[h].id]
  PROVE  JoinInv'
<1>1. KnownStays /\ RowsStay(h)
  BY HashesKnown DEF HashesStay
<1>2. JoinTypes'
  BY DEF JoinInv, JoinTypes, HandlersTyped
<1>3. TokensApart'
  BY <1>1, DrawsToken, LeavesTokens DEF JoinInv, JoinTypes
<1>4. SealsItsOwn' /\ SealedIsCurrent'
  BY LeavesSeals
<1>5. StaysDisabled'
  <2>1. \A p \in barred : peers[p] # None
    BY DEF JoinInv, StaysDisabled
  <2> QED
    BY <2>1, LeavesBar
<1> QED
  BY <1>1, <1>2, <1>3, <1>4, <1>5, JoinMoves

LEMMA RegisterPeerKeeps ==
  ASSUME JoinInv, NEW h \in Admins, NEW p \in Peers, NEW r \in Slugs, J!RegisterPeer(h, p, r)
  PROVE  JoinInv'
<1> DEFINE what == [id |-> p, token |-> minted', region |-> r]
<1>1. /\ peers[p] = None /\ J!Busy(h, p) = {} /\ minted' = minted + 1
      /\ J!Command(h, "createPeer", what)
      /\ UNCHANGED <<peers, deployments, peerRevision, retired, barred, crossed>>
  BY DEF J!RegisterPeer, J!Mint, J!hist
<1>2. h \in J!Handlers
  BY DEF J!Handlers
<1>3. /\ adminStep[h] = "idle" /\ Alone(h) /\ adminStep'[h] = "createPeer" /\ cmd'[h] = what
      /\ HandlersTyped' /\ faults' = faults /\ minted \in Nat
  BY <1>1, <1>2, Commands, JoinFacts DEF RowsTyped
<1>4. cmd'[h].id = p /\ cmd'[h].token = minted + 1 /\ cmd'[h].region = r
  BY <1>1, <1>3
<1>5. Carried(h)' = minted + 1
  BY <1>3, <1>4 DEF Carried, Minting
<1>6. Enters(h)
  BY <1>1, <1>4 DEF Enters
<1>7. About(h)'
  <2>1. \A g \in J!Handlers \ {h} : cmd'[g].id # p
    BY <1>1, <1>3 DEF Alone, J!Busy
  <2> QED
    BY <1>1, <1>3, <1>4, <2>1, JoinAssumption DEF About, J!Busy, Minting
<1> QED
  BY <1>1, <1>2, <1>3, <1>5, <1>6, <1>7, JoinFacts, LeavesRows DEF Rotates

LEMMA UpdatePeerKeeps ==
  ASSUME JoinInv, NEW h \in Admins, NEW p \in Peers, NEW st \in J!Statuses \cup {""},
         J!UpdatePeer(h, p, st)
  PROVE  JoinInv'
<1> DEFINE what == [id |-> p, asked |-> st, was |-> peers[p]]
<1>1. /\ peers[p] # None /\ J!Command(h, "writePeer", what)
      /\ UNCHANGED <<peers, deployments, minted, peerRevision, retired, barred, crossed>>
  BY DEF J!UpdatePeer, J!hist, J!rows
<1>2. h \in J!Handlers
  BY DEF J!Handlers
<1>3. /\ adminStep[h] = "idle" /\ Alone(h) /\ adminStep'[h] = "writePeer" /\ cmd'[h] = what
      /\ HandlersTyped' /\ faults' = faults
  BY <1>1, <1>2, Commands, JoinFacts
<1>4. cmd'[h].id = p /\ cmd'[h].asked = st /\ cmd'[h].was = peers[p] /\ peers[p] \in PeerRecord
  <2>1. peers \in [Peers -> PeerRecord \cup {None}]
    BY <1>2, JoinFacts DEF RowsTyped
  <2>2. peers[p] \in PeerRecord
    BY <1>1, <2>1
  <2>3. cmd'[h] = what
    BY <1>3
  <2>4. what.id = p
    OBVIOUS
  <2>5. what.asked = st
    OBVIOUS
  <2>6. what.was = peers[p]
    OBVIOUS
  <2> HIDE DEF what
  <2> QED
    BY <2>2, <2>3, <2>4, <2>5, <2>6
<1>5. Carried(h)' = 0
  BY <1>3 DEF Carried, Minting
<1>6. Enters(h)
  BY <1>1, <1>4 DEF Enters
<1>7. About(h)'
  BY <1>1, <1>3, <1>4, JoinAssumption DEF About, Minting, PeerRecord, J!Statuses
<1> QED
  BY <1>1, <1>2, <1>3, <1>4, <1>5, <1>6, <1>7, JoinFacts, LeavesRows DEF Rotates

LEMMA AuthenticateKeeps ==
  ASSUME JoinInv, NEW p \in Peers, J!AuthenticatePeerToken(p)
  PROVE  JoinInv'
<1>1. PICK slug \in Slugs :
        J!Goto(p, IF peers[p].status = "pending" THEN "activate" ELSE "export",
               [id |-> p, slug |-> slug])
  BY DEF J!AuthenticatePeerToken
<1>2. /\ adminStep[p] = "idle" /\ peers[p] # None /\ peers[p].status # "disabled"
      /\ UNCHANGED <<peers, deployments, minted, peerRevision, retired, barred, crossed>>
  BY DEF J!AuthenticatePeerToken, J!hist, J!rows
<1>3. p \in J!Handlers
  BY DEF J!Handlers, J!Owners
<1>4. /\ Alone(p) /\ HandlersTyped' /\ faults' = faults
      /\ adminStep'[p] \in {"activate", "export"} /\ cmd'[p] = [id |-> p, slug |-> slug]
  BY <1>1, <1>3, Goes, JoinFacts
<1>5. cmd'[p].id = p
  BY <1>4
<1>6. Carried(p)' = 0 /\ Enters(p)
  BY <1>2, <1>4, <1>5 DEF Carried, Minting, Enters
<1>7. About(p)'
  BY <1>2, <1>4, <1>5, JoinAssumption DEF About, Minting
<1>8. p \notin barred
  BY <1>2 DEF JoinInv, StaysDisabled
<1> QED
  BY <1>2, <1>3, <1>4, <1>6, <1>7, <1>8, JoinFacts, LeavesRows DEF Rotates

LEMMA ExportKeeps ==
  ASSUME JoinInv, NEW p \in Peers, J!Export(p)
  PROVE  JoinInv'
<1>1. /\ adminStep[p] = "export"
      /\ UNCHANGED <<peers, deployments, minted, peerRevision, retired, barred, crossed>>
      /\ \/ J!Goto(p, "record", [id |-> p, revision |-> peerRevision])
         \/ J!Goto(p, "idle", J!Idle)
  BY DEF J!Export, J!Done, J!hist, J!rows
<1>2. p \in J!Handlers
  BY DEF J!Handlers, J!Owners
<1>3. peers[p] # None /\ peerRevision \in Nat
  BY <1>1, <1>2, JoinFacts DEF About, RowsTyped
<1>4. CASE J!Goto(p, "record", [id |-> p, revision |-> peerRevision])
  <2>1. /\ Alone(p) /\ HandlersTyped' /\ faults' = faults /\ adminStep'[p] = "record"
        /\ cmd'[p] = [id |-> p, revision |-> peerRevision]
    BY <1>2, <1>4, Goes, JoinFacts
  <2>2. Carried(p)' = 0 /\ Enters(p)
    BY <1>3, <2>1 DEF Carried, Minting, Enters
  <2>3. About(p)'
    BY <1>1, <1>3, <2>1, JoinAssumption DEF About, Minting
  <2> QED
    BY <1>1, <1>2, <2>1, <2>2, <2>3, JoinFacts, LeavesRows DEF Rotates
<1>5. CASE J!Goto(p, "idle", J!Idle)
  <2>1. /\ Alone(p) /\ HandlersTyped' /\ faults' = faults /\ adminStep'[p] = "idle"
        /\ cmd'[p].id = None
    BY <1>2, <1>5, Goes, JoinFacts DEF J!Idle
  <2>2. Carried(p)' = 0 /\ Enters(p) /\ About(p)'
    BY <2>1, JoinAssumption DEF Carried, Minting, Enters, About
  <2> QED
    BY <1>1, <1>2, <2>1, <2>2, JoinFacts, LeavesRows DEF Rotates
<1> QED
  BY <1>1, <1>4, <1>5

LEMMA RegisterDeploymentKeeps ==
  ASSUME JoinInv, NEW h \in Admins, NEW d \in Deployments, NEW r \in Slugs,
         J!RegisterDeployment(h, d, r) \/ J!RotateJoinToken(h, d, r)
  PROVE  JoinInv'
<1>1. PICK step, what :
        /\ step \in {"insertDeployment", "rehashDeployment"}
        /\ J!Command(h, step, what) /\ what.id = d /\ what.token = minted'
        /\ step = "insertDeployment" => what.region = r
        /\ step = "rehashDeployment" => deployments[d] # None
        /\ minted' = minted + 1
        /\ UNCHANGED <<peers, deployments, peerRevision, retired, barred, crossed>>
  <2>1. CASE J!RegisterDeployment(h, d, r)
    BY <2>1 DEF J!RegisterDeployment, J!Mint, J!hist
  <2>2. CASE J!RotateJoinToken(h, d, r)
    BY <2>2 DEF J!RotateJoinToken, J!Mint, J!hist
  <2> QED
    BY <2>1, <2>2
<1>2. h \in J!Handlers
  BY DEF J!Handlers
<1>3. /\ adminStep[h] = "idle" /\ Alone(h) /\ adminStep'[h] = step /\ cmd'[h] = what
      /\ HandlersTyped' /\ faults' = faults /\ minted \in Nat
  BY <1>1, <1>2, Commands, JoinFacts DEF RowsTyped
<1>4. Carried(h)' = minted + 1
  BY <1>1, <1>3 DEF Carried, Minting
<1>5. Enters(h)
  BY <1>1, <1>3 DEF Enters
<1>6. About(h)'
  <2>1. cmd'[h].id = d /\ cmd'[h].token \in Nat \ {0}
    BY <1>1, <1>3
  <2>2. step = "insertDeployment" => cmd'[h].region \in Slugs
    BY <1>1, <1>3
  <2> QED
    BY <1>1, <1>3, <2>1, <2>2, JoinAssumption DEF About, Minting
<1> QED
  BY <1>1, <1>2, <1>3, <1>4, <1>5, <1>6, JoinFacts, LeavesRows DEF Rotates

LEMMA HeartbeatKeeps ==
  ASSUME JoinInv, NEW d \in Deployments, J!Heartbeat(d)
  PROVE  JoinInv'
<1>1. /\ adminStep[d] = "idle" /\ deployments[d] # None
      /\ UNCHANGED <<peers, deployments, minted, peerRevision, retired, barred, crossed>>
      /\ J!Goto(d, "heartbeat", [id |-> d])
  BY DEF J!Heartbeat, J!hist, J!rows
<1>2. d \in J!Handlers
  BY DEF J!Handlers, J!Owners
<1>3. /\ Alone(d) /\ HandlersTyped' /\ faults' = faults /\ adminStep'[d] = "heartbeat"
      /\ cmd'[d].id = d
  BY <1>1, <1>2, Goes, JoinFacts
<1>4. Carried(d)' = 0 /\ Enters(d) /\ About(d)'
  BY <1>1, <1>3, JoinAssumption DEF Carried, Minting, Enters, About
<1> QED
  BY <1>1, <1>2, <1>3, <1>4, JoinFacts, LeavesRows DEF Rotates

LEMMA FailKeeps ==
  ASSUME JoinInv, NEW h \in J!Handlers, J!Fail(h)
  PROVE  JoinInv'
<1>1. /\ UNCHANGED <<peers, deployments, minted, peerRevision, retired, barred>>
      /\ crossed' = crossed \cup {p \in Peers : h \in J!Rotating(p)} /\ faults' = faults + 1
      /\ adminStep' = [adminStep EXCEPT ![h] = "idle"] /\ cmd' = [cmd EXCEPT ![h] = J!Idle]
  BY DEF J!Fail, J!rows
<1>2. /\ Alone(h) /\ HandlersTyped' /\ faults' \in Nat \ {0} /\ adminStep'[h] = "idle"
      /\ cmd'[h].id = None
  <2>1. HandlersTyped /\ faults \in Nat
    BY JoinFacts
  <2>2. HandlersTyped' /\ adminStep'[h] = "idle" /\ cmd'[h] = J!Idle
    BY <1>1, <2>1 DEF HandlersTyped
  <2>3. Alone(h)
    BY <1>1, <2>1 DEF HandlersTyped, Alone
  <2> QED
    BY <1>1, <2>1, <2>2, <2>3 DEF J!Idle
<1>3. Carried(h)' = 0 /\ Enters(h) /\ About(h)'
  BY <1>2, JoinAssumption DEF Carried, Minting, Enters, About
<1>4. crossed \subseteq crossed' /\ \A p \in Peers : Rotates(h, p) => p \in crossed'
  BY <1>1 DEF J!Rotating, Rotates
<1> QED
  BY <1>1, <1>2, <1>3, <1>4, LeavesRows

\* A peer is written, and neither its hash nor its copy with it.
LEMMA WritesPeer ==
  ASSUME JoinInv, NEW h \in J!Handlers, Alone(h), HandlersTyped', NEW p \in Peers,
         peers[p] # None, NEW row \in PeerRecord, row.hash = peers[p].hash,
         row.enc = peers[p].enc, peers' = [peers EXCEPT ![p] = row],
         UNCHANGED <<deployments, minted, peerRevision, retired, crossed, faults>>,
         Carried(h)' = 0, Enters(h), About(h)', StaysDisabled',
         adminStep[h] \notin {"rehash", "seal"}, adminStep'[h] \notin {"rehash", "seal"}
  PROVE  JoinInv'
<1>1. /\ JoinTypes /\ TokensApart /\ faults \in Nat
      /\ peers \in [Peers -> PeerRecord \cup {None}] /\ row # None
  BY JoinFacts, JoinAssumption DEF RowsTyped, PeerRecord
<1>2. /\ peers' \in [Peers -> PeerRecord \cup {None}] /\ peers'[p] = row
      /\ \A q \in Peers \ {p} : peers'[q] = peers[q]
  BY <1>1
<1>3. JoinTypes'
  BY <1>1, <1>2 DEF JoinTypes, HandlersTyped, PeerRecord, DeploymentRecord, J!Statuses
<1>4. HashesStay
  BY <1>1, <1>2 DEF HashesStay
<1>5. KnownStays /\ RowsStay(h)
  BY <1>4, HashesKnown
<1>6. TokensApart'
  BY <1>1, <1>5, LeavesTokens DEF JoinTypes
<1>7. SealsItsOwn' /\ SealedIsCurrent'
  BY <1>1, <1>2, LeavesSeals DEF Rotates
<1> QED
  BY <1>3, <1>5, <1>6, <1>7, JoinMoves

LEMMA WritePeerKeeps ==
  ASSUME JoinInv, NEW h \in Admins, J!WritePeer(h)
  PROVE  JoinInv'
<1> DEFINE c == cmd[h]
           p == c.id
           st == J!Patched(c)
           row == [peers[p] EXCEPT !.status = st]
<1>1. /\ adminStep[h] = "writePeer" /\ peers' = [peers EXCEPT ![p].status = st]
      /\ J!Goto(h, "idle", J!Idle)
      /\ UNCHANGED <<deployments, minted, peerRevision, retired, crossed>>
      /\ barred' = CASE c.asked = "disabled" /\ J!Reviving(p) = {} -> barred \cup {p}
                     [] c.asked \in {"pending", "active"}         -> barred \ {p}
                     [] OTHER                                     -> barred
  BY DEF J!WritePeer, J!Done
<1>2. h \in J!Handlers
  BY DEF J!Handlers
<1>3. /\ p \in Peers /\ peers[p] # None /\ peers[p] \in PeerRecord
      /\ c.asked \in J!Statuses \cup {""} /\ c.was \in PeerRecord
  <2>1. About(h) /\ peers \in [Peers -> PeerRecord \cup {None}]
    BY <1>2, JoinFacts DEF RowsTyped
  <2>2. /\ p \in Peers /\ peers[p] # None
        /\ c.asked \in J!Statuses \cup {""} /\ c.was \in PeerRecord
    BY <1>1, <2>1 DEF About
  <2> QED
    BY <2>1, <2>2
<1>4. st \in J!Statuses /\ (c.asked # "" => st = c.asked) /\ (c.asked = "" => st = c.was.status)
  BY <1>3 DEF J!Patched, PeerRecord, J!Statuses
<1> HIDE DEF st
<1>5. row \in PeerRecord /\ row.hash = peers[p].hash /\ row.enc = peers[p].enc /\ row.status = st
  BY <1>3, <1>4 DEF PeerRecord
<1>6. peers' = [peers EXCEPT ![p] = row]
  BY <1>1
<1> HIDE DEF row
<1>7. /\ Alone(h) /\ HandlersTyped' /\ faults' = faults /\ adminStep'[h] = "idle"
      /\ cmd'[h].id = None
  BY <1>1, <1>2, Goes, JoinFacts DEF J!Idle
<1>8. Carried(h)' = 0 /\ Enters(h) /\ About(h)'
  BY <1>7, JoinAssumption DEF Carried, Minting, Enters, About
<1>9. /\ peers'[p] = row /\ row # None /\ \A q \in Peers \ {p} : peers'[q] = peers[q]
  <2>1. peers \in [Peers -> PeerRecord \cup {None}]
    BY <1>2, JoinFacts DEF RowsTyped
  <2> QED
    BY <1>3, <1>5, <1>6, <2>1, JoinAssumption DEF PeerRecord
<1>10. StaysDisabled'
  <2>1. \A q \in barred : /\ q \in Peers /\ peers[q] # None /\ peers[q].status = "disabled"
    BY DEF JoinInv, StaysDisabled
  <2>2. CASE c.asked = "disabled" /\ J!Reviving(p) = {}
    <3>1. barred' = barred \cup {p}
      BY <1>1, <2>2
    <3>2. /\ ~(cmd[p].id = p /\ adminStep[p] = "activate")
          /\ \A g \in Admins : adminStep[g] = "writePeer" /\ cmd[g].id = p /\ cmd[g].asked = "" =>
               cmd[g].was.status = "disabled"
      BY <1>3, <2>2 DEF J!Reviving, J!Handlers, J!Owners
    <3>3. p \in J!Handlers \ {h} /\ Admins \subseteq J!Handlers
      BY <1>3, JoinAssumption DEF J!Handlers, J!Owners
    <3>4. adminStep'[p] # "activate"
      <4>1. adminStep'[p] = adminStep[p] /\ p \notin Admins
        BY <1>3, <1>7, <3>3, JoinAssumption DEF Alone
      <4> QED
        BY <3>2, <4>1, <3>3, JoinFacts DEF About
    <3>5. \A g \in Admins : adminStep'[g] = "writePeer" /\ cmd'[g].id = p /\ cmd'[g].asked = "" =>
            cmd'[g].was.status = "disabled"
      BY <1>7, <3>2, <3>3 DEF Alone
    <3>6. st = "disabled"
      BY <1>4, <2>2
    <3>7. ASSUME NEW q \in barred, q # p
          PROVE  /\ peers'[q] = peers[q] /\ adminStep'[q] # "activate"
                 /\ \A g \in Admins : /\ adminStep'[g] = "writePeer" /\ cmd'[g].id = q
                                      /\ cmd'[g].asked = ""
                                      => cmd'[g].was.status = "disabled"
      <4>1. q \in J!Handlers /\ adminStep[q] # "activate"
        BY <2>1 DEF J!Handlers, J!Owners, JoinInv, StaysDisabled
      <4>2. adminStep'[q] # "activate"
        BY <1>7, <4>1 DEF Alone
      <4>3. ASSUME NEW g \in Admins, adminStep'[g] = "writePeer", cmd'[g].id = q,
                   cmd'[g].asked = ""
            PROVE  cmd'[g].was.status = "disabled"
        <5>1. adminStep[g] = "writePeer" /\ cmd'[g] = cmd[g]
          BY <1>7, <3>3, <4>3 DEF Alone
        <5> QED
          BY <4>3, <5>1 DEF JoinInv, StaysDisabled
      <4>4. peers'[q] = peers[q]
        BY <1>9, <2>1, <3>7
      <4> QED
        BY <4>2, <4>3, <4>4
    <3> QED
      BY <1>3, <1>5, <1>9, <2>1, <3>1, <3>4, <3>5, <3>6, <3>7 DEF StaysDisabled
  <2>3. CASE c.asked \in {"pending", "active"}
    <3>1. barred' = barred \ {p}
      BY <1>1, <2>3
    <3> QED
      BY <1>2, <1>7, <1>9, <2>1, <3>1, LeavesBar
  <2>4. CASE ~(c.asked = "disabled" /\ J!Reviving(p) = {}) /\ c.asked \notin {"pending", "active"}
    <3>1. barred' = barred
      BY <1>1, <2>4
    <3>2. p \in barred => st = "disabled"
      <4>1. c.asked \in {"", "disabled"}
        BY <1>3, <2>4 DEF J!Statuses
      <4>2. p \in barred /\ c.asked = "" => c.was.status = "disabled"
        BY <1>1 DEF JoinInv, StaysDisabled
      <4> QED
        BY <1>4, <4>1, <4>2
    <3> QED
      BY <1>2, <1>5, <1>7, <1>9, <2>1, <3>1, <3>2, LeavesBar
  <2> QED
    BY <2>2, <2>3, <2>4
<1> QED
  BY <1>1, <1>2, <1>3, <1>5, <1>6, <1>7, <1>8, <1>10, WritesPeer

LEMMA ActivateKeeps ==
  ASSUME JoinInv, NEW p \in Peers, J!Activate(p)
  PROVE  JoinInv'
<1> DEFINE row == [peers[p] EXCEPT !.status = "active"]
<1>1. /\ adminStep[p] = "activate" /\ J!Goto(p, "export", cmd[p])
      /\ peers' = [peers EXCEPT ![p].status = "active"]
      /\ UNCHANGED <<deployments, minted, peerRevision, retired, barred, crossed>>
  BY DEF J!Activate, J!hist
<1>2. p \in J!Handlers
  BY DEF J!Handlers, J!Owners
<1>3. peers \in [Peers -> PeerRecord \cup {None}] /\ About(p)
  BY <1>2, JoinFacts DEF RowsTyped
<1>4. cmd[p].id = p /\ peers[p] # None /\ peers[p] \in PeerRecord
  BY <1>1, <1>3, JoinAssumption DEF About
<1>5. row \in PeerRecord /\ row.hash = peers[p].hash /\ row.enc = peers[p].enc
  <2>1. "active" \in J!Statuses
    BY DEF J!Statuses
  <2> QED
    BY <1>4, <2>1 DEF PeerRecord
<1>6. peers' = [peers EXCEPT ![p] = row]
  BY <1>1
<1> HIDE DEF row
<1>7. /\ Alone(p) /\ HandlersTyped' /\ faults' = faults /\ adminStep'[p] = "export"
      /\ cmd'[p].id = p
  BY <1>1, <1>2, <1>4, Goes, JoinFacts
<1>8. Carried(p)' = 0 /\ Enters(p)
  BY <1>4, <1>7 DEF Carried, Minting, Enters
<1>9. peers'[p] = row /\ row # None /\ \A q \in Peers \ {p} : peers'[q] = peers[q]
  BY <1>3, <1>5, <1>6, JoinAssumption DEF PeerRecord
<1>10. About(p)'
  BY <1>7, <1>9, JoinAssumption DEF About, Minting
<1>11. StaysDisabled'
  <2>1. p \notin barred /\ \A q \in barred : q \in Peers /\ peers[q] # None
    BY <1>1 DEF JoinInv, StaysDisabled
  <2> QED
    BY <1>1, <1>2, <1>7, <1>9, <2>1, LeavesBar
<1> QED
  BY <1>1, <1>2, <1>4, <1>5, <1>6, <1>7, <1>8, <1>10, <1>11, WritesPeer

LEMMA RecordPeerSyncKeeps ==
  ASSUME JoinInv, NEW p \in Peers, J!RecordPeerSync(p)
  PROVE  JoinInv'
<1> DEFINE row == [peers[p] EXCEPT !.cursor = cmd[p].revision]
<1>1. /\ adminStep[p] = "record" /\ J!Goto(p, "idle", J!Idle)
      /\ peers' = [peers EXCEPT ![p].cursor = cmd[p].revision]
      /\ UNCHANGED <<deployments, minted, peerRevision, retired, barred, crossed>>
  BY DEF J!RecordPeerSync, J!Done, J!hist
<1>2. p \in J!Handlers
  BY DEF J!Handlers, J!Owners
<1>3. peers \in [Peers -> PeerRecord \cup {None}] /\ About(p)
  BY <1>2, JoinFacts DEF RowsTyped
<1>4. peers[p] # None /\ peers[p] \in PeerRecord /\ cmd[p].revision \in Nat
  BY <1>1, <1>3 DEF About
<1>5. /\ row \in PeerRecord /\ row.hash = peers[p].hash /\ row.enc = peers[p].enc
      /\ row.status = peers[p].status
  BY <1>4 DEF PeerRecord
<1>6. peers' = [peers EXCEPT ![p] = row]
  BY <1>1
<1> HIDE DEF row
<1>7. /\ Alone(p) /\ HandlersTyped' /\ faults' = faults /\ adminStep'[p] = "idle"
      /\ cmd'[p].id = None
  BY <1>1, <1>2, Goes, JoinFacts DEF J!Idle
<1>8. Carried(p)' = 0 /\ Enters(p) /\ About(p)'
  BY <1>7, JoinAssumption DEF Carried, Minting, Enters, About
<1>9. peers'[p] = row /\ row # None /\ \A q \in Peers \ {p} : peers'[q] = peers[q]
  BY <1>3, <1>5, <1>6, JoinAssumption DEF PeerRecord
<1>10. StaysDisabled'
  <2>1. \A q \in barred : q \in Peers /\ peers[q] # None
    BY DEF JoinInv, StaysDisabled
  <2> QED
    BY <1>1, <1>2, <1>5, <1>7, <1>9, <2>1, LeavesBar
<1> QED
  BY <1>1, <1>2, <1>4, <1>5, <1>6, <1>7, <1>8, <1>10, WritesPeer

LEMMA CreatePeerKeeps ==
  ASSUME JoinInv, NEW h \in Admins, J!CreatePeer(h)
  PROVE  JoinInv'
<1> DEFINE p == cmd[h].id
           row == [region |-> cmd[h].region, status |-> "pending", hash |-> cmd[h].token,
                   enc |-> 0, cursor |-> 0]
<1>1. /\ adminStep[h] = "createPeer" /\ peers' = [peers EXCEPT ![p] = row]
      /\ J!Goto(h, "seal", cmd[h])
      /\ UNCHANGED <<deployments, minted, peerRevision, retired, barred, crossed>>
  BY DEF J!CreatePeer, J!hist
<1>2. h \in J!Handlers /\ Admins \subseteq J!Handlers
  BY DEF J!Handlers
<1>3. About(h) /\ peers \in [Peers -> PeerRecord \cup {None}] /\ JoinTypes /\ TokensApart
  BY <1>2, JoinFacts DEF RowsTyped
<1>4. /\ p \in Peers /\ peers[p] = None /\ J!Busy(h, p) = {}
      /\ cmd[h].region \in Slugs /\ cmd[h].token \in Nat \ {0}
  BY <1>1, <1>3 DEF About, Minting
<1>5. row \in PeerRecord /\ row.hash = cmd[h].token
  <2>1. "pending" \in J!Statuses
    BY DEF J!Statuses
  <2> QED
    BY <1>4, <2>1 DEF PeerRecord
<1> HIDE DEF row
<1>6. peers'[p] = row /\ row # None /\ \A q \in Peers \ {p} : peers'[q] = peers[q]
  BY <1>1, <1>3, <1>4, <1>5, JoinAssumption DEF PeerRecord
<1>7. /\ Alone(h) /\ HandlersTyped' /\ faults' = faults /\ adminStep'[h] = "seal"
      /\ cmd'[h] = cmd[h]
  BY <1>1, <1>2, Goes, JoinFacts
<1>8. JoinTypes'
  <2>1. peers' \in [Peers -> PeerRecord \cup {None}]
    BY <1>1, <1>3, <1>5
  <2> QED
    BY <1>1, <1>3, <1>7, <2>1
       DEF JoinTypes, HandlersTyped, PeerRecord, DeploymentRecord, J!Statuses
<1>9. RowsStay(h) /\ Enters(h)
  BY <1>1, <1>4, <1>6, <1>7 DEF RowsStay, Enters
<1>10. About(h)'
  BY <1>1, <1>4, <1>6, <1>7, <1>3, JoinAssumption DEF About, Minting
<1>11. TokensApart'
  <2>1. Carried(h) = cmd[h].token /\ Carried(h)' = 0
    BY <1>1, <1>7 DEF Carried, Minting
  <2>2. p \in J!Owners /\ Known(p)' = Carried(h)
    BY <1>4, <1>5, <1>6, <1>7, <2>1 DEF Known, J!Owners
  <2>3. \A q \in J!Owners \ {p} : Known(q)' = Known(q)
    BY <1>1, <1>6 DEF Known, J!Owners
  <2> QED
    BY <1>1, <1>2, <1>3, <1>7, <2>1, <2>2, <2>3, PutsToken DEF JoinTypes
<1>12. \A g \in J!Handlers \ {h} : cmd'[g].id # p
  BY <1>4, <1>7 DEF Alone, J!Busy
<1>13. SealsItsOwn'
  <2>1. ASSUME NEW q \in Peers \ crossed, NEW g \in Admins, NEW e \in Admins,
               Rotates(g, q)', Rotates(e, q)'
        PROVE  g = e
    <3>1. CASE q = p
      BY <1>2, <1>12, <2>1, <3>1 DEF Rotates
    <3>2. CASE q # p
      <4>1. g # h /\ e # h
        BY <1>7, <2>1, <3>2 DEF Rotates
      <4>2. Rotates(g, q) /\ Rotates(e, q)
        BY <1>2, <1>7, <2>1, <4>1 DEF Rotates, Alone
      <4> QED
        BY <4>2 DEF JoinInv, SealsItsOwn
    <3> QED
      BY <3>1, <3>2
  <2>2. ASSUME NEW q \in Peers \ crossed, NEW g \in Admins, adminStep'[g] = "seal", cmd'[g].id = q
        PROVE  cmd'[g].token = peers'[q].hash
    <3>1. CASE g = h
      BY <1>5, <1>6, <1>7, <2>2, <3>1
    <3>2. CASE g # h
      <4>1. q # p /\ adminStep[g] = "seal" /\ cmd'[g] = cmd[g]
        BY <1>2, <1>7, <1>12, <2>2, <3>2 DEF Alone
      <4>2. cmd[g].token = peers[q].hash
        BY <2>2, <4>1 DEF JoinInv, SealsItsOwn
      <4> QED
        BY <1>6, <4>1, <4>2
    <3> QED
      BY <3>1, <3>2
  <2> QED
    BY <1>1, <2>1, <2>2 DEF SealsItsOwn
<1>14. SealedIsCurrent'
  <2> SUFFICES ASSUME NEW q \in Peers, peers'[q] # None, q \notin crossed, J!Rotating(q)' = {}
               PROVE  peers'[q].enc = peers'[q].hash
    BY <1>1 DEF SealedIsCurrent, J!SealedIsCurrent
  <2>1. q # p
    BY <1>2, <1>7 DEF J!Rotating
  <2>2. J!Rotating(q) = {}
    BY <1>1, <1>2, <1>7, RotatingKept DEF Rotates
  <2> QED
    BY <1>6, <2>1, <2>2 DEF JoinInv, SealedIsCurrent, J!SealedIsCurrent
<1>15. StaysDisabled'
  <2>1. \A q \in barred : q \in Peers \ {p} /\ peers[q] # None
    BY <1>4 DEF JoinInv, StaysDisabled
  <2> QED
    BY <1>1, <1>2, <1>6, <1>7, <2>1, LeavesBar
<1> QED
  BY <1>2, <1>7, <1>8, <1>9, <1>10, <1>11, <1>13, <1>14, <1>15, JoinMoves

LEMMA RotateKeeps ==
  ASSUME JoinInv, NEW h \in Admins, NEW p \in Peers, J!RotatePeerJoinToken(h, p)
  PROVE  JoinInv'
<1> DEFINE what == [id |-> p, token |-> minted']
<1>1. /\ peers[p] # None /\ minted' = minted + 1 /\ J!Command(h, "rehash", what)
      /\ crossed' = IF J!Rotating(p) = {} THEN crossed \ {p} ELSE crossed \cup {p}
      /\ UNCHANGED <<peers, deployments, peerRevision, retired, barred>>
  BY DEF J!RotatePeerJoinToken, J!Mint
<1>2. h \in J!Handlers /\ Admins \subseteq J!Handlers
  BY DEF J!Handlers
<1>3. JoinTypes /\ TokensApart /\ minted \in Nat
  BY <1>2, JoinFacts DEF RowsTyped
<1>4. /\ adminStep[h] = "idle" /\ Alone(h) /\ adminStep'[h] = "rehash" /\ cmd'[h] = what
      /\ HandlersTyped' /\ faults' = faults
  BY <1>1, <1>2, <1>3, Commands
<1>5. cmd'[h].id = p /\ cmd'[h].token = minted + 1
  BY <1>1, <1>4
<1>6. JoinTypes'
  BY <1>1, <1>3, <1>4 DEF JoinTypes, HandlersTyped
<1>7. KnownStays /\ RowsStay(h)
  BY <1>1, HashesKnown DEF HashesStay
<1>8. Enters(h)
  BY <1>1, <1>5 DEF Enters
<1>9. About(h)'
  BY <1>1, <1>3, <1>4, <1>5, JoinAssumption DEF About, Minting
<1>10. TokensApart'
  <2>1. Carried(h)' = minted + 1
    BY <1>4, <1>5 DEF Carried, Minting
  <2> QED
    BY <1>1, <1>2, <1>3, <1>4, <1>7, <2>1, DrawsToken
<1>11. SealsItsOwn'
  <2>1. ASSUME NEW q \in Peers \ crossed', NEW g \in Admins, NEW e \in Admins,
               Rotates(g, q)', Rotates(e, q)'
        PROVE  g = e
    <3>1. (q # p => q \notin crossed) /\ (q = p => J!Rotating(p) = {})
      BY <1>1, <2>1
    <3>2. \A a \in Admins \ {h} : Rotates(a, q)' => Rotates(a, q)
      BY <1>2, <1>4 DEF Rotates, Alone
    <3>3. CASE q = p
      <4>1. \A a \in Admins \ {h} : ~Rotates(a, p)
        BY <1>2, <3>1, <3>3 DEF Rotates, J!Rotating
      <4> QED
        BY <2>1, <3>2, <3>3, <4>1
    <3>4. CASE q # p
      <4>1. ~Rotates(h, q)'
        BY <1>5, <3>4 DEF Rotates
      <4> QED
        BY <2>1, <3>1, <3>2, <3>4, <4>1 DEF JoinInv, SealsItsOwn
    <3> QED
      BY <3>3, <3>4
  <2>2. ASSUME NEW q \in Peers \ crossed', NEW g \in Admins, adminStep'[g] = "seal", cmd'[g].id = q
        PROVE  cmd'[g].token = peers'[q].hash
    <3>1. adminStep[g] = "seal" /\ cmd'[g] = cmd[g]
      BY <1>1, <1>2, <1>4, <2>2 DEF Alone
    <3>2. g \in J!Rotating(q)
      BY <1>2, <2>2, <3>1 DEF J!Rotating
    <3>3. q \notin crossed
      BY <1>1, <2>2, <3>2
    <3> QED
      BY <1>1, <2>2, <3>1, <3>3 DEF JoinInv, SealsItsOwn
  <2> QED
    BY <2>1, <2>2 DEF SealsItsOwn
<1>12. SealedIsCurrent'
  <2> SUFFICES ASSUME NEW q \in Peers, peers'[q] # None, q \notin crossed', J!Rotating(q)' = {}
               PROVE  peers'[q].enc = peers'[q].hash
    BY DEF SealedIsCurrent, J!SealedIsCurrent
  <2>1. q # p
    BY <1>2, <1>4, <1>5 DEF J!Rotating
  <2>2. q \notin crossed /\ J!Rotating(q) = {}
    BY <1>1, <1>2, <1>4, <2>1, RotatingKept DEF Rotates
  <2> QED
    BY <1>1, <2>2 DEF JoinInv, SealedIsCurrent, J!SealedIsCurrent
<1>13. StaysDisabled'
  <2>1. \A q \in barred : peers[q] # None
    BY DEF JoinInv, StaysDisabled
  <2> QED
    BY <1>1, <1>2, <1>4, <2>1, LeavesBar
<1> QED
  BY <1>2, <1>4, <1>6, <1>7, <1>8, <1>9, <1>10, <1>11, <1>12, <1>13, JoinMoves

LEMMA RehashPeerKeeps ==
  ASSUME JoinInv, NEW h \in Admins, J!UpdatePeerJoinTokenHash(h)
  PROVE  JoinInv'
<1> DEFINE p == cmd[h].id
           row == [peers[p] EXCEPT !.hash = cmd[h].token, !.status = "pending"]
<1>1. /\ adminStep[h] = "rehash" /\ J!Goto(h, "seal", cmd[h])
      /\ peers' = [peers EXCEPT ![p].hash = cmd[h].token, ![p].status = "pending"]
      /\ retired' = retired \cup {peers[p].hash} /\ barred' = barred \ {p}
      /\ UNCHANGED <<deployments, minted, peerRevision, crossed>>
  BY DEF J!UpdatePeerJoinTokenHash
<1>2. h \in J!Handlers /\ Admins \subseteq J!Handlers
  BY DEF J!Handlers
<1>3. About(h) /\ peers \in [Peers -> PeerRecord \cup {None}] /\ JoinTypes /\ TokensApart
  BY <1>2, JoinFacts DEF RowsTyped
<1>4. p \in Peers /\ peers[p] # None /\ cmd[h].token \in Nat \ {0}
  BY <1>1, <1>3 DEF About, Minting
<1>5. peers[p] \in PeerRecord
  BY <1>3, <1>4
<1>6. row \in PeerRecord /\ row.hash = cmd[h].token
  <2>1. "pending" \in J!Statuses
    BY DEF J!Statuses
  <2> QED
    BY <1>4, <1>5, <2>1 DEF PeerRecord
<1>7. peers' = [peers EXCEPT ![p] = row]
  BY <1>1, <1>3, <1>4
<1> HIDE DEF row
<1>8. peers'[p] = row /\ row # None /\ \A q \in Peers \ {p} : peers'[q] = peers[q]
  BY <1>3, <1>4, <1>6, <1>7, JoinAssumption DEF PeerRecord
<1>9. /\ Alone(h) /\ HandlersTyped' /\ faults' = faults /\ adminStep'[h] = "seal"
      /\ cmd'[h] = cmd[h]
  BY <1>1, <1>2, <1>3, Goes
<1>10. JoinTypes'
  <2>1. peers' \in [Peers -> PeerRecord \cup {None}]
    BY <1>3, <1>6, <1>7
  <2> QED
    BY <1>1, <1>3, <1>9, <2>1
       DEF JoinTypes, HandlersTyped, PeerRecord, DeploymentRecord, J!Statuses
<1>11. RowsStay(h) /\ Enters(h)
  BY <1>1, <1>4, <1>8, <1>9 DEF RowsStay, Enters
<1>12. About(h)'
  BY <1>3, <1>4, <1>8, <1>9, JoinAssumption DEF About, Minting
<1>13. TokensApart'
  <2>1. Carried(h) = cmd[h].token /\ Carried(h)' = 0
    BY <1>1, <1>9 DEF Carried, Minting
  <2>2. Known(p)' = Carried(h)
    BY <1>4, <1>6, <1>8, <1>9, <2>1 DEF Known
  <2>3. \A q \in J!Owners \ {p} : Known(q)' = Known(q)
    <3>1. deployments' = deployments
      BY <1>1
    <3> QED
      BY <1>8, <3>1 DEF Known, J!Owners
  <2>4. p \in J!Owners /\ Known(p) = peers[p].hash /\ Known(p) # 0
    BY <1>4, <1>5 DEF Known, PeerRecord, J!Owners
  <2>5. retired' = retired \cup {Known(p)} /\ minted \in Nat
    BY <1>1, <1>3, <2>4 DEF JoinTypes
  <2> HIDE DEF p
  <2> QED
    BY <1>1, <1>2, <1>3, <1>9, <2>1, <2>2, <2>3, <2>4, <2>5, PutsToken DEF p
<1>14. SealsItsOwn'
  <2>1. \A q \in Peers, g \in Admins : Rotates(g, q)' => Rotates(g, q)
    BY <1>1, <1>2, <1>9 DEF Rotates, Alone
  <2>2. ASSUME NEW q \in Peers \ crossed, NEW g \in Admins, adminStep'[g] = "seal", cmd'[g].id = q
        PROVE  cmd'[g].token = peers'[q].hash
    <3>1. CASE g = h
      BY <1>6, <1>8, <1>9, <2>2, <3>1
    <3>2. CASE g # h
      <4>1. adminStep[g] = "seal" /\ cmd'[g] = cmd[g]
        BY <1>2, <1>9, <3>2, <2>2 DEF Alone
      <4>2. q # p
        BY <1>1, <2>2, <3>2, <4>1 DEF JoinInv, SealsItsOwn, Rotates
      <4>3. cmd[g].token = peers[q].hash
        BY <2>2, <4>1 DEF JoinInv, SealsItsOwn
      <4> QED
        BY <1>8, <4>1, <4>2, <4>3
    <3> QED
      BY <3>1, <3>2
  <2> HIDE DEF Rotates
  <2>3. \A q \in Peers \ crossed, g \in Admins, e \in Admins :
          Rotates(g, q)' /\ Rotates(e, q)' => g = e
    BY <2>1 DEF JoinInv, SealsItsOwn
  <2> QED
    BY <1>1, <2>2, <2>3 DEF SealsItsOwn
<1>15. SealedIsCurrent'
  <2> SUFFICES ASSUME NEW q \in Peers, peers'[q] # None, q \notin crossed, J!Rotating(q)' = {}
               PROVE  peers'[q].enc = peers'[q].hash
    BY <1>1 DEF SealedIsCurrent, J!SealedIsCurrent
  <2>1. q # p
    BY <1>2, <1>9 DEF J!Rotating
  <2>2. J!Rotating(q) = {}
    BY <1>2, <1>9, <2>1, RotatingKept DEF Rotates
  <2> QED
    BY <1>8, <2>1, <2>2 DEF JoinInv, SealedIsCurrent, J!SealedIsCurrent
<1>16. StaysDisabled'
  <2>1. \A q \in barred : q \in Peers /\ peers[q] # None
    BY DEF JoinInv, StaysDisabled
  <2> QED
    BY <1>1, <1>2, <1>8, <1>9, <2>1, LeavesBar
<1> QED
  BY <1>2, <1>9, <1>10, <1>11, <1>12, <1>13, <1>14, <1>15, <1>16, JoinMoves

LEMMA SealPeerKeeps ==
  ASSUME JoinInv, NEW h \in Admins, J!UpdatePeerJoinTokenEnc(h)
  PROVE  JoinInv'
<1> DEFINE p == cmd[h].id
           row == [peers[p] EXCEPT !.enc = cmd[h].token]
<1>1. /\ adminStep[h] = "seal" /\ J!Goto(h, "idle", J!Idle)
      /\ peers' = [peers EXCEPT ![p].enc = cmd[h].token]
      /\ UNCHANGED <<deployments, minted, peerRevision, retired, barred, crossed>>
  BY DEF J!UpdatePeerJoinTokenEnc, J!Done, J!hist
<1>2. h \in J!Handlers /\ Admins \subseteq J!Handlers
  BY DEF J!Handlers
<1>3. About(h) /\ peers \in [Peers -> PeerRecord \cup {None}] /\ JoinTypes /\ TokensApart
  BY <1>2, JoinFacts DEF RowsTyped
<1>4. p \in Peers /\ peers[p] # None /\ cmd[h].token \in Nat \ {0}
  BY <1>1, <1>3 DEF About, Minting
<1>5. peers[p] \in PeerRecord
  BY <1>3, <1>4
<1>6. /\ row \in PeerRecord /\ row.enc = cmd[h].token /\ row.hash = peers[p].hash
      /\ row.status = peers[p].status
  BY <1>4, <1>5 DEF PeerRecord
<1>7. peers' = [peers EXCEPT ![p] = row]
  BY <1>1
<1> HIDE DEF row
<1>8. peers'[p] = row /\ row # None /\ \A q \in Peers \ {p} : peers'[q] = peers[q]
  BY <1>3, <1>4, <1>6, <1>7, JoinAssumption DEF PeerRecord
<1>9. /\ Alone(h) /\ HandlersTyped' /\ faults' = faults /\ adminStep'[h] = "idle"
      /\ cmd'[h].id = None
  BY <1>1, <1>2, <1>3, Goes DEF J!Idle
<1>10. JoinTypes'
  <2>1. peers' \in [Peers -> PeerRecord \cup {None}]
    BY <1>3, <1>6, <1>7
  <2> QED
    BY <1>1, <1>3, <1>9, <2>1
       DEF JoinTypes, HandlersTyped, PeerRecord, DeploymentRecord, J!Statuses
<1>11. HashesStay
  BY <1>1, <1>4, <1>6, <1>8 DEF HashesStay
<1>12. KnownStays /\ RowsStay(h)
  BY <1>11, HashesKnown
<1>13. Carried(h)' = 0 /\ Enters(h) /\ About(h)'
  BY <1>9, JoinAssumption DEF Carried, Minting, Enters, About
<1>14. TokensApart'
  BY <1>1, <1>2, <1>3, <1>9, <1>12, <1>13, LeavesTokens DEF JoinTypes
<1>15. SealsItsOwn'
  <2>1. \A q \in Peers, g \in Admins : Rotates(g, q)' => Rotates(g, q)
    BY <1>2, <1>9 DEF Rotates, Alone
  <2>2. ASSUME NEW q \in Peers \ crossed, NEW g \in Admins, adminStep'[g] = "seal", cmd'[g].id = q
        PROVE  cmd'[g].token = peers'[q].hash
    <3>1. adminStep[g] = "seal" /\ cmd'[g] = cmd[g]
      BY <1>2, <1>9, <2>2 DEF Alone
    <3>2. cmd[g].token = peers[q].hash
      BY <2>2, <3>1 DEF JoinInv, SealsItsOwn
    <3> QED
      BY <1>6, <1>8, <3>1, <3>2
  <2> HIDE DEF Rotates
  <2>3. \A q \in Peers \ crossed, g \in Admins, e \in Admins :
          Rotates(g, q)' /\ Rotates(e, q)' => g = e
    BY <2>1 DEF JoinInv, SealsItsOwn
  <2> QED
    BY <1>1, <2>2, <2>3 DEF SealsItsOwn
<1>16. SealedIsCurrent'
  <2> SUFFICES ASSUME NEW q \in Peers, peers'[q] # None, q \notin crossed, J!Rotating(q)' = {}
               PROVE  peers'[q].enc = peers'[q].hash
    BY <1>1 DEF SealedIsCurrent, J!SealedIsCurrent
  <2>1. CASE q = p
    <3>1. cmd[h].token = peers[p].hash
      BY <1>1, <2>1 DEF JoinInv, SealsItsOwn
    <3> QED
      BY <1>6, <1>8, <2>1, <3>1
  <2>2. CASE q # p
    <3>1. J!Rotating(q) = {}
      BY <1>2, <1>9, <2>2, RotatingKept DEF Rotates
    <3> QED
      BY <1>8, <2>2, <3>1 DEF JoinInv, SealedIsCurrent, J!SealedIsCurrent
  <2> QED
    BY <2>1, <2>2
<1>17. StaysDisabled'
  <2>1. \A q \in barred : q \in Peers /\ peers[q] # None
    BY DEF JoinInv, StaysDisabled
  <2> QED
    BY <1>1, <1>2, <1>6, <1>8, <1>9, <2>1, LeavesBar
<1> QED
  BY <1>2, <1>9, <1>10, <1>12, <1>13, <1>14, <1>15, <1>16, <1>17, JoinMoves

\* A deployment is written, with the hash it has or with the one its handler carries.
LEMMA WritesDeployment ==
  ASSUME JoinInv, NEW h \in J!Handlers, Alone(h), HandlersTyped', faults' = faults,
         UNCHANGED <<peers, minted, peerRevision, barred, crossed>>,
         NEW d \in Deployments, NEW row \in DeploymentRecord,
         deployments' = [deployments EXCEPT ![d] = row],
         \/ row.hash = Known(d) /\ retired' = retired
         \/ row.hash = Carried(h) /\ retired' = retired
         \/ /\ row.hash = Carried(h) /\ deployments[d] # None
            /\ retired' = retired \cup {deployments[d].hash},
         adminStep[h] \notin {"rehash", "seal"}, adminStep'[h] = "idle", cmd'[h].id = None
  PROVE  JoinInv'
<1>1. /\ JoinTypes /\ TokensApart /\ deployments \in [Deployments -> DeploymentRecord \cup {None}]
      /\ row # None /\ d \notin Peers /\ d \in J!Owners
  BY JoinFacts, JoinAssumption DEF RowsTyped, DeploymentRecord, J!Owners
<1>2. /\ deployments' \in [Deployments -> DeploymentRecord \cup {None}] /\ deployments'[d] = row
      /\ \A q \in Deployments \ {d} : deployments'[q] = deployments[q]
  BY <1>1
<1>3. JoinTypes'
  BY <1>1, <1>2 DEF JoinTypes, HandlersTyped, PeerRecord, DeploymentRecord, J!Statuses
<1>4. RowsStay(h)
  BY <1>1, <1>2 DEF RowsStay
<1>5. Carried(h)' = 0 /\ Enters(h) /\ About(h)'
  BY JoinAssumption DEF Carried, Minting, Enters, About
<1>6. Known(d)' = row.hash /\ \A q \in J!Owners \ {d} : Known(q)' = Known(q)
  BY <1>1, <1>2 DEF Known, J!Owners
<1>7. deployments[d] # None => Known(d) = deployments[d].hash /\ Known(d) # 0
  BY <1>1 DEF Known, DeploymentRecord
<1>8. TokensApart'
  <2>1. CASE row.hash = Known(d) /\ retired' = retired
    BY <1>1, <1>5, <1>6, <2>1, LeavesTokens DEF KnownStays, JoinTypes
  <2>2. CASE row.hash = Carried(h) /\ retired' = retired
    BY <1>1, <1>5, <1>6, <2>2, PutsToken DEF JoinTypes
  <2>3. CASE /\ row.hash = Carried(h) /\ deployments[d] # None
             /\ retired' = retired \cup {deployments[d].hash}
    BY <1>1, <1>5, <1>6, <1>7, <2>3, PutsToken DEF JoinTypes
  <2> QED
    BY <2>1, <2>2, <2>3
<1>9. SealsItsOwn' /\ SealedIsCurrent'
  BY LeavesSeals DEF Rotates
<1>10. StaysDisabled'
  <2>1. \A q \in barred : peers[q] # None
    BY DEF JoinInv, StaysDisabled
  <2> QED
    BY <2>1, LeavesBar
<1> QED
  BY <1>3, <1>4, <1>5, <1>8, <1>9, <1>10, JoinMoves

LEMMA InsertDeploymentKeeps ==
  ASSUME JoinInv, NEW h \in Admins, J!InsertDeployment(h)
  PROVE  JoinInv'
<1> DEFINE d == cmd[h].id
           row == [region |-> cmd[h].region, status |-> "pending", hash |-> cmd[h].token]
<1>1. /\ adminStep[h] = "insertDeployment" /\ J!Goto(h, "idle", J!Idle)
      /\ deployments' = [deployments EXCEPT ![d] = row]
      /\ UNCHANGED <<peers, minted, peerRevision, retired, barred, crossed>>
  BY DEF J!InsertDeployment, J!Done, J!hist
<1>2. h \in J!Handlers
  BY DEF J!Handlers
<1>3. d \in Deployments /\ cmd[h].region \in Slugs /\ cmd[h].token \in Nat \ {0}
  <2>1. About(h)
    BY <1>2, JoinFacts
  <2> QED
    BY <1>1, <2>1 DEF About, Minting
<1>4. row \in DeploymentRecord /\ row.hash = Carried(h)
  BY <1>1, <1>3 DEF DeploymentRecord, Carried, Minting
<1> HIDE DEF row
<1>5. /\ Alone(h) /\ HandlersTyped' /\ faults' = faults /\ adminStep'[h] = "idle"
      /\ cmd'[h].id = None
  BY <1>1, <1>2, Goes, JoinFacts DEF J!Idle
<1> HIDE DEF d
<1> QED
  BY <1>1, <1>2, <1>3, <1>4, <1>5, WritesDeployment

LEMMA RehashDeploymentKeeps ==
  ASSUME JoinInv, NEW h \in Admins, J!UpdateJoinTokenHash(h)
  PROVE  JoinInv'
<1> DEFINE d == cmd[h].id
           row == [deployments[d] EXCEPT !.hash = cmd[h].token]
<1>1. /\ adminStep[h] = "rehashDeployment" /\ J!Goto(h, "idle", J!Idle)
      /\ deployments' = [deployments EXCEPT ![d].hash = cmd[h].token]
      /\ retired' = retired \cup {deployments[d].hash}
      /\ UNCHANGED <<peers, minted, peerRevision, barred, crossed>>
  BY DEF J!UpdateJoinTokenHash, J!Done
<1>2. h \in J!Handlers
  BY DEF J!Handlers
<1>3. About(h) /\ deployments \in [Deployments -> DeploymentRecord \cup {None}]
  BY <1>2, JoinFacts DEF RowsTyped
<1>4. d \in Deployments /\ deployments[d] # None /\ cmd[h].token \in Nat \ {0}
  BY <1>1, <1>3 DEF About, Minting
<1>5. row \in DeploymentRecord /\ row.hash = Carried(h)
  <2>1. deployments[d] \in DeploymentRecord
    BY <1>3, <1>4
  <2> QED
    BY <1>1, <1>4, <2>1 DEF DeploymentRecord, Carried, Minting
<1>6. deployments' = [deployments EXCEPT ![d] = row]
  BY <1>1
<1> HIDE DEF row
<1>7. /\ Alone(h) /\ HandlersTyped' /\ faults' = faults /\ adminStep'[h] = "idle"
      /\ cmd'[h].id = None
  BY <1>1, <1>2, Goes, JoinFacts DEF J!Idle
<1> HIDE DEF d
<1> QED
  BY <1>1, <1>2, <1>4, <1>5, <1>6, <1>7, WritesDeployment

LEMMA RecordHeartbeatKeeps ==
  ASSUME JoinInv, NEW d \in Deployments, J!RecordHeartbeat(d)
  PROVE  JoinInv'
<1> DEFINE row == [deployments[d] EXCEPT !.status = "healthy"]
<1>1. /\ adminStep[d] = "heartbeat" /\ J!Goto(d, "idle", J!Idle)
      /\ deployments' = [deployments EXCEPT ![d].status = "healthy"]
      /\ UNCHANGED <<peers, minted, peerRevision, retired, barred, crossed>>
  BY DEF J!RecordHeartbeat, J!Done, J!hist
<1>2. d \in J!Handlers
  BY DEF J!Handlers, J!Owners
<1>3. About(d) /\ deployments \in [Deployments -> DeploymentRecord \cup {None}]
  BY <1>2, JoinFacts DEF RowsTyped
<1>4. deployments[d] # None /\ deployments[d] \in DeploymentRecord
  BY <1>1, <1>3 DEF About
<1>5. row \in DeploymentRecord /\ row.hash = Known(d)
  BY <1>4, JoinAssumption DEF DeploymentRecord, Known
<1>6. deployments' = [deployments EXCEPT ![d] = row]
  BY <1>1
<1> HIDE DEF row
<1>7. /\ Alone(d) /\ HandlersTyped' /\ faults' = faults /\ adminStep'[d] = "idle"
      /\ cmd'[d].id = None
  BY <1>1, <1>2, Goes, JoinFacts DEF J!Idle
<1> QED
  BY <1>1, <1>2, <1>5, <1>6, <1>7, WritesDeployment

-----------------------------------------------------------------------------
(* JoinTokens: every step keeps it *)

LEMMA ElsewhereKeeps ==
  ASSUME JoinInv, peerRevision' \in Nat,
         UNCHANGED <<peers, deployments, minted, adminStep, cmd, retired, barred, crossed, faults>>
  PROVE  JoinInv'
<1>1. JoinTypes'
  BY DEF JoinInv, JoinTypes, PeerRecord, DeploymentRecord, J!Statuses
<1>2. ASSUME NEW h \in J!Handlers PROVE About(h)'
  <2>1. About(h)
    BY DEF JoinInv
  <2> QED
    BY <2>1 DEF About, Minting, J!Busy, J!Statuses, PeerRecord
<1>3. TokensApart'
  BY DEF JoinInv, TokensApart, Known, Carried, Minting
<1>4. SealsItsOwn'
  BY DEF JoinInv, SealsItsOwn, Rotates
<1>5. SealedIsCurrent'
  BY DEF JoinInv, SealedIsCurrent, J!SealedIsCurrent, J!Rotating
<1>6. StaysDisabled'
  BY DEF JoinInv, StaysDisabled
<1> QED
  BY <1>1, <1>2, <1>3, <1>4, <1>5, <1>6 DEF JoinInv

LEMMA JoinInitially == J!Init => JoinInv
<1> SUFFICES ASSUME J!Init PROVE JoinInv
  OBVIOUS
<1>1. /\ \A p \in Peers : peers[p] = None
      /\ \A h \in J!Handlers : adminStep[h] = "idle" /\ cmd[h] = J!Idle
      /\ \A d \in Deployments : deployments[d] = None
      /\ minted = 0 /\ retired = {} /\ barred = {} /\ crossed = {}
  BY DEF J!Init
<1>2. JoinTypes
  BY DEF J!Init, JoinTypes
<1>3. ASSUME NEW h \in J!Handlers PROVE About(h) /\ Carried(h) = 0
  <2>1. adminStep[h] = "idle" /\ cmd[h].id = None
    BY <1>1 DEF J!Idle
  <2> QED
    BY <2>1 DEF About, Minting, Carried
<1>4. \A o \in J!Owners : Known(o) = 0
  BY <1>1 DEF Known, J!Owners
<1>5. TokensApart
  BY <1>1, <1>3, <1>4 DEF TokensApart
<1>6. SealsItsOwn /\ SealedIsCurrent /\ StaysDisabled
  BY <1>1 DEF SealsItsOwn, Rotates, SealedIsCurrent, J!SealedIsCurrent, StaysDisabled, J!Handlers
<1> QED
  BY <1>2, <1>3, <1>5, <1>6 DEF JoinInv

LEMMA JoinStepKeeps ==
  ASSUME JoinInv, [J!Next]_(J!vars)
  PROVE  JoinInv'
<1>1. peerRevision \in Nat
  BY DEF JoinInv, JoinTypes
<1>2. CASE UNCHANGED J!vars
  BY <1>1, <1>2, ElsewhereKeeps DEF J!vars, J!rows, J!hist
<1>3. ASSUME NEW h \in Admins, J!Request(h) PROVE JoinInv'
  BY <1>3, RegisterPeerKeeps, UpdatePeerKeeps, RotateKeeps, RegisterDeploymentKeeps DEF J!Request
<1>4. ASSUME NEW h \in Admins, J!AdminStep(h) PROVE JoinInv'
  BY <1>4, CreatePeerKeeps, WritePeerKeeps, RehashPeerKeeps, SealPeerKeeps,
     InsertDeploymentKeeps, RehashDeploymentKeeps DEF J!AdminStep
<1>5. ASSUME NEW p \in Peers, J!Pull(p) PROVE JoinInv'
  BY <1>5, AuthenticateKeeps, ActivateKeeps, ExportKeeps, RecordPeerSyncKeeps DEF J!Pull
<1>6. ASSUME NEW d \in Deployments, J!Beat(d) PROVE JoinInv'
  BY <1>6, HeartbeatKeeps, RecordHeartbeatKeeps DEF J!Beat
<1>7. CASE J!BumpRevision
  BY <1>1, <1>7, ElsewhereKeeps DEF J!BumpRevision, J!hist
<1>8. ASSUME NEW o, NEW token, J!Configure(o, token) PROVE JoinInv'
  BY <1>1, <1>8, ElsewhereKeeps DEF J!Configure, J!rows, J!hist
<1> QED
  BY <1>2, <1>3, <1>4, <1>5, <1>6, <1>7, <1>8, FailKeeps DEF J!Next

\* Where every token is, who is rotating what, and who knows a disabled peer.
THEOREM JoinInvariant == J!Spec => []JoinInv
<1>1. JoinInv /\ [J!Next]_(J!vars) => JoinInv'
  BY JoinStepKeeps
<1> QED
  BY <1>1, JoinInitially, PTL DEF J!Spec

\* A token that was replaced is the token of no row (AuthenticatePeerToken, Heartbeat).
THEOREM RevokedIsOut == J!Spec => []RevokedStaysOut
<1>1. JoinInv => RevokedStaysOut
  BY JoinAssumption
     DEF JoinInv, TokensApart, Known, RevokedStaysOut, J!RevokedStaysOut, J!Owners
<1> QED
  BY <1>1, JoinInvariant, PTL

\* What the hub would call a peer back with is what the peer is known by, after every
\* rotation that ran alone (RotatePeerJoinToken).
THEOREM SealedIsKnown == J!Spec => []SealedIsCurrent
<1>1. JoinInv => SealedIsCurrent
  BY DEF JoinInv
<1> QED
  BY <1>1, JoinInvariant, PTL

\* A peer disabled while nobody held an earlier status of it to write stays so until it is
\* given another status or token.
THEOREM DisabledIsOut == J!Spec => []DisabledStaysOut
<1>1. JoinInv => DisabledStaysOut
  BY DEF JoinInv, StaysDisabled, DisabledStaysOut, J!DisabledStaysOut
<1> QED
  BY <1>1, JoinInvariant, PTL
=============================================================================
