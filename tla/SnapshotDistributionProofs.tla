---------------------- MODULE SnapshotDistributionProofs ----------------------
(***************************************************************************)
(* Proofs about SnapshotDistribution, for any number of publishers,        *)
(* gateways, tables and regions.                                           *)
(***************************************************************************)
EXTENDS SnapshotDistribution, TLAPS

Loaded    == {"insert", "commit", "blob", "pointer", "members", "bump"}
Numbered  == {"commit", "blob", "pointer", "members", "bump"}
Committed == {"blob", "pointer", "members", "bump"}

\* What a publisher has loaded lies between the configuration its command began
\* with and the present one.
LoadedWindow ==
  \A p \in Publishers :
    /\ pc[p] # "idle" => Within(began[p], rows)
    /\ pc[p] \in {"idle", "early"} => next[p] = 1
    /\ pc[p] = "load" => \A t \in Tables : t < next[p] =>
         began[p][t] <= base[p][t] /\ base[p][t] <= rows[t]
    /\ pc[p] \in Loaded => Within(began[p], base[p]) /\ Within(base[p], rows)

\* A serial is drawn once: two publishers never share it, and it is not the
\* version of a row until its owner commits.
SerialUnique ==
  /\ \A p \in Publishers : pc[p] \in Numbered => version[p] \in 1..seq
  /\ \A p, q \in Publishers :
       pc[p] \in Numbered /\ pc[q] \in Numbered /\ version[p] = version[q] => p = q
  /\ \A s \in snapshots : s.version \in 1..seq
  /\ \A p \in Publishers : pc[p] = "commit" => \A s \in snapshots : s.version # version[p]
  /\ \A s, o \in snapshots : s.version = o.version => s = o

\* Past its COMMIT a publisher mirrors the row it committed.
CommittedRow ==
  \A p \in Publishers : pc[p] \in Committed =>
    [version |-> version[p], base |-> base[p], began |-> began[p]] \in snapshots

\* A publisher writes the prefixes upwards: its version is not yet an object at the
\* prefix it is about to write, nor beyond, and it is one at the prefix whose
\* pointer it is about to move.
MirrorProgress ==
  \A p \in Publishers :
    /\ pc[p] \in {"blob", "members"} =>
         \A b \in blobs : b.version = version[p] => b.prefix < prefix[p]
    /\ pc[p] = "pointer" =>
         /\ \A b \in blobs : b.version = version[p] => b.prefix <= prefix[p]
         /\ \E b \in blobs : b.version = version[p] /\ b.prefix = prefix[p]
    /\ pc[p] = "commit" => prefix[p] = 0

\* The idle and loading publishers start the mirror at the global prefix.
PrefixReset ==
  \A p \in Publishers :
    pc[p] \in {"idle", "early", "load", "insert", "commit"} => prefix[p] = 0

IInv ==
  /\ TypeOK
  /\ LoadedWindow
  /\ SerialUnique
  /\ CommittedRow
  /\ MirrorProgress
  /\ PrefixReset
  /\ PointerNamesBlob
  /\ MirrorAgreesWithPrimary
  /\ SnapshotCoversItsStart
  /\ HeldWasPublished

-----------------------------------------------------------------------------
USE DistributionAssumption

(* Types *)

\* The initial state has the types of TypeOK.
LEMMA InitType == Init => TypeOK
BY DEF Init, TypeOK, Zero, Vector, Nothing, Payload, Steps, Tables, Regions, Prefixes, Row, Blob

\* Starting a command, and returning from one, keep the types.
LEMMA BeginType ==
  ASSUME TypeOK, NEW p \in Publishers, NEW step \in {"load", "early"}, NEW t \in Tables \cup {0},
         NEW r \in Regions \cup {0}, Begin(p, step, t, r),
         rows' \in Vector, memb' \in [Regions -> Nat]
  PROVE  TypeOK'
BY DEF TypeOK, Begin, storeVars, gatewayVars, Vector, Steps

\* Returning to the caller keeps the types of the locals.
LEMMA ReturnType ==
  ASSUME TypeOK, NEW p \in Publishers, Return(p)
  PROVE  /\ pc' \in [Publishers -> Steps]
         /\ own' \in [Publishers -> Tables \cup {0}]
         /\ only' \in [Publishers -> Regions \cup {0}]
         /\ next' \in [Publishers -> Tables]
         /\ base' \in [Publishers -> Vector]
         /\ members' \in [Publishers -> Nat]
         /\ version' \in [Publishers -> Nat]
         /\ prefix' \in [Publishers -> Prefixes]
         /\ began' \in [Publishers -> Vector]
         /\ \A q \in Publishers : pc'[q] = "members" => prefix'[q] \in Regions
<1>1. Zero \in Vector /\ 1 \in Tables /\ 0 \in Prefixes /\ "idle" \in Steps
  BY DEF Zero, Vector, Tables, Prefixes, Steps
<1>2. base' \in [Publishers -> Vector] /\ began' \in [Publishers -> Vector]
  BY <1>1 DEF Return, TypeOK
<1>3. /\ pc' \in [Publishers -> Steps]
      /\ own' \in [Publishers -> Tables \cup {0}]
      /\ only' \in [Publishers -> Regions \cup {0}]
      /\ next' \in [Publishers -> Tables]
      /\ members' \in [Publishers -> Nat]
      /\ version' \in [Publishers -> Nat]
      /\ prefix' \in [Publishers -> Prefixes]
  BY <1>1 DEF Return, TypeOK
<1>4. \A q \in Publishers : pc'[q] = "members" => prefix'[q] \in Regions
  BY DEF Return, TypeOK
<1> QED
  BY <1>2, <1>3, <1>4

\* Acknowledging a change keeps the type of acked.
LEMMA SucceedType ==
  ASSUME TypeOK, NEW p \in Publishers, Succeed(p)
  PROVE  acked' \in Vector
BY DEF TypeOK, Succeed, Vector

\* Every step of a publisher keeps the types.
LEMMA PublisherType ==
  ASSUME TypeOK, NEW p \in Publishers, PublisherStep(p)
  PROVE  TypeOK'
<1>1. CASE \E t \in Tables : ChangeConfig(p, t)
  <2>1. PICK t \in Tables : ChangeConfig(p, t)
    BY <1>1
  <2>2. rows' \in Vector /\ memb' \in [Regions -> Nat] /\ Begin(p, "load", t, 0)
    BY <2>1 DEF ChangeConfig, TypeOK, Vector
  <2> QED
    BY <2>2, BeginType
<1>2. CASE \E r \in Regions : ChangeRegion(p, r)
  <2>1. PICK r \in Regions : ChangeRegion(p, r)
    BY <1>2
  <2>2. rows' \in Vector /\ memb' \in [Regions -> Nat] /\ Begin(p, "early", 0, r)
    BY <2>1 DEF ChangeRegion, TypeOK, Vector
  <2> QED
    BY <2>2, BeginType
<1>3. CASE Republish(p)
  <2>1. rows' \in Vector /\ memb' \in [Regions -> Nat] /\ Begin(p, "load", 0, 0)
    BY <1>3 DEF Republish, TypeOK, Vector, configVars
  <2> QED
    BY <2>1, BeginType
<1>4. CASE EarlyBump(p)
  BY <1>4 DEF EarlyBump, TypeOK, Steps, configVars, gatewayVars
<1>5. CASE ReadTable(p)
  <2>1. next' \in [Publishers -> Tables]
    BY <1>5 DEF ReadTable, TypeOK, Tables
  <2>2. base' \in [Publishers -> Vector]
    BY <1>5 DEF ReadTable, TypeOK, Vector
  <2>3. pc' \in [Publishers -> Steps]
    BY <1>5 DEF ReadTable, TypeOK, Steps
  <2> QED
    BY <1>5, <2>1, <2>2, <2>3 DEF ReadTable, TypeOK, configVars, storeVars, gatewayVars
<1>6. CASE InsertRow(p)
  BY <1>6 DEF InsertRow, TypeOK, Steps, configVars, gatewayVars
<1>7. CASE CommitRow(p)
  <2>1. snapshots' \subseteq Row
    BY <1>7 DEF CommitRow, TypeOK, Row
  <2>2. CASE MirrorOn
    BY <1>7, <2>1, <2>2 DEF CommitRow, TypeOK, Steps, configVars, gatewayVars
  <2>3. CASE ~MirrorOn
    <3>1. Succeed(p) /\ Return(p)
      BY <1>7, <2>3 DEF CommitRow, Succeed
    <3> QED
      BY <1>7, <2>1, <3>1, ReturnType, SucceedType DEF CommitRow, TypeOK, configVars, gatewayVars
  <2> QED
    BY <2>2, <2>3
<1>8. CASE PutBlob(p)
  <2>1. blobs' \subseteq Blob
    BY <1>8 DEF PutBlob, TypeOK, Blob
  <2> QED
    BY <1>8, <2>1 DEF PutBlob, TypeOK, Steps, configVars, gatewayVars
<1>9. CASE PutPointer(p)
  <2>1. Following(p) \subseteq Regions
    BY DEF Following, Targets, TypeOK
  <2>2. /\ prefix' \in [Publishers -> Prefixes]
        /\ pc' \in [Publishers -> Steps]
        /\ \A q \in Publishers : pc'[q] = "members" => prefix'[q] \in Regions
    <3>1. CASE Following(p) = {}
      <4>1. pc' = [pc EXCEPT ![p] = "bump"] /\ prefix' = prefix
        BY <1>9, <3>1 DEF PutPointer
      <4> QED
        BY <4>1 DEF TypeOK, Steps
    <3>2. CASE Following(p) # {}
      <4>1. PICK r \in Following(p) :
              prefix' = [prefix EXCEPT ![p] = r] /\ pc' = [pc EXCEPT ![p] = "members"]
        BY <1>9, <3>2 DEF PutPointer
      <4>2. r \in Regions /\ r \in Prefixes
        BY <2>1 DEF Regions, Prefixes
      <4> QED
        BY <4>1, <4>2 DEF TypeOK, Steps
    <3> QED
      BY <3>1, <3>2
  <2> QED
    BY <1>9, <2>2 DEF PutPointer, TypeOK, configVars, gatewayVars
<1>10. CASE ReadMembers(p)
  <2>1. memb[prefix[p]] \in Nat
    BY <1>10 DEF ReadMembers, TypeOK
  <2> QED
    BY <1>10, <2>1 DEF ReadMembers, TypeOK, Steps, configVars, storeVars, gatewayVars
<1>11. CASE FinalBump(p)
  <2>1. Return(p)
    BY <1>11 DEF FinalBump, Succeed
  <2> QED
    BY <1>11, <2>1, ReturnType, SucceedType DEF FinalBump, TypeOK, configVars, gatewayVars
<1>12. CASE Fail(p)
  BY <1>12, ReturnType DEF Fail, TypeOK, configVars, storeVars, gatewayVars
<1> QED
  BY <1>1, <1>2, <1>3, <1>4, <1>5, <1>6, <1>7, <1>8, <1>9, <1>10, <1>11, <1>12
  DEF PublisherStep

\* Every step of a gateway keeps the types.
LEMMA GatewayType ==
  ASSUME TypeOK, NEW g \in Gateways,
         \/ Start(g) \/ Exit(g)
         \/ g \in PgGateways /\ Check(g)
         \/ g \in MirrorGateways /\ (ReadPointer(g) \/ ReadBlob(g))
  PROVE  TypeOK'
<1>0. Nothing \in Payload
  BY DEF Nothing, Payload, Zero, Vector
<1>1. CASE Start(g)
  BY <1>1 DEF Start, TypeOK, configVars, localVars, storeVars
<1>2. CASE Exit(g)
  BY <1>0, <1>2 DEF Exit, TypeOK, configVars, localVars, storeVars
<1>3. CASE Check(g)
  <2>1. held' \in [Gateways -> Payload]
    BY <1>3 DEF Check, TypeOK, Row, Payload
  <2> QED
    BY <1>3, <2>1 DEF Check, TypeOK, configVars, localVars, storeVars
<1>4. CASE g \in MirrorGateways /\ ReadPointer(g)
  BY <1>4 DEF ReadPointer, TypeOK, configVars, localVars, storeVars
<1>5. CASE g \in MirrorGateways /\ ReadBlob(g)
  <2>1. held' \in [Gateways -> Payload]
    BY <1>5 DEF ReadBlob, TypeOK, Blob, Payload, BlobAt
  <2> QED
    BY <1>5, <2>1 DEF ReadBlob, TypeOK, configVars, localVars, storeVars
<1> QED
  BY <1>1, <1>2, <1>3, <1>4, <1>5

\* TypeOK is inductive on its own.
LEMMA NextType == TypeOK /\ [Next]_vars => TypeOK'
<1> SUFFICES ASSUME TypeOK, [Next]_vars PROVE TypeOK'
  OBVIOUS
<1>1. CASE \E p \in Publishers : PublisherStep(p)
  BY <1>1, PublisherType
<1>2. CASE \E g \in Gateways :
             \/ Start(g) \/ Exit(g)
             \/ g \in PgGateways /\ Check(g)
             \/ g \in MirrorGateways /\ (ReadPointer(g) \/ ReadBlob(g))
  BY <1>2, GatewayType
<1>3. CASE UNCHANGED vars
  BY <1>3 DEF vars, configVars, localVars, storeVars, gatewayVars, TypeOK
<1> QED
  BY <1>1, <1>2, <1>3 DEF Next, Gateways

\* In every reachable state each variable has its type: in particular the location
\* at which a publisher reads a region's data is always a region.
THEOREM TypeCorrect == Spec => []TypeOK
BY InitType, NextType, PTL DEF Spec

-----------------------------------------------------------------------------
(* The inductive invariant *)

\* The inductive invariant holds when nothing has been published.
LEMMA InitIInv == Init => IInv
<1> SUFFICES ASSUME Init PROVE IInv
  OBVIOUS
<1>1. TypeOK
  BY InitType
<1>2. LoadedWindow
  BY DEF Init, LoadedWindow, Within, Zero, Loaded
<1>3. SerialUnique /\ CommittedRow
  BY DEF Init, SerialUnique, CommittedRow, Numbered, Committed
<1>4. MirrorProgress /\ PrefixReset
  BY DEF Init, MirrorProgress, PrefixReset
<1>5. PointerNamesBlob /\ MirrorAgreesWithPrimary /\ SnapshotCoversItsStart
  BY DEF Init, PointerNamesBlob, MirrorAgreesWithPrimary, SnapshotCoversItsStart
<1>6. HeldWasPublished
  BY DEF Init, HeldWasPublished, Nothing
<1> QED
  BY <1>1, <1>2, <1>3, <1>4, <1>5, <1>6 DEF IInv

\* A step of a publisher touches no local of another one.
LEMMA OthersUntouched ==
  ASSUME TypeOK, NEW p \in Publishers, PublisherStep(p),
         NEW q \in Publishers, q # p
  PROVE  /\ pc'[q] = pc[q] /\ own'[q] = own[q] /\ only'[q] = only[q]
         /\ next'[q] = next[q] /\ base'[q] = base[q] /\ members'[q] = members[q]
         /\ version'[q] = version[q] /\ prefix'[q] = prefix[q] /\ began'[q] = began[q]
<1>1. CASE \E t \in Tables : ChangeConfig(p, t)
  BY <1>1 DEF ChangeConfig, Begin, TypeOK
<1>2. CASE \E r \in Regions : ChangeRegion(p, r)
  BY <1>2 DEF ChangeRegion, Begin, TypeOK
<1>3. CASE Republish(p)
  BY <1>3 DEF Republish, Begin, TypeOK
<1>4. CASE EarlyBump(p)
  BY <1>4 DEF EarlyBump, TypeOK
<1>5. CASE ReadTable(p)
  BY <1>5 DEF ReadTable, TypeOK
<1>6. CASE InsertRow(p)
  BY <1>6 DEF InsertRow, TypeOK
<1>7. CASE CommitRow(p)
  BY <1>7 DEF CommitRow, Succeed, Return, TypeOK
<1>8. CASE PutBlob(p)
  BY <1>8 DEF PutBlob, TypeOK
<1>9. CASE PutPointer(p)
  BY <1>9 DEF PutPointer, TypeOK
<1>10. CASE ReadMembers(p)
  BY <1>10 DEF ReadMembers, TypeOK
<1>11. CASE FinalBump(p)
  BY <1>11 DEF FinalBump, Succeed, Return, TypeOK
<1>12. CASE Fail(p)
  BY <1>12 DEF Fail, Return, TypeOK
<1> QED
  BY <1>1, <1>2, <1>3, <1>4, <1>5, <1>6, <1>7, <1>8, <1>9, <1>10, <1>11, <1>12
  DEF PublisherStep

\* Configuration only grows.
LEMMA RowsGrow ==
  ASSUME TypeOK, NEW p \in Publishers, PublisherStep(p)
  PROVE  Within(rows, rows')
<1>1. CASE \E t \in Tables : ChangeConfig(p, t)
  BY <1>1 DEF ChangeConfig, TypeOK, Within, Vector
<1>2. CASE rows' = rows
  BY <1>2 DEF TypeOK, Within, Vector
<1> QED
  BY <1>1, <1>2 DEF PublisherStep, ChangeRegion, Republish, EarlyBump, ReadTable, InsertRow,
     CommitRow, PutBlob, PutPointer, ReadMembers, FinalBump, Fail, configVars

\* The order of table vectors is transitive.
LEMMA WithinTrans ==
  ASSUME NEW a \in Vector, NEW b \in Vector, NEW c \in Vector, Within(a, b), Within(b, c)
  PROVE  Within(a, c)
BY DEF Within, Vector

\* A concurrent change only widens the window of a load in progress, and a SELECT
\* reads inside it.
LEMMA LoadedWindowStep ==
  ASSUME TypeOK, LoadedWindow, NEW p \in Publishers, PublisherStep(p)
  PROVE  LoadedWindow'
<1>1. TypeOK' /\ Within(rows, rows')
  BY PublisherType, RowsGrow
<1> DEFINE Window(q) ==
      /\ pc[q] # "idle" => Within(began[q], rows)
      /\ pc[q] \in {"idle", "early"} => next[q] = 1
      /\ pc[q] = "load" => \A t \in Tables : t < next[q] =>
           began[q][t] <= base[q][t] /\ base[q][t] <= rows[t]
      /\ pc[q] \in Loaded => Within(began[q], base[q]) /\ Within(base[q], rows)
<1> HIDE DEF Window
<1>2. \A q \in Publishers : Window(q)
  BY DEF LoadedWindow, Window
<1>3. ASSUME NEW q \in Publishers, q # p
      PROVE  Window(q)'
  <2>1. /\ pc'[q] = pc[q] /\ next'[q] = next[q]
        /\ base'[q] = base[q] /\ began'[q] = began[q]
    BY <1>3, OthersUntouched
  <2>2. base[q] \in Vector /\ began[q] \in Vector /\ rows \in Vector /\ rows' \in Vector
    BY <1>1 DEF TypeOK
  <2>3. Within(began[q], rows) => Within(began[q], rows')
    BY <1>1, <2>2, WithinTrans
  <2>4. Within(base[q], rows) => Within(base[q], rows')
    BY <1>1, <2>2, WithinTrans
  <2>5. \A t \in Tables : base[q][t] <= rows[t] => base[q][t] <= rows'[t]
    BY <1>1, <2>2 DEF Within, Vector
  <2> QED
    BY <1>2, <2>1, <2>3, <2>4, <2>5 DEF Window
<1>4. Window(p)'
  <2>0. ASSUME NEW step \in {"load", "early"}, NEW t \in Tables \cup {0},
               NEW r \in Regions \cup {0}, Begin(p, step, t, r)
        PROVE  Window(p)'
    <3>1. pc'[p] = step /\ next'[p] = 1 /\ began'[p] = rows'
      BY <1>2, <2>0 DEF Begin, TypeOK, Window
    <3>2. Within(rows', rows')
      BY <1>1 DEF TypeOK, Within, Vector
    <3>3. \A x \in Tables : ~(x < 1)
      BY DEF Tables
    <3> QED
      BY <3>1, <3>2, <3>3 DEF Window, Loaded
  <2>1. CASE \E t \in Tables : ChangeConfig(p, t)
    BY <2>0, <2>1 DEF ChangeConfig
  <2>2. CASE \E r \in Regions : ChangeRegion(p, r)
    BY <2>0, <2>2 DEF ChangeRegion
  <2>3. CASE Republish(p)
    BY <2>0, <2>3 DEF Republish
  <2>4. CASE EarlyBump(p)
    <3>1. pc'[p] = "load" /\ next'[p] = 1 /\ began' = began /\ rows' = rows
      BY <1>2, <2>4 DEF EarlyBump, TypeOK, Window, configVars
    <3>2. Within(began[p], rows)
      BY <1>2, <2>4 DEF EarlyBump, Window
    <3>3. \A x \in Tables : ~(x < 1)
      BY DEF Tables
    <3> QED
      BY <3>1, <3>2, <3>3 DEF Window, Loaded
  <2>5. CASE ReadTable(p)
    <3>1. /\ rows' = rows /\ began' = began
          /\ began[p] \in Vector /\ base[p] \in Vector /\ rows \in Vector
          /\ next[p] \in Tables
          /\ base'[p] = [base[p] EXCEPT ![next[p]] = rows[next[p]]]
      BY <2>5 DEF ReadTable, TypeOK, configVars
    <3>2. \A t \in Tables : t <= next[p] =>
            began[p][t] <= base'[p][t] /\ base'[p][t] <= rows[t]
      <4> SUFFICES ASSUME NEW t \in Tables, t <= next[p]
                   PROVE  began[p][t] <= base'[p][t] /\ base'[p][t] <= rows[t]
        OBVIOUS
      <4>1. Within(began[p], rows)
        BY <1>2, <2>5 DEF ReadTable, Window
      <4>2. CASE t = next[p]
        BY <3>1, <4>1, <4>2 DEF Within, Vector
      <4>3. CASE t # next[p]
        <5>1. t < next[p] /\ base'[p][t] = base[p][t]
          BY <3>1, <4>3 DEF Vector, Tables
        <5> QED
          BY <1>2, <2>5, <5>1 DEF ReadTable, Window
      <4> QED
        BY <4>2, <4>3
    <3>3. Within(began[p], rows)
      BY <1>2, <2>5 DEF ReadTable, Window
    <3>4. CASE next[p] = NTables
      <4>1. pc'[p] = "insert"
        BY <2>5, <3>4 DEF ReadTable, TypeOK
      <4>2. Within(began[p], base'[p]) /\ Within(base'[p], rows)
        BY <3>2, <3>4 DEF Within, Tables
      <4> QED
        BY <3>1, <3>3, <4>1, <4>2 DEF Window
    <3>5. CASE next[p] # NTables
      <4>1. pc'[p] = "load" /\ next'[p] = next[p] + 1
        BY <2>5, <3>5 DEF ReadTable, TypeOK
      <4>2. \A t \in Tables : t < next'[p] => t <= next[p]
        BY <3>1, <4>1 DEF Tables
      <4> QED
        BY <3>1, <3>2, <3>3, <4>1, <4>2 DEF Window, Loaded
    <3> QED
      BY <3>4, <3>5
  <2>6. CASE InsertRow(p)
    BY <1>2, <2>6 DEF InsertRow, Window, TypeOK, Loaded, configVars
  <2>7. CASE CommitRow(p)
    BY <1>2, <2>7 DEF CommitRow, Succeed, Return, Window, TypeOK, Loaded, configVars
  <2>8. CASE PutBlob(p)
    BY <1>2, <2>8 DEF PutBlob, Window, TypeOK, Loaded, configVars
  <2>9. CASE PutPointer(p)
    BY <1>2, <2>9 DEF PutPointer, Window, TypeOK, Loaded, configVars
  <2>10. CASE ReadMembers(p)
    BY <1>2, <2>10 DEF ReadMembers, Window, TypeOK, Loaded, configVars
  <2>11. CASE FinalBump(p)
    BY <2>11 DEF FinalBump, Succeed, Return, Window, TypeOK, Loaded
  <2>12. CASE Fail(p)
    BY <2>12 DEF Fail, Return, Window, TypeOK, Loaded
  <2> QED
    BY <2>1, <2>2, <2>3, <2>4, <2>5, <2>6, <2>7, <2>8, <2>9, <2>10, <2>11, <2>12
    DEF PublisherStep
<1> QED
  BY <1>3, <1>4 DEF LoadedWindow, Window

\* Committed rows stay, and the serial never goes back.
LEMMA StoreGrows ==
  ASSUME TypeOK, NEW p \in Publishers, PublisherStep(p)
  PROVE  seq <= seq' /\ snapshots \subseteq snapshots'
<1>1. CASE InsertRow(p)
  BY <1>1 DEF InsertRow, TypeOK
<1>2. CASE CommitRow(p)
  BY <1>2 DEF CommitRow, TypeOK
<1>3. CASE seq' = seq /\ snapshots' = snapshots
  BY <1>3 DEF TypeOK
<1> QED
  BY <1>1, <1>2, <1>3 DEF PublisherStep, ChangeConfig, ChangeRegion, Republish, Begin,
     EarlyBump, ReadTable, PutBlob, PutPointer, ReadMembers, FinalBump, Fail, storeVars

\* Only InsertRow draws a version and only CommitRow publishes it; every other step
\* leaves serials and rows alone, and numbers nobody.
LEMMA VersionsKept ==
  ASSUME TypeOK, NEW p \in Publishers, PublisherStep(p), ~InsertRow(p), ~CommitRow(p)
  PROVE  /\ seq' = seq /\ snapshots' = snapshots
         /\ pc'[p] # "commit"
         /\ pc'[p] \in Numbered => pc[p] \in Committed /\ version'[p] = version[p]
<1>1. CASE \E t \in Tables : ChangeConfig(p, t)
  BY <1>1 DEF ChangeConfig, Begin, TypeOK, storeVars, Numbered
<1>2. CASE \E r \in Regions : ChangeRegion(p, r)
  BY <1>2 DEF ChangeRegion, Begin, TypeOK, storeVars, Numbered
<1>3. CASE Republish(p)
  BY <1>3 DEF Republish, Begin, TypeOK, storeVars, Numbered
<1>4. CASE EarlyBump(p)
  BY <1>4 DEF EarlyBump, TypeOK, Numbered
<1>5. CASE ReadTable(p)
  BY <1>5 DEF ReadTable, TypeOK, storeVars, Numbered
<1>6. CASE PutBlob(p)
  BY <1>6 DEF PutBlob, TypeOK, Committed
<1>7. CASE PutPointer(p)
  BY <1>7 DEF PutPointer, TypeOK, Committed
<1>8. CASE ReadMembers(p)
  BY <1>8 DEF ReadMembers, TypeOK, storeVars, Committed
<1>9. CASE FinalBump(p)
  BY <1>9 DEF FinalBump, Succeed, Return, TypeOK, Numbered
<1>10. CASE Fail(p)
  BY <1>10 DEF Fail, Return, TypeOK, storeVars, Numbered
<1> QED
  BY <1>1, <1>2, <1>3, <1>4, <1>5, <1>6, <1>7, <1>8, <1>9, <1>10 DEF PublisherStep

\* No step gives a serial twice.
LEMMA SerialUniqueStep ==
  ASSUME TypeOK, SerialUnique, NEW p \in Publishers, PublisherStep(p)
  PROVE  SerialUnique'
<1> USE DEF Numbered, Committed
<1>0. /\ seq \in Nat /\ seq' \in Nat /\ seq <= seq'
      /\ snapshots \subseteq Row /\ snapshots' \subseteq Row
      /\ version \in [Publishers -> Nat]
  BY PublisherType, StoreGrows DEF TypeOK
<1>1. \A q \in Publishers : q # p => pc'[q] = pc[q] /\ version'[q] = version[q]
  BY OthersUntouched
<1>2. CASE InsertRow(p)
  <2>1. /\ pc'[p] = "commit" /\ version'[p] = seq + 1
        /\ seq' = seq + 1 /\ snapshots' = snapshots
    BY <1>2 DEF InsertRow, TypeOK
  <2>2. \A q \in Publishers : pc[q] \in Numbered => version[q] \in 1..seq
    BY DEF SerialUnique
  <2>3. \A s \in snapshots : s.version \in 1..seq
    BY DEF SerialUnique
  <2>4. \A q \in Publishers : pc'[q] \in Numbered => version'[q] \in 1..seq'
    BY <1>0, <1>1, <2>1, <2>2
  <2>5. \A q, o \in Publishers :
          pc'[q] \in Numbered /\ pc'[o] \in Numbered /\ version'[q] = version'[o] => q = o
    BY <1>0, <1>1, <2>1, <2>2 DEF SerialUnique
  <2>6. \A q \in Publishers : pc'[q] = "commit" => \A s \in snapshots' : s.version # version'[q]
    BY <1>0, <1>1, <2>1, <2>3 DEF SerialUnique
  <2>7. \A s \in snapshots' : s.version \in 1..seq'
    BY <1>0, <2>1, <2>3
  <2>8. \A s, o \in snapshots' : s.version = o.version => s = o
    BY <2>1 DEF SerialUnique
  <2> QED
    BY <2>4, <2>5, <2>6, <2>7, <2>8 DEF SerialUnique
<1>3. CASE CommitRow(p)
  <2> DEFINE new == [version |-> version[p], base |-> base[p], began |-> began[p]]
  <2>1. /\ pc[p] = "commit" /\ seq' = seq /\ snapshots' = snapshots \cup {new}
        /\ new.version = version[p]
    BY <1>3 DEF CommitRow
  <2>2. pc'[p] # "commit" /\ (pc'[p] \in Numbered => version'[p] = version[p])
    BY <1>3 DEF CommitRow, Succeed, Return, TypeOK
  <2> HIDE DEF new
  <2>3. \A q \in Publishers : pc'[q] \in Numbered => version'[q] \in 1..seq'
    BY <1>1, <2>1, <2>2 DEF SerialUnique
  <2>4. \A q, o \in Publishers :
          pc'[q] \in Numbered /\ pc'[o] \in Numbered /\ version'[q] = version'[o] => q = o
    BY <1>1, <2>1, <2>2 DEF SerialUnique
  <2>5. \A s \in snapshots : s.version # version[p]
    BY <2>1 DEF SerialUnique
  <2>6. \A q \in Publishers : pc'[q] = "commit" => \A s \in snapshots' : s.version # version'[q]
    BY <1>1, <2>1, <2>2 DEF SerialUnique
  <2>7. \A s \in snapshots' : s.version \in 1..seq'
    BY <2>1 DEF SerialUnique
  <2>8. \A s, o \in snapshots' : s.version = o.version => s = o
    BY <2>1, <2>5 DEF SerialUnique
  <2> QED
    BY <2>3, <2>4, <2>6, <2>7, <2>8 DEF SerialUnique
<1>4. CASE ~InsertRow(p) /\ ~CommitRow(p)
  <2>1. /\ seq' = seq /\ snapshots' = snapshots
        /\ pc'[p] # "commit"
        /\ pc'[p] \in Numbered => pc[p] \in Committed /\ version'[p] = version[p]
    BY <1>4, VersionsKept
  <2> QED
    BY <1>1, <2>1 DEF SerialUnique
<1> QED
  BY <1>2, <1>3, <1>4

\* A publisher mirrors what it committed, unchanged.
LEMMA BaseKept ==
  ASSUME TypeOK, NEW p \in Publishers, PublisherStep(p), pc'[p] \in Committed
  PROVE  /\ version'[p] = version[p] /\ base'[p] = base[p] /\ began'[p] = began[p]
         /\ pc[p] \in Committed \/ CommitRow(p)
<1> USE DEF Committed
<1>1. CASE \E t \in Tables : ChangeConfig(p, t)
  BY <1>1 DEF ChangeConfig, Begin, TypeOK
<1>2. CASE \E r \in Regions : ChangeRegion(p, r)
  BY <1>2 DEF ChangeRegion, Begin, TypeOK
<1>3. CASE Republish(p)
  BY <1>3 DEF Republish, Begin, TypeOK
<1>4. CASE EarlyBump(p)
  BY <1>4 DEF EarlyBump, TypeOK
<1>5. CASE ReadTable(p)
  BY <1>5 DEF ReadTable, TypeOK
<1>6. CASE InsertRow(p)
  BY <1>6 DEF InsertRow, TypeOK
<1>7. CASE CommitRow(p)
  BY <1>7 DEF CommitRow, Succeed, Return, TypeOK
<1>8. CASE PutBlob(p)
  BY <1>8 DEF PutBlob
<1>9. CASE PutPointer(p)
  BY <1>9 DEF PutPointer
<1>10. CASE ReadMembers(p)
  BY <1>10 DEF ReadMembers
<1>11. CASE FinalBump(p)
  BY <1>11 DEF FinalBump, Succeed, Return, TypeOK
<1>12. CASE Fail(p)
  BY <1>12 DEF Fail, Return, TypeOK
<1> QED
  BY <1>1, <1>2, <1>3, <1>4, <1>5, <1>6, <1>7, <1>8, <1>9, <1>10, <1>11, <1>12
  DEF PublisherStep

\* A publisher past its COMMIT keeps mirroring its own row.
LEMMA CommittedRowStep ==
  ASSUME TypeOK, CommittedRow, NEW p \in Publishers, PublisherStep(p)
  PROVE  CommittedRow'
<1> SUFFICES ASSUME NEW q \in Publishers, pc'[q] \in Committed
             PROVE  [version |-> version'[q], base |-> base'[q], began |-> began'[q]] \in snapshots'
  BY DEF CommittedRow
<1>1. CASE q # p
  BY <1>1, OthersUntouched, StoreGrows DEF CommittedRow
<1>2. CASE q = p
  <2>1. CASE CommitRow(p)
    BY <1>2, <2>1, BaseKept DEF CommitRow
  <2>2. CASE pc[p] \in Committed
    BY <1>2, <2>2, BaseKept, StoreGrows DEF CommittedRow
  <2> QED
    BY <1>2, <2>1, <2>2, BaseKept
<1> QED
  BY <1>1, <1>2

\* The mirror's objects change in PutBlob only.
LEMMA BlobsKept ==
  ASSUME NEW p \in Publishers, PublisherStep(p), ~PutBlob(p)
  PROVE  blobs' = blobs
BY DEF PublisherStep, ChangeConfig, ChangeRegion, Republish, Begin, EarlyBump, ReadTable,
   InsertRow, CommitRow, PutPointer, ReadMembers, FinalBump, Fail, storeVars

\* PutBlob never overwrites: its version is not yet an object at its prefix.
LEMMA PutBlobAdds ==
  ASSUME MirrorProgress, TypeOK, NEW p \in Publishers, PutBlob(p)
  PROVE  blobs' = blobs \cup {[prefix |-> prefix[p], version |-> version[p],
                               base |-> base[p], members |-> members[p]]}
<1>1. \A b \in blobs : b.version = version[p] => b.prefix < prefix[p]
  BY DEF PutBlob, MirrorProgress
<1>2. prefix[p] \in Int
  BY DEF TypeOK, Prefixes
<1>3. \A b \in blobs : ~(b.prefix = prefix[p] /\ b.version = version[p])
  BY <1>1, <1>2
<1> QED
  BY <1>3 DEF PutBlob

\* Only the mirror steps move the prefix, and returning resets it.
LEMMA PrefixResetStep ==
  ASSUME TypeOK, PrefixReset, NEW p \in Publishers, PublisherStep(p)
  PROVE  PrefixReset'
<1> SUFFICES ASSUME NEW q \in Publishers,
                    pc'[q] \in {"idle", "early", "load", "insert", "commit"}
             PROVE  prefix'[q] = 0
  BY DEF PrefixReset
<1>1. CASE q # p
  BY <1>1, OthersUntouched DEF PrefixReset
<1>2. CASE q = p
  <2>1. CASE \E t \in Tables : ChangeConfig(p, t)
    BY <1>2, <2>1 DEF ChangeConfig, Begin, PrefixReset
  <2>2. CASE \E r \in Regions : ChangeRegion(p, r)
    BY <1>2, <2>2 DEF ChangeRegion, Begin, PrefixReset
  <2>3. CASE Republish(p)
    BY <1>2, <2>3 DEF Republish, Begin, PrefixReset
  <2>4. CASE EarlyBump(p) \/ ReadTable(p) \/ InsertRow(p)
    BY <1>2, <2>4 DEF EarlyBump, ReadTable, InsertRow, PrefixReset
  <2>5. CASE CommitRow(p)
    BY <1>2, <2>5 DEF CommitRow, Succeed, Return, PrefixReset, TypeOK
  <2>6. CASE PutBlob(p) \/ PutPointer(p) \/ ReadMembers(p)
    BY <1>2, <2>6 DEF PutBlob, PutPointer, ReadMembers, TypeOK
  <2>7. CASE FinalBump(p) \/ Fail(p)
    BY <1>2, <2>7 DEF FinalBump, Fail, Succeed, Return, TypeOK
  <2> QED
    BY <2>1, <2>2, <2>3, <2>4, <2>5, <2>6, <2>7 DEF PublisherStep
<1> QED
  BY <1>1, <1>2

\* Where p stands in the mirror after its own step.
LEMMA OwnProgress ==
  ASSUME TypeOK, SerialUnique, MirrorProgress, PrefixReset, MirrorAgreesWithPrimary,
         NEW p \in Publishers, PublisherStep(p)
  PROVE  /\ pc'[p] \in {"blob", "members"} =>
              \A b \in blobs' : b.version = version'[p] => b.prefix < prefix'[p]
         /\ pc'[p] = "pointer" =>
              /\ \A b \in blobs' : b.version = version'[p] => b.prefix <= prefix'[p]
              /\ \E b \in blobs' : b.version = version'[p] /\ b.prefix = prefix'[p]
         /\ pc'[p] = "commit" => prefix'[p] = 0
<1>0. prefix[p] \in Nat /\ \A b \in blobs : b.prefix \in Nat
  BY DEF TypeOK, Prefixes, Blob
<1>1. CASE \E t \in Tables : ChangeConfig(p, t)
  BY <1>1 DEF ChangeConfig, Begin, TypeOK
<1>2. CASE \E r \in Regions : ChangeRegion(p, r)
  BY <1>2 DEF ChangeRegion, Begin, TypeOK
<1>3. CASE Republish(p)
  BY <1>3 DEF Republish, Begin, TypeOK
<1>4. CASE EarlyBump(p)
  BY <1>4 DEF EarlyBump, TypeOK
<1>5. CASE ReadTable(p)
  BY <1>5 DEF ReadTable, TypeOK
<1>6. CASE InsertRow(p)
  BY <1>6 DEF InsertRow, TypeOK, PrefixReset
<1>7. CASE CommitRow(p)
  <2>1. \A b \in blobs : b.version # version[p]
    BY <1>7 DEF CommitRow, SerialUnique, MirrorAgreesWithPrimary
  <2>2. blobs' = blobs /\ pc'[p] \notin {"members", "pointer", "commit"}
    BY <1>7 DEF CommitRow, Succeed, Return, TypeOK
  <2>3. pc'[p] = "blob" => version'[p] = version[p]
    BY <1>7 DEF CommitRow, Succeed, Return, TypeOK
  <2> QED
    BY <2>1, <2>2, <2>3
<1>8. CASE PutBlob(p)
  <2> DEFINE new == [prefix |-> prefix[p], version |-> version[p],
                     base |-> base[p], members |-> members[p]]
  <2>1. blobs' = blobs \cup {new} /\ new.prefix = prefix[p] /\ new.version = version[p]
    BY <1>8, PutBlobAdds
  <2>2. pc'[p] = "pointer" /\ version' = version /\ prefix' = prefix
    BY <1>8 DEF PutBlob, TypeOK
  <2>3. \A b \in blobs : b.version = version[p] => b.prefix < prefix[p]
    BY <1>8 DEF PutBlob, MirrorProgress
  <2> HIDE DEF new
  <2> QED
    BY <1>0, <2>1, <2>2, <2>3
<1>9. CASE PutPointer(p)
  <2>1. \A b \in blobs : b.version = version[p] => b.prefix <= prefix[p]
    BY <1>9 DEF PutPointer, MirrorProgress
  <2>2. blobs' = blobs /\ version' = version /\ pc'[p] \in {"bump", "members"}
    BY <1>9 DEF PutPointer, TypeOK
  <2>3. CASE pc'[p] = "bump"
    BY <2>3
  <2>4. CASE pc'[p] = "members"
    <3>1. PICK r \in Following(p) : prefix'[p] = r
      BY <1>9, <2>4 DEF PutPointer, TypeOK
    <3>2. r \in Nat /\ r > prefix[p]
      BY <3>1 DEF Following, Targets, TypeOK, Regions
    <3> QED
      BY <1>0, <2>1, <2>2, <2>4, <3>1, <3>2
  <2> QED
    BY <2>2, <2>3, <2>4
<1>10. CASE ReadMembers(p)
  BY <1>10 DEF ReadMembers, TypeOK, MirrorProgress, storeVars
<1>11. CASE FinalBump(p)
  BY <1>11 DEF FinalBump, Succeed, Return, TypeOK
<1>12. CASE Fail(p)
  BY <1>12 DEF Fail, Return, TypeOK
<1> QED
  BY <1>1, <1>2, <1>3, <1>4, <1>5, <1>6, <1>7, <1>8, <1>9, <1>10, <1>11, <1>12
  DEF PublisherStep

\* Two publishers never write the same object, and each writes its own once.
LEMMA MirrorProgressStep ==
  ASSUME TypeOK, SerialUnique, MirrorProgress, PrefixReset, MirrorAgreesWithPrimary,
         NEW p \in Publishers, PublisherStep(p)
  PROVE  MirrorProgress'
<1>1. ASSUME NEW q \in Publishers, q # p
      PROVE  /\ pc'[q] \in {"blob", "members"} =>
                  \A b \in blobs' : b.version = version'[q] => b.prefix < prefix'[q]
             /\ pc'[q] = "pointer" =>
                  /\ \A b \in blobs' : b.version = version'[q] => b.prefix <= prefix'[q]
                  /\ \E b \in blobs' : b.version = version'[q] /\ b.prefix = prefix'[q]
             /\ pc'[q] = "commit" => prefix'[q] = 0
  <2>1. pc'[q] = pc[q] /\ version'[q] = version[q] /\ prefix'[q] = prefix[q]
    BY <1>1, OthersUntouched
  <2>2. CASE ~PutBlob(p)
    BY <2>1, <2>2, BlobsKept DEF MirrorProgress
  <2>3. CASE PutBlob(p)
    <3> DEFINE new == [prefix |-> prefix[p], version |-> version[p],
                       base |-> base[p], members |-> members[p]]
    <3>1. blobs' = blobs \cup {new} /\ new.version = version[p]
      BY <2>3, PutBlobAdds
    <3>2. pc[q] \in Numbered => version[q] # version[p]
      BY <1>1, <2>3 DEF PutBlob, SerialUnique, Numbered
    <3> HIDE DEF new
    <3> QED
      BY <2>1, <3>1, <3>2 DEF MirrorProgress, Numbered
  <2> QED
    BY <2>2, <2>3
<1> QED
  BY <1>1, OwnProgress DEF MirrorProgress

\* No object of the mirror is removed or overwritten.
LEMMA BlobsGrow ==
  ASSUME TypeOK, MirrorProgress, NEW p \in Publishers, PublisherStep(p)
  PROVE  blobs \subseteq blobs'
BY BlobsKept, PutBlobAdds

\* A pointer is moved only to an object written before.
LEMMA PointerStep ==
  ASSUME TypeOK, MirrorProgress, PointerNamesBlob, NEW p \in Publishers, PublisherStep(p)
  PROVE  PointerNamesBlob'
<1>1. CASE PutPointer(p)
  <2>1. \E b \in blobs : b.version = version[p] /\ b.prefix = prefix[p]
    BY <1>1 DEF PutPointer, MirrorProgress
  <2>2. blobs' = blobs /\ latest' = [latest EXCEPT ![prefix[p]] = version[p]]
    BY <1>1 DEF PutPointer
  <2> QED
    BY <2>1, <2>2 DEF PointerNamesBlob, TypeOK
<1>2. CASE latest' = latest
  BY <1>2, BlobsGrow DEF PointerNamesBlob
<1> QED
  BY <1>1, <1>2 DEF PublisherStep, ChangeConfig, ChangeRegion, Republish, Begin, EarlyBump,
     ReadTable, InsertRow, CommitRow, PutBlob, ReadMembers, FinalBump, Fail, storeVars

\* An object is compiled from the base its publisher committed.
LEMMA AgreementStep ==
  ASSUME TypeOK, CommittedRow, MirrorProgress, MirrorAgreesWithPrimary,
         NEW p \in Publishers, PublisherStep(p)
  PROVE  MirrorAgreesWithPrimary'
<1>1. CASE PutBlob(p)
  <2> DEFINE new == [prefix |-> prefix[p], version |-> version[p],
                     base |-> base[p], members |-> members[p]]
             row == [version |-> version[p], base |-> base[p], began |-> began[p]]
  <2>1. blobs' = blobs \cup {new} /\ snapshots' = snapshots
    BY <1>1, PutBlobAdds DEF PutBlob
  <2>2. row \in snapshots
    BY <1>1 DEF PutBlob, CommittedRow, Committed
  <2>3. row.version = new.version /\ row.base = new.base
    OBVIOUS
  <2> HIDE DEF new, row
  <2> QED
    BY <2>1, <2>2, <2>3 DEF MirrorAgreesWithPrimary
<1>2. CASE ~PutBlob(p)
  BY <1>2, BlobsKept, StoreGrows DEF MirrorAgreesWithPrimary
<1> QED
  BY <1>1, <1>2

\* A row commits a base inside the window of its load.
LEMMA CoverStep ==
  ASSUME TypeOK, LoadedWindow, SnapshotCoversItsStart, NEW p \in Publishers, PublisherStep(p)
  PROVE  SnapshotCoversItsStart'
<1>1. Within(rows, rows') /\ rows \in Vector /\ rows' \in Vector
  BY RowsGrow, PublisherType DEF TypeOK
<1>2. ASSUME NEW s \in snapshots
      PROVE  Within(s.began, s.base) /\ Within(s.base, rows')
  <2>1. s.base \in Vector /\ Within(s.began, s.base) /\ Within(s.base, rows)
    BY DEF TypeOK, Row, SnapshotCoversItsStart
  <2> QED
    BY <1>1, <2>1, WithinTrans
<1>3. CASE CommitRow(p)
  <2> DEFINE new == [version |-> version[p], base |-> base[p], began |-> began[p]]
  <2>1. snapshots' = snapshots \cup {new} /\ new.base = base[p] /\ new.began = began[p]
    BY <1>3 DEF CommitRow
  <2>2. Within(began[p], base[p]) /\ Within(base[p], rows)
    BY <1>3 DEF CommitRow, LoadedWindow, Loaded
  <2>3. rows' = rows
    BY <1>3 DEF CommitRow, configVars
  <2> HIDE DEF new
  <2> QED
    BY <1>2, <2>1, <2>2, <2>3 DEF SnapshotCoversItsStart
<1>4. CASE ~CommitRow(p)
  <2>1. snapshots' = snapshots
    BY <1>4 DEF PublisherStep, ChangeConfig, ChangeRegion, Republish, Begin, EarlyBump, ReadTable,
       InsertRow, PutBlob, PutPointer, ReadMembers, FinalBump, Fail, storeVars
  <2> QED
    BY <1>2, <2>1 DEF SnapshotCoversItsStart
<1> QED
  BY <1>3, <1>4

\* Publishers leave the gateways alone.
LEMMA GatewaysKept ==
  ASSUME NEW p \in Publishers, PublisherStep(p)
  PROVE  UNCHANGED gatewayVars
BY DEF PublisherStep, ChangeConfig, ChangeRegion, Republish, Begin, EarlyBump, ReadTable,
   InsertRow, CommitRow, PutBlob, PutPointer, ReadMembers, FinalBump, Fail

\* What a gateway holds stays published.
LEMMA HeldStep ==
  ASSUME TypeOK, MirrorProgress, HeldWasPublished, NEW p \in Publishers, PublisherStep(p)
  PROVE  HeldWasPublished'
<1>1. held' = held /\ snapshots \subseteq snapshots' /\ blobs \subseteq blobs'
  BY GatewaysKept, StoreGrows, BlobsGrow DEF gatewayVars
<1> QED
  BY <1>1 DEF HeldWasPublished

GatewayStep(g) ==
  \/ Start(g) \/ Exit(g)
  \/ g \in PgGateways /\ Check(g)
  \/ g \in MirrorGateways /\ (ReadPointer(g) \/ ReadBlob(g))

\* A step of a gateway touches the configuration, the publishers and the stores in
\* nothing, and no other gateway.
LEMMA GatewayStepFrame ==
  ASSUME TypeOK, NEW g \in Gateways, GatewayStep(g)
  PROVE  /\ UNCHANGED <<configVars, localVars, storeVars>>
         /\ \A h \in Gateways : h # g => up'[h] = up[h] /\ held'[h] = held[h]
BY DEF GatewayStep, Start, Exit, Check, ReadPointer, ReadBlob, TypeOK

\* What a gateway takes up is an entry of its own feed, newer than what it had; or it
\* keeps what it has, or it forgets it by exiting.
LEMMA HeldChange ==
  ASSUME TypeOK, NEW g \in Gateways, GatewayStep(g)
  PROVE  \/ held'[g] = held[g]
         \/ up[g] /\ ~up'[g] /\ held'[g] = Nothing
         \/ /\ up[g] /\ up' = up /\ held'[g].version > held[g].version
            /\ g \in PgGateways => \E s \in snapshots :
                 held'[g] = [version |-> s.version, base |-> s.base, members |-> 0]
            /\ g \in MirrorGateways => \E b \in blobs : b.prefix = PrefixOf[g] /\
                 held'[g] = [version |-> b.version, base |-> b.base, members |-> b.members]
<1>1. CASE Start(g)
  BY <1>1 DEF Start
<1>2. CASE Exit(g)
  BY <1>2 DEF Exit, TypeOK
<1>3. CASE g \in PgGateways /\ Check(g)
  <2>1. PICK s \in snapshots : s.version > held[g].version /\
          held' = [held EXCEPT ![g] = [version |-> s.version, base |-> s.base, members |-> 0]]
    BY <1>3 DEF Check, Newer
  <2>2. held'[g] = [version |-> s.version, base |-> s.base, members |-> 0]
    BY <2>1 DEF TypeOK
  <2>3. g \notin MirrorGateways
    BY <1>3 DEF DistributionAssumption
  <2> QED
    BY <1>3, <2>1, <2>2, <2>3 DEF Check
<1>4. CASE g \in MirrorGateways /\ ReadPointer(g)
  BY <1>4 DEF ReadPointer
<1>5. CASE g \in MirrorGateways /\ ReadBlob(g)
  <2>1. up[g] /\ up' = up
    BY <1>5 DEF ReadBlob
  <2>2. CASE UNCHANGED held
    BY <2>2
  <2>3. CASE ~UNCHANGED held
    <3>1. PICK b \in BlobAt(PrefixOf[g], ptr[g]) : ptr[g] > held[g].version /\
            held' = [held EXCEPT ![g] =
              [version |-> b.version, base |-> b.base, members |-> b.members]]
      BY <1>5, <2>3 DEF ReadBlob, Newer
    <3>2. b \in blobs /\ b.prefix = PrefixOf[g] /\ b.version = ptr[g]
      BY DEF BlobAt
    <3>3. held'[g] = [version |-> b.version, base |-> b.base, members |-> b.members]
      BY <3>1 DEF TypeOK
    <3>4. g \notin PgGateways
      BY <1>5 DEF DistributionAssumption
    <3> QED
      BY <2>1, <3>1, <3>2, <3>3, <3>4
  <2> QED
    BY <2>2, <2>3
<1> QED
  BY <1>1, <1>2, <1>3, <1>4, <1>5 DEF GatewayStep

\* What a gateway takes up is published in its feed.
LEMMA GatewayHeld ==
  ASSUME TypeOK, HeldWasPublished, NEW g \in Gateways, GatewayStep(g)
  PROVE  HeldWasPublished'
<1>0. snapshots' = snapshots /\ blobs' = blobs
  BY GatewayStepFrame DEF storeVars
<1>1. ASSUME NEW h \in Gateways, h # g, held'[h].version # 0
      PROVE  IF h \in PgGateways
               THEN \E s \in snapshots' : held'[h].version = s.version /\ held'[h].base = s.base
               ELSE [prefix |-> PrefixOf[h], version |-> held'[h].version,
                     base |-> held'[h].base, members |-> held'[h].members] \in blobs'
  BY <1>0, <1>1, GatewayStepFrame DEF HeldWasPublished
<1>2. ASSUME held'[g].version # 0
      PROVE  IF g \in PgGateways
               THEN \E s \in snapshots' : held'[g].version = s.version /\ held'[g].base = s.base
               ELSE [prefix |-> PrefixOf[g], version |-> held'[g].version,
                     base |-> held'[g].base, members |-> held'[g].members] \in blobs'
  <2>1. CASE held'[g] = held[g]
    BY <1>0, <1>2, <2>1 DEF HeldWasPublished
  <2>2. CASE held'[g] = Nothing
    BY <1>2, <2>2 DEF Nothing
  <2>3. CASE g \in PgGateways /\ \E s \in snapshots :
               held'[g] = [version |-> s.version, base |-> s.base, members |-> 0]
    BY <1>0, <2>3
  <2>4. CASE g \in MirrorGateways /\ \E b \in blobs : b.prefix = PrefixOf[g] /\
               held'[g] = [version |-> b.version, base |-> b.base, members |-> b.members]
    <3>1. PICK b \in blobs : b.prefix = PrefixOf[g] /\
            held'[g] = [version |-> b.version, base |-> b.base, members |-> b.members]
      BY <2>4
    <3>2. b = [prefix |-> b.prefix, version |-> b.version, base |-> b.base,
               members |-> b.members]
      BY DEF TypeOK, Blob
    <3>3. g \notin PgGateways
      BY <2>4 DEF DistributionAssumption
    <3> QED
      BY <1>0, <3>1, <3>2, <3>3
  <2> QED
    BY <2>1, <2>2, <2>3, <2>4, HeldChange DEF Gateways
<1> QED
  BY <1>1, <1>2 DEF HeldWasPublished

\* Stuttering and the gateways' steps keep what is said of the rest.
LEMMA FrameIInv ==
  ASSUME IInv, UNCHANGED <<configVars, localVars, storeVars>>, TypeOK', HeldWasPublished'
  PROVE  IInv'
<1> USE DEF configVars, localVars, storeVars
<1>1. LoadedWindow'
  BY DEF IInv, LoadedWindow, Within
<1>2. SerialUnique' /\ CommittedRow'
  BY DEF IInv, SerialUnique, CommittedRow
<1>3. MirrorProgress' /\ PrefixReset'
  BY DEF IInv, MirrorProgress, PrefixReset
<1>4. PointerNamesBlob' /\ MirrorAgreesWithPrimary' /\ SnapshotCoversItsStart'
  BY DEF IInv, PointerNamesBlob, MirrorAgreesWithPrimary, SnapshotCoversItsStart, Within
<1> QED
  BY <1>1, <1>2, <1>3, <1>4 DEF IInv

\* Every step is a publisher's, a gateway's, or a stutter.
LEMMA StepKinds ==
  ASSUME [Next]_vars
  PROVE  \/ \E p \in Publishers : PublisherStep(p)
         \/ \E g \in Gateways : GatewayStep(g)
         \/ UNCHANGED vars
BY DEF Next, GatewayStep, Gateways

\* Every step keeps the inductive invariant.
LEMMA NextIInv == IInv /\ [Next]_vars => IInv'
<1> SUFFICES ASSUME IInv, [Next]_vars PROVE IInv'
  OBVIOUS
<1>0. TypeOK'
  BY NextType DEF IInv
<1>1. ASSUME NEW p \in Publishers, PublisherStep(p)
      PROVE  IInv'
  <2> USE <1>1 DEF IInv
  <2>1. LoadedWindow' /\ SerialUnique' /\ CommittedRow'
    BY LoadedWindowStep, SerialUniqueStep, CommittedRowStep
  <2>2. MirrorProgress' /\ PrefixReset'
    BY MirrorProgressStep, PrefixResetStep
  <2>3. PointerNamesBlob' /\ MirrorAgreesWithPrimary'
    BY PointerStep, AgreementStep
  <2>4. SnapshotCoversItsStart' /\ HeldWasPublished'
    BY CoverStep, HeldStep
  <2> QED
    BY <1>0, <2>1, <2>2, <2>3, <2>4
<1>2. ASSUME NEW g \in Gateways, GatewayStep(g)
      PROVE  IInv'
  BY <1>0, <1>2, GatewayHeld, GatewayStepFrame, FrameIInv DEF IInv
<1>3. CASE UNCHANGED vars
  <2>1. UNCHANGED <<configVars, localVars, storeVars>> /\ held' = held
    BY <1>3 DEF vars, gatewayVars
  <2>2. HeldWasPublished'
    BY <2>1 DEF IInv, HeldWasPublished, storeVars
  <2> QED
    BY <1>0, <2>1, <2>2, FrameIInv
<1> QED
  BY <1>1, <1>2, <1>3, StepKinds

\* The inductive invariant holds in every reachable state: whatever publishers race,
\* fail or die, and whatever gateways start, stop and read.
THEOREM Invariant == Spec => []IInv
BY InitIInv, NextIInv, PTL DEF Spec

-----------------------------------------------------------------------------
(* What the invariant gives *)

\* In every reachable state, under any race or crash of publishers, a mirror's pointer
\* names an object of the same prefix.
THEOREM PointerNeverDangles == Spec => []PointerNamesBlob
<1>1. IInv => PointerNamesBlob
  BY DEF IInv
<1> QED
  BY <1>1, Invariant, PTL

\* In every reachable state each mirror object holds what Postgres committed under its
\* version.
THEOREM MirrorAgreement == Spec => []MirrorAgreesWithPrimary
<1>1. IInv => MirrorAgreesWithPrimary
  BY DEF IInv
<1> QED
  BY <1>1, Invariant, PTL

\* In every reachable state each snapshot holds all that was committed when its command
\* began to publish, and nothing uncommitted.
THEOREM SnapshotCover == Spec => []SnapshotCoversItsStart
<1>1. IInv => SnapshotCoversItsStart
  BY DEF IInv
<1> QED
  BY <1>1, Invariant, PTL

\* In every reachable state each gateway serves a payload published in its own feed.
THEOREM HeldPublished == Spec => []HeldWasPublished
<1>1. IInv => HeldWasPublished
  BY DEF IInv
<1> QED
  BY <1>1, Invariant, PTL

\* No step takes a running gateway back to an older version.
THEOREM HeldForward == Spec => HeldOnlyMovesForward
<1>1. ASSUME TypeOK, [Next]_vars
      PROVE  \A g \in Gateways : up[g] /\ up'[g] => held'[g].version >= held[g].version
  <2> SUFFICES ASSUME NEW g \in Gateways, up[g], up'[g]
               PROVE  held'[g].version >= held[g].version
    OBVIOUS
  <2>1. held[g].version \in Int /\ held'[g].version \in Int
    BY <1>1, NextType DEF TypeOK, Payload
  <2>2. CASE held'[g] = held[g]
    BY <2>1, <2>2
  <2>3. CASE GatewayStep(g)
    BY <1>1, <2>1, <2>3, HeldChange
  <2>4. held'[g] = held[g] \/ GatewayStep(g)
    BY <1>1, StepKinds, GatewaysKept, GatewayStepFrame DEF vars, gatewayVars
  <2> QED
    BY <2>2, <2>3, <2>4
<1>2. TypeOK /\ [Next]_vars =>
        [\A g \in Gateways : up[g] /\ up'[g] => held'[g].version >= held[g].version]_vars
  BY <1>1
<1> QED
  BY <1>2, TypeCorrect, PTL DEF Spec, HeldOnlyMovesForward

\* No step removes or changes an object of the mirror, or gives a version twice.
THEOREM Immutable == Spec => PublishedIsImmutable
<1>1. IInv /\ IInv' /\ [Next]_vars =>
        [/\ blobs \subseteq blobs'
         /\ \A s, o \in snapshots' : s.version = o.version => s = o]_vars
  <2> SUFFICES ASSUME IInv, IInv', [Next]_vars
               PROVE  /\ blobs \subseteq blobs'
                      /\ \A s, o \in snapshots' : s.version = o.version => s = o
    OBVIOUS
  <2>1. \A s, o \in snapshots' : s.version = o.version => s = o
    BY DEF IInv, SerialUnique
  <2>2. blobs \subseteq blobs'
    BY StepKinds, BlobsGrow, GatewayStepFrame DEF IInv, storeVars, vars
  <2> QED
    BY <2>1, <2>2
<1> QED
  BY <1>1, Invariant, PTL DEF Spec, PublishedIsImmutable

-----------------------------------------------------------------------------
(* When what was acknowledged is in effect *)

\* No two commands publish at the same time.
NoOverlap == \A p, q \in Publishers : pc[p] # "idle" /\ pc[q] # "idle" => p = q

\* Whatever is acknowledged is committed, and was when a command under way began.
AckedCommitted ==
  /\ Within(acked, rows)
  /\ \A p \in Publishers : pc[p] # "idle" => Within(acked, began[p])

\* The version of a command under way is the last one drawn.
LastDrawn == \A p \in Publishers : pc[p] \in Numbered => version[p] = seq

AckInv == AckedCommitted /\ LastDrawn /\ NewestHoldsAcked

\* What success acknowledges is what the command began with.
LEMMA SucceedAcks ==
  ASSUME TypeOK, NEW p \in Publishers, Succeed(p), NEW v \in Vector,
         Within(acked, v), own[p] # 0 => Within(began[p], v)
  PROVE  Within(acked', v)
<1>1. acked' = [t \in Tables |-> IF t = own[p] /\ began[p][t] > acked[t]
                                   THEN began[p][t] ELSE acked[t]]
  BY DEF Succeed
<1>2. 0 \notin Tables
  BY DEF Tables
<1> QED
  BY <1>1, <1>2 DEF Within

\* A command succeeds when it has committed its row, by that very step or before.
LEMMA SucceedKinds ==
  ASSUME TypeOK, NEW p \in Publishers, PublisherStep(p)
  PROVE  acked' = acked \/ (Succeed(p) /\ (CommitRow(p) \/ pc[p] \in Committed))
<1>1. CASE CommitRow(p)
  BY <1>1 DEF CommitRow
<1>2. CASE FinalBump(p)
  BY <1>2 DEF FinalBump, Committed
<1>3. CASE acked' = acked
  BY <1>3
<1> QED
  BY <1>1, <1>2, <1>3 DEF PublisherStep, ChangeConfig, ChangeRegion, Republish, Begin, EarlyBump, ReadTable,
     InsertRow, PutBlob, PutPointer, ReadMembers, Fail

LEMMA BeganKinds ==
  ASSUME TypeOK, NEW p \in Publishers, PublisherStep(p)
  PROVE  \/ began'[p] = began[p] /\ pc[p] # "idle"
         \/ began'[p] = rows' /\ acked' = acked
         \/ pc'[p] = "idle"
BY DEF TypeOK, PublisherStep, ChangeConfig, ChangeRegion, Republish, Begin, EarlyBump,
   ReadTable, InsertRow, CommitRow, PutBlob, PutPointer, ReadMembers, FinalBump,
   Fail, Succeed, Return

\* A step is that of the only command under way, or begins it.
LEMMA OthersIdle ==
  ASSUME TypeOK, NoOverlap, NoOverlap', NEW p \in Publishers, PublisherStep(p),
         NEW q \in Publishers, q # p
  PROVE  pc[q] = "idle" /\ pc'[q] = "idle"
<1>1. pc'[q] = pc[q]
  BY OthersUntouched
<1>2. pc[p] # "idle" \/ pc'[p] # "idle"
  BY DEF TypeOK, PublisherStep, ChangeConfig, ChangeRegion, Republish, Begin, EarlyBump,
     ReadTable, InsertRow, CommitRow, PutBlob, PutPointer, ReadMembers, FinalBump, Fail
<1> QED
  BY <1>1, <1>2 DEF NoOverlap

LEMMA AckPublisherStep ==
  ASSUME IInv, IInv', AckInv, NoOverlap, NoOverlap', NEW p \in Publishers, PublisherStep(p)
  PROVE  AckInv'
<1>1. TypeOK /\ TypeOK'
  BY DEF IInv
<1>2. /\ acked \in Vector /\ acked' \in Vector /\ rows \in Vector /\ rows' \in Vector
      /\ base[p] \in Vector /\ began[p] \in Vector /\ seq \in Nat /\ seq' \in Nat
  BY <1>1 DEF TypeOK
<1>3. Within(rows, rows') /\ Within(acked, rows) /\ Within(acked, rows')
  <2>1. Within(rows, rows') /\ Within(acked, rows)
    BY <1>1, RowsGrow DEF AckInv, AckedCommitted
  <2> QED
    BY <1>2, <2>1, WithinTrans
<1>4. \A q \in Publishers : q # p => pc'[q] = "idle"
  BY <1>1, OthersIdle
<1>5. ASSUME Succeed(p)
      PROVE  pc'[p] = "idle" /\ (pc[p] # "idle" => Within(acked', began[p])) /\ (pc[p] # "idle" => Within(began[p], rows))
  <2>1. pc'[p] = "idle"
    BY <1>1, <1>5 DEF Succeed, Return, TypeOK
  <2>2. pc[p] # "idle" => Within(acked, began[p]) /\ Within(began[p], rows)
    BY DEF AckInv, AckedCommitted, IInv, LoadedWindow
  <2>3. Within(began[p], began[p])
    BY <1>2 DEF Within, Vector
  <2> QED
    BY <1>1, <1>2, <1>5, <2>1, <2>2, <2>3, SucceedAcks
<1>6. AckedCommitted'
  <2>1. CASE acked' = acked
    <3>1. Within(acked', rows')
      BY <1>3, <2>1
    <3>2. pc'[p] # "idle" => Within(acked', began'[p])
      BY <1>1, <1>3, <2>1, BeganKinds DEF AckInv, AckedCommitted
    <3>3. \A q \in Publishers : pc'[q] # "idle" => Within(acked', began'[q])
      BY <1>4, <3>2
    <3> QED
      BY <3>1, <3>3 DEF AckedCommitted, Within
  <2>2. CASE Succeed(p)
    <3>1. pc[p] # "idle" \/ acked' = acked
      BY <1>1, SucceedKinds DEF CommitRow, Committed
    <3>2. Within(acked', rows')
      <4>1. CASE pc[p] # "idle"
        BY <1>2, <1>3, <1>5, <2>2, <4>1, WithinTrans
      <4>2. CASE acked' = acked
        BY <1>3, <4>2
      <4> QED
        BY <3>1, <4>1, <4>2
    <3>3. \A q \in Publishers : pc'[q] # "idle" => Within(acked', began'[q])
      BY <1>4, <1>5, <2>2
    <3> QED
      BY <3>2, <3>3 DEF AckedCommitted, Within
  <2> QED
    BY <1>1, <2>1, <2>2, SucceedKinds
<1>7. LastDrawn'
  <2> SUFFICES ASSUME pc'[p] \in Numbered PROVE version'[p] = seq'
    BY <1>4 DEF LastDrawn, Numbered
  <2>1. CASE InsertRow(p)
    BY <1>1, <2>1 DEF InsertRow, TypeOK
  <2>2. CASE CommitRow(p)
    BY <1>1, <2>2 DEF CommitRow, Succeed, Return, TypeOK, AckInv, LastDrawn, Numbered
  <2>3. CASE ~InsertRow(p) /\ ~CommitRow(p)
    BY <1>1, <2>3, VersionsKept DEF AckInv, LastDrawn, Numbered, Committed
  <2> QED
    BY <2>1, <2>2, <2>3
<1>8. NewestHoldsAcked'
  <2> SUFFICES ASSUME NEW s \in snapshots', \A o \in snapshots' : o.version <= s.version
               PROVE  Within(acked', s.base)
    BY DEF NewestHoldsAcked, IsNewest, Within
  <2>1. \A o, u \in snapshots' : o.version = u.version => o = u
    BY DEF IInv, SerialUnique
  <2>2. \A o \in snapshots' : o.version \in 1..seq'
    BY DEF IInv, SerialUnique
  <2> DEFINE row == [version |-> version[p], base |-> base[p], began |-> began[p]]
  <2>3. row.version = version[p] /\ row.base = base[p] /\ row.began = began[p]
    OBVIOUS
  <2>4. ASSUME pc[p] \in Numbered, row \in snapshots', seq' = seq
        PROVE  s.base = base[p]
    <3>1. version[p] = seq
      BY <2>4 DEF AckInv, LastDrawn
    <3>2. s.version = seq
      BY <1>2, <2>2, <2>3, <2>4, <3>1
    <3> QED
      BY <2>1, <2>3, <2>4, <3>1, <3>2
  <2> HIDE DEF row
  <2>5. CASE CommitRow(p)
    <3>1. pc[p] = "commit" /\ row \in snapshots' /\ seq' = seq
      BY <2>5 DEF CommitRow, row
    <3>2. s.base = base[p]
      BY <2>4, <3>1 DEF Numbered
    <3>3. Within(acked, began[p]) /\ Within(began[p], base[p])
      BY <3>1 DEF AckInv, AckedCommitted, IInv, LoadedWindow, Loaded
    <3>4. Within(acked', began[p])
      BY <1>1, <1>5, <2>5, <3>1, <3>3, SucceedKinds
    <3> QED
      BY <1>2, <3>2, <3>3, <3>4, WithinTrans
  <2>6. CASE ~CommitRow(p)
    <3>1. snapshots' = snapshots
      BY <1>1, <2>6, VersionsKept DEF InsertRow
    <3>2. Within(acked, s.base)
      BY <3>1 DEF AckInv, NewestHoldsAcked, IsNewest
    <3>3. CASE acked' = acked
      BY <3>2, <3>3
    <3>4. CASE Succeed(p) /\ pc[p] \in Committed
      <4>1. row \in snapshots'
        BY <3>1, <3>4 DEF IInv, CommittedRow, row
      <4>2. seq' = seq
        BY <1>1, <2>6, <3>4, VersionsKept DEF InsertRow, Committed
      <4>3. s.base = base[p]
        BY <2>4, <3>4, <4>1, <4>2 DEF Numbered, Committed
      <4>4. Within(began[p], base[p]) /\ Within(acked', began[p])
        BY <1>5, <3>4 DEF IInv, LoadedWindow, Loaded, Committed
      <4> QED
        BY <1>2, <4>3, <4>4, WithinTrans
    <3> QED
      BY <1>1, <2>6, <3>3, <3>4, SucceedKinds
  <2> QED
    BY <2>5, <2>6
<1> QED
  BY <1>6, <1>7, <1>8 DEF AckInv

\* A change that is acknowledged is in the newest snapshot from then on, whatever fails and
\* however gateways and publishers come and go, in every behaviour in which no two commands
\* publish at the same time (publishWithRegions loads, then draws the version): the overlap
\* that SnapshotStaleLoad shows is the only way to lose one.
THEOREM AckedUnlessOverlap == Spec /\ []NoOverlap => []NewestHoldsAcked
<1>1. Init => AckInv
  BY DEF Init, AckInv, AckedCommitted, LastDrawn, NewestHoldsAcked, IsNewest, Within, Zero, Numbered
<1>2. IInv /\ IInv' /\ AckInv /\ NoOverlap /\ NoOverlap' /\ [Next]_vars => AckInv'
  <2> SUFFICES ASSUME IInv, IInv', AckInv, NoOverlap, NoOverlap', [Next]_vars PROVE AckInv'
    OBVIOUS
  <2>1. ASSUME NEW p \in Publishers, PublisherStep(p) PROVE AckInv'
    BY <2>1, AckPublisherStep
  <2>2. CASE (\E g \in Gateways : GatewayStep(g)) \/ UNCHANGED vars
    <3>1. UNCHANGED <<configVars, localVars, storeVars, acked>>
      BY <2>2 DEF GatewayStep, Start, Exit, Check, ReadPointer, ReadBlob, vars
    <3> QED
      BY <3>1 DEF AckInv, AckedCommitted, LastDrawn, NewestHoldsAcked, IsNewest, Within, configVars,
         localVars, storeVars
  <2> QED
    BY <2>1, <2>2, StepKinds
<1>3. AckInv => NewestHoldsAcked
  BY DEF AckInv
<1> QED
  BY <1>1, <1>2, <1>3, Invariant, PTL DEF Spec

-----------------------------------------------------------------------------
(* Refinement *)

\* A committed row is one new entry of the primary feed.
LEMMA CommitPublishes ==
  ASSUME IInv, NEW p \in Publishers, CommitRow(p)
  PROVE  Feed!Publish
<1> DEFINE row == [version |-> version[p], base |-> base[p], began |-> began[p]]
           e == [feed |-> PrimaryFeed,
                 snap |-> [version |-> version[p], base |-> base[p], members |-> 0]]
<1>1. snapshots' = snapshots \cup {row} /\ blobs' = blobs /\ pc[p] = "commit"
  BY DEF CommitRow
<1>2. \A s \in snapshots : s.version # version[p]
  BY <1>1 DEF IInv, SerialUnique
<1>3. PublishedLog' = PublishedLog \cup {e}
  <2> DEFINE entry(s) == [feed |-> PrimaryFeed,
                          snap |-> [version |-> s.version, base |-> s.base, members |-> 0]]
             objects == {[feed |-> b.prefix,
                          snap |-> [version |-> b.version, base |-> b.base,
                                    members |-> b.members]] : b \in blobs}
  <2>1. entry(row) = e
    OBVIOUS
  <2>2. PublishedLog = {entry(s) : s \in snapshots} \cup objects
    BY DEF PublishedLog
  <2>3. PublishedLog' = {entry(s) : s \in snapshots \cup {row}} \cup objects
    BY <1>1 DEF PublishedLog
  <2> HIDE DEF entry, objects, row, e
  <2> QED
    BY <2>1, <2>2, <2>3
<1>4. \A o \in PublishedLog : o.feed = e.feed => o.snap.version # e.snap.version
  <2>1. \A b \in blobs : b.prefix # PrimaryFeed
    BY DEF IInv, TypeOK, Blob, Prefixes, PrimaryFeed
  <2> QED
    BY <1>2, <2>1 DEF PublishedLog
<1>5. UNCHANGED <<held, up>>
  BY DEF CommitRow, gatewayVars
<1>6. e \in PublishedLog' \ PublishedLog
  BY <1>3, <1>4
<1> HIDE DEF e
<1> QED
  BY <1>3, <1>4, <1>5, <1>6 DEF Feed!Publish

\* A mirrored object is one new entry of the feed of its prefix.
LEMMA BlobPublishes ==
  ASSUME IInv, NEW p \in Publishers, PutBlob(p)
  PROVE  Feed!Publish
<1> DEFINE new == [prefix |-> prefix[p], version |-> version[p],
                   base |-> base[p], members |-> members[p]]
           e == [feed |-> prefix[p],
                 snap |-> [version |-> version[p], base |-> base[p],
                           members |-> members[p]]]
<1>1. blobs' = blobs \cup {new} /\ snapshots' = snapshots
  BY PutBlobAdds DEF PutBlob, IInv
<1>2. \A b \in blobs : b.prefix = prefix[p] => b.version # version[p]
  <2>1. \A b \in blobs : b.version = version[p] => b.prefix < prefix[p]
    BY DEF PutBlob, IInv, MirrorProgress
  <2>2. prefix[p] \in Int
    BY DEF IInv, TypeOK, Prefixes
  <2> QED
    BY <2>1, <2>2
<1>3. PublishedLog' = PublishedLog \cup {e}
  <2> DEFINE entry(b) == [feed |-> b.prefix,
                          snap |-> [version |-> b.version, base |-> b.base,
                                    members |-> b.members]]
             committed == {[feed |-> PrimaryFeed,
                            snap |-> [version |-> s.version, base |-> s.base,
                                      members |-> 0]] : s \in snapshots}
  <2>1. entry(new) = e
    OBVIOUS
  <2>2. PublishedLog = committed \cup {entry(b) : b \in blobs}
    BY DEF PublishedLog
  <2>3. PublishedLog' = committed \cup {entry(b) : b \in blobs \cup {new}}
    BY <1>1 DEF PublishedLog
  <2> HIDE DEF entry, committed, new, e
  <2> QED
    BY <2>1, <2>2, <2>3
<1>4. \A o \in PublishedLog : o.feed = e.feed => o.snap.version # e.snap.version
  <2>1. prefix[p] # PrimaryFeed
    BY DEF IInv, TypeOK, Prefixes, PrimaryFeed
  <2> QED
    BY <1>2, <2>1 DEF PublishedLog
<1>5. UNCHANGED <<held, up>>
  BY DEF PutBlob, gatewayVars
<1>6. e \in PublishedLog' \ PublishedLog
  BY <1>3, <1>4
<1> HIDE DEF e
<1> QED
  BY <1>3, <1>4, <1>5, <1>6 DEF Feed!Publish

\* Every other step of a publisher is invisible.
LEMMA PublisherStutters ==
  ASSUME NEW p \in Publishers, PublisherStep(p), ~CommitRow(p), ~PutBlob(p)
  PROVE  UNCHANGED Feed!feedVars
<1>1. snapshots' = snapshots /\ blobs' = blobs
  BY DEF PublisherStep, ChangeConfig, ChangeRegion, Republish, Begin, EarlyBump, ReadTable,
     InsertRow, PutPointer, ReadMembers, FinalBump, Fail, storeVars
<1>2. PublishedLog' = PublishedLog
  BY <1>1 DEF PublishedLog
<1> QED
  BY <1>2, GatewaysKept DEF Feed!feedVars, gatewayVars

\* A gateway's step starts it, stops it, advances it along its feed, or is invisible.
LEMMA GatewayRefines ==
  ASSUME IInv, NEW g \in Gateways, GatewayStep(g)
  PROVE  [Feed!Next]_Feed!feedVars
<1> USE DEF IInv
<1>0. /\ PublishedLog' = PublishedLog
      /\ \A h \in Gateways : h # g => up'[h] = up[h] /\ held'[h] = held[h]
      /\ held \in [Gateways -> Payload] /\ held' \in [Gateways -> Payload]
      /\ up \in [Gateways -> BOOLEAN] /\ up' \in [Gateways -> BOOLEAN]
  BY GatewayStepFrame, GatewayType DEF PublishedLog, storeVars, TypeOK, GatewayStep
<1>1. held' = [held EXCEPT ![g] = held'[g]]
  BY <1>0
<1>2. CASE Start(g)
  BY <1>0, <1>2 DEF Start, Feed!Next, Feed!Boot
<1>3. CASE Exit(g)
  BY <1>0, <1>3 DEF Exit, Feed!Next, Feed!Stop
<1>4. CASE ~Start(g) /\ ~Exit(g) /\ held'[g] = held[g]
  <2>1. up' = up
    BY <1>4 DEF GatewayStep, Check, ReadPointer, ReadBlob
  <2>2. held' = held
    BY <1>0, <1>4
  <2> QED
    BY <1>0, <2>1, <2>2 DEF Feed!feedVars
<1>5. CASE ~Start(g) /\ ~Exit(g) /\ held'[g] # held[g]
  <2>1. /\ up[g] /\ up' = up /\ held'[g].version > held[g].version
        /\ g \in PgGateways => \E s \in snapshots :
             held'[g] = [version |-> s.version, base |-> s.base, members |-> 0]
        /\ g \in MirrorGateways => \E b \in blobs : b.prefix = PrefixOf[g] /\
             held'[g] = [version |-> b.version, base |-> b.base, members |-> b.members]
    <3>1. up' = up
      BY <1>5 DEF GatewayStep, Check, ReadPointer, ReadBlob
    <3> QED
      BY <1>5, <3>1, HeldChange
  <2>2. \E e \in PublishedLog : e.feed = GatewayFeed[g] /\ e.snap = held'[g]
    <3>1. CASE g \in PgGateways
      <4>1. PICK s \in snapshots :
              held'[g] = [version |-> s.version, base |-> s.base, members |-> 0]
        BY <2>1, <3>1
      <4>2. [feed |-> PrimaryFeed,
             snap |-> [version |-> s.version, base |-> s.base, members |-> 0]] \in PublishedLog
        BY DEF PublishedLog
      <4> QED
        BY <3>1, <4>1, <4>2 DEF GatewayFeed
    <3>2. CASE g \notin PgGateways
      <4>1. PICK b \in blobs : b.prefix = PrefixOf[g] /\
              held'[g] = [version |-> b.version, base |-> b.base, members |-> b.members]
        BY <2>1, <3>2 DEF Gateways
      <4>2. [feed |-> b.prefix,
             snap |-> [version |-> b.version, base |-> b.base,
                       members |-> b.members]] \in PublishedLog
        BY DEF PublishedLog
      <4> QED
        BY <3>2, <4>1, <4>2 DEF GatewayFeed
    <3> QED
      BY <3>1, <3>2
  <2>3. Feed!Advance(g)
    BY <1>0, <1>1, <2>1, <2>2 DEF Feed!Advance
  <2> QED
    BY <2>3 DEF Feed!Next
<1> QED
  BY <1>2, <1>3, <1>4, <1>5

\* Snapshot distribution, with every race, failure and crash it allows, implements a
\* write-once versioned feed whose consumers only move forward.
THEOREM Refinement == Spec => FeedSpec
<1>1. Init => Feed!Init
  <2> SUFFICES ASSUME Init PROVE Feed!Init
    OBVIOUS
  <2>1. PublishedLog = {}
    BY DEF Init, PublishedLog
  <2> QED
    BY <2>1 DEF Init, Feed!Init
<1>2. IInv /\ [Next]_vars => [Feed!Next]_Feed!feedVars
  <2> SUFFICES ASSUME IInv, [Next]_vars PROVE [Feed!Next]_Feed!feedVars
    OBVIOUS
  <2>1. ASSUME NEW p \in Publishers, PublisherStep(p)
        PROVE  [Feed!Next]_Feed!feedVars
    BY <2>1, CommitPublishes, BlobPublishes, PublisherStutters DEF Feed!Next
  <2>2. CASE UNCHANGED vars
    BY <2>2 DEF vars, storeVars, gatewayVars, PublishedLog, Feed!feedVars
  <2> QED
    BY <2>1, <2>2, StepKinds, GatewayRefines
<1> QED
  BY <1>1, <1>2, Invariant, PTL DEF Spec, FeedSpec, Feed!Spec
=============================================================================
