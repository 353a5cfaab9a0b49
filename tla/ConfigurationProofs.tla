-------------------------- MODULE ConfigurationProofs --------------------------
(***************************************************************************)
(* The safety properties of Regions and of ConfigStore (C), for every set  *)
(* of administrators, organizations, configurations, overlays, rows and    *)
(* credentials and every bound.                                            *)
(***************************************************************************)
EXTENDS MCConfiguration, Sequences, TLAPS

-----------------------------------------------------------------------------
(* One region *)

Bindings == {"none", "active", "disabled"}

\* What a command that has passed its checks is about.
ArgOK ==
  /\ DOMAIN arg = Admins
  /\ \A a \in Admins :
       /\ pc[a] \in {"upsertMember", "dropOverlay", "dropMember", "upsertOverlay"} => arg[a].org \in Orgs
       /\ pc[a] = "upsertMember" => arg[a].status \in {"active", "disabled"}
       /\ pc[a] = "upsertOverlay" => arg[a].payload \in Payloads
       /\ pc[a] = "renamed" => arg[a].status \in Statuses

LEMMA RegionTypesInit == Init => TypeOK /\ ArgOK
<1> SUFFICES ASSUME Init PROVE TypeOK /\ ArgOK
  OBVIOUS
<1>1. member \in [Orgs -> Bindings] /\ overlay \in [Orgs -> Payloads \cup {NoOverlay}]
  BY DEF Init, Bindings
<1>2. pc \in [Admins -> Steps] /\ loaded \in [Admins -> Bases \cup {NoOverlay}]
  BY DEF Init, Steps
<1>3. seen \in [Admins -> [Orgs -> Bindings] \cup {<<>>}]
  BY DEF Init
<1>4. commands \in 0..MaxCommands /\ faults \in 0..MaxFaults
  BY RegionsAssumption DEF Init
<1>5. ArgOK
  BY DEF Init, ArgOK
<1> QED
  BY <1>1, <1>2, <1>3, <1>4, <1>5 DEF Init, TypeOK, Statuses, Bindings

LEMMA ReturnTypes ==
  ASSUME TypeOK, ArgOK, NEW a \in Admins, Return(a)
  PROVE  /\ pc' \in [Admins -> Steps] /\ ArgOK'
         /\ loaded' \in [Admins -> Bases \cup {NoOverlay}]
         /\ seen' \in [Admins -> [Orgs -> Bindings] \cup {<<>>}]
         /\ mixed' \in BOOLEAN
<1>1. mixed' \in BOOLEAN
  BY DEF Return, Others
<1> QED
  BY <1>1 DEF TypeOK, ArgOK, Return, Steps, Bindings

LEMMA BeginTypes ==
  ASSUME TypeOK, NEW a \in Admins, NEW next \in Steps, NEW what, Begin(a, next, what)
  PROVE  /\ pc' \in [Admins -> Steps]
         /\ commands' \in 0..MaxCommands /\ mixed' \in BOOLEAN /\ behind' \in BOOLEAN
         /\ UNCHANGED <<loaded, seen, blob, faults>>
  BY RegionsAssumption DEF TypeOK, Begin, Others

LEMMA BeginArgs ==
  ASSUME TypeOK, ArgOK, NEW a \in Admins, NEW next \in Steps, NEW what, Begin(a, next, what),
         next \in {"upsertMember", "dropOverlay", "dropMember", "upsertOverlay"} => what.org \in Orgs,
         next = "upsertMember" => what.status \in {"active", "disabled"},
         next = "upsertOverlay" => what.payload \in Payloads,
         next = "renamed" => what.status \in Statuses
  PROVE  ArgOK'
<1>1. pc' = [pc EXCEPT ![a] = next] /\ arg' = [arg EXCEPT ![a] = what]
  BY DEF Begin
<1>2. \A b \in Admins : pc'[b] = IF b = a THEN next ELSE pc[b]
  BY <1>1 DEF TypeOK
<1>3. DOMAIN arg' = Admins /\ \A b \in Admins : arg'[b] = IF b = a THEN what ELSE arg[b]
  BY <1>1 DEF ArgOK
<1> QED
  BY <1>2, <1>3 DEF ArgOK

LEMMA GoTypes ==
  ASSUME TypeOK, ArgOK, NEW a \in Admins, NEW next \in Steps, Go(a, next), next \in {"load", "bindMember"}
  PROVE  /\ pc' \in [Admins -> Steps] /\ ArgOK'
         /\ UNCHANGED <<arg, loaded, seen, blob, commands, faults, mixed, behind>>
  BY DEF TypeOK, ArgOK, Go, localVars, histVars

LEMMA RegionTypesStep == TypeOK /\ ArgOK /\ [Next]_vars => TypeOK' /\ ArgOK'
<1> SUFFICES ASSUME TypeOK, ArgOK, [Next]_vars PROVE TypeOK' /\ ArgOK'
  OBVIOUS
<1> USE DEF Statuses, storeVars
<1>1. CASE UNCHANGED vars
  BY <1>1 DEF vars, localVars, histVars, TypeOK, ArgOK
<1>2. ASSUME NEW a \in Admins, Command(a)
      PROVE  TypeOK' /\ ArgOK'
  <2> USE DEF Steps
  <2>1. ASSUME NEW o \in Orgs, NEW st \in {"active", "disabled"}, Bind(a, o, st)
        PROVE  TypeOK' /\ ArgOK'
    <3>1. Begin(a, "upsertMember", [org |-> o, status |-> st]) /\ UNCHANGED storeVars
      BY <2>1 DEF Bind
    <3> QED
      BY <3>1, BeginTypes, BeginArgs DEF TypeOK
  <2>2. CASE BindAll(a)
    <3>1. Begin(a, "bindNext", [left |-> Orgs]) /\ UNCHANGED storeVars
      BY <2>2 DEF BindAll
    <3> QED
      BY <3>1, BeginTypes, BeginArgs DEF TypeOK
  <2>3. ASSUME NEW o \in Orgs, Unbind(a, o)
        PROVE  TypeOK' /\ ArgOK'
    <3>1. Begin(a, "dropOverlay", [org |-> o]) /\ UNCHANGED storeVars
      BY <2>3 DEF Unbind
    <3> QED
      BY <3>1, BeginTypes, BeginArgs DEF TypeOK
  <2>4. ASSUME NEW o \in Orgs, DeleteOverlay(a, o)
        PROVE  TypeOK' /\ ArgOK'
    <3>1. Begin(a, "load", [org |-> o]) /\ UNCHANGED <<status, member, base>>
      BY <2>4 DEF DeleteOverlay
    <3>2. overlay' \in [Orgs -> Payloads \cup {NoOverlay}]
      BY <2>4 DEF DeleteOverlay, TypeOK
    <3> QED
      BY <3>1, <3>2, BeginTypes, BeginArgs DEF TypeOK
  <2>5. ASSUME NEW o \in Orgs, NEW p \in Payloads, PutOverlay(a, o, p)
        PROVE  TypeOK' /\ ArgOK'
    <3>1. Begin(a, "upsertOverlay", [org |-> o, payload |-> p]) /\ UNCHANGED storeVars
      BY <2>5 DEF PutOverlay
    <3> QED
      BY <3>1, BeginTypes, BeginArgs DEF TypeOK
  <2>6. ASSUME NEW st \in Statuses \cup {""}, UpdateRegion(a, st)
        PROVE  TypeOK' /\ ArgOK'
    <3> DEFINE new == IF st = "" THEN status ELSE st
    <3>1. Begin(a, "renamed", [status |-> new]) /\ UNCHANGED storeVars
      BY <2>6 DEF UpdateRegion
    <3>2. new \in Statuses
      BY <2>6 DEF TypeOK
    <3> HIDE DEF new
    <3> QED
      BY <3>1, <3>2, BeginTypes, BeginArgs DEF TypeOK
  <2>7. ASSUME NEW b \in Bases, ChangeBase(a, b)
        PROVE  TypeOK' /\ ArgOK'
    <3>1. Begin(a, "load", NoArg) /\ UNCHANGED <<status, member, overlay>> /\ base' = b
      BY <2>7 DEF ChangeBase
    <3> QED
      BY <3>1, BeginTypes, BeginArgs DEF TypeOK
  <2> QED
    BY <1>2, <2>1, <2>2, <2>3, <2>4, <2>5, <2>6, <2>7 DEF Command, Begins
<1>3. ASSUME NEW a \in Admins, Step(a)
      PROVE  TypeOK' /\ ArgOK'
  <2> USE DEF Steps
  <2>1. CASE UpsertMember(a)
    <3>1. Go(a, "load") /\ UNCHANGED <<status, overlay, base>>
      BY <2>1 DEF UpsertMember
    <3>2. member' \in [Orgs -> Bindings]
      BY <2>1 DEF UpsertMember, TypeOK, ArgOK, Bindings
    <3> QED
      BY <3>1, <3>2, GoTypes DEF TypeOK, Bindings
  <2>2. CASE BindNext(a)
    <3>1. CASE (Go(a, "load") \/ Go(a, "bindMember")) /\ UNCHANGED storeVars
      BY <3>1, GoTypes DEF TypeOK
    <3>2. CASE End(a) /\ UNCHANGED storeVars
      BY <3>2, ReturnTypes DEF TypeOK, End, Bindings
    <3> QED
      BY <2>2, <3>1, <3>2 DEF BindNext
  <2>3. CASE DropOverlay(a)
    <3>1. overlay' \in [Orgs -> Payloads \cup {NoOverlay}]
      BY <2>3 DEF DropOverlay, TypeOK
    <3>2. faults' \in 0..MaxFaults
      BY <2>3, RegionsAssumption DEF DropOverlay, TypeOK
    <3>3. pc' \in [Admins -> Steps] /\ ArgOK'
      BY <2>3 DEF DropOverlay, TypeOK, ArgOK, localVars
    <3> QED
      BY <2>3, <3>1, <3>2, <3>3 DEF DropOverlay, TypeOK, localVars
  <2>4. CASE DropMember(a)
    <3>1. member' \in [Orgs -> Bindings] /\ UNCHANGED <<status, overlay, base>>
      BY <2>4 DEF DropMember, TypeOK, Bindings
    <3>2. CASE End(a)
      BY <3>1, <3>2, ReturnTypes DEF TypeOK, End, Bindings
    <3>3. CASE Go(a, "load")
      BY <3>1, <3>3, GoTypes DEF TypeOK, Bindings
    <3> QED
      BY <2>4, <3>2, <3>3 DEF DropMember
  <2>5. CASE UpsertOverlay(a)
    <3>1. Go(a, "load") /\ UNCHANGED <<status, member, base>>
      BY <2>5 DEF UpsertOverlay
    <3>2. overlay' \in [Orgs -> Payloads \cup {NoOverlay}]
      BY <2>5 DEF UpsertOverlay, TypeOK, ArgOK
    <3> QED
      BY <3>1, <3>2, GoTypes DEF TypeOK
  <2>6. CASE WriteRegion(a)
    <3>1. status' \in Statuses
      BY <2>6 DEF WriteRegion, ArgOK
    <3>2. End(a) /\ UNCHANGED <<member, overlay, base>>
      BY <2>6 DEF WriteRegion
    <3> QED
      BY <3>1, <3>2, ReturnTypes DEF TypeOK, End, Bindings
  <2>7. CASE Load(a)
    BY <2>7 DEF Load, TypeOK, ArgOK, histVars
  <2>8. CASE ReadMembers(a)
    <3>1. CASE status = "disabled"
      BY <2>8, <3>1, ReturnTypes DEF ReadMembers, TypeOK, Bindings
    <3>2. CASE status # "disabled"
      BY <2>8, <3>2 DEF ReadMembers, TypeOK, ArgOK
    <3> QED
      BY <3>1, <3>2
  <2>9. CASE PutRegion(a)
    BY <2>9, ReturnTypes DEF PutRegion, TypeOK, Bindings
  <2>10. CASE BindMember(a)
    <3>1. member' \in [Orgs -> Bindings]
      BY <2>10 DEF BindMember, TypeOK, Bindings
    <3>2. ArgOK' /\ pc' \in [Admins -> Steps]
      <4>1. DOMAIN arg' = Admins /\ \A b \in Admins : b # a => arg'[b] = arg[b]
        BY <2>10 DEF BindMember, ArgOK
      <4>2. pc' = [pc EXCEPT ![a] = "bindNext"]
        BY <2>10 DEF BindMember
      <4> QED
        BY <4>1, <4>2 DEF ArgOK, TypeOK
    <3> QED
      BY <2>10, <3>1, <3>2 DEF BindMember, TypeOK, histVars, Bindings
  <2> QED
    BY <1>3, <2>1, <2>2, <2>3, <2>4, <2>5, <2>6, <2>7, <2>8, <2>9, <2>10 DEF Step
<1>4. ASSUME NEW a \in Admins, Fail(a)
      PROVE  TypeOK' /\ ArgOK'
  <2>1. faults' \in 0..MaxFaults
    BY <1>4, RegionsAssumption DEF Fail, TypeOK
  <2> QED
    BY <1>4, <2>1, ReturnTypes DEF Fail, TypeOK, Bindings
<1> QED
  BY <1>1, <1>2, <1>3, <1>4 DEF Next

\* The gateways of the region are given what its tables say.
Synced == blob = Now \/ (blob = NoOverlay /\ Active = {})

\* What holds of a handler that has been alone since it began: nobody has changed what it
\* has read.
ReadsHold(a) ==
  /\ pc[a] \in {"dropOverlay", "dropMember"} => member[arg[a].org] # "none"
  /\ pc[a] \in {"members", "overlays"} => loaded[a] = base
  /\ pc[a] = "overlays" => seen[a] = member

\* And of one that found the tables and the snapshot in step: they differ only in what it
\* has yet to publish.
InStep(a) ==
  /\ pc[a] \in {"upsertMember", "dropOverlay", "upsertOverlay", "renamed"} => Synced
  /\ pc[a] = "bindNext" => Synced \/ status # "disabled"
  /\ pc[a] = "bindMember" => status # "disabled"

\* While commands come one after the other, each publishes what it has read and nobody has
\* changed since; if none has failed or been passed over since the last publish of that
\* kind, the snapshot is short of the one under way only.
SettledInv ==
  /\ mixed => behind
  /\ ~mixed => /\ \A a, b \in Admins : pc[a] # "idle" /\ pc[b] # "idle" => a = b
               /\ \A a \in Admins : ReadsHold(a)
  /\ ~behind => /\ (\A a \in Admins : pc[a] = "idle") => Synced
                /\ \A a \in Admins : InStep(a)

LEMMA SettledInit == Init => SettledInv
<1> SUFFICES ASSUME Init PROVE SettledInv
  OBVIOUS
<1>1. \A a \in Admins : pc[a] = "idle"
  BY DEF Init
<1>2. blob = NoOverlay /\ Active = {} /\ ~mixed
  BY DEF Init, Active
<1> QED
  BY <1>1, <1>2 DEF SettledInv, Synced, ReadsHold, InStep

\* A command begins alone, or it is mixed with another.
LEMMA SettledBegin ==
  ASSUME TypeOK, ArgOK, SettledInv, NEW a \in Admins, NEW next \in Steps, NEW what, Begin(a, next, what),
         UNCHANGED storeVars \/ next = "load",
         next \notin {"idle", "dropMember", "bindMember", "members", "overlays"},
         next = "dropOverlay" => member[what.org] # "none"
  PROVE  SettledInv'
<1>1. /\ pc[a] = "idle" /\ blob' = blob
      /\ \A b \in Admins : pc'[b] = IF b = a THEN next ELSE pc[b]
      /\ arg'[a] = what
      /\ mixed' = (mixed \/ Others(a)) /\ behind' = (behind \/ Others(a))
  BY DEF Begin, TypeOK, ArgOK
<1>2. (mixed => behind) /\ (mixed' => behind')
  BY <1>1 DEF SettledInv
<1>3. CASE mixed'
  BY <1>2, <1>3 DEF SettledInv
<1>4. CASE ~mixed'
  <2>1. ~mixed /\ \A b \in Admins : pc[b] = "idle"
    BY <1>1, <1>4 DEF Others
  <2>2. \A b \in Admins : pc'[b] = IF b = a THEN next ELSE "idle"
    BY <1>1, <2>1
  <2>3. \A b \in Admins : ReadsHold(b)'
    BY <1>1, <2>2 DEF ReadsHold, storeVars
  <2>4. ASSUME ~behind'
        PROVE  \A b \in Admins : InStep(b)'
    <3>1. Synced
      BY <1>1, <2>1, <2>4 DEF SettledInv
    <3>2. UNCHANGED storeVars => Synced'
      BY <1>1, <3>1 DEF Synced, Now, Active, storeVars
    <3> QED
      BY <2>2, <3>2 DEF InStep
  <2>5. ~(\A b \in Admins : pc'[b] = "idle")
    BY <2>2
  <2> QED
    BY <1>2, <2>2, <2>3, <2>4, <2>5 DEF SettledInv
<1> QED
  BY <1>3, <1>4

\* What is left to show of a handler that goes on.
LEMMA SettledGoesOn ==
  ASSUME TypeOK, ArgOK, SettledInv, NEW a \in Admins, pc[a] # "idle", pc'[a] # "idle",
         \A b \in Admins \ {a} : pc'[b] = pc[b],
         mixed' = mixed, behind' = behind,
         ~mixed => ReadsHold(a)',
         ~behind => InStep(a)'
  PROVE  SettledInv'
<1>1. mixed' => behind'
  BY DEF SettledInv
<1>2. ASSUME ~mixed'
      PROVE  \A b \in Admins : pc'[b] = IF b = a THEN pc'[a] ELSE "idle"
  BY <1>2 DEF SettledInv
<1>3. ASSUME ~mixed'
      PROVE  \A b \in Admins : ReadsHold(b)'
  BY <1>2, <1>3 DEF ReadsHold
<1>4. ASSUME ~behind'
      PROVE  \A b \in Admins : InStep(b)'
  BY <1>1, <1>2, <1>4 DEF InStep
<1> QED
  BY <1>1, <1>2, <1>3, <1>4 DEF SettledInv

\* What is left to show of a handler that ends: alone, that it leaves the snapshot in step.
LEMMA SettledEnds ==
  ASSUME TypeOK, ArgOK, SettledInv, NEW a \in Admins, pc[a] # "idle", Return(a),
         mixed => behind',
         ~mixed /\ ~behind' => Synced'
  PROVE  SettledInv'
<1>1. pc'[a] = "idle" /\ (\A b \in Admins \ {a} : pc'[b] = pc[b]) /\ mixed' = (mixed /\ Others(a))
  BY DEF Return, TypeOK
<1>2. ~mixed' => \A b \in Admins : pc'[b] = "idle"
  BY <1>1 DEF SettledInv, Others
<1>3. ~mixed' => \A b \in Admins : ReadsHold(b)'
  BY <1>2 DEF ReadsHold
<1>4. mixed' => behind'
  BY <1>1
<1>5. ASSUME ~behind'
      PROVE  Synced' /\ \A b \in Admins : InStep(b)'
  BY <1>1, <1>2, <1>5 DEF InStep
<1> QED
  BY <1>2, <1>3, <1>4, <1>5 DEF SettledInv

LEMMA SyncedKept ==
  ASSUME UNCHANGED <<member, overlay, base, blob>>
  PROVE  Synced' <=> Synced
  BY DEF Synced, Now, Active

LEMMA SettledStep == TypeOK /\ ArgOK /\ SettledInv /\ [Next]_vars => SettledInv'
<1> SUFFICES ASSUME TypeOK, ArgOK, SettledInv, [Next]_vars
             PROVE  SettledInv'
  OBVIOUS
<1> USE DEF storeVars
<1>1. CASE UNCHANGED vars
  <2>1. UNCHANGED <<member, overlay, base, blob, status, pc, arg, loaded, seen, mixed, behind>>
    BY <1>1 DEF vars, localVars, histVars
  <2> QED
    BY <2>1, SyncedKept DEF SettledInv, ReadsHold, InStep
<1>2. ASSUME NEW a \in Admins, Command(a)
      PROVE  SettledInv'
  <2> USE DEF Steps
  <2>1. ASSUME NEW o \in Orgs, NEW st \in {"active", "disabled"}, Bind(a, o, st)
        PROVE  SettledInv'
    BY <2>1, SettledBegin DEF Bind
  <2>2. CASE BindAll(a)
    BY <2>2, SettledBegin DEF BindAll
  <2>3. ASSUME NEW o \in Orgs, Unbind(a, o)
        PROVE  SettledInv'
    BY <2>3, SettledBegin DEF Unbind
  <2>4. ASSUME NEW o \in Orgs, DeleteOverlay(a, o)
        PROVE  SettledInv'
    BY <2>4, SettledBegin DEF DeleteOverlay
  <2>5. ASSUME NEW o \in Orgs, NEW p \in Payloads, PutOverlay(a, o, p)
        PROVE  SettledInv'
    BY <2>5, SettledBegin DEF PutOverlay
  <2>6. ASSUME NEW st \in Statuses \cup {""}, UpdateRegion(a, st)
        PROVE  SettledInv'
    <3> DEFINE new == IF st = "" THEN status ELSE st
    <3>1. Begin(a, "renamed", [status |-> new]) /\ UNCHANGED storeVars
      BY <2>6 DEF UpdateRegion
    <3> HIDE DEF new
    <3> QED
      BY <3>1, SettledBegin
  <2>7. ASSUME NEW b \in Bases, ChangeBase(a, b)
        PROVE  SettledInv'
    BY <2>7, SettledBegin DEF ChangeBase
  <2> QED
    BY <1>2, <2>1, <2>2, <2>3, <2>4, <2>5, <2>6, <2>7 DEF Command, Begins
<1>3. ASSUME NEW a \in Admins, Step(a)
      PROVE  SettledInv'
  <2> USE DEF Steps
  <2>1. pc[a] # "idle"
    BY <1>3 DEF Step, UpsertMember, BindNext, BindMember, DropOverlay, DropMember, UpsertOverlay,
                WriteRegion, Load, ReadMembers, PutRegion
  <2>2. /\ mixed => behind
        /\ ~mixed => ReadsHold(a)
        /\ ~behind => InStep(a)
        /\ behind \in BOOLEAN /\ mixed \in BOOLEAN
    BY DEF SettledInv, TypeOK
  <2>3. CASE Go(a, "load")
    <3>1. pc'[a] = "load" /\ (\A b \in Admins \ {a} : pc'[b] = pc[b]) /\ mixed' = mixed /\ behind' = behind
      BY <2>3 DEF Go, TypeOK, histVars
    <3>2. ReadsHold(a)' /\ InStep(a)'
      BY <3>1 DEF ReadsHold, InStep
    <3> QED
      BY <2>1, <2>2, <3>1, <3>2, SettledGoesOn
  <2>4. CASE End(a) /\ (~behind => Synced')
    BY <2>1, <2>2, <2>4, SettledEnds DEF End
  <2>5. CASE UpsertMember(a) \/ UpsertOverlay(a)
    BY <2>3, <2>5 DEF UpsertMember, UpsertOverlay
  <2>6. CASE BindNext(a)
    <3>1. pc[a] = "bindNext" /\ (~behind => Synced \/ status # "disabled") /\ UNCHANGED storeVars
      BY <2>2, <2>6 DEF BindNext, InStep
    <3>2. CASE Go(a, "load")
      BY <2>3, <3>2
    <3>3. CASE End(a) /\ status = "disabled"
      BY <2>4, <3>1, <3>3, SyncedKept DEF End
    <3>4. CASE status # "disabled" /\ Go(a, "bindMember")
      <4>1. /\ pc'[a] = "bindMember" /\ (\A b \in Admins \ {a} : pc'[b] = pc[b])
            /\ mixed' = mixed /\ behind' = behind /\ status' = status
        BY <3>1, <3>4 DEF Go, TypeOK, histVars
      <4>2. ReadsHold(a)' /\ InStep(a)'
        BY <3>4, <4>1 DEF ReadsHold, InStep
      <4> QED
        BY <2>1, <2>2, <4>1, <4>2, SettledGoesOn
    <3> QED
      BY <2>6, <3>2, <3>3, <3>4 DEF BindNext
  <2>7. CASE BindMember(a)
    <3>1. /\ pc[a] = "bindMember" /\ pc'[a] = "bindNext" /\ (\A b \in Admins \ {a} : pc'[b] = pc[b])
          /\ mixed' = mixed /\ behind' = behind /\ status' = status
      BY <2>7 DEF BindMember, TypeOK, histVars
    <3>2. ReadsHold(a)' /\ (~behind => InStep(a)')
      BY <2>2, <3>1 DEF ReadsHold, InStep
    <3> QED
      BY <2>1, <2>2, <3>1, <3>2, SettledGoesOn
  <2>8. CASE DropOverlay(a)
    <3>1. /\ pc[a] = "dropOverlay" /\ pc'[a] = "dropMember" /\ (\A b \in Admins \ {a} : pc'[b] = pc[b])
          /\ UNCHANGED <<member, arg, mixed, behind>>
      BY <2>8 DEF DropOverlay, TypeOK, localVars
    <3>2. (~mixed => ReadsHold(a)') /\ InStep(a)'
      BY <2>2, <3>1 DEF ReadsHold, InStep
    <3> QED
      BY <2>1, <2>2, <3>1, <3>2, SettledGoesOn
  <2>9. CASE DropMember(a)
    <3>1. ~mixed => member[arg[a].org] # "none"
      BY <2>2, <2>9 DEF DropMember, ReadsHold
    <3>2. CASE member[arg[a].org] = "none"
      BY <2>2, <2>4, <2>9, <3>1, <3>2 DEF DropMember
    <3>3. CASE member[arg[a].org] # "none"
      BY <2>3, <2>9, <3>3 DEF DropMember
    <3> QED
      BY <3>2, <3>3
  <2>10. CASE WriteRegion(a)
    <3>1. (~behind => Synced) /\ End(a) /\ UNCHANGED <<member, overlay, base>>
      BY <2>2, <2>10 DEF WriteRegion, InStep
    <3> QED
      BY <2>4, <3>1, SyncedKept DEF End
  <2>11. CASE Load(a)
    <3>1. /\ pc'[a] = "members" /\ (\A b \in Admins \ {a} : pc'[b] = pc[b])
          /\ loaded'[a] = base /\ base' = base /\ mixed' = mixed /\ behind' = behind
      BY <2>11 DEF Load, TypeOK, histVars
    <3>2. ReadsHold(a)' /\ InStep(a)'
      BY <3>1 DEF ReadsHold, InStep
    <3> QED
      BY <2>1, <2>2, <3>1, <3>2, SettledGoesOn
  <2>12. CASE ReadMembers(a)
    <3>1. CASE status = "disabled"
      BY <2>1, <2>2, <2>12, <3>1, SettledEnds DEF ReadMembers
    <3>2. CASE status # "disabled"
      <4>1. /\ pc[a] = "members" /\ pc'[a] = "overlays" /\ (\A b \in Admins \ {a} : pc'[b] = pc[b])
            /\ seen'[a] = member /\ UNCHANGED <<member, base, loaded, mixed, behind>>
        BY <2>12, <3>2 DEF ReadMembers, TypeOK
      <4>2. (~mixed => ReadsHold(a)') /\ InStep(a)'
        BY <2>2, <4>1 DEF ReadsHold, InStep
      <4> QED
        BY <2>1, <2>2, <4>1, <4>2, SettledGoesOn
    <3> QED
      BY <3>1, <3>2
  <2>13. CASE PutRegion(a)
    <3>1. Return(a) /\ behind' = (behind /\ mixed) /\ UNCHANGED storeVars
      BY <2>13 DEF PutRegion
    <3>2. ~mixed => loaded[a] = base /\ seen[a] = member
      BY <2>2, <2>13 DEF PutRegion, ReadsHold
    <3>3. blob' = RegionSnapshot(loaded[a], seen[a], overlay)
      BY <2>13 DEF PutRegion
    <3>4. ~mixed => blob' = RegionSnapshot(base', member', overlay')
      BY <3>1, <3>2, <3>3
    <3>5. ~mixed => Synced'
      BY <3>4 DEF Synced, Now
    <3> QED
      BY <2>1, <2>2, <3>1, <3>5, SettledEnds
  <2> QED
    BY <1>3, <2>5, <2>6, <2>7, <2>8, <2>9, <2>10, <2>11, <2>12, <2>13 DEF Step
<1>4. ASSUME NEW a \in Admins, Fail(a)
      PROVE  SettledInv'
  BY <1>4, SettledEnds DEF Fail
<1> QED
  BY <1>1, <1>2, <1>3, <1>4 DEF Next

-----------------------------------------------------------------------------
(* What an overlay replaces *)

SliceOf(o) == Slice(base, overlay, o)

LEMMA SnapshotRows ==
  ASSUME TypeOK
  PROVE  /\ Now.snap.keys = UNION {SliceOf(o).keys : o \in Active}
         /\ Now.snap.routes = UNION {SliceOf(o).routes : o \in Active}
         /\ Now.snap.rest = UNION {SliceOf(o).rest : o \in Active}
<1> DEFINE src == BuildRegionSource(base, member, overlay)
<1>1. src.slices = [o \in Active |-> SliceOf(o)]
  BY DEF BuildRegionSource, Bound, Active, SliceOf, TypeOK
<1>2. Now.snap = Compile(src)
  BY DEF Now, RegionSnapshot, CompileRegion
<1> HIDE DEF src
<1>3. DOMAIN src.slices = Active /\ \A o \in Active : src.slices[o] = SliceOf(o)
  BY ONLY <1>1
<1> DEFINE k == {src.slices[o].keys : o \in DOMAIN src.slices}
           t == {src.slices[o].routes : o \in DOMAIN src.slices}
           q == {src.slices[o].rest : o \in DOMAIN src.slices}
<1>4. Now.snap.keys = UNION k /\ Now.snap.routes = UNION t /\ Now.snap.rest = UNION q
  BY ONLY <1>2 DEF Compile
<1>5. /\ k = {SliceOf(o).keys : o \in Active}
      /\ t = {SliceOf(o).routes : o \in Active}
      /\ q = {SliceOf(o).rest : o \in Active}
  BY ONLY <1>3
<1> HIDE DEF k, t, q
<1>6. Now.snap.keys = UNION {SliceOf(o).keys : o \in Active}
  BY ONLY <1>4, <1>5
<1>7. Now.snap.routes = UNION {SliceOf(o).routes : o \in Active}
  BY ONLY <1>4, <1>5
<1>8. Now.snap.rest = UNION {SliceOf(o).rest : o \in Active}
  BY ONLY <1>4, <1>5
<1> QED
  BY ONLY <1>6, <1>7, <1>8

LEMMA OwnedRows ==
  ASSUME NEW rows, NEW o, NEW fields, "org" \notin fields,
         \A r \in rows : {"org"} \cup fields \subseteq DOMAIN r
  PROVE  /\ \A r \in Owned(rows, o) : r.org = o
         /\ \A r \in rows : \E q \in Owned(rows, o) : \A f \in fields : q[f] = r[f]
         /\ \A q \in Owned(rows, o) : \E r \in rows : \A f \in fields : q[f] = r[f]
<1> DEFINE Mine(r) == [r EXCEPT !.org = o]
<1>1. \A r \in rows : Mine(r).org = o /\ \A f \in fields : Mine(r)[f] = r[f]
  OBVIOUS
<1>2. Owned(rows, o) = {Mine(r) : r \in rows}
  BY DEF Owned
<1> HIDE DEF Mine
<1>3. \A r \in Owned(rows, o) : r.org = o
  BY ONLY <1>1, <1>2
<1>4. \A r \in rows : Mine(r) \in Owned(rows, o)
  BY ONLY <1>2
<1>5. \A q \in Owned(rows, o) : \E r \in rows : q = Mine(r)
  BY ONLY <1>2
<1>6. \A r \in rows : \E q \in Owned(rows, o) : \A f \in fields : q[f] = r[f]
  BY ONLY <1>1, <1>4
<1>7. \A q \in Owned(rows, o) : \E r \in rows : \A f \in fields : q[f] = r[f]
  BY ONLY <1>1, <1>5
<1> QED
  BY ONLY <1>3, <1>6, <1>7

\* The slice of an organization has rows of that organization only.
LEMMA SliceRows ==
  ASSUME TypeOK, NEW o \in Orgs
  PROVE  /\ SliceOf(o).keys = OfOrg(base.keys, o)
         /\ SliceOf(o).routes = IF overlay[o] = NoOverlay THEN OfOrg(base.routes, o)
                                ELSE Owned(overlay[o].routes, o)
         /\ SliceOf(o).rest = IF overlay[o] = NoOverlay THEN OfOrg(base.rest, o)
                              ELSE Owned(overlay[o].rest, o)
         /\ \A r \in SliceOf(o).keys \cup SliceOf(o).routes \cup SliceOf(o).rest : r.org = o
<1>1. /\ SliceOf(o).keys = OfOrg(base.keys, o)
      /\ SliceOf(o).routes = IF overlay[o] = NoOverlay THEN OfOrg(base.routes, o)
                             ELSE Owned(overlay[o].routes, o)
      /\ SliceOf(o).rest = IF overlay[o] = NoOverlay THEN OfOrg(base.rest, o)
                           ELSE Owned(overlay[o].rest, o)
  BY DEF SliceOf, Slice, IndexBaseByOrg, OverlayToSlice
<1>2. \A rows : \A r \in OfOrg(rows, o) : r.org = o
  BY DEF OfOrg
<1>3. CASE overlay[o] = NoOverlay
  BY <1>1, <1>2, <1>3
<1>4. CASE overlay[o] # NoOverlay
  <2>1. overlay[o] \in Payloads
    BY <1>4 DEF TypeOK
  <2>2. /\ \A r \in overlay[o].routes : {"org"} \cup {} \subseteq DOMAIN r
        /\ \A r \in overlay[o].rest : {"org"} \cup {} \subseteq DOMAIN r
    BY <2>1, RegionsAssumption
  <2>3. /\ \A r \in Owned(overlay[o].routes, o) : r.org = o
        /\ \A r \in Owned(overlay[o].rest, o) : r.org = o
    BY <2>2, OwnedRows
  <2> QED
    BY <1>1, <1>2, <1>4, <2>3
<1> QED
  BY <1>3, <1>4

LEMMA OwnRows ==
  ASSUME NEW O, NEW f, \A p \in O : \A r \in f[p] : r.org = p, NEW o \in O
  PROVE  OfOrg(UNION {f[p] : p \in O}, o) = f[o]
  BY DEF OfOrg

LEMMA SnapshotOfOrg ==
  ASSUME TypeOK, NEW o \in Active
  PROVE  /\ OfOrg(Now.snap.keys, o) = SliceOf(o).keys
         /\ OfOrg(Now.snap.routes, o) = SliceOf(o).routes
         /\ OfOrg(Now.snap.rest, o) = SliceOf(o).rest
<1>1. Active \subseteq Orgs
  BY DEF Active
<1>2. \A p \in Active : \A r \in SliceOf(p).keys \cup SliceOf(p).routes \cup SliceOf(p).rest : r.org = p
  BY <1>1, SliceRows
<1> DEFINE k == [p \in Active |-> SliceOf(p).keys]
           t == [p \in Active |-> SliceOf(p).routes]
           q == [p \in Active |-> SliceOf(p).rest]
<1>3. /\ OfOrg(UNION {k[p] : p \in Active}, o) = k[o]
      /\ OfOrg(UNION {t[p] : p \in Active}, o) = t[o]
      /\ OfOrg(UNION {q[p] : p \in Active}, o) = q[o]
  <2>1. /\ \A p \in Active : \A r \in k[p] : r.org = p
        /\ \A p \in Active : \A r \in t[p] : r.org = p
        /\ \A p \in Active : \A r \in q[p] : r.org = p
    BY <1>2
  <2> HIDE DEF k, t, q
  <2>2. OfOrg(UNION {k[p] : p \in Active}, o) = k[o]
    BY ONLY <2>1, OwnRows, o \in Active
  <2>3. OfOrg(UNION {t[p] : p \in Active}, o) = t[o]
    BY ONLY <2>1, OwnRows, o \in Active
  <2>4. OfOrg(UNION {q[p] : p \in Active}, o) = q[o]
    BY ONLY <2>1, OwnRows, o \in Active
  <2> QED
    BY <2>2, <2>3, <2>4
<1>4. /\ UNION {k[p] : p \in Active} = Now.snap.keys
      /\ UNION {t[p] : p \in Active} = Now.snap.routes
      /\ UNION {q[p] : p \in Active} = Now.snap.rest
  BY SnapshotRows
<1> QED
  BY <1>3, <1>4

LEMMA OverlaysReplace == TypeOK => OverlayReplaces
<1> SUFFICES ASSUME TypeOK, NEW o \in Active
             PROVE  LET Mine(rows, owned) == IF overlay[o] = NoOverlay THEN OfOrg(rows, o) ELSE owned IN
                    /\ OfOrg(Now.snap.keys, o) = OfOrg(base.keys, o)
                    /\ {<<r.model, r.provider>> : r \in RoutesOf(Now, o)} =
                         {<<r.model, r.provider>> : r \in Mine(base.routes, overlay[o].routes)}
                    /\ {r.val : r \in OfOrg(Now.snap.rest, o)} = {r.val : r \in Mine(base.rest, overlay[o].rest)}
  BY DEF OverlayReplaces
<1>0. o \in Orgs
  BY DEF Active
<1>1. OfOrg(Now.snap.keys, o) = OfOrg(base.keys, o)
  BY <1>0, SnapshotOfOrg, SliceRows
<1>2. CASE overlay[o] = NoOverlay
  BY <1>0, <1>1, <1>2, SnapshotOfOrg, SliceRows DEF RoutesOf
<1>3. CASE overlay[o] # NoOverlay
  <2> DEFINE t == overlay[o].routes
             q == overlay[o].rest
             F == {"model", "provider"}
             G == {"val"}
  <2>1. overlay[o] \in Payloads
    BY <1>0, <1>3 DEF TypeOK
  <2>2. /\ \A r \in t : {"org"} \cup F \subseteq DOMAIN r
        /\ \A r \in q : {"org"} \cup G \subseteq DOMAIN r
    BY <2>1, RegionsAssumption
  <2>3. RoutesOf(Now, o) = Owned(t, o) /\ OfOrg(Now.snap.rest, o) = Owned(q, o)
    BY <1>0, <1>3, SnapshotOfOrg, SliceRows DEF RoutesOf
  <2>4. "org" \notin F /\ "org" \notin G
    OBVIOUS
  <2> HIDE DEF t, q, F, G
  <2>5. /\ \A r \in t : \E u \in Owned(t, o) : \A f \in F : u[f] = r[f]
        /\ \A u \in Owned(t, o) : \E r \in t : \A f \in F : u[f] = r[f]
    BY <2>2, <2>4, OwnedRows
  <2>6. /\ \A r \in q : \E u \in Owned(q, o) : \A f \in G : u[f] = r[f]
        /\ \A u \in Owned(q, o) : \E r \in q : \A f \in G : u[f] = r[f]
    BY <2>2, <2>4, OwnedRows
  <2>7. {<<r.model, r.provider>> : r \in Owned(t, o)} = {<<r.model, r.provider>> : r \in t}
    BY <2>5 DEF F
  <2>8. {r.val : r \in Owned(q, o)} = {r.val : r \in q}
    BY <2>6 DEF G
  <2> QED
    BY <1>1, <1>3, <2>3, <2>7, <2>8 DEF t, q
<1> QED
  BY <1>2, <1>3

-----------------------------------------------------------------------------
(* One organization *)

\* What a handler of a command of several steps carries along.
Carries(h) ==
  /\ storePc[h] = "writeItem" => cmd[h].id \in C!Items /\ cmd[h].row = C!ApplyPatch(cmd[h].was, cmd[h].patch)
  /\ storePc[h] = "dropCredential" =>
       /\ DOMAIN cmd[h] = {"id", "fresh"} /\ cmd[h].id \in Credentials
       /\ \A s \in C!Scopes : slots[s] = cmd[h].id => s \in cmd[h].fresh
  /\ storePc[h] \in {"clearSlot", "fillSlot"} => cmd[h].scope \in C!Scopes

\* A filled slot holds the assignment made last; a slot is empty although one was made
\* only where the history or a handler about to fill it says so.
StoreInv ==
  /\ DOMAIN items = C!Items /\ DOMAIN asked = C!Items
  /\ DOMAIN slots = C!Scopes /\ DOMAIN filled = C!Scopes
  /\ DOMAIN storePc = Handlers /\ DOMAIN cmd = Handlers
  /\ \A h \in Handlers : Carries(h)
  /\ \A s \in C!Scopes : slots[s] # None => slots[s] = filled[s]
  /\ AsAsked /\ SlotsKept

LEMMA StoreInit == C!Init => StoreInv
<1> SUFFICES ASSUME C!Init PROVE StoreInv
  OBVIOUS
<1>1. PICK s \in Seeds : /\ items = s.items /\ asked = s.items /\ slots = s.slots /\ filled = s.slots
                         /\ storePc = [h \in Handlers |-> "idle"] /\ cmd = [h \in Handlers |-> <<>>]
  BY DEF C!Init
<1>2. DOMAIN s.items = C!Items /\ DOMAIN s.slots = C!Scopes
  BY SeedsAssumption
<1>3. \A h \in Handlers : Carries(h)
  BY <1>1 DEF Carries
<1> QED
  BY <1>1, <1>2, <1>3 DEF StoreInv, AsAsked, C!AsAsked, SlotsKept, C!SlotsKept

\* A handler goes on and the slots keep what they hold or lose it.
LEMMA HandlerGoes ==
  ASSUME StoreInv, NEW h \in Handlers, NEW next, NEW what,
         DOMAIN storePc' = Handlers, DOMAIN cmd' = Handlers, storePc'[h] = next, cmd'[h] = what,
         \A g \in Handlers \ {h} : storePc'[g] = storePc[g] /\ cmd'[g] = cmd[g],
         \A s \in C!Scopes : slots'[s] = slots[s] \/ slots'[s] = None,
         next = "writeItem" => what.id \in C!Items /\ what.row = C!ApplyPatch(what.was, what.patch),
         next = "dropCredential" =>
           /\ DOMAIN what = {"id", "fresh"} /\ what.id \in Credentials
           /\ \A s \in C!Scopes : slots'[s] = what.id => s \in what.fresh,
         next \in {"clearSlot", "fillSlot"} => what.scope \in C!Scopes
  PROVE  \A g \in Handlers : Carries(g)'
<1>1. Carries(h)'
  BY DEF Carries
<1>2. ASSUME NEW g \in Handlers \ {h} PROVE Carries(g)'
  <2>1. Carries(g) /\ storePc'[g] = storePc[g] /\ cmd'[g] = cmd[g]
    BY DEF StoreInv
  <2>2. storePc[g] = "dropCredential" => \A s \in C!Scopes : slots'[s] = cmd[g].id => s \in cmd[g].fresh
    <3>1. storePc[g] = "dropCredential" => cmd[g].id # None
      BY <2>1, SeedsAssumption DEF Carries
    <3> QED
      BY <2>1, <3>1 DEF Carries
  <2> QED
    BY <2>1, <2>2 DEF Carries
<1> QED
  BY <1>1, <1>2

LEMMA HandlerMoves ==
  ASSUME StoreInv, NEW h \in Handlers, NEW next, NEW what,
         storePc' = [storePc EXCEPT ![h] = next], cmd' = [cmd EXCEPT ![h] = what],
         \A s \in C!Scopes : slots'[s] = slots[s] \/ slots'[s] = None,
         next = "writeItem" => what.id \in C!Items /\ what.row = C!ApplyPatch(what.was, what.patch),
         next = "dropCredential" =>
           /\ DOMAIN what = {"id", "fresh"} /\ what.id \in Credentials
           /\ \A s \in C!Scopes : slots'[s] = what.id => s \in what.fresh,
         next \in {"clearSlot", "fillSlot"} => what.scope \in C!Scopes
  PROVE  /\ DOMAIN storePc' = Handlers /\ DOMAIN cmd' = Handlers
         /\ storePc'[h] = next /\ cmd'[h] = what
         /\ \A g \in Handlers \ {h} : storePc'[g] = storePc[g] /\ cmd'[g] = cmd[g]
         /\ \A g \in Handlers : Carries(g)'
<1>1. /\ DOMAIN storePc' = Handlers /\ DOMAIN cmd' = Handlers
      /\ storePc'[h] = next /\ cmd'[h] = what
      /\ \A g \in Handlers \ {h} : storePc'[g] = storePc[g] /\ cmd'[g] = cmd[g]
  BY DEF StoreInv
<1> QED
  BY <1>1, HandlerGoes

\* A step that changes no row, no assignment and no history of them.
LEMMA QuietStep ==
  ASSUME StoreInv, NEW h \in Handlers, NEW next, NEW what,
         UNCHANGED <<items, asked, stale, slots, filled, lost>>, storePc[h] # "fillSlot",
         storePc' = [storePc EXCEPT ![h] = next], cmd' = [cmd EXCEPT ![h] = what],
         next = "writeItem" => what.id \in C!Items /\ what.row = C!ApplyPatch(what.was, what.patch),
         next = "dropCredential" =>
           /\ DOMAIN what = {"id", "fresh"} /\ what.id \in Credentials
           /\ \A s \in C!Scopes : slots[s] = what.id => s \in what.fresh,
         next \in {"clearSlot", "fillSlot"} => what.scope \in C!Scopes
  PROVE  StoreInv'
<1>1. /\ DOMAIN storePc' = Handlers /\ DOMAIN cmd' = Handlers
      /\ \A g \in Handlers \ {h} : storePc'[g] = storePc[g] /\ cmd'[g] = cmd[g]
      /\ \A g \in Handlers : Carries(g)'
  BY HandlerMoves
<1>2. AsAsked'
  BY DEF StoreInv, AsAsked, C!AsAsked
<1>3. SlotsKept'
  BY <1>1 DEF StoreInv, SlotsKept, C!SlotsKept
<1> QED
  BY <1>1, <1>2, <1>3 DEF StoreInv

\* A step that changes rows and leaves the assignments alone.
LEMMA RowStep ==
  ASSUME StoreInv, NEW h \in Handlers, UNCHANGED <<slots, filled, lost>>, storePc[h] # "fillSlot",
         storePc' = [storePc EXCEPT ![h] = "publish"], cmd' = [cmd EXCEPT ![h] = <<>>],
         DOMAIN items' = C!Items, DOMAIN asked' = C!Items, stale \subseteq stale',
         \A i \in C!Items \ stale' : items[i] = asked[i] => items'[i] = asked'[i]
  PROVE  StoreInv'
<1>1. /\ DOMAIN storePc' = Handlers /\ DOMAIN cmd' = Handlers
      /\ \A g \in Handlers \ {h} : storePc'[g] = storePc[g] /\ cmd'[g] = cmd[g]
      /\ \A g \in Handlers : Carries(g)'
  BY HandlerMoves
<1>2. AsAsked'
  BY DEF StoreInv, AsAsked, C!AsAsked
<1>3. SlotsKept'
  BY <1>1 DEF StoreInv, SlotsKept, C!SlotsKept
<1> QED
  BY <1>1, <1>2, <1>3 DEF StoreInv

\* A command begins.
LEMMA BeginMoves ==
  ASSUME NEW h \in Handlers, NEW next, NEW what, C!Begin(h, next, what)
  PROVE  /\ storePc[h] = "idle"
         /\ storePc' = [storePc EXCEPT ![h] = next] /\ cmd' = [cmd EXCEPT ![h] = what]
  BY DEF C!Begin

LEMMA WrittenQuietly ==
  ASSUME StoreInv, NEW h \in Handlers, C!Written(h), UNCHANGED <<items, asked, stale, slots, filled, lost>>
  PROVE  StoreInv'
<1>1. storePc[h] = "idle" /\ storePc' = [storePc EXCEPT ![h] = "publish"] /\ cmd' = [cmd EXCEPT ![h] = <<>>]
  BY BeginMoves DEF C!Written
<1> QED
  BY <1>1, QuietStep

LEMMA RefusedQuietly ==
  ASSUME StoreInv, NEW h \in Handlers, C!Refused(h), storePc[h] # "fillSlot"
  PROVE  StoreInv'
<1>1. /\ storePc' = [storePc EXCEPT ![h] = "idle"] /\ cmd' = [cmd EXCEPT ![h] = <<>>]
      /\ UNCHANGED <<items, asked, stale, slots, filled, lost>>
  BY DEF C!Refused, C!tables, C!hist
<1> QED
  BY <1>1, QuietStep

LEMMA StoredQuietly ==
  ASSUME StoreInv, NEW h \in Handlers, C!Stored(h), storePc[h] # "fillSlot",
         UNCHANGED <<items, asked, stale, slots, filled, lost>>
  PROVE  StoreInv'
<1>1. storePc' = [storePc EXCEPT ![h] = "publish"] /\ cmd' = [cmd EXCEPT ![h] = <<>>]
  BY DEF C!Stored
<1> QED
  BY <1>1, QuietStep

\* Commands on providers and routes.
LEMMA RouteCommandKeeps ==
  ASSUME StoreInv, NEW h \in Handlers, C!RouteCommand(h)
  PROVE  StoreInv'
<1> USE DEF C!tables, C!hist
<1>1. ASSUME NEW p \in Providers,
             C!CreateProvider(h, p) \/ C!UpdateProvider(h, p) \/ C!DeleteProvider(h, p)
      PROVE  StoreInv'
  <2>1. C!Written(h) /\ UNCHANGED <<items, asked, stale, slots, filled, lost>>
    BY <1>1 DEF C!CreateProvider, C!UpdateProvider, C!DeleteProvider
  <2> QED
    BY <2>1, WrittenQuietly
<1>2. ASSUME NEW r \in Routes, NEW given \in C!Route, C!CreateRoute(h, r, given) \/ C!UpdateRoute(h, r, given)
      PROVE  StoreInv'
  <2>1. PICK what : C!Begin(h, "assertProviders", what)
    BY <1>2 DEF C!CreateRoute, C!UpdateRoute, C!Started
  <2>2. UNCHANGED <<items, asked, stale, slots, filled, lost>>
    BY <1>2 DEF C!CreateRoute, C!UpdateRoute, C!Started
  <2> QED
    BY <2>1, <2>2, BeginMoves, QuietStep
<1>3. ASSUME NEW r \in Routes, C!DeleteRoute(h, r)
      PROVE  StoreInv'
  <2>1. C!Written(h) /\ UNCHANGED <<items, asked, stale, slots, filled, lost>>
    BY <1>3 DEF C!DeleteRoute
  <2> QED
    BY <2>1, WrittenQuietly
<1> QED
  BY <1>1, <1>2, <1>3 DEF C!RouteCommand

\* Commands on policies, hooks, backends and agents.
LEMMA ItemCommandKeeps ==
  ASSUME StoreInv, NEW h \in Handlers, C!ItemCommand(h)
  PROVE  StoreInv'
<1> USE DEF C!tables, C!hist
<1>1. ASSUME NEW i \in C!Items, NEW given, C!CreateItem(h, i, given)
      PROVE  StoreInv'
  <2>1. C!Written(h) /\ UNCHANGED <<stale, slots, filled, lost>>
    BY <1>1 DEF C!CreateItem
  <2>2. storePc[h] = "idle" /\ storePc' = [storePc EXCEPT ![h] = "publish"] /\ cmd' = [cmd EXCEPT ![h] = <<>>]
    BY <2>1, BeginMoves DEF C!Written
  <2>3. items' = [items EXCEPT ![i] = given] /\ asked' = [asked EXCEPT ![i] = given]
    BY <1>1 DEF C!CreateItem
  <2>4. /\ DOMAIN items' = C!Items /\ DOMAIN asked' = C!Items
        /\ \A j \in C!Items : items[j] = asked[j] => items'[j] = asked'[j]
    BY <2>3 DEF StoreInv
  <2> QED
    BY <2>1, <2>2, <2>4, RowStep
<1>2. ASSUME NEW i \in C!Items, NEW patch, C!ReadItem(h, i, patch)
      PROVE  StoreInv'
  <2> DEFINE what == [id |-> i, was |-> items[i], row |-> C!ApplyPatch(items[i], patch), patch |-> patch]
  <2>1. C!Begin(h, "writeItem", what) /\ UNCHANGED <<items, asked, stale, slots, filled, lost>>
    BY <1>2 DEF C!ReadItem, C!Started
  <2>2. what.id \in C!Items /\ what.row = C!ApplyPatch(what.was, what.patch)
    OBVIOUS
  <2> HIDE DEF what
  <2>3. storePc[h] = "idle" /\ storePc' = [storePc EXCEPT ![h] = "writeItem"] /\ cmd' = [cmd EXCEPT ![h] = what]
    BY <2>1, BeginMoves
  <2> QED
    BY <2>1, <2>2, <2>3, QuietStep
<1>3. ASSUME NEW i \in C!Items, C!DeleteItem(h, i)
      PROVE  StoreInv'
  <2>1. C!Written(h) /\ UNCHANGED <<stale, slots, filled, lost>>
    BY <1>3 DEF C!DeleteItem
  <2>2. storePc[h] = "idle" /\ storePc' = [storePc EXCEPT ![h] = "publish"] /\ cmd' = [cmd EXCEPT ![h] = <<>>]
    BY <2>1, BeginMoves DEF C!Written
  <2>3. items' = [items EXCEPT ![i] = None] /\ asked' = [asked EXCEPT ![i] = None]
    BY <1>3 DEF C!DeleteItem
  <2>4. /\ DOMAIN items' = C!Items /\ DOMAIN asked' = C!Items
        /\ \A j \in C!Items : items[j] = asked[j] => items'[j] = asked'[j]
    BY <2>3 DEF StoreInv
  <2> QED
    BY <2>1, <2>2, <2>4, RowStep
<1>4. ASSUME NEW order \in Orders, C!ReorderPolicies(h, order)
      PROVE  StoreInv'
  <2>1. PICK what : C!Begin(h, "reorder", what)
    BY <1>4 DEF C!ReorderPolicies, C!Started
  <2>2. UNCHANGED <<items, asked, stale, slots, filled, lost>>
    BY <1>4 DEF C!ReorderPolicies, C!Started
  <2> QED
    BY <2>1, <2>2, BeginMoves, QuietStep
<1>5. \/ \E i \in C!Items : \E given : C!CreateItem(h, i, given)
      \/ \E i \in C!Items : \E patch : C!ReadItem(h, i, patch)
      \/ \E i \in C!Items : C!DeleteItem(h, i)
      \/ \E order \in Orders : C!ReorderPolicies(h, order)
  BY DEF C!ItemCommand, C!CreatePolicy, C!CreateWasmHook, C!CreateMCPBackend, C!CreateA2AAgent,
         C!UpdatePolicy, C!UpdateWasmHook, C!UpdateMCPBackend, C!UpdateA2AAgent
<1> QED
  BY <1>1, <1>2, <1>3, <1>4, <1>5

\* Commands on credentials, assignments, keys and quotas.
LEMMA KeyCommandKeeps ==
  ASSUME StoreInv, NEW h \in Handlers, C!KeyCommand(h)
  PROVE  StoreInv'
<1> USE DEF C!tables, C!hist
<1>1. ASSUME C!Written(h), UNCHANGED <<items, asked, stale, slots, filled, lost>>
      PROVE  StoreInv'
  BY <1>1, WrittenQuietly
<1>2. ASSUME NEW c \in Credentials, C!DeleteCredential(h, c)
      PROVE  StoreInv'
  <2> DEFINE what == [id |-> c, fresh |-> {}]
  <2>1. /\ C!Begin(h, "dropCredential", what) /\ UNCHANGED <<items, asked, stale, slots, filled, lost>>
        /\ \A s \in C!Scopes : slots[s] # c
    BY <1>2 DEF C!DeleteCredential, C!Started
  <2>2. DOMAIN what = {"id", "fresh"} /\ what.id = c
    OBVIOUS
  <2> HIDE DEF what
  <2>3. storePc[h] = "idle" /\ storePc' = [storePc EXCEPT ![h] = "dropCredential"] /\ cmd' = [cmd EXCEPT ![h] = what]
    BY <2>1, BeginMoves
  <2>4. \A s \in C!Scopes : slots[s] = what.id => s \in what.fresh
    BY <2>1, <2>2
  <2> QED
    BY <2>1, <2>2, <2>3, <2>4, QuietStep
<1>3. ASSUME NEW c \in Credentials, NEW s \in C!Scopes, C!Assign(h, c, s)
      PROVE  StoreInv'
  <2> DEFINE what == [id |-> c, scope |-> s]
  <2>1. C!Begin(h, "clearSlot", what) /\ UNCHANGED <<items, asked, stale, slots, filled, lost>>
    BY <1>3 DEF C!Assign, C!Started
  <2>2. what.scope = s
    OBVIOUS
  <2> HIDE DEF what
  <2>3. storePc[h] = "idle" /\ storePc' = [storePc EXCEPT ![h] = "clearSlot"] /\ cmd' = [cmd EXCEPT ![h] = what]
    BY <2>1, BeginMoves
  <2> QED
    BY <2>1, <2>2, <2>3, QuietStep
<1>4. ASSUME NEW s \in C!Scopes, C!Unassign(h, s)
      PROVE  StoreInv'
  <2>1. /\ C!Written(h) /\ UNCHANGED <<items, asked, stale, lost>>
        /\ slots' = [slots EXCEPT ![s] = None] /\ filled' = [filled EXCEPT ![s] = None]
    BY <1>4 DEF C!Unassign
  <2>2. storePc[h] = "idle" /\ storePc' = [storePc EXCEPT ![h] = "publish"] /\ cmd' = [cmd EXCEPT ![h] = <<>>]
    BY <2>1, BeginMoves DEF C!Written
  <2>3. /\ DOMAIN slots' = C!Scopes /\ DOMAIN filled' = C!Scopes
        /\ slots'[s] = None /\ filled'[s] = None
        /\ \A t \in C!Scopes \ {s} : slots'[t] = slots[t] /\ filled'[t] = filled[t]
    BY <2>1 DEF StoreInv
  <2>4. /\ DOMAIN storePc' = Handlers /\ DOMAIN cmd' = Handlers
        /\ \A g \in Handlers \ {h} : storePc'[g] = storePc[g] /\ cmd'[g] = cmd[g]
        /\ \A g \in Handlers : Carries(g)'
    BY <2>2, <2>3, HandlerMoves
  <2>5. AsAsked'
    BY <2>1 DEF StoreInv, AsAsked, C!AsAsked
  <2>6. SlotsKept'
    BY <2>1, <2>2, <2>3, <2>4 DEF StoreInv, SlotsKept, C!SlotsKept
  <2> QED
    BY <2>1, <2>3, <2>4, <2>5, <2>6 DEF StoreInv
<1>5. ASSUME NEW s \in C!Scopes, C!CreateQuota(h, s)
      PROVE  StoreInv'
  <2>1. PICK what : C!Begin(h, "insertQuota", what)
    BY <1>5 DEF C!CreateQuota, C!Started
  <2>2. UNCHANGED <<items, asked, stale, slots, filled, lost>>
    BY <1>5 DEF C!CreateQuota, C!Started
  <2> QED
    BY <2>1, <2>2, BeginMoves, QuietStep
<1>6. ASSUME NEW c \in Credentials,
             \/ C!CreateCredential(h, c) \/ C!RotateSecret(h, c)
             \/ \E st \in {"", "active", "disabled"} : C!UpdateCredential(h, c, st)
      PROVE  StoreInv'
  BY <1>1, <1>6 DEF C!CreateCredential, C!RotateSecret, C!UpdateCredential
<1>7. ASSUME NEW s \in C!Scopes, C!UpdateQuota(h, s) \/ C!DeleteQuota(h, s)
      PROVE  StoreInv'
  BY <1>1, <1>7 DEF C!UpdateQuota, C!DeleteQuota
<1>8. ASSUME C!SetOrgDefaultRetry(h) \/ C!SetOrgObjectStore(h)
      PROVE  StoreInv'
  BY <1>1, <1>8 DEF C!SetOrgDefaultRetry, C!SetOrgObjectStore
<1>9. ASSUME NEW k \in APIKeys, C!CreateAPIKey(h, k) \/ C!DeleteAPIKey(h, k)
      PROVE  StoreInv'
  BY <1>1, <1>9 DEF C!CreateAPIKey, C!DeleteAPIKey
<1>10. ASSUME NEW k \in SigningKeys,
             \/ C!CreateSigningKey(h, k) \/ C!RotateSigningKey(h, k) \/ C!DeleteSigningKey(h, k)
             \/ \E st \in {"", "active", "disabled"} : C!UpdateSigningKey(h, k, st)
      PROVE  StoreInv'
  BY <1>1, <1>10 DEF C!CreateSigningKey, C!RotateSigningKey, C!DeleteSigningKey, C!UpdateSigningKey
<1> QED
  BY <1>2, <1>3, <1>4, <1>5, <1>6, <1>7, <1>8, <1>9, <1>10 DEF C!KeyCommand

\* The write of a row as it was read: what the patch asks for, unless the row has changed since.
LEMMA WriteItemKeeps ==
  ASSUME StoreInv, NEW h \in Handlers, C!WriteItem(h)
  PROVE  StoreInv'
<1> DEFINE i == cmd[h].id
<1>1. storePc[h] = "writeItem" /\ i \in C!Items /\ cmd[h].row = C!ApplyPatch(cmd[h].was, cmd[h].patch)
  BY DEF C!WriteItem, StoreInv, Carries
<1>2. CASE C!Refused(h)
  BY <1>1, <1>2, RefusedQuietly
<1>3. CASE /\ items' = [items EXCEPT ![i] = cmd[h].row]
           /\ asked' = [asked EXCEPT ![i] = C!ApplyPatch(@, cmd[h].patch)]
           /\ stale' = IF items[i] = cmd[h].was THEN stale ELSE stale \cup {i}
           /\ C!Stored(h)
           /\ UNCHANGED <<slots, filled, lost>>
  <2>1. storePc' = [storePc EXCEPT ![h] = "publish"] /\ cmd' = [cmd EXCEPT ![h] = <<>>]
    BY <1>3 DEF C!Stored
  <2>2. /\ DOMAIN items' = C!Items /\ DOMAIN asked' = C!Items
        /\ items'[i] = cmd[h].row /\ asked'[i] = C!ApplyPatch(asked[i], cmd[h].patch)
        /\ \A j \in C!Items \ {i} : items'[j] = items[j] /\ asked'[j] = asked[j]
    BY <1>1, <1>3 DEF StoreInv
  <2>3. i \notin stale' /\ items[i] = asked[i] => items'[i] = asked'[i]
    BY <1>1, <1>3, <2>2
  <2> HIDE DEF i
  <2> QED
    BY <1>1, <1>3, <2>1, <2>2, <2>3, RowStep
<1> QED
  BY <1>2, <1>3 DEF C!WriteItem, C!ApplyPatch

LEMMA CommitReorderKeeps ==
  ASSUME StoreInv, NEW h \in Handlers, C!CommitReorder(h)
  PROVE  StoreInv'
<1> DEFINE c == cmd[h].order
           put(was, i) == IF \E n \in DOMAIN c : c[n].id = i
                            THEN [was EXCEPT !.priority = c[CHOOSE n \in DOMAIN c : c[n].id = i].priority]
                            ELSE was
<1>1. /\ storePc[h] = "reorder" /\ C!Stored(h) /\ UNCHANGED <<slots, filled, lost, stale>>
      /\ items' = [i \in C!Items |-> put(items[i], i)] /\ asked' = [i \in C!Items |-> put(asked[i], i)]
  BY DEF C!CommitReorder
<1> HIDE DEF put
<1>2. storePc' = [storePc EXCEPT ![h] = "publish"] /\ cmd' = [cmd EXCEPT ![h] = <<>>]
  BY <1>1 DEF C!Stored
<1> QED
  BY <1>1, <1>2, RowStep

\* The assignments a deleted credential takes with it were made since it was found free.
LEMMA DropCredentialKeeps ==
  ASSUME StoreInv, NEW h \in Handlers, C!DropCredential(h)
  PROVE  StoreInv'
<1> DEFINE c == cmd[h].id
<1>1. storePc[h] = "dropCredential" /\ \A s \in C!Scopes : slots[s] = c => s \in cmd[h].fresh
  BY DEF C!DropCredential, StoreInv, Carries
<1>2. CASE C!Refused(h)
  BY <1>1, <1>2, RefusedQuietly
<1>3. CASE /\ slots' = [s \in C!Scopes |-> IF slots[s] = c THEN None ELSE slots[s]]
           /\ lost' = lost \cup {s \in cmd[h].fresh : slots[s] = c}
           /\ C!Stored(h)
           /\ UNCHANGED <<items, asked, stale, filled>>
  <2>1. storePc' = [storePc EXCEPT ![h] = "publish"] /\ cmd' = [cmd EXCEPT ![h] = <<>>]
    BY <1>3 DEF C!Stored
  <2>2. \A s \in C!Scopes : slots'[s] = slots[s] \/ (slots'[s] = None /\ s \in lost')
    BY <1>1, <1>3
  <2>3. /\ DOMAIN storePc' = Handlers /\ DOMAIN cmd' = Handlers
        /\ \A g \in Handlers \ {h} : storePc'[g] = storePc[g] /\ cmd'[g] = cmd[g]
        /\ \A g \in Handlers : Carries(g)'
    BY <2>1, <2>2, HandlerMoves
  <2>4. AsAsked'
    BY <1>3 DEF StoreInv, AsAsked, C!AsAsked
  <2>5. SlotsKept'
    <3>1. lost \subseteq lost' /\ filled' = filled
      BY <1>3
    <3> HIDE DEF c
    <3> QED
      BY <1>1, <2>2, <2>3, <3>1 DEF StoreInv, SlotsKept, C!SlotsKept
  <2>6. \A s \in C!Scopes : slots'[s] # None => slots'[s] = filled'[s]
    BY <1>3, <2>2 DEF StoreInv
  <2>7. DOMAIN slots' = C!Scopes
    BY <1>3
  <2> QED
    BY <1>3, <2>3, <2>4, <2>5, <2>6, <2>7 DEF StoreInv
<1> QED
  BY <1>2, <1>3 DEF C!DropCredential

LEMMA ClearSlotKeeps ==
  ASSUME StoreInv, NEW h \in Handlers, C!ClearSlot(h)
  PROVE  StoreInv'
<1> DEFINE s == cmd[h].scope
<1>1. /\ storePc[h] = "clearSlot" /\ s \in C!Scopes
      /\ slots' = [slots EXCEPT ![s] = None]
      /\ storePc' = [storePc EXCEPT ![h] = "fillSlot"] /\ cmd' = cmd
      /\ UNCHANGED <<items, asked, stale, filled, lost>>
  BY DEF C!ClearSlot, C!Goto, C!hist, StoreInv, Carries
<1>2. /\ DOMAIN slots' = C!Scopes /\ slots'[s] = None
      /\ \A t \in C!Scopes \ {s} : slots'[t] = slots[t]
  BY <1>1 DEF StoreInv
<1>3. /\ DOMAIN storePc' = Handlers /\ DOMAIN cmd' = Handlers
      /\ storePc'[h] = "fillSlot" /\ cmd'[h] = cmd[h]
      /\ \A g \in Handlers \ {h} : storePc'[g] = storePc[g] /\ cmd'[g] = cmd[g]
  BY <1>1 DEF StoreInv
<1>4. \A g \in Handlers : Carries(g)'
  BY <1>1, <1>2, <1>3, HandlerGoes
<1>5. AsAsked'
  BY <1>1 DEF StoreInv, AsAsked, C!AsAsked
<1>6. SlotsKept'
  <2> SUFFICES ASSUME NEW t \in C!Scopes, slots'[t] # filled'[t]
               PROVE  t \in lost' \/ \E g \in Handlers : storePc'[g] = "fillSlot" /\ cmd'[g].scope = t
    BY DEF SlotsKept, C!SlotsKept
  <2>1. CASE t = s
    BY <1>3, <2>1
  <2>2. CASE t # s
    <3>1. slots[t] # filled[t]
      BY <1>1, <1>2, <2>2
    <3>2. t \in lost \/ \E g \in Handlers : storePc[g] = "fillSlot" /\ cmd[g].scope = t
      BY <3>1 DEF StoreInv, SlotsKept, C!SlotsKept
    <3> QED
      BY <1>1, <1>3, <3>2
  <2> QED
    BY <2>1, <2>2
<1> HIDE DEF s
<1> QED
  BY <1>1, <1>2, <1>3, <1>4, <1>5, <1>6 DEF StoreInv

\* The slot is filled, and every delete under way of a credential just assigned knows; or
\* the insert is refused, and the scope is left without the assignment it had.
LEMMA InsertAssignmentKeeps ==
  ASSUME StoreInv, NEW h \in Handlers, C!InsertAssignment(h)
  PROVE  StoreInv'
<1> DEFINE s == cmd[h].scope
           c == cmd[h].id
<1>1. storePc[h] = "fillSlot" /\ s \in C!Scopes
  BY DEF C!InsertAssignment, StoreInv, Carries
<1>2. CASE /\ storePc' = [storePc EXCEPT ![h] = "idle"] /\ cmd' = [cmd EXCEPT ![h] = <<>>]
           /\ lost' = (IF slots[s] = None THEN lost \cup {s} ELSE lost)
           /\ UNCHANGED <<items, asked, stale, slots, filled>>
  <2>1. /\ DOMAIN storePc' = Handlers /\ DOMAIN cmd' = Handlers
        /\ \A g \in Handlers \ {h} : storePc'[g] = storePc[g] /\ cmd'[g] = cmd[g]
        /\ \A g \in Handlers : Carries(g)'
    BY <1>2, HandlerMoves
  <2>2. AsAsked'
    BY <1>2 DEF StoreInv, AsAsked, C!AsAsked
  <2>3. SlotsKept'
    <3> SUFFICES ASSUME NEW t \in C!Scopes, slots'[t] # filled'[t], t \notin lost'
                 PROVE  \E g \in Handlers : storePc'[g] = "fillSlot" /\ cmd'[g].scope = t
      BY DEF SlotsKept, C!SlotsKept
    <3>1. slots[t] # filled[t] /\ t \notin lost
      BY <1>2
    <3>2. slots[t] = None
      BY <3>1 DEF StoreInv
    <3>3. t # s
      BY <1>2, <3>2
    <3>4. PICK g \in Handlers : storePc[g] = "fillSlot" /\ cmd[g].scope = t
      BY <3>1 DEF StoreInv, SlotsKept, C!SlotsKept
    <3> QED
      BY <2>1, <3>3, <3>4
  <2> QED
    BY <1>2, <2>1, <2>2, <2>3 DEF StoreInv
<1>3. CASE /\ slots' = [slots EXCEPT ![s] = c] /\ filled' = [filled EXCEPT ![s] = c]
           /\ lost' = lost \ {s}
           /\ storePc' = [storePc EXCEPT ![h] = "publish"]
           /\ cmd' = [g \in Handlers |-> IF g = h THEN <<>>
                                         ELSE IF storePc[g] = "dropCredential" THEN [cmd[g] EXCEPT !.fresh = @ \cup {s}]
                                         ELSE cmd[g]]
           /\ UNCHANGED <<items, asked, stale>>
  <2>1. /\ DOMAIN slots' = C!Scopes /\ DOMAIN filled' = C!Scopes
        /\ slots'[s] = c /\ filled'[s] = c
        /\ \A t \in C!Scopes \ {s} : slots'[t] = slots[t] /\ filled'[t] = filled[t]
    BY <1>1, <1>3 DEF StoreInv
  <2>2. /\ DOMAIN storePc' = Handlers /\ DOMAIN cmd' = Handlers
        /\ storePc'[h] = "publish"
        /\ \A g \in Handlers \ {h} : storePc'[g] = storePc[g]
        /\ \A g \in Handlers \ {h} : storePc[g] # "dropCredential" => cmd'[g] = cmd[g]
        /\ \A g \in Handlers \ {h} : storePc[g] = "dropCredential" => cmd'[g] = [cmd[g] EXCEPT !.fresh = @ \cup {s}]
    BY <1>3 DEF StoreInv
  <2>3. ASSUME NEW g \in Handlers PROVE Carries(g)'
    <3>1. CASE g = h
      BY <2>2, <3>1 DEF Carries
    <3>2. CASE g # h /\ storePc[g] # "dropCredential"
      <4>1. Carries(g) /\ storePc'[g] = storePc[g] /\ cmd'[g] = cmd[g]
        BY <2>2, <3>2 DEF StoreInv
      <4> QED
        BY <3>2, <4>1 DEF Carries
    <3>3. CASE g # h /\ storePc[g] = "dropCredential"
      <4>1. Carries(g) /\ storePc'[g] = "dropCredential" /\ cmd'[g] = [cmd[g] EXCEPT !.fresh = @ \cup {s}]
        BY <2>2, <3>3 DEF StoreInv
      <4>2. DOMAIN cmd[g] = {"id", "fresh"} /\ cmd[g].id \in Credentials
        BY <3>3, <4>1 DEF Carries
      <4>3. /\ DOMAIN cmd'[g] = {"id", "fresh"} /\ cmd'[g].id = cmd[g].id
            /\ cmd'[g].fresh = cmd[g].fresh \cup {s}
        BY <4>1, <4>2
      <4>4. \A t \in C!Scopes : slots'[t] = cmd'[g].id => t \in cmd'[g].fresh
        BY <2>1, <3>3, <4>1, <4>3 DEF Carries
      <4> QED
        BY <4>1, <4>2, <4>3, <4>4 DEF Carries
    <3> QED
      BY <3>1, <3>2, <3>3
  <2>4. AsAsked'
    BY <1>3 DEF StoreInv, AsAsked, C!AsAsked
  <2>5. SlotsKept'
    <3> SUFFICES ASSUME NEW t \in C!Scopes, slots'[t] # filled'[t], t \notin lost'
                 PROVE  \E g \in Handlers : storePc'[g] = "fillSlot" /\ cmd'[g].scope = t
      BY DEF SlotsKept, C!SlotsKept
    <3>1. t # s /\ slots[t] # filled[t] /\ t \notin lost
      BY <1>3, <2>1
    <3>2. PICK g \in Handlers : storePc[g] = "fillSlot" /\ cmd[g].scope = t
      BY <3>1 DEF StoreInv, SlotsKept, C!SlotsKept
    <3> QED
      BY <2>2, <3>1, <3>2
  <2>6. \A t \in C!Scopes : slots'[t] # None => slots'[t] = filled'[t]
    BY <2>1 DEF StoreInv
  <2> HIDE DEF s, c
  <2> QED
    BY <1>3, <2>1, <2>2, <2>3, <2>4, <2>5, <2>6 DEF StoreInv
<1> QED
  BY <1>2, <1>3 DEF C!InsertAssignment, C!tables

LEMMA StoreFailKeeps ==
  ASSUME StoreInv, NEW h \in Handlers, C!Fail(h)
  PROVE  StoreInv'
<1>1. /\ storePc' = [storePc EXCEPT ![h] = "idle"] /\ cmd' = [cmd EXCEPT ![h] = <<>>]
      /\ lost' = (IF storePc[h] = "fillSlot" THEN lost \cup {cmd[h].scope} ELSE lost)
      /\ UNCHANGED <<items, asked, stale, slots, filled>>
  BY DEF C!Fail, C!tables
<1>2. /\ DOMAIN storePc' = Handlers /\ DOMAIN cmd' = Handlers
      /\ \A g \in Handlers \ {h} : storePc'[g] = storePc[g] /\ cmd'[g] = cmd[g]
      /\ \A g \in Handlers : Carries(g)'
  BY <1>1, HandlerMoves
<1>3. AsAsked'
  BY <1>1 DEF StoreInv, AsAsked, C!AsAsked
<1>4. SlotsKept'
  <2> SUFFICES ASSUME NEW t \in C!Scopes, slots'[t] # filled'[t], t \notin lost'
               PROVE  \E g \in Handlers : storePc'[g] = "fillSlot" /\ cmd'[g].scope = t
    BY DEF SlotsKept, C!SlotsKept
  <2>1. slots[t] # filled[t] /\ t \notin lost
    BY <1>1
  <2>2. PICK g \in Handlers : storePc[g] = "fillSlot" /\ cmd[g].scope = t
    BY <2>1 DEF StoreInv, SlotsKept, C!SlotsKept
  <2>3. g # h
    BY <1>1, <2>2
  <2> QED
    BY <1>2, <2>2, <2>3
<1> QED
  BY <1>1, <1>2, <1>3, <1>4 DEF StoreInv

LEMMA StoreKept ==
  ASSUME StoreInv, UNCHANGED <<items, asked, stale, slots, filled, lost, storePc, cmd>>
  PROVE  StoreInv'
<1>1. \A h \in Handlers : Carries(h)'
  BY DEF StoreInv, Carries
<1> QED
  BY <1>1 DEF StoreInv, AsAsked, C!AsAsked, SlotsKept, C!SlotsKept

LEMMA StoreStep == StoreInv /\ [C!Next]_(C!vars) => StoreInv'
<1> SUFFICES ASSUME StoreInv, [C!Next]_(C!vars) PROVE StoreInv'
  OBVIOUS
<1> USE DEF C!tables, C!hist
<1>1. CASE UNCHANGED C!vars
  BY <1>1, StoreKept DEF C!vars
<1>2. ASSUME NEW h \in Handlers, C!Command(h)
      PROVE  StoreInv'
  BY <1>2, RouteCommandKeeps, ItemCommandKeeps, KeyCommandKeeps DEF C!Command
<1>3. ASSUME NEW h \in Handlers, C!Step(h)
      PROVE  StoreInv'
  <2>1. CASE C!AssertProviderInOrg(h)
    <3>1. storePc[h] = "assertProviders"
      BY <2>1 DEF C!AssertProviderInOrg
    <3>2. CASE C!Refused(h)
      BY <3>1, <3>2, RefusedQuietly
    <3>3. ASSUME NEW p, cmd' = [cmd EXCEPT ![h].todo = @ \ {p}], UNCHANGED <<C!tables, C!hist, storePc>>
          PROVE  StoreInv'
      <4>1. DOMAIN cmd' = Handlers /\ \A g \in Handlers : g # h => cmd'[g] = cmd[g]
        BY <3>3 DEF StoreInv
      <4>2. \A g \in Handlers : Carries(g)'
        BY <3>1, <3>3, <4>1 DEF StoreInv, Carries
      <4> QED
        BY <3>1, <3>3, <4>1, <4>2 DEF StoreInv, AsAsked, C!AsAsked, SlotsKept, C!SlotsKept
    <3> QED
      BY <2>1, <3>2, <3>3 DEF C!AssertProviderInOrg
  <2>2. CASE C!StoreRoute(h)
    <3>1. storePc[h] = "assertProviders"
      BY <2>2 DEF C!StoreRoute
    <3>2. CASE C!Refused(h)
      BY <3>1, <3>2, RefusedQuietly
    <3>3. CASE C!Stored(h) /\ UNCHANGED <<items, asked, stale, slots, filled, lost>>
      BY <3>1, <3>3, StoredQuietly
    <3> QED
      BY <2>2, <3>2, <3>3 DEF C!StoreRoute
  <2>3. CASE C!UpdatePriorities(h)
    <3>1. storePc[h] = "reorder"
      BY <2>3 DEF C!UpdatePriorities
    <3>2. CASE C!Refused(h)
      BY <3>1, <3>2, RefusedQuietly
    <3>3. CASE /\ cmd' = [cmd EXCEPT ![h].todo = Tail(@), ![h].held = @ \cup {Head(cmd[h].todo).id}]
               /\ UNCHANGED <<C!tables, C!hist, storePc>>
      <4>1. DOMAIN cmd' = Handlers /\ \A g \in Handlers : g # h => cmd'[g] = cmd[g]
        BY <3>3 DEF StoreInv
      <4>2. \A g \in Handlers : Carries(g)'
        BY <3>1, <3>3, <4>1 DEF StoreInv, Carries
      <4> QED
        BY <3>1, <3>3, <4>1, <4>2 DEF StoreInv, AsAsked, C!AsAsked, SlotsKept, C!SlotsKept
    <3> QED
      BY <2>3, <3>2, <3>3 DEF C!UpdatePriorities
  <2>4. CASE C!Deadlock(h)
    BY <2>4, RefusedQuietly DEF C!Deadlock
  <2>5. CASE C!InsertQuota(h)
    BY <2>5, StoredQuietly DEF C!InsertQuota
  <2>6. CASE C!Publish(h)
    <3>1. /\ storePc[h] = "publish" /\ storePc' = [storePc EXCEPT ![h] = "idle"] /\ cmd' = cmd
          /\ UNCHANGED <<items, asked, stale, slots, filled, lost>>
      BY <2>6 DEF C!Publish
    <3>2. DOMAIN storePc' = Handlers /\ storePc'[h] = "idle" /\ \A g \in Handlers : g # h => storePc'[g] = storePc[g]
      BY <3>1 DEF StoreInv
    <3>3. \A g \in Handlers : Carries(g)'
      BY <3>1, <3>2 DEF StoreInv, Carries
    <3> QED
      BY <3>1, <3>2, <3>3 DEF StoreInv, AsAsked, C!AsAsked, SlotsKept, C!SlotsKept
  <2> QED
    BY <1>3, <2>1, <2>2, <2>3, <2>4, <2>5, <2>6, WriteItemKeeps, CommitReorderKeeps, DropCredentialKeeps,
       ClearSlotKeeps, InsertAssignmentKeeps DEF C!Step
<1>4. ASSUME NEW h \in Handlers, C!Fail(h)
      PROVE  StoreInv'
  BY <1>4, StoreFailKeeps
<1> QED
  BY <1>1, <1>2, <1>3, <1>4 DEF C!Next

-----------------------------------------------------------------------------
(* The two parts together *)

ConfigInv == TypeOK /\ ArgOK /\ SettledInv /\ StoreInv

\* Of a region: the tables and the handlers hold what they can hold, and while commands come
\* one after the other the tables and the published snapshot differ only in what the command
\* under way has yet to publish.  Of an organization: every patch under way is the row it was
\* read from with the fields given, a filled slot holds the assignment made last, and a delete
\* knows the assignments made since it found its credential free.
THEOREM ConfigInvariant == MCSpec => []ConfigInv
<1>1. MCInit => ConfigInv
  BY RegionTypesInit, SettledInit, StoreInit DEF MCInit, ConfigInv
<1>2. ConfigInv /\ [MCNext]_<<part, vars, inStore>> => ConfigInv'
  <2> SUFFICES ASSUME ConfigInv, [MCNext]_<<part, vars, inStore>> PROVE ConfigInv'
    OBVIOUS
  <2>1. [Next]_vars /\ [C!Next]_(C!vars)
    BY DEF MCNext, inStore, C!vars, C!tables, C!hist
  <2> QED
    BY <2>1, RegionTypesStep, SettledStep, StoreStep DEF ConfigInv
<1> QED
  BY <1>1, <1>2, PTL DEF MCSpec

\* No path through a command on a region changes its tables without the publish that makes
\* the change known to its gateways (PublishRegion, at the end of every command but an
\* update of the region itself).
THEOREM SettledAlways == MCSpec => []Settled
<1>1. ConfigInv => Settled
  BY DEF ConfigInv, SettledInv, Settled, Synced
<1> QED
  BY <1>1, ConfigInvariant, PTL

\* OverlayToSlice: an overlay replaces the organization's routes and the rest of its
\* configuration in the region, and leaves its keys those of the hub.
THEOREM OverlayReplacesAlways == MCSpec => []OverlayReplaces
<1>1. ConfigInv => OverlayReplaces
  BY OverlaysReplace DEF ConfigInv
<1> QED
  BY <1>1, ConfigInvariant, PTL

\* The patches answered add up to the rows, a reorder as a whole, wherever no handler wrote
\* back a row that another command had changed since it was read.
THEOREM AsAskedAlways == MCSpec => []AsAsked
<1>1. ConfigInv => AsAsked
  BY DEF ConfigInv, StoreInv
<1> QED
  BY <1>1, ConfigInvariant, PTL

\* Assign and DeleteCredential, whatever handlers run: an assignment goes only with a
\* credential deleted while it was made, or with an assign that failed between its two
\* statements.
THEOREM SlotsKeptAlways == MCSpec => []SlotsKept
<1>1. ConfigInv => SlotsKept
  BY DEF ConfigInv, StoreInv
<1> QED
  BY <1>1, ConfigInvariant, PTL
================================================================================
